---------------------------- MODULE CoBatch_proof ----------------------------
(***************************************************************************)
(* Theorems about the coroutine library under the batch client, for every  *)
(* heap, every capacity of co_stack and every number of coroutines that    *)
(* fits it: the type invariant, the inductive invariant BatchInv, and what *)
(* follows from it.  With at most three coroutines in a round, SavedShallow*)
(* makes the client safe altogether.                                       *)
(***************************************************************************)
EXTENDS CoBatch, Libco_proof

USE LibcoAssumption, BatchAssumption

\* The processor

\* Behind frames that co_wait left, main is where the deeper ones put it.
LEMMA LandInWait ==
    ASSUME NEW f \in {"wait", "reclaim"}, NEW g \in {"wait", "reclaim"},
           Restorable(f, g)
    PROVE  Landing(f, g) = IF g = "wait" THEN "wait" ELSE "client"
BY DEF Restorable, Landing, Frame

\* A co_yield that does not go wild puts the processor on the stack of the
\* coroutine it picked, and `current' is right again.
LEMMA SwitchOutcome ==
    ASSUME LibcoTypeOK, ~wild, Processor, \A k \in alloc : Worker(k),
           alloc' \subseteq alloc, UNCHANGED uc_link,
           NEW n \in Live', NEW f \in {"yield", "wait", "reclaim"},
           NEW st \in [Block -> Status],
           st[Main] # "dead",
           \A k \in alloc : st[k] = "dead" <=> at[k] = "over",
           running = Main => f \in {"wait", "reclaim"},
           running # Main => f = "yield",
           SwitchTo(n, f, st), ~wild'
    PROVE  LET pos == [at EXCEPT ![running] = f]
           IN  /\ n \in Block
               /\ n # Main => at[n] # "over"
               /\ running' = n /\ current' = n
               /\ \A k \in Block : status'[k] = "dead" <=> st[k] = "dead"
               /\ context' = [context EXCEPT ![current] =
                                 [owner |-> running, frame |-> f]]
               /\ n = Main => Restorable(context'[Main].frame, pos[Main])
               /\ at' = [pos EXCEPT ![n] =
                            IF n = Main
                            THEN Landing(context'[Main].frame, pos[Main])
                            ELSE "client"]
<1> DEFINE pos == [at EXCEPT ![running] = f]
           o   == context'[n].owner
<1>1. n \in Block /\ st[n] # "dead" /\ current' = n
  BY DEF SwitchTo, Pickable, Marked, Live, LibcoTypeOK, Block
<1>2. context' = [context EXCEPT ![current] = [owner |-> running, frame |-> f]]
  BY DEF SwitchTo, Pickable, Marked
<1>3. \A k \in Block : status'[k] = "dead" <=> st[k] = "dead"
  BY <1>1 DEF SwitchTo, Pickable, Marked, LibcoTypeOK
<1>4. /\ Restorable(context'[n].frame, pos[o])
      /\ running' = o
      /\ at' = [pos EXCEPT ![o] = Landing(context'[n].frame, pos[o])]
  BY <1>2 DEF SwitchTo, Pickable, Marked, Resume
<1>5. CASE n = Main
  <2>1. o = Main
    <3>1. current \in Block /\ context[Main].owner = Main
      BY DEF Processor, LibcoTypeOK
    <3>2. current = Main => running = Main
      BY DEF Processor
    <3> QED  BY <1>1, <1>2, <1>5, <3>1, <3>2 DEF LibcoTypeOK
  <2>2. /\ Restorable(context'[Main].frame, pos[Main])
        /\ running' = Main
        /\ at' = [pos EXCEPT ![Main] = Landing(context'[Main].frame, pos[Main])]
    BY <1>4, <1>5, <2>1, Zenon
  <2> QED  BY <1>1, <1>2, <1>3, <1>5, <2>2
<1>6. CASE n # Main
  <2>1. n \in alloc /\ at[n] # "over" /\ Worker(n)
    BY <1>1, <1>6 DEF Live
  <2>2. o = n /\ Landing(context'[n].frame, pos[o]) = "client"
    <3>1. CASE n = running
      <4>1. current = n /\ f = "yield"
        BY <3>1, <1>6 DEF Processor
      <4> QED  BY <4>1, <1>1, <1>2, <3>1 DEF Landing, LibcoTypeOK
    <3>2. CASE n # running
      <4>1. n # current
        BY <3>2, <2>1, <1>6 DEF Processor
      <4>2. context'[n] = [owner |-> n, frame |-> at[n]] /\ at[n] \in {"entry", "yield"}
        BY <4>1, <1>1, <1>2, <2>1, <3>2 DEF Worker, LibcoTypeOK
      <4> QED  BY <4>2 DEF Landing
    <3> QED  BY <3>1, <3>2
  <2> QED  BY <1>1, <1>2, <1>3, <1>4, <1>6, <2>1, <2>2
<1> QED  BY <1>5, <1>6

\* A co_yield that does not go wild keeps what BatchInv says of the processor
\* and of the workers.
LEMMA SwitchKeeps ==
    ASSUME LibcoTypeOK, ~wild, Processor, \A k \in alloc : Worker(k),
           alloc' \subseteq alloc, UNCHANGED uc_link,
           NEW n \in Live', NEW f \in {"yield", "wait", "reclaim"},
           NEW st \in [Block -> Status],
           st[Main] # "dead",
           \A k \in alloc : st[k] = "dead" <=> at[k] = "over",
           running = Main => f \in {"wait", "reclaim"},
           running # Main => f = "yield",
           SwitchTo(n, f, st), ~wild'
    PROVE  Processor' /\ \A k \in alloc' : Worker(k)'
<1> DEFINE pos == [at EXCEPT ![running] = f]
<1>1. /\ n \in Block
      /\ n # Main => at[n] # "over"
      /\ running' = n /\ current' = n
      /\ \A k \in Block : status'[k] = "dead" <=> st[k] = "dead"
      /\ context' = [context EXCEPT ![current] = [owner |-> running, frame |-> f]]
      /\ at' = [pos EXCEPT ![n] =
                   IF n = Main
                   THEN Landing(context'[Main].frame, pos[Main])
                   ELSE "client"]
  BY SwitchOutcome
<1>2. running \in Block /\ current \in Block /\ Main \in Block
  BY DEF LibcoTypeOK, Block
<1>3. Processor'
  <2>1. running' \in Live' /\ current' \in Live' /\ status'[Main] # "dead"
    BY <1>1, <1>2
  <2>2. context'[Main].owner = Main
    BY <1>1, <1>2 DEF Processor, LibcoTypeOK, Context
  <2>3. CASE n = Main
    <3>1. at'[Main] \in {"client", "wait"}
      BY <1>1, <1>2, <2>3 DEF LibcoTypeOK, Landing
    <3> QED  BY <1>1, <2>1, <2>2, <2>3, <3>1 DEF Processor
  <2>4. CASE n # Main
    <3>1. at'[Main] \in {"wait", "reclaim"}
      BY <1>1, <1>2, <2>4 DEF LibcoTypeOK, Processor
    <3> QED  BY <1>1, <2>1, <2>2, <2>4, <3>1 DEF Processor
  <2> QED  BY <2>3, <2>4
<1>4. ASSUME NEW k \in alloc'
      PROVE  Worker(k)'
  <2>1. /\ k \in alloc /\ k \in Block /\ k # Main /\ Worker(k)
        /\ uc_link'[k] = Main
    BY DEF LibcoTypeOK, Block, Worker
  <2>2. CASE k = n
    <3>1. at'[k] = "client" /\ running' = k /\ status'[k] # "dead"
      BY <1>1, <1>2, <2>1, <2>2 DEF LibcoTypeOK
    <3> QED  BY <2>1, <3>1 DEF Worker
  <2>3. CASE k # n /\ k = running
    <3>1. at'[k] = "yield" /\ running' # k /\ status'[k] # "dead"
      BY <1>1, <1>2, <2>1, <2>3 DEF LibcoTypeOK, Worker
    <3>2. context'[k] = [owner |-> k, frame |-> "yield"]
      BY <1>1, <1>2, <2>1, <2>3 DEF LibcoTypeOK, Processor
    <3> QED  BY <2>1, <3>1, <3>2 DEF Worker
  <2>4. CASE k # n /\ k # running
    <3>1. /\ at'[k] = at[k] /\ running' # k
          /\ status'[k] = "dead" <=> at[k] = "over"
      BY <1>1, <1>2, <2>1, <2>4 DEF LibcoTypeOK, Worker
    <3>2. at[k] # "over" => context'[k] = context[k]
      BY <1>1, <1>2, <2>1, <2>4 DEF LibcoTypeOK, Processor
    <3> QED  BY <2>1, <2>4, <3>1, <3>2 DEF Worker
  <2> QED  BY <2>2, <2>3, <2>4
<1> QED  BY <1>3, <1>4

\* What a co_yield that does not go wild means for main and for the ended.
LEMMA MainAfterSwitch ==
    ASSUME LibcoTypeOK, ~wild, Processor, \A k \in alloc : Worker(k),
           alloc' \subseteq alloc, UNCHANGED uc_link,
           NEW n \in Live', NEW f \in {"yield", "wait", "reclaim"},
           NEW st \in [Block -> Status],
           st[Main] # "dead",
           \A k \in alloc : st[k] = "dead" <=> at[k] = "over",
           running = Main => f \in {"wait", "reclaim"},
           running # Main => f = "yield",
           current # Main => context[Main].frame \in {"wait", "reclaim"},
           SwitchTo(n, f, st), ~wild'
    PROVE  LET g == IF running = Main THEN f ELSE at[Main]
           IN  /\ g \in {"wait", "reclaim"}
               /\ context'[Main].frame = IF current = Main THEN f
                                         ELSE context[Main].frame
               /\ context'[Main].frame \in {"wait", "reclaim"}
               /\ at'[Main] = IF n = Main /\ g = "reclaim" THEN "client" ELSE g
               /\ n = Main /\ g = "wait" => context'[Main].frame = "wait"
               /\ current' = n /\ running' = n
               /\ n # Main => at[n] # "over"
               /\ \A k \in Co : at'[k] = "over" <=> (k # n /\ k # running /\ at[k] = "over")
<1> DEFINE pos == [at EXCEPT ![running] = f]
           g   == IF running = Main THEN f ELSE at[Main]
<1>1. /\ n \in Block
      /\ n # Main => at[n] # "over"
      /\ running' = n /\ current' = n
      /\ context' = [context EXCEPT ![current] = [owner |-> running, frame |-> f]]
      /\ n = Main => Restorable(context'[Main].frame, pos[Main])
      /\ at' = [pos EXCEPT ![n] =
                   IF n = Main
                   THEN Landing(context'[Main].frame, pos[Main])
                   ELSE "client"]
  BY SwitchOutcome
<1>2. running \in Block /\ current \in Block /\ Main \in Block /\ Co \subseteq Block
  BY DEF LibcoTypeOK, Block
<1>3. pos[Main] = g /\ g \in {"wait", "reclaim"}
  BY <1>2 DEF LibcoTypeOK, Processor
<1>4. context'[Main].frame = IF current = Main THEN f ELSE context[Main].frame
  BY <1>1, <1>2 DEF LibcoTypeOK
<1>5. context'[Main].frame \in {"wait", "reclaim"}
  BY <1>4 DEF Processor
<1>6. at'[Main] = IF n = Main /\ g = "reclaim" THEN "client" ELSE g
  <2>1. CASE n = Main
    <3>1. at'[Main] = Landing(context'[Main].frame, g)
      BY <1>1, <1>2, <1>3, <2>1 DEF LibcoTypeOK
    <3>2. Restorable(context'[Main].frame, g)
      BY <1>1, <1>3, <2>1
    <3>3. Landing(context'[Main].frame, g) = IF g = "wait" THEN "wait" ELSE "client"
      BY <1>3, <1>5, <3>2, LandInWait
    <3> QED  BY <1>3, <2>1, <3>1, <3>3
  <2>2. CASE n # Main
    BY <1>1, <1>2, <1>3, <2>2 DEF LibcoTypeOK
  <2> QED  BY <2>1, <2>2
<1>7. n = Main /\ g = "wait" => context'[Main].frame = "wait"
  BY <1>1, <1>3, <1>5 DEF Restorable
<1>8. ASSUME NEW k \in Co
      PROVE  at'[k] = "over" <=> (k # n /\ k # running /\ at[k] = "over")
  <2>1. k \in Block /\ k # Main
    BY <1>2
  <2> QED  BY <1>1, <1>2, <2>1 DEF LibcoTypeOK
<1> QED  BY <1>1, <1>3, <1>4, <1>5, <1>6, <1>7, <1>8

----------------------------------------------------------------------------
\* The books

\* refresh_co_stack takes the second entry of co_stack away: main waits in
\* the order of co_start.
LEMMA ReclaimSecond ==
    ASSUME TypeOK, Books, Len(thd) > freed, NEW n \in Block,
           Reclaim(thd[freed + 1], n)
    PROVE  /\ Len(co_stack') = Len(co_stack) - 1
           /\ co_stack'[1] = Main
           /\ \A i \in 2 .. Len(co_stack') : co_stack'[i] = co_stack[i + 1]
           /\ alloc' = {thd[i] : i \in freed + 2 .. Len(thd)}
<1>1. /\ freed \in Nat /\ Len(thd) \in Nat /\ Len(co_stack) \in Nat
      /\ Len(co_stack) >= 2
      /\ \A i \in 1 .. Len(thd) : thd[i] \in Co /\ thd[i] # Main
  BY DEF TypeOK, Books
<1>2. PICK i \in 1 .. Len(co_stack) :
         /\ co_stack[i] = thd[freed + 1]
         /\ co_stack' = [j \in 1 .. Len(co_stack) - 1 |->
                            IF j < i THEN co_stack[j] ELSE co_stack[j + 1]]
  BY DEF Reclaim, Without
<1>3. i = 2
  <2>1. i # 1
    BY <1>1, <1>2 DEF Books
  <2>2. thd[freed + i - 1] = thd[freed + 1]
    BY <1>1, <1>2, <2>1 DEF Books
  <2>3. freed + i - 1 \in 1 .. Len(thd) /\ freed + 1 \in 1 .. Len(thd)
    BY <1>1, <2>1 DEF Books
  <2>4. \A a, b \in 1 .. Len(thd) : thd[a] = thd[b] => a = b
    BY DEF Books
  <2>5. freed + i - 1 = freed + 1
    BY <2>2, <2>3, <2>4
  <2> QED  BY <1>1, <2>5
<1>4. Len(co_stack') = Len(co_stack) - 1
  BY <1>1, <1>2
<1>5. alloc' = {thd[j] : j \in freed + 2 .. Len(thd)}
  <2>1. alloc' = alloc \ {thd[freed + 1]}
    BY DEF Reclaim
  <2> QED  BY <1>1, <2>1 DEF Books
<1> QED  BY <1>1, <1>2, <1>3, <1>4, <1>5 DEF Books

\* What is left of co_stack is live, so that is what next_co picks from.
LEMMA ReclaimLive ==
    ASSUME TypeOK, Books, Len(thd) > freed, NEW n \in Block,
           Reclaim(thd[freed + 1], n)
    PROVE  n \in Live' /\ alloc' \subseteq alloc /\ SwitchTo(n, "reclaim", status)
<1>1. /\ freed \in Nat /\ Len(thd) \in Nat /\ Len(co_stack) \in Nat
      /\ Len(co_stack) = 1 + Len(thd) - freed
  BY DEF TypeOK, LibcoTypeOK, Books
<1>2. /\ Len(co_stack') = Len(co_stack) - 1
      /\ co_stack'[1] = Main
      /\ \A i \in 2 .. Len(co_stack') : co_stack'[i] = co_stack[i + 1]
      /\ alloc' = {thd[i] : i \in freed + 2 .. Len(thd)}
  BY ReclaimSecond
<1>3. ASSUME NEW i \in 2 .. Len(co_stack')
      PROVE  co_stack'[i] \in alloc'
  <2>1. i + 1 \in 2 .. Len(co_stack) /\ freed + i \in freed + 2 .. Len(thd)
    BY <1>1, <1>2
  <2>2. co_stack[i + 1] = thd[freed + (i + 1) - 1] /\ freed + (i + 1) - 1 = freed + i
    BY <1>1, <2>1 DEF Books
  <2> QED  BY <1>2, <2>1, <2>2
<1>4. SwitchTo(n, "reclaim", status) /\ alloc' \subseteq alloc
  BY DEF Reclaim
<1>5. n \in Listed'
  BY <1>4 DEF SwitchTo, Pickable, Marked
<1>6. PICK i \in 1 .. Len(co_stack') : n = co_stack'[i]
  BY <1>5 DEF Listed
<1>7. CASE i = 1
  BY <1>2, <1>4, <1>6, <1>7 DEF Live
<1>8. CASE i # 1
  <2>1. i \in 2 .. Len(co_stack')
    BY <1>1, <1>2, <1>8
  <2> QED  BY <1>3, <1>4, <1>6, <2>1 DEF Live
<1> QED  BY <1>7, <1>8

----------------------------------------------------------------------------
\* The steps

\* co_start is only called when nothing but main has run in this round.
LEMMA StartStep ==
    ASSUME TypeOK, BatchInv, ~wild, NEW k \in Co, StartMore(k) \/ StartRound(k)
    PROVE  BatchInv' /\ ~wild'
<1>1. /\ Start(k) /\ running = Main /\ at[Main] = "client" /\ k \notin alloc
      /\ k \in Block /\ k # Main /\ Main \in Block
      /\ Books /\ Processor /\ Round
      /\ \A j \in alloc : Worker(j)
  BY DEF StartMore, StartRound, Start, LinkTarget, ClientRuns, BatchInv, Block
<1>2. /\ current = Main /\ waited' = 0 /\ freed = waited
      /\ thd' = IF waited = 0 THEN Append(thd, k) ELSE <<k>>
      /\ waited # 0 => waited = Len(thd)
      /\ waited = 0 => Len(thd) < Workers
      /\ \A j \in alloc : at[j] = "entry"
  <2>1. CASE StartMore(k)
    BY <1>1, <2>1 DEF StartMore, Round, freed
  <2>2. CASE StartRound(k)
    <3>1. alloc = {}
      BY <1>1, <2>2 DEF StartRound, Books, freed, TypeOK
    <3> QED  BY <1>1, <2>2, <3>1 DEF StartRound, Round, freed, TypeOK
  <2> QED  BY <2>1, <2>2
<1>3. Len(co_stack) < Capacity /\ Len(co_stack) \in Nat /\ Len(thd) \in Nat
  BY <1>1, <1>2 DEF Books, TypeOK, LibcoTypeOK
<1>4. /\ co_stack' = Append(co_stack, k) /\ wild' = wild
      /\ alloc' = alloc \cup {k}
      /\ status' = [status EXCEPT ![k] = "new"]
      /\ context' = [context EXCEPT ![k] = [owner |-> k, frame |-> "entry"]]
      /\ uc_link' = [uc_link EXCEPT ![k] = Main]
      /\ at' = [at EXCEPT ![k] = "entry"]
      /\ current' = Main /\ running' = Main
      /\ awaited' = [o \in Block |->
                        IF o \in {k, Main} \/ awaited[o] = k
                        THEN None ELSE awaited[o]]
  BY <1>1, <1>2, <1>3 DEF Start, LinkTarget
<1>5. at'[Main] = "client" /\ freed' = 0
  BY <1>1, <1>2, <1>4 DEF freed, TypeOK, LibcoTypeOK
<1>6. Books'
  <2>1. CASE waited = 0
    <3>1. thd' = Append(thd, k) /\ freed = 0 /\ Len(thd') = Len(thd) + 1
      BY <1>2, <2>1 DEF TypeOK
    <3>2. alloc = {thd[i] : i \in 1 .. Len(thd)}
      BY <1>1, <3>1 DEF Books
    <3>3. \A i \in 1 .. Len(thd) : thd'[i] = thd[i] /\ thd[i] # k
      BY <1>1, <3>1, <3>2 DEF TypeOK
    <3>4. thd'[Len(thd) + 1] = k
      BY <3>1 DEF TypeOK
    <3>5. alloc' = {thd'[i] : i \in 1 .. Len(thd')}
      BY <1>3, <1>4, <3>1, <3>2, <3>3, <3>4
    <3>6. \A i, j \in 1 .. Len(thd') : thd'[i] = thd'[j] => i = j
      BY <1>1, <1>3, <3>1, <3>3, <3>4 DEF Books
    <3>7. /\ Len(co_stack') = Len(co_stack) + 1
          /\ \A i \in 1 .. Len(co_stack) : co_stack'[i] = co_stack[i]
          /\ co_stack'[Len(co_stack) + 1] = k
      BY <1>4 DEF TypeOK, LibcoTypeOK
    <3>8. Len(co_stack) = Len(thd) + 1 /\ co_stack[1] = Main
      BY <1>1, <1>3, <3>1 DEF Books
    <3>9. \A i \in 2 .. Len(co_stack') : co_stack'[i] = thd'[i - 1]
      BY <1>1, <1>3, <3>1, <3>3, <3>4, <3>7, <3>8 DEF Books
    <3>10. /\ alloc' = {thd'[i] : i \in freed' + 1 .. Len(thd')}
           /\ freed' \in 0 .. Len(thd')
           /\ Len(co_stack') = 1 + Len(thd') - freed'
           /\ \A i \in 2 .. Len(co_stack') : co_stack'[i] = thd'[freed' + i - 1]
      BY <1>3, <1>5, <3>1, <3>5, <3>7, <3>8, <3>9
    <3>11. co_stack'[1] = Main /\ \A i \in 1 .. freed' : at'[thd'[i]] = "over"
      BY <1>3, <1>5, <3>7, <3>8
    <3> HIDE DEF freed
    <3> QED  BY <3>6, <3>10, <3>11 DEF Books
  <2>2. CASE waited # 0
    <3>1. thd' = <<k>> /\ alloc = {} /\ Len(co_stack) = 1 /\ co_stack[1] = Main
      BY <1>1, <1>2, <1>3, <2>2 DEF Books
    <3>2. Len(co_stack') = 2 /\ co_stack'[1] = Main /\ co_stack'[2] = k
      <4>1. co_stack \in Seq(Block) /\ k \in Block
        BY <1>1 DEF TypeOK, LibcoTypeOK
      <4>2. /\ Len(co_stack') = Len(co_stack) + 1
            /\ \A i \in 1 .. Len(co_stack) : co_stack'[i] = co_stack[i]
            /\ co_stack'[Len(co_stack) + 1] = k
        BY <1>4, <4>1
      <4>3. Len(co_stack) = 1 /\ co_stack[1] = Main
        BY <3>1
      <4> QED  BY <4>2, <4>3
    <3> QED  BY <1>4, <1>5, <3>1, <3>2 DEF Books
  <2> QED  BY <2>1, <2>2
<1>7. ASSUME NEW j \in alloc'
      PROVE  Worker(j)' /\ at'[j] = "entry"
  <2>1. j \in Co /\ j \in Block
    BY <1>4 DEF TypeOK, LibcoTypeOK, Block
  <2>2. CASE j = k
    BY <1>1, <1>4, <2>1, <2>2 DEF Worker, TypeOK, LibcoTypeOK
  <2>3. CASE j # k
    <3>1. j \in alloc /\ Worker(j) /\ at[j] = "entry"
      BY <1>1, <1>2, <1>4, <2>3
    <3> QED  BY <1>1, <1>4, <2>1, <2>3, <3>1 DEF Worker, TypeOK, LibcoTypeOK
  <2> QED  BY <2>2, <2>3
<1>8. Processor'
  BY <1>1, <1>4, <1>5 DEF Processor, Live, TypeOK, LibcoTypeOK
<1>9. Round'
  <2>1. \A j \in Co : awaited'[j] = None
    BY <1>1, <1>4 DEF Round, Block
  <2>2. awaited'[Main] = None
    BY <1>1, <1>4
  <2> QED  BY <1>2, <1>4, <1>5, <1>7, <2>1, <2>2 DEF Round
<1> QED  BY <1>4, <1>6, <1>7, <1>8, <1>9 DEF BatchInv

\* co_stack never offers next_co a coroutine that does not exist.
LEMMA ListedLive ==
    ASSUME TypeOK, Books
    PROVE  Listed = Live
<1>1. /\ freed \in Nat /\ Len(thd) \in Nat /\ Len(co_stack) \in Nat
      /\ Len(co_stack) = 1 + Len(thd) - freed /\ freed <= Len(thd)
  BY DEF TypeOK, LibcoTypeOK, Books
<1>2. ASSUME NEW x \in Listed
      PROVE  x \in Live
  <2>1. PICK i \in 1 .. Len(co_stack) : x = co_stack[i]
    BY DEF Listed
  <2>2. CASE i = 1
    BY <2>1, <2>2 DEF Books, Live
  <2>3. CASE i # 1
    <3>1. x = thd[freed + i - 1] /\ freed + i - 1 \in freed + 1 .. Len(thd)
      BY <1>1, <2>1, <2>3 DEF Books
    <3> QED  BY <3>1 DEF Books, Live
  <2> QED  BY <2>2, <2>3
<1>3. ASSUME NEW x \in Live
      PROVE  x \in Listed
  <2>1. CASE x = Main
    <3>1. 1 \in 1 .. Len(co_stack) /\ co_stack[1] = Main
      BY <1>1 DEF Books
    <3> QED  BY <2>1, <3>1 DEF Listed
  <2>2. CASE x \in alloc
    <3>1. PICK i \in freed + 1 .. Len(thd) : x = thd[i]
      BY <2>2 DEF Books
    <3>2. i - freed + 1 \in 2 .. Len(co_stack) /\ freed + (i - freed + 1) - 1 = i
      BY <1>1, <3>1
    <3>3. co_stack[i - freed + 1] = x
      BY <3>1, <3>2 DEF Books
    <3>4. i - freed + 1 \in 1 .. Len(co_stack)
      BY <1>1, <3>2
    <3> QED  BY <3>3, <3>4 DEF Listed
  <2> QED  BY <2>1, <2>2 DEF Live
<1> QED  BY <1>2, <1>3

\* The co_wait of a coroutine that has ended frees it and switches.
LEMMA ReclaimStep ==
    ASSUME TypeOK, BatchInv, ~wild, running = Main,
           freed < Len(thd), waited' = freed + 1, UNCHANGED thd,
           status[thd[freed + 1]] = "dead",
           awaited'[Main] = thd[freed + 1],
           \A k \in Co : awaited'[k] = None,
           UNCHANGED uc_link,
           NEW n \in Block, Reclaim(thd[freed + 1], n), ~wild'
    PROVE  BatchInv'
<1> DEFINE k == thd[freed + 1]
<1>1. /\ Books /\ Processor /\ Round
      /\ \A j \in alloc : Worker(j)
      /\ Main \in Block /\ Main \notin Co /\ alloc \subseteq Co
  BY DEF BatchInv, Block, TypeOK, LibcoTypeOK
<1>2. /\ freed \in Nat /\ Len(thd) \in Nat
      /\ \A i \in 1 .. Len(thd) : thd[i] \in Co
      /\ freed + 1 \in 1 .. Len(thd)
  BY <1>1 DEF TypeOK, Books
<1>3. /\ Len(co_stack') = Len(co_stack) - 1
      /\ co_stack'[1] = Main
      /\ \A i \in 2 .. Len(co_stack') : co_stack'[i] = co_stack[i + 1]
      /\ alloc' = {thd[i] : i \in freed + 2 .. Len(thd)}
  BY <1>1, ReclaimSecond
<1>4. alloc' \subseteq alloc /\ k \notin alloc' /\ k \in alloc
  <2>1. alloc = {thd[i] : i \in freed + 1 .. Len(thd)}
    BY <1>1 DEF Books
  <2>2. alloc' = alloc \ {k}
    BY DEF Reclaim
  <2> QED  BY <1>2, <2>1, <2>2
<1>5. Len(co_stack) \in Nat /\ Len(co_stack) = 1 + Len(thd) - freed
  BY <1>1 DEF Books, TypeOK, LibcoTypeOK
<1>6. \A i \in 2 .. Len(co_stack') :
         /\ co_stack'[i] = thd[freed + i]
         /\ freed + i \in freed + 2 .. Len(thd)
  <2> TAKE i \in 2 .. Len(co_stack')
  <2>1. i + 1 \in 2 .. Len(co_stack) /\ freed + i \in freed + 2 .. Len(thd)
    BY <1>2, <1>3, <1>5
  <2>2. co_stack[i + 1] = thd[freed + (i + 1) - 1]
    BY <1>1, <2>1 DEF Books
  <2>3. freed + (i + 1) - 1 = freed + i
    BY <1>2, <2>1
  <2> QED  BY <1>3, <2>1, <2>2, <2>3
<1>7. n \in Live'
  BY <1>1, ReclaimLive
<1>8. /\ SwitchTo(n, "reclaim", status)
      /\ status \in [Block -> Status] /\ status[Main] # "dead"
      /\ \A j \in alloc : status[j] = "dead" <=> at[j] = "over"
      /\ current # Main => context[Main].frame \in {"wait", "reclaim"}
  <2>1. waited \in Nat
    BY <1>2 DEF TypeOK
  <2>2. SwitchTo(n, "reclaim", status)
    BY DEF Reclaim
  <2>3. status \in [Block -> Status] /\ status[Main] # "dead"
    BY <1>1 DEF TypeOK, LibcoTypeOK, Status, Processor
  <2>4. \A j \in alloc : status[j] = "dead" <=> at[j] = "over"
    BY <1>1 DEF Worker
  <2>5. current # Main => context[Main].frame \in {"wait", "reclaim"}
    BY <1>1, <2>1 DEF Round
  <2> QED  BY <2>2, <2>3, <2>4, <2>5
<1>9. Processor' /\ \A j \in alloc' : Worker(j)'
  BY <1>1, <1>4, <1>7, <1>8, SwitchKeeps DEF TypeOK
<1>10. /\ context'[Main].frame \in {"wait", "reclaim"}
       /\ at'[Main] = IF n = Main THEN "client" ELSE "reclaim"
       /\ current' = n /\ running' = n
       /\ \A j \in Co : at'[j] = "over" <=> (j # n /\ j # running /\ at[j] = "over")
  BY <1>1, <1>4, <1>7, <1>8, MainAfterSwitch DEF TypeOK
<1>11. freed' = freed + 1
  BY <1>10 DEF freed
<1>12. Books'
  <2>1. \A i \in 1 .. freed' : at'[thd'[i]] = "over"
    <3> TAKE i \in 1 .. freed'
    <3>1. i \in 1 .. Len(thd) /\ thd'[i] = thd[i] /\ thd[i] \in Co
      BY <1>2, <1>11
    <3>2. thd[i] \notin alloc'
      BY <1>1, <1>2, <1>3, <1>11, <3>1 DEF Books
    <3>3. at[thd[i]] = "over"
      <4>1. CASE i = freed + 1
        BY <1>1, <1>4, <4>1 DEF Worker
      <4>2. CASE i # freed + 1
        <5>1. i \in 1 .. freed
          BY <1>2, <1>11, <4>2
        <5> QED  BY <1>1, <5>1 DEF Books
      <4> QED  BY <4>1, <4>2
    <3> QED  BY <1>1, <1>7, <1>10, <3>1, <3>2, <3>3 DEF Live
  <2>2. /\ freed' \in 0 .. Len(thd')
        /\ alloc' = {thd'[i] : i \in freed' + 1 .. Len(thd')}
        /\ Len(co_stack') = 1 + Len(thd') - freed'
        /\ co_stack'[1] = Main
    BY <1>2, <1>3, <1>5, <1>11
  <2>3. \A i \in 2 .. Len(co_stack') : co_stack'[i] = thd'[freed' + i - 1]
    <3> TAKE i \in 2 .. Len(co_stack')
    <3>1. freed' + i - 1 = freed + i
      BY <1>2, <1>3, <1>5, <1>11
    <3> QED  BY <1>6, <3>1
  <2>4. \A i, j \in 1 .. Len(thd') : thd'[i] = thd'[j] => i = j
    BY <1>1 DEF Books
  <2> HIDE DEF freed
  <2> QED  BY <2>1, <2>2, <2>3, <2>4 DEF Books
<1>13. Round'
  <2>1. waited' > 0 /\ awaited'[Main] = thd'[waited'] /\ at'[Main] # "wait"
    BY <1>2, <1>10
  <2>2. alloc' = {} => current' = Main
    BY <1>7, <1>10 DEF Live
  <2> QED  BY <1>2, <1>10, <2>1, <2>2 DEF Round
<1> QED  BY <1>9, <1>12, <1>13 DEF BatchInv

\* The co_wait of a coroutine that has not ended switches.
LEMMA WaitStep ==
    ASSUME TypeOK, BatchInv, ~wild, running = Main,
           freed < Len(thd), waited' = freed + 1, UNCHANGED thd,
           NEW st \in [Block -> Status],
           \A j \in Block : st[j] = "dead" <=> status[j] = "dead",
           status[thd[freed + 1]] # "dead",
           awaited'[Main] = thd[freed + 1],
           \A k \in Co : awaited'[k] = None,
           UNCHANGED <<alloc, co_stack, uc_link>>,
           NEW n \in Block, SwitchTo(n, "wait", st), ~wild'
    PROVE  BatchInv'
<1>1. /\ Books /\ Processor /\ Round
      /\ \A j \in alloc : Worker(j)
      /\ Main \in Block /\ Main \notin Co /\ alloc \subseteq Co /\ Co \subseteq Block
  BY DEF BatchInv, Block, TypeOK, LibcoTypeOK
<1>2. /\ freed \in Nat /\ Len(thd) \in Nat /\ waited \in Nat
      /\ \A i \in 1 .. Len(thd) : thd[i] \in Co
      /\ freed + 1 \in freed + 1 .. Len(thd)
  BY <1>1 DEF TypeOK, Books
<1>3. n \in Live'
  BY <1>1, ListedLive DEF SwitchTo, Pickable, Marked, Listed, Live
<1>4. /\ st[Main] # "dead"
      /\ \A j \in alloc : st[j] = "dead" <=> at[j] = "over"
  BY <1>1 DEF Processor, Worker
<1>5. current # Main => context[Main].frame \in {"wait", "reclaim"}
  BY <1>1, <1>2 DEF Round
<1>6. Processor' /\ \A j \in alloc' : Worker(j)'
  BY <1>1, <1>3, <1>4, SwitchKeeps DEF TypeOK
<1>7. /\ context'[Main].frame \in {"wait", "reclaim"}
      /\ at'[Main] = "wait"
      /\ current' = n /\ running' = n
      /\ \A j \in Co : at'[j] = "over" <=> (j # n /\ j # running /\ at[j] = "over")
  BY <1>1, <1>3, <1>4, <1>5, MainAfterSwitch DEF TypeOK
<1>8. freed' = freed
  BY <1>2, <1>7 DEF freed
<1>9. thd[freed + 1] \in alloc /\ at[thd[freed + 1]] # "over"
  <2>1. thd[freed + 1] \in alloc
    BY <1>1, <1>2 DEF Books
  <2> QED  BY <1>1, <2>1 DEF Worker
<1>10. Books'
  <2>1. \A i \in 1 .. freed' : at'[thd'[i]] = "over"
    <3> TAKE i \in 1 .. freed'
    <3>1. /\ i \in 1 .. freed /\ i \in 1 .. Len(thd)
          /\ thd'[i] = thd[i] /\ thd[i] \in Co
      BY <1>2, <1>8
    <3>2. at[thd[i]] = "over"
      BY <1>1, <3>1 DEF Books
    <3>3. thd[i] \notin alloc'
      BY <1>1, <1>2, <3>1 DEF Books
    <3> QED  BY <1>1, <1>3, <1>7, <3>1, <3>2, <3>3 DEF Live
  <2> HIDE DEF freed
  <2> QED  BY <1>1, <1>8, <2>1 DEF Books
<1>11. Round'
  <2>1. waited' > 0 /\ thd'[waited'] = thd[freed + 1] /\ thd[freed + 1] \in Co
    BY <1>1, <1>2, <1>9
  <2>2. at'[thd'[waited']] # "over"
    BY <1>7, <1>9, <2>1
  <2>3. alloc' # {}
    BY <1>9
  <2> QED  BY <1>7, <2>1, <2>2, <2>3 DEF Round
<1> QED  BY <1>6, <1>10, <1>11 DEF BatchInv

\* The next co_wait of the round keeps the invariant.
LEMMA WaitNextStep ==
    ASSUME TypeOK, BatchInv, ~wild, NEW n \in Block, WaitNext(n), ~wild'
    PROVE  BatchInv'
<1> DEFINE k == thd[waited + 1]
<1>1. /\ running = Main /\ at[Main] = "client" /\ freed = waited
      /\ waited < Len(thd) /\ waited' = waited + 1 /\ UNCHANGED thd
      /\ Wait(k, n)
  BY DEF WaitNext, Wait, ClientRuns, freed
<1>2. /\ awaited' = [awaited EXCEPT ![Main] = k]
      /\ UNCHANGED uc_link
  BY <1>1 DEF Wait
<1>3. /\ awaited'[Main] = k
      /\ \A j \in Co : awaited'[j] = None
      /\ k \in Co
  BY <1>1, <1>2 DEF BatchInv, Round, TypeOK, LibcoTypeOK, Block
<1>4. CASE status[k] = "dead" /\ Reclaim(k, n)
  BY <1>1, <1>2, <1>3, <1>4, ReclaimStep
<1>5. CASE /\ status[k] # "dead" /\ UNCHANGED <<alloc, co_stack>>
           /\ SwitchTo(n, "wait", [status EXCEPT ![k] = "waiting"])
  <2> DEFINE st == [status EXCEPT ![k] = "waiting"]
  <2>1. st \in [Block -> Status] /\ \A j \in Block : st[j] = "dead" <=> status[j] = "dead"
    BY <1>5 DEF TypeOK, LibcoTypeOK, Status
  <2>2. SwitchTo(n, "wait", st)
    BY <1>5
  <2> HIDE DEF st
  <2> QED  BY <1>1, <1>2, <1>3, <1>5, <2>1, <2>2, WaitStep
<1> QED  BY <1>1, <1>4, <1>5 DEF Wait

\* A turn of the loop of co_wait keeps the invariant.
LEMMA WaitMoreStep ==
    ASSUME TypeOK, BatchInv, ~wild, NEW n \in Block, WaitMore(n), ~wild'
    PROVE  BatchInv' /\ running = Main /\ waited > 0 /\ waited \in 1 .. Len(thd)
<1> DEFINE k == thd[freed + 1]
<1>1. /\ Books /\ Processor /\ Round
      /\ \A j \in alloc : Worker(j)
  BY DEF BatchInv
<1>2. running = Main /\ at[Main] = "wait"
  BY <1>1 DEF WaitMore, WaitLoop, Processor, Worker, Live
<1>3. /\ waited \in 1 .. Len(thd) /\ waited > 0
      /\ freed = waited - 1 /\ freed < Len(thd) /\ waited = freed + 1
  BY <1>1, <1>2 DEF Books, freed, TypeOK
<1>4. awaited[Main] = k /\ \A j \in Co : awaited[j] = None
  BY <1>1, <1>3 DEF Round
<1>5. UNCHANGED <<thd, waited, uc_link, awaited>>
  BY DEF WaitMore, WaitLoop
<1>6. BatchInv'
  <2>1. CASE status[k] = "dead" /\ Reclaim(k, n)
    BY <1>2, <1>3, <1>4, <1>5, <2>1, ReclaimStep
  <2>2. CASE /\ status[k] # "dead" /\ UNCHANGED <<alloc, co_stack>>
             /\ SwitchTo(n, "wait", status)
    <3>1. status \in [Block -> Status]
      BY DEF TypeOK, LibcoTypeOK, Status
    <3> QED  BY <1>2, <1>3, <1>4, <1>5, <2>2, <3>1, WaitStep
  <2> QED  BY <1>2, <1>4, <2>1, <2>2 DEF WaitMore, WaitLoop
<1> QED  BY <1>2, <1>3, <1>6

\* While a worker runs, main is in co_wait and the books do not change.
LEMMA YieldStep ==
    ASSUME TypeOK, BatchInv, ~wild, NEW n \in Block, WorkerYields(n), ~wild'
    PROVE  BatchInv'
<1>1. /\ Books /\ Processor /\ Round
      /\ \A j \in alloc : Worker(j)
      /\ Main \in Block /\ Main \notin Co /\ alloc \subseteq Co /\ Co \subseteq Block
  BY DEF BatchInv, Block, TypeOK, LibcoTypeOK
<1>2. /\ running # Main /\ at[running] = "client"
      /\ awaited' = [awaited EXCEPT ![running] = None]
      /\ SwitchTo(n, "yield", status)
      /\ UNCHANGED <<alloc, co_stack, uc_link, thd, waited>>
  BY DEF WorkerYields, Yield, ClientRuns
<1>3. /\ current = running /\ running \in alloc
      /\ at[Main] \in {"wait", "reclaim"} /\ waited \in Nat /\ waited > 0
  <2>1. current = running /\ running \in alloc /\ at[Main] \in {"wait", "reclaim"}
    BY <1>1, <1>2 DEF Processor, Live
  <2> QED  BY <1>1, <2>1 DEF TypeOK, Round
<1>4. n \in Live'
  BY <1>1, <1>2, ListedLive DEF SwitchTo, Pickable, Marked, Listed, Live
<1>5. /\ status \in [Block -> Status] /\ status[Main] # "dead"
      /\ \A j \in alloc : status[j] = "dead" <=> at[j] = "over"
      /\ context[Main].frame \in {"wait", "reclaim"}
  BY <1>1, <1>3 DEF Processor, Worker, TypeOK, LibcoTypeOK, Status, Round
<1>6. Processor' /\ \A j \in alloc' : Worker(j)'
  BY <1>1, <1>2, <1>4, <1>5, SwitchKeeps DEF TypeOK
<1>7. /\ context'[Main].frame \in {"wait", "reclaim"}
      /\ at'[Main] = IF n = Main /\ at[Main] = "reclaim" THEN "client" ELSE at[Main]
      /\ current' = n /\ running' = n
      /\ \A j \in Co : at'[j] = "over" <=> (j # n /\ j # running /\ at[j] = "over")
  BY <1>1, <1>2, <1>4, <1>5, MainAfterSwitch DEF TypeOK
<1>8. freed' = freed /\ freed \in Nat /\ Len(thd) \in Nat
  BY <1>1, <1>2, <1>3, <1>7 DEF freed, Books, TypeOK
<1>9. Books'
  <2>1. \A i \in 1 .. freed' : at'[thd'[i]] = "over"
    <3> TAKE i \in 1 .. freed'
    <3>1. /\ i \in 1 .. freed /\ i \in 1 .. Len(thd)
          /\ thd'[i] = thd[i] /\ thd[i] \in Co
      BY <1>1, <1>2, <1>8 DEF TypeOK, Books
    <3>2. at[thd[i]] = "over"
      BY <1>1, <3>1 DEF Books
    <3>3. thd[i] \notin alloc'
      BY <1>1, <1>2, <1>8, <3>1 DEF Books
    <3> QED  BY <1>1, <1>2, <1>3, <1>4, <1>7, <3>1, <3>2, <3>3 DEF Live
  <2> HIDE DEF freed
  <2> QED  BY <1>1, <1>2, <1>8, <2>1 DEF Books
<1>10. Round'
  <2>1. \A j \in Co : awaited'[j] = None
    BY <1>1, <1>2 DEF Round, TypeOK, LibcoTypeOK
  <2>2. awaited'[Main] = thd[waited]
    BY <1>1, <1>2, <1>3 DEF Round, TypeOK, LibcoTypeOK
  <2>3. ~(at'[Main] = "wait" /\ at'[thd'[waited']] = "over")
    <3> SUFFICES ASSUME at'[Main] = "wait", at'[thd'[waited']] = "over"
                 PROVE  FALSE
      OBVIOUS
    <3>1. at[Main] = "wait"
      BY <1>3, <1>7
    <3>2. thd[waited] \in Co /\ thd'[waited'] = thd[waited]
      BY <1>2, <1>3 DEF TypeOK
    <3>3. at[thd[waited]] = "over" /\ thd[waited] # running
      BY <1>7, <3>2
    <3> QED  BY <1>1, <1>3, <3>1, <3>3 DEF Round
  <2>4. alloc' # {} /\ waited' # 0
    BY <1>2, <1>3
  <2> QED  BY <1>2, <1>7, <2>1, <2>2, <2>3, <2>4 DEF Round
<1> QED  BY <1>6, <1>9, <1>10 DEF BatchInv

\* The end of a worker brings main back, behind a `current' that is over.
LEMMA ReturnStep ==
    ASSUME TypeOK, BatchInv, ~wild, WorkerReturns, ~wild'
    PROVE  /\ BatchInv'
           /\ at'[Main] = IF at[Main] = "wait" THEN "wait" ELSE "client"
           /\ Restorable(context[Main].frame, at[Main])
           /\ UNCHANGED <<waited, thd, context>> /\ waited > 0
           /\ running \in alloc /\ at[running] = "client"
           /\ \A j \in Co : at'[j] = IF j = running THEN "over" ELSE at[j]
<1>1. /\ Books /\ Processor /\ Round
      /\ \A j \in alloc : Worker(j)
      /\ Main \in Block /\ Main \notin Co /\ alloc \subseteq Co /\ Co \subseteq Block
  BY DEF BatchInv, Block, TypeOK, LibcoTypeOK
<1> DEFINE pos == [at EXCEPT ![running] = "over"]
<1>2. /\ running # Main /\ at[running] = "client"
      /\ status' = [status EXCEPT ![running] = "dead"]
      /\ Resume(uc_link[running], context, pos)
      /\ UNCHANGED <<alloc, co_stack, current, context, uc_link, awaited, thd, waited>>
  BY DEF WorkerReturns, Return, ClientRuns
<1>3. /\ current = running /\ running \in alloc /\ uc_link[running] = Main
      /\ at[Main] \in {"wait", "reclaim"} /\ waited \in Nat /\ waited > 0
      /\ context[Main].frame \in {"wait", "reclaim"} /\ context[Main].owner = Main
  <2>1. current = running /\ running \in alloc /\ at[Main] \in {"wait", "reclaim"}
    BY <1>1, <1>2 DEF Processor, Live
  <2>2. waited \in Nat /\ waited > 0
    BY <1>1, <2>1 DEF TypeOK, Round
  <2> QED  BY <1>1, <2>1, <2>2 DEF Processor, Worker, Round
<1>4. pos[Main] = at[Main] /\ pos \in [Block -> Frame \cup {"client", "over"}]
  BY <1>1, <1>2 DEF TypeOK, LibcoTypeOK
<1>5. /\ Restorable(context[Main].frame, at[Main])
      /\ running' = Main
      /\ at' = [pos EXCEPT ![Main] = Landing(context[Main].frame, at[Main])]
  <2>1. Resume(Main, context, pos)
    BY <1>2, <1>3
  <2> QED  BY <1>3, <1>4, <2>1, Zenon DEF Resume
<1>6. at'[Main] = IF at[Main] = "wait" THEN "wait" ELSE "client"
  <2>1. Landing(context[Main].frame, at[Main])
          = IF at[Main] = "wait" THEN "wait" ELSE "client"
    BY <1>3, <1>5, LandInWait
  <2> QED  BY <1>1, <1>4, <1>5, <2>1
<1>7. \A j \in Co : at'[j] = IF j = running THEN "over" ELSE at[j]
  BY <1>1, <1>4, <1>5 DEF TypeOK, LibcoTypeOK
<1>8. freed' = freed /\ freed \in Nat /\ Len(thd) \in Nat
  BY <1>1, <1>2, <1>3, <1>6 DEF freed, Books, TypeOK
<1>9. Books'
  <2>1. \A i \in 1 .. freed' : at'[thd'[i]] = "over"
    <3> TAKE i \in 1 .. freed'
    <3>1. /\ i \in 1 .. freed /\ i \in 1 .. Len(thd)
          /\ thd'[i] = thd[i] /\ thd[i] \in Co
      BY <1>1, <1>2, <1>8 DEF TypeOK, Books
    <3>2. at[thd[i]] = "over"
      BY <1>1, <3>1 DEF Books
    <3> QED  BY <1>7, <3>1, <3>2
  <2> HIDE DEF freed
  <2> QED  BY <1>1, <1>2, <1>8, <2>1 DEF Books
<1>10. ASSUME NEW j \in alloc'
       PROVE  Worker(j)'
  <2>1. j \in alloc /\ j \in Co /\ j \in Block /\ j # Main /\ Worker(j)
    BY <1>1, <1>2
  <2>2. CASE j = running
    <3>1. at'[j] = "over" /\ status'[j] = "dead" /\ running' # j
      BY <1>2, <1>5, <1>7, <2>1, <2>2 DEF TypeOK, LibcoTypeOK
    <3> QED  BY <1>2, <2>1, <3>1 DEF Worker
  <2>3. CASE j # running
    <3>1. at'[j] = at[j] /\ status'[j] = status[j] /\ running' # j
      BY <1>2, <1>5, <1>7, <2>1, <2>3 DEF TypeOK, LibcoTypeOK
    <3> QED  BY <1>2, <2>1, <2>3, <3>1 DEF Worker
  <2> QED  BY <2>2, <2>3
<1>11. Processor'
  <2>1. status'[Main] # "dead"
    BY <1>1, <1>2 DEF Processor, TypeOK, LibcoTypeOK
  <2>2. at'[Main] \in {"client", "wait"} /\ at'[current'] = "over"
    BY <1>1, <1>2, <1>3, <1>6, <1>7
  <2> QED  BY <1>2, <1>3, <1>5, <2>1, <2>2 DEF Processor, Live
<1>12. Round'
  <2>1. (at'[Main] = "wait" /\ at'[thd[waited]] = "over") => current = thd[waited]
    <3>1. thd[waited] \in Co
      BY <1>3 DEF TypeOK
    <3> QED  BY <1>1, <1>3, <1>6, <1>7, <3>1 DEF Round
  <2>2. alloc' # {} /\ waited' # 0
    BY <1>2, <1>3
  <2> QED  BY <1>1, <1>2, <1>3, <2>1, <2>2 DEF Round
<1> QED  BY <1>2, <1>3, <1>5, <1>6, <1>7, <1>9, <1>10, <1>11, <1>12 DEF BatchInv

----------------------------------------------------------------------------
\* The theorems for every number of coroutines

\* A wild processor takes no step of the model.
LEMMA WildStops ==
    ASSUME wild, [Next]_vars
    PROVE  UNCHANGED vars
BY DEF Next, StartMore, StartRound, Start, Pick, WaitNext, Wait, WaitMore,
       WaitLoop, WorkerYields, Yield, WorkerReturns, Return, ClientRuns

\* After co_init, before main runs, the invariant holds.
LEMMA InitInv == Init => TypeOK /\ BatchInv
<1> SUFFICES ASSUME Init PROVE TypeOK /\ BatchInv
  OBVIOUS
<1>1. LibcoTypeOK
  <2>1. <<Main>> \in Seq(Block)
    BY DEF Block
  <2> QED  BY <2>1 DEF Init, LibcoInit, LibcoTypeOK, Block, Frame, Context
<1>2. /\ thd = <<>> /\ waited = 0 /\ Len(thd) = 0 /\ thd \in Seq(Co)
      /\ co_stack = <<Main>> /\ Len(co_stack) = 1 /\ co_stack[1] = Main
  BY DEF Init, LibcoInit
<1>3. /\ alloc = {} /\ running = Main /\ current = Main /\ at[Main] = "client"
      /\ status[Main] = "running" /\ context[Main].owner = Main
      /\ \A k \in Block : awaited[k] = None
  BY DEF Init, LibcoInit, Block
<1>4. Books
  BY <1>2, <1>3 DEF Books, freed
<1>5. Processor /\ Round
  BY <1>2, <1>3 DEF Processor, Round, Live, Block
<1> QED  BY <1>1, <1>2, <1>3, <1>4, <1>5 DEF TypeOK, BatchInv

\* Every step of the batch client keeps the types.
LEMMA NextType ==
    ASSUME TypeOK, BatchInv, Next
    PROVE  TypeOK'
<1>0. LibcoTypeOK /\ thd \in Seq(Co) /\ waited \in Nat /\ waited \in 0 .. Len(thd)
  BY DEF TypeOK
<1>1. ASSUME NEW k \in Co, StartMore(k)
      PROVE  TypeOK'
  <2>1. LibcoTypeOK'
    BY <1>0, <1>1, StartType DEF StartMore
  <2> QED  BY <1>0, <1>1, <2>1 DEF StartMore, TypeOK
<1>2. ASSUME NEW k \in Co, StartRound(k)
      PROVE  TypeOK'
  <2>1. LibcoTypeOK'
    BY <1>0, <1>2, StartType DEF StartRound
  <2> QED  BY <1>0, <1>2, <2>1 DEF StartRound, TypeOK
<1>3. ASSUME NEW n \in Block, WaitNext(n)
      PROVE  TypeOK'
  <2>1. thd[waited + 1] \in Co /\ waited' \in 0 .. Len(thd) /\ thd' = thd
    BY <1>0, <1>3 DEF WaitNext
  <2>2. LibcoTypeOK'
    BY <1>0, <1>3, <2>1, WaitType DEF WaitNext
  <2> QED  BY <1>0, <2>1, <2>2 DEF TypeOK
<1>4. ASSUME NEW n \in Block, WaitMore(n)
      PROVE  TypeOK'
  <2>1. ~wild /\ at[running] = "wait"
    BY <1>4 DEF WaitMore, WaitLoop
  <2>2. running = Main
    BY <2>1 DEF BatchInv, Processor, Worker, Live
  <2>3. awaited[running] \in Co
    BY <1>0, <2>1, <2>2 DEF BatchInv, Books, Round, freed
  <2>4. LibcoTypeOK'
    BY <1>0, <1>4, <2>3, WaitLoopType DEF WaitMore
  <2> QED  BY <1>0, <1>4, <2>4 DEF WaitMore, TypeOK
<1>5. ASSUME NEW n \in Block, WorkerYields(n)
      PROVE  TypeOK'
  <2>1. LibcoTypeOK'
    BY <1>0, <1>5, YieldType DEF WorkerYields
  <2> QED  BY <1>0, <1>5, <2>1 DEF WorkerYields, TypeOK
<1>6. CASE WorkerReturns
  <2>1. LibcoTypeOK'
    BY <1>0, <1>6, ReturnType DEF WorkerReturns
  <2> QED  BY <1>0, <1>6, <2>1 DEF WorkerReturns, TypeOK
<1> QED  BY <1>1, <1>2, <1>3, <1>4, <1>5, <1>6 DEF Next, Pick

\* Every step of the batch client keeps the inductive invariant.
LEMMA NextInv ==
    ASSUME TypeOK, BatchInv, [Next]_vars
    PROVE  TypeOK' /\ BatchInv'
<1>1. CASE UNCHANGED vars
  BY <1>1 DEF vars, libco, TypeOK, LibcoTypeOK, BatchInv, Books, Processor,
              Round, Worker, Live, freed
<1>2. CASE Next /\ ~wild
  <2>1. TypeOK'
    BY <1>2, NextType
  <2>2. CASE wild'
    BY <2>1, <2>2 DEF BatchInv
  <2>3. CASE ~wild'
    BY <1>2, <2>1, <2>3, StartStep, WaitNextStep, WaitMoreStep, YieldStep,
       ReturnStep DEF Next, Pick
  <2> QED  BY <2>1, <2>2, <2>3
<1>3. CASE wild
  BY <1>1, <1>3, WildStops
<1> QED  BY <1>1, <1>2, <1>3

\* The variables keep their types, however many coroutines a round has.
THEOREM TypeCorrect == Spec => []TypeOK
<1>1. TypeOK /\ BatchInv /\ [Next]_vars => (TypeOK /\ BatchInv)'
  BY NextInv
<1> QED  BY <1>1, InitInv, PTL DEF Spec

\* As long as the processor is in the program, the heap, co_stack, the saved
\* contexts and main's place in its round describe one another.
THEOREM Inductive == Spec => []BatchInv
<1>1. TypeOK /\ BatchInv /\ [Next]_vars => (TypeOK /\ BatchInv)'
  BY NextInv
<1> QED  BY <1>1, InitInv, PTL DEF Spec

\* As long as the processor is in the program, co_stack lists main and every
\* allocated coroutine exactly once.
THEOREM StackSafe == Spec => []StackListsLive
<1>1. ASSUME TypeOK, BatchInv
      PROVE  StackListsLive
  <2> SUFFICES ASSUME ~wild
               PROVE  /\ Listed = Live
                      /\ \A i, j \in 1 .. Len(co_stack) :
                            co_stack[i] = co_stack[j] => i = j
    BY DEF StackListsLive
  <2>1. Books
    BY <1>1 DEF BatchInv
  <2>2. /\ freed \in Nat /\ Len(thd) \in Nat /\ Len(co_stack) \in Nat
        /\ Len(co_stack) = 1 + Len(thd) - freed
        /\ \A i \in 1 .. Len(thd) : thd[i] # Main
    BY <1>1, <2>1 DEF TypeOK, LibcoTypeOK, Books
  <2>3. \A i \in 1 .. Len(co_stack) :
           i # 1 => /\ co_stack[i] = thd[freed + i - 1]
                    /\ freed + i - 1 \in 1 .. Len(thd)
    BY <2>1, <2>2 DEF Books
  <2>4. \A i, j \in 1 .. Len(thd) : thd[i] = thd[j] => i = j
    BY <2>1 DEF Books
  <2>5. ASSUME NEW i \in 1 .. Len(co_stack), NEW j \in 1 .. Len(co_stack),
               co_stack[i] = co_stack[j]
        PROVE  i = j
    <3>1. CASE i = 1 \/ j = 1
      <4>1. co_stack[1] = Main
        BY <2>1 DEF Books
      <4>2. \A a \in 1 .. Len(co_stack) : a # 1 => co_stack[a] # Main
        BY <2>2, <2>3
      <4> QED  BY <2>5, <3>1, <4>1, <4>2
    <3>2. CASE i # 1 /\ j # 1
      <4>1. freed + i - 1 = freed + j - 1
        BY <2>3, <2>4, <2>5, <3>2
      <4> QED  BY <2>2, <4>1
    <3> QED  BY <3>1, <3>2
  <2> QED  BY <1>1, <2>1, <2>5, ListedLive
<1> QED  BY <1>1, TypeCorrect, Inductive, PTL

\* However the coroutines interleave, co_wait returns to main only when the
\* awaited coroutine's function has returned.
THEOREM WaitsToTheEnd == Spec => []WaitReturnsAfterEnd
<1>1. ASSUME TypeOK, BatchInv
      PROVE  WaitReturnsAfterEnd
  <2> SUFFICES ASSUME ~wild, at[running] = "client", awaited[running] # None
               PROVE  at[awaited[running]] = "over"
    BY DEF WaitReturnsAfterEnd
  <2>1. Books /\ Processor /\ Round
    BY <1>1 DEF BatchInv
  <2>2. running = Main
    BY <1>1, <2>1 DEF Round, TypeOK, LibcoTypeOK, Block
  <2>3. waited > 0 /\ awaited[Main] = thd[waited] /\ freed = waited
    BY <1>1, <2>1, <2>2 DEF Round, TypeOK, freed
  <2> QED  BY <1>1, <2>1, <2>2, <2>3 DEF Books, TypeOK
<1> QED  BY <1>1, TypeCorrect, Inductive, PTL

----------------------------------------------------------------------------
\* At most three coroutines in a round

\* A co_yield that finds a usable context of main cannot go wild: the other
\* coroutines' contexts are always where their stacks are.
LEMMA SwitchTame ==
    ASSUME TypeOK, ~wild, Processor, \A k \in alloc : Worker(k),
           alloc' \subseteq alloc,
           NEW n \in Live', NEW f \in {"yield", "wait", "reclaim"},
           NEW st \in [Block -> Status],
           \A k \in alloc : st[k] = "dead" <=> at[k] = "over",
           running # Main => f = "yield",
           SwitchTo(n, f, st),
           LET g == IF running = Main THEN f ELSE at[Main]
               h == IF current = Main THEN f ELSE context[Main].frame
           IN  Restorable(h, g)
    PROVE  ~wild'
<1> DEFINE pos == [at EXCEPT ![running] = f]
           cx  == [context EXCEPT ![current] = [owner |-> running, frame |-> f]]
<1>1. /\ Resume(n, cx, pos) /\ st[n] # "dead"
      /\ running \in Block /\ current \in Block /\ Main \in Block /\ n \in Block
      /\ alloc \subseteq Co /\ Main \notin Co
  BY DEF SwitchTo, Pickable, Marked, TypeOK, LibcoTypeOK, Live, Block
<1>2. cx[n].owner = n /\ Restorable(cx[n].frame, pos[n])
  <2>1. CASE n = Main
    <3>1. /\ cx[Main].frame = IF current = Main THEN f ELSE context[Main].frame
          /\ pos[Main] = IF running = Main THEN f ELSE at[Main]
      BY <1>1 DEF TypeOK, LibcoTypeOK
    <3>2. current = Main => running = Main
      BY DEF Processor
    <3>3. cx[Main].owner = Main
      BY <1>1, <3>2 DEF TypeOK, LibcoTypeOK, Processor
    <3> QED  BY <2>1, <3>1, <3>3
  <2>2. CASE n # Main /\ n = running
    <3>1. current = n /\ f = "yield"
      BY <2>2 DEF Processor
    <3> QED  BY <1>1, <2>2, <3>1 DEF TypeOK, LibcoTypeOK, Restorable, Frame
  <2>3. CASE n # Main /\ n # running
    <3>1. n \in alloc /\ Worker(n) /\ at[n] # "over"
      BY <1>1, <2>3 DEF Live
    <3>2. n # current
      BY <2>3, <3>1 DEF Processor
    <3>3. /\ at[n] \in {"entry", "yield"}
          /\ cx[n] = [owner |-> n, frame |-> at[n]]
          /\ pos[n] = at[n]
      BY <1>1, <2>3, <3>1, <3>2 DEF Worker, TypeOK, LibcoTypeOK
    <3> QED  BY <3>3 DEF Restorable, Frame
  <2> QED  BY <2>1, <2>2, <2>3
<1> HIDE DEF cx, pos
<1> QED  BY <1>1, <1>2 DEF Resume

\* Main never calls co_wait for a live coroutine from behind the end of
\* another one with a deeper context saved in its own block.
LEMMA FreshWhenWaiting ==
    ASSUME Len(thd) <= 3, TypeOK, BatchInv, SavedShallow,
           running = Main, at[Main] = "client", waited < Len(thd),
           current # Main, at[thd[waited + 1]] # "over"
    PROVE  context[Main].frame = "wait"
<1>1. Books /\ Processor /\ Round /\ ~wild
  BY DEF BatchInv, SavedShallow
<1>2. waited \in Nat /\ waited # 0 /\ freed = waited /\ Len(thd) \in Nat
  BY <1>1 DEF TypeOK, Round, freed
<1>3. CASE waited = 1
  BY <1>3 DEF SavedShallow
<1>4. CASE waited # 1
  <2>1. waited = 2 /\ Len(thd) = 3
    <3>1. waited \in Nat /\ Len(thd) \in Nat /\ waited # 0 /\ waited # 1
      BY <1>2, <1>4
    <3>2. waited < Len(thd) /\ Len(thd) <= 3
      OBVIOUS
    <3>3. \A w, l \in Nat : w # 0 /\ w # 1 /\ w < l /\ l <= 3 => w = 2 /\ l = 3
      OBVIOUS
    <3> HIDE DEF freed
    <3> QED  BY <3>1, <3>2, <3>3
  <2>2. current \in alloc /\ at[current] = "over"
    BY <1>1 DEF Processor, Live
  <2>3. current = thd[3]
    BY <1>1, <1>2, <2>1, <2>2 DEF Books
  <2> QED  BY <2>1, <2>2, <2>3
<1> QED  BY <1>3, <1>4

\* With at most three coroutines in a round, every step leaves main's saved
\* context as shallow as the frame it will be restored on, and stays tame.
LEMMA ShallowNext ==
    ASSUME Len(thd) <= 3, TypeOK, BatchInv, SavedShallow, Next
    PROVE  SavedShallow'
<1>1. /\ ~wild /\ Books /\ Processor /\ Round
      /\ \A j \in alloc : Worker(j)
      /\ waited \in Nat /\ Len(thd) \in Nat /\ waited <= Len(thd)
      /\ Main \in Block /\ Main \notin Co /\ alloc \subseteq Co /\ Co \subseteq Block
      /\ status \in [Block -> Status] /\ status[Main] # "dead"
      /\ \A j \in alloc : status[j] = "dead" <=> at[j] = "over"
      /\ current # Main => context[Main].frame \in {"wait", "reclaim"}
  <2>1. ~wild /\ Books /\ Processor /\ Round /\ \A j \in alloc : Worker(j)
    BY DEF SavedShallow, BatchInv
  <2>2. waited \in Nat /\ Len(thd) \in Nat /\ waited <= Len(thd)
    BY DEF TypeOK
  <2>3. /\ Main \in Block /\ Main \notin Co /\ alloc \subseteq Co /\ Co \subseteq Block
        /\ status \in [Block -> Status]
    BY DEF TypeOK, LibcoTypeOK, Status, Block
  <2>4. /\ status[Main] # "dead"
        /\ \A j \in alloc : status[j] = "dead" <=> at[j] = "over"
    BY <2>1 DEF Processor, Worker
  <2>5. current # Main => context[Main].frame \in {"wait", "reclaim"}
    BY <2>1, <2>2 DEF Round
  <2> QED  BY <2>1, <2>2, <2>3, <2>4, <2>5
<1>2. ASSUME NEW k \in Co, StartMore(k) \/ StartRound(k)
      PROVE  SavedShallow'
  <2>1. ~wild'
    BY <1>1, <1>2, StartStep
  <2>2. /\ at[Main] = "client" /\ at' = [at EXCEPT ![k] = "entry"] /\ waited' = 0
        /\ k # Main
    BY <1>1, <1>2 DEF StartMore, StartRound, Start, ClientRuns
  <2>3. at'[Main] = "client"
    BY <1>1, <2>2 DEF TypeOK, LibcoTypeOK
  <2> QED  BY <2>1, <2>2, <2>3 DEF SavedShallow
<1>3. ASSUME NEW n \in Block, WaitNext(n)
      PROVE  SavedShallow'
  <2> DEFINE k  == thd[waited + 1]
             st == [status EXCEPT ![k] = "waiting"]
  <2>1. /\ running = Main /\ at[Main] = "client" /\ freed = waited
        /\ waited < Len(thd) /\ waited' = waited + 1
        /\ UNCHANGED uc_link /\ k \in Co /\ k \in alloc
    <3>1. /\ running = Main /\ at[Main] = "client" /\ freed = waited
          /\ waited < Len(thd) /\ waited' = waited + 1 /\ UNCHANGED uc_link
      BY <1>3 DEF WaitNext, Wait, ClientRuns, freed
    <3> QED  BY <1>1, <3>1 DEF Books
  <2>2. CASE status[k] = "dead" /\ Reclaim(k, n)
    <3>1. SwitchTo(n, "reclaim", status) /\ alloc' \subseteq alloc /\ n \in Live'
      BY <1>1, <2>1, <2>2, ReclaimLive
    <3>3. ~wild'
      <4>1. Restorable("reclaim", "reclaim") /\ Restorable("wait", "reclaim")
        BY DEF Restorable, Frame
      <4> QED  BY <1>1, <2>1, <3>1, <4>1, SwitchTame
    <3>4. at'[Main] # "wait"
      BY <1>1, <2>1, <3>1, <3>3, MainAfterSwitch DEF TypeOK
    <3>5. waited # 0
      BY <1>1, <2>1, <2>2 DEF Round
    <3> QED  BY <1>1, <2>1, <3>3, <3>4, <3>5 DEF SavedShallow
  <2>3. CASE /\ status[k] # "dead" /\ UNCHANGED <<alloc, co_stack>>
             /\ SwitchTo(n, "wait", st)
    <3>1. /\ st \in [Block -> Status] /\ st[Main] # "dead"
          /\ \A j \in alloc : st[j] = "dead" <=> at[j] = "over"
      BY <1>1, <2>1, <2>3 DEF Status
    <3> HIDE DEF st
    <3>2. n \in Live'
      BY <1>1, <2>3, ListedLive DEF SwitchTo, Pickable, Marked, Listed, Live
    <3>3. current # Main => context[Main].frame = "wait"
      BY <1>1, <2>1, <2>3, FreshWhenWaiting
    <3>4. ~wild'
      <4>1. Restorable("wait", "wait")
        BY DEF Restorable, Frame
      <4> QED  BY <1>1, <2>1, <2>3, <3>1, <3>2, <3>3, <4>1, SwitchTame
    <3>5. context'[Main].frame = IF current = Main THEN "wait" ELSE context[Main].frame
      BY <1>1, <2>1, <2>3, <3>1, <3>2, <3>4, MainAfterSwitch DEF TypeOK
    <3> QED  BY <3>3, <3>4, <3>5 DEF SavedShallow
  <2> QED  BY <1>3, <2>2, <2>3 DEF WaitNext, Wait
<1>4. ASSUME NEW n \in Block, WaitMore(n)
      PROVE  SavedShallow'
  <2> DEFINE k == thd[freed + 1]
  <2>1. running = Main /\ at[Main] = "wait" /\ context[Main].frame = "wait"
    BY <1>1, <1>4 DEF WaitMore, WaitLoop, Processor, Worker, Live, SavedShallow
  <2>2. /\ waited \in 1 .. Len(thd) /\ freed = waited - 1 /\ freed < Len(thd)
        /\ freed + 1 = waited /\ waited' = waited /\ UNCHANGED uc_link
    BY <1>1, <1>4, <2>1 DEF Books, freed, WaitMore, WaitLoop
  <2>3. awaited[running] = k /\ k \in alloc
    BY <1>1, <2>1, <2>2 DEF Round, Books
  <2>4. CASE status[k] = "dead" /\ Reclaim(k, n)
    <3>1. SwitchTo(n, "reclaim", status) /\ alloc' \subseteq alloc /\ n \in Live'
      BY <1>1, <2>2, <2>4, ReclaimLive
    <3>3. current # Main
      BY <1>1, <2>1, <2>2, <2>3, <2>4 DEF Round
    <3>4. ~wild'
      <4>1. Restorable("wait", "reclaim")
        BY DEF Restorable, Frame
      <4> QED  BY <1>1, <2>1, <3>1, <3>3, <4>1, SwitchTame
    <3>5. at'[Main] # "wait" /\ context'[Main].frame = "wait"
      BY <1>1, <2>1, <2>2, <3>1, <3>3, <3>4, MainAfterSwitch DEF TypeOK
    <3> QED  BY <3>4, <3>5 DEF SavedShallow
  <2>5. CASE /\ status[k] # "dead" /\ UNCHANGED <<alloc, co_stack>>
             /\ SwitchTo(n, "wait", status)
    <3>1. n \in Live'
      BY <1>1, <2>5, ListedLive DEF SwitchTo, Pickable, Marked, Listed, Live
    <3>2. ~wild'
      <4>1. Restorable("wait", "wait")
        BY DEF Restorable, Frame
      <4> QED  BY <1>1, <2>1, <2>5, <3>1, <4>1, SwitchTame
    <3>3. context'[Main].frame = "wait"
      BY <1>1, <2>1, <2>2, <2>5, <3>1, <3>2, MainAfterSwitch DEF TypeOK
    <3> QED  BY <3>2, <3>3 DEF SavedShallow
  <2> QED  BY <1>4, <2>3, <2>4, <2>5 DEF WaitMore, WaitLoop
<1>5. ASSUME NEW n \in Block, WorkerYields(n)
      PROVE  SavedShallow'
  <2>1. /\ running # Main /\ current = running
        /\ at[Main] \in {"wait", "reclaim"} /\ waited > 0
        /\ SwitchTo(n, "yield", status)
        /\ UNCHANGED <<alloc, co_stack, uc_link, thd, waited>>
    <3>1. /\ running # Main /\ SwitchTo(n, "yield", status)
          /\ UNCHANGED <<alloc, co_stack, uc_link, thd, waited>>
      BY <1>5 DEF WorkerYields, Yield
    <3> QED  BY <1>1, <3>1 DEF Processor, Round
  <2>2. n \in Live'
    BY <1>1, <2>1, ListedLive DEF SwitchTo, Pickable, Marked, Listed, Live
  <2>3. Restorable(context[Main].frame, at[Main])
    BY <1>1, <2>1 DEF SavedShallow, Restorable, Frame, Round
  <2>4. ~wild'
    BY <1>1, <2>1, <2>2, <2>3, SwitchTame
  <2>5. /\ context'[Main].frame = context[Main].frame
        /\ at'[Main] = "wait" => at[Main] = "wait"
    BY <1>1, <2>1, <2>2, <2>4, MainAfterSwitch DEF TypeOK
  <2> QED  BY <2>1, <2>4, <2>5 DEF SavedShallow
<1>6. CASE WorkerReturns
  <2>1. ~wild'
    <3> DEFINE pos == [at EXCEPT ![running] = "over"]
    <3>1. /\ running # Main /\ running \in alloc /\ uc_link[running] = Main
          /\ at[Main] \in {"wait", "reclaim"} /\ waited > 0
          /\ context[Main].owner = Main
      <4>1. running # Main
        BY <1>6 DEF WorkerReturns, Return
      <4>2. running \in alloc /\ at[Main] \in {"wait", "reclaim"} /\ context[Main].owner = Main
        BY <1>1, <4>1 DEF Processor, Live
      <4>3. uc_link[running] = Main
        BY <1>1, <4>2 DEF Worker
      <4>4. waited > 0
        BY <1>1, <4>2 DEF Round
      <4> QED  BY <4>1, <4>2, <4>3, <4>4
    <3>2. Restorable(context[Main].frame, at[Main]) /\ pos[Main] = at[Main]
      BY <1>1, <3>1 DEF SavedShallow, Restorable, Frame, Round, TypeOK, LibcoTypeOK
    <3>3. Resume(Main, context, pos) /\ Main \in Live'
      BY <1>6, <3>1 DEF WorkerReturns, Return, Live
    <3> HIDE DEF pos
    <3> QED  BY <1>1, <3>1, <3>2, <3>3 DEF Resume
  <2>2. /\ at'[Main] = IF at[Main] = "wait" THEN "wait" ELSE "client"
        /\ UNCHANGED <<waited, context>>
    BY <1>1, <1>6, <2>1, ReturnStep
  <2> QED  BY <2>1, <2>2 DEF SavedShallow
<1> QED  BY <1>2, <1>3, <1>4, <1>5, <1>6 DEF Next, Pick

\* With at most three coroutines in a round, SavedShallow always holds.
LEMMA ShallowInv ==
    ASSUME Workers <= 3, TypeOK, BatchInv, SavedShallow, [Next]_vars
    PROVE  SavedShallow'
<1>1. CASE UNCHANGED vars
  BY <1>1 DEF vars, libco, SavedShallow
<1>2. CASE Next
  <2>1. Len(thd) <= 3
    <3>1. Len(thd) \in Nat /\ Workers \in Nat /\ Len(thd) <= Workers
      BY BatchAssumption DEF TypeOK
    <3>2. \A l, w \in Nat : l <= w /\ w <= 3 => l <= 3
      OBVIOUS
    <3> QED  BY <3>1, <3>2
  <2> QED  BY <1>2, <2>1, ShallowNext
<1> QED  BY <1>1, <1>2

\* With at most three coroutines in a round, main's saved context is never
\* deeper than the frame that it will be restored on, over any heap and for any
\* number of rounds.
THEOREM ShallowUpToThree ==
    ASSUME Workers <= 3
    PROVE  Spec => []SavedShallow
<1>1. Init => TypeOK /\ BatchInv /\ SavedShallow
  <2>1. Init => SavedShallow
    BY DEF Init, LibcoInit, SavedShallow, Block
  <2> QED  BY <2>1, InitInv
<1>2. /\ TypeOK /\ BatchInv /\ SavedShallow
      /\ [Next]_vars
      => (TypeOK /\ BatchInv /\ SavedShallow)'
  BY NextInv, ShallowInv
<1> QED  BY <1>1, <1>2, PTL DEF Spec

\* So the processor is never sent to a stale, freed or finished context: the
\* library's defect of saving main into another coroutine's block cannot be
\* seen.  With four coroutines it can (the run batch_four).
THEOREM SafeUpToThree ==
    ASSUME Workers <= 3
    PROVE  Spec => []NeverWild
<1>1. SavedShallow => NeverWild
  BY DEF SavedShallow, NeverWild
<1> QED  BY <1>1, ShallowUpToThree, PTL

----------------------------------------------------------------------------
\* The batch client sees the coroutines that co.h promises

Phase(k) == IF k \notin alloc /\ k # joiningBar THEN "absent"
            ELSE IF at[k] = "over" THEN "ended" ELSE "started"

\* Whom main is waiting for, as its stack tells: nobody, a coroutine that is
\* still allocated, or one that ended and was freed.
LEMMA JoiningIs ==
    ASSUME TypeOK, BatchInv, ~wild
    PROVE  /\ at[Main] \in {"client", "wait", "reclaim"}
           /\ at[Main] = "client" => joiningBar = None
           /\ at[Main] # "client" =>
                 /\ waited \in 1 .. Len(thd)
                 /\ joiningBar = thd[waited] /\ joiningBar = awaited[Main]
                 /\ joiningBar \in Co /\ joiningBar # None
           /\ at[Main] = "wait" => joiningBar \in alloc /\ thd[freed + 1] = joiningBar
           /\ at[Main] = "reclaim" => /\ joiningBar \notin alloc
                                      /\ at[joiningBar] = "over"
<1>1. Books /\ Processor /\ Round
  BY DEF BatchInv
<1>2. at[Main] \in {"client", "wait", "reclaim"}
  BY <1>1 DEF Processor
<1>3. at[Main] = "client" => joiningBar = None
  BY DEF joiningBar
<1>4. ASSUME at[Main] # "client"
      PROVE  /\ waited \in 1 .. Len(thd)
             /\ joiningBar = thd[waited] /\ joiningBar = awaited[Main]
             /\ joiningBar \in Co /\ joiningBar # None
  <2>1. waited # 0 /\ waited \in 0 .. Len(thd) /\ Len(thd) \in Nat
    BY <1>1, <1>4 DEF Round, TypeOK
  <2>2. waited \in 1 .. Len(thd) /\ waited > 0
    BY <2>1
  <2>3. joiningBar = awaited[Main] /\ awaited[Main] = thd[waited] /\ thd[waited] \in Co
    BY <1>1, <1>2, <1>4, <2>2 DEF joiningBar, Round, TypeOK
  <2> QED  BY <2>2, <2>3
<1>5. ASSUME at[Main] = "wait"
      PROVE  joiningBar \in alloc /\ thd[freed + 1] = joiningBar
  <2>1. waited \in 1 .. Len(thd) /\ joiningBar = thd[waited]
    BY <1>4, <1>5
  <2>2. freed = waited - 1 /\ freed + 1 = waited /\ waited \in freed + 1 .. Len(thd)
    BY <1>5, <2>1 DEF freed
  <2> QED  BY <1>1, <2>1, <2>2 DEF Books
<1>6. ASSUME at[Main] = "reclaim"
      PROVE  joiningBar \notin alloc /\ at[joiningBar] = "over"
  <2>1. /\ waited \in 1 .. Len(thd) /\ waited \in 1 .. freed
        /\ joiningBar = thd[waited] /\ freed = waited
    BY <1>4, <1>6 DEF freed
  <2>2. at[thd[waited]] = "over"
    <3> HIDE DEF freed
    <3> QED  BY <1>1, <2>1 DEF Books
  <2>3. \A i \in freed + 1 .. Len(thd) : thd[i] # thd[waited]
    BY <1>1, <2>1 DEF Books
  <2>4. thd[waited] \notin alloc
    BY <1>1, <2>3 DEF Books
  <2> QED  BY <2>1, <2>2, <2>4
<1> QED  BY <1>2, <1>3, <1>4, <1>5, <1>6

\* The phases stay when nobody comes, goes or ends.
LEMMA PhasesStay ==
    ASSUME \A j \in Co : Phase(j)' = Phase(j)
    PROVE  UNCHANGED phaseBar
BY DEF phaseBar, Phase

\* One coroutine changes its phase.
LEMMA PhaseMoves ==
    ASSUME NEW k \in Co, NEW p,
           \A j \in Co : Phase(j)' = IF j = k THEN p ELSE Phase(j)
    PROVE  phaseBar' = [phaseBar EXCEPT ![k] = p]
BY DEF phaseBar, Phase

LEMMA PhaseIs ==
    ASSUME NEW k \in Co
    PROVE  phaseBar[k] = Phase(k)
BY DEF phaseBar, Phase

\* A co_yield that does not go wild ends nobody's function, and it lets main
\* out of its co_wait only if that had come to refresh_co_stack.
LEMMA SwitchEndsNobody ==
    ASSUME TypeOK, BatchInv, ~wild,
           alloc' \subseteq alloc, UNCHANGED uc_link,
           NEW n \in Live', NEW f \in {"yield", "wait", "reclaim"},
           NEW st \in [Block -> Status],
           st[Main] # "dead",
           \A k \in alloc : st[k] = "dead" <=> at[k] = "over",
           running = Main => f \in {"wait", "reclaim"},
           running # Main => f = "yield",
           at[running] # "over",
           SwitchTo(n, f, st), ~wild'
    PROVE  LET g == IF running = Main THEN f ELSE at[Main]
           IN  /\ g \in {"wait", "reclaim"}
               /\ at'[Main] = IF n = Main /\ g = "reclaim" THEN "client" ELSE g
               /\ \A k \in Co : at'[k] = "over" <=> at[k] = "over"
<1>1. /\ Processor /\ Round /\ \A j \in alloc : Worker(j)
      /\ LibcoTypeOK
  BY DEF BatchInv, TypeOK
<1>2. current # Main => context[Main].frame \in {"wait", "reclaim"}
  BY <1>1 DEF Round, TypeOK
<1>3. LET g == IF running = Main THEN f ELSE at[Main]
      IN  /\ g \in {"wait", "reclaim"}
          /\ at'[Main] = IF n = Main /\ g = "reclaim" THEN "client" ELSE g
          /\ n # Main => at[n] # "over"
          /\ \A k \in Co : at'[k] = "over" <=> (k # n /\ k # running /\ at[k] = "over")
  BY <1>1, <1>2, MainAfterSwitch
<1>4. Main \notin Co
  OBVIOUS
<1> QED  BY <1>3, <1>4

\* refresh_co_stack as a step of the promise: k, which has ended, goes when
\* co_wait comes back at once, otherwise it stays until it does.
LEMMA ReclaimPhases ==
    ASSUME TypeOK, BatchInv, ~wild, running = Main, at[Main] \in {"client", "wait"},
           freed < Len(thd), status[thd[freed + 1]] = "dead",
           at[Main] = "wait" => joiningBar = thd[freed + 1],
           awaited'[Main] = thd[freed + 1], UNCHANGED uc_link,
           NEW n \in Block, Reclaim(thd[freed + 1], n), ~wild'
    PROVE  LET k == thd[freed + 1]
           IN  /\ k \in Co /\ k \in alloc /\ phaseBar[k] = "ended"
               /\ \/ joiningBar' = k /\ UNCHANGED phaseBar
                  \/ joiningBar' = None /\ phaseBar' = [phaseBar EXCEPT ![k] = "absent"]
<1> DEFINE k == thd[freed + 1]
<1>1. /\ Books /\ Processor /\ \A j \in alloc : Worker(j)
      /\ alloc \subseteq Co /\ Main \notin Co /\ None \notin Co
      /\ status \in [Block -> Status] /\ status[Main] # "dead"
  BY DEF BatchInv, TypeOK, LibcoTypeOK, Status, Processor
<1>2. k \in alloc /\ k \in Co /\ at[k] = "over"
  <2>1. freed + 1 \in freed + 1 .. Len(thd)
    BY <1>1 DEF Books
  <2>2. k \in alloc
    BY <1>1, <2>1 DEF Books
  <2> QED  BY <1>1, <2>2 DEF Worker
<1>3. /\ alloc' = alloc \ {k} /\ n \in Live' /\ alloc' \subseteq alloc
      /\ SwitchTo(n, "reclaim", status)
  BY <1>1, ReclaimLive DEF Reclaim
<1>4. /\ at'[Main] = IF n = Main THEN "client" ELSE "reclaim"
      /\ \A j \in Co : at'[j] = "over" <=> at[j] = "over"
  <2>1. at[running] # "over" /\ \A j \in alloc : status[j] = "dead" <=> at[j] = "over"
    BY <1>1 DEF Worker
  <2> QED  BY <1>1, <1>3, <2>1, SwitchEndsNobody
<1>5. joiningBar \in {None, k}
  BY DEF joiningBar
<1>6. phaseBar[k] = "ended"
  BY <1>2, PhaseIs DEF Phase
<1> HIDE DEF k
<1>7. CASE n = Main
  <2>1. joiningBar' = None
    BY <1>4, <1>7 DEF joiningBar
  <2>2. \A j \in Co : Phase(j)' = IF j = k THEN "absent" ELSE Phase(j)
    BY <1>1, <1>2, <1>3, <1>4, <1>5, <2>1 DEF Phase
  <2> QED  BY <1>2, <1>6, <2>1, <2>2, PhaseMoves DEF k
<1>8. CASE n # Main
  <2>1. joiningBar' = k
    BY <1>4, <1>8 DEF joiningBar, k
  <2>2. \A j \in Co : Phase(j)' = Phase(j)
    BY <1>1, <1>2, <1>3, <1>4, <1>5, <2>1 DEF Phase
  <2> QED  BY <1>2, <1>6, <2>1, <2>2, PhasesStay DEF k
<1> QED  BY <1>7, <1>8

\* As long as nobody goes wild, each step of the batch client, however many
\* coroutines it has, is a step of the promise or no step at all.
LEMMA StepPromised ==
    ASSUME TypeOK, BatchInv, ~wild, Next, ~wild'
    PROVE  [Promise!Next]_(Promise!vars)
<1>1. /\ Books /\ Processor /\ Round /\ \A j \in alloc : Worker(j)
      /\ alloc \subseteq Co /\ Main \notin Co /\ None \notin Co /\ Main \in Block
      /\ Co \subseteq Block /\ status \in [Block -> Status] /\ status[Main] # "dead"
      /\ waited \in Nat /\ Len(thd) \in Nat /\ waited <= Len(thd)
  BY DEF BatchInv, TypeOK, LibcoTypeOK, Status, Processor, Block
<1>2. \A j \in alloc : status[j] = "dead" <=> at[j] = "over"
  BY <1>1 DEF Worker
<1>3. ASSUME NEW k \in Co, StartMore(k) \/ StartRound(k)
      PROVE  Promise!Start(k)
  <2>1. /\ at[Main] = "client" /\ k \in Co \ alloc
        /\ alloc' = alloc \cup {k} /\ at' = [at EXCEPT ![k] = "entry"]
    BY <1>3 DEF StartMore, StartRound, Start, ClientRuns
  <2>2. joiningBar = None /\ joiningBar' = None
    BY <1>1, <2>1 DEF joiningBar, TypeOK, LibcoTypeOK
  <2>3. Phase(k) = "absent"
    BY <2>1, <2>2 DEF Phase
  <2>4. \A j \in Co : Phase(j)' = IF j = k THEN "started" ELSE Phase(j)
    BY <1>1, <2>1, <2>2 DEF Phase, TypeOK, LibcoTypeOK
  <2>5. phaseBar' = [phaseBar EXCEPT ![k] = "started"] /\ phaseBar[k] = "absent"
    BY <2>3, <2>4, PhaseMoves, PhaseIs
  <2> QED  BY <2>2, <2>5 DEF Promise!Start
<1>4. ASSUME NEW n \in Block, WaitNext(n)
      PROVE  \E k \in Co : Promise!Join(k)
  <2> DEFINE k  == thd[waited + 1]
             st == [status EXCEPT ![k] = "waiting"]
  <2>1. /\ running = Main /\ at[Main] = "client" /\ freed = waited
        /\ waited < Len(thd) /\ joiningBar = None
        /\ UNCHANGED uc_link /\ k \in alloc /\ k \in Co
        /\ awaited' = [awaited EXCEPT ![running] = k]
    <3>1. /\ running = Main /\ at[Main] = "client" /\ freed = waited
          /\ waited < Len(thd) /\ joiningBar = None
          /\ UNCHANGED uc_link /\ awaited' = [awaited EXCEPT ![running] = k]
          /\ k \in alloc
      BY <1>4 DEF WaitNext, Wait, ClientRuns, freed, joiningBar
    <3> QED  BY <1>1, <3>1
  <2>2. awaited'[Main] = k
    BY <1>1, <2>1 DEF TypeOK, LibcoTypeOK
  <2>3. CASE status[k] = "dead" /\ Reclaim(k, n)
    <3>1. /\ k \in Co /\ phaseBar[k] = "ended"
          /\ \/ joiningBar' = k /\ UNCHANGED phaseBar
             \/ joiningBar' = None /\ phaseBar' = [phaseBar EXCEPT ![k] = "absent"]
      BY <1>1, <2>1, <2>2, <2>3, ReclaimPhases
    <3> HIDE DEF k
    <3> QED  BY <2>1, <3>1 DEF Promise!Join
  <2>4. CASE /\ status[k] # "dead" /\ UNCHANGED <<alloc, co_stack>>
             /\ SwitchTo(n, "wait", st)
    <3>1. /\ st \in [Block -> Status] /\ st[Main] # "dead"
          /\ \A j \in alloc : st[j] = "dead" <=> at[j] = "over"
      BY <1>1, <1>2, <2>1, <2>4 DEF Status
    <3> HIDE DEF st
    <3>2. n \in Live'
      BY <1>1, <2>4, ListedLive DEF SwitchTo, Pickable, Listed, Live
    <3>3. at'[Main] = "wait" /\ \A j \in Co : at'[j] = "over" <=> at[j] = "over"
      BY <2>1, <2>4, <3>1, <3>2, SwitchEndsNobody
    <3>4. joiningBar' = k
      BY <2>2, <3>3 DEF joiningBar
    <3>5. \A j \in Co : Phase(j)' = Phase(j)
      BY <2>1, <2>4, <3>3, <3>4 DEF Phase
    <3>6. UNCHANGED phaseBar /\ phaseBar[k] # "absent"
      BY <1>1, <2>1, <3>5, PhasesStay, PhaseIs DEF Phase
    <3> HIDE DEF k
    <3> QED  BY <2>1, <3>4, <3>6 DEF Promise!Join
  <2> QED  BY <1>4, <2>3, <2>4 DEF WaitNext, Wait
<1>5. ASSUME NEW n \in Block, WaitMore(n)
      PROVE  Promise!Return \/ UNCHANGED Promise!vars
  <2> DEFINE k == thd[freed + 1]
  <2>1. running = Main /\ at[Main] = "wait"
    BY <1>1, <1>5 DEF WaitMore, WaitLoop, Processor, Worker, Live
  <2>2. /\ awaited[Main] = k /\ joiningBar = k /\ k \in alloc /\ k \in Co /\ k # None
        /\ freed < Len(thd)
    <3>1. waited \in 1 .. Len(thd) /\ freed = waited - 1
      BY <2>1, JoiningIs DEF freed
    <3> QED  BY <2>1, <3>1, JoiningIs
  <2>3. UNCHANGED <<awaited, uc_link>>
    BY <1>5 DEF WaitMore, WaitLoop
  <2>4. CASE status[k] = "dead" /\ Reclaim(k, n)
    <3>1. /\ phaseBar[k] = "ended"
          /\ \/ joiningBar' = k /\ UNCHANGED phaseBar
             \/ joiningBar' = None /\ phaseBar' = [phaseBar EXCEPT ![k] = "absent"]
      BY <2>1, <2>2, <2>3, <2>4, ReclaimPhases
    <3> HIDE DEF k
    <3> QED  BY <2>2, <3>1 DEF Promise!Return, Promise!vars
  <2>5. CASE /\ status[k] # "dead" /\ UNCHANGED <<alloc, co_stack>>
             /\ SwitchTo(n, "wait", status)
    <3>1. n \in Live'
      BY <1>1, <2>5, ListedLive DEF SwitchTo, Pickable, Listed, Live
    <3>2. at'[Main] = "wait" /\ \A j \in Co : at'[j] = "over" <=> at[j] = "over"
      BY <1>1, <1>2, <2>1, <2>3, <2>5, <3>1, SwitchEndsNobody
    <3>3. joiningBar' = joiningBar
      BY <2>1, <2>3, <3>2 DEF joiningBar
    <3>4. \A j \in Co : Phase(j)' = Phase(j)
      BY <2>5, <3>2, <3>3 DEF Phase
    <3> QED  BY <3>3, <3>4, PhasesStay DEF Promise!vars
  <2> QED  BY <1>5, <2>1, <2>2, <2>4, <2>5 DEF WaitMore, WaitLoop
<1>6. ASSUME NEW n \in Block, WorkerYields(n)
      PROVE  Promise!Return \/ UNCHANGED Promise!vars
  <2>1. /\ running # Main /\ at[running] = "client" /\ SwitchTo(n, "yield", status)
        /\ awaited' = [awaited EXCEPT ![running] = None]
        /\ UNCHANGED <<alloc, co_stack, uc_link>>
    BY <1>6 DEF WorkerYields, Yield, ClientRuns
  <2>2. at[Main] \in {"wait", "reclaim"} /\ awaited'[Main] = awaited[Main]
    BY <1>1, <2>1 DEF Processor, TypeOK, LibcoTypeOK
  <2>3. n \in Live'
    BY <1>1, <2>1, ListedLive DEF SwitchTo, Pickable, Listed, Live
  <2>4. /\ at'[Main] = IF n = Main /\ at[Main] = "reclaim" THEN "client" ELSE at[Main]
        /\ \A j \in Co : at'[j] = "over" <=> at[j] = "over"
    BY <1>1, <1>2, <2>1, <2>3, SwitchEndsNobody
  <2>5. CASE at'[Main] = at[Main]
    <3>1. joiningBar' = joiningBar
      BY <2>2, <2>5 DEF joiningBar
    <3>2. \A j \in Co : Phase(j)' = Phase(j)
      BY <2>1, <2>4, <3>1 DEF Phase
    <3> QED  BY <3>1, <3>2, PhasesStay DEF Promise!vars
  <2>6. CASE at'[Main] # at[Main]
    <3> DEFINE k == joiningBar
    <3>1. /\ at[Main] = "reclaim" /\ at'[Main] = "client"
          /\ k \in Co /\ k # None /\ k \notin alloc /\ at[k] = "over"
      BY <2>2, <2>4, <2>6, JoiningIs
    <3>2. joiningBar' = None
      BY <3>1 DEF joiningBar
    <3>3. Phase(k) = "ended"
      BY <3>1 DEF Phase
    <3>4. ASSUME NEW j \in Co
          PROVE  Phase(j)' = IF j = k THEN "absent" ELSE Phase(j)
      BY <1>1, <2>1, <2>4, <3>1, <3>2 DEF Phase
    <3>5. phaseBar' = [phaseBar EXCEPT ![k] = "absent"]
      BY <3>4 DEF phaseBar, Phase
    <3>6. phaseBar[k] = "ended"
      BY <3>1, <3>3, PhaseIs
    <3> QED  BY <3>1, <3>2, <3>5, <3>6 DEF Promise!Return
  <2> QED  BY <2>5, <2>6
<1>7. ASSUME WorkerReturns
      PROVE  \E k \in Co : Promise!End(k)
  <2> DEFINE k == running
  <2>1. /\ k \in alloc /\ k \in Co /\ at[k] = "client"
        /\ at'[Main] = IF at[Main] = "wait" THEN "wait" ELSE "client"
        /\ \A j \in Co : at'[j] = IF j = k THEN "over" ELSE at[j]
        /\ at[Main] \in {"wait", "reclaim"} /\ UNCHANGED <<alloc, awaited>>
    <3>1. /\ k \in alloc /\ at[k] = "client"
          /\ at'[Main] = IF at[Main] = "wait" THEN "wait" ELSE "client"
          /\ \A j \in Co : at'[j] = IF j = k THEN "over" ELSE at[j]
      BY <1>7, ReturnStep
    <3>2. at[Main] \in {"wait", "reclaim"} /\ UNCHANGED <<alloc, awaited>>
      BY <1>1, <1>7, <3>1 DEF WorkerReturns, Return, Processor
    <3> QED  BY <1>1, <3>1, <3>2
  <2> HIDE DEF k
  <2>2. phaseBar[k] = "started"
    BY <2>1, PhaseIs DEF Phase
  <2>3. CASE at[Main] = "wait"
    <3>1. joiningBar' = joiningBar
      BY <2>1, <2>3 DEF joiningBar
    <3>2. \A j \in Co : Phase(j)' = IF j = k THEN "ended" ELSE Phase(j)
      BY <2>1, <3>1 DEF Phase
    <3>3. phaseBar' = [phaseBar EXCEPT ![k] = "ended"]
      BY <2>1, <3>2, PhaseMoves
    <3> QED  BY <2>1, <2>2, <3>1, <3>3 DEF Promise!End
  <2>4. CASE at[Main] = "reclaim"
    <3> DEFINE j == joiningBar
    <3>1. j \in Co /\ j # None /\ j \notin alloc /\ at[j] = "over"
      BY <2>4, JoiningIs
    <3>2. joiningBar' = None
      BY <2>1, <2>4 DEF joiningBar
    <3>3. phaseBar[j] = "ended"
      BY <3>1, PhaseIs DEF Phase
    <3>4. \A i \in Co : Phase(i)' = IF i = j THEN "absent"
                                    ELSE IF i = k THEN "ended" ELSE Phase(i)
      BY <1>1, <2>1, <3>1, <3>2 DEF Phase
    <3>5. phaseBar' = [phaseBar EXCEPT ![k] = "ended", ![j] = "absent"]
      BY <2>1, <3>1, <3>4 DEF phaseBar, Phase
    <3> QED  BY <2>1, <2>2, <3>1, <3>2, <3>3, <3>5 DEF Promise!End
  <2> QED  BY <2>1, <2>3, <2>4
<1> QED  BY <1>3, <1>4, <1>5, <1>6, <1>7 DEF Next, Pick, Promise!Next

\* With at most three coroutines in a round, main sees exactly the coroutines
\* that co.h promises: each one that it starts ends at most once, co_wait holds
\* main up until then, and afterwards the coroutine is gone.
THEOREM PromiseKept ==
    ASSUME Workers <= 3
    PROVE  Spec => KeepsPromise
<1>1. Init => Promise!Init
  <2>1. Init => joiningBar = None /\ \A k \in Co : Phase(k) = "absent"
    BY DEF Init, LibcoInit, joiningBar, Phase, Block
  <2> QED  BY <2>1 DEF Promise!Init, phaseBar, Phase
<1>2. TypeOK /\ BatchInv /\ SavedShallow /\ SavedShallow' /\ [Next]_vars
      => [Promise!Next]_(Promise!vars)
  <2>1. UNCHANGED vars => UNCHANGED Promise!vars
    BY DEF vars, libco, Promise!vars, phaseBar, joiningBar
  <2> QED  BY <2>1, StepPromised DEF SavedShallow
<1> QED  BY <1>1, <1>2, TypeCorrect, Inductive, ShallowUpToThree, PTL
            DEF Spec, KeepsPromise, Promise!Spec
=============================================================================
