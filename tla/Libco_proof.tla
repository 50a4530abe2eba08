----------------------------- MODULE Libco_proof -----------------------------
(***************************************************************************)
(* What every client may count on: theorems about the coroutine library    *)
(* under the client that does anything it may (CoFree), for every heap and *)
(* every capacity of co_stack.  The lemmas about the types are about the   *)
(* operations of the library, whoever calls them.                          *)
(***************************************************************************)
EXTENDS CoFree, TLAPS

USE LibcoAssumption

Status == {"new", "running", "waiting", "dead"}

----------------------------------------------------------------------------
\* Types

\* A co_yield keeps the types, whatever its caller did to the heap before.
LEMMA SwitchType ==
    ASSUME LibcoTypeOK,
           alloc' \subseteq Co, co_stack' \in Seq(Block),
           NEW n \in Block, NEW f \in Frame, NEW st \in [Block -> Status],
           SwitchTo(n, f, st)
    PROVE  /\ status' \in [Block -> Status]
           /\ current' \in Block
           /\ context' \in [Block -> Context]
           /\ at' \in [Block -> Frame \cup {"client", "over"}]
           /\ running' \in Block
           /\ wild' \in BOOLEAN
<1>1. status' \in [Block -> Status] /\ current' \in Block
  BY DEF SwitchTo, Pickable, Marked, LibcoTypeOK, Status
<1>2. context' = [context EXCEPT ![current] = [owner |-> running, frame |-> f]]
  BY DEF SwitchTo, Pickable, Marked
<1>3. [owner |-> running, frame |-> f] \in Context
  BY DEF Context, LibcoTypeOK
<1>4. context' \in [Block -> Context]
  BY <1>2, <1>3 DEF LibcoTypeOK
<1>5. [at EXCEPT ![running] = f] \in [Block -> Frame \cup {"client", "over"}]
  BY DEF LibcoTypeOK
<1>6. /\ Resume(n, context', [at EXCEPT ![running] = f])
  BY <1>2 DEF SwitchTo, Pickable, Marked
<1>7. context'[n].owner \in Block
  BY <1>4 DEF Context
<1>8. /\ at' \in [Block -> Frame \cup {"client", "over"}]
      /\ running' \in Block
      /\ wild' \in BOOLEAN
  <2> DEFINE o   == context'[n].owner
             pos == [at EXCEPT ![running] = f]
             l   == Landing(context'[n].frame, pos[o])
  <2>1. l \in Frame \cup {"client", "over"}
    BY DEF Landing, Frame
  <2>2. \/ at' = [pos EXCEPT ![o] = l] /\ running' = o /\ UNCHANGED wild
        \/ at' = pos /\ wild' = TRUE /\ UNCHANGED running
    BY <1>6, Zenon DEF Resume
  <2>3. o \in Block /\ pos \in [Block -> Frame \cup {"client", "over"}]
    BY <1>5, <1>7
  <2>4. running \in Block /\ wild \in BOOLEAN
    BY DEF LibcoTypeOK
  <2> HIDE DEF o, pos, l
  <2> QED
    BY <2>1, <2>2, <2>3, <2>4
<1> QED  BY <1>1, <1>4, <1>8

\* refresh_co_stack takes one entry away and switches: the types stay.
LEMMA ReclaimType ==
    ASSUME LibcoTypeOK, NEW k \in Co, NEW n \in Block, Reclaim(k, n)
    PROVE  /\ alloc' \subseteq Co
           /\ co_stack' \in Seq(Block)
           /\ SwitchTo(n, "reclaim", status)
<1>1. PICK i \in 1 .. Len(co_stack) :
         co_stack' = [j \in 1 .. Len(co_stack) - 1 |->
                        IF j < i THEN co_stack[j] ELSE co_stack[j + 1]]
  BY DEF Reclaim, Without
<1>2. \A j \in 1 .. Len(co_stack) : co_stack[j] \in Block
  BY DEF LibcoTypeOK
<1>3. Len(co_stack) - 1 \in Nat
  BY DEF LibcoTypeOK
<1>4. co_stack' \in [1 .. Len(co_stack) - 1 -> Block]
  BY <1>1, <1>2, <1>3 DEF LibcoTypeOK
<1>5. co_stack' \in Seq(Block)
  BY <1>3, <1>4
<1> QED  BY <1>5 DEF Reclaim, LibcoTypeOK

\* co_start keeps the types: a new block, a longer co_stack or a wild write.
LEMMA StartType ==
    ASSUME LibcoTypeOK, NEW k \in Co, Start(k)
    PROVE  LibcoTypeOK'
<1>1. co_stack' \in Seq(Block)
  <2>1. co_stack' = Append(co_stack, k) \/ co_stack' = co_stack
    BY DEF Start
  <2>2. k \in Block /\ co_stack \in Seq(Block)
    BY DEF LibcoTypeOK, Block
  <2> QED  BY <2>1, <2>2
<1>2. context' \in [Block -> Context]
  BY DEF Start, LibcoTypeOK, Block, Context, Frame
<1>3. awaited' \in [Block -> Co \cup {None}]
  BY DEF Start, LibcoTypeOK
<1>4. /\ status' \in [Block -> Status] /\ uc_link' \in [Co -> Block]
      /\ at' \in [Block -> Frame \cup {"client", "over"}]
      /\ wild' \in BOOLEAN /\ alloc' \subseteq Co
      /\ current' \in Block /\ running' \in Block
  BY DEF Start, LinkTarget, LibcoTypeOK, Status, Frame
<1> QED  BY <1>1, <1>2, <1>3, <1>4 DEF LibcoTypeOK, Status

\* The first half of co_wait keeps the types.
LEMMA WaitType ==
    ASSUME LibcoTypeOK, NEW k \in Co, NEW n \in Block, Wait(k, n)
    PROVE  LibcoTypeOK'
<1>1. awaited' \in [Block -> Co \cup {None}] /\ uc_link' \in [Co -> Block]
  BY DEF Wait, LibcoTypeOK
<1>2. CASE Reclaim(k, n)
  <2>1. status \in [Block -> Status] /\ "reclaim" \in Frame
    BY DEF LibcoTypeOK, Status, Frame
  <2> QED  BY <1>1, <1>2, <2>1, ReclaimType, SwitchType DEF LibcoTypeOK, Status
<1>3. CASE /\ UNCHANGED <<alloc, co_stack>>
           /\ SwitchTo(n, "wait", [status EXCEPT ![k] = "waiting"])
  <2>1. /\ [status EXCEPT ![k] = "waiting"] \in [Block -> Status]
        /\ "wait" \in Frame
        /\ alloc' \subseteq Co /\ co_stack' \in Seq(Block)
    BY <1>3 DEF LibcoTypeOK, Status, Frame
  <2> QED  BY <1>1, <1>3, <2>1, SwitchType DEF LibcoTypeOK, Status
<1> QED  BY <1>2, <1>3 DEF Wait

\* A turn of co_wait's loop keeps the types.
LEMMA WaitLoopType ==
    ASSUME LibcoTypeOK, awaited[running] \in Co, NEW n \in Block, WaitLoop(n)
    PROVE  LibcoTypeOK'
<1>1. awaited' \in [Block -> Co \cup {None}] /\ uc_link' \in [Co -> Block]
  BY DEF WaitLoop, LibcoTypeOK
<1>2. CASE Reclaim(awaited[running], n)
  <2>1. status \in [Block -> Status] /\ "reclaim" \in Frame
    BY DEF LibcoTypeOK, Status, Frame
  <2> QED  BY <1>1, <1>2, <2>1, ReclaimType, SwitchType DEF LibcoTypeOK, Status
<1>3. CASE UNCHANGED <<alloc, co_stack>> /\ SwitchTo(n, "wait", status)
  <2>1. /\ status \in [Block -> Status] /\ "wait" \in Frame
        /\ alloc' \subseteq Co /\ co_stack' \in Seq(Block)
    BY <1>3 DEF LibcoTypeOK, Status, Frame
  <2> QED  BY <1>1, <1>3, <2>1, SwitchType DEF LibcoTypeOK, Status
<1> QED  BY <1>2, <1>3 DEF WaitLoop

\* co_yield called by a client keeps the types.
LEMMA YieldType ==
    ASSUME LibcoTypeOK, NEW n \in Block, Yield(n)
    PROVE  LibcoTypeOK'
<1>1. /\ awaited' \in [Block -> Co \cup {None}] /\ uc_link' \in [Co -> Block]
      /\ alloc' \subseteq Co /\ co_stack' \in Seq(Block)
      /\ status \in [Block -> Status] /\ "yield" \in Frame
  BY DEF Yield, LibcoTypeOK, Status, Frame
<1>2. SwitchTo(n, "yield", status)
  BY DEF Yield
<1> QED  BY <1>1, <1>2, SwitchType DEF LibcoTypeOK, Status

\* The end of a coroutine's function keeps the types.
LEMMA ReturnType ==
    ASSUME LibcoTypeOK, Return
    PROVE  LibcoTypeOK'
<1> DEFINE u   == uc_link[running]
           pos == [at EXCEPT ![running] = "over"]
           o   == context[u].owner
           l   == Landing(context[u].frame, pos[o])
<1>1. running \in Co /\ u \in Block
  BY DEF Return, LibcoTypeOK, Block
<1>2. o \in Block /\ pos \in [Block -> Frame \cup {"client", "over"}]
  BY <1>1 DEF LibcoTypeOK, Context
<1>3. l \in Frame \cup {"client", "over"}
  BY DEF Landing, Frame
<1>4. \/ at' = [pos EXCEPT ![o] = l] /\ running' = o /\ UNCHANGED wild
      \/ at' = pos /\ wild' = TRUE /\ UNCHANGED running
  BY Zenon DEF Return, Resume
<1>5. /\ status' \in [Block -> Status]
      /\ UNCHANGED <<alloc, co_stack, current, context, uc_link, awaited>>
  BY DEF Return, LibcoTypeOK, Status
<1>6. running \in Block /\ wild \in BOOLEAN
  BY DEF LibcoTypeOK
<1> HIDE DEF o, pos, l, u
<1>7. /\ at' \in [Block -> Frame \cup {"client", "over"}]
      /\ running' \in Block /\ wild' \in BOOLEAN
  BY <1>2, <1>3, <1>4, <1>6
<1> QED  BY <1>5, <1>7 DEF LibcoTypeOK, Status

----------------------------------------------------------------------------
\* The inductive invariant

\* As long as the processor is in the program: whose stack it is on is live,
\* co_stack lists the live once each, the dead are those that are over, and
\* whoever is in the loop of co_wait waits for a live coroutine for which
\* nobody else waits.
Running == running \in Live /\ at[running] \in {"client", "wait"}

Listing ==
    /\ Listed = Live
    /\ \A i, j \in 1 .. Len(co_stack) : co_stack[i] = co_stack[j] => i = j

Dead == \A k \in alloc : status[k] = "dead" <=> at[k] = "over"

Waiting ==
    /\ \A o \in Live : at[o] = "wait" => awaited[o] \in alloc
    /\ \A o, p \in Live : awaited[o] = awaited[p] /\ awaited[o] # None => o = p

FreeInv == ~wild => Running /\ Listing /\ Dead /\ Waiting

\* setcontext ends nobody's function and brings nobody into co_wait's loop.
LEMMA ResumeKeeps ==
    ASSUME alloc' \subseteq Co, NEW k, NEW cx, NEW pos,
           pos \in [Block -> Frame \cup {"client", "over"}],
           Resume(k, cx, pos), ~wild'
    PROVE  /\ Running'
           /\ \A j \in Block : at'[j] = "over" <=> pos[j] = "over"
           /\ \A j \in Block : at'[j] = "wait" => pos[j] = "wait"
<1> DEFINE o == cx[k].owner
           f == cx[k].frame
<1>1. /\ o \in Live' /\ Restorable(f, pos[o])
      /\ running' = o
      /\ at' = [pos EXCEPT ![o] = Landing(f, pos[o])]
  BY DEF Resume
<1>2. o \in Block
  BY <1>1 DEF Live, Block
<1>3. pos[o] \in Frame /\ pos[o] # "over"
  BY <1>1 DEF Restorable, Frame
<1>4. Landing(f, pos[o]) \in {"client", "wait"}
  BY DEF Landing
<1>5. Landing(f, pos[o]) = "wait" => pos[o] = "wait"
  BY DEF Landing
<1> HIDE DEF o, f
<1> QED  BY <1>1, <1>2, <1>3, <1>4, <1>5 DEF Running

\* A co_yield keeps the account of the dead and brings only its caller into
\* the loop of co_wait.
LEMMA SwitchKeepsFree ==
    ASSUME LibcoTypeOK, alloc' \subseteq alloc, Listed' = Live',
           NEW n \in Block, NEW f \in Frame, NEW st \in [Block -> Status],
           at[running] # "over",
           \A k \in alloc : st[k] = "dead" <=> at[k] = "over",
           SwitchTo(n, f, st), ~wild'
    PROVE  /\ Running' /\ Dead'
           /\ \A j \in Block :
                 at'[j] = "wait" => IF j = running THEN f = "wait" ELSE at[j] = "wait"
<1> DEFINE cx  == [context EXCEPT ![current] = [owner |-> running, frame |-> f]]
           pos == [at EXCEPT ![running] = f]
<1>1. /\ pos \in [Block -> Frame \cup {"client", "over"}] /\ running \in Block
      /\ current \in Block /\ alloc \subseteq Block /\ alloc' \subseteq Co /\ Main \notin Co
      /\ at \in [Block -> Frame \cup {"client", "over"}] /\ "over" \notin Frame
  BY DEF LibcoTypeOK, Block, Frame
<1>2. /\ n \in Live' /\ st[n] # "dead" /\ Resume(n, cx, pos)
      /\ status' = [Marked(st) EXCEPT ![n] = "running"]
  BY DEF SwitchTo, Pickable
<1>3. /\ Running'
      /\ \A j \in Block : at'[j] = "over" <=> pos[j] = "over"
      /\ \A j \in Block : at'[j] = "wait" => pos[j] = "wait"
  <2> HIDE DEF cx, pos
  <2> QED  BY <1>1, <1>2, ResumeKeeps
<1>4. \A j \in Block : status'[j] = "dead" <=> st[j] = "dead"
  BY <1>1, <1>2 DEF Marked
<1>5. \A j \in Block : pos[j] = "over" <=> at[j] = "over"
  BY <1>1
<1>6. Dead'
  BY <1>1, <1>3, <1>4, <1>5 DEF Dead
<1>7. \A j \in Block :
         pos[j] = "wait" => IF j = running THEN f = "wait" ELSE at[j] = "wait"
  BY <1>1
<1> QED  BY <1>3, <1>6, <1>7

\* Only the end of a function ends a coroutine: not what co_yield, co_wait and
\* its loop do.
LEMMA SwitchEndsNone ==
    ASSUME LibcoTypeOK, alloc' \subseteq alloc, at[running] # "over",
           NEW n, NEW f \in Frame, NEW st, SwitchTo(n, f, st), ~wild'
    PROVE  \A j \in Block : at'[j] = "over" <=> at[j] = "over"
<1> DEFINE cx  == [context EXCEPT ![current] = [owner |-> running, frame |-> f]]
           pos == [at EXCEPT ![running] = f]
<1>1. /\ pos \in [Block -> Frame \cup {"client", "over"}] /\ alloc' \subseteq Co
      /\ Resume(n, cx, pos)
  BY DEF SwitchTo, LibcoTypeOK
<1>2. \A j \in Block : pos[j] = "over" <=> at[j] = "over"
  BY DEF LibcoTypeOK, Frame
<1> HIDE DEF cx, pos
<1> QED  BY <1>1, <1>2, ResumeKeeps

LEMMA CallEndsNone ==
    ASSUME LibcoTypeOK, NEW n,
           Yield(n) \/ WaitLoop(n) \/ \E k \in Co : Wait(k, n), ~wild'
    PROVE  \A j \in Block : at'[j] = "over" <=> at[j] = "over"
<1>1. /\ alloc' \subseteq alloc /\ at[running] # "over"
      /\ \E f \in Frame, st \in {status} \cup {[status EXCEPT ![k] = "waiting"] : k \in Co} :
            SwitchTo(n, f, st)
  BY DEF Yield, Wait, WaitLoop, Reclaim, ClientRuns, Frame
<1> QED  BY <1>1, SwitchEndsNone

LEMMA ReturnEndsOne ==
    ASSUME LibcoTypeOK, Return, ~wild'
    PROVE  \A j \in Block : at'[j] = "over" <=> (j = running \/ at[j] = "over")
<1> DEFINE pos == [at EXCEPT ![running] = "over"]
           u   == uc_link[running]
<1>1. /\ pos \in [Block -> Frame \cup {"client", "over"}] /\ alloc' \subseteq Co
      /\ Resume(u, context, pos)
  BY DEF Return, LibcoTypeOK
<1>2. \A j \in Block : pos[j] = "over" <=> (j = running \/ at[j] = "over")
  BY DEF LibcoTypeOK
<1> HIDE DEF u, pos
<1> QED  BY <1>1, <1>2, ResumeKeeps

\* refresh_co_stack takes the one entry of a coroutine out of co_stack.
LEMMA ReclaimListing ==
    ASSUME LibcoTypeOK, Listing, NEW k \in alloc, NEW n \in Block, Reclaim(k, n)
    PROVE  Listing' /\ alloc' = alloc \ {k}
<1>1. PICK i \in 1 .. Len(co_stack) : co_stack[i] = k /\ co_stack' = Without(i)
  BY DEF Reclaim
<1> DEFINE N == Len(co_stack)
           up(j) == IF j < i THEN j ELSE j + 1
<1>2. /\ N \in Nat /\ N >= 1 /\ i \in 1 .. N /\ Len(co_stack') = N - 1
      /\ \A j \in 1 .. N - 1 : co_stack'[j] = co_stack[up(j)]
  BY <1>1 DEF LibcoTypeOK, Without
<1>3. /\ \A j \in 1 .. N - 1 : up(j) \in 1 .. N /\ up(j) # i
      /\ \A j, l \in 1 .. N - 1 : up(j) = up(l) => j = l
      /\ \A m \in 1 .. N : m # i => \E j \in 1 .. N - 1 : up(j) = m
  <2>1. \A j \in 1 .. N - 1 : up(j) \in 1 .. N /\ up(j) # i
    BY <1>2
  <2>2. \A j, l \in 1 .. N - 1 : up(j) = up(l) => j = l
    BY <1>2
  <2>3. ASSUME NEW m \in 1 .. N, m # i
        PROVE  \E j \in 1 .. N - 1 : up(j) = m
    <3>1. CASE m < i
      <4>1. m \in 1 .. N - 1 /\ up(m) = m
        BY <1>2, <2>3, <3>1
      <4> QED  BY <4>1
    <3>2. CASE m > i
      <4>1. m - 1 \in 1 .. N - 1 /\ up(m - 1) = m
        BY <1>2, <2>3, <3>2
      <4> QED  BY <4>1
    <3> QED  BY <1>2, <2>3, <3>1, <3>2
  <2> QED  BY <2>1, <2>2, <2>3
<1>4. /\ \A j, l \in 1 .. N : co_stack[j] = co_stack[l] => j = l
      /\ Live = {co_stack[j] : j \in 1 .. N}
  BY DEF Listing, Listed
<1>5. alloc' = alloc \ {k} /\ Live' = Live \ {k}
  BY DEF Reclaim, Live, LibcoTypeOK
<1> HIDE DEF N, up
<1>6. Listed' = {co_stack[up(j)] : j \in 1 .. N - 1}
  BY <1>2 DEF Listed
<1>7. {co_stack[up(j)] : j \in 1 .. N - 1} = Live \ {k}
  <2>1. ASSUME NEW j \in 1 .. N - 1
        PROVE  co_stack[up(j)] \in Live \ {k}
    BY <1>1, <1>2, <1>3, <1>4
  <2>2. ASSUME NEW o \in Live \ {k}
        PROVE  \E j \in 1 .. N - 1 : co_stack[up(j)] = o
    <3>1. PICK m \in 1 .. N : co_stack[m] = o
      BY <1>4
    <3>2. m # i
      BY <1>1, <3>1
    <3> QED  BY <1>3, <3>1, <3>2
  <2> QED  BY <2>1, <2>2
<1>8. \A j, l \in 1 .. N - 1 : co_stack[up(j)] = co_stack[up(l)] => j = l
  BY <1>3, <1>4
<1> QED  BY <1>2, <1>5, <1>6, <1>7, <1>8 DEF Listing

----------------------------------------------------------------------------
\* One lemma for each thing a client may do

LEMMA FreeInitInv == FreeInit => LibcoTypeOK /\ FreeInv
<1> SUFFICES ASSUME FreeInit
             PROVE  LibcoTypeOK /\ FreeInv
  OBVIOUS
<1>1. LibcoTypeOK
  <2>1. <<Main>> \in Seq(Block)
    BY DEF Block
  <2> QED  BY <2>1 DEF FreeInit, LibcoInit, LibcoTypeOK, Block, Frame, Context
<1>2. Running /\ Dead /\ Waiting
  BY DEF FreeInit, LibcoInit, Running, Dead, Waiting, Live, Block
<1>3. Listing
  BY DEF FreeInit, LibcoInit, Listing, Listed, Live
<1> QED  BY <1>1, <1>2, <1>3 DEF FreeInv

LEMMA StartFree ==
    ASSUME LibcoTypeOK, FreeInv, NEW k \in Co, Start(k), ~wild'
    PROVE  FreeInv'
<1>1. ~wild /\ Running /\ Listing /\ Dead /\ Waiting /\ at[running] = "client"
  BY DEF Start, ClientRuns, FreeInv
<1>2. /\ k \in Block /\ k # Main /\ k \notin alloc /\ alloc' = alloc \cup {k}
      /\ Live' = Live \cup {k} /\ k \notin Live /\ running' = running
      /\ alloc \subseteq Block /\ running # k /\ Live \subseteq Block
  BY <1>1 DEF Start, Live, LibcoTypeOK, Block, Running
<1>3. /\ \A j \in Block : at'[j] = IF j = k THEN "entry" ELSE at[j]
      /\ \A j \in Block : status'[j] = IF j = k THEN "new" ELSE status[j]
      /\ \A o \in Block : awaited'[o] = IF o \in {k, running} \/ awaited[o] = k
                                        THEN None ELSE awaited[o]
  BY DEF Start, LibcoTypeOK
<1>4. Running' /\ Dead'
  BY <1>1, <1>2, <1>3 DEF Running, Dead
<1>5. Listing'
  <2> DEFINE N == Len(co_stack)
  <2>1. co_stack' = Append(co_stack, k)
    BY DEF Start
  <2>2. /\ Len(co_stack') = N + 1 /\ co_stack'[N + 1] = k /\ N \in Nat
        /\ \A j \in 1 .. N : co_stack'[j] = co_stack[j] /\ co_stack[j] \in Live
    BY <1>1, <2>1 DEF LibcoTypeOK, Listing, Listed
  <2>3. Listed' = Listed \cup {k}
    <3>1. 1 .. N + 1 = (1 .. N) \cup {N + 1}
      BY <2>2
    <3> HIDE DEF N
    <3> QED  BY <2>2, <3>1 DEF Listed, N
  <2>4. \A i, j \in 1 .. Len(co_stack') : co_stack'[i] = co_stack'[j] => i = j
    <3>1. \A i, j \in 1 .. N : co_stack[i] = co_stack[j] => i = j
      BY <1>1 DEF Listing
    <3>2. \A i \in 1 .. N + 1 : i \in 1 .. N \/ i = N + 1
      BY <2>2
    <3> HIDE DEF N
    <3> QED  BY <1>2, <2>2, <3>1, <3>2
  <2> QED  BY <1>1, <1>2, <2>3, <2>4 DEF Listing
<1>6. Waiting'
  <2>1. \A o \in Live' : at'[o] = "wait" => awaited'[o] \in alloc'
    BY <1>1, <1>2, <1>3 DEF Waiting
  <2>2. \A o, p \in Live' : awaited'[o] = awaited'[p] /\ awaited'[o] # None => o = p
    BY <1>1, <1>2, <1>3 DEF Waiting
  <2> QED  BY <2>1, <2>2 DEF Waiting
<1> QED  BY <1>4, <1>5, <1>6 DEF FreeInv

LEMMA YieldFree ==
    ASSUME LibcoTypeOK, FreeInv, NEW n \in Block, Yield(n), ~wild'
    PROVE  FreeInv'
<1>1. /\ ~wild /\ Running /\ Listing /\ Dead /\ Waiting /\ at[running] = "client"
      /\ SwitchTo(n, "yield", status) /\ UNCHANGED <<alloc, co_stack>>
      /\ awaited' = [awaited EXCEPT ![running] = None]
  BY DEF Yield, ClientRuns, FreeInv
<1>2. /\ Listing' /\ Live' = Live /\ Live \subseteq Block
      /\ status \in [Block -> Status] /\ "yield" \in Frame
      /\ awaited \in [Block -> Co \cup {None}] /\ running \in Block
  BY <1>1 DEF Listing, Listed, Live, LibcoTypeOK, Block, Status, Frame
<1>3. /\ Running' /\ Dead'
      /\ \A j \in Block : at'[j] = "wait" => j # running /\ at[j] = "wait"
  BY <1>1, <1>2, SwitchKeepsFree DEF Dead, Listing
<1>4. Waiting'
  BY <1>1, <1>2, <1>3 DEF Waiting
<1> QED  BY <1>2, <1>3, <1>4 DEF FreeInv

\* The two places from which refresh_co_stack is called.
LEMMA ReclaimFree ==
    ASSUME LibcoTypeOK, ~wild, Running, Listing, Dead,
           NEW k \in alloc, NEW n \in Block, Reclaim(k, n), awaited'[running] = k,
           \A o \in Live : at[o] = "wait" /\ o # running => awaited'[o] \in alloc,
           \A o, p \in Live : awaited'[o] = awaited'[p] /\ awaited'[o] # None => o = p,
           ~wild'
    PROVE  FreeInv'
<1>1. Listing' /\ alloc' = alloc \ {k} /\ SwitchTo(n, "reclaim", status)
  BY ReclaimListing DEF Reclaim
<1>2. /\ Live' \subseteq Live /\ Live \subseteq Block /\ k # None /\ "reclaim" \in Frame
      /\ status \in [Block -> Status]
  BY <1>1 DEF Live, LibcoTypeOK, Block, Status, Frame
<1>3. /\ Running' /\ Dead'
      /\ \A j \in Block : at'[j] = "wait" => j # running /\ at[j] = "wait"
  BY <1>1, <1>2, SwitchKeepsFree DEF Dead, Listing, Running
<1>4. ASSUME NEW o \in Live', at'[o] = "wait"
      PROVE  awaited'[o] \in alloc'
  <2>1. o \in Live /\ at[o] = "wait" /\ o # running
    BY <1>2, <1>3, <1>4
  <2>2. awaited'[o] \in alloc /\ awaited'[o] # k
    BY <1>2, <2>1 DEF Running
  <2> QED  BY <1>1, <2>2
<1> QED  BY <1>1, <1>2, <1>3, <1>4 DEF FreeInv, Waiting

\* The two places from which co_wait's loop yields.
LEMMA StillWaitingFree ==
    ASSUME LibcoTypeOK, ~wild, Running, Listing, Dead,
           NEW n \in Block, NEW st \in [Block -> Status],
           \A j \in Block : st[j] = "dead" <=> status[j] = "dead",
           UNCHANGED <<alloc, co_stack>>, SwitchTo(n, "wait", st),
           awaited'[running] \in alloc,
           \A o \in Live : at[o] = "wait" /\ o # running => awaited'[o] \in alloc,
           \A o, p \in Live : awaited'[o] = awaited'[p] /\ awaited'[o] # None => o = p,
           ~wild'
    PROVE  FreeInv'
<1>1. Listing' /\ Live' = Live /\ Live \subseteq Block /\ "wait" \in Frame
  BY DEF Listing, Listed, Live, LibcoTypeOK, Block, Frame
<1>2. \A j \in alloc : st[j] = "dead" <=> at[j] = "over"
  BY DEF Dead, LibcoTypeOK, Block
<1>3. /\ Running' /\ Dead'
      /\ \A j \in Block : at'[j] = "wait" => j = running \/ at[j] = "wait"
  BY <1>1, <1>2, SwitchKeepsFree DEF Listing, Running
<1> QED  BY <1>1, <1>3 DEF FreeInv, Waiting

LEMMA WaitFree ==
    ASSUME LibcoTypeOK, FreeInv, NEW k \in Co, NEW n \in Block, WaitFor(k, n), ~wild'
    PROVE  FreeInv'
<1>1. /\ ~wild /\ Running /\ Listing /\ Dead /\ Waiting /\ at[running] = "client"
      /\ k \in alloc /\ \A o \in Live : awaited[o] # k
      /\ awaited' = [awaited EXCEPT ![running] = k]
      /\ status \in [Block -> Status] /\ Live \subseteq Block /\ running \in Block
      /\ awaited \in [Block -> Co \cup {None}]
  BY DEF WaitFor, Wait, ClientRuns, FreeInv, LibcoTypeOK, Status, Live, Block
<1>2. /\ awaited'[running] = k
      /\ \A o \in Live : at[o] = "wait" /\ o # running => awaited'[o] \in alloc
      /\ \A o, p \in Live : awaited'[o] = awaited'[p] /\ awaited'[o] # None => o = p
  BY <1>1 DEF Waiting
<1>3. CASE Reclaim(k, n)
  BY <1>1, <1>2, <1>3, ReclaimFree
<1>4. CASE /\ status[k] # "dead" /\ UNCHANGED <<alloc, co_stack>>
           /\ SwitchTo(n, "wait", [status EXCEPT ![k] = "waiting"])
  <2> DEFINE st == [status EXCEPT ![k] = "waiting"]
  <2>1. /\ st \in [Block -> Status]
        /\ \A j \in Block : st[j] = "dead" <=> status[j] = "dead"
    BY <1>1, <1>4 DEF Status
  <2>2. SwitchTo(n, "wait", st)
    BY <1>4
  <2> HIDE DEF st
  <2> QED  BY <1>1, <1>2, <1>4, <2>1, <2>2, StillWaitingFree
<1> QED  BY <1>3, <1>4 DEF WaitFor, Wait

LEMMA WaitLoopFree ==
    ASSUME LibcoTypeOK, FreeInv, NEW n \in Block, WaitLoop(n), ~wild'
    PROVE  FreeInv'
<1>1. /\ ~wild /\ Running /\ Listing /\ Dead /\ Waiting /\ at[running] = "wait"
      /\ UNCHANGED awaited /\ status \in [Block -> Status]
  BY DEF WaitLoop, FreeInv, LibcoTypeOK, Status
<1>2. /\ awaited[running] \in alloc
      /\ \A o \in Live : at[o] = "wait" /\ o # running => awaited'[o] \in alloc
      /\ \A o, p \in Live : awaited'[o] = awaited'[p] /\ awaited'[o] # None => o = p
  BY <1>1 DEF Waiting, Running
<1>3. CASE Reclaim(awaited[running], n)
  BY <1>1, <1>2, <1>3, ReclaimFree
<1>4. CASE UNCHANGED <<alloc, co_stack>> /\ SwitchTo(n, "wait", status)
  BY <1>1, <1>2, <1>4, StillWaitingFree
<1> QED  BY <1>3, <1>4 DEF WaitLoop

LEMMA ReturnFree ==
    ASSUME LibcoTypeOK, FreeInv, Return, ~wild'
    PROVE  FreeInv'
<1> DEFINE pos == [at EXCEPT ![running] = "over"]
           u   == uc_link[running]
<1>1. /\ ~wild /\ Running /\ Listing /\ Dead /\ Waiting
      /\ status' = [status EXCEPT ![running] = "dead"]
      /\ UNCHANGED <<alloc, co_stack, awaited>>
      /\ Resume(u, context, pos)
  BY DEF Return, ClientRuns, FreeInv
<1>2. /\ Listing' /\ Live' = Live /\ Live \subseteq Block /\ alloc' \subseteq Co
      /\ alloc \subseteq Block /\ running \in Block /\ status \in [Block -> Status]
      /\ pos \in [Block -> Frame \cup {"client", "over"}]
      /\ at \in [Block -> Frame \cup {"client", "over"}]
  BY <1>1 DEF Listing, Listed, Live, LibcoTypeOK, Block, Status
<1>3. /\ Running'
      /\ \A j \in Block : at'[j] = "over" <=> pos[j] = "over"
      /\ \A j \in Block : at'[j] = "wait" => pos[j] = "wait"
  <2> HIDE DEF pos, u
  <2> QED  BY <1>1, <1>2, ResumeKeeps
<1>4. Dead'
  BY <1>1, <1>2, <1>3 DEF Dead
<1>5. Waiting'
  BY <1>1, <1>2, <1>3 DEF Waiting
<1> QED  BY <1>2, <1>3, <1>4, <1>5 DEF FreeInv

\* A step of any client keeps the invariant.
LEMMA FreeNextInv ==
    ASSUME LibcoTypeOK, FreeInv, [FreeNext]_libco
    PROVE  LibcoTypeOK' /\ FreeInv'
<1>1. CASE UNCHANGED libco
  BY <1>1 DEF libco, LibcoTypeOK, FreeInv, Running, Listing, Listed, Dead, Waiting, Live
<1>2. ASSUME NEW k \in Co, Start(k)
      PROVE  LibcoTypeOK' /\ FreeInv'
  BY <1>2, StartType, StartFree DEF FreeInv
<1>3. ASSUME NEW n \in Block, Yield(n)
      PROVE  LibcoTypeOK' /\ FreeInv'
  BY <1>3, YieldType, YieldFree DEF FreeInv
<1>4. ASSUME NEW n \in Block, WaitLoop(n)
      PROVE  LibcoTypeOK' /\ FreeInv'
  <2>1. awaited[running] \in Co
    BY <1>4 DEF WaitLoop, FreeInv, Running, Waiting, LibcoTypeOK
  <2> QED  BY <1>4, <2>1, WaitLoopType, WaitLoopFree DEF FreeInv
<1>5. ASSUME NEW k \in Co, NEW n \in Block, WaitFor(k, n)
      PROVE  LibcoTypeOK' /\ FreeInv'
  BY <1>5, WaitType, WaitFree DEF FreeInv, WaitFor
<1>6. CASE Return
  BY <1>6, ReturnType, ReturnFree DEF FreeInv
<1> QED  BY <1>1, <1>2, <1>3, <1>4, <1>5, <1>6 DEF FreeNext

\* A coroutine is freed only after its end, by the one who waits for it.
LEMMA FreeStepFreed ==
    ASSUME LibcoTypeOK, FreeInv, FreeNext, NEW k \in alloc \ alloc'
    PROVE  at[k] = "over" /\ awaited'[running] = k
<1>1. ASSUME NEW j \in alloc, NEW n \in Block, Reclaim(j, n)
      PROVE  j = k
  BY <1>1 DEF Reclaim
<1>2. ASSUME NEW j \in Co, Start(j)
      PROVE  FALSE
  BY <1>2 DEF Start
<1>3. ASSUME NEW n \in Block, Yield(n)
      PROVE  FALSE
  BY <1>3 DEF Yield
<1>4. ASSUME NEW n \in Block, WaitLoop(n)
      PROVE  at[k] = "over" /\ awaited'[running] = k
  <2>1. /\ awaited[running] \in alloc /\ Dead /\ UNCHANGED awaited
        /\ status[awaited[running]] = "dead" /\ Reclaim(awaited[running], n)
    BY <1>4 DEF WaitLoop, FreeInv, Running, Waiting
  <2> QED  BY <1>1, <2>1 DEF Dead
<1>5. ASSUME NEW j \in Co, NEW n \in Block, WaitFor(j, n)
      PROVE  at[k] = "over" /\ awaited'[running] = k
  <2>1. /\ j \in alloc /\ Dead /\ awaited'[running] = j
        /\ status[j] = "dead" /\ Reclaim(j, n)
    BY <1>5 DEF WaitFor, Wait, ClientRuns, FreeInv, LibcoTypeOK
  <2> QED  BY <1>1, <2>1 DEF Dead
<1>6. ASSUME Return
      PROVE  FALSE
  BY <1>6 DEF Return
<1> QED  BY <1>2, <1>3, <1>4, <1>5, <1>6 DEF FreeNext

----------------------------------------------------------------------------
\* The theorems

\* The types of the library's globals, of the blocks and of the stacks.
THEOREM FreeTypeCorrect == FreeSpec => []LibcoTypeOK
<1>1. LibcoTypeOK /\ FreeInv /\ [FreeNext]_libco => (LibcoTypeOK /\ FreeInv)'
  BY FreeNextInv
<1> QED  BY <1>1, FreeInitInv, PTL DEF FreeSpec

\* Until the processor goes wild: whoever it is on is live, co_stack lists the
\* live, the dead are those that are over, and the waiting have whom to wait for.
THEOREM FreeInductive == FreeSpec => []FreeInv
<1>1. LibcoTypeOK /\ FreeInv /\ [FreeNext]_libco => (LibcoTypeOK /\ FreeInv)'
  BY FreeNextInv
<1> QED  BY <1>1, FreeInitInv, PTL DEF FreeSpec

\* Whatever its client does, until the processor goes wild co_stack holds main
\* and every coroutine that was started and not freed exactly once.
THEOREM FreeListsLive == FreeSpec => []StackListsLive
<1>1. FreeInv => StackListsLive
  BY DEF FreeInv, Listing, StackListsLive
<1> QED  BY <1>1, FreeInductive, PTL

\* Whatever its client does, until the processor goes wild a coroutine is
\* CO_DEAD exactly when its function has returned.
THEOREM FreeDeadIffOver == FreeSpec => []DeadIffOver
<1>1. FreeInv => DeadIffOver
  BY DEF FreeInv, Dead, DeadIffOver
<1> QED  BY <1>1, FreeInductive, PTL

\* Whatever its client does, a coroutine is freed only after its function has
\* returned, and by the coroutine that waits for it.
THEOREM FreeByItsWaiter == FreeSpec => FreedByItsWaiter
<1>1. LibcoTypeOK /\ FreeInv /\ [FreeNext]_libco
      => [\A k \in alloc \ alloc' : at[k] = "over" /\ awaited'[running] = k]_libco
  BY FreeStepFreed
<1> QED  BY <1>1, FreeTypeCorrect, FreeInductive, PTL DEF FreeSpec, FreedByItsWaiter

----------------------------------------------------------------------------
\* One coroutine at a time

\* Where the one coroutine besides main is, when co_stack has two slots.
Alone(j) ==
    /\ uc_link[j] = Main
    /\ at[j] \in {"entry", "yield", "client", "over"}
    /\ at[j] = "client" <=> running = j
    /\ at[j] \in {"entry", "yield"} => context[j] = [owner |-> j, frame |-> at[j]]

\* Where main is meanwhile.  Behind the end of the coroutine main runs with
\* `current' naming that one, but then its own context is that of the call it
\* came back from.
Leader ==
    /\ context[Main].owner = Main
    /\ running = Main =>
          \/ current = Main
          \/ /\ current \in alloc /\ at[current] = "over"
             /\ context[Main].frame = IF at[Main] = "wait" THEN "wait" ELSE "yield"
    /\ running # Main => /\ current = running
                         /\ at[Main] \in {"yield", "wait"}
                         /\ context[Main].frame = at[Main]

Single == /\ \A j, k \in alloc : j = k
          /\ \A j \in alloc : Alone(j)
          /\ Leader

SingleInv == IF wild THEN ~(Live \subseteq Listed) ELSE Single

\* setcontext of a context that fits the stack of its owner.
LEMMA ResumeFits ==
    ASSUME NEW k, NEW cx, NEW pos, Resume(k, cx, pos), ~wild,
           k \in Live', cx[k].owner \in Live',
           Restorable(cx[k].frame, pos[cx[k].owner])
    PROVE  /\ ~wild' /\ running' = cx[k].owner
           /\ at' = [pos EXCEPT ![cx[k].owner] =
                        Landing(cx[k].frame, pos[cx[k].owner])]
BY DEF Resume

\* Main yields, in its own code or in the loop of co_wait.
LEMMA SingleMainYields ==
    ASSUME LibcoTypeOK, ~wild, Running, Listing, Single, running = Main,
           NEW n \in Block, NEW f \in {"yield", "wait"}, NEW st \in [Block -> Status],
           \A k \in alloc : st[k] = "dead" <=> at[k] = "over",
           current # Main => f = "yield" /\ context[Main].frame = "yield",
           UNCHANGED <<alloc, co_stack, uc_link>>, SwitchTo(n, f, st)
    PROVE  ~wild' /\ Single'
<1> DEFINE cx  == [context EXCEPT ![current] = [owner |-> Main, frame |-> f]]
           pos == [at EXCEPT ![Main] = f]
<1>1. /\ n \in Live' /\ Live' = Live /\ st[n] # "dead" /\ Resume(n, cx, pos)
      /\ context' = cx /\ current' = n
      /\ Main \in Block /\ Main \notin Co /\ alloc \subseteq Co /\ Co \subseteq Block
      /\ at \in [Block -> Frame \cup {"client", "over"}]
      /\ context \in [Block -> Context] /\ current \in Block
  BY DEF SwitchTo, Pickable, Listing, Listed, Live, LibcoTypeOK, Block
<1>2. Restorable(f, f) /\ Landing(f, f) \in {"client", "wait"}
  BY DEF Restorable, Landing, Frame
<1>3. /\ cx[Main].owner = Main /\ cx[Main].frame = f /\ pos[Main] = f
  BY <1>1 DEF Single, Leader, Context
<1>4. CASE n = Main
  <2>1. /\ ~wild' /\ running' = Main
        /\ at' = [pos EXCEPT ![Main] = Landing(f, f)]
    <3>1. n \in Live' /\ cx[n].owner = Main /\ cx[n].frame = f /\ Main \in Live'
      BY <1>1, <1>3, <1>4
    <3> HIDE DEF cx, pos
    <3> QED  BY <1>1, <1>2, <1>3, <3>1, ResumeFits
  <2>2. /\ \A j \in Co : at'[j] = at[j]
        /\ \A j \in Co : j # current => context'[j] = context[j]
    BY <1>1, <2>1
  <2>3. ASSUME NEW j \in alloc
        PROVE  Alone(j)'
    <3>1. Alone(j) /\ j \in Co /\ j # Main /\ running = Main /\ running' = Main
      BY <1>1, <2>1 DEF Single
    <3>2. j = current => at[j] = "over"
      BY <3>1 DEF Single, Leader
    <3> QED  BY <2>2, <3>1, <3>2 DEF Alone
  <2>4. Leader'
    BY <1>1, <1>3, <1>4, <2>1 DEF Leader
  <2> QED  BY <2>1, <2>3, <2>4 DEF Single
<1>5. CASE n # Main
  <2>1. /\ n \in alloc /\ Alone(n) /\ at[n] \in {"entry", "yield"} /\ n \in Co
        /\ context[n] = [owner |-> n, frame |-> at[n]]
    BY <1>1, <1>5 DEF Live, Single, Alone
  <2>2. current = Main
    BY <2>1 DEF Single, Leader
  <2>3. cx[n] = context[n] /\ pos[n] = at[n] /\ cx[Main].frame = f
    BY <1>1, <2>1, <2>2 DEF Context
  <2>4. Restorable(at[n], at[n]) /\ Landing(at[n], at[n]) = "client"
    BY <2>1 DEF Restorable, Landing, Frame
  <2>5. /\ ~wild' /\ running' = n
        /\ at' = [pos EXCEPT ![n] = "client"]
    <3>1. cx[n].owner = n /\ cx[n].frame = at[n]
      BY <2>1, <2>3
    <3> HIDE DEF cx, pos
    <3> QED  BY <1>1, <2>3, <2>4, <3>1, ResumeFits
  <2>6. Alone(n)' /\ \A j \in alloc : j = n
    <3>1. at'[n] = "client"
      BY <1>1, <2>1, <2>5
    <3> QED  BY <2>1, <2>5, <3>1 DEF Alone, Single
  <2>7. Leader'
    <3>1. at'[Main] = f
      BY <1>1, <1>5, <2>5
    <3> QED  BY <1>1, <1>3, <2>1, <2>5, <3>1 DEF Leader
  <2> QED  BY <2>5, <2>6, <2>7 DEF Single
<1> QED  BY <1>4, <1>5

\* The coroutine yields.
LEMMA SingleYields ==
    ASSUME LibcoTypeOK, ~wild, Running, Listing, Single, running # Main,
           NEW n \in Block,
           UNCHANGED <<alloc, co_stack, uc_link>>, SwitchTo(n, "yield", status)
    PROVE  ~wild' /\ Single'
<1> DEFINE k   == running
           cx  == [context EXCEPT ![current] = [owner |-> k, frame |-> "yield"]]
           pos == [at EXCEPT ![k] = "yield"]
<1>1. /\ n \in Live' /\ Live' = Live /\ Resume(n, cx, pos)
      /\ context' = cx /\ current' = n
      /\ Main \in Block /\ Main \notin Co /\ alloc \subseteq Co /\ Co \subseteq Block
      /\ at \in [Block -> Frame \cup {"client", "over"}]
      /\ context \in [Block -> Context]
  BY DEF SwitchTo, Pickable, Listing, Listed, Live, LibcoTypeOK, Block
<1>2. /\ k \in alloc /\ k \in Co /\ current = k /\ Alone(k) /\ \A j \in alloc : j = k
      /\ at[Main] \in {"yield", "wait"} /\ context[Main].frame = at[Main]
      /\ context[Main].owner = Main
  BY <1>1 DEF Running, Live, Single, Leader
<1>3. /\ cx[k] = [owner |-> k, frame |-> "yield"] /\ pos[k] = "yield"
      /\ cx[Main] = context[Main] /\ pos[Main] = at[Main] /\ k # Main
  BY <1>1, <1>2
<1>4. CASE n = Main
  <2>1. Restorable(at[Main], at[Main]) /\ Landing(at[Main], at[Main]) \in {"client", "wait"}
    BY <1>2 DEF Restorable, Landing, Frame
  <2>2. /\ ~wild' /\ running' = Main
        /\ at' = [pos EXCEPT ![Main] = Landing(at[Main], at[Main])]
    <3>1. n \in Live' /\ cx[n].owner = Main /\ cx[n].frame = at[Main] /\ Main \in Live'
      BY <1>1, <1>2, <1>3, <1>4
    <3> HIDE DEF cx, pos, k
    <3> QED  BY <1>1, <1>3, <1>4, <2>1, <3>1, ResumeFits
  <2>3. at'[k] = "yield" /\ context'[k] = [owner |-> k, frame |-> "yield"]
    BY <1>1, <1>2, <1>3, <2>2
  <2>4. \A j \in alloc : Alone(j)'
    BY <1>2, <1>3, <2>2, <2>3 DEF Alone
  <2>5. Leader'
    BY <1>1, <1>2, <1>3, <1>4, <2>2 DEF Leader
  <2> QED  BY <1>2, <2>2, <2>4, <2>5 DEF Single
<1>5. CASE n # Main
  <2>1. n = k
    BY <1>1, <1>2, <1>5 DEF Live
  <2>2. Restorable("yield", "yield") /\ Landing("yield", "yield") = "client"
    BY DEF Restorable, Landing, Frame
  <2>3. ~wild' /\ running' = k /\ at' = [pos EXCEPT ![k] = "client"]
    <3>1. n \in Live' /\ cx[n].owner = k /\ cx[n].frame = "yield" /\ k \in Live'
      BY <1>1, <1>2, <1>3, <2>1
    <3> HIDE DEF cx, pos, k
    <3> QED  BY <1>1, <1>3, <2>1, <2>2, <3>1, ResumeFits
  <2>4. at'[k] = "client" /\ at'[Main] = at[Main]
    BY <1>1, <1>2, <1>3, <2>3
  <2>5. \A j \in alloc : Alone(j)'
    BY <1>2, <2>3, <2>4 DEF Alone
  <2>6. Leader'
    BY <1>1, <1>2, <1>3, <2>1, <2>3, <2>4 DEF Leader
  <2> QED  BY <1>2, <2>3, <2>5, <2>6 DEF Single
<1> QED  BY <1>4, <1>5

\* Main frees the coroutine, and only main is left to be picked.
LEMMA SingleReclaims ==
    ASSUME LibcoTypeOK, ~wild, Running, Listing, Single, running = Main,
           NEW k \in alloc, NEW n \in Block, UNCHANGED uc_link, Reclaim(k, n)
    PROVE  ~wild' /\ Single'
<1> DEFINE cx  == [context EXCEPT ![current] = [owner |-> Main, frame |-> "reclaim"]]
           pos == [at EXCEPT ![Main] = "reclaim"]
           g   == cx[Main].frame
<1>1. /\ Listing' /\ alloc' = {} /\ Live' = {Main}
      /\ SwitchTo(n, "reclaim", status)
  <2>1. Listing' /\ alloc' = alloc \ {k}
    BY ReclaimListing
  <2> QED  BY <2>1 DEF Reclaim, Single, Live
<1>2. /\ n = Main /\ Resume(n, cx, pos) /\ context' = cx /\ current' = n
      /\ Main \in Block /\ at \in [Block -> Frame \cup {"client", "over"}]
      /\ context \in [Block -> Context] /\ current \in Block
  BY <1>1 DEF SwitchTo, Pickable, Listing, LibcoTypeOK, Block
<1>3. cx[Main].owner = Main /\ g \in {"yield", "wait", "reclaim"} /\ pos[Main] = "reclaim"
  BY <1>2 DEF Single, Leader
<1>4. Restorable(g, "reclaim") /\ Landing(g, "reclaim") = "client"
  BY <1>3 DEF Restorable, Landing, Frame
<1>5. ~wild' /\ running' = Main
  <2>1. n \in Live' /\ cx[n].owner = Main /\ cx[n].frame = g /\ Main \in Live'
    BY <1>1, <1>2, <1>3
  <2> HIDE DEF cx, pos, g
  <2> QED  BY <1>2, <1>3, <1>4, <2>1, ResumeFits
<1> QED  BY <1>1, <1>2, <1>3, <1>5 DEF Single, Leader

\* The coroutine's function returns.
LEMMA SingleReturns ==
    ASSUME LibcoTypeOK, ~wild, Running, Single, Return
    PROVE  ~wild' /\ Single'
<1> DEFINE k   == running
           pos == [at EXCEPT ![k] = "over"]
           f   == at[Main]
<1>1. /\ k # Main /\ UNCHANGED <<alloc, current, context, uc_link>>
      /\ Resume(uc_link[k], context, pos) /\ Live' = Live /\ Main \in Live
      /\ Main \in Block /\ Main \notin Co /\ alloc \subseteq Co /\ Co \subseteq Block
      /\ at \in [Block -> Frame \cup {"client", "over"}]
  BY DEF Return, Live, LibcoTypeOK, Block
<1>2. /\ k \in alloc /\ k \in Co /\ current = k /\ \A j \in alloc : j = k
      /\ f \in {"yield", "wait"} /\ context[Main].frame = f
      /\ context[Main].owner = Main /\ uc_link[k] = Main /\ pos[Main] = f
  BY <1>1 DEF Running, Live, Single, Leader, Alone
<1>3. Restorable(f, f) /\ Landing(f, f) = IF f = "wait" THEN "wait" ELSE "client"
  BY <1>2 DEF Restorable, Landing, Frame
<1>4. ~wild' /\ running' = Main /\ at' = [pos EXCEPT ![Main] = Landing(f, f)]
  <2>1. Resume(Main, context, pos)
    BY <1>1, <1>2
  <2> HIDE DEF k, pos, f
  <2> QED  BY <1>1, <1>2, <1>3, <2>1, ResumeFits
<1>5. at'[k] = "over" /\ at'[Main] = IF f = "wait" THEN "wait" ELSE "client"
  BY <1>1, <1>2, <1>3, <1>4
<1>6. \A j \in alloc : Alone(j)'
  <2>1. uc_link'[k] = Main /\ running' # k
    BY <1>1, <1>2, <1>4
  <2> QED  BY <1>2, <1>5, <2>1 DEF Alone
<1>7. Leader'
  BY <1>1, <1>2, <1>4, <1>5 DEF Leader
<1> QED  BY <1>1, <1>2, <1>4, <1>6, <1>7 DEF Single

\* A co_start finds room only if main is alone; otherwise it writes behind
\* the last slot, and the new coroutine is not listed.
LEMMA SingleStarts ==
    ASSUME Capacity = 2, LibcoTypeOK, ~wild, Running, Listing, Single,
           NEW k \in Co, Start(k)
    PROVE  SingleInv'
<1>1. /\ k \notin alloc /\ alloc' = alloc \cup {k} /\ k # Main
      /\ running' = running /\ current' = current
      /\ Main \in Block /\ Main \notin Co /\ alloc \subseteq Co /\ Co \subseteq Block
      /\ at[running] = "client"
  BY DEF Start, ClientRuns, LibcoTypeOK, Block
<1>2. CASE Len(co_stack) < 2
  <2>1. alloc = {}
    <3>1. Len(co_stack) = 0 \/ Len(co_stack) = 1
      <4>1. \A l \in Nat : l < 2 => l = 0 \/ l = 1
        OBVIOUS
      <4>2. Len(co_stack) \in Nat
        BY DEF LibcoTypeOK
      <4>3. Len(co_stack) < 2
        BY <1>2
      <4> QED  BY ONLY <4>1, <4>2, <4>3
    <3>2. \A a, b \in Listed : a = b
      BY <3>1 DEF Listed
    <3> QED  BY <1>1, <3>2 DEF Listing, Live
  <2>2. running = Main /\ current = Main /\ context[Main].owner = Main
    BY <2>1 DEF Running, Live, Single, Leader
  <2>3. /\ ~wild' /\ uc_link'[k] = Main /\ at'[k] = "entry"
        /\ context'[k] = [owner |-> k, frame |-> "entry"]
        /\ at'[Main] = at[Main] /\ context'[Main] = context[Main]
    BY <1>1, <1>2, <2>2 DEF Start, LinkTarget, LibcoTypeOK
  <2>4. Alone(k)' /\ Leader'
    BY <1>1, <2>2, <2>3 DEF Alone, Leader
  <2> QED  BY <1>1, <2>1, <2>3, <2>4 DEF Single, SingleInv
<1>3. CASE ~(Len(co_stack) < 2)
  <2>1. wild' = TRUE /\ co_stack' = co_stack
    BY <1>3 DEF Start
  <2>2. k \in Live' /\ k \notin Listed'
    BY <1>1, <2>1 DEF Live, Listing, Listed
  <2> QED  BY <2>1, <2>2 DEF SingleInv
<1> QED  BY <1>2, <1>3

\* With two slots in co_stack, every step of any client keeps SingleInv.
LEMMA SingleNext ==
    ASSUME Capacity = 2, LibcoTypeOK, FreeInv, SingleInv, [FreeNext]_libco
    PROVE  SingleInv'
<1>1. CASE UNCHANGED libco
  BY <1>1 DEF libco, SingleInv, Single, Alone, Leader, Live, Listed
<1>2. CASE wild
  <2>1. UNCHANGED libco
    BY <1>2 DEF FreeNext, WaitFor, Wait, WaitLoop, Start, Yield, Return, ClientRuns
  <2> QED  BY <1>1, <2>1
<1>3. CASE ~wild /\ FreeNext
  <2>1. /\ Single /\ Running /\ Listing /\ Dead /\ Waiting
        /\ \A j \in alloc : status[j] = "dead" <=> at[j] = "over"
        /\ status \in [Block -> Status]
    BY <1>3 DEF SingleInv, FreeInv, Dead, LibcoTypeOK, Status
  <2>2. ASSUME NEW k \in Co, Start(k)
        PROVE  SingleInv'
    BY <1>3, <2>1, <2>2, SingleStarts
  <2>3. ASSUME NEW n \in Block, Yield(n)
        PROVE  SingleInv'
    <3>1. /\ at[running] = "client" /\ UNCHANGED <<alloc, co_stack, uc_link>>
          /\ SwitchTo(n, "yield", status)
      BY <2>3 DEF Yield, ClientRuns
    <3>2. CASE running = Main
      <4>1. current # Main => context[Main].frame = "yield"
        BY <2>1, <3>1, <3>2 DEF Single, Leader
      <4> QED  BY <1>3, <2>1, <3>1, <3>2, <4>1, SingleMainYields DEF SingleInv
    <3>3. CASE running # Main
      BY <1>3, <2>1, <3>1, <3>3, SingleYields DEF SingleInv
    <3> QED  BY <3>2, <3>3
  <2>4. ASSUME NEW n \in Block, WaitLoop(n)
        PROVE  SingleInv'
    <3> DEFINE k == awaited[running]
    <3>1. /\ at[running] = "wait" /\ running = Main /\ k \in alloc /\ UNCHANGED uc_link
      BY <2>1, <2>4 DEF WaitLoop, Running, Live, Single, Alone, Waiting
    <3>2. CASE Reclaim(k, n)
      BY <1>3, <2>1, <3>1, <3>2, SingleReclaims DEF SingleInv
    <3>3. CASE /\ status[k] # "dead" /\ UNCHANGED <<alloc, co_stack>>
               /\ SwitchTo(n, "wait", status)
      <4>1. current = Main
        BY <2>1, <3>1, <3>3 DEF Single, Leader
      <4> QED  BY <1>3, <2>1, <3>1, <3>3, <4>1, SingleMainYields DEF SingleInv
    <3> QED  BY <2>4, <3>2, <3>3 DEF WaitLoop
  <2>5. ASSUME NEW k \in Co, NEW n \in Block, WaitFor(k, n)
        PROVE  SingleInv'
    <3>1. /\ at[running] = "client" /\ running = Main /\ k \in alloc /\ UNCHANGED uc_link
      BY <2>1, <2>5 DEF WaitFor, Wait, ClientRuns, Running, Live, Single
    <3>2. CASE Reclaim(k, n)
      BY <1>3, <2>1, <3>1, <3>2, SingleReclaims DEF SingleInv
    <3>3. CASE /\ status[k] # "dead" /\ UNCHANGED <<alloc, co_stack>>
               /\ SwitchTo(n, "wait", [status EXCEPT ![k] = "waiting"])
      <4> DEFINE st == [status EXCEPT ![k] = "waiting"]
      <4>1. current = Main
        BY <2>1, <3>1, <3>3 DEF Single, Leader
      <4>2. /\ st \in [Block -> Status] /\ SwitchTo(n, "wait", st)
            /\ \A j \in alloc : st[j] = "dead" <=> at[j] = "over"
        BY <2>1, <3>3 DEF Status, LibcoTypeOK, Block
      <4> HIDE DEF st
      <4> QED  BY <1>3, <2>1, <3>1, <3>3, <4>1, <4>2, SingleMainYields DEF SingleInv
    <3> QED  BY <2>5, <3>2, <3>3 DEF WaitFor, Wait
  <2>6. CASE Return
    BY <1>3, <2>1, <2>6, SingleReturns DEF SingleInv
  <2> QED  BY <1>3, <2>2, <2>3, <2>4, <2>5, <2>6 DEF FreeNext
<1> QED  BY <1>1, <1>2, <1>3

\* If no more than one coroutine fits beside main, then whatever the client
\* does the processor only goes wild when co_start writes past co_stack: with
\* one coroutine at a time the library's mistakes about who is running do no
\* harm.
THEOREM FreeWildOnlyByOverflow ==
    ASSUME Capacity = 2
    PROVE  FreeSpec => []WildOnlyByOverflow
<1>1. FreeInit => SingleInv
  BY DEF FreeInit, LibcoInit, SingleInv, Single, Leader, Block
<1>2. LibcoTypeOK /\ FreeInv /\ SingleInv /\ [FreeNext]_libco => SingleInv'
  BY SingleNext
<1>3. SingleInv => WildOnlyByOverflow
  BY DEF SingleInv, WildOnlyByOverflow
<1> QED  BY <1>1, <1>2, <1>3, FreeTypeCorrect, FreeInductive, PTL DEF FreeSpec
=============================================================================
