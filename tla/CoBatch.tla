------------------------------ MODULE CoBatch ------------------------------
(***************************************************************************)
(* The client that the library's own tests are: the main coroutine starts  *)
(* some coroutines and then waits for each of them, in the order in which  *)
(* it started them (tests/main.c test_1, tests/test1.c).  It does so round *)
(* after round, so that heap blocks are used again.  A coroutine calls     *)
(* co_yield as often as it likes, then returns.                            *)
(***************************************************************************)
EXTENDS Libco

CONSTANT Workers   \* most coroutines that main starts before it waits

ASSUME BatchAssumption == Workers \in Nat \ {0} /\ Workers < Capacity

VARIABLES
    thd,       \* the coroutines of this round, in the order of co_start
    waited     \* how many of them main has called co_wait for

vars == <<libco, thd, waited>>

Init == LibcoInit /\ thd = <<>> /\ waited = 0

\* Another co_start of this round, before the first co_wait.
StartMore(k) ==
    /\ running = Main
    /\ waited = 0 /\ Len(thd) < Workers
    /\ Start(k)
    /\ thd' = Append(thd, k)
    /\ UNCHANGED waited

\* The first co_start of the next round, after the last co_wait returned.
StartRound(k) ==
    /\ running = Main
    /\ waited > 0 /\ waited = Len(thd)
    /\ Start(k)
    /\ thd' = <<k>>
    /\ waited' = 0

WaitNext(n) ==
    /\ running = Main
    /\ waited < Len(thd)
    /\ Wait(thd[waited + 1], n)
    /\ waited' = waited + 1
    /\ UNCHANGED thd

WaitMore(n) == WaitLoop(n) /\ UNCHANGED <<thd, waited>>

WorkerYields(n) == running # Main /\ Yield(n) /\ UNCHANGED <<thd, waited>>

WorkerReturns == Return /\ UNCHANGED <<thd, waited>>

\* rand() makes co_yield pick n.
Pick(n) == WaitNext(n) \/ WaitMore(n) \/ WorkerYields(n)

Next ==
    \/ \E k \in Co : StartMore(k) \/ StartRound(k)
    \/ \E n \in Block : Pick(n)
    \/ WorkerReturns

(***************************************************************************)
(* Fairness.  rand()%co_stack_count picks every entry again and again, with*)
(* probability one: a coroutine that can be picked infinitely often is.  A *)
(* coroutine whose own code is resumed infinitely often returns (the tests'*)
(* loops count to 100).                                                    *)
(***************************************************************************)
Fairness ==
    /\ \A n \in Block : SF_vars(Pick(n))
    /\ \A k \in Co : SF_vars(running = k /\ WorkerReturns)

Spec == Init /\ [][Next]_vars
FairSpec == Spec /\ Fairness

----------------------------------------------------------------------------

TypeOK ==
    /\ LibcoTypeOK
    /\ thd \in Seq(Co) /\ Len(thd) <= Workers
    /\ waited \in 0 .. Len(thd)

(***************************************************************************)
(* The batch client sees the coroutines that co.h promises.  Main is in    *)
(* co_wait while its stack is in the frames of co_wait; until it gets out, *)
(* the awaited coroutine counts as there although its block may have been  *)
(* freed already.                                                          *)
(***************************************************************************)
joiningBar == IF at[Main] \in {"wait", "reclaim"} THEN awaited[Main] ELSE None

phaseBar ==
    [k \in Co |-> IF k \notin alloc /\ k # joiningBar THEN "absent"
                  ELSE IF at[k] = "over" THEN "ended" ELSE "started"]

Promise == INSTANCE Coroutines WITH phase <- phaseBar, joining <- joiningBar

KeepsPromise == Promise!Spec

----------------------------------------------------------------------------
(***************************************************************************)
(* The inductive invariant.  While the processor is in the program, the    *)
(* heap, co_stack and thd describe one another exactly; a coroutine other  *)
(* than main always runs as `current', main may run behind the `current'   *)
(* of a coroutine that ended; and only main's saved context can be stale.  *)
(***************************************************************************)

\* The co_wait calls of this round that have freed their coroutine.
freed == IF at[Main] = "wait" THEN waited - 1 ELSE waited

\* co_stack is main followed by what is left of thd; the rest has ended.
Books ==
    /\ freed \in 0 .. Len(thd)
    /\ \A i, j \in 1 .. Len(thd) : thd[i] = thd[j] => i = j
    /\ alloc = {thd[i] : i \in freed + 1 .. Len(thd)}
    /\ Len(co_stack) = 1 + Len(thd) - freed
    /\ co_stack[1] = Main
    /\ \A i \in 2 .. Len(co_stack) : co_stack[i] = thd[freed + i - 1]
    /\ \A i \in 1 .. freed : at[thd[i]] = "over"

Worker(k) ==
    /\ uc_link[k] = Main
    /\ at[k] \in {"entry", "yield", "client", "over"}
    /\ at[k] = "client" <=> running = k
    /\ status[k] = "dead" <=> at[k] = "over"
    /\ at[k] \in {"entry", "yield"} => context[k] = [owner |-> k, frame |-> at[k]]

Processor ==
    /\ running \in Live /\ current \in Live
    /\ status[Main] # "dead"
    /\ context[Main].owner = Main
    /\ IF running = Main
       THEN /\ at[Main] \in {"client", "wait"}
            /\ current = Main \/ at[current] = "over"
       ELSE /\ at[Main] \in {"wait", "reclaim"}
            /\ current = running

\* Where main is in its round: nothing has run before the first co_wait, and
\* the end of the awaited coroutine brings main back at once.
Round ==
    /\ \A k \in Co : awaited[k] = None
    /\ waited = 0 => /\ awaited[Main] = None
                     /\ current = Main /\ at[Main] = "client"
                     /\ \A k \in alloc : at[k] = "entry"
    /\ waited > 0 => /\ awaited[Main] = thd[waited]
                     /\ context[Main].frame \in {"wait", "reclaim"}
    /\ (at[Main] = "wait" /\ at[thd[waited]] = "over") => current = thd[waited]
    /\ alloc = {} => current = Main

BatchInv ==
    ~wild => /\ Books
             /\ \A k \in alloc : Worker(k)
             /\ Processor
             /\ Round

(***************************************************************************)
(* With at most three coroutines in a round, main's context is never saved *)
(* deeper than the frame it is restored on: the co_yield of a              *)
(* refresh_co_stack only saves into main's own block when the awaited      *)
(* coroutine had ended before its co_wait, so in the second co_wait of a   *)
(* round at the earliest, and if main then runs behind the third           *)
(* coroutine's end there is none left to wait for in the loop.             *)
(***************************************************************************)
SavedShallow ==
    /\ ~wild
    /\ at[Main] = "wait" => context[Main].frame = "wait"
    /\ waited = 1 => context[Main].frame = "wait"

----------------------------------------------------------------------------
\* Every coroutine that main starts comes to its end, and the co_wait for it
\* returns it to the heap.
EveryoneIsJoined == \A k \in Co : k \in alloc ~> k \notin alloc
=============================================================================
