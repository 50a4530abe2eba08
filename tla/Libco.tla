------------------------------- MODULE Libco -------------------------------
(***************************************************************************)
(* The coroutine library libco/co.c: what co_start, co_yield, co_wait and  *)
(* the end of a coroutine's function do to the library's globals, to the   *)
(* struct co blocks on the heap, and to the C stack the processor runs on. *)
(*                                                                         *)
(* A step is everything the program does between two points at which a     *)
(* client's own code runs: a call of the library up to the setcontext that *)
(* hands the processor over.                                               *)
(*                                                                         *)
(* Two notions of "the running coroutine" must be kept apart, because the  *)
(* code keeps only one of them: `current' is the library's global, and     *)
(* `running' is the coroutine whose C stack the processor is really on.    *)
(* They part company as soon as a coroutine's function returns, when       *)
(* uc_link resumes another context and nobody assigns `current'.           *)
(***************************************************************************)
EXTENDS Naturals, Sequences

CONSTANTS
    Co,        \* heap blocks that malloc may hand out for a struct co
    Main,      \* the struct co of the thread that loaded the library
    None,      \* no coroutine
    Capacity   \* number of slots in co_stack

ASSUME LibcoAssumption ==
    /\ Main \notin Co
    /\ None \notin Co \cup {Main}
    /\ Capacity \in Nat \ {0}

Block == Co \cup {Main}

(***************************************************************************)
(* How deep in the library a switched-out coroutine is, in the order of    *)
(* the stack pointers: "entry" has not run yet, "yield" was switched out   *)
(* by a co_yield called from its own code, "wait" by the co_yield in the   *)
(* loop of co_wait, "reclaim" by the co_yield in the refresh_co_stack that *)
(* co_wait called.                                                         *)
(***************************************************************************)
Frame == {"entry", "yield", "wait", "reclaim"}

VARIABLES
    alloc,      \* the blocks of Co that are allocated
    co_stack,   \* co_stack[0 .. co_stack_count-1]
    current,    \* the global `current'
    status,     \* status[k] is k->status
    context,    \* context[k]: whose stack k->context points into, and how deep
    uc_link,    \* uc_link[k]: the block k->context.uc_link points into
    at,         \* at[k]: where k's own stack really is: a Frame while it is
                \* switched out, "client" or "wait" while it runs, "over" when
                \* its function has returned
    awaited,    \* awaited[k]: the argument of k's last co_wait, until k calls
                \* the library again or that block becomes another coroutine
    running,    \* the coroutine whose stack the processor is on
    wild        \* the processor left the program: see Resume and Start

libco == <<alloc, co_stack, current, status, context, uc_link, at, awaited,
           running, wild>>

Context == [owner : Block, frame : Frame]

LibcoTypeOK ==
    /\ alloc \subseteq Co
    /\ co_stack \in Seq(Block)
    /\ current \in Block
    /\ status \in [Block -> {"new", "running", "waiting", "dead"}]
    /\ context \in [Block -> Context]
    /\ uc_link \in [Co -> Block]
    /\ at \in [Block -> Frame \cup {"client", "over"}]
    /\ awaited \in [Block -> Co \cup {None}]
    /\ running \in Block
    /\ wild \in BOOLEAN

\* co_init: only the main coroutine exists, and it is running.  The fields of
\* a block that was never allocated read as those of a finished coroutine.
LibcoInit ==
    /\ alloc = {}
    /\ co_stack = <<Main>>
    /\ current = Main
    /\ status = [k \in Block |-> IF k = Main THEN "running" ELSE "dead"]
    /\ context = [k \in Block |-> [owner |-> k, frame |-> "entry"]]
    /\ uc_link = [k \in Co |-> Main]
    /\ at = [k \in Block |-> IF k = Main THEN "client" ELSE "over"]
    /\ awaited = [k \in Block |-> None]
    /\ running = Main
    /\ wild = FALSE

Live == alloc \cup {Main}
Listed == {co_stack[i] : i \in 1 .. Len(co_stack)}

----------------------------------------------------------------------------

(***************************************************************************)
(* What a context saved with the stack pointer at frame f finds when it is *)
(* restored on a stack whose owner has since been switched out at frame g. *)
(* Equal frames are the same return addresses.  A shallower f meets the    *)
(* return address that the deeper call chain left at that depth: co_yield  *)
(* returns into the client at once, or the loop of co_wait finds itself    *)
(* behind its refresh_co_stack.  A deeper f reads memory no live frame     *)
(* owns.                                                                   *)
(***************************************************************************)
Restorable(f, g) ==
    \/ f = g /\ f \in Frame
    \/ f = "yield" /\ g \in {"wait", "reclaim"}
    \/ f = "wait" /\ g = "reclaim"

\* Where the owner of the restored context finds itself.
Landing(f, g) == IF f = "wait" /\ g = "wait" THEN "wait" ELSE "client"

(***************************************************************************)
(* setcontext(&k->context), with cx the contexts and pos the stacks at     *)
(* that moment.  The result of restoring a freed block, the stack of a     *)
(* finished coroutine, or a context that is not Restorable is arbitrary:   *)
(* the machine is `wild' and the model stops.                              *)
(***************************************************************************)
Resume(k, cx, pos) ==
    LET o == cx[k].owner
        f == cx[k].frame
    IN  \/ /\ k \in Live' /\ o \in Live' /\ Restorable(f, pos[o])
           /\ running' = o
           /\ at' = [pos EXCEPT ![o] = Landing(f, pos[o])]
           /\ UNCHANGED wild
        \/ /\ ~(k \in Live' /\ o \in Live' /\ Restorable(f, pos[o]))
           /\ wild' = TRUE
           /\ at' = pos
           /\ UNCHANGED running

\* (Mutated form: rand() % (co_stack_count - 1).)
PickableLast(st) == {co_stack'[i] : i \in {j \in 1 .. Len(co_stack') - 1 :
                                             st[co_stack'[j]] # "dead"}}

\* next_co: rand() picks any entry of co_stack that has not ended; st is the
\* status of the blocks.
Pickable(st) == {k \in Listed' : st[k] # "dead"}

\* (Mutated form: no test for CO_DEAD.)
MarkedDeadToo(st) == [st EXCEPT ![current] = "waiting"]

\* co_yield marks whom it leaves, or whom it takes for that, as waiting.
Marked(st) == IF st[current] = "dead"
              THEN st ELSE [st EXCEPT ![current] = "waiting"]

(***************************************************************************)
(* co_yield, called at frame f, when next_co picks n.  st is the status of *)
(* the blocks when co_yield is entered.  The registers of the coroutine    *)
(* that really runs go into the block that `current' names.                *)
(***************************************************************************)
SwitchTo(n, f, st) ==
    LET cx == [context EXCEPT ![current] = [owner |-> running, frame |-> f]]
    IN  /\ n \in Pickable(st)
        /\ status' = [Marked(st) EXCEPT ![n] = "running"]
        /\ current' = n
        /\ context' = cx
        /\ Resume(n, cx, [at EXCEPT ![running] = f])

\* (Mutated form: only co_stack_count goes down.)
Popped(i) == [j \in 1 .. Len(co_stack) - 1 |-> co_stack[j]]

\* co_stack without its i-th entry, the later ones moved down.
Without(i) == [j \in 1 .. Len(co_stack) - 1 |->
                  IF j < i THEN co_stack[j] ELSE co_stack[j + 1]]

(***************************************************************************)
(* refresh_co_stack(k) for a finished k: the first entry for k leaves      *)
(* co_stack, k is freed, and co_yield is called although the caller could  *)
(* go on; `current' may be the block that was just freed.                  *)
(***************************************************************************)
Reclaim(k, n) ==
    /\ \E i \in 1 .. Len(co_stack) :
          /\ co_stack[i] = k
          /\ \A j \in 1 .. i - 1 : co_stack[j] # k
          /\ co_stack' = Without(i)
    /\ alloc' = alloc \ {k}
    /\ SwitchTo(n, "reclaim", status)

----------------------------------------------------------------------------
\* The calls a client makes, from the stack of `running'.

ClientRuns == ~wild /\ at[running] = "client"

\* (Mutated forms: the top of co_stack; uc_link left unset.)
LinkToNewest == co_stack[Len(co_stack)]
LinkToNone == None

\* Where a coroutine started now goes when its function returns.
LinkTarget == current

\* co_start returns the block k that malloc found; nothing is switched.  The
\* slot behind the last one of co_stack is written without a check.
Start(k) ==
    /\ ClientRuns
    /\ k \in Co \ alloc
    /\ alloc' = alloc \cup {k}
    /\ status' = [status EXCEPT ![k] = "new"]
    /\ context' = [context EXCEPT ![k] = [owner |-> k, frame |-> "entry"]]
    /\ uc_link' = [uc_link EXCEPT ![k] = LinkTarget]
    /\ at' = [at EXCEPT ![k] = "entry"]
    /\ awaited' = [o \in Block |->
                      IF o \in {k, running} \/ awaited[o] = k
                      THEN None ELSE awaited[o]]
    /\ \/ /\ Len(co_stack) < Capacity
          /\ co_stack' = Append(co_stack, k)
          /\ UNCHANGED wild
       \/ /\ Len(co_stack) >= Capacity
          /\ wild' = TRUE
          /\ UNCHANGED co_stack
    /\ UNCHANGED <<current, running>>

Yield(n) ==
    /\ ClientRuns
    /\ awaited' = [awaited EXCEPT ![running] = None]
    /\ UNCHANGED <<alloc, co_stack, uc_link>>
    /\ SwitchTo(n, "yield", status)

\* co_wait(k), up to its first switch.
Wait(k, n) ==
    /\ ClientRuns
    /\ k \in alloc
    /\ awaited' = [awaited EXCEPT ![running] = k]
    /\ \/ /\ status[k] = "dead"
          /\ Reclaim(k, n)
       \/ /\ status[k] # "dead"
          /\ UNCHANGED <<alloc, co_stack>>
          /\ SwitchTo(n, "wait", [status EXCEPT ![k] = "waiting"])
    /\ UNCHANGED uc_link

\* (Mutated form: co_wait with an `if' in place of its loop.)
WaitOnce(n) ==
    /\ ~wild
    /\ at[running] = "wait"
    /\ Reclaim(awaited[running], n)
    /\ UNCHANGED <<uc_link, awaited>>

\* The loop of co_wait looks at the awaited coroutine again.
WaitLoop(n) ==
    /\ ~wild
    /\ at[running] = "wait"
    /\ \/ /\ status[awaited[running]] = "dead"
          /\ Reclaim(awaited[running], n)
       \/ /\ status[awaited[running]] # "dead"
          /\ UNCHANGED <<alloc, co_stack>>
          /\ SwitchTo(n, "wait", status)
    /\ UNCHANGED <<uc_link, awaited>>

\* wrapper_func after func(arg) has returned: the block is marked dead and
\* the processor goes to the context uc_link names.  `current' stays.
Return ==
    /\ ClientRuns
    /\ running # Main
    /\ status' = [status EXCEPT ![running] = "dead"]
    /\ UNCHANGED <<alloc, co_stack, current, context, uc_link, awaited>>
    /\ Resume(uc_link[running], context, [at EXCEPT ![running] = "over"])
----------------------------------------------------------------------------
\* What every client may expect of the library.

\* The processor is never sent to a stale, freed or finished context.
NeverWild == ~wild

\* co_stack holds the main coroutine and every allocated one exactly once:
\* refresh_co_stack neither loses a runnable entry nor keeps a freed one.
StackListsLive ==
    wild \/ ( /\ Listed = Live
              /\ \A i, j \in 1 .. Len(co_stack) :
                    co_stack[i] = co_stack[j] => i = j )

\* A coroutine is CO_DEAD exactly when its function has returned, although
\* co_wait, co_yield and next_co all write the status of coroutines that they
\* do not run.
DeadIffOver ==
    wild \/ \A k \in alloc : status[k] = "dead" <=> at[k] = "over"

\* co_wait(k) has returned only after k's function returned.
WaitReturnsAfterEnd ==
    \/ wild
    \/ at[running] = "client" /\ awaited[running] # None
          => at[awaited[running]] = "over"

\* A coroutine is freed only after its function returned, and only by the
\* coroutine that waits for it.
FreedByItsWaiter ==
    [][\A k \in alloc \ alloc' :
          at[k] = "over" /\ awaited'[running] = k]_libco

\* The processor only goes wild by a write past co_stack, which leaves a live
\* coroutine out of it: what a client gets that has one coroutine at a time.
WildOnlyByOverflow == wild => ~(Live \subseteq Listed)

\* "CO_DEAD, ended, but its resources are not released yet" (co.c:28): co_yield
\* only saves a context into a block that is still allocated.
DeadIsNotReleased ==
    [][\A k \in Co : context'[k] # context[k] => k \in alloc']_libco
=============================================================================
