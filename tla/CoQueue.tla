------------------------------ MODULE CoQueue ------------------------------
(***************************************************************************)
(* tests/main.c test_2: producers and consumers over one bounded queue,    *)
(* switched by the coroutine library alone.  main starts them all, waits   *)
(* for the producers, clears g_running, waits for the consumers and prints *)
(* what is left.                                                           *)
(*                                                                         *)
(* The items are the numbers that g_count gives them, counted from 0.      *)
(***************************************************************************)
EXTENDS Libco

CONSTANTS
    Producers,   \* how many producers (2 in the test)
    Consumers,   \* how many consumers (2)
    Items,       \* items that each producer makes (100)
    Cap          \* capacity of the queue (100)

ASSUME QueueAssumption ==
    /\ {Producers, Consumers, Items, Cap} \subseteq Nat \ {0}
    /\ Producers + Consumers < Capacity

VARIABLES
    thd,        \* thd[i]: the i-th coroutine that main started
    waited,     \* how many of them main has called co_wait for
    g_running, g_count,
    made,       \* made[k]: the producers' loop counter i
    list, sz,   \* the queue: its list of items, and the size kept beside it
    printed,    \* the items printed, in order
    done        \* test_2 has returned

queueVars == <<g_count, made, list, sz, printed>>
vars == <<libco, thd, waited, g_running, queueVars, done>>

Init ==
    /\ LibcoInit
    /\ thd = <<>> /\ waited = 0
    /\ g_running = TRUE /\ g_count = 0
    /\ made = [k \in Co |-> 0]
    /\ list = <<>> /\ sz = 0
    /\ printed = <<>>
    /\ done = FALSE

IsProducer(k) == \E i \in 1 .. Producers : i <= Len(thd) /\ thd[i] = k

\* q_is_full looks at the size, q_is_empty at the list.
Full == sz = Cap
Empty == list = <<>>

\* (Mutated forms: list_add for list_add_tail; sz left alone.)
PushFront(item) ==
    /\ list' = <<item>> \o list
    /\ sz' = sz + 1
PopKeepsSize == list' = Tail(list) /\ UNCHANGED sz

Push(item) ==
    /\ list' = Append(list, item)
    /\ sz' = sz + 1

Pop ==
    /\ list' = Tail(list)
    /\ sz' = sz - 1

----------------------------------------------------------------------------
\* Main

StartNext(k) ==
    /\ running = Main
    /\ Len(thd) < Producers + Consumers
    /\ Start(k)
    /\ thd' = Append(thd, k)
    /\ UNCHANGED <<waited, g_running, queueVars, done>>

\* (Mutated form: g_running cleared one co_wait too early.)
OneProducerLeft == waited = Producers - 1

\* All producers have been waited for, and no consumer yet.
ProducersJoined == waited = Producers

\* The next co_wait; g_running is cleared between the last co_wait for a
\* producer and the first one for a consumer.
WaitNext(n) ==
    /\ running = Main
    /\ Len(thd) = Producers + Consumers /\ waited < Len(thd)
    /\ Wait(thd[waited + 1], n)
    /\ waited' = waited + 1
    /\ g_running' = (g_running /\ ~ProducersJoined)
    /\ UNCHANGED <<thd, queueVars, done>>

WaitMore(n) == WaitLoop(n) /\ UNCHANGED <<thd, waited, g_running, queueVars, done>>

\* The loop of do_consume after the last co_wait, and q_free.
Drain ==
    /\ ClientRuns /\ running = Main /\ ~done
    /\ waited = Producers + Consumers
    /\ printed' = printed \o list
    /\ list' = <<>> /\ sz' = 0
    /\ done' = TRUE
    /\ UNCHANGED <<libco, thd, waited, g_running, g_count, made>>

----------------------------------------------------------------------------
\* Coroutines: one turn of the loop each, up to its co_yield.

Produce(n) ==
    /\ running # Main /\ IsProducer(running)
    /\ made[running] < Items
    /\ \/ /\ ~Full
          /\ Push(g_count)
          /\ g_count' = g_count + 1
          /\ made' = [made EXCEPT ![running] = @ + 1]
       \/ Full /\ UNCHANGED <<g_count, made, list, sz>>
    /\ Yield(n)
    /\ UNCHANGED <<thd, waited, g_running, printed, done>>

ProducerReturns ==
    /\ running # Main /\ IsProducer(running)
    /\ made[running] = Items
    /\ Return
    /\ UNCHANGED <<thd, waited, g_running, queueVars, done>>

Consume(n) ==
    /\ running # Main /\ ~IsProducer(running)
    /\ g_running
    /\ \/ ~Empty /\ Pop /\ printed' = Append(printed, Head(list))
       \/ Empty /\ UNCHANGED <<list, sz, printed>>
    /\ Yield(n)
    /\ UNCHANGED <<thd, waited, g_running, g_count, made, done>>

ConsumerReturns ==
    /\ running # Main /\ ~IsProducer(running)
    /\ ~g_running
    /\ Return
    /\ UNCHANGED <<thd, waited, g_running, queueVars, done>>

Pick(n) == WaitNext(n) \/ WaitMore(n) \/ Produce(n) \/ Consume(n)

Next ==
    \/ \E k \in Co : StartNext(k)
    \/ \E n \in Block : Pick(n)
    \/ ProducerReturns \/ ConsumerReturns \/ Drain

\* rand() picks every entry again and again, and no step of the test's own
\* code can fail to end.
Fairness == WF_vars(Next) /\ \A n \in Block : SF_vars(Pick(n))

Spec == Init /\ [][Next]_vars /\ Fairness

----------------------------------------------------------------------------

TypeOK ==
    /\ LibcoTypeOK
    /\ thd \in Seq(Co) /\ waited \in 0 .. Len(thd)
    /\ {g_running, done} \subseteq BOOLEAN
    /\ g_count \in Nat /\ sz \in Nat
    /\ made \in [Co -> 0 .. Items]
    /\ list \in Seq(Nat) /\ printed \in Seq(Nat)

\* "Expect: (libco-){200, 201, ..., 399}" (tests/main.c:127): whoever produces
\* and whoever consumes, the items are printed in the order of their numbers,
\* and none is lost between printing and the queue.
PrintedInOrder ==
    LET seen == printed \o list
    IN  /\ Len(seen) = g_count
        /\ \A i \in 1 .. Len(seen) : seen[i] = i - 1

\* The size beside the list, which only q_is_full looks at, agrees with the
\* list, which only q_is_empty looks at.
SizeAgrees == sz = Len(list) /\ sz <= Cap

\* No consumer gives up while a producer may still add to the queue.
ConsumersOutlastProducers ==
    wild \/ \A i, j \in 1 .. Len(thd) :
        (i <= Producers /\ j > Producers /\ at[thd[j]] = "over")
            => at[thd[i]] = "over"

\* test_2 comes to its end, with everything printed.
Terminates == <>(done /\ Len(printed) = Producers * Items)
=============================================================================
