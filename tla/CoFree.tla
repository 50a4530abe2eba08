------------------------------- MODULE CoFree -------------------------------
(***************************************************************************)
(* Any client of the library: every coroutine, not only the main one, may  *)
(* start, yield and wait in any order, as long as each coroutine is waited *)
(* for once and not by itself.                                             *)
(***************************************************************************)
EXTENDS Libco

FreeInit == LibcoInit

WaitFor(k, n) ==
    /\ k # running
    /\ \A o \in Live : awaited[o] # k
    /\ Wait(k, n)

FreeNext ==
    \/ \E k \in Co : Start(k)
    \/ \E n \in Block : Yield(n) \/ WaitLoop(n)
    \/ \E k \in Co, n \in Block : WaitFor(k, n)
    \/ Return

FreeSpec == FreeInit /\ [][FreeNext]_libco
=============================================================================
