----------------------------- MODULE Coroutines -----------------------------
(***************************************************************************)
(* What co.h promises to a client whose main coroutine starts and joins:   *)
(* a coroutine exists from co_start on, its function returns at most once, *)
(* and co_wait holds main up until that has happened, after which the      *)
(* coroutine is gone.  Nothing here depends on how contexts are switched.  *)
(***************************************************************************)
CONSTANTS
    Co,     \* the coroutines
    None    \* main is not in co_wait

VARIABLES
    phase,   \* phase[k]: "absent", "started" or "ended"
    joining  \* the argument of the co_wait that main is in

vars == <<phase, joining>>

TypeOK ==
    /\ phase \in [Co -> {"absent", "started", "ended"}]
    /\ joining \in Co \cup {None}

Init == phase = [k \in Co |-> "absent"] /\ joining = None

Start(k) ==
    /\ joining = None
    /\ phase[k] = "absent"
    /\ phase' = [phase EXCEPT ![k] = "started"]
    /\ UNCHANGED joining

\* co_wait(k) is entered; it may return at once when k has ended.
Join(k) ==
    /\ joining = None
    /\ phase[k] # "absent"
    /\ \/ joining' = k /\ UNCHANGED phase
       \/ /\ phase[k] = "ended"
          /\ phase' = [phase EXCEPT ![k] = "absent"]
          /\ UNCHANGED joining

\* co_wait returns.
Return ==
    /\ joining # None
    /\ phase[joining] = "ended"
    /\ phase' = [phase EXCEPT ![joining] = "absent"]
    /\ joining' = None

\* The function of k returns, which may be what lets main go on after the
\* co_wait for another coroutine.
End(k) ==
    /\ phase[k] = "started"
    /\ \/ /\ phase' = [phase EXCEPT ![k] = "ended"]
          /\ UNCHANGED joining
       \/ /\ joining # None
          /\ phase[joining] = "ended"
          /\ phase' = [phase EXCEPT ![k] = "ended", ![joining] = "absent"]
          /\ joining' = None

Next ==
    \/ \E k \in Co : Start(k) \/ Join(k) \/ End(k)
    \/ Return

Spec == Init /\ [][Next]_vars
=============================================================================
