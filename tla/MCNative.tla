----------------------------- MODULE MCNative -----------------------------
EXTENDS Native

CONSTANTS t1, t2, esc, a, A, B, f

MCTasks == {t1, t2}
MCKeys == {esc, a}

MCSpec == NativeSpec /\ NativeFairness

(***************************************************************************)
(* A kernel that goes on polling empties the ring, every event thread gets *)
(* its key in, and the kernel halts when it has read Escape.  The premise  *)
(* leaves out tasks that for ever switch to each other inside the lock.    *)
(***************************************************************************)
EverythingIsRead ==
    ([]<>(\A t \in Tasks : task[t].pc = "client"))
        => <>[](\/ halted \/ misused
                \/ /\ Held = 0 /\ Escape \notin {delivered[i] : i \in DOMAIN delivered}
                   /\ \A m \in Threads : thread[m].pc \in {"none", "wait"})
===========================================================================
