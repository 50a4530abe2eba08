------------------------------ MODULE KeyRing ------------------------------
(***************************************************************************)
(* The keyboard of AM native, ioe/input.c: SDL's event thread puts key     *)
(* codes into a ring, ioe_read takes them out.                             *)
(*                                                                         *)
(* The reading side is one operating-system thread, the processor, on      *)
(* which an interrupt may switch between several tasks (contexts of the    *)
(* program's own kernel) anywhere outside the C and SDL libraries: cte.c   *)
(* drops interrupts that arrive inside them.  SDL's mutexes are recursive, *)
(* so the mutex keeps the event thread out of what the tasks do, but not   *)
(* the tasks out of what another one does.                                 *)
(*                                                                         *)
(* -O2 code loads key_f once in __am_input_keybrd and key_r once in the    *)
(* event thread, and stores what it computed from them.  A thread loads    *)
(* the pointer to the mutex and then waits for the mutex it has loaded.    *)
(***************************************************************************)
EXTENDS Naturals, Sequences, FiniteSets

CONSTANTS
    Tasks,           \* contexts that may read the keyboard
    Keys,            \* the codes of pressed and released keys
    NoKey,           \* AM_KEY_NONE
    KEY_QUEUE_LEN,   \* slots of the ring (1024)
    MaxInits,        \* bound on the calls of __am_input_init
    MaxPresses       \* bound on the key events of SDL

ASSUME KeyRingAssumption ==
    /\ NoKey \notin Keys
    /\ KEY_QUEUE_LEN \in Nat \ {0, 1}
    /\ {MaxInits, MaxPresses} \subseteq Nat
    /\ Tasks \cap Nat = {}

VARIABLES
    key_queue, key_f, key_r,
    key_queue_lock,   \* the mutex that the global names; 0 is NULL
    holders,          \* holders[m]: who has locked the mutex m
    thread,           \* thread[m]: the event thread made together with m; lock
                      \* is the mutex that it has loaded and is about to take
    task,             \* task[t]: where t is in __am_input_keybrd
    current,          \* the task on the processor
    presses,          \* key events so far
    delivered,        \* history: the keys handed to the program
    misused           \* history: see Misuse

ringVars == <<key_queue, key_f, key_r>>
keyVars == <<ringVars, key_queue_lock, holders, thread, task, current, presses,
             delivered, misused>>

Slot == 0 .. KEY_QUEUE_LEN - 1
Threads == 1 .. MaxInits

\* A thread that waits for an event and a task that reads no key: their locals
\* are out of scope.
NoEvent == [pc |-> "wait", code |-> NoKey, slot |-> 0, lock |-> 0]
NoRead == [pc |-> "client", key |-> NoKey, slot |-> 0]

KeyInit ==
    /\ key_queue = [s \in Slot |-> NoKey] /\ key_f = 0 /\ key_r = 0
    /\ key_queue_lock = 0
    /\ holders = [m \in Threads |-> {}]
    /\ thread = [m \in Threads |-> [NoEvent EXCEPT !.pc = "none"]]
    /\ task = [t \in Tasks |-> NoRead]
    /\ current \in Tasks
    /\ presses = 0 /\ delivered = <<>> /\ misused = FALSE

(***************************************************************************)
(* Three things let two actors update one index: the devices are           *)
(* initialised again while an event thread holds the mutex that the global *)
(* stops naming; an event thread loads the pointer, the devices are        *)
(* initialised again, and it takes the mutex that nobody else asks for any *)
(* more; a task is switched away from between its load and its store of    *)
(* key_f.  Nothing is said of what comes after that: the model stops.      *)
(***************************************************************************)
Inside == {"put", "advance", "unlock"}

Misuse(wrong) == misused' = (misused \/ wrong)

\* __am_input_init: a new mutex and a new event thread.  The program that gets
\* here has no task in the middle of __am_input_keybrd.
InputInit ==
    /\ key_queue_lock < MaxInits
    /\ \A t \in Tasks : task[t].pc = "client"
    /\ Misuse(\E m \in Threads : thread[m].pc \in Inside)
    /\ key_queue_lock' = key_queue_lock + 1
    /\ thread' = [thread EXCEPT ![key_queue_lock + 1].pc = "wait"]
    /\ UNCHANGED <<ringVars, holders, task, current, presses, delivered>>

\* SDL_LockMutex: the processor may lock what it has locked already.
Lockable(who, mutex) ==
    \/ holders[mutex] = {}
    \/ who \in Tasks /\ holders[mutex] \subseteq Tasks

Lock(who, mutex) ==
    /\ Lockable(who, mutex)
    /\ holders' = [holders EXCEPT ![mutex] = @ \cup {who}]

\* SDL_UnlockMutex(key_queue_lock), which loads the pointer again.  Of a mutex
\* that somebody else holds it only returns an error.
Unlock(who) == holders' = [holders EXCEPT ![key_queue_lock] = @ \ {who}]

\* (Mutated form: the index does not wrap around.)
Unwrapped(s) == s + 1

After(s) == (s + 1) % KEY_QUEUE_LEN

----------------------------------------------------------------------------
\* event_thread

\* SDL_WaitEvent returns a key that the keymap knows.
KeyEvent(m, k) ==
    /\ thread[m].pc = "wait" /\ presses < MaxPresses
    /\ presses' = presses + 1
    /\ thread' = [thread EXCEPT ![m] = [@ EXCEPT !.pc = "load", !.code = k]]
    /\ UNCHANGED <<ringVars, key_queue_lock, holders, task, current, delivered,
                   misused>>

\* The argument of SDL_LockMutex.
EventLoad(m) ==
    /\ thread[m].pc = "load"
    /\ thread' = [thread EXCEPT ![m] = [@ EXCEPT !.pc = "lock", !.lock = key_queue_lock]]
    /\ UNCHANGED <<ringVars, key_queue_lock, holders, task, current, presses,
                   delivered, misused>>

\* SDL_LockMutex lets the thread in, perhaps by a mutex out of use.
EventLock(m) ==
    /\ thread[m].pc = "lock"
    /\ Lock(m, thread[m].lock)
    /\ Misuse(thread[m].lock # key_queue_lock)
    /\ thread' = [thread EXCEPT ![m] = [@ EXCEPT !.pc = "put", !.lock = 0]]
    /\ UNCHANGED <<ringVars, key_queue_lock, task, current, presses, delivered>>

EventPut(m) ==
    /\ thread[m].pc = "put"
    /\ key_queue' = [key_queue EXCEPT ![key_r] = thread[m].code]
    /\ thread' = [thread EXCEPT ![m] = [@ EXCEPT !.pc = "advance", !.slot = key_r]]
    /\ UNCHANGED <<key_f, key_r, key_queue_lock, holders, task, current,
                   presses, delivered, misused>>

EventAdvance(m) ==
    /\ thread[m].pc = "advance"
    /\ key_r' = After(thread[m].slot)
    /\ thread' = [thread EXCEPT ![m].pc = "unlock"]
    /\ UNCHANGED <<key_queue, key_f, key_queue_lock, holders, task, current,
                   presses, delivered, misused>>

\* Behind the unlock the thread raises the keyboard interrupt, which Preempt
\* allows for at any time.
EventUnlock(m) ==
    /\ thread[m].pc = "unlock"
    /\ Unlock(m)
    /\ thread' = [thread EXCEPT ![m] = NoEvent]
    /\ UNCHANGED <<ringVars, key_queue_lock, task, current, presses, delivered,
                   misused>>

EventStep(m) ==
    EventLoad(m) \/ EventLock(m) \/ EventPut(m) \/ EventAdvance(m) \/ EventUnlock(m)

----------------------------------------------------------------------------
\* __am_input_keybrd, on the processor

\* The pointer is loaded and the mutex taken: it cannot change in between,
\* since InputInit is not called with a task in here.
ReadLock(t) ==
    /\ current = t /\ task[t].pc = "client" /\ key_queue_lock # 0
    /\ Lock(t, key_queue_lock)
    /\ task' = [task EXCEPT ![t] = [@ EXCEPT !.pc = "look", !.key = NoKey]]
    /\ UNCHANGED <<ringVars, key_queue_lock, thread, current, presses, delivered,
                   misused>>

\* (Mutated form: the test for an empty ring left out.)
LookBlindly(t) ==
    /\ current = t /\ task[t].pc = "look"
    /\ task' = [task EXCEPT ![t] = [@ EXCEPT !.slot = key_f, !.pc = "take"]]
    /\ UNCHANGED <<ringVars, key_queue_lock, holders, thread, current, presses,
                   delivered, misused>>

ReadLook(t) ==
    /\ current = t /\ task[t].pc = "look"
    /\ task' = [task EXCEPT ![t] =
         [@ EXCEPT !.slot = key_f, !.pc = IF key_f # key_r THEN "take" ELSE "unlock"]]
    /\ UNCHANGED <<ringVars, key_queue_lock, holders, thread, current, presses,
                   delivered, misused>>

ReadTake(t) ==
    /\ current = t /\ task[t].pc = "take"
    /\ task' = [task EXCEPT ![t] =
         [@ EXCEPT !.key = key_queue[task[t].slot], !.pc = "unlock"]]
    /\ key_f' = After(task[t].slot)
    /\ delivered' = Append(delivered, key_queue[task[t].slot])
    /\ UNCHANGED <<key_queue, key_r, key_queue_lock, holders, thread, current,
                   presses, misused>>

\* (Mutated form: the mutex is not given back when the ring was empty.)
UnlockIfRead(t) ==
    /\ current = t /\ task[t].pc = "unlock"
    /\ \/ task[t].key = NoKey /\ UNCHANGED holders
       \/ task[t].key # NoKey /\ Unlock(t)
    /\ task' = [task EXCEPT ![t] = NoRead]
    /\ UNCHANGED <<ringVars, key_queue_lock, thread, current, presses, delivered,
                   misused>>

ReadUnlock(t) ==
    /\ current = t /\ task[t].pc = "unlock"
    /\ Unlock(t)
    /\ task' = [task EXCEPT ![t] = NoRead]
    /\ UNCHANGED <<ringVars, key_queue_lock, thread, current, presses, delivered,
                   misused>>

ReadStep(t) == ReadLock(t) \/ ReadLook(t) \/ ReadTake(t) \/ ReadUnlock(t)

\* An interrupt whose handler goes on with another task.
Preempt(t) ==
    /\ t # current
    /\ current' = t
    /\ Misuse(task[current].pc = "take")
    /\ UNCHANGED <<ringVars, key_queue_lock, holders, thread, task, presses,
                   delivered>>

KeyNext ==
    /\ ~misused
    /\ \/ InputInit
       \/ \E m \in Threads : EventStep(m) \/ \E k \in Keys : KeyEvent(m, k)
       \/ \E t \in Tasks : ReadStep(t) \/ Preempt(t)

KeySpec == KeyInit /\ [][KeyNext]_keyVars

----------------------------------------------------------------------------

KeyTypeOK ==
    /\ key_queue \in [Slot -> Keys \cup {NoKey}]
    /\ {key_f, key_r} \subseteq Slot
    /\ key_queue_lock \in 0 .. MaxInits
    /\ holders \in [Threads -> SUBSET (Threads \cup Tasks)]
    /\ thread \in [Threads -> [pc : {"none", "wait", "load", "lock", "put", "advance", "unlock"},
                               code : Keys \cup {NoKey}, slot : Slot,
                               lock : 0 .. MaxInits]]
    /\ task \in [Tasks -> [pc : {"client", "look", "take", "unlock"},
                           key : Keys \cup {NoKey}, slot : Slot]]
    /\ current \in Tasks
    /\ presses \in Nat
    /\ delivered \in Seq(Keys \cup {NoKey})
    /\ misused \in BOOLEAN

(***************************************************************************)
(* The ring holds what lies between key_f and key_r, which makes a full    *)
(* ring and an empty one look the same.                                    *)
(***************************************************************************)
Held == IF key_r >= key_f THEN key_r - key_f ELSE key_r + KEY_QUEUE_LEN - key_f

SlotAt(i) == IF key_f + i < KEY_QUEUE_LEN THEN key_f + i
             ELSE key_f + i - KEY_QUEUE_LEN

Contents == [i \in 1 .. Held |-> key_queue[SlotAt(i - 1)]]

Queue == INSTANCE KeyQueue
            WITH Capacity <- KEY_QUEUE_LEN - 1,
                 waiting <- Contents, read <- delivered, broken <- misused

\* The ring with its mutex is a queue: every key that is in it comes out once
\* and in order, whatever the event thread does meanwhile.
RingIsQueue == Queue!Spec
=============================================================================
