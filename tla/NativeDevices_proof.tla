------------------------- MODULE NativeDevices_proof -------------------------
(***************************************************************************)
(* Proofs about the devices of AM native: the ring of keys (KeyRing), for  *)
(* any tasks, any keys and any length of the ring, and sound (Audio), for  *)
(* any capacity of the pipe, any lengths of the buffers and any stream.    *)
(***************************************************************************)
EXTENDS KeyRing, Audio, SequenceTheorems, TLAPS

(***************************************************************************)
(* The ring: the mutex keeps the event thread out of what the tasks do,    *)
(* and therefore the ring implements the queue of KeyQueue.                *)
(***************************************************************************)

Busy == {"look", "take", "unlock"}

\* The mutex that the global names, and who is between its lock and unlock.
Exclusion ==
    /\ \A m \in Threads :
         /\ thread[m].pc # "none" => m <= key_queue_lock
         /\ m > key_queue_lock => holders[m] = {}
         /\ thread[m].pc \in Inside => holders[key_queue_lock] = {m}
    /\ \A t \in Tasks : task[t].pc \in Busy => key_queue_lock # 0 /\ t \in holders[key_queue_lock]
    /\ key_queue_lock # 0 => \/ holders[key_queue_lock] \subseteq Tasks
                             \/ \E m \in Threads : holders[key_queue_lock] = {m}

\* What the locals know of the ring.
LocalsFresh ==
    /\ \A m \in Threads :
         /\ thread[m].pc \in {"load", "lock", "put", "advance"} => thread[m].code \in Keys
         /\ thread[m].pc = "advance" =>
              thread[m].slot = key_r /\ key_queue[key_r] = thread[m].code
    /\ \A t \in Tasks :
         task[t].pc = "take" => t = current /\ task[t].slot = key_f /\ key_f # key_r

RingInv ==
    /\ KeyTypeOK
    /\ ~misused => Exclusion /\ LocalsFresh

----------------------------------------------------------------------------
\* The ring

LEMMA LenAssumption == KEY_QUEUE_LEN \in Nat /\ KEY_QUEUE_LEN > 1
BY KeyRingAssumption

LEMMA AfterIsNext ==
    ASSUME NEW s \in Slot
    PROVE  /\ After(s) \in Slot
           /\ After(s) = IF s + 1 = KEY_QUEUE_LEN THEN 0 ELSE s + 1
BY LenAssumption DEF After, Slot

HeldOf(f, r) == IF r >= f THEN r - f ELSE r + KEY_QUEUE_LEN - f
SlotOf(f, i) == IF f + i < KEY_QUEUE_LEN THEN f + i ELSE f + i - KEY_QUEUE_LEN
ContentsOf(q, f, r) == [i \in 1 .. HeldOf(f, r) |-> q[SlotOf(f, i - 1)]]

LEMMA ContentsIs == Contents = ContentsOf(key_queue, key_f, key_r)
BY DEF Contents, ContentsOf, Held, HeldOf, SlotAt, SlotOf

LEMMA HeldType ==
    ASSUME NEW f \in Slot, NEW r \in Slot
    PROVE  /\ HeldOf(f, r) \in 0 .. KEY_QUEUE_LEN - 1
           /\ HeldOf(f, r) = 0 <=> f = r
           /\ \A i \in 0 .. KEY_QUEUE_LEN - 1 : SlotOf(f, i) \in Slot
           /\ \A i \in 0 .. HeldOf(f, r) - 1 : SlotOf(f, i) # r
           /\ SlotOf(f, HeldOf(f, r)) = r
           /\ SlotOf(f, 0) = f
BY LenAssumption DEF Slot, HeldOf, SlotOf

Code == Keys \cup {NoKey}
Queues == [Slot -> Code]

LEMMA ContentsType ==
    ASSUME NEW q \in Queues, NEW f \in Slot, NEW r \in Slot
    PROVE  /\ ContentsOf(q, f, r) \in Seq(Code)
           /\ Len(ContentsOf(q, f, r)) = HeldOf(f, r)
           /\ \A i \in 1 .. HeldOf(f, r) : ContentsOf(q, f, r)[i] = q[SlotOf(f, i - 1)]
<1>1. HeldOf(f, r) \in Nat
  BY HeldType, LenAssumption
<1>2. \A i \in 1 .. HeldOf(f, r) : i - 1 \in 0 .. KEY_QUEUE_LEN - 1
  BY HeldType, LenAssumption
<1>3. \A i \in 1 .. HeldOf(f, r) : q[SlotOf(f, i - 1)] \in Code
  BY <1>2, HeldType DEF Queues
<1>4. ContentsOf(q, f, r) \in [1 .. HeldOf(f, r) -> Code]
  BY <1>3 DEF ContentsOf
<1> QED
  BY <1>1, <1>4 DEF ContentsOf

LEMMA ContentsAre ==
    \A q \in Queues, f, r \in Slot :
       /\ Len(ContentsOf(q, f, r)) = HeldOf(f, r)
       /\ \A i \in 1 .. Len(ContentsOf(q, f, r)) : ContentsOf(q, f, r)[i] = q[SlotOf(f, i - 1)]
BY ContentsType

\* A key that is put behind the last one is not among those in the ring.
LEMMA PutOutside ==
    ASSUME NEW q \in Queues, NEW f \in Slot, NEW r \in Slot, NEW k
    PROVE  ContentsOf([q EXCEPT ![r] = k], f, r) = ContentsOf(q, f, r)
<1>0. HeldOf(f, r) \in Nat /\ HeldOf(f, r) <= KEY_QUEUE_LEN - 1
  BY HeldType, LenAssumption
<1>1. \A i \in 1 .. HeldOf(f, r) : i - 1 \in 0 .. HeldOf(f, r) - 1 /\ i - 1 \in 0 .. KEY_QUEUE_LEN - 1
  BY <1>0, LenAssumption
<1>2. \A i \in 1 .. HeldOf(f, r) : SlotOf(f, i - 1) \in Slot /\ SlotOf(f, i - 1) # r
  BY <1>1, HeldType
<1> QED
  BY <1>2 DEF ContentsOf, Queues

LEMMA PushIn ==
    ASSUME NEW q \in Queues, NEW f \in Slot, NEW r \in Slot
    PROVE  ContentsOf(q, f, After(r)) =
             IF HeldOf(f, r) = KEY_QUEUE_LEN - 1 THEN <<>>
             ELSE Append(ContentsOf(q, f, r), q[r])
<1> DEFINE old == ContentsOf(q, f, r)
           new == ContentsOf(q, f, After(r))
<1>1. /\ After(r) \in Slot
      /\ HeldOf(f, After(r)) = IF HeldOf(f, r) = KEY_QUEUE_LEN - 1 THEN 0
                               ELSE HeldOf(f, r) + 1
  BY AfterIsNext, LenAssumption DEF HeldOf, Slot
<1>2. new \in Seq(Code) /\ old \in Seq(Code) /\ q[r] \in Code
  BY <1>1, ContentsType DEF Queues
<1>3. /\ Len(new) = HeldOf(f, After(r)) /\ Len(old) = HeldOf(f, r)
      /\ \A i \in 1 .. Len(new) : new[i] = q[SlotOf(f, i - 1)]
      /\ \A i \in 1 .. Len(old) : old[i] = q[SlotOf(f, i - 1)]
  <2>1. Len(old) = HeldOf(f, r) /\ \A i \in 1 .. Len(old) : old[i] = q[SlotOf(f, i - 1)]
    BY ContentsAre
  <2>2. After(r) \in Slot
    BY <1>1
  <2>3. Len(new) = HeldOf(f, After(r)) /\ \A i \in 1 .. Len(new) : new[i] = q[SlotOf(f, i - 1)]
    BY <2>2, ContentsAre
  <2> QED
    BY <2>1, <2>3
<1>4. HeldOf(f, r) \in Nat /\ SlotOf(f, HeldOf(f, r)) = r
  BY HeldType, LenAssumption
<1> HIDE DEF new, old
<1>5. ASSUME HeldOf(f, r) = KEY_QUEUE_LEN - 1 PROVE new = <<>>
  BY <1>5, <1>1, <1>2, <1>3, EmptySeq
<1>6. ASSUME HeldOf(f, r) # KEY_QUEUE_LEN - 1 PROVE new = Append(old, q[r])
  <2>1. Len(new) = Len(old) + 1 /\ Len(old) \in Nat
    BY <1>6, <1>1, <1>3, <1>4
  <2>2. new[Len(old) + 1] = q[r]
    <3>1. new[Len(old) + 1] = q[SlotOf(f, Len(old) + 1 - 1)]
      BY <2>1, <1>3
    <3>2. Len(old) + 1 - 1 = HeldOf(f, r)
      BY <2>1, <1>3, <1>4
    <3> QED
      BY <3>1, <3>2, <1>4
  <2>3. \A i \in 1 .. Len(old) : new[i] = old[i]
    BY <2>1, <1>3
  <2>4. \A i \in 1 .. Len(new) : new[i] = Append(old, q[r])[i]
    BY <2>1, <2>2, <2>3, <1>2, AppendProperties
  <2> QED
    BY <2>1, <2>4, <1>2, AppendProperties, SeqEqual
<1> QED
  BY <1>5, <1>6 DEF new, old

LEMMA PullOut ==
    ASSUME NEW q \in Queues, NEW f \in Slot, NEW r \in Slot, f # r
    PROVE  /\ ContentsOf(q, f, r) # <<>>
           /\ Head(ContentsOf(q, f, r)) = q[f]
           /\ ContentsOf(q, After(f), r) = Tail(ContentsOf(q, f, r))
<1> DEFINE old == ContentsOf(q, f, r)
           new == ContentsOf(q, After(f), r)
<1>1. /\ After(f) \in Slot /\ HeldOf(f, r) \in Nat
      /\ HeldOf(After(f), r) = HeldOf(f, r) - 1
      /\ \A i \in 1 .. HeldOf(f, r) - 1 : SlotOf(After(f), i - 1) = SlotOf(f, i)
  BY AfterIsNext, LenAssumption DEF HeldOf, SlotOf, Slot
<1>2. new \in Seq(Code) /\ old \in Seq(Code)
  BY <1>1, ContentsType
<1>3. /\ Len(old) = HeldOf(f, r) /\ Len(new) = HeldOf(f, r) - 1
      /\ \A i \in 1 .. Len(new) : new[i] = q[SlotOf(f, i)]
      /\ \A i \in 1 .. Len(old) : old[i] = q[SlotOf(f, i - 1)]
  <2>1. Len(old) = HeldOf(f, r) /\ \A i \in 1 .. Len(old) : old[i] = q[SlotOf(f, i - 1)]
    BY ContentsAre
  <2>2. After(f) \in Slot
    BY <1>1
  <2>3. Len(new) = HeldOf(After(f), r)
        /\ \A i \in 1 .. Len(new) : new[i] = q[SlotOf(After(f), i - 1)]
    BY <2>2, ContentsAre
  <2> QED
    BY <1>1, <2>1, <2>3
<1>4. HeldOf(f, r) # 0 /\ SlotOf(f, 0) = f
  BY HeldType
<1> HIDE DEF new, old
<1>5. old # <<>> /\ old[1] = q[f]
  BY <1>1, <1>3, <1>4, <1>2, EmptySeq
<1>6. /\ Tail(old) \in Seq(Code) /\ Len(Tail(old)) = Len(new)
      /\ \A i \in 1 .. Len(new) : new[i] = Tail(old)[i]
  BY <1>1, <1>2, <1>3, <1>5, HeadTailProperties
<1>7. new = Tail(old)
  BY <1>2, <1>6, SeqEqual
<1>8. Head(old) = old[1]
  BY <1>2, <1>5
<1> QED
  BY <1>5, <1>7, <1>8 DEF new, old

----------------------------------------------------------------------------
\* Types

ThreadPlace == {"none", "wait", "load", "lock", "put", "advance", "unlock"}
ThreadType == [pc : ThreadPlace, code : Keys \cup {NoKey}, slot : Slot, lock : 0 .. MaxInits]

TaskType == [pc : {"client", "look", "take", "unlock"}, key : Keys \cup {NoKey}, slot : Slot]

LEMMA LocalsOutOfScope ==
    /\ NoEvent \in ThreadType /\ NoEvent.pc = "wait"
    /\ [NoEvent EXCEPT !.pc = "none"] \in ThreadType
    /\ [NoEvent EXCEPT !.pc = "none"].pc = "none"
    /\ NoRead \in TaskType /\ NoRead.pc = "client"
<1>1. 0 \in Slot /\ 0 \in 0 .. MaxInits
  BY LenAssumption, KeyRingAssumption DEF Slot
<1> QED
  BY <1>1 DEF NoEvent, NoRead, ThreadType, ThreadPlace, TaskType

LEMMA TypeInit == KeyInit => KeyTypeOK
<1> SUFFICES ASSUME KeyInit PROVE KeyTypeOK
  OBVIOUS
<1>1. 0 \in Slot
  BY LenAssumption DEF Slot
<1>2. key_queue_lock \in 0 .. MaxInits /\ 0 \in 0 .. MaxInits
  BY KeyRingAssumption DEF KeyInit
<1>r. /\ key_queue \in [Slot -> Keys \cup {NoKey}] /\ {key_f, key_r} \subseteq Slot
      /\ current \in Tasks /\ presses \in Nat /\ misused \in BOOLEAN
  BY <1>1 DEF KeyInit
<1>d. delivered \in Seq(Keys \cup {NoKey})
  BY DEF KeyInit
<1>h. holders \in [Threads -> SUBSET (Threads \cup Tasks)]
  BY DEF KeyInit
<1>3. thread \in [Threads -> ThreadType]
  BY LocalsOutOfScope DEF KeyInit
<1>4. task \in [Tasks -> TaskType]
  BY LocalsOutOfScope DEF KeyInit
<1> QED
  BY <1>2, <1>r, <1>d, <1>h, <1>3, <1>4 DEF KeyTypeOK, ThreadType, ThreadPlace, TaskType

\* The locals of one thread, or of one task, are assigned.
LEMMA ThreadMoves ==
    ASSUME NEW f \in [Threads -> ThreadType], NEW m \in Threads,
           NEW label \in ThreadPlace,
           NEW k \in Keys \cup {NoKey}, NEW i \in Slot, NEW l \in 0 .. MaxInits
    PROVE  /\ [f EXCEPT ![m].pc = label] \in [Threads -> ThreadType]
           /\ [f EXCEPT ![m] = [@ EXCEPT !.pc = label, !.code = k]] \in [Threads -> ThreadType]
           /\ [f EXCEPT ![m] = [@ EXCEPT !.pc = label, !.slot = i]] \in [Threads -> ThreadType]
           /\ [f EXCEPT ![m] = [@ EXCEPT !.pc = label, !.lock = l]] \in [Threads -> ThreadType]
<1>1. f[m] \in ThreadType
  OBVIOUS
<1>2. /\ [f[m] EXCEPT !.pc = label] \in ThreadType
      /\ [f[m] EXCEPT !.pc = label, !.code = k] \in ThreadType
      /\ [f[m] EXCEPT !.pc = label, !.slot = i] \in ThreadType
      /\ [f[m] EXCEPT !.pc = label, !.lock = l] \in ThreadType
  BY <1>1 DEF ThreadType
<1> HIDE DEF ThreadType
<1> QED
  BY <1>2

LEMMA TaskMoves ==
    ASSUME NEW f \in [Tasks -> TaskType], NEW t \in Tasks,
           NEW label \in {"client", "look", "take", "unlock"},
           NEW k \in Keys \cup {NoKey}, NEW i \in Slot
    PROVE  /\ [f EXCEPT ![t].pc = label] \in [Tasks -> TaskType]
           /\ [f EXCEPT ![t] = [@ EXCEPT !.pc = label, !.key = k]] \in [Tasks -> TaskType]
           /\ [f EXCEPT ![t] = [@ EXCEPT !.key = k, !.pc = label]] \in [Tasks -> TaskType]
           /\ [f EXCEPT ![t] = [@ EXCEPT !.slot = i, !.pc = label]] \in [Tasks -> TaskType]
<1>1. f[t] \in TaskType
  OBVIOUS
<1>2. /\ [f[t] EXCEPT !.pc = label] \in TaskType
      /\ [f[t] EXCEPT !.pc = label, !.key = k] \in TaskType
      /\ [f[t] EXCEPT !.key = k, !.pc = label] \in TaskType
      /\ [f[t] EXCEPT !.slot = i, !.pc = label] \in TaskType
  BY <1>1 DEF TaskType
<1> HIDE DEF TaskType
<1> QED
  BY <1>2

LEMMA TypeStep == KeyTypeOK /\ [KeyNext]_keyVars => KeyTypeOK'
<1> SUFFICES ASSUME KeyTypeOK, [KeyNext]_keyVars PROVE KeyTypeOK'
  OBVIOUS
<1>a. /\ key_queue \in [Slot -> Keys \cup {NoKey}] /\ key_f \in Slot /\ key_r \in Slot
      /\ key_queue_lock \in 0 .. MaxInits
      /\ holders \in [Threads -> SUBSET (Threads \cup Tasks)]
      /\ thread \in [Threads -> ThreadType] /\ task \in [Tasks -> TaskType]
      /\ current \in Tasks /\ presses \in Nat
      /\ delivered \in Seq(Keys \cup {NoKey}) /\ misused \in BOOLEAN
  BY DEF KeyTypeOK, ThreadType, ThreadPlace, TaskType
<1>b. ASSUME /\ key_queue' \in [Slot -> Keys \cup {NoKey}] /\ key_f' \in Slot /\ key_r' \in Slot
             /\ key_queue_lock' \in 0 .. MaxInits
             /\ holders' \in [Threads -> SUBSET (Threads \cup Tasks)]
             /\ thread' \in [Threads -> ThreadType] /\ task' \in [Tasks -> TaskType]
             /\ current' \in Tasks /\ presses' \in Nat
             /\ delivered' \in Seq(Keys \cup {NoKey}) /\ misused' \in BOOLEAN
      PROVE  KeyTypeOK'
  BY <1>b DEF KeyTypeOK, ThreadType, ThreadPlace, TaskType
<1>0. 0 \in 0 .. MaxInits
  BY KeyRingAssumption
<1>p. {"wait", "load", "lock", "put", "advance", "unlock"} \subseteq ThreadPlace
  BY DEF ThreadPlace
<1>c. /\ \A m \in Threads : thread[m].code \in Keys \cup {NoKey} /\ thread[m].slot \in Slot
      /\ \A t \in Tasks : task[t].slot \in Slot
  BY <1>a DEF ThreadType, TaskType
<1>1. CASE UNCHANGED keyVars
  BY <1>a, <1>b, <1>1 DEF keyVars, ringVars
<1>2. CASE InputInit
  <2>1. key_queue_lock' \in 0 .. MaxInits /\ key_queue_lock + 1 \in Threads
    BY <1>2, <1>a, KeyRingAssumption DEF InputInit, Threads
  <2>2. thread' \in [Threads -> ThreadType]
    BY <1>2, <1>a, <2>1, <1>0, <1>p, ThreadMoves DEF InputInit
  <2>3. misused' \in BOOLEAN
    BY <1>2, <1>a DEF InputInit, Misuse
  <2> QED
    BY <1>2, <1>a, <1>b, <2>1, <2>2, <2>3 DEF InputInit, ringVars
<1>3. ASSUME NEW m \in Threads, NEW k \in Keys, KeyEvent(m, k) PROVE KeyTypeOK'
  <2>1. thread' \in [Threads -> ThreadType]
    BY <1>3, <1>a, <1>0, <1>p, ThreadMoves DEF KeyEvent
  <2>2. presses' \in Nat
    BY <1>3, <1>a DEF KeyEvent
  <2> QED
    BY <1>3, <1>a, <1>b, <2>1, <2>2 DEF KeyEvent, ringVars
<1>l. ASSUME NEW m \in Threads, EventLoad(m) PROVE KeyTypeOK'
  <2>1. thread' \in [Threads -> ThreadType]
    BY <1>l, <1>a, <1>p, ThreadMoves DEF EventLoad
  <2> QED
    BY <1>l, <1>a, <1>b, <2>1 DEF EventLoad, ringVars
<1>4. ASSUME NEW m \in Threads, EventLock(m) PROVE KeyTypeOK'
  <2>1. thread' \in [Threads -> ThreadType]
    BY <1>4, <1>a, <1>0, <1>p, ThreadMoves DEF EventLock
  <2>2. holders' \in [Threads -> SUBSET (Threads \cup Tasks)]
    BY <1>4, <1>a DEF EventLock, Lock
  <2>3. misused' \in BOOLEAN
    BY <1>4, <1>a DEF EventLock, Misuse
  <2> QED
    BY <1>4, <1>a, <1>b, <2>1, <2>2, <2>3 DEF EventLock, ringVars
<1>5. ASSUME NEW m \in Threads, EventPut(m) PROVE KeyTypeOK'
  <2>1. thread' \in [Threads -> ThreadType]
    BY <1>5, <1>a, <1>0, <1>p, ThreadMoves DEF EventPut
  <2>2. key_queue' \in [Slot -> Keys \cup {NoKey}]
    BY <1>5, <1>a, <1>c DEF EventPut
  <2> QED
    BY <1>5, <1>a, <1>b, <2>1, <2>2 DEF EventPut
<1>6. ASSUME NEW m \in Threads, EventAdvance(m) PROVE KeyTypeOK'
  <2>1. thread' \in [Threads -> ThreadType]
    BY <1>6, <1>a, <1>0, <1>p, ThreadMoves DEF EventAdvance
  <2>2. key_r' \in Slot
    BY <1>6, <1>c, AfterIsNext DEF EventAdvance
  <2> QED
    BY <1>6, <1>a, <1>b, <2>1, <2>2 DEF EventAdvance
<1>7. ASSUME NEW m \in Threads, EventUnlock(m) PROVE KeyTypeOK'
  <2>1. thread' \in [Threads -> ThreadType]
    BY <1>7, <1>a, LocalsOutOfScope DEF EventUnlock
  <2>2. holders' \in [Threads -> SUBSET (Threads \cup Tasks)]
    BY <1>7, <1>a DEF EventUnlock, Unlock
  <2> QED
    BY <1>7, <1>a, <1>b, <2>1, <2>2 DEF EventUnlock, ringVars
<1>8. ASSUME NEW t \in Tasks, ReadLock(t) PROVE KeyTypeOK'
  <2>1. task' \in [Tasks -> TaskType]
    BY <1>8, <1>a, TaskMoves DEF ReadLock
  <2>2. holders' \in [Threads -> SUBSET (Threads \cup Tasks)]
    BY <1>8, <1>a DEF ReadLock, Lock
  <2> QED
    BY <1>8, <1>a, <1>b, <2>1, <2>2 DEF ReadLock, ringVars
<1>9. ASSUME NEW t \in Tasks, ReadLook(t) PROVE KeyTypeOK'
  <2>1. task' \in [Tasks -> TaskType]
    BY <1>9, <1>a, TaskMoves DEF ReadLook
  <2> QED
    BY <1>9, <1>a, <1>b, <2>1 DEF ReadLook, ringVars
<1>10. ASSUME NEW t \in Tasks, ReadTake(t) PROVE KeyTypeOK'
  <2>1. key_queue[task[t].slot] \in Keys \cup {NoKey} /\ After(task[t].slot) \in Slot
    BY <1>a, <1>c, AfterIsNext
  <2>2. task' \in [Tasks -> TaskType]
    BY <1>10, <1>a, <2>1, TaskMoves DEF ReadTake
  <2>3. delivered' \in Seq(Keys \cup {NoKey}) /\ key_f' \in Slot
    BY <1>10, <1>a, <2>1 DEF ReadTake
  <2> QED
    BY <1>10, <1>a, <1>b, <2>2, <2>3 DEF ReadTake
<1>11. ASSUME NEW t \in Tasks, ReadUnlock(t) PROVE KeyTypeOK'
  <2>1. task' \in [Tasks -> TaskType]
    BY <1>11, <1>a, LocalsOutOfScope DEF ReadUnlock
  <2>2. holders' \in [Threads -> SUBSET (Threads \cup Tasks)]
    BY <1>11, <1>a DEF ReadUnlock, Unlock
  <2> QED
    BY <1>11, <1>a, <1>b, <2>1, <2>2 DEF ReadUnlock, ringVars
<1>12. ASSUME NEW t \in Tasks, Preempt(t) PROVE KeyTypeOK'
  BY <1>12, <1>a, <1>b DEF Preempt, Misuse, ringVars
<1> QED
  BY <1>1, <1>2, <1>3, <1>l, <1>4, <1>5, <1>6, <1>7, <1>8, <1>9, <1>10, <1>11, <1>12
     DEF KeyNext, EventStep, ReadStep

(***************************************************************************)
(* The types of the ring, the mutex, and of everybody's locals.            *)
(***************************************************************************)
THEOREM KeyTypeCorrect == KeySpec => []KeyTypeOK
  BY TypeInit, TypeStep, PTL DEF KeySpec

----------------------------------------------------------------------------
\* The mutex

LEMMA TasksAreNoThreads == Tasks \cap Threads = {}
BY KeyRingAssumption DEF Threads

LEMMA RingInit == KeyInit => RingInv
<1> SUFFICES ASSUME KeyInit PROVE RingInv
  OBVIOUS
<1>1. \A m \in Threads : thread[m].pc = "none" /\ holders[m] = {}
  BY LocalsOutOfScope DEF KeyInit
<1>2. \A t \in Tasks : task[t].pc = "client"
  BY LocalsOutOfScope DEF KeyInit
<1>3. key_queue_lock = 0
  BY DEF KeyInit
<1> QED
  BY <1>1, <1>2, <1>3, TypeInit DEF RingInv, Exclusion, LocalsFresh, Inside, Busy

\* Whoever is inside keeps everybody of the other side out.
LEMMA OneSide ==
    ASSUME Exclusion, NEW m \in Threads, thread[m].pc \in Inside
    PROVE  /\ \A n \in Threads : thread[n].pc \in Inside => n = m
           /\ \A t \in Tasks : task[t].pc \notin Busy
           /\ key_queue_lock # 0
<1>1. holders[key_queue_lock] = {m}
  BY DEF Exclusion
<1>2. m <= key_queue_lock
  BY DEF Exclusion, Inside
<1>3. key_queue_lock # 0
  BY <1>2, KeyRingAssumption DEF Threads
<1>4. \A n \in Threads : thread[n].pc \in Inside => n = m
  BY <1>1 DEF Exclusion
<1>5. \A t \in Tasks : task[t].pc \notin Busy
  BY <1>1, TasksAreNoThreads DEF Exclusion
<1> QED
  BY <1>3, <1>4, <1>5

LEMMA InitKeeps ==
    ASSUME RingInv, ~misused, ~misused', InputInit PROVE Exclusion' /\ LocalsFresh'
<1> DEFINE new == key_queue_lock + 1
<1> USE DEF RingInv
<1>1. /\ key_queue_lock \in 0 .. MaxInits /\ new \in Threads
      /\ key_queue_lock' = new
  BY KeyRingAssumption DEF InputInit, Threads, KeyTypeOK
<1>2. /\ \A m \in Threads : thread[m].pc \notin Inside
      /\ \A t \in Tasks : task[t].pc = "client"
  BY DEF InputInit, Misuse
<1>3. /\ UNCHANGED <<key_queue, key_f, key_r, holders, task, current>>
      /\ thread'[new].pc = "wait"
      /\ \A m \in Threads \ {new} : thread'[m] = thread[m]
  BY <1>1 DEF InputInit, ringVars, KeyTypeOK
<1> HIDE DEF new
<1>4. holders[new] = {}
  BY <1>1 DEF Exclusion, new
<1>5. \A m \in Threads : m > new => m > key_queue_lock
  BY <1>1 DEF Threads, new
<1>6. \A m \in Threads : m <= key_queue_lock => m <= new
  BY <1>1 DEF Threads, new
<1>7. Exclusion'
  BY <1>1, <1>2, <1>3, <1>4, <1>5, <1>6 DEF Exclusion, Inside, Busy, Threads
<1>8. LocalsFresh'
  BY <1>2, <1>3 DEF LocalsFresh, Inside
<1> QED
  BY <1>7, <1>8

\* What m does to itself alone.
LEMMA KeyEventKeeps ==
    ASSUME RingInv, ~misused, NEW m \in Threads, NEW k \in Keys, KeyEvent(m, k)
    PROVE  Exclusion' /\ LocalsFresh'
<1> USE DEF RingInv
<1>1. /\ UNCHANGED <<key_queue, key_f, key_r, key_queue_lock, holders, task, current>>
      /\ thread[m].pc = "wait" /\ thread'[m].pc = "load" /\ thread'[m].code = k
      /\ \A n \in Threads \ {m} : thread'[n] = thread[n]
  BY DEF KeyEvent, ringVars, KeyTypeOK
<1> QED
  BY <1>1 DEF Exclusion, LocalsFresh, Inside

LEMMA EventLoadKeeps ==
    ASSUME RingInv, ~misused, NEW m \in Threads, EventLoad(m) PROVE Exclusion' /\ LocalsFresh'
<1> USE DEF RingInv
<1>1. /\ UNCHANGED <<key_queue, key_f, key_r, key_queue_lock, holders, task, current>>
      /\ thread[m].pc = "load" /\ thread'[m].pc = "lock" /\ thread'[m].code = thread[m].code
      /\ \A n \in Threads \ {m} : thread'[n] = thread[n]
  BY DEF EventLoad, ringVars, KeyTypeOK
<1> QED
  BY <1>1 DEF Exclusion, LocalsFresh, Inside

\* The mutex that was loaded is still the one that the global names.
LEMMA EventLockKeeps ==
    ASSUME RingInv, ~misused, ~misused', NEW m \in Threads, EventLock(m)
    PROVE  Exclusion' /\ LocalsFresh'
<1> USE DEF RingInv
<1>1. /\ UNCHANGED <<key_queue, key_f, key_r, key_queue_lock, task, current>>
      /\ thread[m].pc = "lock" /\ thread'[m].pc = "put" /\ thread'[m].code = thread[m].code
      /\ \A n \in Threads \ {m} : thread'[n] = thread[n]
  BY DEF EventLock, ringVars, KeyTypeOK
<1>2. key_queue_lock \in Threads
  <2>1. key_queue_lock \in 0 .. MaxInits
    BY DEF KeyTypeOK
  <2>2. m <= key_queue_lock
    BY <1>1 DEF Exclusion
  <2> QED
    BY <2>1, <2>2, KeyRingAssumption DEF Threads
<1>l. Lock(m, key_queue_lock)
  BY DEF EventLock, Misuse
<1>3. holders[key_queue_lock] = {}
  BY <1>l, TasksAreNoThreads DEF Lock, Lockable
<1>4. /\ holders'[key_queue_lock] = {m}
      /\ \A n \in Threads : n > key_queue_lock => holders'[n] = holders[n]
  BY <1>2, <1>3, <1>l DEF Lock, KeyTypeOK, Threads
<1>5. /\ \A n \in Threads : thread[n].pc \notin Inside
      /\ \A t \in Tasks : task[t].pc \notin Busy
  BY <1>3 DEF Exclusion
<1>6. Exclusion'
  BY <1>1, <1>4, <1>5 DEF Exclusion, Inside, Busy
<1>7. LocalsFresh'
  BY <1>1 DEF LocalsFresh
<1> QED
  BY <1>6, <1>7

LEMMA EventPutKeeps ==
    ASSUME RingInv, ~misused, NEW m \in Threads, EventPut(m) PROVE Exclusion' /\ LocalsFresh'
<1> USE DEF RingInv
<1>1. /\ UNCHANGED <<key_f, key_r, key_queue_lock, holders, task, current>>
      /\ thread[m].pc = "put" /\ thread'[m].pc = "advance"
      /\ thread'[m].code = thread[m].code /\ thread'[m].slot = key_r
      /\ \A n \in Threads \ {m} : thread'[n] = thread[n]
      /\ key_queue'[key_r] = thread[m].code
  BY DEF EventPut, KeyTypeOK
<1>2. \A n \in Threads \ {m} : thread[n].pc \notin Inside
  BY <1>1, OneSide DEF Inside
<1>3. Exclusion'
  BY <1>1, <1>2 DEF Exclusion, Inside
<1>4. LocalsFresh'
  BY <1>1, <1>2 DEF LocalsFresh, Inside
<1> QED
  BY <1>3, <1>4

LEMMA EventAdvanceKeeps ==
    ASSUME RingInv, ~misused, NEW m \in Threads, EventAdvance(m) PROVE Exclusion' /\ LocalsFresh'
<1> USE DEF RingInv
<1>1. /\ UNCHANGED <<key_queue, key_f, key_queue_lock, holders, task, current>>
      /\ thread[m].pc = "advance" /\ thread'[m].pc = "unlock"
      /\ \A n \in Threads \ {m} : thread'[n] = thread[n]
  BY DEF EventAdvance, KeyTypeOK
<1>2. /\ \A n \in Threads \ {m} : thread[n].pc \notin Inside
      /\ \A t \in Tasks : task[t].pc \notin Busy
  BY <1>1, OneSide DEF Inside
<1>3. Exclusion'
  BY <1>1, <1>2 DEF Exclusion, Inside
<1>4. LocalsFresh'
  BY <1>1, <1>2 DEF LocalsFresh, Inside, Busy
<1> QED
  BY <1>3, <1>4

LEMMA EventUnlockKeeps ==
    ASSUME RingInv, ~misused, NEW m \in Threads, EventUnlock(m) PROVE Exclusion' /\ LocalsFresh'
<1> USE DEF RingInv
<1>1. /\ UNCHANGED <<key_queue, key_f, key_r, key_queue_lock, task, current>>
      /\ thread[m].pc = "unlock" /\ thread'[m].pc = "wait"
      /\ \A n \in Threads \ {m} : thread'[n] = thread[n]
  BY LocalsOutOfScope DEF EventUnlock, ringVars, KeyTypeOK
<1>2. /\ \A n \in Threads \ {m} : thread[n].pc \notin Inside
      /\ \A t \in Tasks : task[t].pc \notin Busy
      /\ key_queue_lock # 0
  BY <1>1, OneSide DEF Inside
<1>3. key_queue_lock \in Threads
  BY <1>2, KeyRingAssumption DEF Threads, KeyTypeOK
<1>4. holders[key_queue_lock] = {m}
  BY <1>1 DEF Exclusion, Inside
<1>5. /\ holders'[key_queue_lock] = {}
      /\ \A n \in Threads : n > key_queue_lock => holders'[n] = holders[n]
  BY <1>3, <1>4 DEF EventUnlock, Unlock, KeyTypeOK, Threads
<1>6. Exclusion'
  BY <1>1, <1>2, <1>5 DEF Exclusion, Inside
<1>7. LocalsFresh'
  BY <1>1 DEF LocalsFresh
<1> QED
  BY <1>6, <1>7

----------------------------------------------------------------------------

LEMMA ReadLockKeeps ==
    ASSUME RingInv, ~misused, NEW t \in Tasks, ReadLock(t) PROVE Exclusion' /\ LocalsFresh'
<1> USE DEF RingInv
<1>1. /\ UNCHANGED <<key_queue, key_f, key_r, key_queue_lock, thread, current>>
      /\ task'[t].pc = "look" /\ \A u \in Tasks \ {t} : task'[u] = task[u]
  BY DEF ReadLock, ringVars, KeyTypeOK
<1>2. key_queue_lock # 0 /\ key_queue_lock \in Threads
  BY KeyRingAssumption DEF ReadLock, Threads, KeyTypeOK
<1>3. holders[key_queue_lock] \subseteq Tasks
  BY TasksAreNoThreads DEF ReadLock, Lock, Lockable
<1>4. /\ holders'[key_queue_lock] = holders[key_queue_lock] \cup {t}
      /\ \A n \in Threads : n > key_queue_lock => holders'[n] = holders[n]
  BY <1>2 DEF ReadLock, Lock, KeyTypeOK, Threads
<1>5. \A n \in Threads : thread[n].pc \notin Inside
  BY <1>3, TasksAreNoThreads DEF Exclusion
<1>6. Exclusion'
  BY <1>1, <1>2, <1>3, <1>4, <1>5 DEF Exclusion
<1>7. LocalsFresh'
  BY <1>1 DEF LocalsFresh
<1> QED
  BY <1>6, <1>7

LEMMA ReadLookKeeps ==
    ASSUME RingInv, ~misused, NEW t \in Tasks, ReadLook(t) PROVE Exclusion' /\ LocalsFresh'
<1> USE DEF RingInv
<1>1. /\ UNCHANGED <<key_queue, key_f, key_r, key_queue_lock, holders, thread, current>>
      /\ t = current /\ task[t].pc = "look" /\ task'[t].slot = key_f
      /\ task'[t].pc \in {"take", "unlock"} /\ (task'[t].pc = "take" => key_f # key_r)
      /\ \A u \in Tasks \ {t} : task'[u] = task[u]
  BY DEF ReadLook, ringVars, KeyTypeOK
<1>2. Exclusion'
  BY <1>1 DEF Exclusion, Busy
<1>3. LocalsFresh'
  BY <1>1 DEF LocalsFresh
<1> QED
  BY <1>2, <1>3

LEMMA ReadTakeKeeps ==
    ASSUME RingInv, ~misused, NEW t \in Tasks, ReadTake(t) PROVE Exclusion' /\ LocalsFresh'
<1> USE DEF RingInv
<1>1. /\ UNCHANGED <<key_queue, key_r, key_queue_lock, holders, thread, current>>
      /\ t = current /\ task[t].pc = "take" /\ task'[t].pc = "unlock"
      /\ \A u \in Tasks \ {t} : task'[u] = task[u]
  BY DEF ReadTake, KeyTypeOK
<1>2. Exclusion'
  BY <1>1 DEF Exclusion, Busy
<1>3. \A u \in Tasks : task'[u].pc # "take"
  BY <1>1 DEF LocalsFresh
<1>4. LocalsFresh'
  BY <1>1, <1>3 DEF LocalsFresh
<1> QED
  BY <1>2, <1>4

LEMMA ReadUnlockKeeps ==
    ASSUME RingInv, ~misused, NEW t \in Tasks, ReadUnlock(t) PROVE Exclusion' /\ LocalsFresh'
<1> USE DEF RingInv
<1>1. /\ UNCHANGED <<key_queue, key_f, key_r, key_queue_lock, thread, current>>
      /\ task[t].pc = "unlock" /\ task'[t].pc = "client"
      /\ \A u \in Tasks \ {t} : task'[u] = task[u]
  BY LocalsOutOfScope DEF ReadUnlock, ringVars, KeyTypeOK
<1>2. key_queue_lock # 0 /\ key_queue_lock \in Threads /\ t \in holders[key_queue_lock]
  BY <1>1, KeyRingAssumption DEF Exclusion, Busy, Threads, KeyTypeOK
<1>3. /\ holders'[key_queue_lock] = holders[key_queue_lock] \ {t}
      /\ \A n \in Threads : n > key_queue_lock => holders'[n] = holders[n]
  BY <1>2 DEF ReadUnlock, Unlock, KeyTypeOK, Threads
<1>4. holders[key_queue_lock] \subseteq Tasks /\ \A n \in Threads : thread[n].pc \notin Inside
  BY <1>2, TasksAreNoThreads DEF Exclusion
<1>5. Exclusion'
  BY <1>1, <1>2, <1>3, <1>4 DEF Exclusion, Busy
<1>6. LocalsFresh'
  BY <1>1 DEF LocalsFresh
<1> QED
  BY <1>5, <1>6

LEMMA PreemptKeeps ==
    ASSUME RingInv, ~misused, ~misused', NEW t \in Tasks, Preempt(t)
    PROVE  Exclusion' /\ LocalsFresh'
<1> USE DEF RingInv
<1>1. /\ UNCHANGED <<key_queue, key_f, key_r, key_queue_lock, holders, thread, task>>
      /\ task[current].pc # "take"
  BY DEF Preempt, Misuse, ringVars
<1> QED
  BY <1>1 DEF Exclusion, LocalsFresh, Busy

LEMMA RingStep == RingInv /\ [KeyNext]_keyVars => RingInv'
<1> SUFFICES ASSUME RingInv, [KeyNext]_keyVars, ~misused' PROVE Exclusion' /\ LocalsFresh'
  BY TypeStep DEF RingInv
<1>1. CASE UNCHANGED keyVars
  BY <1>1 DEF keyVars, ringVars, RingInv, Exclusion, LocalsFresh
<1>2. CASE KeyNext
  BY <1>2, InitKeeps, KeyEventKeeps, EventLoadKeeps, EventLockKeeps, EventPutKeeps, EventAdvanceKeeps,
     EventUnlockKeeps, ReadLockKeeps, ReadLookKeeps, ReadTakeKeeps, ReadUnlockKeeps, PreemptKeeps
     DEF KeyNext, EventStep, ReadStep
<1> QED
  BY <1>1, <1>2

----------------------------------------------------------------------------
\* The ring is a queue

LEMMA QueueInit == KeyInit => Queue!Init
<1> SUFFICES ASSUME KeyInit PROVE Queue!Init
  OBVIOUS
<1>0. key_queue \in Queues /\ key_f \in Slot /\ key_r \in Slot /\ key_f = key_r
  BY LenAssumption DEF KeyInit, Queues, Code, Slot
<1>1. Len(Contents) = 0 /\ Contents \in Seq(Code)
  BY <1>0, ContentsIs, ContentsType, HeldType
<1> QED
  BY <1>1, EmptySeq DEF Queue!Init, KeyInit

\* The steps that leave the indexes and the contents alone.
LEMMA QuietStep ==
    ASSUME UNCHANGED <<key_queue, key_f, key_r, delivered>>, misused' \in {misused, TRUE}
    PROVE  Queue!Next \/ UNCHANGED Queue!vars
<1>1. Contents' = Contents
  BY DEF Contents, Held, SlotAt
<1> QED
  BY <1>1 DEF Queue!Next, Queue!vars

LEMMA PutStep ==
    ASSUME RingInv, NEW m \in Threads, EventPut(m) PROVE UNCHANGED Queue!vars
<1>1. Contents' = ContentsOf([key_queue EXCEPT ![key_r] = thread[m].code], key_f, key_r)
  BY ContentsIs DEF EventPut, Contents, ContentsOf, Held, HeldOf, SlotAt, SlotOf
<1>2. Contents' = Contents
  <2>1. key_queue \in Queues /\ key_f \in Slot /\ key_r \in Slot
    BY DEF RingInv, KeyTypeOK, Queues, Code
  <2> QED
    BY <1>1, <2>1, PutOutside, ContentsIs
<1> QED
  BY <1>2 DEF EventPut, Queue!vars

LEMMA PressStep ==
    ASSUME RingInv, ~misused, NEW m \in Threads, EventAdvance(m) PROVE Queue!Next
<1>1. /\ key_r' = After(key_r) /\ key_queue[key_r] = thread[m].code /\ thread[m].code \in Keys
      /\ UNCHANGED <<key_queue, key_f, delivered, misused>>
  BY DEF EventAdvance, RingInv, LocalsFresh
<1>2. key_queue \in Queues /\ key_f \in Slot /\ key_r \in Slot
  BY DEF RingInv, KeyTypeOK, Queues, Code
<1>3. Contents' = ContentsOf(key_queue, key_f, After(key_r))
  BY <1>1 DEF Contents, ContentsOf, Held, HeldOf, SlotAt, SlotOf
<1>4. Len(Contents) = HeldOf(key_f, key_r)
  BY <1>2, ContentsIs, ContentsType
<1>5. Queue!Press(thread[m].code)
  BY <1>1, <1>2, <1>3, <1>4, PushIn, ContentsIs DEF Queue!Press
<1> QED
  BY <1>1, <1>5 DEF Queue!Next

LEMMA ReadKeyStep ==
    ASSUME RingInv, ~misused, NEW t \in Tasks, ReadTake(t) PROVE Queue!Next
<1>1. /\ task[t].slot = key_f /\ key_f # key_r /\ key_f' = After(key_f)
      /\ delivered' = Append(delivered, key_queue[key_f])
      /\ UNCHANGED <<key_queue, key_r, misused>>
  BY DEF ReadTake, RingInv, LocalsFresh
<1>2. key_queue \in Queues /\ key_f \in Slot /\ key_r \in Slot
  BY DEF RingInv, KeyTypeOK, Queues, Code
<1>3. Contents' = ContentsOf(key_queue, After(key_f), key_r)
  BY <1>1 DEF Contents, ContentsOf, Held, HeldOf, SlotAt, SlotOf
<1>4. Queue!Read
  BY <1>1, <1>2, <1>3, PullOut, ContentsIs DEF Queue!Read
<1> QED
  BY <1>4 DEF Queue!Next

LEMMA QueueStep == RingInv /\ [KeyNext]_keyVars => [Queue!Next]_Queue!vars
<1> SUFFICES ASSUME RingInv, [KeyNext]_keyVars PROVE Queue!Next \/ UNCHANGED Queue!vars
  OBVIOUS
<1>1. CASE UNCHANGED keyVars
  BY <1>1, QuietStep DEF keyVars, ringVars
<1>2. ASSUME ~misused, NEW m \in Threads, EventAdvance(m) \/ EventPut(m)
      PROVE  Queue!Next \/ UNCHANGED Queue!vars
  BY <1>2, PressStep, PutStep
<1>3. ASSUME ~misused, NEW t \in Tasks, ReadTake(t) PROVE Queue!Next
  BY <1>3, ReadKeyStep
<1>4. ASSUME NEW m \in Threads, (\E k \in Keys : KeyEvent(m, k)) \/ EventLoad(m) \/ EventUnlock(m)
      PROVE  Queue!Next \/ UNCHANGED Queue!vars
  BY <1>4, QuietStep DEF KeyEvent, EventLoad, EventUnlock, ringVars
<1>5. ASSUME NEW t \in Tasks, ReadLock(t) \/ ReadLook(t) \/ ReadUnlock(t)
      PROVE  Queue!Next \/ UNCHANGED Queue!vars
  BY <1>5, QuietStep DEF ReadLock, ReadLook, ReadUnlock, ringVars
<1>6. ASSUME InputInit \/ (\E m \in Threads : EventLock(m)) \/ \E t \in Tasks : Preempt(t)
      PROVE  Queue!Next \/ UNCHANGED Queue!vars
  <2>1. misused' \in {misused, TRUE}
    BY <1>6 DEF InputInit, EventLock, Preempt, Misuse, RingInv, KeyTypeOK
  <2> QED
    BY <1>6, <2>1, QuietStep DEF InputInit, EventLock, Preempt, ringVars
<1> QED
  BY <1>1, <1>2, <1>3, <1>4, <1>5, <1>6 DEF KeyNext, EventStep, ReadStep

(***************************************************************************)
(* Whatever tasks there are, whatever keys, and however long the ring: the *)
(* ring with its mutex implements the queue of KeyQueue, until the devices *)
(* are initialised again while an event thread is in the ring, an event    *)
(* thread takes the mutex that the global named before they were, or a     *)
(* task is switched away from in the middle of taking a key.               *)
(***************************************************************************)
THEOREM RingImplementsQueue == KeySpec => RingIsQueue
  BY RingInit, RingStep, QueueInit, QueueStep, PTL DEF KeySpec, RingIsQueue, Queue!Spec

\* The devices have been initialised twice, or there are two tasks.
Cause == key_queue_lock > 1 \/ \E t, u \in Tasks : t # u

\* Mutexes are numbered in the order in which the global names them.
MisuseCaused ==
    /\ \A m \in Threads : thread[m].pc = "lock" => thread[m].lock \in 1 .. key_queue_lock
    /\ misused => Cause

LEMMA CauseStep == RingInv /\ MisuseCaused /\ [KeyNext]_keyVars => MisuseCaused'
<1> SUFFICES ASSUME RingInv, MisuseCaused, [KeyNext]_keyVars PROVE MisuseCaused'
  OBVIOUS
<1> DEFINE Loads == \A m \in Threads : thread[m].pc = "lock" => thread[m].lock \in 1 .. key_queue_lock
<1>a. Loads /\ (misused => Cause) /\ key_queue_lock \in Nat /\ KeyTypeOK
  BY KeyRingAssumption DEF MisuseCaused, RingInv, KeyTypeOK
<1>1. CASE UNCHANGED keyVars
  BY <1>1, <1>a DEF keyVars, ringVars, MisuseCaused, Cause
<1>2. CASE KeyNext
  <2>a. ~misused /\ Exclusion
    BY <1>2 DEF KeyNext, RingInv
  <2>b. \A m \in Threads : m >= 1 /\ (thread[m].pc # "none" => m <= key_queue_lock)
    BY <2>a DEF Exclusion, Threads
  <2>1. CASE InputInit
    <3>1. /\ key_queue_lock' = key_queue_lock + 1 /\ key_queue_lock + 1 \in Threads
          /\ \A m \in Threads : thread'[m].pc = "lock" =>
                thread[m].pc = "lock" /\ thread'[m].lock = thread[m].lock
      BY <1>a, <2>1, KeyRingAssumption DEF InputInit, KeyTypeOK, Threads
    <3>2. misused' => \E m \in Threads : thread[m].pc \in Inside
      BY <2>1, <2>a DEF InputInit, Misuse
    <3>3. misused' => key_queue_lock' > 1
      BY <3>1, <3>2, <2>b, <1>a DEF Inside, Threads
    <3>4. Loads'
      BY <3>1, <1>a
    <3> QED
      BY <3>3, <3>4 DEF MisuseCaused, Cause
  <2>2. ASSUME NEW m \in Threads, EventLoad(m) PROVE MisuseCaused'
    <3>1. /\ UNCHANGED <<key_queue_lock, misused>> /\ thread[m].pc = "load"
          /\ thread'[m].lock = key_queue_lock
          /\ \A n \in Threads \ {m} : thread'[n] = thread[n]
      BY <2>2, <1>a DEF EventLoad, KeyTypeOK
    <3>2. key_queue_lock \in 1 .. key_queue_lock
      BY <3>1, <2>b, <1>a DEF Threads
    <3>3. Loads'
      BY <3>1, <3>2, <1>a
    <3> QED
      BY <3>1, <3>3, <2>a DEF MisuseCaused
  <2>3. ASSUME NEW m \in Threads, EventLock(m) PROVE MisuseCaused'
    <3>1. /\ UNCHANGED key_queue_lock /\ thread'[m].pc = "put"
          /\ \A n \in Threads \ {m} : thread'[n] = thread[n]
      BY <2>3, <1>a DEF EventLock, KeyTypeOK
    <3>2. misused' => key_queue_lock > 1
      <4>1. thread[m].lock \in 1 .. key_queue_lock
        BY <2>3, <1>a DEF EventLock
      <4>2. misused' => thread[m].lock # key_queue_lock
        BY <2>3, <2>a DEF EventLock, Misuse
      <4> QED
        BY <4>1, <4>2, <1>a
    <3>3. Loads'
      BY <3>1, <1>a
    <3> QED
      BY <3>1, <3>2, <3>3 DEF MisuseCaused, Cause
  <2>4. ASSUME NEW m \in Threads, EventPut(m) \/ EventAdvance(m) \/ EventUnlock(m)
                                   \/ \E k \in Keys : KeyEvent(m, k)
        PROVE  MisuseCaused'
    <3>1. /\ UNCHANGED <<key_queue_lock, misused>> /\ thread'[m].pc # "lock"
          /\ \A n \in Threads \ {m} : thread'[n] = thread[n]
      <4>0. thread \in [Threads -> ThreadType]
        BY <1>a DEF KeyTypeOK, ThreadType, ThreadPlace
      <4>1. CASE EventPut(m)
        BY <4>0, <4>1 DEF EventPut, ThreadType
      <4>2. CASE EventAdvance(m)
        BY <4>0, <4>2 DEF EventAdvance, ThreadType
      <4>3. CASE EventUnlock(m)
        BY <4>0, <4>3, LocalsOutOfScope DEF EventUnlock
      <4>4. CASE \E k \in Keys : KeyEvent(m, k)
        BY <4>0, <4>4 DEF KeyEvent, ThreadType
      <4> QED
        BY <2>4, <4>1, <4>2, <4>3, <4>4
    <3>2. Loads'
      BY <3>1, <1>a
    <3> QED
      BY <3>1, <3>2, <2>a DEF MisuseCaused
  <2>5. ASSUME NEW t \in Tasks, ReadStep(t) PROVE MisuseCaused'
    <3>1. UNCHANGED <<key_queue_lock, misused, thread>>
      BY <2>5 DEF ReadStep, ReadLock, ReadLook, ReadTake, ReadUnlock
    <3> QED
      BY <3>1, <2>a, <1>a DEF MisuseCaused
  <2>6. ASSUME NEW t \in Tasks, Preempt(t) PROVE MisuseCaused'
    <3>1. UNCHANGED <<key_queue_lock, thread>> /\ current \in Tasks /\ t # current
      BY <2>6, <1>a DEF Preempt, KeyTypeOK
    <3> QED
      BY <3>1, <1>a DEF MisuseCaused, Cause
  <2> QED
    BY <1>2, <2>1, <2>2, <2>3, <2>4, <2>5, <2>6 DEF KeyNext, EventStep
<1> QED
  BY <1>1, <1>2

(***************************************************************************)
(* What breaks the ring takes two calls of __am_input_init or two tasks: a *)
(* program that initialises the devices once and reads the keyboard from   *)
(* one task has a queue for ever.                                          *)
(***************************************************************************)
THEOREM MisuseHasCause == KeySpec => [](misused => Cause)
<1>1. KeyInit => MisuseCaused
  BY LocalsOutOfScope DEF KeyInit, MisuseCaused
<1>2. KeyInit => RingInv
  BY RingInit
<1>3. RingInv /\ [KeyNext]_keyVars => RingInv'
  BY RingStep
<1>4. MisuseCaused => (misused => Cause)
  BY DEF MisuseCaused
<1> QED
  BY <1>1, <1>2, <1>3, <1>4, CauseStep, PTL DEF KeySpec

----------------------------------------------------------------------------
(***************************************************************************)
(* Sound: as long as no accident happens, count, the pipe and the two      *)
(* buffers agree about which bytes come next, and therefore what SDL gets  *)
(* is what the program wrote.                                              *)
(***************************************************************************)

\* Bytes in the pipe that count does not tell of yet, and bytes not in it yet.
Pending == IF player.pc \in {"load", "store"} THEN player.n ELSE 0
Unwritten == IF player.pc = "idle" THEN 0 ELSE Len(player.buf) - Pending

\* Nobody has a pipe before the first __am_audio_init.
Untouched ==
    /\ count = 0 /\ ctrls = 0 /\ written = 0 /\ played = <<>>
    /\ player = NotWriting /\ callback = NotReading

\* count is what is in the pipe, except for what is about to be added or subtracted.
Counted ==
    /\ count \in Nat /\ callback.nread \in 0 .. StreamLen /\ callback.nread <= count
    /\ callback.pc \in {"idle", "again"} => callback.nread = 0
    /\ callback.b \in {0, callback.nread}
    /\ callback.pc = "store" => callback.b = callback.nread
    /\ player.nwrite = 0 /\ player.n \in {0, Len(player.buf)}
    /\ player.pc = "idle" => player.buf = <<>>
    /\ pipes # <<>> => count = Len(Pipe) + callback.b - Pending

\* The bytes behind what is played: in the stream, in the pipe, in the buffer.
Numbered ==
    /\ \A i \in 1 .. Len(played) : played[i] = i
    /\ \A i \in 1 .. callback.b : callback.stream[i] = Len(played) + i
    /\ \A i \in 1 .. Len(player.buf) : player.buf[i] = written - Len(player.buf) + i
    /\ pipes # <<>> =>
          /\ \A i \in 1 .. Len(Pipe) : Pipe[i] = Len(played) + callback.b + i
          /\ written = Len(played) + callback.b + Len(Pipe) + Unwritten

Undisturbed == (pipes = <<>> => Untouched) /\ Counted /\ Numbered

AudioInv == AudioTypeOK /\ (faults = {} => Undisturbed)

\* The last pipe, and what SetPipe makes of it.
LEMMA PipeType ==
    ASSUME pipes \in Seq(Seq(Byte)), pipes # <<>>
    PROVE  /\ Pipe \in Seq(Byte) /\ Len(Pipe) \in Nat
           /\ Len(pipes) \in 1 .. Len(pipes)
           /\ \A i \in 1 .. Len(Pipe) : Pipe[i] \in Byte
<1>1. Len(pipes) \in 1 .. Len(pipes)
  BY EmptySeq
<1>2. Pipe \in Seq(Byte)
  BY <1>1, ElementOfSeq DEF Pipe
<1>. QED  BY <1>1, <1>2, LenProperties, ElementOfSeq

LEMMA NewPipe ==
    ASSUME pipes \in Seq(Seq(Byte)), pipes # <<>>, NEW s \in Seq(Byte), SetPipe(s)
    PROVE  /\ pipes' \in Seq(Seq(Byte)) /\ Len(pipes') = Len(pipes) /\ pipes' # <<>>
           /\ Pipe' = s
<1>1. Len(pipes) \in 1 .. Len(pipes)
  BY PipeType
<1>2. /\ pipes' \in Seq(Seq(Byte)) /\ Len(pipes') = Len(pipes)
      /\ pipes'[Len(pipes)] = s
  BY <1>1, ExceptSeq DEF SetPipe
<1>3. pipes' # <<>>
  BY <1>1, <1>2
<1>. QED  BY <1>2, <1>3 DEF Pipe

\* The fields of the locals.
LEMMA PlayerFields ==
    ASSUME NEW r \in Player
    PROVE  /\ r.pc \in {"idle", "write", "load", "store"} /\ r.n \in Nat
           /\ r.buf \in Seq(Byte) /\ Len(r.buf) \in Nat
<1>1. r.pc \in {"idle", "write", "load", "store"} /\ r.n \in Nat /\ r.buf \in Seq(Byte)
  BY DEF Player
<1>. QED  BY <1>1, LenProperties

LEMMA CallbackFields ==
    ASSUME NEW r \in Callback
    PROVE  /\ r.pc \in {"idle", "again", "read", "store"} /\ r.b \in Nat /\ r.nread \in Int
           /\ r.stream \in [1 .. StreamLen -> Byte \cup {Silence}]
BY DEF Callback

LEMMA FlowType ==
    ASSUME AudioTypeOK
    PROVE  /\ Len(played) \in Nat /\ Len(player.buf) \in Nat
           /\ DOMAIN played = 1 .. Len(played)
           /\ callback.b \in Nat /\ callback.nread \in Int /\ player.n \in Nat
           /\ written \in Nat /\ count \in Int /\ pipes \in Seq(Seq(Byte))
<1>1. /\ player \in Player /\ callback \in Callback /\ played \in Seq(Byte \cup {Silence})
      /\ written \in 0 .. MaxBytes /\ count \in Int /\ pipes \in Seq(Seq(Byte))
  BY DEF AudioTypeOK
<1>2. DOMAIN played = 1 .. Len(played) /\ Len(played) \in Nat
  BY <1>1, LenProperties
<1>3. written \in Nat
  BY <1>1, AudioAssumption
<1>. QED  BY <1>1, <1>2, <1>3, PlayerFields, CallbackFields

\* The locals of who is outside audio_write and audio_play.
LEMMA Quiet ==
    /\ NotWriting \in Player /\ NotWriting.pc = "idle" /\ NotWriting.buf = <<>>
    /\ NotWriting.nwrite = 0 /\ NotWriting.n = 0
    /\ NotReading \in Callback /\ NotReading.pc = "idle" /\ NotReading.nread = 0
    /\ NotReading.b = 0
BY DEF NotWriting, NotReading, Player, Callback

LEMMA HasPipe ==
    ASSUME Undisturbed, player.pc # "idle" \/ callback.pc # "idle"
    PROVE  pipes # <<>>
BY Quiet DEF Undisturbed, Untouched

----------------------------------------------------------------------------
\* The steps

LEMMA InitAudio == AudioInitState => AudioInv
<1>. SUFFICES ASSUME AudioInitState PROVE AudioInv
  OBVIOUS
<1>1. player = NotWriting /\ player \in Player
  BY DEF AudioInitState, NotWriting, Player
<1>2. callback = NotReading /\ callback \in Callback
  BY DEF AudioInitState, NotReading, Callback
<1>3. AudioTypeOK
  BY <1>1, <1>2, AudioAssumption DEF AudioTypeOK, AudioInitState
<1>4. Counted /\ Numbered
  BY <1>1, <1>2, AudioAssumption DEF Counted, Numbered, AudioInitState, NotWriting, NotReading
<1>. QED
  BY <1>3, <1>4 DEF AudioInv, Undisturbed, Untouched, AudioInitState

LEMMA KeepAudioInit == AudioInv /\ AudioInit => AudioInv'
<1>. SUFFICES ASSUME AudioInv, AudioInit PROVE AudioInv'
  OBVIOUS
<1>t. AudioTypeOK
  BY DEF AudioInv
<1>1. /\ Len(pipes') = Len(pipes) + 1 /\ pipes' \in Seq(Seq(Byte)) /\ Len(pipes) \in Nat
      /\ Pipe' = <<>> /\ pipes' # <<>> 
  <2>1. pipes \in Seq(Seq(Byte)) /\ <<>> \in Seq(Byte)
    BY <1>t, EmptySeq DEF AudioTypeOK
  <2>2. pipes' = Append(pipes, <<>>)
    BY DEF AudioInit
  <2>3. /\ pipes' \in Seq(Seq(Byte)) /\ Len(pipes') = Len(pipes) + 1
        /\ pipes'[Len(pipes) + 1] = <<>> /\ pipes' # <<>>
    BY <2>1, <2>2, AppendProperties
  <2>4. Len(pipes) \in Nat
    BY <2>1, LenProperties
  <2>. QED  BY <2>3, <2>4 DEF Pipe
<1>s. UNCHANGED <<count, player, callback, ctrls, written, played>> /\ faults \subseteq faults'
  BY DEF AudioInit, Accident
<1>2. AudioTypeOK'
  <2>1. faults' \subseteq {"lost update", "grown", "reset", "split", "new pipe"}
    BY <1>t DEF AudioTypeOK, AudioInit, Accident, When
  <2>2. Len(pipes') <= MaxPipes
    <3>1. Len(pipes) < MaxPipes
      BY DEF AudioInit
    <3>. QED  BY <1>1, <3>1, AudioAssumption
  <2>. QED  BY <1>t, <1>1, <1>s, <2>1, <2>2 DEF AudioTypeOK
<1>4. ASSUME faults' = {} PROVE Undisturbed'
  <2>1. Undisturbed /\ count = 0 /\ callback.pc = "idle" /\ player.pc = "idle"
    BY <1>4, <1>s DEF AudioInv, AudioInit, Accident, When
  <2>2. Counted'
    BY <2>1, <1>1, <1>s DEF Undisturbed, Counted, Pending
  <2>3. written = Len(played) /\ callback.b = 0
    <3>1. CASE pipes = <<>>
      BY <3>1, <2>1 DEF Undisturbed, Untouched, NotReading
    <3>2. CASE pipes # <<>>
      <4>1. Len(Pipe) \in Nat
        BY <3>2, <1>t, PipeType, FlowType
      <4>2. callback.b = 0 /\ Pending = 0 /\ Unwritten = 0
        BY <2>1 DEF Undisturbed, Counted, Pending, Unwritten
      <4>3. /\ count = Len(Pipe) + callback.b - Pending
            /\ written = Len(played) + callback.b + Len(Pipe) + Unwritten
        BY <3>2, <2>1 DEF Undisturbed, Counted, Numbered
      <4>4. Len(played) \in Nat
        BY <1>t, FlowType
      <4>. QED  BY <4>1, <4>2, <4>3, <4>4, <2>1
    <3>. QED BY <3>1, <3>2
  <2>4. Numbered'
    <3>1. Len(Pipe') = 0 /\ Len(played) \in Nat /\ Unwritten' = 0
      BY <1>1, <1>t, <1>s, <2>1, FlowType DEF Unwritten
    <3>2. written' = Len(played') + callback.b' + Len(Pipe') + Unwritten'
      BY <2>3, <3>1, <1>s
    <3>3. \A i \in 1 .. Len(Pipe') : FALSE
      BY <3>1
    <3>4. Numbered
      BY <2>1 DEF Undisturbed
    <3>. QED  BY <3>2, <3>3, <3>4, <1>s DEF Numbered
  <2>. QED BY <1>1, <2>2, <2>4 DEF Undisturbed
<1>. QED  BY <1>2, <1>4 DEF AudioInv

LEMMA KeepCtrl == AudioInv /\ faults = {} /\ Ctrl => AudioInv'
<1>. SUFFICES ASSUME AudioInv, faults = {}, Ctrl PROVE AudioInv'
  OBVIOUS
<1>t. AudioTypeOK /\ Undisturbed
  BY DEF AudioInv
<1>1. /\ count' = 0 /\ ctrls' \in {ctrls, ctrls + 1} /\ ctrls < MaxCtrl
      /\ UNCHANGED <<pipes, player, callback, written, played>>
      /\ faults' \subseteq {"reset"} /\ pipes # <<>>
  BY DEF Ctrl, Accident, When
<1>2. AudioTypeOK'
  <2>1. ctrls' \in 0 .. MaxCtrl
    <3>1. ctrls \in 0 .. MaxCtrl
      BY <1>t DEF AudioTypeOK
    <3>. QED  BY <1>1, <3>1, AudioAssumption
  <2>2. faults' \subseteq {"lost update", "grown", "reset", "split", "new pipe"}
    BY <1>1
  <2>3. count' \in Int /\ UNCHANGED <<pipes, player, callback, written, played>>
    BY <1>1
  <2>. QED  BY <1>t, <2>1, <2>2, <2>3 DEF AudioTypeOK
<1>3. ASSUME faults' = {} PROVE Undisturbed'
  <2>1. count = 0
    BY <1>3 DEF Ctrl, Accident, When
  <2>2. Counted' /\ Numbered'
    BY <2>1, <1>1, <1>t DEF Undisturbed, Counted, Numbered, Pipe, Pending, Unwritten
  <2>. QED  BY <1>1, <2>2 DEF Undisturbed
<1>. QED  BY <1>2, <1>3 DEF AudioInv

LEMMA KeepPlay ==
    ASSUME NEW len \in Lengths, AudioInv, faults = {}, Play(len)
    PROVE  AudioInv'
<1>t. AudioTypeOK /\ Undisturbed
  BY DEF AudioInv
<1>1. /\ pipes # <<>> /\ player.pc = "idle" /\ written + len <= MaxBytes
      /\ written' = written + len /\ UNCHANGED <<count, pipes, callback, ctrls, played, faults>>
      /\ player' = [player EXCEPT !.pc = "write", !.nwrite = 0,
                                  !.buf = [i \in 1 .. len |-> written + i]]
  BY DEF Play
<1>n. len \in Nat /\ MaxBytes \in Nat /\ written \in Nat
  BY <1>t, FlowType, AudioAssumption
<1>2. PICK buf \in Seq(Byte) : /\ buf = [i \in 1 .. len |-> written + i]
                               /\ Len(buf) = len /\ \A i \in 1 .. len : buf[i] = written + i
  <2>1. \A i \in 1 .. len : written + i \in Byte
    BY <1>n, <1>1 DEF Byte
  <2>2. [i \in 1 .. len |-> written + i] \in Seq(Byte)
    BY <2>1, <1>n
  <2>3. Len([i \in 1 .. len |-> written + i]) = len
    BY <1>n
  <2>. QED  BY <2>2, <2>3
<1>3. /\ player' \in Player /\ player'.pc = "write" /\ player'.nwrite = 0
      /\ player'.n = player.n /\ player'.buf = buf
  <2>1. player \in Player /\ player' = [player EXCEPT !.pc = "write", !.nwrite = 0, !.buf = buf]
    BY <1>t, <1>1, <1>2 DEF AudioTypeOK
  <2>. QED  BY <2>1 DEF Player
<1>4. AudioTypeOK'
  <2>1. written' \in 0 .. MaxBytes
    BY <1>1, <1>n
  <2>. QED  BY <1>t, <1>1, <1>3, <2>1 DEF AudioTypeOK
<1>5. player.n = 0 /\ Pending = 0 /\ Unwritten = 0 /\ Pending' = 0 /\ Unwritten' = len
  <2>1. player.n \in {0, Len(player.buf)} /\ player.buf = <<>>
    BY <1>t, <1>1 DEF Undisturbed, Counted
  <2>2. Len(player.buf) = 0
    BY <2>1
  <2>. QED  BY <2>1, <2>2, <1>1, <1>2, <1>3, <1>n DEF Pending, Unwritten
<1>6. Counted'
  BY <1>t, <1>1, <1>3, <1>5 DEF Undisturbed, Counted, Pipe
<1>7. Numbered'
  <2>1. \A i \in 1 .. Len(player'.buf) : player'.buf[i] = written' - Len(player'.buf) + i
    BY <1>1, <1>2, <1>3, <1>n
  <2>2. written' = Len(played') + callback'.b + Len(Pipe') + Unwritten'
    <3>1. written = Len(played) + callback.b + Len(Pipe) + Unwritten
      BY <1>t, <1>1 DEF Undisturbed, Numbered
    <3>2. Len(played) \in Nat /\ callback.b \in Nat /\ Len(Pipe) \in Nat
      BY <1>t, <1>1, FlowType, PipeType
    <3>. QED  BY <3>1, <3>2, <1>1, <1>5, <1>n DEF Pipe
  <2>. QED  BY <1>t, <1>1, <2>1, <2>2 DEF Undisturbed, Numbered, Pipe
<1>. QED  BY <1>1, <1>4, <1>6, <1>7 DEF AudioInv, Undisturbed

\* write takes no more than it is given.
LEMMA AcceptedRange ==
    ASSUME NEW len \in Nat, NEW n \in Accepted(len), Len(Pipe) \in Nat
    PROVE  n \in 0 .. len
BY AudioAssumption DEF Accepted

\* What goes into the pipe from the start of the buffer follows what is in it.
LEMMA WriteNumbers ==
    ASSUME NEW s \in Seq(Byte), NEW t \in Seq(Byte), NEW n \in 0 .. Len(t),
           NEW base \in Int, NEW w \in Int, w = base + Len(s) + Len(t),
           \A i \in 1 .. Len(s) : s[i] = base + i,
           \A i \in 1 .. Len(t) : t[i] = w - Len(t) + i
    PROVE  /\ s \o SubSeq(t, 1, n) \in Seq(Byte)
           /\ Len(s \o SubSeq(t, 1, n)) = Len(s) + n
           /\ \A i \in 1 .. Len(s) + n : (s \o SubSeq(t, 1, n))[i] = base + i
<1>. DEFINE b == SubSeq(t, 1, n)
<1>1. Len(s) \in Int /\ Len(t) \in Int /\ Len(s) >= 0 /\ n \in Int /\ 0 <= n /\ n <= Len(t)
  BY LenProperties
<1>2. b \in Seq(Byte) /\ Len(b) = n /\ \A i \in 1 .. n : b[i] = t[i]
  <2>1. \A i \in 1 .. n : t[i] \in Byte
    BY <1>1, ElementOfSeq
  <2>2. /\ b \in Seq(Byte) /\ Len(b) = IF 1 <= n THEN n - 1 + 1 ELSE 0
        /\ \A i \in 1 .. n - 1 + 1 : b[i] = t[1 + i - 1]
    BY <2>1, <1>1, SubSeqProperties
  <2>3. Len(b) = n
    BY <2>2, <1>1
  <2>. QED  BY <2>2, <2>3, <1>1
<1>. HIDE DEF b
<1>3. /\ s \o b \in Seq(Byte) /\ Len(s \o b) = Len(s) + n
      /\ \A i \in 1 .. Len(s) + n : (s \o b)[i] = IF i <= Len(s) THEN s[i] ELSE b[i - Len(s)]
  BY <1>2, ConcatProperties
<1>4. ASSUME NEW i \in 1 .. Len(s) + n PROVE (s \o b)[i] = base + i
  <2>1. CASE i <= Len(s)
    BY <2>1, <1>1, <1>3
  <2>2. CASE ~(i <= Len(s))
    <3>1. PICK l \in Int, m \in Int : l = Len(s) /\ m = Len(t)
      BY <1>1
    <3>2. i - l \in 1 .. n /\ i \in Int /\ n <= m
      BY <3>1, <2>2, <1>1
    <3>3. (s \o b)[i] = t[i - l] /\ i - l \in 1 .. m
      BY <3>1, <3>2, <2>2, <1>2, <1>3
    <3>4. t[i - l] = w - m + (i - l) /\ w = base + l + m
      BY <3>1, <3>3
    <3>5. w \in Int /\ m \in Int /\ i \in Int /\ l \in Int /\ base \in Int /\ w = base + l + m
      BY <3>2, <3>4
    <3>6. w - m + (i - l) = base + i
      BY ONLY <3>5
    <3>. QED  BY <3>3, <3>4, <3>6
  <2>. QED  BY <2>1, <2>2
<1>. QED  BY <1>3, <1>4 DEF b

LEMMA KeepWrite == AudioInv /\ faults = {} /\ Write => AudioInv'
<1>. SUFFICES ASSUME AudioInv, faults = {}, Write PROVE AudioInv'
  OBVIOUS
<1>t. AudioTypeOK /\ Undisturbed
  BY DEF AudioInv
<1>0. pipes # <<>>
  BY <1>t, HasPipe DEF Write
<1>. DEFINE len == Len(player.buf)
<1>1. PICK n \in Accepted(len) :
         /\ SetPipe(Pipe \o SubSeq(player.buf, 1, n))
         /\ player' = [player EXCEPT !.pc = "load", !.n = n]
         /\ Accident(When("split", n \notin {0, len}))
  BY DEF Write
<1>2. UNCHANGED <<count, callback, ctrls, written, played>> /\ player.pc = "write"
  BY DEF Write
<1>3. player \in Player /\ callback \in Callback /\ len \in Nat /\ Pipe \in Seq(Byte) /\ Len(Pipe) \in Nat
  BY <1>0, <1>t, PipeType, FlowType DEF AudioTypeOK
<1>4. n \in 0 .. len
  BY <1>3, AcceptedRange
<1>5. /\ written = (Len(played) + callback.b) + Len(Pipe) + len
      /\ Len(played) \in Nat /\ callback.b \in Nat /\ written \in Nat
  <2>1. Len(played) \in Nat /\ callback.b \in Nat /\ written \in Nat /\ Unwritten = len
    BY <1>t, <1>2, <1>3, FlowType DEF Pending, Unwritten
  <2>. QED  BY <2>1, <1>0, <1>3, <1>t DEF Undisturbed, Numbered
<1>6. /\ pipes' \in Seq(Seq(Byte)) /\ Len(pipes') = Len(pipes) /\ pipes' # <<>>
      /\ Len(Pipe') = Len(Pipe) + n
      /\ \A i \in 1 .. Len(Pipe) + n : Pipe'[i] = Len(played) + callback.b + i
  <2>. DEFINE base == Len(played) + callback.b
              new == Pipe \o SubSeq(player.buf, 1, n)
  <2>1. /\ player.buf \in Seq(Byte) /\ base \in Int /\ written \in Int
        /\ written = base + Len(Pipe) + Len(player.buf)
    BY <1>3, <1>5, PlayerFields
  <2>2. /\ \A i \in 1 .. Len(Pipe) : Pipe[i] = base + i
        /\ \A i \in 1 .. Len(player.buf) : player.buf[i] = written - Len(player.buf) + i
    BY <1>t, <1>0 DEF Undisturbed, Numbered
  <2>. HIDE DEF base
  <2>3. /\ new \in Seq(Byte) /\ Len(new) = Len(Pipe) + n
        /\ \A i \in 1 .. Len(Pipe) + n : new[i] = base + i
    BY <2>1, <2>2, <1>3, <1>4, WriteNumbers
  <2>4. pipes \in Seq(Seq(Byte)) /\ SetPipe(new)
    BY <1>t, <1>1, FlowType
  <2>5. /\ pipes' \in Seq(Seq(Byte)) /\ Len(pipes') = Len(pipes) /\ pipes' # <<>> /\ Pipe' = new
    BY <2>3, <2>4, <1>0, NewPipe
  <2>. HIDE DEF new
  <2>. QED  BY <2>3, <2>5 DEF base
<1>7. /\ player' \in Player /\ player'.pc = "load" /\ player'.nwrite = player.nwrite
      /\ player'.n = n /\ player'.buf = player.buf
  <2>1. n \in Nat /\ player \in Player /\ player' = [player EXCEPT !.pc = "load", !.n = n]
    BY <1>1, <1>3, <1>4
  <2>. QED  BY <2>1 DEF Player
<1>8. AudioTypeOK'
  <2>1. faults' \subseteq {"lost update", "grown", "reset", "split", "new pipe"}
    BY <1>1 DEF Accident, When
  <2>. QED  BY <1>t, <1>2, <1>6, <1>7, <2>1 DEF AudioTypeOK
<1>9. ASSUME faults' = {} PROVE Undisturbed'
  <2>1. n \in {0, len}
    BY <1>1, <1>9 DEF Accident, When
  <2>2. Pending = 0 /\ Pending' = n /\ Unwritten = len /\ Unwritten' = len - n
    BY <1>2, <1>3, <1>7 DEF Pending, Unwritten
  <2>3. count = Len(Pipe) + callback.b
    BY <1>0, <1>t, <1>3, <1>5, <2>2 DEF Undisturbed, Counted
  <2>4. Counted'
    <3>1. count' = Len(Pipe') + callback'.b - Pending'
      <4>1. count' = count /\ callback' = callback /\ Len(Pipe') = Len(Pipe) + n
        BY <1>2, <1>6
      <4>2. callback.b \in Nat /\ Len(Pipe) \in Nat /\ n \in Int
        BY <1>t, <1>3, <1>4, FlowType
      <4>. QED  BY <4>1, <4>2, <2>2, <2>3
    <3>. QED  BY <3>1, <1>t, <1>2, <1>7, <2>1 DEF Undisturbed, Counted
  <2>5. Numbered'
    <3>1. \A i \in 1 .. Len(Pipe') : Pipe'[i] = Len(played') + callback'.b + i
      BY <1>2, <1>6
    <3>2. written' = Len(played') + callback'.b + Len(Pipe') + Unwritten'
      <4>1. written' = written /\ played' = played /\ callback' = callback /\ Len(Pipe') = Len(Pipe) + n
        BY <1>2, <1>6
      <4>2. /\ Len(played) \in Nat /\ callback.b \in Nat /\ Len(Pipe) \in Nat
            /\ len \in Nat /\ n \in Int
        BY <1>3, <1>4, <1>5
      <4>3. written = Len(played) + callback.b + Len(Pipe) + len /\ Unwritten' = len - n
        BY <1>5, <2>2
      <4>4. Len(played) + callback.b + Len(Pipe) + len
              = Len(played) + callback.b + (Len(Pipe) + n) + (len - n)
        BY ONLY <4>2
      <4>. QED  BY <4>1, <4>3, <4>4
    <3>. QED  BY <3>1, <3>2, <1>2, <1>7, <1>t DEF Undisturbed, Numbered
  <2>. QED  BY <1>6, <2>4, <2>5 DEF Undisturbed
<1>. QED  BY <1>8, <1>9 DEF AudioInv

LEMMA KeepAddLoad == AudioInv /\ faults = {} /\ AddLoad => AudioInv'
<1>. SUFFICES ASSUME AudioInv, faults = {}, AddLoad PROVE AudioInv'
  OBVIOUS
<1>t. AudioTypeOK /\ Undisturbed
  BY DEF AudioInv
<1>1. /\ player.pc = "load" /\ player' = [player EXCEPT !.pc = "store", !.load = count]
      /\ UNCHANGED <<count, pipes, callback, ctrls, written, played, faults>>
  BY DEF AddLoad
<1>2. player \in Player /\ count \in Int
  BY <1>t DEF AudioTypeOK
<1>3. /\ player' \in Player /\ player'.pc = "store" /\ player'.nwrite = player.nwrite
      /\ player'.n = player.n /\ player'.buf = player.buf
  BY <1>1, <1>2 DEF Player
<1>4. AudioTypeOK'
  BY <1>t, <1>1, <1>3 DEF AudioTypeOK
<1>5. Pending' = Pending /\ Unwritten' = Unwritten
  BY <1>1, <1>3 DEF Pending, Unwritten
<1>6. Counted' /\ Numbered'
  BY <1>t, <1>1, <1>3, <1>5 DEF Undisturbed, Counted, Numbered, Pipe
<1>7. pipes # <<>>
  BY <1>t, <1>1, HasPipe
<1>. QED  BY <1>1, <1>4, <1>6, <1>7 DEF AudioInv, Undisturbed

LEMMA KeepAddStore == AudioInv /\ faults = {} /\ AddStore => AudioInv'
<1>. SUFFICES ASSUME AudioInv, faults = {}, AddStore PROVE AudioInv'
  OBVIOUS
<1>t. AudioTypeOK /\ Undisturbed
  BY DEF AudioInv
<1>. DEFINE nwrite == player.nwrite + player.n
<1>1. /\ player.pc = "store" /\ count' = player.load + player.n
      /\ player' = IF nwrite < Len(player.buf)
                   THEN [player EXCEPT !.nwrite = nwrite, !.pc = "write", !.n = 0, !.load = 0]
                   ELSE NotWriting
      /\ UNCHANGED <<pipes, callback, ctrls, written, played>>
      /\ Accident(When("lost update", count # player.load))
  BY DEF AddStore, Added
<1>2. /\ player \in Player /\ count \in Int /\ player.nwrite = 0 /\ player.n \in {0, Len(player.buf)}
      /\ pipes # <<>>
  <2>1. pipes # <<>>
    BY <1>t, <1>1, HasPipe
  <2>2. player \in Player /\ count \in Int
    BY <1>t DEF AudioTypeOK
  <2>. QED  BY <2>1, <2>2, <1>t DEF Undisturbed, Counted
<1>3. /\ player' \in Player /\ player'.nwrite = 0 /\ player'.n = 0
      /\ \/ player'.pc = "write" /\ player'.buf = player.buf /\ player.n = 0
         \/ player'.pc = "idle" /\ player'.buf = <<>> /\ player.n = Len(player.buf)
  <2>0. Len(player.buf) \in Nat /\ player.n \in Nat
    BY <1>2, PlayerFields
  <2>1. CASE nwrite < Len(player.buf)
    <3>1. player.n = 0 /\ nwrite = 0
      BY <2>0, <2>1, <1>2
    <3>2. player' = [player EXCEPT !.nwrite = 0, !.pc = "write", !.n = 0, !.load = 0]
      BY <2>1, <3>1, <1>1
    <3>3. player' \in Player
      <4>1. player \in Player
        BY <1>2
      <4>2. player' = [pc |-> "write", buf |-> player.buf, nwrite |-> 0, n |-> 0, load |-> 0]
        BY <3>2, <4>1 DEF Player
      <4>3. player.buf \in Seq(Byte)
        BY <4>1, PlayerFields
      <4>. QED  BY <4>2, <4>3 DEF Player
    <3>5. player'.nwrite = 0 /\ player'.n = 0
      BY <3>2, <1>2 DEF Player
    <3>4. player'.pc = "write" /\ player'.buf = player.buf
      BY <3>2, <1>2 DEF Player
    <3>. QED  BY <3>1, <3>3, <3>4, <3>5
  <2>2. CASE ~(nwrite < Len(player.buf))
    <3>1. player.n = Len(player.buf)
      BY <2>0, <2>2, <1>2
    <3>2. player' = NotWriting
      BY <2>2, <1>1
    <3>3. /\ player' \in Player /\ player'.nwrite = 0 /\ player'.n = 0
          /\ player'.pc = "idle" /\ player'.buf = <<>>
      BY <3>2, Quiet
    <3>. QED  BY <3>1, <3>3, Zenon
  <2>. QED  BY <2>1, <2>2
<1>4. AudioTypeOK'
  <2>1. count' \in Int
    <3>1. player.load \in Int /\ player.n \in Nat
      BY <1>2 DEF Player
    <3>2. count' = player.load + player.n
      BY <1>1
    <3>. QED  BY <3>1, <3>2
  <2>2. faults' \subseteq {"lost update", "grown", "reset", "split", "new pipe"}
    BY <1>1 DEF Accident, When
  <2>. QED  BY <1>t, <1>1, <1>3, <2>1, <2>2 DEF AudioTypeOK
<1>5. ASSUME faults' = {} PROVE Undisturbed'
  <2>1. count' = count + player.n
    BY <1>1, <1>5 DEF Accident, When
  <2>2. /\ Len(Pipe) \in Nat /\ player.n \in Nat /\ Len(player.buf) \in Nat /\ count \in Nat
        /\ callback.b \in Nat /\ callback.nread \in Int
    BY <1>2, <1>t, PipeType, FlowType DEF Undisturbed, Counted
  <2>3. Pending = player.n /\ Pending' = 0 /\ Unwritten' = Unwritten
    <3>1. Pending = player.n /\ Unwritten = Len(player.buf) - player.n
      BY <1>1 DEF Pending, Unwritten
    <3>2. Pending' = 0
      BY <1>3 DEF Pending
    <3>3. Unwritten' = IF player'.pc = "idle" THEN 0 ELSE Len(player'.buf)
      BY <2>2, <3>2, <1>3 DEF Unwritten
    <3>4. Unwritten' = Unwritten
      <4>1. CASE player'.pc = "write" /\ player'.buf = player.buf /\ player.n = 0
        BY <4>1, <3>1, <3>3, <2>2
      <4>2. CASE player'.pc = "idle" /\ player.n = Len(player.buf)
        BY <4>2, <3>1, <3>3, <2>2
      <4>. QED  BY <4>1, <4>2, <1>3
    <3>. QED  BY <3>1, <3>2, <3>4
  <2>4. Counted'
    <3>0. UNCHANGED <<pipes, callback>> /\ Pipe' = Pipe
      BY <1>1 DEF Pipe
    <3>a. count = Len(Pipe) + callback.b - Pending /\ callback.nread <= count
      BY <1>t, <1>2 DEF Undisturbed, Counted
    <3>1. count' = Len(Pipe') + callback'.b - Pending'
      BY <3>0, <3>a, <2>1, <2>2, <2>3
    <3>2. count' \in Nat /\ callback'.nread <= count'
      BY <3>0, <3>a, <2>1, <2>2
    <3>. QED  BY <3>1, <3>2, <1>t, <1>1, <1>3 DEF Undisturbed, Counted
  <2>5. Numbered'
    <3>1. UNCHANGED <<pipes, callback, played, written>> /\ Pipe' = Pipe
      BY <1>1 DEF Pipe
    <3>2. \A i \in 1 .. Len(player'.buf) : player'.buf[i] = written - Len(player'.buf) + i
      <4>1. CASE player'.buf = player.buf
        BY <4>1, <1>t DEF Undisturbed, Numbered
      <4>2. CASE player'.buf = <<>>
        BY <4>2
      <4>. QED  BY <4>1, <4>2, <1>3
    <3>. QED  BY <3>1, <3>2, <1>t, <2>3 DEF Undisturbed, Numbered
  <2>. QED  BY <1>1, <1>2, <2>4, <2>5 DEF Undisturbed
<1>. QED  BY <1>4, <1>5 DEF AudioInv

LEMMA KeepTest == AudioInv /\ faults = {} /\ CallbackTest => AudioInv'
<1>. SUFFICES ASSUME AudioInv, faults = {}, CallbackTest PROVE AudioInv'
  OBVIOUS
<1>t. AudioTypeOK /\ Undisturbed /\ callback.pc = "idle" /\ ctrls > 0
  BY DEF AudioInv, CallbackTest
<1>1. /\ callback' = IF count < StreamLen
                     THEN [NotReading EXCEPT !.pc = "again"]
                     ELSE [NotReading EXCEPT !.pc = "read", !.nread = StreamLen]
      /\ UNCHANGED <<count, pipes, player, ctrls, written, played, faults>>
  BY DEF CallbackTest
<1>2. count \in Nat /\ StreamLen \in Nat
  BY <1>t, AudioAssumption DEF Undisturbed, Counted
<1>3. /\ callback' \in Callback /\ callback'.b = 0 /\ callback'.nread \in 0 .. StreamLen
      /\ callback'.nread <= count
      /\ \/ callback'.pc = "again" /\ callback'.nread = 0
         \/ callback'.pc = "read"
  <2>1. CASE count < StreamLen
    <3>1. callback' = [NotReading EXCEPT !.pc = "again"]
      BY <1>1, <2>1
    <3>2. /\ callback' \in Callback /\ callback'.b = 0 /\ callback'.nread = 0
          /\ callback'.pc = "again"
      BY <3>1, Quiet DEF Callback
    <3>. QED  BY <3>2, <1>2
  <2>2. CASE ~(count < StreamLen)
    <3>1. callback' = [NotReading EXCEPT !.pc = "read", !.nread = StreamLen]
      BY <1>1, <2>2
    <3>2. /\ callback' \in Callback /\ callback'.b = 0 /\ callback'.nread = StreamLen
          /\ callback'.pc = "read"
      <4>1. StreamLen \in Int /\ NotReading \in Callback /\ NotReading.b = 0
        BY <1>2, Quiet
      <4>2. callback' \in Callback
        BY <3>1, <4>1 DEF Callback
      <4>3. callback'.b = 0 /\ callback'.nread = StreamLen /\ callback'.pc = "read"
        BY <3>1, <4>1 DEF Callback
      <4>. QED  BY <4>2, <4>3
    <3>. QED  BY <3>2, <2>2, <1>2
  <2>. QED  BY <2>1, <2>2
<1>4. AudioTypeOK'
  BY <1>t, <1>1, <1>3 DEF AudioTypeOK
<1>5. callback.b = 0 /\ pipes # <<>>
  BY <1>t DEF Undisturbed, Counted, Untouched
<1>6. Counted'
  BY <1>t, <1>1, <1>3, <1>5 DEF Undisturbed, Counted, Pipe, Pending
<1>7. Numbered'
  BY <1>t, <1>1, <1>3, <1>5 DEF Undisturbed, Numbered, Pipe, Pending, Unwritten
<1>. QED  BY <1>1, <1>4, <1>5, <1>6, <1>7 DEF AudioInv, Undisturbed

LEMMA KeepAgain == AudioInv /\ faults = {} /\ CallbackAgain => AudioInv'
<1>. SUFFICES ASSUME AudioInv, faults = {}, CallbackAgain PROVE AudioInv'
  OBVIOUS
<1>t. AudioTypeOK /\ Undisturbed /\ callback.pc = "again"
  BY DEF AudioInv, CallbackAgain
<1>1. /\ callback' = [callback EXCEPT !.pc = "read", !.nread = count]
      /\ UNCHANGED <<count, pipes, player, ctrls, written, played>>
      /\ Accident(When("grown", count > StreamLen))
  BY DEF CallbackAgain
<1>2. count \in Nat /\ StreamLen \in Nat /\ callback \in Callback
  BY <1>t, AudioAssumption DEF Undisturbed, Counted, AudioTypeOK
<1>3. /\ callback' \in Callback /\ callback'.b = callback.b /\ callback'.nread = count
      /\ callback'.pc = "read"
  <2>1. /\ count \in Int /\ callback \in Callback
        /\ callback' = [callback EXCEPT !.pc = "read", !.nread = count]
    BY <1>1, <1>2
  <2>2. callback' \in Callback
    BY <2>1 DEF Callback
  <2>3. callback'.b = callback.b /\ callback'.nread = count /\ callback'.pc = "read"
    BY <2>1 DEF Callback
  <2>. QED  BY <2>2, <2>3
<1>4. AudioTypeOK'
  <2>1. faults' \subseteq {"lost update", "grown", "reset", "split", "new pipe"}
    BY <1>1 DEF Accident, When
  <2>. QED  BY <1>t, <1>1, <1>3, <2>1 DEF AudioTypeOK
<1>5. callback.b = 0 /\ pipes # <<>>
  BY <1>t, HasPipe DEF Undisturbed, Counted
<1>6. ASSUME faults' = {} PROVE Counted'
  <2>1. count <= StreamLen
    BY <1>1, <1>2, <1>6 DEF Accident, When
  <2>2. callback'.nread \in 0 .. StreamLen /\ callback'.nread <= count'
    BY <1>1, <1>2, <1>3, <2>1
  <2>. QED  BY <2>2, <1>t, <1>1, <1>3, <1>5 DEF Undisturbed, Counted, Pipe, Pending
<1>7. Numbered'
  BY <1>t, <1>1, <1>3, <1>5 DEF Undisturbed, Numbered, Pipe, Pending, Unwritten
<1>. QED  BY <1>1, <1>4, <1>5, <1>6, <1>7 DEF AudioInv, Undisturbed

LEMMA KeepRead == AudioInv /\ faults = {} /\ CallbackRead => AudioInv'
<1>. SUFFICES ASSUME AudioInv, faults = {}, CallbackRead PROVE AudioInv'
  OBVIOUS
<1>t. AudioTypeOK /\ Undisturbed /\ callback.pc = "read" /\ callback.b < callback.nread
  BY DEF AudioInv, CallbackRead
<1>0. pipes # <<>>
  BY <1>t, HasPipe
<1>2. /\ callback \in Callback /\ callback.stream \in [1 .. StreamLen -> Byte \cup {Silence}]
      /\ Pipe \in Seq(Byte) /\ Len(Pipe) \in Nat /\ Len(played) \in Nat
      /\ StreamLen \in Nat /\ callback.nread \in 0 .. StreamLen /\ Pending \in Nat
  <2>1. Pending \in Nat
    BY <1>t, FlowType DEF Pending
  <2>2. callback \in Callback /\ callback.nread \in 0 .. StreamLen
    BY <1>t DEF AudioTypeOK, Undisturbed, Counted
  <2>. QED  BY <1>0, <1>t, <2>1, <2>2, PipeType, FlowType, CallbackFields, AudioAssumption
<1>3. callback.b = 0 /\ callback.nread <= Len(Pipe)
  <2>1. callback.b = 0 /\ count = Len(Pipe) + callback.b - Pending /\ callback.nread <= count
    BY <1>t, <1>0, <1>2 DEF Undisturbed, Counted
  <2>. QED  BY <2>1, <1>2
<1>. DEFINE rest == SubSeq(Pipe, callback.nread + 1, Len(Pipe))
            got == SubSeq(Pipe, 1, callback.nread)
            old == SubSeq(callback.stream, callback.nread + 1, StreamLen)
<1>1. /\ SetPipe(rest)
      /\ callback' = [callback EXCEPT !.b = callback.nread, !.stream = got \o old]
      /\ UNCHANGED <<count, player, ctrls, written, played, faults>>
  <2>1. (IF Len(Pipe) < Asked THEN Len(Pipe) ELSE Asked) = callback.nread
    BY <1>2, <1>3 DEF Asked
  <2>2. callback.b + callback.nread = callback.nread
    BY <1>2, <1>3
  <2>. QED  BY <2>1, <2>2 DEF CallbackRead
<1>4. /\ rest \in Seq(Byte) /\ Len(rest) = Len(Pipe) - callback.nread
      /\ \A i \in 1 .. Len(Pipe) - callback.nread : rest[i] = Pipe[callback.nread + i]
  <2>1. \A i \in callback.nread + 1 .. Len(Pipe) : Pipe[i] \in Byte
    BY <1>2, ElementOfSeq
  <2>2. callback.nread + 1 \in Int /\ Len(Pipe) \in Int
    BY <1>2
  <2>3. /\ rest \in Seq(Byte)
        /\ Len(rest) = IF callback.nread + 1 <= Len(Pipe) THEN Len(Pipe) - (callback.nread + 1) + 1 ELSE 0
        /\ \A i \in 1 .. Len(Pipe) - (callback.nread + 1) + 1 : rest[i] = Pipe[(callback.nread + 1) + i - 1]
    BY <2>1, <2>2, SubSeqProperties
  <2>4. /\ callback.nread \in Nat /\ Len(Pipe) \in Nat /\ callback.nread <= Len(Pipe)
        /\ Len(Pipe) - (callback.nread + 1) + 1 = Len(Pipe) - callback.nread
        /\ \A i \in Int : (callback.nread + 1) + i - 1 = callback.nread + i
    BY <1>2, <1>3
  <2>. HIDE DEF rest
  <2>5. Len(rest) = Len(Pipe) - callback.nread
    <3>1. CASE callback.nread + 1 <= Len(Pipe)
      BY <3>1, <2>3, <2>4
    <3>2. CASE callback.nread = Len(Pipe)
      BY <3>2, <2>3, <2>4
    <3>3. callback.nread \in Int /\ Len(Pipe) \in Int /\ callback.nread <= Len(Pipe)
      BY <2>4
    <3>4. callback.nread + 1 <= Len(Pipe) \/ callback.nread = Len(Pipe)
      BY <3>3
    <3>. QED  BY <3>1, <3>2, <3>4
  <2>6. ASSUME NEW i \in 1 .. Len(Pipe) - callback.nread PROVE rest[i] = Pipe[callback.nread + i]
    <3>1. i \in 1 .. Len(Pipe) - (callback.nread + 1) + 1 /\ (callback.nread + 1) + i - 1 = callback.nread + i
      BY <2>4
    <3>. QED  BY <2>3, <3>1
  <2>. QED  BY <2>3, <2>5, <2>6
<1>5. /\ got \o old \in [1 .. StreamLen -> Byte \cup {Silence}]
      /\ \A i \in 1 .. callback.nread : (got \o old)[i] = Pipe[i]
  <2>1. /\ got \in Seq(Byte \cup {Silence}) /\ Len(got) = callback.nread
        /\ \A i \in 1 .. callback.nread : got[i] = Pipe[i]
    <3>1. \A i \in 1 .. callback.nread : Pipe[i] \in Byte \cup {Silence}
      BY <1>2, <1>3, ElementOfSeq
    <3>. QED  BY <3>1, <1>2, SubSeqProperties
  <2>2. old \in Seq(Byte \cup {Silence}) /\ Len(old) = StreamLen - callback.nread
    <3>1. \A i \in callback.nread + 1 .. StreamLen : callback.stream[i] \in Byte \cup {Silence}
      BY <1>2
    <3>2. callback.nread + 1 \in Int /\ StreamLen \in Int
      BY <1>2
    <3>3. /\ old \in Seq(Byte \cup {Silence})
          /\ Len(old) = IF callback.nread + 1 <= StreamLen THEN StreamLen - (callback.nread + 1) + 1 ELSE 0
      BY <3>1, <3>2, SubSeqProperties
    <3>. QED  BY <3>3, <1>2
  <2>3. /\ got \o old \in Seq(Byte \cup {Silence}) /\ Len(got \o old) = Len(got) + Len(old)
        /\ \A i \in 1 .. Len(got) + Len(old) :
              (got \o old)[i] = IF i <= Len(got) THEN got[i] ELSE old[i - Len(got)]
    BY <2>1, <2>2, ConcatProperties
  <2>4. Len(got) + Len(old) = StreamLen
    BY <1>2, <2>1, <2>2
  <2>5. got \o old \in [1 .. StreamLen -> Byte \cup {Silence}]
    BY <2>3, <2>4, LenProperties
  <2>6. ASSUME NEW i \in 1 .. callback.nread PROVE (got \o old)[i] = Pipe[i]
    BY <1>2, <2>1, <2>3, <2>4
  <2>. QED  BY <2>5, <2>6
<1>6. /\ pipes' \in Seq(Seq(Byte)) /\ Len(pipes') = Len(pipes) /\ pipes' # <<>>
      /\ Pipe' = rest
  BY <1>0, <1>1, <1>4, <1>t, FlowType, NewPipe
<1>. HIDE DEF rest
<1>7. /\ callback' \in Callback /\ callback'.b = callback.nread /\ callback'.stream = got \o old
      /\ callback'.nread = callback.nread /\ callback'.pc = "read"
  <2>. HIDE DEF got, old
  <2>1. callback.nread \in Nat
    BY <1>2
  <2>. QED  BY <2>1, <1>1, <1>2, <1>5, <1>t DEF Callback
<1>8. AudioTypeOK'
  BY <1>t, <1>1, <1>6, <1>7 DEF AudioTypeOK
<1>9. Counted'
  <2>1. count = Len(Pipe) + callback.b - Pending /\ count \in Nat
    BY <1>t, <1>0 DEF Undisturbed, Counted
  <2>2. Pending' = Pending
    BY <1>1 DEF Pending
  <2>3. count' = Len(Pipe') + callback'.b - Pending'
    <3>1. count' = count /\ Len(Pipe') = Len(Pipe) - callback.nread /\ callback'.b = callback.nread
      BY <1>1, <1>4, <1>6, <1>7
    <3>2. Len(Pipe) \in Nat /\ callback.nread \in Int /\ callback.b = 0 /\ Pending \in Nat
      BY <1>2, <1>3
    <3>. QED  BY <3>1, <3>2, <2>1, <2>2
  <2>. QED  BY <2>3, <1>t, <1>1, <1>6, <1>7 DEF Undisturbed, Counted
<1>10. Numbered'
  <2>. HIDE DEF got, old
  <2>1. \A i \in 1 .. callback'.b : callback'.stream[i] = Len(played') + i
    <3>1. ASSUME NEW i \in 1 .. callback.nread PROVE Pipe[i] = Len(played) + i
      <4>1. i \in 1 .. Len(Pipe) /\ i \in Nat
        BY <1>2, <1>3
      <4>2. Pipe[i] = Len(played) + callback.b + i
        BY <4>1, <1>t, <1>0 DEF Undisturbed, Numbered
      <4>. QED  BY <4>1, <4>2, <1>2, <1>3
    <3>. QED  BY <3>1, <1>1, <1>5, <1>7
  <2>2. \A i \in 1 .. Len(Pipe') : Pipe'[i] = Len(played') + callback'.b + i
    <3>1. ASSUME NEW i \in 1 .. Len(Pipe) - callback.nread
          PROVE  rest[i] = Len(played) + callback.nread + i
      <4>1. callback.nread + i \in 1 .. Len(Pipe) /\ i \in Nat /\ callback.nread \in Nat
        BY <1>2, <1>3
      <4>2. Pipe[callback.nread + i] = Len(played) + callback.b + (callback.nread + i)
        BY <4>1, <1>t, <1>0 DEF Undisturbed, Numbered
      <4>. QED  BY <4>1, <4>2, <1>2, <1>3, <1>4
    <3>. QED  BY <3>1, <1>1, <1>4, <1>6, <1>7
  <2>3. written' = Len(played') + callback'.b + Len(Pipe') + Unwritten'
    <3>1. written = Len(played) + callback.b + Len(Pipe) + Unwritten /\ Unwritten' = Unwritten
      BY <1>t, <1>0, <1>1 DEF Undisturbed, Numbered, Unwritten, Pending
    <3>2. Unwritten \in Int
      BY <1>2, <1>t, FlowType DEF Unwritten
    <3>3. /\ written' = written /\ played' = played /\ callback'.b = callback.nread
          /\ Len(Pipe') = Len(Pipe) - callback.nread
      BY <1>1, <1>4, <1>6, <1>7
    <3>4. /\ Len(Pipe) \in Nat /\ callback.nread \in Int /\ callback.b = 0
          /\ Len(played) \in Nat
      BY <1>2, <1>3
    <3>. QED  BY <3>1, <3>2, <3>3, <3>4
  <2>. QED  BY <2>1, <2>2, <2>3, <1>t, <1>1 DEF Undisturbed, Numbered
<1>. QED  BY <1>6, <1>8, <1>9, <1>10 DEF AudioInv, Undisturbed

LEMMA KeepSubtractLoad == AudioInv /\ faults = {} /\ SubtractLoad => AudioInv'
<1>. SUFFICES ASSUME AudioInv, faults = {}, SubtractLoad PROVE AudioInv'
  OBVIOUS
<1>t. AudioTypeOK /\ Undisturbed
  BY DEF AudioInv
<1>1. /\ callback.pc = "read" /\ callback.b >= callback.nread
      /\ callback' = [callback EXCEPT !.pc = "store", !.load = count]
      /\ UNCHANGED <<count, pipes, player, ctrls, written, played, faults>>
  BY DEF SubtractLoad
<1>2. callback \in Callback /\ count \in Int
  BY <1>t DEF AudioTypeOK
<1>3. callback' \in Callback
  <2>1. callback' = [callback EXCEPT !.pc = "store", !.load = count]
    BY <1>1
  <2>. QED  BY <2>1, <1>2 DEF Callback
<1>4. /\ callback'.pc = "store" /\ callback'.nread = callback.nread
      /\ callback'.b = callback.b /\ callback'.stream = callback.stream
  BY <1>1, <1>2 DEF Callback
<1>5. AudioTypeOK'
  BY <1>t, <1>1, <1>3 DEF AudioTypeOK
<1>6. callback.b = callback.nread
  BY <1>t, <1>1, FlowType DEF Undisturbed, Counted
<1>7. pipes # <<>>
  BY <1>t, <1>1, HasPipe
<1>8. Counted' /\ Numbered'
  BY <1>t, <1>1, <1>4, <1>6, <1>7 DEF Undisturbed, Counted, Numbered, Pipe, Pending, Unwritten
<1>. QED  BY <1>1, <1>5, <1>7, <1>8 DEF AudioInv, Undisturbed

LEMMA KeepSubtractStore == AudioInv /\ faults = {} /\ SubtractStore => AudioInv'
<1>. SUFFICES ASSUME AudioInv, faults = {}, SubtractStore PROVE AudioInv'
  OBVIOUS
<1>t. AudioTypeOK /\ Undisturbed /\ callback.pc = "store"
  BY DEF AudioInv, SubtractStore
<1>0. pipes # <<>>
  BY <1>t, HasPipe
<1>. DEFINE new == SubSeq(callback.stream, 1, callback.nread)
<1>1. /\ count' = callback.load - callback.nread
      /\ callback' = NotReading /\ played' = played \o new
      /\ Accident(When("lost update", count # callback.load))
      /\ UNCHANGED <<pipes, player, ctrls, written>>
  BY DEF SubtractStore
<1>2. /\ callback \in Callback /\ callback.load \in Int
      /\ callback.stream \in [1 .. StreamLen -> Byte \cup {Silence}]
      /\ callback.nread \in 0 .. StreamLen /\ StreamLen \in Nat
      /\ callback.b = callback.nread /\ callback.nread <= count /\ count \in Nat
      /\ count = Len(Pipe) + callback.b - Pending
  <2>1. callback \in Callback
    BY <1>t DEF AudioTypeOK
  <2>2. callback.load \in Int
    BY <2>1 DEF Callback
  <2>. QED  BY <2>1, <2>2, <1>t, <1>0, CallbackFields, AudioAssumption DEF Undisturbed, Counted
<1>3. /\ played \in Seq(Byte \cup {Silence}) /\ Len(played) \in Nat
      /\ Len(Pipe) \in Nat /\ Pending \in Nat /\ Unwritten \in Int
  BY <1>t, <1>0, FlowType, PipeType DEF AudioTypeOK, Pending, Unwritten
<1>4. /\ new \in Seq(Byte \cup {Silence}) /\ Len(new) = callback.nread
      /\ \A i \in 1 .. callback.nread : new[i] = callback.stream[i]
  <2>1. \A i \in 1 .. callback.nread : callback.stream[i] \in Byte \cup {Silence}
    BY <1>2
  <2>. QED  BY <2>1, <1>2, SubSeqProperties
<1>. HIDE DEF new
<1>5. /\ played' \in Seq(Byte \cup {Silence}) /\ Len(played') = Len(played) + callback.nread
      /\ \A i \in 1 .. Len(played) + callback.nread :
            played'[i] = IF i <= Len(played) THEN played[i] ELSE new[i - Len(played)]
  <2>1. /\ played \o new \in Seq(Byte \cup {Silence}) /\ Len(played \o new) = Len(played) + Len(new)
        /\ \A i \in 1 .. Len(played) + Len(new) :
              (played \o new)[i] = IF i <= Len(played) THEN played[i] ELSE new[i - Len(played)]
    BY <1>3, <1>4, ConcatProperties
  <2>2. played' = played \o new
    BY <1>1
  <2>. QED  BY <1>4, <2>1, <2>2
<1>6. AudioTypeOK'
  <2>1. faults' \subseteq {"lost update", "grown", "reset", "split", "new pipe"}
    BY <1>t, <1>1 DEF AudioTypeOK, Accident, When
  <2>2. count' \in Int
    <3>1. count' = callback.load - callback.nread
      BY <1>1
    <3>2. callback.nread \in Int /\ callback.load \in Int
      BY <1>2
    <3>. QED  BY <3>1, <3>2
  <2>3. callback' \in Callback
    BY <1>1, Quiet
  <2>. QED  BY <1>t, <1>1, <1>5, <2>1, <2>2, <2>3 DEF AudioTypeOK
<1>7. ASSUME faults' = {} PROVE Undisturbed'
  <2>1. count' = count - callback.nread
    BY <1>1, <1>7 DEF Accident, When
  <2>2. Pending' = Pending /\ Unwritten' = Unwritten /\ Pipe' = Pipe
    BY <1>1 DEF Pending, Unwritten, Pipe
  <2>3. callback'.nread = 0 /\ callback'.b = 0 /\ callback'.pc = "idle"
    BY <1>1, Quiet
  <2>4. Counted'
    <3>1. /\ count' \in Nat /\ callback'.nread \in 0 .. StreamLen /\ callback'.nread <= count'
          /\ count' = Len(Pipe') + callback'.b - Pending'
      BY <1>2, <1>3, <2>1, <2>2, <2>3
    <3>. QED  BY <3>1, <2>3, <1>t, <1>1 DEF Undisturbed, Counted
  <2>5. Numbered'
    <3>1. \A i \in 1 .. Len(played') : played'[i] = i
      <4>1. ASSUME NEW i \in 1 .. Len(played) + callback.nread PROVE played'[i] = i
        <5>1. CASE i <= Len(played)
          <6>1. i \in 1 .. Len(played) /\ played'[i] = played[i]
            BY <5>1, <1>3, <1>5
          <6>. QED  BY <6>1, <1>t DEF Undisturbed, Numbered
        <5>2. CASE ~(i <= Len(played))
          <6>1. i - Len(played) \in 1 .. callback.nread /\ i \in Nat
            BY <5>2, <1>2, <1>3
          <6>2. played'[i] = callback.stream[i - Len(played)]
            BY <5>2, <6>1, <1>4, <1>5
          <6>3. callback.stream[i - Len(played)] = Len(played) + (i - Len(played))
            BY <6>1, <1>2, <1>t DEF Undisturbed, Numbered
          <6>. QED  BY <6>1, <6>2, <6>3, <1>3
        <5>. QED  BY <5>1, <5>2
      <4>. QED  BY <4>1, <1>5
    <3>2. \A i \in 1 .. callback'.b : FALSE
      BY <2>3
    <3>3. \A i \in 1 .. Len(Pipe) : Pipe[i] = Len(played') + callback'.b + i
      <4>1. ASSUME NEW i \in 1 .. Len(Pipe) PROVE Pipe[i] = Len(played) + callback.nread + 0 + i
        <5>1. Pipe[i] = Len(played) + callback.b + i
          BY <1>0, <1>t DEF Undisturbed, Numbered
        <5>. QED  BY <5>1, <1>2, <1>3
      <4>. QED  BY <4>1, <1>5, <2>3
    <3>4. written = Len(played') + callback'.b + Len(Pipe) + Unwritten
      <4>1. written = Len(played) + callback.b + Len(Pipe) + Unwritten
        BY <1>0, <1>t DEF Undisturbed, Numbered
      <4>. QED  BY <4>1, <1>2, <1>3, <1>5, <2>3
    <3>. QED  BY <3>1, <3>2, <3>3, <3>4, <2>2, <1>t, <1>1 DEF Undisturbed, Numbered
  <2>. QED  BY <1>0, <1>1, <2>4, <2>5 DEF Undisturbed
<1>. QED  BY <1>6, <1>7 DEF AudioInv

LEMMA NextAudio == AudioInv /\ [AudioNext]_audioVars => AudioInv'
<1>. SUFFICES ASSUME AudioInv, [AudioNext]_audioVars PROVE AudioInv'
  OBVIOUS
<1>1. CASE UNCHANGED audioVars
  BY <1>1 DEF audioVars, AudioInv, AudioTypeOK, Undisturbed, Untouched, Counted, Numbered,
     Pipe, Pending, Unwritten
<1>2. CASE AudioNext
  BY <1>2, KeepAudioInit, KeepCtrl, KeepPlay, KeepWrite, KeepAddLoad, KeepAddStore, KeepTest,
     KeepAgain, KeepRead, KeepSubtractLoad, KeepSubtractStore
     DEF AudioNext, AudioStep, ProgramStep, CallbackStep
<1>. QED  BY <1>1, <1>2

(***************************************************************************)
(* Until an accident happens, the bytes in the stream, the pipe and the    *)
(* program's buffer continue what is played, and count is the bytes in the *)
(* pipe but for an addition or subtraction under way.                      *)
(***************************************************************************)
THEOREM AudioInductive == AudioSpec => []AudioInv
<1>1. AudioInitState => AudioInv
  BY InitAudio
<1>2. AudioInv /\ [AudioNext]_audioVars => AudioInv'
  BY NextAudio
<1>. QED  BY <1>1, <1>2, PTL DEF AudioSpec

(***************************************************************************)
(* The types of count, of the pipes and of the locals of audio_write and   *)
(* audio_play, also after an accident.                                     *)
(***************************************************************************)
THEOREM AudioTypeCorrect == AudioSpec => []AudioTypeOK
<1>1. AudioInv => AudioTypeOK
  BY DEF AudioInv
<1>. QED  BY <1>1, AudioInductive, PTL

(***************************************************************************)
(* SDL plays the bytes that the program wrote, in their order, none twice  *)
(* and none left out, until one of the accidents happens.                  *)
(***************************************************************************)
THEOREM SoundInOrder == AudioSpec => []PlayedInOrder
<1>1. AudioInv => PlayedInOrder
  BY FlowType DEF AudioInv, Undisturbed, Numbered, PlayedInOrder
<1>. QED  BY <1>1, AudioInductive, PTL
=============================================================================
