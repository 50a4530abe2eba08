------------------------------- MODULE Native -------------------------------
(***************************************************************************)
(* AM native put together: the processors start (NativeBoot), whoever      *)
(* initialises the devices makes the event thread of the keyboard          *)
(* (KeyRing) and the pipe of the sound (Audio), and processors that run    *)
(* the program switch between its address spaces (PageMaps).  workload     *)
(* says what the program is: src/kernel, which asks for keys until Escape  *)
(* is pressed, a program that plays sound, a kernel with address spaces,   *)
(* or one that does some I/O on every processor.                           *)
(***************************************************************************)
EXTENDS NativeBoot, KeyRing, Audio, PageMaps

CONSTANT Escape    \* AM_KEY_ESCAPE, pressed

VARIABLE workload

nativeVars == <<bootVars, keyVars, audioVars, vmVars, workload>>

Workloads == {"keys", "audio", "memory", "boot"}

NativeInit ==
    /\ BootInit /\ KeyInit /\ AudioInitState /\ PageMapsInit
    /\ workload \in Workloads
    /\ ncpu = CASE workload = "boot" -> MAX_CPU
                [] workload = "memory" -> Cardinality(Processors)
                [] OTHER -> 1

\* The program on processor 0 does I/O and finds the devices initialised.
IoReady == pc[0] \in {"main", "entry"} /\ ioe_init_done

\* __am_ioe_init ends: a new mutex and event thread, a new pipe.
InitDevices(p) ==
    /\ FinishInit(p)
    /\ IF workload = "keys" THEN ~misused /\ InputInit ELSE UNCHANGED keyVars
    /\ IF workload = "audio" THEN AudioInit ELSE UNCHANGED audioVars
    /\ UNCHANGED <<vmVars, workload>>

\* No task and no program is in the middle of a read or a write of its own.
Idle == player.pc = "idle" /\ \A t \in Tasks : task[t].pc = "client"

Start ==
    /\ Idle
    /\ \/ BootStep
       \/ workload # "memory" /\ (IoeInit \/ StartIo(0))
       \/ workload = "boot" /\ \E p \in Cpu : StartIo(p) \/ Halt(p)
    /\ UNCHANGED <<keyVars, audioVars, vmVars, workload>>

(***************************************************************************)
(* An ioe_read of the keyboard ends, and a program like src/kernel, whose  *)
(* print_key it is (kernel.c:120022), calls halt if it has read Escape.    *)
(***************************************************************************)
PrintKey(t) ==
    /\ ReadUnlock(t)
    /\ IF task[t].key = Escape THEN Halt(0) ELSE UNCHANGED bootVars

\* The ioe_read before that.
Poll(t) == ReadLock(t) \/ ReadLook(t) \/ ReadTake(t)

\* do_io finds the devices initialised and calls their handler.
KernelStep(t) ==
    /\ workload = "keys" /\ IoReady /\ ~misused
    /\ (Poll(t) /\ UNCHANGED bootVars) \/ PrintKey(t)
    /\ UNCHANGED <<audioVars, vmVars, workload>>

KeyboardStep(m) ==
    /\ workload = "keys" /\ ~misused
    /\ EventStep(m) \/ \E k \in Keys : KeyEvent(m, k)
    /\ UNCHANGED <<bootVars, audioVars, vmVars, workload>>

\* event_thread finds that the user has closed the window: SDL_QUIT.
CloseWindow(m) ==
    /\ workload = "keys" /\ ~misused /\ thread[m].pc = "wait"
    /\ Quit
    /\ UNCHANGED <<keyVars, audioVars, vmVars, workload>>

TaskSwitch(t) ==
    /\ workload = "keys" /\ ~misused
    /\ InProgram(0)
    /\ Preempt(t)
    /\ UNCHANGED <<bootVars, audioVars, vmVars, workload>>

SoundStep ==
    /\ workload = "audio" /\ faults = {}
    /\ \/ IoReady /\ (ProgramStep \/ Ctrl \/ \E len \in Lengths : Play(len))
       \/ CallbackStep
    /\ UNCHANGED <<bootVars, keyVars, vmVars, workload>>

\* The kernel with address spaces waits for all its processors.
MemoryStep(p) ==
    /\ workload = "memory" /\ \A q \in Processors : pc[q] = "entry"
    /\ VmStep(p)
    /\ UNCHANGED <<bootVars, keyVars, audioVars, workload>>

NativeNext ==
    /\ ~halted
    /\ \/ Start \/ \E p \in Cpu : InitDevices(p)
       \/ \E t \in Tasks : KernelStep(t) \/ TaskSwitch(t)
       \/ \E m \in Threads : KeyboardStep(m) \/ CloseWindow(m)
       \/ SoundStep
       \/ \E p \in Processors : MemoryStep(p)

NativeSpec == NativeInit /\ [][NativeNext]_nativeVars

(***************************************************************************)
(* Linux runs every process and thread that can run.  SDL_LockMutex lets a *)
(* thread in sooner or later when the mutex is free again and again.       *)
(***************************************************************************)
NativeFairness ==
    /\ WF_nativeVars(~halted /\ ~InProgram(0) /\ (Start \/ InitDevices(0)))
    /\ WF_nativeVars(~halted /\ \E t \in Tasks : KernelStep(t))
    /\ \A m \in Threads : SF_nativeVars(~halted /\ thread[m].pc # "wait" /\ KeyboardStep(m))
    /\ WF_nativeVars(~halted /\ SoundStep /\ ProgramStep)
    /\ WF_nativeVars(~halted /\ SoundStep /\ CallbackStep)
    /\ \A p \in Processors : WF_nativeVars(~halted /\ MemoryStep(p) /\ SwitchStep(p))

----------------------------------------------------------------------------

NativeTypeOK ==
    /\ BootTypeOK /\ KeyTypeOK /\ AudioTypeOK /\ PageMapsTypeOK
    /\ workload \in Workloads
=============================================================================
