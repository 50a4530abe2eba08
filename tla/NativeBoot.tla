----------------------------- MODULE NativeBoot -----------------------------
(***************************************************************************)
(* How AM native starts its processors (mpe.c) and its devices (ioe.c).    *)
(*                                                                         *)
(* A processor is a Linux process that processor 0 forks.  The data        *)
(* section is mapped MAP_SHARED by platform.c, so that the processes share *)
(* the globals below.  The devices are initialised by whoever first does   *)
(* I/O and finds ioe_init_done false, and by mpe_init, which does not look *)
(* at ioe_init_done.                                                       *)
(***************************************************************************)
EXTENDS Naturals, Sequences, FiniteSets

CONSTANT MAX_CPU

ASSUME MaxCpuAssumption == MAX_CPU \in Nat \ {0}

Cpu == 0 .. MAX_CPU - 1

VARIABLES
    ncpu,            \* cpu_count(), from the environment
    has_ioe,         \* __am_has_ioe: the program has called ioe_init
    ioe_init_done,
    pc,              \* pc[p]: where processor p is
    sync_pipe,       \* bytes '+' in the pipe
    inits,           \* history: the processors that ran __am_ioe_init to its end
    announced,       \* history: has_ioe when mpe_init was called
    early,           \* history: ioe_init_done or begun when mpe_init was called
    halted

bootVars == <<ncpu, has_ioe, ioe_init_done, pc, sync_pipe, inits, announced,
              early, halted>>

Children == 1 .. ncpu - 1

\* "main" is the program before mpe_init, "entry" the program after it.
InProgram(p) == pc[p] \in {"main", "entry"}

BootInit ==
    /\ ncpu \in 1 .. MAX_CPU
    /\ has_ioe = FALSE /\ ioe_init_done = FALSE
    /\ pc = [p \in Cpu |-> IF p = 0 THEN "main" ELSE "none"]
    /\ sync_pipe = 0 /\ inits = <<>>
    /\ announced = FALSE /\ early = FALSE /\ halted = FALSE

Goto(p, label) == pc' = [pc EXCEPT ![p] = label]

\* ioe_init, which panics on other processors and after the devices.
IoeInit ==
    /\ InProgram(0) /\ ~ioe_init_done
    /\ has_ioe' = TRUE
    /\ UNCHANGED <<ncpu, ioe_init_done, pc, sync_pipe, inits, announced, early, halted>>

\* do_io that finds ioe_init_done false; __am_ioe_init begins.
StartIo(p) ==
    /\ InProgram(p) /\ ~ioe_init_done
    /\ Goto(p, IF pc[p] = "main" THEN "init_main" ELSE "init_entry")
    /\ UNCHANGED <<ncpu, has_ioe, ioe_init_done, sync_pipe, inits, announced, early, halted>>

\* The end of __am_ioe_init, back to its three callers.
FinishInit(p) ==
    /\ pc[p] \in {"init_main", "init_entry", "init_mpe"}
    /\ Goto(p, CASE pc[p] = "init_main" -> "main"
                 [] pc[p] = "init_entry" -> "entry"
                 [] pc[p] = "init_mpe" -> "release")
    /\ ioe_init_done' = TRUE
    /\ inits' = Append(inits, p)
    /\ UNCHANGED <<ncpu, has_ioe, sync_pipe, announced, early, halted>>

----------------------------------------------------------------------------
\* mpe_init

Mpe ==
    /\ pc[0] = "main"
    /\ Goto(0, "fork")
    /\ announced' = has_ioe /\ early' = ioe_init_done
    /\ UNCHANGED <<ncpu, has_ioe, ioe_init_done, sync_pipe, inits, halted>>

Fork(p) ==
    /\ pc[0] = "fork" /\ p \in Children
    /\ \A q \in 1 .. p : pc[q] = "none" <=> q = p
    /\ Goto(p, "wait")
    /\ UNCHANGED <<ncpu, has_ioe, ioe_init_done, sync_pipe, inits, announced, early, halted>>

\* if (__am_has_ioe) __am_ioe_init();
MpeDevices ==
    /\ pc[0] = "fork" /\ \A p \in Children : pc[p] # "none"
    /\ Goto(0, IF has_ioe THEN "init_mpe" ELSE "release")
    /\ UNCHANGED <<ncpu, has_ioe, ioe_init_done, sync_pipe, inits, announced, early, halted>>

\* A '+' for each child, then entry.  The children read them one by one, so that
\* it makes no difference that they are written together.
Release ==
    /\ pc[0] = "release"
    /\ sync_pipe' = Cardinality(Children)
    /\ Goto(0, "entry")
    /\ UNCHANGED <<ncpu, has_ioe, ioe_init_done, inits, announced, early, halted>>

\* (Mutated form: the child does not wait for its '+'.)
GoAtOnce(p) ==
    /\ pc[p] = "wait"
    /\ Goto(p, "entry")
    /\ UNCHANGED <<ncpu, has_ioe, ioe_init_done, sync_pipe, inits, announced, early, halted>>

Go(p) ==
    /\ pc[p] = "wait" /\ sync_pipe > 0
    /\ sync_pipe' = sync_pipe - 1
    /\ Goto(p, "entry")
    /\ UNCHANGED <<ncpu, has_ioe, ioe_init_done, inits, announced, early, halted>>

\* halt: kill(0, SIGKILL) ends every process; with a single one it is exit.
Exit ==
    /\ halted' = TRUE
    /\ UNCHANGED <<ncpu, has_ioe, ioe_init_done, pc, sync_pipe, inits, announced, early>>

Halt(p) == InProgram(p) /\ Exit

\* SDL_QUIT: an event thread of the initialised devices halts.
Quit == inits # <<>> /\ Exit

BootStep == Mpe \/ MpeDevices \/ Release \/ \E p \in Cpu : Fork(p) \/ Go(p)

BootNext ==
    /\ ~halted
    /\ \/ BootStep \/ IoeInit \/ Quit
       \/ \E p \in Cpu : StartIo(p) \/ FinishInit(p) \/ Halt(p)

BootSpec == BootInit /\ [][BootNext]_bootVars

----------------------------------------------------------------------------

BootTypeOK ==
    /\ ncpu \in 1 .. MAX_CPU
    /\ pc \in [Cpu -> {"none", "main", "fork", "wait", "release", "entry",
                       "init_main", "init_entry", "init_mpe"}]
    /\ sync_pipe \in 0 .. MAX_CPU - 1
    /\ inits \in Seq(Cpu)
    /\ {has_ioe, ioe_init_done, announced, early, halted} \subseteq BOOLEAN

Entered == {p \in Cpu : pc[p] \in {"entry", "init_entry"}}

(***************************************************************************)
(* A program that calls ioe_init before mpe_init finds the devices ready   *)
(* on every processor, and unless it did I/O in between they have been     *)
(* initialised once.                                                       *)
(***************************************************************************)
DevicesReadyOnce ==
    announced => /\ Entered # {} => ioe_init_done
                 /\ ~early => Len(inits) <= 1
=============================================================================
