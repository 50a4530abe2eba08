------------------------------- MODULE ApBoot -------------------------------
(***************************************************************************)
(* How AM on qemu starts the other processors and stops all of them:       *)
(* mpe_init, the path of an application processor through the boot record, *)
(* start.S, load_kernel, start64.S, _start_c and othercpu_entry, and halt. *)
(*                                                                         *)
(* An application processor comes up on the boot stack at 0xa000, and sets *)
(* its descriptors through statics of set_gdt and set_idt and through the  *)
(* index register of the IOAPIC.  There is one of each.                    *)
(***************************************************************************)
EXTENDS Naturals, Sequences, FiniteSets

CONSTANT N    \* __am_ncpu

ASSUME NAssumption == N \in Nat \ {0}

Cpu == 0 .. N - 1

VARIABLES
    jmp_code,    \* what the boot record makes a processor do: jmp 0x7c00, jmp .
    is_ap,       \* the flag in the boot record
    ap_ready,
    pc,          \* pc[p]: where processor p is
    cpu,         \* cpu[p]: the loop variable of p in mpe_init or in stop_the_world
    ipi,         \* ipi[p]: interrupts sent to p and not yet received
    halts,       \* history: the processors that called halt
    power        \* FALSE after the write to port 0x604

apVars == <<jmp_code, is_ap, ap_ready, pc, cpu, ipi, halts, power>>

\* Processor 0 has booted and is in main; the others wait for a SIPI.
ApInit ==
    /\ jmp_code = "none" /\ is_ap = 0 /\ ap_ready = 0
    /\ pc = [p \in Cpu |-> IF p = 0 THEN "main" ELSE "sipi"]
    /\ cpu = [p \in Cpu |-> 0]
    /\ ipi = [p \in Cpu |-> <<>>]
    /\ halts = {} /\ power = TRUE

Goto(p, label) == pc' = [pc EXCEPT ![p] = label]

\* (Mutated form: the loops over the processors take one turn too many.)
MoreThanAll(p) == cpu[p] <= N

\* The condition of the loops over the processors.
More(p) == cpu[p] < N

\* __am_lapic_bootap
Bootap(p) == ipi' = [ipi EXCEPT ![p] = @ \o <<"INIT", "SIPI", "SIPI">>]

----------------------------------------------------------------------------
\* mpe_init, on processor 0

MpeInit ==
    /\ pc[0] = "main"
    /\ jmp_code' = "boot"
    /\ cpu' = [cpu EXCEPT ![0] = 1]
    /\ Goto(0, "next")
    /\ UNCHANGED <<is_ap, ap_ready, ipi, halts, power>>

Kick ==
    /\ pc[0] = "next" /\ More(0)
    /\ is_ap' = 1
    /\ Bootap(cpu[0])
    /\ Goto(0, "spin")
    /\ UNCHANGED <<jmp_code, ap_ready, cpu, halts, power>>

\* (Mutated form: the loop goes on whatever ap_ready was.)
NotWaited == TRUE

\* while (xchg(&ap_ready, 0) != 1): a turn that finds 0 changes nothing.
Waited == ap_ready = 1

Spin ==
    /\ pc[0] = "spin" /\ Waited
    /\ ap_ready' = 0
    /\ cpu' = [cpu EXCEPT ![0] = @ + 1]
    /\ Goto(0, "next")
    /\ UNCHANGED <<jmp_code, is_ap, ipi, halts, power>>

EnterUser ==
    /\ pc[0] = "next" /\ ~More(0)
    /\ Goto(0, "user")
    /\ UNCHANGED <<jmp_code, is_ap, ap_ready, cpu, ipi, halts, power>>

----------------------------------------------------------------------------
\* A processor that has been reset

(***************************************************************************)
(* INIT is taken at once, whatever p does, and makes an application        *)
(* processor wait for a SIPI; processor 0 goes through the BIOS, which     *)
(* finds the boot record through the warm-reset vector.  A SIPI that       *)
(* nobody waits for is lost.                                               *)
(***************************************************************************)
Receive(p) ==
    /\ ipi[p] # <<>>
    /\ ipi' = [ipi EXCEPT ![p] = Tail(@)]
    /\ LET waiting == pc[p] = "sipi"
       IN  CASE Head(ipi[p]) = "INIT" -> Goto(p, IF p = 0 THEN "record" ELSE "sipi")
             [] Head(ipi[p]) = "SIPI" /\ waiting -> Goto(p, "record")
             [] Head(ipi[p]) = "SIPI" /\ ~waiting -> UNCHANGED pc
    /\ UNCHANGED <<jmp_code, is_ap, ap_ready, cpu, halts, power>>

\* The jump in the boot record.
Record(p) ==
    /\ pc[p] = "record"
    /\ Goto(p, IF jmp_code = "loop" THEN "loop" ELSE "boot")
    /\ UNCHANGED <<jmp_code, is_ap, ap_ready, cpu, ipi, halts, power>>

\* start.S takes the boot stack; load_kernel has nothing to load for an
\* application processor.
LoadKernel(p) ==
    /\ pc[p] = "boot"
    /\ Goto(p, IF is_ap = 1 THEN "start" ELSE "reload")
    /\ UNCHANGED <<jmp_code, is_ap, ap_ready, cpu, ipi, halts, power>>

\* start64.S, _start_c, __am_othercpu_entry: over to the processor's own stack.
StartC(p) ==
    /\ pc[p] = "start"
    /\ Goto(p, IF is_ap = 1 THEN "percpu" ELSE "reload")
    /\ UNCHANGED <<jmp_code, is_ap, ap_ready, cpu, ipi, halts, power>>

\* __am_percpu_init
PercpuInit(p) ==
    /\ pc[p] = "percpu"
    /\ Goto(p, "ready")
    /\ UNCHANGED <<jmp_code, is_ap, ap_ready, cpu, ipi, halts, power>>

\* (Mutated form: ap_ready is forgotten.)
ReadyUnsaid(p) ==
    /\ pc[p] = "ready"
    /\ Goto(p, "user")
    /\ UNCHANGED <<jmp_code, is_ap, ap_ready, cpu, ipi, halts, power>>

\* xchg(&ap_ready, 1), and the user's entry.
Ready(p) ==
    /\ pc[p] = "ready"
    /\ ap_ready' = 1
    /\ Goto(p, "user")
    /\ UNCHANGED <<jmp_code, is_ap, cpu, ipi, halts, power>>

----------------------------------------------------------------------------
\* halt

\* cli, and the first line of __am_stop_the_world.
Halt(p) ==
    /\ pc[p] \in {"main", "user"}
    /\ jmp_code' = "loop"
    /\ halts' = halts \cup {p}
    /\ cpu' = [cpu EXCEPT ![p] = 0]
    /\ Goto(p, "stop")
    /\ UNCHANGED <<is_ap, ap_ready, ipi, power>>

\* (Mutated form: the processor does not spare itself.)
Everybody(p) == TRUE

Others(p) == cpu[p] # p

StopOne(p) ==
    /\ pc[p] = "stop" /\ More(p)
    /\ IF Others(p) THEN Bootap(cpu[p]) ELSE UNCHANGED ipi
    /\ cpu' = [cpu EXCEPT ![p] = @ + 1]
    /\ UNCHANGED <<jmp_code, is_ap, ap_ready, pc, halts, power>>

PowerOff(p) ==
    /\ pc[p] = "stop" /\ ~More(p)
    /\ power' = FALSE
    /\ Goto(p, "hlt")
    /\ UNCHANGED <<jmp_code, is_ap, ap_ready, cpu, ipi, halts>>

\* A step that p takes by itself.
Step(p) ==
    \/ p = 0 /\ (MpeInit \/ Kick \/ Spin \/ EnterUser)
    \/ Record(p) \/ LoadKernel(p) \/ StartC(p) \/ PercpuInit(p) \/ Ready(p)
    \/ StopOne(p) \/ PowerOff(p)

ApNext == power /\ \E p \in Cpu : Step(p) \/ Receive(p) \/ Halt(p)

ApSpec == ApInit /\ [][ApNext]_apVars

----------------------------------------------------------------------------

ApTypeOK ==
    /\ jmp_code \in {"none", "boot", "loop"}
    /\ is_ap \in 0 .. 1 /\ ap_ready \in 0 .. 1
    /\ pc \in [Cpu -> {"main", "next", "spin", "user", "sipi", "record", "boot", "start",
                       "percpu", "ready", "reload", "loop", "stop", "hlt"}]
    /\ cpu \in [Cpu -> 0 .. N]
    /\ ipi \in [Cpu -> Seq({"INIT", "SIPI"})]
    /\ halts \subseteq Cpu /\ power \in BOOLEAN

Setup == {"boot", "start", "percpu", "ready"}

(***************************************************************************)
(* The boot stack and the statics behind set_gdt and set_idt have one user *)
(* at a time: processor 0 resets no other processor before the last one    *)
(* has said that it is ready, and a processor reset by halt never gets to  *)
(* the boot stack.  Nobody loads the kernel a second time.                 *)
(***************************************************************************)
BootStackExclusive ==
    /\ \A p, q \in Cpu : pc[p] \in Setup /\ pc[q] \in Setup => p = q
    /\ \A p \in Cpu : pc[p] # "reload"

(***************************************************************************)
(* mpe_init gets every processor to the user's entry, unless one halts.    *)
(***************************************************************************)
AllEnter ==
    pc[0] = "next" ~> (halts # {} \/ \A p \in Cpu : pc[p] = "user")

(***************************************************************************)
(* A processor that calls halt switches the machine off, unless another    *)
(* one calls halt too and resets it on its way there.                      *)
(***************************************************************************)
HaltPowersOff == halts # {} ~> (~power \/ Cardinality(halts) > 1)
=============================================================================
