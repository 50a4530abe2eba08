-------------------------------- MODULE Qemu --------------------------------
(***************************************************************************)
(* AM on qemu put together: processors that ApBoot has brought to the      *)
(* user's entry run a kernel with address spaces (PageTables), or ask for  *)
(* the time (Rtc) while processor 0 still starts others through the same   *)
(* CMOS ports, or draw (Display), or halt.  workload says which of them    *)
(* the program is.                                                         *)
(***************************************************************************)
EXTENDS ApBoot, PageTables, Rtc, Display

VARIABLE workload

qemuVars == <<apVars, tableVars, rtcVars, drawVars, workload>>

Workloads == {"boot", "memory", "clock", "draw"}

QemuInit ==
    /\ ApInit /\ TablesInit /\ RtcInit /\ DisplayInit
    /\ workload \in Workloads

Running(p) == pc[p] = "user"

\* Processor 0 begins to start another one, with a write to a CMOS port.
Choose ==
    /\ workload = "clock" /\ pc[0] = "next" /\ More(0)
    /\ ChooseShutdown
    /\ UNCHANGED <<apVars, tableVars, drawVars, workload>>

\* src/kernel, which draws, does not start the other processors.
BootStep(p) ==
    /\ power /\ workload # "draw"
    /\ Step(p) \/ Receive(p) \/ (workload = "boot" /\ Halt(p))
    /\ IF workload = "clock" /\ p = 0 /\ Kick THEN WriteShutdown ELSE UNCHANGED rtcVars
    /\ UNCHANGED <<tableVars, drawVars, workload>>

\* The kernel with address spaces waits for all its processors; the SIPIs that
\* are still on their way and change nothing are left out of its way.
MemoryStep(p) ==
    /\ workload = "memory" /\ \A q \in Cpu : pc[q] = "user" /\ ipi[q] = <<>>
    /\ \/ Trap(p)
       \/ \E as \in Spaces : Protect(p, as) \/ Unprotect(p, as) \/ Return(p, as)
       \/ \E as \in Spaces, va \in Va :
             Unmap(p, as, va) \/ \E pa \in Pas : Map(p, as, va, pa)
       \/ \E va \in Va : Access(p, va)
    /\ UNCHANGED <<apVars, rtcVars, drawVars, workload>>

ClockStep ==
    /\ workload = "clock" /\ ~shared
    /\ \/ Tick
       \/ \E p \in Readers : Running(p) /\ (StartRtc(p) \/ Out(p) \/ In(p))
    /\ UNCHANGED <<apVars, tableVars, drawVars, workload>>

\* ioe_write calls gpu_fbdraw.
DrawStep ==
    /\ workload = "draw"
    /\ DisplayNext
    /\ UNCHANGED <<apVars, tableVars, rtcVars, workload>>

QemuNext ==
    \/ \E p \in Cpu : BootStep(p)
    \/ Choose
    \/ \E p \in Processors : MemoryStep(p)
    \/ ClockStep
    \/ DrawStep

QemuSpec == QemuInit /\ [][QemuNext]_qemuVars

(***************************************************************************)
(* Every processor that can take a step takes one sooner or later, and     *)
(* every interrupt that was sent arrives.                                  *)
(***************************************************************************)
QemuFairness ==
    /\ WF_qemuVars(Choose)
    /\ \A p \in Cpu : /\ WF_qemuVars(BootStep(p) /\ Step(p))
                      /\ WF_qemuVars(BootStep(p) /\ Receive(p))

----------------------------------------------------------------------------

QemuTypeOK ==
    /\ ApTypeOK /\ TablesTypeOK /\ RtcTypeOK /\ DisplayTypeOK
    /\ workload \in Workloads
=============================================================================
