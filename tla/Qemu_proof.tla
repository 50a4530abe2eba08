----------------------------- MODULE Qemu_proof -----------------------------
(***************************************************************************)
(* Theorems about the start of the processors on qemu (ApBoot): the boot   *)
(* stack has one user at a time, for any number of processors.  And about  *)
(* Qemu: what holds of the parts holds of them put together, as every step *)
(* of the composition is a step of each part, or leaves it alone.          *)
(***************************************************************************)
EXTENDS Qemu, QemuParts_proof

NoInit(q) == \A i \in 1 .. Len(ipi[q]) : ipi[q][i] # "INIT"

\* Only the first interrupt on its way to q may be an INIT.
InitFirst(q) == \A i \in 1 .. Len(ipi[q]) : ipi[q][i] = "INIT" => i = 1

\* Before mpe_init.
Asleep ==
    /\ pc[0] = "main" /\ ap_ready = 0
    /\ \A q \in Cpu : ipi[q] = <<>> /\ (q # 0 => pc[q] = "sipi")

\* The processor that processor 0 has reset.
Coming(q) ==
    /\ pc[q] \in Setup \cup {"sipi", "record", "user"}
    /\ InitFirst(q)
    /\ pc[q] # "sipi" => NoInit(q)
    /\ ap_ready = 1 => pc[q] = "user"

\* In mpe_init and after it, until somebody halts.
Booting ==
    /\ pc[0] \in {"next", "spin", "user"} /\ cpu[0] \in 1 .. N
    /\ ipi[0] = <<>>
    /\ pc[0] = "spin" => is_ap = 1 /\ cpu[0] < N /\ Coming(cpu[0])
    /\ pc[0] # "spin" => ap_ready = 0
    /\ pc[0] = "user" => cpu[0] = N
    /\ \A q \in Cpu \ {0} :
         /\ q < cpu[0] => pc[q] = "user" /\ NoInit(q)
         /\ q > cpu[0] \/ (q = cpu[0] /\ pc[0] = "next") => pc[q] = "sipi" /\ ipi[q] = <<>>

\* When somebody has halted: nobody comes to the boot stack any more.
Stopping ==
    /\ pc[0] # "main"
    /\ \A q \in Cpu : pc[q] \in Setup => is_ap = 1
    /\ BootStackExclusive

ApInv ==
    /\ ApTypeOK
    /\ pc[0] = "spin" => cpu[0] < N
    /\ jmp_code = "none" => Asleep
    /\ jmp_code = "boot" => Booting
    /\ jmp_code = "loop" => Stopping

----------------------------------------------------------------------------

LEMMA ZeroIsCpu == 0 \in Cpu /\ \A q \in Cpu : q \in Nat /\ q < N
BY NAssumption DEF Cpu

LEMMA InitApInv == ApInit => ApInv
BY NAssumption, ZeroIsCpu
   DEF ApInit, ApInv, ApTypeOK, Asleep

\* In mpe_init the exclusion follows from where processor 0 is.
LEMMA BootingExcludes ==
    ASSUME ApTypeOK, Booting
    PROVE  /\ BootStackExclusive
           /\ \A q \in Cpu : pc[q] \in Setup => is_ap = 1
<1>1. ASSUME NEW q \in Cpu, pc[q] \in Setup \cup {"reload"}
      PROVE  q = cpu[0] /\ pc[0] = "spin" /\ pc[q] # "reload"
  <2>1. q # 0
    BY <1>1 DEF Booting, Setup
  <2>2. ~(q < cpu[0]) /\ ~(q > cpu[0])
    BY <1>1, <2>1 DEF Booting, Setup
  <2>3. q = cpu[0]
    BY <2>2, ZeroIsCpu DEF Booting
  <2>4. pc[0] = "spin"
    BY <2>3, <2>1, <1>1, ZeroIsCpu DEF Booting, Setup
  <2> QED
    BY <2>3, <2>4, <1>1 DEF Booting, Coming, Setup
<1> QED
  BY <1>1 DEF BootStackExclusive, Booting

LEMMA ReceiveOne ==
    ASSUME NEW s \in Seq({"INIT", "SIPI"}), s # <<>>
    PROVE  /\ Tail(s) \in Seq({"INIT", "SIPI"}) /\ Len(Tail(s)) = Len(s) - 1
           /\ Head(s) \in {"INIT", "SIPI"} /\ Head(s) = s[1]
           /\ \A i \in 1 .. Len(Tail(s)) : Tail(s)[i] = s[i + 1] /\ i + 1 \in 1 .. Len(s)
           /\ 1 \in 1 .. Len(s)
OBVIOUS

LEMMA BootapThree ==
    ASSUME NEW s \in Seq({"INIT", "SIPI"})
    PROVE  /\ s \o <<"INIT", "SIPI", "SIPI">> \in Seq({"INIT", "SIPI"})
           /\ s = <<>> => \A i \in 1 .. Len(s \o <<"INIT", "SIPI", "SIPI">>) :
                             (s \o <<"INIT", "SIPI", "SIPI">>)[i] = "INIT" => i = 1
<1>1. <<"INIT", "SIPI", "SIPI">> \in Seq({"INIT", "SIPI"})
  OBVIOUS
<1> QED
  BY <1>1

----------------------------------------------------------------------------
\* One lemma for each step.

LEMMA MpeInitKeeps == ASSUME ApInv, MpeInit PROVE ApInv'
<1> USE DEF MpeInit, Goto, ApInv
<1>1. Asleep
  BY ZeroIsCpu DEF ApTypeOK, Booting, Stopping
<1>2. ApTypeOK' /\ jmp_code' = "boot" /\ pc'[0] = "next" /\ cpu'[0] = 1 /\ 1 \in 1 .. N
  BY ZeroIsCpu, NAssumption DEF ApTypeOK
<1>3. \A q \in Cpu \ {0} : pc'[q] = "sipi" /\ ipi'[q] = <<>> /\ ~(q < 1)
  BY <1>1, ZeroIsCpu DEF Asleep, ApTypeOK
<1>4. Booting'
  BY <1>1, <1>2, <1>3, ZeroIsCpu DEF Booting, Asleep
<1> QED
  BY <1>2, <1>4

LEMMA KickKeeps == ASSUME ApInv, Kick PROVE ApInv'
<1> USE DEF Kick, ApInv, Goto, Bootap, More
<1>0. cpu[0] \in Nat /\ \A q \in Cpu : ipi[q] \in Seq({"INIT", "SIPI"})
  BY ZeroIsCpu DEF ApTypeOK
<1>1. ApTypeOK'
  <2>1. \A q \in Cpu : ipi'[q] \in Seq({"INIT", "SIPI"})
    BY <1>0, BootapThree DEF ApTypeOK
  <2>2. ipi' \in [Cpu -> Seq({"INIT", "SIPI"})]
    BY <2>1 DEF ApTypeOK
  <2>3. pc' \in [Cpu -> {"main", "next", "spin", "user", "sipi", "record", "boot", "start",
                        "percpu", "ready", "reload", "loop", "stop", "hlt"}]
    BY ZeroIsCpu DEF ApTypeOK
  <2>4. is_ap' = 1 /\ UNCHANGED <<jmp_code, ap_ready, cpu, halts, power>>
    OBVIOUS
  <2> HIDE DEF Kick, Goto, Bootap
  <2> QED
    BY <2>2, <2>3, <2>4 DEF ApTypeOK
<1>2. pc'[0] = "spin" /\ cpu'[0] < N /\ jmp_code' = jmp_code /\ jmp_code # "none"
  BY ZeroIsCpu DEF ApTypeOK, Asleep
<1>3. ASSUME jmp_code = "boot" PROVE Booting'
  <2>1. cpu[0] \in Cpu \ {0} /\ pc[cpu[0]] = "sipi" /\ ipi[cpu[0]] = <<>>
    BY <1>3, NAssumption DEF Booting, Cpu
  <2>2. InitFirst(cpu[0])'
    BY <2>1, <1>0, BootapThree DEF InitFirst, ApTypeOK
  <2>3. pc'[cpu[0]] = "sipi" /\ ap_ready' = 0 /\ ipi'[0] = <<>>
    BY <2>1, <1>3, ZeroIsCpu DEF ApTypeOK, Booting
  <2>4. Coming(cpu[0])'
    BY <2>2, <2>3, <1>2 DEF Coming, InitFirst, NoInit
  <2>5. \A q \in Cpu \ {0, cpu[0]} : pc'[q] = pc[q] /\ ipi'[q] = ipi[q]
    BY DEF ApTypeOK
  <2>6. \A q \in Cpu \ {0} :
           /\ q < cpu[0] => pc'[q] = "user" /\ NoInit(q)'
           /\ q > cpu[0] => pc'[q] = "sipi" /\ ipi'[q] = <<>>
    BY <2>5, <1>3, <1>0, ZeroIsCpu DEF Booting, NoInit
  <2> QED
    BY <2>1, <2>3, <2>4, <2>6, <1>3, <1>2 DEF Booting
<1>4. ASSUME jmp_code = "loop" PROVE Stopping'
  BY <1>4, ZeroIsCpu DEF Stopping, BootStackExclusive, Setup, ApTypeOK
<1> HIDE DEF Kick, Bootap
<1> QED
  BY <1>1, <1>2, <1>3, <1>4

LEMMA SpinKeeps == ASSUME ApInv, Spin PROVE ApInv'
<1> USE DEF Spin, Waited, ApInv, Goto
<1>1. ApTypeOK' /\ pc'[0] = "next" /\ jmp_code' = jmp_code /\ jmp_code # "none"
  BY ZeroIsCpu, NAssumption DEF ApTypeOK, Asleep
<1>2. ASSUME jmp_code = "boot" PROVE Booting'
  <2>1. cpu[0] \in Cpu \ {0} /\ pc[cpu[0]] = "user" /\ NoInit(cpu[0])
    BY <1>2, NAssumption DEF Booting, Cpu, Coming
  <2>2. cpu'[0] = cpu[0] + 1 /\ cpu'[0] \in 1 .. N /\ ipi'[0] = <<>> /\ ap_ready' = 0
    BY <1>2, ZeroIsCpu, NAssumption DEF Booting, ApTypeOK
  <2>3. \A q \in Cpu \ {0} : pc'[q] = pc[q] /\ ipi'[q] = ipi[q]
    BY DEF ApTypeOK
  <2>4. \A q \in Cpu \ {0} : q < cpu[0] + 1 => pc'[q] = "user" /\ NoInit(q)'
    BY <2>1, <2>3, <1>2, ZeroIsCpu DEF Booting, NoInit
  <2>5. \A q \in Cpu \ {0} : q >= cpu[0] + 1 => pc'[q] = "sipi" /\ ipi'[q] = <<>>
    BY <2>1, <2>3, <1>2, ZeroIsCpu DEF Booting
  <2> QED
    BY <2>2, <2>4, <2>5, <1>1, ZeroIsCpu DEF Booting
<1>3. ASSUME jmp_code = "loop" PROVE Stopping'
  BY <1>3, ZeroIsCpu DEF Stopping, BootStackExclusive, Setup, ApTypeOK
<1> QED
  BY <1>1, <1>2, <1>3

LEMMA EnterUserKeeps == ASSUME ApInv, EnterUser PROVE ApInv'
<1> USE DEF EnterUser, More, ApInv, Goto
<1>1. ApTypeOK' /\ pc'[0] = "user" /\ jmp_code' = jmp_code /\ jmp_code # "none"
  BY ZeroIsCpu DEF ApTypeOK, Asleep
<1>2. ASSUME jmp_code = "boot" PROVE Booting'
  <2>1. cpu[0] = N /\ ipi'[0] = <<>> /\ ap_ready' = 0
    BY <1>2, NAssumption DEF Booting
  <2>2. \A q \in Cpu \ {0} : pc'[q] = "user" /\ NoInit(q)' /\ q < N
    BY <2>1, <1>2, ZeroIsCpu DEF Booting, NoInit, ApTypeOK
  <2> QED
    BY <2>1, <2>2, <1>1, NAssumption, ZeroIsCpu DEF Booting
<1>3. ASSUME jmp_code = "loop" PROVE Stopping'
  BY <1>3, ZeroIsCpu DEF Stopping, BootStackExclusive, Setup, ApTypeOK
<1> QED
  BY <1>1, <1>2, <1>3

LEMMA ReceiveKeeps == ASSUME ApInv, NEW p \in Cpu, Receive(p) PROVE ApInv'
<1> DEFINE s == ipi[p]
<1> USE DEF Receive, ApInv, Goto
<1>0. /\ \A q \in Cpu : ipi[q] \in Seq({"INIT", "SIPI"})
      /\ s \in Seq({"INIT", "SIPI"}) /\ s # <<>>
  BY DEF ApTypeOK
<1>1. /\ ipi' \in [Cpu -> Seq({"INIT", "SIPI"})]
      /\ ipi'[p] = Tail(s) /\ \A q \in Cpu \ {p} : ipi'[q] = ipi[q]
  BY <1>0, ReceiveOne DEF ApTypeOK
<1>2. /\ \A q \in Cpu \ {p} : pc'[q] = pc[q]
      /\ Head(s) = "INIT" => pc'[p] = IF p = 0 THEN "record" ELSE "sipi"
      /\ Head(s) = "SIPI" => pc'[p] = IF pc[p] = "sipi" THEN "record" ELSE pc[p]
      /\ pc' \in [Cpu -> {"main", "next", "spin", "user", "sipi", "record", "boot", "start",
                       "percpu", "ready", "reload", "loop", "stop", "hlt"}]
  BY <1>0, ReceiveOne DEF ApTypeOK
<1>3. UNCHANGED <<jmp_code, is_ap, ap_ready, cpu, halts, power>>
  OBVIOUS
<1> HIDE DEF Receive, Goto
<1>4. ApTypeOK' /\ jmp_code # "none" /\ (pc'[0] = "spin" => cpu'[0] < N)
  <2>1. jmp_code # "none"
    BY <1>0 DEF Asleep
  <2>2. pc'[0] = "spin" => pc[0] = "spin"
    BY <1>2, <1>0, ReceiveOne, ZeroIsCpu
  <2> QED
    BY <1>1, <1>2, <1>3, <2>1, <2>2 DEF ApTypeOK
<1>5. ASSUME jmp_code = "boot" PROVE Booting'
  <2>1. p # 0 /\ pc'[0] = pc[0] /\ ipi'[0] = <<>>
    BY <1>5, <1>0, <1>1, <1>2, ZeroIsCpu DEF Booting
  <2>2. ~(p > cpu[0]) /\ ~(p = cpu[0] /\ pc[0] = "next")
    BY <1>5, <1>0, <2>1 DEF Booting
  <2>3. ASSUME NEW q \in Cpu, NoInit(q) PROVE NoInit(q)'
    <3>1. CASE q = p
      <4>1. \A i \in 1 .. Len(Tail(s)) : Tail(s)[i] = s[i + 1] /\ i + 1 \in 1 .. Len(s)
        BY <1>0, ReceiveOne
      <4>2. ipi'[q] = Tail(s) /\ \A i \in 1 .. Len(s) : s[i] # "INIT"
        BY <3>1, <2>3, <1>1 DEF NoInit
      <4> HIDE DEF s
      <4> QED
        BY <4>1, <4>2 DEF NoInit
    <3>2. CASE q # p
      BY <3>2, <2>3, <1>1 DEF NoInit
    <3> QED
      BY <3>1, <3>2
  <2>4. ASSUME NoInit(p) PROVE Head(s) = "SIPI"
    BY <2>4, <1>0, ReceiveOne DEF NoInit
  <2>5. ASSUME pc[0] = "spin" PROVE Coming(cpu[0])'
    <3>0. cpu' = cpu
      BY <1>3
    <3>1. CASE p = cpu[0]
      <4>1. Coming(p)
        BY <3>1, <2>5, <1>5 DEF Booting
      <4>2. NoInit(p)'
        BY <4>1, <1>0, <1>1, ReceiveOne DEF Coming, InitFirst, NoInit
      <4>3. pc[p] # "sipi" => Head(s) = "SIPI"
        BY <4>1, <2>4 DEF Coming
      <4>4. pc'[p] \in Setup \cup {"sipi", "record", "user"} /\ (ap_ready' = 1 => pc'[p] = "user")
        BY <4>1, <4>3, <1>2, <1>3, <1>0, <2>1, ReceiveOne DEF Coming
      <4>5. ipi'[p] \in Seq({"INIT", "SIPI"}) /\ InitFirst(p)'
        BY <4>2, <1>0, <1>1, ReceiveOne DEF InitFirst, NoInit
      <4>6. Coming(p)'
        BY <4>2, <4>4, <4>5 DEF Coming
      <4> QED
        BY ONLY <4>6, <3>0, <3>1 DEF Coming, InitFirst, NoInit
    <3>2. CASE p # cpu[0]
      <4>1. cpu[0] \in Cpu \ {p}
        BY <3>2, <2>5, <1>5, ZeroIsCpu, NAssumption DEF Cpu, Booting
      <4> QED
        BY <4>1, <1>1, <1>2, <1>3, <1>5, <2>5 DEF Booting, Coming, InitFirst, NoInit
    <3> QED
      BY <3>1, <3>2
  <2>6. ASSUME NEW q \in Cpu \ {0}, q < cpu[0] PROVE pc'[q] = "user" /\ NoInit(q)'
    BY <2>6, <2>3, <2>4, <1>5, <1>2 DEF Booting
  <2>7. ASSUME NEW q \in Cpu \ {0}, q > cpu[0] \/ (q = cpu[0] /\ pc[0] = "next")
        PROVE  pc'[q] = "sipi" /\ ipi'[q] = <<>>
    BY <2>7, <2>2, <1>5, <1>2, <1>1 DEF Booting
  <2> QED
    BY <2>1, <2>5, <2>6, <2>7, <1>3, <1>5 DEF Booting
<1>6. ASSUME jmp_code = "loop" PROVE Stopping'
  <2>1. \A q \in Cpu : pc'[q] \in Setup \cup {"reload", "main"} => pc'[q] = pc[q]
    BY <1>2, <1>0, ReceiveOne DEF Setup
  <2> QED
    BY <2>1, <1>3, <1>6, ZeroIsCpu DEF Stopping, BootStackExclusive
<1> QED
  BY <1>3, <1>4, <1>5, <1>6

\* The ways of a processor p from the boot record to the user's entry.
Climb(p) == Record(p) \/ LoadKernel(p) \/ StartC(p) \/ PercpuInit(p) \/ Ready(p)

LEMMA ClimbKeeps == ASSUME ApInv, NEW p \in Cpu, Climb(p) PROVE ApInv'
<1> USE DEF ApInv
<1>1. /\ ApTypeOK' /\ UNCHANGED <<jmp_code, is_ap, cpu, ipi, halts, power>>
      /\ pc[p] \in Setup \cup {"record"}
      /\ \A q \in Cpu \ {p} : pc'[q] = pc[q]
  <2>1. /\ UNCHANGED <<jmp_code, is_ap, cpu, ipi, halts, power>>
        /\ pc[p] \in Setup \cup {"record"}
        /\ ap_ready' \in {ap_ready, 1}
        /\ \E label \in Setup \cup {"loop", "reload", "user"} : Goto(p, label)
    BY DEF Climb, Record, LoadKernel, StartC, PercpuInit, Ready, Setup
  <2> QED
    BY <2>1 DEF ApTypeOK, Goto, Setup
<1>2. /\ pc'[p] \in Setup \cup {"loop", "reload", "user"}
      /\ jmp_code = "loop" /\ pc[p] = "record" => pc'[p] = "loop"
      /\ is_ap = 1 => pc'[p] # "reload"
      /\ jmp_code = "boot" => pc'[p] # "loop"
      /\ ap_ready' = ap_ready \/ (ap_ready' = 1 /\ pc'[p] = "user")
  BY DEF ApTypeOK, Climb, Record, LoadKernel, StartC, PercpuInit, Ready, Goto, Setup
<1>3. jmp_code # "none" /\ (pc'[0] = "spin" => cpu'[0] < N)
  BY <1>1, <1>2, ZeroIsCpu DEF Asleep, Setup
<1>4. ASSUME jmp_code = "boot" PROVE Booting'
  <2>1. p # 0 /\ pc'[0] = pc[0]
    BY <1>4, <1>1, ZeroIsCpu DEF Booting, Setup
  <2>2. p = cpu[0] /\ pc[0] = "spin"
    <3>1. ~(p < cpu[0]) /\ ~(p > cpu[0])
      BY <1>4, <1>1, <2>1 DEF Booting, Setup
    <3>2. p = cpu[0]
      BY <3>1, <1>4, ZeroIsCpu DEF Booting
    <3> QED
      BY <3>2, <1>4, <1>1, <2>1, ZeroIsCpu DEF Booting, Setup
  <2>3. Coming(p) /\ is_ap = 1
    BY <2>2, <1>4 DEF Booting
  <2>4. Coming(p)'
    <3>1. pc'[p] \in Setup \cup {"user"}
      BY <2>3, <1>2, <1>4
    <3>2. NoInit(p)' /\ InitFirst(p)'
      BY <2>3, <1>1 DEF Coming, NoInit, InitFirst, Setup
    <3>3. ap_ready' = 1 => pc'[p] = "user"
      BY <2>3, <1>1, <1>2 DEF Coming, Setup
    <3> QED
      BY <3>1, <3>2, <3>3 DEF Coming
  <2>5. Coming(cpu[0])'
    BY <2>4, <2>2, <1>1 DEF Coming, InitFirst, NoInit
  <2>6. \A q \in Cpu \ {0, p} : pc'[q] = pc[q] /\ ipi'[q] = ipi[q] /\ (NoInit(q) => NoInit(q)')
    BY <1>1 DEF NoInit
  <2>7. ipi' = ipi /\ cpu' = cpu /\ is_ap' = is_ap
    BY <1>1
  <2> QED
    BY <2>1, <2>2, <2>3, <2>5, <2>6, <2>7, <1>4 DEF Booting
<1>5. ASSUME jmp_code = "loop" PROVE Stopping'
  <2>1. \A q \in Cpu : pc'[q] \in Setup => pc[q] \in Setup
    BY <1>1, <1>2, <1>5 DEF Setup
  <2>2. \A q \in Cpu : pc'[q] # "reload" /\ pc'[0] # "main"
    BY <1>1, <1>2, <1>5, ZeroIsCpu DEF Stopping, BootStackExclusive, Setup
  <2> QED
    BY <2>1, <2>2, <1>1, <1>5 DEF Stopping, BootStackExclusive
<1> QED
  BY <1>1, <1>3, <1>4, <1>5

\* halt, by p.
LEMMA HaltKeeps == ASSUME ApInv, NEW p \in Cpu, Halt(p) PROVE ApInv'
<1> USE DEF ApInv
<1>1. /\ ApTypeOK' /\ jmp_code' = "loop" /\ is_ap' = is_ap
      /\ pc'[p] = "stop" /\ \A q \in Cpu \ {p} : pc'[q] = pc[q] /\ cpu'[q] = cpu[q]
  BY NAssumption, ZeroIsCpu DEF ApTypeOK, Halt, Goto
<1>2. pc[0] # "main" \/ p = 0
  BY ZeroIsCpu DEF Halt, Asleep, Booting, Stopping, ApTypeOK
<1>3. pc'[0] # "main" /\ (pc'[0] = "spin" => cpu'[0] < N)
  BY <1>1, <1>2, ZeroIsCpu
<1>4. BootStackExclusive /\ \A q \in Cpu : pc[q] \in Setup => is_ap = 1
  BY BootingExcludes DEF Asleep, Stopping, BootStackExclusive, Setup, ApTypeOK
<1>5. Stopping'
  BY <1>1, <1>3, <1>4 DEF Stopping, BootStackExclusive, Setup
<1> QED
  BY <1>1, <1>3, <1>5

LEMMA BootingStops ==
    ASSUME ApInv, NEW p \in Cpu, pc[p] = "stop" PROVE jmp_code = "loop"
<1>1. jmp_code # "none"
  BY DEF ApInv, Asleep
<1>2. jmp_code # "boot"
  <2> SUFFICES ASSUME jmp_code = "boot" PROVE FALSE
    OBVIOUS
  <2>1. p # 0 /\ ~(p < cpu[0]) /\ ~(p > cpu[0])
    BY DEF ApInv, Booting
  <2>2. p = cpu[0]
    BY <2>1, ZeroIsCpu DEF ApInv, Booting
  <2>3. pc[0] = "user" => N = p
    BY <2>2 DEF ApInv, Booting
  <2> QED
    BY <2>1, <2>2, <2>3, ZeroIsCpu DEF ApInv, Booting, Coming, Setup
<1> QED
  BY <1>1, <1>2 DEF ApInv, ApTypeOK

LEMMA StopKeeps ==
    ASSUME ApInv, NEW p \in Cpu, StopOne(p) \/ PowerOff(p) PROVE ApInv'
<1> USE DEF ApInv
<1>0. pc[p] = "stop" /\ cpu[p] \in Nat
  BY DEF StopOne, PowerOff, ApTypeOK
<1>1. jmp_code = "loop"
  BY <1>0, BootingStops
<1>2. ipi' \in [Cpu -> Seq({"INIT", "SIPI"})]
  <2>1. CASE ipi' = ipi
    BY <2>1 DEF ApTypeOK
  <2>2. CASE Bootap(cpu[p])
    <3>1. \A q \in Cpu : ipi[q] \o <<"INIT", "SIPI", "SIPI">> \in Seq({"INIT", "SIPI"})
      BY BootapThree DEF ApTypeOK
    <3> QED
      BY <2>2, <3>1 DEF Bootap, ApTypeOK
  <2> QED
    BY <2>1, <2>2 DEF StopOne, PowerOff
<1>3. ApTypeOK' /\ jmp_code' = "loop" /\ is_ap' = is_ap
  <2>1. CASE StopOne(p)
    <3>1. cpu' \in [Cpu -> 0 .. N]
      BY <2>1, <1>0, NAssumption DEF StopOne, More, ApTypeOK
    <3> QED
      BY <2>1, <3>1, <1>2, <1>1 DEF StopOne, ApTypeOK
  <2>2. CASE PowerOff(p)
    BY <2>2, <1>2, <1>1 DEF PowerOff, Goto, ApTypeOK
  <2> QED
    BY <2>1, <2>2
<1>4. \A q \in Cpu : pc'[q] = pc[q] \/ pc'[q] = "hlt"
  BY DEF StopOne, PowerOff, Goto, ApTypeOK
<1>5. pc'[0] = "spin" => cpu'[0] = cpu[0]
  BY <1>0, ZeroIsCpu DEF StopOne, PowerOff, Goto, ApTypeOK
<1>6. Stopping'
  BY <1>1, <1>3, <1>4, ZeroIsCpu DEF Stopping, BootStackExclusive, Setup
<1> QED
  BY <1>3, <1>4, <1>5, <1>6, ZeroIsCpu

----------------------------------------------------------------------------

LEMMA NextKeeps == ApInv /\ [ApNext]_apVars => ApInv'
<1> SUFFICES ASSUME ApInv, [ApNext]_apVars PROVE ApInv'
  OBVIOUS
<1>1. CASE UNCHANGED apVars
  BY <1>1 DEF apVars, ApInv, ApTypeOK, Asleep, Booting, Coming, Stopping, NoInit, InitFirst,
              BootStackExclusive
<1>2. ASSUME NEW p \in Cpu, Step(p) PROVE ApInv'
  BY <1>2, MpeInitKeeps, KickKeeps, SpinKeeps, EnterUserKeeps, ClimbKeeps, StopKeeps
     DEF Step, Climb
<1>3. ASSUME NEW p \in Cpu, Receive(p) \/ Halt(p) PROVE ApInv'
  BY <1>3, ReceiveKeeps, HaltKeeps
<1> QED
  BY <1>1, <1>2, <1>3 DEF ApNext

(***************************************************************************)
(* The types of what mpe.c, the boot path and halt work on.                *)
(***************************************************************************)
THEOREM ApTypeCorrect == ApSpec => []ApTypeOK
<1>1. ApInv => ApTypeOK
  BY DEF ApInv
<1> QED
  BY InitApInv, NextKeeps, <1>1, PTL DEF ApSpec

(***************************************************************************)
(* One processor at a time is on the boot stack, however many there are    *)
(* and whoever halts while they start, and none loads the kernel again.    *)
(***************************************************************************)
THEOREM BootStackSafe == ApSpec => []BootStackExclusive
<1>1. ApInv => BootStackExclusive
  BY BootingExcludes DEF ApInv, ApTypeOK, Asleep, Stopping, BootStackExclusive, Setup
<1> QED
  BY InitApInv, NextKeeps, <1>1, PTL DEF ApSpec

----------------------------------------------------------------------------
\* The composition

LEMMA StepOfBoot ==
    ASSUME NEW p \in Cpu, BootStep(p)
    PROVE  /\ [ApNext]_apVars /\ UNCHANGED tableVars /\ UNCHANGED drawVars
           /\ WriteShutdown \/ UNCHANGED rtcVars
<1>1. Step(p) \/ Receive(p) \/ Halt(p)
  BY DEF BootStep
<1> QED
  BY <1>1 DEF BootStep, ApNext

LEMMA StepOfMemory ==
    ASSUME NEW p \in Processors, MemoryStep(p)
    PROVE  /\ [TablesNext]_tableVars
           /\ UNCHANGED apVars /\ UNCHANGED rtcVars /\ UNCHANGED drawVars
<1>1. TablesNext
  BY DEF MemoryStep, TablesNext
<1> QED
  BY <1>1 DEF MemoryStep

LEMMA StepOfClock ==
    ASSUME ClockStep \/ Choose
    PROVE  RtcNext /\ UNCHANGED apVars /\ UNCHANGED tableVars /\ UNCHANGED drawVars
BY DEF ClockStep, Choose, RtcNext

LEMMA StepOfQemu ==
    [QemuNext]_qemuVars =>
        [ApNext]_apVars /\ [TablesNext]_tableVars /\ [RtcNext]_rtcVars /\ [DisplayNext]_drawVars
<1> SUFFICES ASSUME [QemuNext]_qemuVars
             PROVE  /\ [ApNext]_apVars /\ [TablesNext]_tableVars
                    /\ [RtcNext]_rtcVars /\ [DisplayNext]_drawVars
  OBVIOUS
<1>1. ASSUME NEW p \in Cpu, BootStep(p)
      PROVE  /\ [ApNext]_apVars /\ [TablesNext]_tableVars
             /\ [RtcNext]_rtcVars /\ [DisplayNext]_drawVars
  BY <1>1, StepOfBoot DEF RtcNext
<1>2. ASSUME NEW p \in Processors, MemoryStep(p)
      PROVE  /\ [ApNext]_apVars /\ [TablesNext]_tableVars
             /\ [RtcNext]_rtcVars /\ [DisplayNext]_drawVars
  BY <1>2, StepOfMemory
<1>3. CASE ClockStep \/ Choose
  BY <1>3, StepOfClock
<1>4. CASE DrawStep
  BY <1>4 DEF DrawStep
<1>5. CASE UNCHANGED qemuVars
  BY <1>5 DEF qemuVars
<1> QED
  BY <1>1, <1>2, <1>3, <1>4, <1>5 DEF QemuNext

(***************************************************************************)
(* The program on qemu is its boot, its address spaces, its clock and its  *)
(* display: what is proved of each of them alone holds while all run.      *)
(***************************************************************************)
THEOREM QemuIsItsParts == QemuSpec => ApSpec /\ TablesSpec /\ RtcSpec /\ DisplaySpec
<1>1. QemuInit => ApInit /\ TablesInit /\ RtcInit /\ DisplayInit
  BY DEF QemuInit
<1> QED
  BY <1>1, StepOfQemu, PTL DEF QemuSpec, ApSpec, TablesSpec, RtcSpec, DisplaySpec

LEMMA SameProgram == [QemuNext]_qemuVars => UNCHANGED workload
<1>1. ASSUME QemuNext PROVE UNCHANGED workload
  BY <1>1 DEF QemuNext, BootStep, Choose, MemoryStep, ClockStep, DrawStep
<1>2. UNCHANGED qemuVars => UNCHANGED workload
  BY DEF qemuVars
<1> QED
  BY <1>1, <1>2

(***************************************************************************)
(* The types of what the processors, the tables, the clock and the display *)
(* of AM on qemu work on, whatever the program is.                         *)
(***************************************************************************)
THEOREM QemuTypeCorrect == QemuSpec => []QemuTypeOK
<1>1. QemuInit => workload \in Workloads
  BY DEF QemuInit
<1>2. workload \in Workloads /\ [QemuNext]_qemuVars => (workload \in Workloads)'
  BY SameProgram
<1>3. QemuSpec => [](workload \in Workloads)
  BY <1>1, <1>2, PTL DEF QemuSpec
<1>4. ApTypeOK /\ TablesTypeOK /\ RtcTypeOK /\ DisplayTypeOK /\ workload \in Workloads
      => QemuTypeOK
  BY DEF QemuTypeOK
<1> QED
  BY <1>3, <1>4, QemuIsItsParts, ApTypeCorrect, TablesTypeCorrect, RtcTypeCorrect,
     DisplayTypeCorrect, PTL

(***************************************************************************)
(* While processors start, halt, map memory, read the clock and draw: one  *)
(* of them is on the boot stack, no page of a table is lost or given back  *)
(* twice, walks find the map, users see their own space, the time read is  *)
(* one that was shown, drawings are cut off at the right and at the        *)
(* bottom, and nothing is written behind the frame buffer.                 *)
(***************************************************************************)
THEOREM QemuSafe ==
    QemuSpec => [](/\ BootStackExclusive /\ TablesOwned /\ WalkIsMap
                   /\ UserSeesItsSpace /\ ShownTime /\ DrawnIsClipped)
<1> QED
  BY QemuIsItsParts, BootStackSafe, PagesAreOwned, WalkFindsTheMap, UserIsAtHome,
     TimeIsShown, DrawingIsClipped, PTL
=============================================================================
