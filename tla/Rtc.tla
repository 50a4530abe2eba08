-------------------------------- MODULE Rtc --------------------------------
(***************************************************************************)
(* The clock of AM on qemu: timer_rtc reads the registers of the CMOS one  *)
(* by one, each with a write of its number to port 0x70 and a read of port *)
(* 0x71, while the clock goes on.  Day, month and year are left out: they  *)
(* are read like the hour.  __am_lapic_bootap, which starts and stops      *)
(* processors, writes the shutdown register through the same two ports;    *)
(* one processor at a time does, as long as none halts.                    *)
(***************************************************************************)
EXTENDS Naturals, Sequences

CONSTANTS
    Readers,      \* processors that call timer_rtc
    PerMinute,    \* seconds
    PerHour,      \* minutes
    PerDay,       \* hours
    MaxTicks      \* bound on the seconds that pass

ASSUME RtcAssumption == {PerMinute, PerHour, PerDay} \subseteq Nat \ {0} /\ MaxTicks \in Nat

VARIABLES
    now,       \* seconds since the start
    port,      \* the register chosen by port 0x70
    reader,    \* reader[p]: p in timer_rtc
    chosen,    \* somebody is between the two outb of __am_lapic_bootap
    shared     \* history: two processors used the ports at once

rtcVars == <<now, port, reader, chosen, shared>>

Register(r, n) ==
    CASE r = "second" -> n % PerMinute
      [] r = "minute" -> (n \div PerMinute) % PerHour
      [] r = "hour"   -> (n \div (PerMinute * PerHour)) % PerDay
      [] r = "shutdown" -> 10

\* What the clock shows after n seconds.
Shown(n) == [r \in {"second", "minute", "hour"} |-> Register(r, n)]

\* The reads of read_rtc_async and, last, the one of tmp.
Reads == <<"second", "minute", "hour", "second">>

RtcInit ==
    /\ now = 0 /\ port = "second" /\ chosen = FALSE /\ shared = FALSE
    /\ reader = [p \in Readers |-> [pc |-> "idle", k |-> 1, since |-> 0, rtc |-> Shown(0)]]

SetReader(p, r) == reader' = [reader EXCEPT ![p] = r]

Reading(p) == reader[p].pc # "idle"

\* An iteration of the loop in timer_rtc takes less than a minute.
Tick ==
    /\ now < MaxTicks
    /\ \A p \in Readers : ~Reading(p) \/ now + 1 - reader[p].since < PerMinute
    /\ now' = now + 1
    /\ UNCHANGED <<port, reader, chosen, shared>>

StartRtc(p) ==
    /\ reader[p].pc = "idle"
    /\ SetReader(p, [reader[p] EXCEPT !.pc = "out", !.k = 1, !.since = now])
    /\ shared' = (shared \/ \E q \in Readers \ {p} : Reading(q))
    /\ UNCHANGED <<now, port, chosen>>

\* read_rtc: outb(0x70, reg)
Out(p) ==
    /\ reader[p].pc = "out"
    /\ port' = Reads[reader[p].k]
    /\ SetReader(p, [reader[p] EXCEPT !.pc = "in"])
    /\ UNCHANGED <<now, chosen, shared>>

\* (Mutated form: the second is not read again.)
Never(p, tmp) == FALSE

\* while (tmp != rtc->second)
Again(p, tmp) == tmp # reader[p].rtc["second"]

\* ... inb(0x71)
In(p) ==
    LET k == reader[p].k
        value == Register(port, now)
    IN  /\ reader[p].pc = "in"
        /\ SetReader(p,
             IF k < Len(Reads)
             THEN [reader[p] EXCEPT !.pc = "out", !.k = k + 1, !.rtc[Reads[k]] = value]
             ELSE IF Again(p, value)
             THEN [reader[p] EXCEPT !.pc = "out", !.k = 1, !.since = now]
             ELSE [reader[p] EXCEPT !.pc = "idle"])
        /\ UNCHANGED <<now, port, chosen, shared>>

\* outb(0x70, 0xF) in __am_lapic_bootap
ChooseShutdown ==
    /\ ~chosen
    /\ chosen' = TRUE
    /\ port' = "shutdown"
    /\ shared' = (shared \/ \E p \in Readers : Reading(p))
    /\ UNCHANGED <<now, reader>>

\* ... outb(0x71, 0x0A): a register of the clock, if a reader has chosen it.
WriteShutdown ==
    /\ chosen
    /\ chosen' = FALSE
    /\ shared' = (shared \/ port # "shutdown")
    /\ UNCHANGED <<now, port, reader>>

\* Nothing is said of what two processors do to each other's registers.
RtcNext ==
    \/ ChooseShutdown \/ WriteShutdown
    \/ ~shared /\ (Tick \/ \E p \in Readers : StartRtc(p) \/ Out(p) \/ In(p))

RtcSpec == RtcInit /\ [][RtcNext]_rtcVars

Reader == [pc : {"idle", "out", "in"}, k : 1 .. Len(Reads), since : 0 .. MaxTicks,
           rtc : [{"second", "minute", "hour"} -> Nat]]

RtcTypeOK ==
    /\ now \in 0 .. MaxTicks
    /\ port \in {"second", "minute", "hour", "shutdown"}
    /\ reader \in [Readers -> Reader]
    /\ {chosen, shared} \subseteq BOOLEAN

(***************************************************************************)
(* The time that timer_rtc returns is one that the clock has shown since   *)
(* the loop began for the last time, never a mixture of two, unless two    *)
(* processors change the register that port 0x71 names under each other,   *)
(* one of them with timer_rtc, the other with that or with starting a      *)
(* third processor.                                                        *)
(***************************************************************************)
ShownTime ==
    ~shared => \A p \in Readers :
        reader[p].pc = "idle" => \E n \in reader[p].since .. now : reader[p].rtc = Shown(n)
=============================================================================
