----------------------------- MODULE PageTables -----------------------------
(***************************************************************************)
(* Address spaces of AM on qemu, vme.c and the %cr3 part of cte.c, in the  *)
(* build with two levels of tables (x86; x86_64 has four): a directory     *)
(* per space, with an entry for each page table and one that all spaces    *)
(* share, for the kernel.                                                  *)
(*                                                                         *)
(* The program's pgalloc and pgfree, and its kernel that calls the         *)
(* operations below from the handler of a trap, are not in the repository: *)
(* pgalloc hands out a free page, no matter which.                         *)
(***************************************************************************)
EXTENDS Naturals, FiniteSets

CONSTANTS
    Processors,
    Spaces,
    PageFrames,     \* the pages that pgalloc hands out
    Dirs,           \* the user's entries in a directory
    KernelDir,      \* the kernel's
    Slots,          \* the entries of a page table
    Pas,            \* what the user's pages are mapped to
    KernelTable,    \* the kernel's page table, made by vme_init
    Null,           \* an entry without PTE_P; no page
    MaxCalls        \* bound on the calls of protect, map and unprotect

ASSUME PageTablesAssumption ==
    /\ MaxCalls \in Nat
    /\ KernelDir \notin Dirs \cup Slots
    /\ Null \notin PageFrames \cup Pas \cup {KernelTable}
    /\ "kernel" \notin Spaces

VARIABLES
    used,       \* pages that pgalloc has given out and pgfree has not got back
    mem,        \* mem[f][i]: entry i of the table in page f
    ptr,        \* ptr[sp]: the page of the directory that as->ptr names
    live,       \* the spaces between protect and unprotect
    cr3,        \* cr3[p]
    runs,       \* runs[p]: the space whose user code p runs, or "kernel"
    tlb,        \* tlb[p]: translations that p may have kept, pairs of va and pa
    wanted,     \* history: what the program has asked map for
    outdated,   \* history: spaces changed while another processor ran in them
    calls       \* calls of protect, map and unprotect so far

tableVars == <<used, mem, ptr, live, cr3, runs, tlb, wanted, outdated, calls>>

Va == Dirs \X Slots
Index == Dirs \cup Slots \cup {KernelDir}
Zeroed == [i \in Index |-> Null]

\* vme_init: processor 0 and the others run on the kernel's directory.
TablesInit ==
    /\ used = {} /\ mem = [f \in PageFrames |-> Zeroed]
    /\ ptr = [sp \in Spaces |-> Null] /\ live = {}
    /\ cr3 = [p \in Processors |-> Null]
    /\ runs = [p \in Processors |-> "kernel"]
    /\ tlb = [p \in Processors |-> {}]
    /\ wanted = [sp \in Spaces |-> [va \in Va |-> Null]]
    /\ outdated = {} /\ calls = 0

\* What pgalloc may hand out.
Free == PageFrames \ used

\* The kernel on p calls one of the operations.  pgallocz and map panic, which
\* ends the program, so that the model has no step for those calls.
Call(p) == runs[p] = "kernel" /\ calls < MaxCalls /\ calls' = calls + 1

Elsewhere(p, sp) ==
    outdated' = outdated \cup {s \in {sp} : \E q \in Processors \ {p} : runs[q] = s}

----------------------------------------------------------------------------
\* The operations, called by processor p in its kernel

\* (Mutated form: pgalloc, which does not zero the page.)
Unzeroed(t) == mem[t]

\* What pgallocz leaves in the page t.
NewTable(t) == Zeroed

Protect(p, sp) ==
    /\ Call(p) /\ sp \notin live
    /\ \E f \in Free :
          /\ used' = used \cup {f}
          /\ mem' = [mem EXCEPT ![f] = [NewTable(f) EXCEPT ![KernelDir] = KernelTable]]
          /\ ptr' = [ptr EXCEPT ![sp] = f]
    /\ live' = live \cup {sp}
    /\ wanted' = [wanted EXCEPT ![sp] = [va \in Va |-> Null]]
    /\ UNCHANGED <<cr3, runs, tlb, outdated>>

(***************************************************************************)
(* ptwalk to the entry of va, which makes the page table if it is missing, *)
(* and the change of the entry from one of `from' to `to'.                 *)
(***************************************************************************)
SetEntry(sp, va, from, to) ==
    LET dir == ptr[sp]
        missing == mem[dir][va[1]] = Null
        table(t) == IF missing THEN NewTable(t) ELSE mem[t]
    IN  /\ \E t \in IF missing THEN Free ELSE {mem[dir][va[1]]} :
              /\ table(t)[va[2]] \in from
              /\ used' = used \cup {t}
              /\ mem' = [mem EXCEPT ![dir] = [@ EXCEPT ![va[1]] = t],
                                      ![t] = [table(t) EXCEPT ![va[2]] = to]]
        /\ wanted' = [wanted EXCEPT ![sp][va] = to]
        /\ UNCHANGED <<ptr, live, cr3, runs, tlb>>

\* map; it panics when the page is mapped already.
Map(p, sp, va, pa) ==
    /\ Call(p) /\ sp \in live
    /\ SetEntry(sp, va, {Null}, pa)
    /\ UNCHANGED outdated

\* map with MMAP_NONE; no translation is flushed.
Unmap(p, sp, va) ==
    /\ Call(p) /\ sp \in live
    /\ SetEntry(sp, va, Pas, Null)
    /\ Elsewhere(p, sp)

\* The entries with PTE_P and PTE_U.
UserTables(dir) == {mem[dir][i] : i \in Dirs} \ {Null}

\* (Mutated form: the directory is not given back.)
OnlyTables(dir) == UserTables(dir)

TornDown(dir) == UserTables(dir) \cup {dir}

\* unprotect; as->ptr goes on naming the page.  The program has no processor
\* run user code of the space.
Unprotect(p, sp) ==
    /\ Call(p) /\ sp \in live
    /\ \A q \in Processors : runs[q] # sp
    /\ used' = used \ TornDown(ptr[sp])
    /\ live' = live \ {sp}
    /\ wanted' = [wanted EXCEPT ![sp] = [va \in Va |-> Null]]
    /\ UNCHANGED <<mem, ptr, cr3, runs, tlb, outdated>>

----------------------------------------------------------------------------
\* Traps

Trap(p) ==
    /\ runs[p] # "kernel"
    /\ runs' = [runs EXCEPT ![p] = "kernel"]
    /\ UNCHANGED <<used, mem, ptr, live, cr3, tlb, wanted, outdated, calls>>

\* (Mutated form: %cr3 is loaded only when it changes.)
KeepTlb(p, dir) == IF cr3[p] = dir THEN tlb[p] ELSE {}

\* set_cr3 flushes what the processor has kept.
LoadedTlb(p, dir) == {}

\* The end of __am_irq_handle, for a user context.
Return(p, sp) ==
    /\ runs[p] = "kernel" /\ sp \in live
    /\ cr3' = [cr3 EXCEPT ![p] = ptr[sp]]
    /\ tlb' = [tlb EXCEPT ![p] = LoadedTlb(p, ptr[sp])]
    /\ runs' = [runs EXCEPT ![p] = sp]
    /\ UNCHANGED <<used, mem, ptr, live, wanted, outdated, calls>>

\* The walk of the memory management unit.
Walk(dir, va) ==
    IF mem[dir][va[1]] \in PageFrames THEN mem[mem[dir][va[1]]][va[2]] ELSE Null

\* User code touches va.
Access(p, va) ==
    /\ runs[p] # "kernel" /\ Walk(cr3[p], va) # Null
    /\ tlb' = [tlb EXCEPT ![p] = @ \cup {<<va, Walk(cr3[p], va)>>}]
    /\ UNCHANGED <<used, mem, ptr, live, cr3, runs, wanted, outdated, calls>>

TablesNext ==
    \E p \in Processors :
       \/ Trap(p)
       \/ \E sp \in Spaces : Protect(p, sp) \/ Unprotect(p, sp) \/ Return(p, sp)
       \/ \E sp \in Spaces, va \in Va :
             Unmap(p, sp, va) \/ \E pa \in Pas : Map(p, sp, va, pa)
       \/ \E va \in Va : Access(p, va)

TablesSpec == TablesInit /\ [][TablesNext]_tableVars

----------------------------------------------------------------------------

Entry == PageFrames \cup Pas \cup {KernelTable, Null}

TablesTypeOK ==
    /\ used \subseteq PageFrames
    /\ mem \in [PageFrames -> [Index -> Entry]]
    /\ ptr \in [Spaces -> PageFrames \cup {Null}] /\ live \subseteq Spaces
    /\ cr3 \in [Processors -> PageFrames \cup {Null}]
    /\ runs \in [Processors -> Spaces \cup {"kernel"}]
    /\ tlb \in [Processors -> SUBSET (Va \X Pas)]
    /\ wanted \in [Spaces -> [Va -> Pas \cup {Null}]]
    /\ outdated \subseteq Spaces /\ calls \in 0 .. MaxCalls

Owned(sp) == {ptr[sp]} \cup UserTables(ptr[sp])

(***************************************************************************)
(* Every page that the tables were given belongs to one space, and no page *)
(* is lost: what is out is what the spaces hold, so that unprotect brings  *)
(* everything back and nothing twice.                                      *)
(***************************************************************************)
TablesOwned ==
    /\ used = UNION {Owned(sp) : sp \in live}
    /\ \A sp, bs \in live : sp # bs => Owned(sp) \cap Owned(bs) = {}
    /\ \A sp \in live : mem[ptr[sp]][KernelDir] = KernelTable

(***************************************************************************)
(* The walk through the tables finds what the program last asked map for,  *)
(* whatever the pages held before they became tables.                      *)
(***************************************************************************)
WalkIsMap ==
    \A sp \in live, va \in Va : Walk(ptr[sp], va) = wanted[sp][va]

(***************************************************************************)
(* User code runs on the tables of its own space, and every translation    *)
(* its processor keeps is one the program wants, unless another processor  *)
(* took a page away meanwhile.                                             *)
(***************************************************************************)
UserSeesItsSpace ==
    \A p \in Processors : runs[p] # "kernel" =>
        /\ runs[p] \in live /\ cr3[p] = ptr[runs[p]]
        /\ runs[p] \notin outdated => \A t \in tlb[p] : wanted[runs[p]][t[1]] = t[2]
=============================================================================
