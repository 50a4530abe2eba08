------------------------------ MODULE PageMaps ------------------------------
(***************************************************************************)
(* Address spaces of AM native, vme.c: a space is a list of PageMaps, and  *)
(* a processor that switches to a context of another space unmaps the      *)
(* pages of the list it leaves and maps those of the list it enters, in    *)
(* its own process.  The lists are in memory that the processors share,    *)
(* is_mapped included.                                                     *)
(***************************************************************************)
EXTENDS Naturals, FiniteSets

CONSTANTS
    Processors,
    Spaces,     \* the address spaces that protect has made
    Vas,        \* virtual pages of USER_SPACE
    Pas,        \* pages of pmem
    Null,       \* no page map, no space, no page
    MaxMaps     \* bound on the pages mapped in all spaces

ASSUME PageMapsAssumption == Null \notin Spaces \cup Vas \cup Pas

VARIABLES
    head,       \* head[as]: the first PageMap, named by its page
    pagemap,    \* pagemap[as][va]: pa, next, is_mapped; pa is Null if there is none
    vm_head,    \* vm_head[p]: thiscpu->vm_head
    host,       \* host[p][va]: what Linux maps there in p's process
    switching,  \* switching[p]: where p is in __am_switch
    remapped,   \* history: the spaces of which a page was mapped again
    strayed     \* history: the spaces that two processors used at once

vmVars == <<head, pagemap, vm_head, host, switching, remapped, strayed>>

Unmapped == [va \in Vas |-> Null]
NotSwitching == [pc |-> "no", to |-> Null, pp |-> Null]

PageMapsInit ==
    /\ head = [as \in Spaces |-> Null]
    /\ pagemap = [as \in Spaces |->
                    [va \in Vas |-> [pa |-> Null, next |-> Null, is_mapped |-> FALSE]]]
    /\ vm_head = [p \in Processors |-> Null]
    /\ host = [p \in Processors |-> Unmapped]
    /\ switching = [p \in Processors |-> NotSwitching]
    /\ remapped = {} /\ strayed = {}

SetHost(p, va, pa) == host' = [host EXCEPT ![p][va] = pa]

\* The spaces p has mapped or is about to map.
UsedBy(p) == {vm_head[p], switching[p].to} \ {Null}

(***************************************************************************)
(* Nothing is said of what a program does after it has used a space on two *)
(* processors, or mapped a page again, but for the switches that come next.*)
(* Two processors use a space at once when one enters it or maps a page of *)
(* it while the other has it mapped.                                       *)
(***************************************************************************)
Stray(p, as) ==
    strayed' = strayed \cup {s \in {as} : \E q \in Processors \ {p} : s \in UsedBy(q)}

\* (Mutated form: the two assignments the other way round.)
LinkSwapped(as, va) == va

\* pp->next = vm_head->head; vm_head->head = pp;
LinkNext(as, va) == head[as]

\* (Mutated form: the page is mapped at once, and not marked.)
NotMarked(p, as) == FALSE

\* The page is mapped at once: is_mapped = true.
Marked(p, as) == vm_head[p] = as

\* map, on processor p, with a prot that is not MMAP_NONE.
Map(p, as, va, pa) ==
    /\ switching[p].pc = "no" /\ remapped = {} /\ strayed = {}
    /\ Cardinality({m \in Spaces \X Vas : pagemap[m[1]][m[2]].pa # Null}) < MaxMaps
    /\ pagemap' = [pagemap EXCEPT ![as][va] =
                     [pa |-> pa, next |-> LinkNext(as, va), is_mapped |-> Marked(p, as)]]
    /\ head' = [head EXCEPT ![as] = va]
    /\ IF vm_head[p] = as THEN SetHost(p, va, pa) ELSE UNCHANGED host
    /\ remapped' = remapped \cup {s \in {as} : pagemap[as][va].pa # Null}
    /\ Stray(p, as)
    /\ UNCHANGED <<vm_head, switching>>

----------------------------------------------------------------------------
\* __am_switch, at the end of a trap that goes on with a context of space `to'

SetSwitching(p, step) == switching' = [switching EXCEPT ![p] = step]

Enter(p, to) ==
    SetSwitching(p, [pc |-> "enter", to |-> to, pp |-> IF to = Null THEN Null ELSE head[to]])

Switch(p, to) ==
    /\ switching[p].pc = "no" /\ to # vm_head[p] /\ strayed = {}
    /\ IF vm_head[p] = Null THEN Enter(p, to)
       ELSE SetSwitching(p, [pc |-> "leave", to |-> to, pp |-> head[vm_head[p]]])
    /\ Stray(p, to)
    /\ UNCHANGED <<head, pagemap, vm_head, host, remapped>>

\* An iteration of the first list_foreach.
LeavePage(p) ==
    LET as == vm_head[p]
        pp == switching[p].pp
    IN  /\ switching[p].pc = "leave" /\ pp # Null
        /\ IF pagemap[as][pp].is_mapped
           THEN /\ SetHost(p, pp, Null)
                /\ pagemap' = [pagemap EXCEPT ![as][pp].is_mapped = FALSE]
           ELSE UNCHANGED <<host, pagemap>>
        /\ SetSwitching(p, [switching[p] EXCEPT !.pp = pagemap[as][pp].next])
        /\ UNCHANGED <<head, vm_head, remapped, strayed>>

LeaveDone(p) ==
    /\ switching[p].pc = "leave" /\ switching[p].pp = Null
    /\ Enter(p, switching[p].to)
    /\ UNCHANGED <<head, pagemap, vm_head, host, remapped, strayed>>

\* An iteration of the second.
EnterPage(p) ==
    LET as == switching[p].to
        pp == switching[p].pp
    IN  /\ switching[p].pc = "enter" /\ pp # Null
        /\ SetHost(p, pp, pagemap[as][pp].pa)
        /\ pagemap' = [pagemap EXCEPT ![as][pp].is_mapped = TRUE]
        /\ SetSwitching(p, [switching[p] EXCEPT !.pp = pagemap[as][pp].next])
        /\ UNCHANGED <<head, vm_head, remapped, strayed>>

SwitchDone(p) ==
    /\ switching[p].pc = "enter" /\ switching[p].pp = Null
    /\ vm_head' = [vm_head EXCEPT ![p] = switching[p].to]
    /\ SetSwitching(p, NotSwitching)
    /\ UNCHANGED <<head, pagemap, host, remapped, strayed>>

SwitchStep(p) == LeavePage(p) \/ LeaveDone(p) \/ EnterPage(p) \/ SwitchDone(p)

VmStep(p) ==
    \/ \E as \in Spaces, va \in Vas, pa \in Pas : Map(p, as, va, pa)
    \/ \E to \in Spaces \cup {Null} : Switch(p, to)
    \/ SwitchStep(p)

PageMapsNext == \E p \in Processors : VmStep(p)

PageMapsSpec == PageMapsInit /\ [][PageMapsNext]_vmVars

----------------------------------------------------------------------------

PageMapsTypeOK ==
    /\ head \in [Spaces -> Vas \cup {Null}]
    /\ pagemap \in [Spaces -> [Vas -> [pa : Pas \cup {Null}, next : Vas \cup {Null},
                                       is_mapped : BOOLEAN]]]
    /\ vm_head \in [Processors -> Spaces \cup {Null}]
    /\ host \in [Processors -> [Vas -> Pas \cup {Null}]]
    /\ switching \in [Processors -> [pc : {"no", "leave", "enter"},
                                     to : Spaces \cup {Null}, pp : Vas \cup {Null}]]
    /\ remapped \subseteq Spaces /\ strayed \subseteq Spaces

\* What a processor that runs in space as should see.
Translation(as) ==
    IF as = Null THEN Unmapped ELSE [va \in Vas |-> pagemap[as][va].pa]

(***************************************************************************)
(* The user program sees the pages of its own space and no others, as long *)
(* as no two processors use a space at once and no page is mapped twice.   *)
(***************************************************************************)
HostIsSpace ==
    strayed = {} /\ remapped = {} =>
        \A p \in Processors :
            switching[p].pc = "no" => host[p] = Translation(vm_head[p])

(***************************************************************************)
(* A switch ends, unless a page has been mapped twice: that closes the     *)
(* list to a ring, and the walk along it never comes out.                  *)
(***************************************************************************)
SwitchEnds ==
    \A p \in Processors : switching[p].pc # "no" ~> switching[p].pc = "no" \/ remapped # {}
=============================================================================
