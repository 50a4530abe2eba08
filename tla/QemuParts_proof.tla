--------------------------- MODULE QemuParts_proof ---------------------------
(***************************************************************************)
(* Proofs about the parts of AM on qemu that run once a processor is up.   *)
(* PageTables, for any processors, spaces, pages and sizes of the tables,  *)
(* and as many calls as one likes: no page is lost or in two places, the   *)
(* walk finds what map was asked for, and user code sees its own space.    *)
(* Display: what is drawn is cut off at the edges of the screen, for any   *)
(* size of the screen and of what is drawn.  Rtc: the time that is read is *)
(* one that the clock has shown.                                           *)
(***************************************************************************)
EXTENDS PageTables, Display, Rtc, TLAPS

----------------------------------------------------------------------------
\* Page tables

\* The places of a space that name a page: its directory, and what the entries
\* of the user in it name.
Place == Dirs \cup {KernelDir}
Page(m, pt, sp, i) == IF i = KernelDir THEN pt[sp] ELSE m[pt[sp]][i]

Held(u, m, pt, lv) ==
    \A sp \in lv : pt[sp] \in u /\ m[pt[sp]][KernelDir] = KernelTable
Known(u, m, pt, lv) ==
    \A sp \in lv, i \in Place : Page(m, pt, sp, i) \in u \cup {Null}
Apart(m, pt, lv) ==
    \A sp, bs \in lv, i, j \in Place :
       Page(m, pt, sp, i) = Page(m, pt, bs, j) /\ Page(m, pt, sp, i) # Null => sp = bs /\ i = j
Placed(u, m, pt, lv) ==
    \A f \in u : \E sp \in lv, i \in Place : f = Page(m, pt, sp, i)

\* Every page that is in use has one place, and every place its own page.
Tidy(u, m, pt, lv) ==
    Held(u, m, pt, lv) /\ Known(u, m, pt, lv) /\ Apart(m, pt, lv) /\ Placed(u, m, pt, lv)

Found(m, dir, va) == IF m[dir][va[1]] = Null THEN Null ELSE m[m[dir][va[1]]][va[2]]

\* The entries are what the program asked for.
Filled(m, pt, lv, w) == \A sp \in lv, va \in Va : w[sp][va] = Found(m, pt[sp], va)

TablesInv ==
    /\ TablesTypeOK
    /\ Tidy(used, mem, ptr, live)
    /\ Filled(mem, ptr, live, wanted)
    /\ UserSeesItsSpace

----------------------------------------------------------------------------

LEMMA NullIsNothing ==
    /\ Null \notin PageFrames /\ Null \notin Pas
    /\ \A d \in Dirs : d # KernelDir /\ d \in Index /\ d \in Place
    /\ \A s \in Slots : s \in Index /\ s # KernelDir
    /\ \A sp \in Spaces : sp # "kernel"
    /\ KernelDir \in Place
BY PageTablesAssumption DEF Index, Place

LEMMA VaIsPair ==
    /\ \A va \in Va : va[1] \in Dirs /\ va[2] \in Slots
    /\ \A va, vb \in Va : va[1] = vb[1] /\ va[2] = vb[2] => va = vb
BY DEF Va

LEMMA InitTables == TablesInit => TablesInv
<1> SUFFICES ASSUME TablesInit PROVE TablesInv
  OBVIOUS
<1>1. TablesTypeOK
  BY PageTablesAssumption DEF TablesInit, TablesTypeOK, Entry, Zeroed, Va, Index
<1>2. live = {} /\ used = {} /\ \A p \in Processors : runs[p] = "kernel"
  BY DEF TablesInit
<1> QED
  BY <1>1, <1>2
     DEF TablesInv, Tidy, Held, Known, Apart, Placed, Filled, UserSeesItsSpace

LEMMA TidyOwns == ASSUME TablesTypeOK, Tidy(used, mem, ptr, live) PROVE TablesOwned
<1> DEFINE P(sp, i) == Page(mem, ptr, sp, i)
<1>1. ASSUME NEW sp \in live, NEW f
      PROVE  f \in Owned(sp) <=> f # Null /\ \E i \in Place : f = P(sp, i)
  <2>1. ptr[sp] # Null /\ P(sp, KernelDir) = ptr[sp]
    BY NullIsNothing DEF Tidy, Held, TablesTypeOK, Page
  <2>2. \A d \in Dirs : P(sp, d) = mem[ptr[sp]][d]
    BY NullIsNothing DEF Page
  <2> HIDE DEF P
  <2> QED
    BY <2>1, <2>2, NullIsNothing DEF Owned, UserTables, Place
<1>2. ASSUME NEW sp \in live, NEW i \in Place PROVE P(sp, i) \in used \cup {Null}
  BY DEF Tidy, Known
<1>3. \A f \in used : f # Null
  BY NullIsNothing DEF TablesTypeOK
<1>4. \A f \in used : \E sp \in live, i \in Place : f = P(sp, i)
  BY DEF Tidy, Placed
<1>5. \A sp, bs \in live, i, j \in Place : P(sp, i) = P(bs, j) /\ P(sp, i) # Null => sp = bs
  BY DEF Tidy, Apart
<1> HIDE DEF P
<1>6. \A f : f \in used <=> \E sp \in live : f \in Owned(sp)
  BY <1>1, <1>2, <1>3, <1>4
<1>7. used = UNION {Owned(sp) : sp \in live}
  BY <1>6
<1>8. ASSUME NEW sp \in live, NEW bs \in live, sp # bs PROVE Owned(sp) \cap Owned(bs) = {}
  <2> SUFFICES ASSUME NEW f \in Owned(sp), f \in Owned(bs) PROVE FALSE
    OBVIOUS
  <2> QED
    BY <1>1, <1>5, <1>8
<1> QED
  BY <1>7, <1>8 DEF TablesOwned, Tidy, Held

LEMMA FilledWalks ==
    ASSUME TablesTypeOK, Tidy(used, mem, ptr, live), Filled(mem, ptr, live, wanted)
    PROVE  WalkIsMap
<1> SUFFICES ASSUME NEW sp \in live, NEW va \in Va
             PROVE  Walk(ptr[sp], va) = wanted[sp][va]
  BY DEF WalkIsMap
<1>1. va[1] \in Dirs /\ va[1] \in Place /\ va[1] # KernelDir
  BY VaIsPair, NullIsNothing
<1>2. mem[ptr[sp]][va[1]] \in used \cup {Null}
  BY <1>1 DEF Tidy, Known, Page
<1>3. Walk(ptr[sp], va) = Found(mem, ptr[sp], va)
  BY <1>2, NullIsNothing DEF Walk, Found, TablesTypeOK
<1> QED
  BY <1>3 DEF Filled

----------------------------------------------------------------------------
\* What the operations do to the pages.

\* A new directory.
LEMMA AddDirectory ==
    ASSUME NEW u, NEW m, NEW pt, NEW lv, Tidy(u, m, pt, lv), Null \notin u,
           NEW sp, sp \notin lv, NEW f, f \notin u, f # Null,
           NEW m2, NEW pt2, pt2[sp] = f, \A bs \in lv : pt2[bs] = pt[bs],
           \A g \in u : m2[g] = m[g],
           m2[f][KernelDir] = KernelTable, \A d \in Dirs : m2[f][d] = Null
    PROVE  Tidy(u \cup {f}, m2, pt2, lv \cup {sp})
<1> DEFINE P(bs, i) == Page(m, pt, bs, i)
           Q(bs, i) == Page(m2, pt2, bs, i)
<1>1. \A bs \in lv, i \in Place : Q(bs, i) = P(bs, i) /\ P(bs, i) \in u \cup {Null}
  BY DEF Tidy, Held, Known, Page
<1>2. Q(sp, KernelDir) = f /\ \A d \in Dirs : Q(sp, d) = Null
  BY NullIsNothing DEF Page
<1>3. /\ \A bs, cs \in lv, i, j \in Place : P(bs, i) = P(cs, j) /\ P(bs, i) # Null => bs = cs /\ i = j
      /\ \A g \in u : \E bs \in lv, i \in Place : g = P(bs, i)
  BY DEF Tidy, Apart, Placed
<1>4. Held(u \cup {f}, m2, pt2, lv \cup {sp})
  BY DEF Tidy, Held
<1> HIDE DEF P, Q
<1>5. \A bs \in lv \cup {sp}, i \in Place : Q(bs, i) \in u \cup {f, Null}
  BY <1>1, <1>2 DEF Place
<1>6. \A bs, cs \in lv \cup {sp}, i, j \in Place :
         Q(bs, i) = Q(cs, j) /\ Q(bs, i) # Null => bs = cs /\ i = j
  <2> SUFFICES ASSUME NEW bs \in lv \cup {sp}, NEW cs \in lv \cup {sp}, NEW i \in Place,
                      NEW j \in Place, Q(bs, i) = Q(cs, j), Q(bs, i) # Null
               PROVE  bs = cs /\ i = j
    OBVIOUS
  <2>1. CASE bs = sp
    BY <2>1, <1>1, <1>2 DEF Place
  <2>2. CASE cs = sp
    BY <2>2, <1>1, <1>2 DEF Place
  <2>3. CASE bs \in lv /\ cs \in lv
    BY <2>3, <1>1, <1>3
  <2> QED
    BY <2>1, <2>2, <2>3
<1>7. \A g \in u \cup {f} : \E bs \in lv \cup {sp}, i \in Place : g = Q(bs, i)
  BY <1>1, <1>2, <1>3, NullIsNothing
<1> QED
  BY <1>4, <1>5, <1>6, <1>7 DEF Tidy, Known, Apart, Placed, Q

\* A new page table f, in the entry d of a space that had none there.
LEMMA AddTable ==
    ASSUME NEW u, NEW m, NEW pt, NEW lv, Tidy(u, m, pt, lv), Null \notin u,
           NEW sp \in lv, NEW d \in Dirs, m[pt[sp]][d] = Null, NEW f, f \notin u, f # Null,
           NEW m2, \A g \in u \ {pt[sp]} : m2[g] = m[g],
           m2[pt[sp]][d] = f, \A i \in Place \ {d} : m2[pt[sp]][i] = m[pt[sp]][i]
    PROVE  Tidy(u \cup {f}, m2, pt, lv)
<1> DEFINE P(bs, i) == Page(m, pt, bs, i)
           Q(bs, i) == Page(m2, pt, bs, i)
<1>1. /\ \A bs, cs \in lv, i, j \in Place : P(bs, i) = P(cs, j) /\ P(bs, i) # Null => bs = cs /\ i = j
      /\ \A g \in u : \E bs \in lv, i \in Place : g = P(bs, i)
      /\ \A bs \in lv, i \in Place : P(bs, i) \in u \cup {Null}
      /\ \A bs \in lv : pt[bs] \in u /\ m[pt[bs]][KernelDir] = KernelTable
  BY DEF Tidy, Apart, Placed, Held, Known
<1>2. \A bs \in lv : P(bs, KernelDir) = pt[bs]
  BY DEF Page
<1>3. \A bs \in lv : pt[bs] = pt[sp] => bs = sp
  BY <1>1, <1>2, NullIsNothing
<1>4. Q(sp, d) = f /\ P(sp, d) = Null
  BY NullIsNothing DEF Page
<1>5. \A bs \in lv, i \in Place : bs # sp \/ i # d => Q(bs, i) = P(bs, i)
  BY <1>1, <1>3 DEF Page
<1>6. Held(u \cup {f}, m2, pt, lv)
  BY <1>1, <1>3, NullIsNothing DEF Held
<1> HIDE DEF P, Q
<1>7. \A bs \in lv, i \in Place : Q(bs, i) \in u \cup {f, Null}
  BY <1>1, <1>4, <1>5
<1>8. \A bs, cs \in lv, i, j \in Place :
         Q(bs, i) = Q(cs, j) /\ Q(bs, i) # Null => bs = cs /\ i = j
  BY <1>1, <1>4, <1>5
<1>9. \A g \in u \cup {f} : \E bs \in lv, i \in Place : g = Q(bs, i)
  <2>1. \A g \in u : \E bs \in lv, i \in Place : g = Q(bs, i)
    BY <1>1, <1>4, <1>5
  <2> QED
    BY <2>1, <1>4, NullIsNothing
<1> QED
  BY <1>6, <1>7, <1>8, <1>9 DEF Tidy, Known, Apart, Placed, Q

\* A change inside a page table.
LEMMA ChangeTable ==
    ASSUME NEW u, NEW m, NEW pt, NEW lv, Tidy(u, m, pt, lv),
           NEW m2, \A sp \in lv, i \in Place : m2[pt[sp]][i] = m[pt[sp]][i]
    PROVE  Tidy(u, m2, pt, lv)
<1>1. \A sp \in lv, i \in Place : Page(m2, pt, sp, i) = Page(m, pt, sp, i)
  BY DEF Page
<1> QED
  BY <1>1, NullIsNothing DEF Tidy, Held, Known, Apart, Placed

\* A space goes with its pages.
LEMMA RemoveSpace ==
    ASSUME NEW u, NEW m, NEW pt, NEW lv, Tidy(u, m, pt, lv), Null \notin u, NEW sp \in lv
    PROVE  Tidy(u \ {Page(m, pt, sp, i) : i \in Place}, m, pt, lv \ {sp})
<1> DEFINE P(bs, i) == Page(m, pt, bs, i)
           gone == {P(sp, i) : i \in Place}
<1>1. /\ \A bs, cs \in lv, i, j \in Place : P(bs, i) = P(cs, j) /\ P(bs, i) # Null => bs = cs /\ i = j
      /\ \A g \in u : \E bs \in lv, i \in Place : g = P(bs, i)
      /\ \A bs \in lv, i \in Place : P(bs, i) \in u \cup {Null}
      /\ \A bs \in lv : pt[bs] \in u /\ m[pt[bs]][KernelDir] = KernelTable
      /\ \A bs \in lv : P(bs, KernelDir) = pt[bs]
  BY DEF Tidy, Apart, Placed, Held, Known, Page
<1> HIDE DEF P
<1>2. \A bs \in lv \ {sp}, i \in Place : P(bs, i) \in (u \ gone) \cup {Null}
  BY <1>1
<1>3. \A bs \in lv \ {sp} : pt[bs] \in u \ gone /\ m[pt[bs]][KernelDir] = KernelTable
  BY <1>1, <1>2, NullIsNothing
<1>4. \A g \in u \ gone : \E bs \in lv \ {sp}, i \in Place : g = P(bs, i)
  BY <1>1
<1> QED
  BY <1>1, <1>2, <1>3, <1>4 DEF Tidy, Held, Known, Apart, Placed, P

----------------------------------------------------------------------------
\* The operations

LEMMA ProtectKeeps ==
    ASSUME TablesInv, NEW p \in Processors, NEW sp \in Spaces, Protect(p, sp)
    PROVE  TablesInv'
<1> USE DEF TablesInv
<1>f. PICK f \in Free :
        /\ used' = used \cup {f} /\ ptr' = [ptr EXCEPT ![sp] = f]
        /\ mem' = [mem EXCEPT ![f] = [Zeroed EXCEPT ![KernelDir] = KernelTable]]
  BY DEF Protect, NewTable
<1>1. f \in PageFrames /\ f \notin used /\ f # Null /\ Null \notin used
  BY <1>f, NullIsNothing DEF Free, TablesTypeOK
<1>2. /\ sp \notin live /\ live' = live \cup {sp} /\ used' = used \cup {f}
      /\ ptr' = [ptr EXCEPT ![sp] = f]
      /\ mem' = [mem EXCEPT ![f] = [Zeroed EXCEPT ![KernelDir] = KernelTable]]
      /\ wanted' = [wanted EXCEPT ![sp] = [va \in Va |-> Null]]
      /\ UNCHANGED <<cr3, runs, tlb, outdated>>
  BY <1>f DEF Protect
<1>c. calls' \in 0 .. MaxCalls
  BY PageTablesAssumption DEF Protect, Call, TablesTypeOK
<1>3. ptr'[sp] = f /\ \A b \in live : ptr'[b] = ptr[b] /\ wanted'[b] = wanted[b]
  BY <1>2 DEF TablesTypeOK
<1>4. /\ \A g \in used : mem'[g] = mem[g]
      /\ mem'[f][KernelDir] = KernelTable /\ \A d \in Dirs : mem'[f][d] = Null
  BY <1>1, <1>2, NullIsNothing DEF TablesTypeOK, Zeroed, Index
<1>5. TablesTypeOK'
  <2>1. [Zeroed EXCEPT ![KernelDir] = KernelTable] \in [Index -> Entry]
    BY DEF Zeroed, Entry
  <2>2. mem' \in [PageFrames -> [Index -> Entry]]
    BY <1>2, <2>1 DEF TablesTypeOK
  <2>3. wanted' \in [Spaces -> [Va -> Pas \cup {Null}]]
    BY <1>2 DEF TablesTypeOK
  <2> QED
    BY <1>1, <1>2, <1>c, <2>2, <2>3 DEF TablesTypeOK
<1>6. Tidy(used', mem', ptr', live')
  <2>1. /\ \A b \in live : ptr'[b] = ptr[b]
        /\ ptr'[sp] = f
    BY <1>3
  <2>2. Tidy(used, mem, ptr, live) /\ sp \notin live
    BY <1>2
  <2>3. f \notin used /\ f # Null /\ Null \notin used
    BY <1>1
  <2> HIDE DEF TablesInv
  <2>4. Tidy(used \cup {f}, mem', ptr', live \cup {sp})
    BY <2>1, <2>2, <2>3, <1>4, AddDirectory, SMTT(60)
  <2> QED
    BY <2>4, <1>2
<1>7. Filled(mem', ptr', live', wanted')
  <2> SUFFICES ASSUME NEW b \in live', NEW va \in Va
               PROVE  wanted'[b][va] = Found(mem', ptr'[b], va)
    BY DEF Filled
  <2>0. va[1] \in Dirs /\ va[1] \in Place /\ va[1] # KernelDir
    BY VaIsPair, NullIsNothing
  <2>1. CASE b = sp
    BY <2>1, <2>0, <1>2, <1>3, <1>4 DEF Found, TablesTypeOK
  <2>2. CASE b \in live
    <3>1. ptr[b] \in used /\ mem[ptr[b]][va[1]] \in used \cup {Null}
      BY <2>2, <2>0 DEF Tidy, Held, Known, Page
    <3>2. Found(mem', ptr'[b], va) = Found(mem, ptr[b], va)
      BY <3>1, <2>2, <1>3, <1>4 DEF Found
    <3> QED
      BY <2>2, <3>2, <1>3 DEF Filled
  <2> QED
    BY <2>1, <2>2, <1>2
<1>8. UserSeesItsSpace'
  BY <1>2, <1>3 DEF UserSeesItsSpace
<1> QED
  BY <1>5, <1>6, <1>7, <1>8

(***************************************************************************)
(* What map and its MMAP_NONE form have in common.                         *)
(***************************************************************************)
LEMMA SetEntryKeeps ==
    ASSUME TablesInv, NEW p \in Processors, NEW sp \in live, NEW va \in Va,
           NEW from \in SUBSET (Pas \cup {Null}), NEW to \in Pas \cup {Null},
           SetEntry(sp, va, from, to)
    PROVE  /\ used' \subseteq PageFrames /\ mem' \in [PageFrames -> [Index -> Entry]]
           /\ wanted' \in [Spaces -> [Va -> Pas \cup {Null}]]
           /\ Tidy(used', mem', ptr', live') /\ Filled(mem', ptr', live', wanted')
           /\ wanted[sp][va] \in from /\ wanted'[sp][va] = to
           /\ \A b \in live, vb \in Va : b # sp \/ vb # va => wanted'[b][vb] = wanted[b][vb]
           /\ UNCHANGED <<ptr, live, cr3, runs, tlb>>
<1> DEFINE dir == ptr[sp]
           missing == mem[dir][va[1]] = Null
           From(t) == IF missing THEN Zeroed ELSE mem[t]
<1> USE DEF TablesInv
<1>t. PICK t \in IF missing THEN Free ELSE {mem[dir][va[1]]} :
        /\ From(t)[va[2]] \in from
        /\ used' = used \cup {t}
        /\ mem' = [mem EXCEPT ![dir] = [@ EXCEPT ![va[1]] = t],
                              ![t] = [From(t) EXCEPT ![va[2]] = to]]
  BY DEF SetEntry, NewTable
<1> DEFINE table == From(t)
<1>1. /\ missing => t \in Free
      /\ ~missing => t = mem[dir][va[1]]
      /\ table[va[2]] \in from
      /\ used' = used \cup {t}
      /\ mem' = [mem EXCEPT ![dir] = [@ EXCEPT ![va[1]] = t],
                            ![t] = [table EXCEPT ![va[2]] = to]]
      /\ wanted' = [wanted EXCEPT ![sp][va] = to]
      /\ UNCHANGED <<ptr, live, cr3, runs, tlb>>
  BY <1>t DEF SetEntry
<1>u. ptr' = ptr /\ live' = live
  BY <1>1
<1>2. /\ va[1] \in Dirs /\ va[1] \in Place /\ va[1] \in Index /\ va[1] # KernelDir
      /\ va[2] \in Slots /\ va[2] \in Index
  BY VaIsPair, NullIsNothing
<1>3. sp \in Spaces /\ dir \in used /\ dir \in PageFrames /\ Null \notin used
  BY NullIsNothing DEF Tidy, Held, TablesTypeOK
<1>4. /\ t \in PageFrames /\ t # Null
      /\ missing => t \notin used
      /\ ~missing => t \in used
  BY <1>1, <1>2, <1>3, NullIsNothing DEF Free, Tidy, Known, Page, TablesTypeOK
<1>5. \A b \in live : ptr[b] # t
  <2> SUFFICES ASSUME NEW b \in live, ptr[b] = t PROVE FALSE
    OBVIOUS
  <2>1. ~missing
    BY <1>4 DEF Tidy, Held
  <2>2. Page(mem, ptr, sp, va[1]) = t /\ Page(mem, ptr, b, KernelDir) = t
    BY <2>1, <1>2 DEF Page
  <2> QED
    BY <2>2, <1>2, <1>4, NullIsNothing DEF Tidy, Apart
<1>6. table \in [Index -> Entry]
  BY <1>4 DEF TablesTypeOK, Zeroed, Entry
<1>7. /\ mem' \in [PageFrames -> [Index -> Entry]]
      /\ mem'[dir] = [mem[dir] EXCEPT ![va[1]] = t]
      /\ mem'[t] = [table EXCEPT ![va[2]] = to]
      /\ \A g \in PageFrames \ {dir, t} : mem'[g] = mem[g]
  <2>1. [mem[dir] EXCEPT ![va[1]] = t] \in [Index -> Entry]
    BY <1>3, <1>4 DEF TablesTypeOK, Entry
  <2>2. [table EXCEPT ![va[2]] = to] \in [Index -> Entry]
    BY <1>6 DEF Entry
  <2> HIDE DEF missing, table
  <2> QED
    BY <2>1, <2>2, <1>1, <1>3, <1>4, <1>5 DEF TablesTypeOK
<1>8. used' \subseteq PageFrames
  BY <1>1, <1>4 DEF TablesTypeOK
<1>9. /\ wanted' \in [Spaces -> [Va -> Pas \cup {Null}]] /\ wanted'[sp][va] = to
      /\ \A b \in live, vb \in Va : b # sp \/ vb # va => wanted'[b][vb] = wanted[b][vb]
  BY <1>1, <1>3 DEF TablesTypeOK
<1> HIDE DEF missing, table, dir
<1>10. Tidy(used', mem', ptr', live')
  <2>1. CASE missing
    <3>1. /\ \A g \in used \ {dir} : mem'[g] = mem[g]
          /\ mem'[dir][va[1]] = t /\ \A i \in Place \ {va[1]} : mem'[dir][i] = mem[dir][i]
      BY <2>1, <1>2, <1>3, <1>4, <1>7 DEF TablesTypeOK, Place, Index
    <3>2. Tidy(used, mem, ptr, live) /\ mem[ptr[sp]][va[1]] = Null /\ t \notin used
      BY <2>1, <1>4 DEF missing, dir
    <3>3. Tidy(used \cup {t}, mem', ptr, live)
      BY <3>1, <3>2, <1>2, <1>3, <1>4, AddTable DEF dir
    <3> QED
      BY <2>1, <3>3, <1>1, <1>u
  <2>2. CASE ~missing
    <3>1. \A b \in live, i \in Place : mem'[ptr[b]][i] = mem[ptr[b]][i]
      <4> SUFFICES ASSUME NEW b \in live, NEW i \in Place
                   PROVE  mem'[ptr[b]][i] = mem[ptr[b]][i]
        OBVIOUS
      <4>1. ptr[b] \in PageFrames /\ ptr[b] # t /\ i \in Index
        BY <1>5 DEF Tidy, Held, TablesTypeOK, Place, Index
      <4>2. mem[dir][va[1]] = t
        BY <2>2, <1>1 DEF missing, dir
      <4> QED
        BY <4>1, <4>2, <1>7, <1>3 DEF TablesTypeOK
    <3>2. Tidy(used, mem', ptr, live)
      BY <3>1, ChangeTable
    <3> QED
      BY <2>2, <3>2, <1>1, <1>4, <1>u
  <2> QED
    BY <2>1, <2>2
<1>11. wanted[sp][va] \in from
  <2>1. wanted[sp][va] = Found(mem, dir, va)
    BY DEF Filled, dir
  <2> QED
    BY <2>1, <1>1, <1>2 DEF Found, missing, table, dir, Zeroed
<1>12. Filled(mem', ptr', live', wanted')
  <2> SUFFICES ASSUME NEW b \in live, NEW vb \in Va
               PROVE  wanted'[b][vb] = Found(mem', ptr[b], vb)
    BY <1>u DEF Filled
  <2>0. /\ vb[1] \in Dirs /\ vb[1] \in Place /\ vb[1] \in Index /\ vb[1] # KernelDir
        /\ vb[2] \in Slots /\ vb[2] \in Index
    BY VaIsPair, NullIsNothing
  <2>1. /\ ptr[b] \in PageFrames /\ ptr[b] # t
        /\ mem[ptr[b]][vb[1]] \in used \cup {Null}
        /\ wanted[b][vb] = Found(mem, ptr[b], vb)
    BY <2>0, <1>5 DEF Tidy, Held, Known, Page, Filled, TablesTypeOK
  <2>2. CASE b = sp /\ vb[1] = va[1]
    <3>1. mem'[ptr[b]][vb[1]] = t
      BY <2>2, <1>2, <1>3, <1>7 DEF TablesTypeOK, dir
    <3>2. Found(mem', ptr[b], vb) = [table EXCEPT ![va[2]] = to][vb[2]]
      BY <3>1, <1>4, <1>7 DEF Found
    <3>3. CASE vb[2] = va[2]
      BY <3>3, <3>2, <2>2, <1>6, <1>9, <2>0, VaIsPair
    <3>4. CASE vb[2] # va[2]
      <4>1. Found(mem', ptr[b], vb) = table[vb[2]]
        BY <3>4, <3>2, <1>6, <2>0
      <4>2. table[vb[2]] = Found(mem, ptr[b], vb)
        BY <1>1, <2>0, <2>2 DEF Found, table, missing, dir, Zeroed
      <4> QED
        BY <3>4, <4>1, <4>2, <2>1, <1>9
    <3> QED
      BY <3>3, <3>4
  <2>3. CASE b # sp \/ vb[1] # va[1]
    <3>0. ptr[b] = dir => b = sp
      BY <1>3, NullIsNothing DEF Tidy, Apart, Page, dir
    <3>1. mem'[ptr[b]][vb[1]] = mem[ptr[b]][vb[1]]
      <4>1. CASE ptr[b] = dir
        BY <4>1, <3>0, <2>3, <2>0, <1>3, <1>7 DEF TablesTypeOK
      <4>2. CASE ptr[b] # dir
        BY <4>2, <2>1, <1>7
      <4> QED
        BY <4>1, <4>2
    <3>2. mem[ptr[b]][vb[1]] = Page(mem, ptr, b, vb[1])
      BY <2>0 DEF Page
    <3>3. mem[ptr[b]][vb[1]] # t
      <4> SUFFICES ASSUME mem[ptr[b]][vb[1]] = t PROVE FALSE
        OBVIOUS
      <4>1. ~missing
        BY <1>4, <2>1
      <4>2. Page(mem, ptr, sp, va[1]) = t
        BY <4>1, <1>1, <1>2 DEF Page, missing, dir
      <4> QED
        BY <4>2, <3>2, <2>3, <2>0, <1>2, <1>4 DEF Tidy, Apart
    <3>4. mem[ptr[b]][vb[1]] # dir
      <4>1. Page(mem, ptr, sp, KernelDir) = dir
        BY DEF Page, dir
      <4> QED
        BY <4>1, <3>2, <2>0, <1>3, NullIsNothing DEF Tidy, Apart
    <3>5. mem[ptr[b]][vb[1]] # Null => mem'[mem[ptr[b]][vb[1]]] = mem[mem[ptr[b]][vb[1]]]
      BY <3>3, <3>4, <2>1, <1>7 DEF TablesTypeOK
    <3>6. Found(mem', ptr[b], vb) = Found(mem, ptr[b], vb)
      BY <3>1, <3>5 DEF Found
    <3> QED
      BY <3>6, <2>1, <2>3, <1>9
  <2> QED
    BY <2>2, <2>3
<1> QED
  BY <1>1, <1>7, <1>8, <1>9, <1>10, <1>11, <1>12

\* A translation that is kept is of a page that is mapped.
LEMMA MapKeeps ==
    ASSUME TablesInv, NEW p \in Processors, NEW sp \in Spaces, NEW va \in Va, NEW pa \in Pas,
           Map(p, sp, va, pa)
    PROVE  TablesInv'
<1>1. /\ sp \in live /\ SetEntry(sp, va, {Null}, pa) /\ outdated' = outdated
      /\ calls' \in 0 .. MaxCalls
  BY PageTablesAssumption DEF Map, Call, TablesInv, TablesTypeOK
<1>2. /\ used' \subseteq PageFrames /\ mem' \in [PageFrames -> [Index -> Entry]]
      /\ wanted' \in [Spaces -> [Va -> Pas \cup {Null}]]
      /\ Tidy(used', mem', ptr', live') /\ Filled(mem', ptr', live', wanted')
      /\ wanted[sp][va] = Null
      /\ \A b \in live, vb \in Va : b # sp \/ vb # va => wanted'[b][vb] = wanted[b][vb]
      /\ UNCHANGED <<ptr, live, cr3, runs, tlb>>
  <2>1. {Null} \in SUBSET (Pas \cup {Null}) /\ pa \in Pas \cup {Null}
    OBVIOUS
  <2>2. wanted[sp][va] \in {Null} => wanted[sp][va] = Null
    OBVIOUS
  <2> QED
    BY <1>1, <2>1, <2>2, SetEntryKeeps
<1>3. TablesTypeOK'
  BY <1>1, <1>2 DEF TablesInv, TablesTypeOK
<1>4. UserSeesItsSpace'
  <2> SUFFICES ASSUME NEW q \in Processors, runs[q] # "kernel"
               PROVE  /\ runs[q] \in live /\ cr3[q] = ptr[runs[q]]
                      /\ runs[q] \notin outdated =>
                            \A t \in tlb[q] : wanted'[runs[q]][t[1]] = t[2]
    BY <1>1, <1>2 DEF UserSeesItsSpace
  <2>1. /\ runs[q] \in live /\ cr3[q] = ptr[runs[q]]
        /\ runs[q] \notin outdated => \A t \in tlb[q] : wanted[runs[q]][t[1]] = t[2]
    BY DEF TablesInv, UserSeesItsSpace
  <2>2. \A t \in tlb[q] : t[1] \in Va /\ t[2] # Null
    BY NullIsNothing DEF TablesInv, TablesTypeOK
  <2> QED
    BY <2>1, <2>2, <1>2
<1> QED
  BY <1>2, <1>3, <1>4 DEF TablesInv

LEMMA UnmapKeeps ==
    ASSUME TablesInv, NEW p \in Processors, NEW sp \in Spaces, NEW va \in Va, Unmap(p, sp, va)
    PROVE  TablesInv'
<1>1. /\ sp \in live /\ SetEntry(sp, va, Pas, Null) /\ Elsewhere(p, sp) /\ runs[p] = "kernel"
      /\ calls' \in 0 .. MaxCalls
  BY PageTablesAssumption DEF Unmap, Call, TablesInv, TablesTypeOK
<1>2. /\ used' \subseteq PageFrames /\ mem' \in [PageFrames -> [Index -> Entry]]
      /\ wanted' \in [Spaces -> [Va -> Pas \cup {Null}]]
      /\ Tidy(used', mem', ptr', live') /\ Filled(mem', ptr', live', wanted')
      /\ \A b \in live, vb \in Va : b # sp \/ vb # va => wanted'[b][vb] = wanted[b][vb]
      /\ UNCHANGED <<ptr, live, cr3, runs, tlb>>
  <2>1. Pas \in SUBSET (Pas \cup {Null}) /\ Null \in Pas \cup {Null}
    OBVIOUS
  <2> QED
    BY <1>1, <2>1, SetEntryKeeps
<1>3. /\ outdated' \subseteq Spaces /\ outdated \subseteq outdated'
      /\ \A q \in Processors : runs[q] = sp => sp \in outdated'
  BY <1>1, NullIsNothing DEF Elsewhere, TablesInv, TablesTypeOK
<1>4. TablesTypeOK'
  BY <1>1, <1>2, <1>3 DEF TablesInv, TablesTypeOK
<1>5. UserSeesItsSpace'
  <2> SUFFICES ASSUME NEW q \in Processors, runs[q] # "kernel"
               PROVE  /\ runs[q] \in live /\ cr3[q] = ptr[runs[q]]
                      /\ runs[q] \notin outdated' =>
                            \A t \in tlb[q] : wanted'[runs[q]][t[1]] = t[2]
    BY <1>1, <1>2 DEF UserSeesItsSpace
  <2>1. /\ runs[q] \in live /\ cr3[q] = ptr[runs[q]]
        /\ runs[q] \notin outdated => \A t \in tlb[q] : wanted[runs[q]][t[1]] = t[2]
    BY DEF TablesInv, UserSeesItsSpace
  <2>2. \A t \in tlb[q] : t[1] \in Va
    BY DEF TablesInv, TablesTypeOK
  <2> QED
    BY <2>1, <2>2, <1>2, <1>3
<1> QED
  BY <1>2, <1>4, <1>5 DEF TablesInv

LEMMA UnprotectKeeps ==
    ASSUME TablesInv, NEW p \in Processors, NEW sp \in Spaces, Unprotect(p, sp)
    PROVE  TablesInv'
<1>1. /\ sp \in live /\ \A q \in Processors : runs[q] # sp
      /\ used' = used \ TornDown(ptr[sp]) /\ live' = live \ {sp}
      /\ wanted' = [wanted EXCEPT ![sp] = [va \in Va |-> Null]]
      /\ UNCHANGED <<mem, ptr, cr3, runs, tlb, outdated>>
      /\ calls' \in 0 .. MaxCalls
  BY PageTablesAssumption DEF Unprotect, Call, TablesInv, TablesTypeOK
<1>2. Null \notin used
  BY NullIsNothing DEF TablesInv, TablesTypeOK
<1>3. used \ TornDown(ptr[sp]) = used \ {Page(mem, ptr, sp, i) : i \in Place}
  <2>1. \A f : f \in TornDown(ptr[sp]) \cup {Null} <=>
                  f \in {Page(mem, ptr, sp, i) : i \in Place} \cup {Null}
    BY NullIsNothing DEF TornDown, UserTables, Page, Place
  <2> QED
    BY <2>1, <1>2
<1>4. Tidy(used', mem, ptr, live')
  BY <1>1, <1>2, <1>3, RemoveSpace DEF TablesInv
<1>5. /\ wanted' \in [Spaces -> [Va -> Pas \cup {Null}]]
      /\ \A b \in live \ {sp} : wanted'[b] = wanted[b]
  BY <1>1 DEF TablesInv, TablesTypeOK
<1>6. Filled(mem, ptr, live', wanted')
  BY <1>1, <1>5 DEF TablesInv, Filled
<1>7. TablesTypeOK'
  BY <1>1, <1>5 DEF TablesInv, TablesTypeOK
<1>8. UserSeesItsSpace'
  BY <1>1, <1>5 DEF TablesInv, UserSeesItsSpace
<1> QED
  BY <1>1, <1>4, <1>6, <1>7, <1>8 DEF TablesInv

LEMMA ReturnKeeps ==
    ASSUME TablesInv, NEW p \in Processors, NEW sp \in Spaces, Return(p, sp)
    PROVE  TablesInv'
<1>1. /\ runs[p] = "kernel" /\ sp \in live
      /\ cr3' = [cr3 EXCEPT ![p] = ptr[sp]] /\ tlb' = [tlb EXCEPT ![p] = {}]
      /\ runs' = [runs EXCEPT ![p] = sp]
      /\ UNCHANGED <<used, mem, ptr, live, wanted, outdated, calls>>
  BY DEF Return, LoadedTlb
<1>2. TablesTypeOK'
  BY <1>1 DEF TablesInv, TablesTypeOK
<1>3. UserSeesItsSpace'
  BY <1>1 DEF TablesInv, TablesTypeOK, UserSeesItsSpace
<1> QED
  BY <1>1, <1>2, <1>3 DEF TablesInv

LEMMA AccessKeeps ==
    ASSUME TablesInv, NEW p \in Processors, NEW va \in Va, Access(p, va)
    PROVE  TablesInv'
<1>1. /\ runs[p] # "kernel" /\ Walk(cr3[p], va) # Null
      /\ tlb' = [tlb EXCEPT ![p] = @ \cup {<<va, Walk(cr3[p], va)>>}]
      /\ UNCHANGED <<used, mem, ptr, live, cr3, runs, wanted, outdated, calls>>
  BY DEF Access
<1>2. runs[p] \in live /\ cr3[p] = ptr[runs[p]]
  BY <1>1 DEF TablesInv, UserSeesItsSpace
<1>3. Walk(cr3[p], va) = wanted[runs[p]][va]
  BY <1>2, FilledWalks DEF TablesInv, WalkIsMap
<1>4. Walk(cr3[p], va) \in Pas
  BY <1>1, <1>2, <1>3 DEF TablesInv, TablesTypeOK
<1>5. tlb' \in [Processors -> SUBSET (Va \X Pas)]
  BY <1>1, <1>4 DEF TablesInv, TablesTypeOK
<1>6. TablesTypeOK'
  BY <1>1, <1>5 DEF TablesInv, TablesTypeOK
<1>7. UserSeesItsSpace'
  BY <1>1, <1>3 DEF TablesInv, TablesTypeOK, UserSeesItsSpace
<1> QED
  BY <1>1, <1>6, <1>7 DEF TablesInv

LEMMA TrapKeeps ==
    ASSUME TablesInv, NEW p \in Processors, Trap(p) PROVE TablesInv'
BY DEF Trap, TablesInv, TablesTypeOK, UserSeesItsSpace

----------------------------------------------------------------------------

LEMMA TablesStep == TablesInv /\ [TablesNext]_tableVars => TablesInv'
<1> SUFFICES ASSUME TablesInv, [TablesNext]_tableVars PROVE TablesInv'
  OBVIOUS
<1>1. CASE UNCHANGED tableVars
  BY <1>1 DEF tableVars, TablesInv, TablesTypeOK, UserSeesItsSpace
<1>2. CASE TablesNext
  BY <1>2, ProtectKeeps, MapKeeps, UnmapKeeps, UnprotectKeeps, ReturnKeeps, AccessKeeps,
     TrapKeeps DEF TablesNext
<1> QED
  BY <1>1, <1>2

(***************************************************************************)
(* The types of the pages, the registers, and the translations kept.       *)
(***************************************************************************)
THEOREM TablesTypeCorrect == TablesSpec => []TablesTypeOK
<1>1. TablesInv => TablesTypeOK
  BY DEF TablesInv
<1> QED
  BY InitTables, TablesStep, <1>1, PTL DEF TablesSpec

(***************************************************************************)
(* protect, map and unprotect lose no page and give none back twice,       *)
(* whatever the program calls, and in whatever order pages come.           *)
(***************************************************************************)
THEOREM PagesAreOwned == TablesSpec => []TablesOwned
<1>1. TablesInv => TablesOwned
  BY TidyOwns DEF TablesInv
<1> QED
  BY InitTables, TablesStep, <1>1, PTL DEF TablesSpec

(***************************************************************************)
(* The tables say what map was asked for, and nothing that an earlier user *)
(* of their pages left there.                                              *)
(***************************************************************************)
THEOREM WalkFindsTheMap == TablesSpec => []WalkIsMap
<1>1. TablesInv => WalkIsMap
  BY FilledWalks DEF TablesInv
<1> QED
  BY InitTables, TablesStep, <1>1, PTL DEF TablesSpec

(***************************************************************************)
(* User code sees its own space, and no page that was taken from it unless *)
(* another processor took it.                                              *)
(***************************************************************************)
THEOREM UserIsAtHome == TablesSpec => []UserSeesItsSpace
<1>1. TablesInv => UserSeesItsSpace
  BY DEF TablesInv
<1> QED
  BY InitTables, TablesStep, <1>1, PTL DEF TablesSpec

----------------------------------------------------------------------------
\* The display

Columns == 0 .. ScreenW - 1
Rows == 0 .. ScreenH - 1

\* What the pixel in column x and row y should be after j rows of d.
Drawn(d, j, x, y) ==
    IF x \in d.x .. d.x + d.w - 1 /\ y \in d.y .. d.y + j - 1
    THEN (y - d.y) * d.w + (x - d.x) + 1
    ELSE 0

\* The columns that no row writes to from the right end of the row above.
Sound(d, x) == x < ScreenW + d.x

\* Where pixels has got to, and what has been drawn up to there.
RowsDrawn ==
    /\ draw.pixels = draw.j * draw.w /\ draw.j <= draw.h
    /\ draw.h = 0 => strays = {} /\ \A k \in DOMAIN fb : fb[k] = 0
    /\ \A x \in Columns, y \in Rows :
          Sound(draw, x) => fb[x + y * ScreenW] = Drawn(draw, draw.j, x, y)

DisplayInv == DisplayTypeOK /\ RowsDrawn /\ StraysInFront

----------------------------------------------------------------------------
\* Products

LEMMA Screen == ScreenW \in Nat /\ ScreenH \in Nat
BY DisplayAssumption

LEMMA ProductGrows ==
    ASSUME NEW a \in Int, NEW b \in Int, NEW w \in Nat, a <= b
    PROVE  a * w <= b * w
OBVIOUS

LEMMA NextProduct ==
    ASSUME NEW a \in Int, NEW w \in Int PROVE (a + 1) * w = a * w + w
OBVIOUS

LEMMA ProductJumps ==
    ASSUME NEW a \in Int, NEW b \in Int, NEW w \in Nat, a < b
    PROVE  a * w + w <= b * w
<1>1. (a + 1) * w <= b * w
  BY ProductGrows
<1> QED
  BY <1>1, NextProduct

\* Different pixels are different cells of the frame buffer.
LEMMA CellsApart ==
    ASSUME NEW w \in Nat, NEW x1 \in 0 .. w - 1, NEW x2 \in 0 .. w - 1,
           NEW y1 \in Int, NEW y2 \in Int, x1 + y1 * w = x2 + y2 * w
    PROVE  x1 = x2 /\ y1 = y2
<1>1. y1 * w \in Int /\ y2 * w \in Int
  OBVIOUS
<1>2. ~(y1 < y2)
  <2> SUFFICES ASSUME y1 < y2 PROVE FALSE
    OBVIOUS
  <2>1. y1 * w + w <= y2 * w
    BY ProductJumps
  <2> QED
    BY <2>1, <1>1
<1>3. ~(y2 < y1)
  <2> SUFFICES ASSUME y2 < y1 PROVE FALSE
    OBVIOUS
  <2>1. y2 * w + w <= y1 * w
    BY ProductJumps
  <2> QED
    BY <2>1, <1>1
<1> QED
  BY <1>1, <1>2, <1>3

\* Every pixel has its cell.
LEMMA CellOnScreen ==
    ASSUME NEW x \in Columns, NEW y \in Rows
    PROVE  x + y * ScreenW \in 0 .. ScreenW * ScreenH - 1
<1>1. y * ScreenW + ScreenW <= ScreenH * ScreenW /\ 0 * ScreenW <= y * ScreenW
  BY Screen, ProductJumps, ProductGrows DEF Rows
<1>2. y * ScreenW \in Int /\ ScreenH * ScreenW \in Int /\ ScreenH * ScreenW = ScreenW * ScreenH
  BY Screen DEF Rows
<1> QED
  BY <1>1, <1>2, Screen DEF Columns

----------------------------------------------------------------------------
\* The steps

\* The cells that an iteration writes in a row, from column dx on.
LenOf(dx, dw) == IF dx + dw >= ScreenW THEN ScreenW - dx ELSE dw
RowRange(dx, dw, row) == dx + row * ScreenW .. dx + row * ScreenW + LenOf(dx, dw) - 1

Span(dx, dw) == dx .. dx + dw - 1
CellOf(x, y) == x + y * ScreenW

\* In the columns that are sound, they are those of the visible part of the row:
\* a cell of another row is a whole row away.
LEMMA RowOnScreen ==
    ASSUME NEW dx \in Int, NEW dw \in Nat, NEW row \in Int,
           NEW x \in Columns, NEW y \in Rows, x < ScreenW + dx
    PROVE  CellOf(x, y) \in RowRange(dx, dw, row) <=> y = row /\ x \in Span(dx, dw)
<1> DEFINE len == LenOf(dx, dw)
<1>0. len \in Int /\ len <= dw /\ dx + len <= ScreenW /\ x \in Int /\ 0 <= x /\ x < ScreenW
      /\ (x < dx + dw => x < dx + len) /\ ScreenW \in Nat /\ y \in Int
  BY Screen DEF LenOf, Columns, Rows
<1>1. y * ScreenW \in Int /\ row * ScreenW \in Int
  BY Screen, <1>0
<1> HIDE DEF len
<1>2. ASSUME x + y * ScreenW \in dx + row * ScreenW .. dx + row * ScreenW + len - 1
      PROVE  y = row /\ x \in dx .. dx + dw - 1
  <2>1. ~(y < row)
    <3> SUFFICES ASSUME y < row PROVE FALSE
      OBVIOUS
    <3>1. y * ScreenW + ScreenW <= row * ScreenW
      BY <1>0, ProductJumps
    <3> QED
      BY <3>1, <1>0, <1>1, <1>2
  <2>2. ~(row < y)
    <3> SUFFICES ASSUME row < y PROVE FALSE
      OBVIOUS
    <3>1. row * ScreenW + ScreenW <= y * ScreenW
      BY <1>0, ProductJumps
    <3> QED
      BY <3>1, <1>0, <1>1, <1>2
  <2>3. y = row
    BY <2>1, <2>2, <1>0
  <2> QED
    BY <2>3, <1>0, <1>1, <1>2
<1>3. ASSUME y = row, x \in dx .. dx + dw - 1
      PROVE  x + y * ScreenW \in dx + row * ScreenW .. dx + row * ScreenW + len - 1
  BY <1>0, <1>1, <1>3
<1> QED
  BY <1>2, <1>3 DEF CellOf, RowRange, Span, len

LEMMA CellsOfRow ==
    \A dx, row \in Int, dw \in Nat : \A x \in Columns, y \in Rows :
       x < ScreenW + dx =>
          (CellOf(x, y) \in RowRange(dx, dw, row) <=> y = row /\ x \in Span(dx, dw))
BY RowOnScreen

\* What a row on the screen or above it writes outside of the frame buffer is in
\* front of it, and only if the row begins above the screen or to the left of it.
LEMMA RowStrays ==
    ASSUME NEW dx \in Int, NEW dw \in Nat, NEW row \in Int, row < ScreenH,
           NEW k \in RowRange(dx, dw, row), k \notin 0 .. ScreenW * ScreenH - 1
    PROVE  k \in Int /\ k < 0 /\ (dx < 0 \/ row < 0)
<1> DEFINE len == LenOf(dx, dw)
<1>0. len \in Int /\ dx + len <= ScreenW /\ ScreenW \in Nat /\ ScreenH \in Nat
  BY Screen DEF LenOf
<1>1. row * ScreenW \in Int /\ ScreenH * ScreenW \in Int /\ ScreenH * ScreenW = ScreenW * ScreenH
  BY <1>0
<1>2. k \in Int /\ dx + row * ScreenW <= k /\ k < dx + row * ScreenW + len
  BY <1>0, <1>1 DEF RowRange
<1> HIDE DEF len
<1>3. row * ScreenW + ScreenW <= ScreenH * ScreenW
  BY <1>0, ProductJumps
<1>4. k < ScreenW * ScreenH
  BY <1>0, <1>1, <1>2, <1>3
<1>5. k < 0
  BY <1>1, <1>2, <1>4
<1>6. row >= 0 => row * ScreenW >= 0
  <2> SUFFICES ASSUME row >= 0 PROVE row * ScreenW >= 0
    OBVIOUS
  <2>1. 0 * ScreenW <= row * ScreenW
    BY <1>0, ProductGrows
  <2> QED
    BY <2>1, <1>0, <1>1
<1> QED
  BY <1>0, <1>1, <1>2, <1>5, <1>6

LEMMA InitDisplay == DisplayInit => DisplayInv
<1> SUFFICES ASSUME DisplayInit PROVE DisplayInv
  OBVIOUS
<1>1. DisplayTypeOK
  BY DEF DisplayInit, DisplayTypeOK
<1>2. /\ \A x \in Columns, y \in Rows : fb[x + y * ScreenW] = 0
      /\ strays = {} /\ \A k \in DOMAIN fb : fb[k] = 0
  BY CellOnScreen DEF DisplayInit
<1>3. \A x \in Columns, y \in Rows : Drawn(draw, draw.j, x, y) = 0
  BY DEF DisplayInit, Drawn, Columns, Rows
<1>4. draw.pixels = draw.j * draw.w /\ draw.j <= draw.h
  BY DEF DisplayInit
<1>5. \A x \in Columns, y \in Rows : fb[x + y * ScreenW] = Drawn(draw, draw.j, x, y)
  BY <1>2, <1>3
<1> QED
  BY <1>1, <1>2, <1>4, <1>5 DEF DisplayInv, RowsDrawn, StraysInFront

LEMMA NextTile ==
    ASSUME DisplayInv, NEW x0 \in Int, NEW y0 \in Int, NEW w0 \in Nat, NEW h0 \in Nat,
           DrawTile(x0, y0, w0, h0)
    PROVE  DisplayInv'
<1>1. draw' = [x |-> x0, y |-> y0, w |-> w0, h |-> h0, j |-> 0, pixels |-> 0]
      /\ fb' = fb /\ strays' = strays
  BY DEF DrawTile
<1>2. draw.h = 0 /\ strays = {} /\ \A k \in DOMAIN fb : fb[k] = 0
  BY DEF DrawTile, DisplayInv, RowsDrawn
<1>3. fb \in [0 .. ScreenW * ScreenH - 1 -> Nat]
  BY DEF DisplayInv, DisplayTypeOK
<1>4. draw'.y = y0 /\ draw'.j = 0 /\ draw'.pixels = 0 /\ draw'.w = w0 /\ draw'.h = h0
  BY <1>1
<1>5. \A x \in Columns, y \in Rows : Drawn(draw', 0, x, y) = 0
  BY <1>4 DEF Drawn, Columns, Rows
<1>6. \A x \in Columns, y \in Rows : fb'[x + y * ScreenW] = 0
  BY <1>1, <1>2, <1>3, CellOnScreen
<1>7. DisplayTypeOK'
  BY <1>1, <1>2, <1>3 DEF DisplayTypeOK
<1>8. RowsDrawn'
  BY <1>1, <1>2, <1>4, <1>5, <1>6 DEF RowsDrawn
<1> QED
  BY <1>1, <1>2, <1>7, <1>8 DEF DisplayInv, StraysInFront

LEMMA NextLine == ASSUME DisplayInv, DrawRow PROVE DisplayInv'
<1> DEFINE row == draw.y + draw.j
           written == RowCells(draw)
           start == RowStart(draw)
           Cell == 0 .. ScreenW * ScreenH - 1
<1>1. /\ draw.x \in Int /\ draw.y \in Int /\ draw.w \in Nat /\ draw.h \in Nat
      /\ draw.j \in Nat /\ draw.pixels \in Nat /\ fb \in [Cell -> Nat] /\ strays \subseteq Int
  BY DEF DisplayInv, DisplayTypeOK
<1>2. draw.pixels = draw.j * draw.w /\ draw.j < draw.h
  BY <1>1 DEF DisplayInv, RowsDrawn, DrawRow, FbDrawn
<1>3. draw \in [x : Int, y : Int, w : Nat, h : Nat, j : Nat, pixels : Nat]
  BY DEF DisplayInv, DisplayTypeOK
<1>4. draw' = [draw EXCEPT !.j = draw.j + 1, !.pixels = draw.pixels + draw.w]
  BY DEF DrawRow, NextRow
<1>5. /\ draw'.x = draw.x /\ draw'.y = draw.y /\ draw'.w = draw.w /\ draw'.h = draw.h
      /\ draw'.j = draw.j + 1 /\ draw'.pixels = draw.pixels + draw.w
      /\ draw' \in [x : Int, y : Int, w : Nat, h : Nat, j : Nat, pixels : Nat]
  <2> DEFINE d == [draw EXCEPT !.j = draw.j + 1]
  <2>1. /\ d.x = draw.x /\ d.y = draw.y /\ d.w = draw.w /\ d.h = draw.h
        /\ d.j = draw.j + 1
        /\ d \in [x : Int, y : Int, w : Nat, h : Nat, j : Nat, pixels : Nat]
    BY <1>3, <1>1
  <2>2. draw' = [d EXCEPT !.pixels = draw.pixels + draw.w]
    BY <1>4
  <2>3. draw.pixels + draw.w \in Nat
    BY <1>1
  <2> HIDE DEF d
  <2> QED
    BY <2>1, <2>2, <2>3
<1>6. fb' = [k \in Cell |-> IF k \in written THEN draw.pixels + (k - start) + 1 ELSE fb[k]]
  BY <1>1 DEF DrawRow
<1>7. strays' = strays \cup (written \ Cell)
  BY <1>1 DEF DrawRow
<1>8. /\ row \in Int /\ row * ScreenW \in Int /\ start = draw.x + row * ScreenW /\ start \in Int
      /\ written = IF row < ScreenH THEN RowRange(draw.x, draw.w, row) ELSE {}
      /\ \A k \in written : k \in Int /\ start <= k
  <2>1. row \in Int
    BY <1>1
  <2>2. row * ScreenW \in Int
    <3> HIDE DEF row
    <3> QED
      BY <2>1, Screen
  <2>3. start = draw.x + row * ScreenW
    BY DEF RowStart
  <2>4. written = IF row < ScreenH THEN RowRange(draw.x, draw.w, row) ELSE {}
    BY DEF RowCells, RowStart, RowLen, RowRange, LenOf
  <2>5. LenOf(draw.x, draw.w) \in Int
    BY <1>1, Screen DEF LenOf
  <2>6. \A k \in RowRange(draw.x, draw.w, row) : k \in Int /\ draw.x + row * ScreenW <= k
    <3> HIDE DEF row
    <3> QED
      BY <2>2, <2>5, <1>1 DEF RowRange
  <2> HIDE DEF row, start, written
  <2>7. start \in Int
    BY <2>2, <2>3, <1>1
  <2>8. \A k \in written : k \in Int /\ start <= k
    <3>1. CASE row < ScreenH
      BY <3>1, <2>3, <2>4, <2>6
    <3>2. CASE ~(row < ScreenH)
      BY <3>2, <2>4
    <3> QED
      BY <3>1, <3>2
  <2> QED
    BY <2>1, <2>2, <2>3, <2>4, <2>7, <2>8
<1> HIDE DEF start, written
<1>9. fb' \in [Cell -> Nat]
  <2>1. ASSUME NEW k \in Cell, k \in written
        PROVE  draw.pixels + (k - start) + 1 \in Nat
    <3> HIDE DEF row, Cell
    <3>1. k \in Int /\ start \in Int /\ start <= k
      BY <2>1, <1>8
    <3>2. draw.pixels \in Nat
      BY <1>1
    <3> QED
      BY ONLY <3>1, <3>2
  <2> HIDE DEF row, Cell
  <2> QED
    BY <2>1, <1>1, <1>6
<1>10. ASSUME NEW x \in Columns, NEW y \in Rows, Sound(draw, x)
      PROVE  fb'[x + y * ScreenW] = Drawn(draw', draw.j + 1, x, y)
  <2> DEFINE k == x + y * ScreenW
  <2>1. k \in Cell
    BY CellOnScreen
  <2>2. fb[k] = Drawn(draw, draw.j, x, y)
    BY <1>10 DEF DisplayInv, RowsDrawn
  <2>3. k \in written <=> y = row /\ x \in draw.x .. draw.x + draw.w - 1
    <3>1. k = CellOf(x, y) /\ draw.x .. draw.x + draw.w - 1 = Span(draw.x, draw.w)
      BY DEF CellOf, Span
    <3>2. x < ScreenW + draw.x
      BY <1>10 DEF Sound
    <3>3. y = row => row < ScreenH
      BY Screen DEF Rows
    <3> HIDE DEF row, k
    <3>4. CellOf(x, y) \in RowRange(draw.x, draw.w, row)
             <=> y = row /\ x \in Span(draw.x, draw.w)
      BY <1>1, <1>8, <3>2, CellsOfRow, Zenon
    <3> QED
      BY <3>1, <3>3, <3>4, <1>8
  <2>4. y = row /\ x \in draw.x .. draw.x + draw.w - 1 =>
          Drawn(draw', draw.j + 1, x, y) = draw.pixels + (k - start) + 1
    <3> SUFFICES ASSUME y = row, x \in draw.x .. draw.x + draw.w - 1
                 PROVE  Drawn(draw', draw.j + 1, x, y) = draw.pixels + (k - start) + 1
      OBVIOUS
    <3>1. k - start = x - draw.x
      <4>1. PICK n \in Int : n = row * ScreenW
        BY <1>8
      <4>2. k = x + n /\ start = draw.x + n
        BY <4>1, <1>8
      <4>3. x \in Int /\ draw.x \in Int
        BY <1>1 DEF Columns
      <4> HIDE DEF k
      <4> QED
        BY ONLY <4>1, <4>2, <4>3
    <3>2. y - draw.y = draw.j /\ y \in draw.y .. draw.y + (draw.j + 1) - 1
      <4>1. draw.y \in Int /\ draw.j \in Nat /\ y = draw.y + draw.j
        BY <1>1
      <4> QED
        BY ONLY <4>1
    <3>3. Drawn(draw', draw.j + 1, x, y) = (y - draw.y) * draw.w + (x - draw.x) + 1
      BY <3>2, <1>5 DEF Drawn
    <3> QED
      BY <3>1, <3>2, <3>3, <1>1, <1>2
  <2>5. ~(y = row /\ x \in draw.x .. draw.x + draw.w - 1) =>
          Drawn(draw', draw.j + 1, x, y) = Drawn(draw, draw.j, x, y)
    <3>1. y # row => (y \in draw.y .. draw.y + (draw.j + 1) - 1 <=> y \in draw.y .. draw.y + draw.j - 1)
      <4>1. draw.y \in Int /\ draw.j \in Nat /\ y \in Int /\ row = draw.y + draw.j
        BY <1>1, Screen DEF Rows
      <4> QED
        BY <4>1
    <3> HIDE DEF row
    <3> QED
      BY <3>1, <1>5 DEF Drawn
  <2>6. fb'[k] = IF k \in written THEN draw.pixels + (k - start) + 1 ELSE fb[k]
    <3> HIDE DEF k, Cell
    <3> QED
      BY <2>1, <1>6
  <2> HIDE DEF row, k, Cell
  <2>7. fb'[k] = Drawn(draw', draw.j + 1, x, y)
    BY <2>2, <2>3, <2>4, <2>5, <2>6
  <2> QED
    BY <2>7 DEF k
<1>11. draw.pixels + draw.w = (draw.j + 1) * draw.w
  BY <1>1, <1>2, NextProduct
<1>12. RowsDrawn'
  <2>1. draw'.pixels = draw'.j * draw'.w /\ draw'.j <= draw'.h
    BY <1>1, <1>5, <1>11, <1>2
  <2>2. \A x \in Columns, y \in Rows :
            Sound(draw', x) => fb'[x + y * ScreenW] = Drawn(draw', draw'.j, x, y)
    BY <1>5, <1>10 DEF Sound
  <2>3. draw'.h # 0
    BY <1>1, <1>2, <1>5
  <2> QED
    BY <2>1, <2>2, <2>3 DEF RowsDrawn
<1>13. \A k \in written \ Cell : k \in Int /\ k < 0 /\ (draw.x < 0 \/ draw.y < 0)
  <2>1. row < 0 => draw.y < 0
    BY <1>1
  <2> HIDE DEF row
  <2> QED
    BY <2>1, <1>1, <1>8, RowStrays
<1>14. strays' \subseteq Int /\ StraysInFront'
  BY <1>1, <1>5, <1>7, <1>13 DEF DisplayInv, StraysInFront
<1> QED
  BY <1>5, <1>9, <1>12, <1>14 DEF DisplayInv, DisplayTypeOK

LEMMA NextDisplay == DisplayInv /\ [DisplayNext]_drawVars => DisplayInv'
<1> SUFFICES ASSUME DisplayInv, [DisplayNext]_drawVars PROVE DisplayInv'
  OBVIOUS
<1>1. CASE DrawRow
  BY <1>1, NextLine
<1>2. ASSUME NEW x \in -MaxX .. MaxX, NEW y \in -MaxY .. MaxY, NEW w \in 0 .. MaxSide,
             NEW h \in 0 .. MaxSide, DrawTile(x, y, w, h)
      PROVE  DisplayInv'
  <2>1. x \in Int /\ y \in Int /\ w \in Nat /\ h \in Nat
    BY DisplayAssumption
  <2> QED
    BY <1>2, <2>1, NextTile
<1>3. CASE UNCHANGED drawVars
  BY <1>3 DEF drawVars, DisplayInv, DisplayTypeOK, RowsDrawn, StraysInFront
<1> QED
  BY <1>1, <1>2, <1>3 DEF DisplayNext

LEMMA InvClipped == DisplayInv => DrawnOnScreen
<1> SUFFICES ASSUME DisplayInv, FbDrawn, NEW x \in 0 .. ScreenW - 1, NEW y \in 0 .. ScreenH - 1,
                    x < ScreenW + draw.x
             PROVE  fb[x + y * ScreenW] = Wanted(x, y)
  BY DEF DrawnOnScreen
<1>1. draw.j = draw.h
  BY DEF DisplayInv, DisplayTypeOK, RowsDrawn, FbDrawn
<1>2. fb[x + y * ScreenW] = Drawn(draw, draw.h, x, y)
  BY <1>1 DEF DisplayInv, RowsDrawn, Columns, Rows, Sound
<1> QED
  BY <1>2 DEF Drawn, Wanted

(***************************************************************************)
(* After j rows, the first j rows of the rectangle are on the screen, cut  *)
(* off at its edges, and nothing else, but for the columns at the right    *)
(* that a rectangle beginning to the left of the screen spoils.            *)
(***************************************************************************)
THEOREM DisplayInductive == DisplaySpec => []DisplayInv
<1>1. DisplayInit => DisplayInv
  BY InitDisplay
<1>2. DisplayInv /\ [DisplayNext]_drawVars => DisplayInv'
  BY NextDisplay
<1> QED
  BY <1>1, <1>2, PTL DEF DisplaySpec

(***************************************************************************)
(* Wherever a rectangle begins, and however large it and the screen are:   *)
(* the part of it that is on the screen is drawn and nothing else changes, *)
(* but for the n columns at the right of the screen when it begins n       *)
(* columns to the left of it, and for what is in front of the frame buffer *)
(* when it begins to the left of the screen or above.                      *)
(***************************************************************************)
THEOREM DrawingIsClipped == DisplaySpec => []DrawnIsClipped
<1>1. DisplayInv => DrawnIsClipped
  BY InvClipped DEF DisplayInv, DrawnIsClipped
<1> QED
  BY <1>1, DisplayInductive, PTL

(***************************************************************************)
(* The types of the frame buffer and of the rectangle being drawn.         *)
(***************************************************************************)
THEOREM DisplayTypeCorrect == DisplaySpec => []DisplayTypeOK
<1>1. DisplayInv => DisplayTypeOK
  BY DEF DisplayInv
<1> QED
  BY <1>1, DisplayInductive, PTL

----------------------------------------------------------------------------
\* The clock

Fields == {"second", "minute", "hour"}
Ports == {"second", "minute", "hour", "shutdown"}
Times == 0 .. MaxTicks

\* What r has read in this iteration by t: the second at a, the minute at b, the hour at c.
ReadAt(r, t, a, b, c) ==
    /\ r.since <= a /\ a <= b /\ b <= c /\ c <= t
    /\ r.k > 1 => r.rtc["second"] = Register("second", a)
    /\ r.k > 2 => r.rtc["minute"] = Register("minute", b)
    /\ r.k > 3 => r.rtc["hour"] = Register("hour", c)

InTime(r, t) ==
    /\ r.since <= t /\ t < r.since + PerMinute
    /\ \E a, b, c \in Times : ReadAt(r, t, a, b, c)

\* Who is in timer_rtc has the ports to itself.
Alone == \A p, q \in Readers : Reading(p) /\ Reading(q) => p = q

RtcInv ==
    /\ RtcTypeOK
    /\ ~shared => /\ Alone /\ ShownTime
                  /\ \A p \in Readers : Reading(p) => InTime(reader[p], now)
                  /\ \A p \in Readers : reader[p].pc = "in" => port = Reads[reader[p].k]

----------------------------------------------------------------------------
\* Division

LEMMA Remainder == ASSUME NEW a \in Nat, NEW m \in Nat \ {0} PROVE a % m \in Nat
OBVIOUS

LEMMA Quotient == ASSUME NEW a \in Nat, NEW m \in Nat \ {0} PROVE a \div m \in Nat
OBVIOUS

LEMMA DivMod ==
    ASSUME NEW a \in Nat, NEW m \in Nat \ {0} PROVE a = (a \div m) * m + (a % m)
OBVIOUS

\* Less than a minute apart, the same second is the same time.
LEMMA SameSecond ==
    ASSUME NEW a \in Nat, NEW b \in Nat, NEW m \in Nat \ {0}, a <= b, b < a + m, a % m = b % m
    PROVE  a = b
<1>. DEFINE p == a \div m
            q == b \div m
<1>1. a = p * m + (a % m) /\ b = q * m + (b % m) /\ p \in Nat /\ q \in Nat
  BY DivMod, Quotient
<1>2. a % m \in Int /\ p * m \in Int /\ q * m \in Int
  BY <1>1, Remainder
<1>. HIDE DEF p, q
<1>3. ~(p < q)
  <2>. SUFFICES ASSUME p < q PROVE FALSE
    OBVIOUS
  <2>1. p * m + m <= q * m
    BY <1>1, ProductJumps
  <2>. QED  BY <2>1, <1>1, <1>2
<1>4. ~(q < p)
  <2>. SUFFICES ASSUME q < p PROVE FALSE
    OBVIOUS
  <2>1. q * m + m <= p * m
    BY <1>1, ProductJumps
  <2>. QED  BY <2>1, <1>1, <1>2
<1>5. p = q
  BY <1>1, <1>3, <1>4
<1>. QED  BY <1>1, <1>5

----------------------------------------------------------------------------
\* The registers and their readers

LEMMA RegisterType ==
    ASSUME NEW r \in Ports, NEW n \in Nat
    PROVE  Register(r, n) \in Nat
<1>1. PerMinute \in Nat \ {0} /\ PerHour \in Nat \ {0} /\ PerDay \in Nat \ {0}
  BY RtcAssumption
<1>2. PerMinute * PerHour \in Nat \ {0}
  BY <1>1
<1>3. n % PerMinute \in Nat
  BY <1>1, Remainder
<1>4. (n \div PerMinute) % PerHour \in Nat
  BY <1>1, Quotient, Remainder
<1>5. (n \div (PerMinute * PerHour)) % PerDay \in Nat
  BY <1>1, <1>2, Quotient, Remainder
<1>. QED  BY <1>3, <1>4, <1>5 DEF Register, Ports

LEMMA ReadsAre ==
    /\ Len(Reads) = 4 /\ Reads[1] = "second" /\ Reads[2] = "minute" /\ Reads[3] = "hour"
    /\ Reads[4] = "second" /\ \A k \in 1 .. 4 : Reads[k] \in Fields
BY DEF Reads, Fields

LEMMA ReaderFields ==
    ASSUME NEW r \in Reader
    PROVE  /\ r.pc \in {"idle", "out", "in"} /\ r.k \in 1 .. 4 /\ r.since \in Times
           /\ r.rtc \in [Fields -> Nat]
BY ReadsAre DEF Reader, Fields, Times

LEMMA ShownType ==
    ASSUME NEW n \in Nat
    PROVE  /\ Shown(n) \in [Fields -> Nat]
           /\ \A f \in Fields : Shown(n)[f] = Register(f, n)
BY RegisterType DEF Shown, Fields, Ports

----------------------------------------------------------------------------
\* The steps

LEMMA InitRtc == RtcInit => RtcInv
<1>. SUFFICES ASSUME RtcInit PROVE RtcInv
  OBVIOUS
<1>1. /\ now = 0 /\ port = "second" /\ chosen = FALSE /\ shared = FALSE
      /\ reader = [p \in Readers |-> [pc |-> "idle", k |-> 1, since |-> 0, rtc |-> Shown(0)]]
      /\ 0 \in Times
  BY RtcAssumption DEF RtcInit, Times
<1>2. [pc |-> "idle", k |-> 1, since |-> 0, rtc |-> Shown(0)] \in Reader
  BY <1>1, ShownType, ReadsAre DEF Reader, Fields, Times
<1>3. RtcTypeOK
  BY <1>1, <1>2 DEF RtcTypeOK, Times
<1>4. \A p \in Readers : reader[p].pc = "idle" /\ reader[p].since = 0 /\ reader[p].rtc = Shown(0)
  BY <1>1
<1>5. ShownTime
  BY <1>1, <1>4 DEF ShownTime
<1>. QED  BY <1>3, <1>4, <1>5 DEF RtcInv, Alone, Reading

LEMMA KeepTick == RtcInv /\ ~shared /\ Tick => RtcInv'
<1>. SUFFICES ASSUME RtcInv, ~shared, Tick PROVE RtcInv'
  OBVIOUS
<1>1. /\ now < MaxTicks /\ now' = now + 1 /\ UNCHANGED <<port, reader, chosen, shared>>
      /\ \A p \in Readers : Reading(p) => now + 1 - reader[p].since < PerMinute
  BY DEF Tick
<1>2. /\ RtcTypeOK /\ Alone /\ ShownTime
      /\ \A p \in Readers : Reading(p) => InTime(reader[p], now)
      /\ \A p \in Readers : reader[p].pc = "in" => port = Reads[reader[p].k]
  BY DEF RtcInv
<1>3. now \in Times /\ now' \in Times /\ MaxTicks \in Nat /\ PerMinute \in Nat
  BY <1>1, <1>2, RtcAssumption DEF RtcTypeOK, Times
<1>4. RtcTypeOK'
  BY <1>1, <1>2, <1>3 DEF RtcTypeOK, Times
<1>5. ASSUME NEW p \in Readers, Reading(p) PROVE InTime(reader[p], now + 1)
  <2>1. reader[p] \in Reader /\ reader[p].since \in Times
    BY <1>2, ReaderFields DEF RtcTypeOK
  <2>2. PICK a \in Times, b \in Times, c \in Times : ReadAt(reader[p], now, a, b, c)
    BY <1>2, <1>5 DEF InTime
  <2>3. ReadAt(reader[p], now + 1, a, b, c)
    BY <2>1, <2>2, <1>3 DEF ReadAt, Times
  <2>4. reader[p].since <= now + 1 /\ now + 1 < reader[p].since + PerMinute
    BY <2>1, <1>1, <1>2, <1>3, <1>5 DEF InTime, Times
  <2>. QED  BY <2>3, <2>4 DEF InTime
<1>6. ShownTime'
  <2>1. ASSUME NEW p \in Readers, reader[p].pc = "idle"
        PROVE  \E n \in reader[p].since .. now + 1 : reader[p].rtc = Shown(n)
    <3>1. reader[p].since \in Int /\ now \in Int
      BY <1>2, <1>3, ReaderFields DEF RtcTypeOK, Times
    <3>. QED  BY <2>1, <3>1, <1>2 DEF ShownTime
  <2>. QED  BY <2>1, <1>1 DEF ShownTime
<1>. QED  BY <1>1, <1>2, <1>4, <1>5, <1>6 DEF RtcInv, Alone, Reading

\* What the step of one reader changes, if it is alone.
LEMMA OneReader ==
    ASSUME RtcInv, NEW p \in Readers, NEW r \in Reader, SetReader(p, r),
           UNCHANGED <<now, chosen>>, port' \in Ports, shared' \in BOOLEAN,
           ~shared' => /\ ~shared /\ \A q \in Readers \ {p} : ~Reading(q)
                       /\ r.pc # "idle" => InTime(r, now)
                       /\ r.pc = "idle" => \E n \in r.since .. now : r.rtc = Shown(n)
                       /\ r.pc = "in" => port' = Reads[r.k]
    PROVE  RtcInv'
<1>1. /\ reader' = [reader EXCEPT ![p] = r] /\ reader \in [Readers -> Reader]
      /\ reader' \in [Readers -> Reader]
  BY DEF SetReader, RtcInv, RtcTypeOK
<1>2. reader'[p] = r /\ \A q \in Readers \ {p} : reader'[q] = reader[q]
  BY <1>1
<1>3. RtcTypeOK'
  BY <1>1 DEF RtcInv, RtcTypeOK, Ports
<1>4. ASSUME ~shared' PROVE Alone' /\ ShownTime'
  <2>1. Alone'
    BY <1>2, <1>4 DEF Alone, Reading
  <2>2. ShownTime'
    BY <1>2, <1>4 DEF RtcInv, ShownTime
  <2>. QED  BY <2>1, <2>2
<1>5. ASSUME ~shared', NEW q \in Readers
      PROVE  /\ Reading(q)' => InTime(reader'[q], now)
             /\ reader'[q].pc = "in" => port' = Reads[reader'[q].k]
  BY <1>2, <1>5 DEF Reading
<1>. QED  BY <1>3, <1>4, <1>5 DEF RtcInv

LEMMA Restarted ==
    ASSUME NEW old \in Reader, now \in Times, NEW r,
           r = [old EXCEPT !.pc = "out", !.k = 1, !.since = now]
    PROVE  r \in Reader /\ r.pc = "out" /\ r.k = 1 /\ r.since = now
<1>1. now \in 0 .. MaxTicks /\ 1 \in 1 .. Len(Reads)
  BY ReadsAre DEF Times
<1>2. r \in Reader
  BY <1>1 DEF Reader
<1>3. r.pc = "out" /\ r.k = 1 /\ r.since = now
  BY <1>1 DEF Reader
<1>. QED  BY <1>2, <1>3

LEMMA KeepStart ==
    ASSUME RtcInv, ~shared, NEW p \in Readers, StartRtc(p)
    PROVE  RtcInv'
<1>1. PICK r : r = [reader[p] EXCEPT !.pc = "out", !.k = 1, !.since = now]
  OBVIOUS
<1>2. /\ SetReader(p, r) /\ UNCHANGED <<now, port, chosen>>
      /\ shared' = (shared \/ \E q \in Readers \ {p} : Reading(q))
  BY <1>1 DEF StartRtc
<1>3. /\ reader[p] \in Reader /\ now \in Times /\ port \in Ports /\ shared \in BOOLEAN
      /\ PerMinute \in Nat \ {0} /\ now \in Nat
  BY RtcAssumption DEF RtcInv, RtcTypeOK, Times, Ports
<1>4. r \in Reader /\ r.pc = "out" /\ r.k = 1 /\ r.since = now
  BY <1>1, <1>3, Restarted
<1>5. InTime(r, now)
  <2>1. ReadAt(r, now, now, now, now)
    BY <1>3, <1>4 DEF ReadAt
  <2>2. r.since <= now /\ now < r.since + PerMinute
    BY <1>3, <1>4
  <2>. QED  BY <2>1, <2>2, <1>3 DEF InTime
<1>. QED  BY <1>2, <1>3, <1>4, <1>5, OneReader

LEMMA KeepOut ==
    ASSUME RtcInv, ~shared, NEW p \in Readers, Out(p)
    PROVE  RtcInv'
<1>1. PICK r : r = [reader[p] EXCEPT !.pc = "in"]
  OBVIOUS
<1>2. /\ SetReader(p, r) /\ UNCHANGED <<now, chosen, shared>> /\ reader[p].pc = "out"
      /\ port' = Reads[reader[p].k]
  BY <1>1 DEF Out
<1>3. reader[p] \in Reader /\ shared \in BOOLEAN
  BY DEF RtcInv, RtcTypeOK
<1>4. /\ r \in Reader /\ r.pc = "in" /\ r.k = reader[p].k /\ r.since = reader[p].since
      /\ r.rtc = reader[p].rtc
  BY <1>1, <1>3 DEF Reader
<1>5. port' \in Ports
  BY <1>2, <1>3, ReaderFields, ReadsAre DEF Ports, Fields
<1>6. InTime(r, now) /\ \A q \in Readers \ {p} : ~Reading(q)
  BY <1>2, <1>4 DEF RtcInv, InTime, ReadAt, Alone, Reading
<1>. QED  BY <1>2, <1>3, <1>4, <1>5, <1>6, OneReader

LEMMA KeepIn ==
    ASSUME RtcInv, ~shared, NEW p \in Readers, In(p)
    PROVE  RtcInv'
<1>. DEFINE old == reader[p]
            k == old.k
            value == Register(port, now)
<1>1. PICK r : /\ SetReader(p, r)
               /\ r = IF k < 4
                      THEN [old EXCEPT !.pc = "out", !.k = k + 1, !.rtc[Reads[k]] = value]
                      ELSE IF value # old.rtc["second"]
                      THEN [old EXCEPT !.pc = "out", !.k = 1, !.since = now]
                      ELSE [old EXCEPT !.pc = "idle"]
  BY ReadsAre DEF In, Again
<1>2. UNCHANGED <<now, port, chosen, shared>> /\ old.pc = "in"
  BY DEF In
<1>3. /\ old \in Reader /\ shared \in BOOLEAN /\ port \in Ports /\ now \in Times /\ now \in Nat
      /\ PerMinute \in Nat \ {0} /\ Times \subseteq Nat
  BY RtcAssumption DEF RtcInv, RtcTypeOK, Ports, Times
<1>4. /\ k \in 1 .. 4 /\ old.since \in Times /\ old.rtc \in [Fields -> Nat]
      /\ Reads[k] \in Fields /\ value \in Nat
  BY <1>3, ReaderFields, ReadsAre, RegisterType
<1>5. /\ port = Reads[k] /\ InTime(old, now) /\ \A q \in Readers \ {p} : ~Reading(q)
  BY <1>2 DEF RtcInv, Alone, Reading
<1>6. PICK a \in Times, b \in Times, c \in Times : ReadAt(old, now, a, b, c)
  BY <1>5 DEF InTime
<1>7. old.since <= now /\ now < old.since + PerMinute
  BY <1>5 DEF InTime
<1>8. CASE k < 4
  <2>1. r = [old EXCEPT !.pc = "out", !.k = k + 1, !.rtc[Reads[k]] = value]
    BY <1>1, <1>8
  <2>2. k + 1 \in 1 .. 4
    BY <1>4, <1>8
  <2>3. /\ r.pc = "out" /\ r.k = k + 1 /\ r.since = old.since
        /\ r.rtc = [old.rtc EXCEPT ![Reads[k]] = value]
    BY <2>1, <1>3 DEF Reader
  <2>4. r \in Reader
    BY <2>1, <2>2, <1>3, <1>4, ReadsAre DEF Reader, Fields
  <2>5. r.rtc[Reads[k]] = value /\ \A f \in Fields \ {Reads[k]} : r.rtc[f] = old.rtc[f]
    BY <2>3, <1>4
  <2>6. \E n1, n2, n3 \in Times : ReadAt(r, now, n1, n2, n3)
    <3>0. a \in Int /\ b \in Int /\ c \in Int /\ old.since \in Int /\ now \in Int
      <4>1. Times \subseteq Int
        BY <1>3
      <4>. QED  BY <4>1, <1>3, <1>4
    <3>1. CASE k = 1
      <4>1. ReadAt(r, now, now, now, now)
        BY <3>0, <3>1, <2>3, <2>5, <1>5, <1>7, ReadsAre DEF ReadAt
      <4>. QED  BY <4>1, <1>3
    <3>2. CASE k = 2
      <4>1. ReadAt(r, now, a, now, now)
        BY <3>0, <3>2, <2>3, <2>5, <1>5, <1>6, ReadsAre DEF ReadAt, Fields
      <4>. QED  BY <4>1, <1>3
    <3>3. CASE k = 3
      <4>1. ReadAt(r, now, a, b, now)
        BY <3>0, <3>3, <2>3, <2>5, <1>5, <1>6, ReadsAre DEF ReadAt, Fields
      <4>. QED  BY <4>1, <1>3
    <3>. QED  BY <3>1, <3>2, <3>3, <1>4, <1>8
  <2>7. InTime(r, now)
    BY <2>3, <2>6, <1>7 DEF InTime
  <2>. QED  BY <2>3, <2>4, <2>7, <1>1, <1>2, <1>3, <1>5, OneReader
<1>9. CASE ~(k < 4) /\ value # old.rtc["second"]
  <2>1. r = [old EXCEPT !.pc = "out", !.k = 1, !.since = now]
    BY <1>1, <1>9
  <2>2. r \in Reader /\ r.pc = "out" /\ r.k = 1 /\ r.since = now
    BY <2>1, <1>3, Restarted
  <2>3. ReadAt(r, now, now, now, now)
    BY <2>2, <1>3 DEF ReadAt
  <2>4. now <= now /\ now < now + PerMinute
    BY <1>3
  <2>5. InTime(r, now)
    BY <2>2, <2>3, <2>4, <1>3 DEF InTime
  <2>. QED  BY <2>2, <2>5, <1>1, <1>2, <1>3, <1>5, OneReader
<1>10. CASE ~(k < 4) /\ value = old.rtc["second"]
  <2>1. r = [old EXCEPT !.pc = "idle"]
    BY <1>1, <1>10
  <2>2. r \in Reader /\ r.pc = "idle" /\ r.since = old.since /\ r.rtc = old.rtc
    BY <2>1, <1>3 DEF Reader
  <2>3. k = 4
    BY <1>4, <1>10
  <2>4. /\ old.rtc["second"] = Register("second", a) /\ old.rtc["minute"] = Register("minute", b)
        /\ old.rtc["hour"] = Register("hour", c)
        /\ old.since <= a /\ a <= b /\ b <= c /\ c <= now
    BY <2>3, <1>6 DEF ReadAt
  <2>5. a % PerMinute = now % PerMinute
    BY <2>3, <2>4, <1>5, <1>10, ReadsAre DEF Register
  <2>6. a \in Nat /\ b \in Nat /\ c \in Nat /\ old.since \in Nat
    BY <1>3, <1>4
  <2>7. a <= now /\ now < a + PerMinute
    BY <2>4, <2>6, <1>3, <1>7
  <2>8. a = now
    BY <2>5, <2>6, <2>7, <1>3, SameSecond
  <2>9. b = now /\ c = now
    BY <2>4, <2>6, <2>8, <1>3
  <2>10. r.rtc = Shown(now)
    <3>1. \A f \in Fields : old.rtc[f] = Shown(now)[f]
      BY <2>4, <2>8, <2>9, <1>3, ShownType DEF Fields
    <3>2. Shown(now) \in [Fields -> Nat]
      BY <1>3, ShownType
    <3>. QED  BY <2>2, <3>1, <3>2, <1>4
  <2>11. now \in r.since .. now
    BY <2>2, <2>6, <1>3, <1>7
  <2>. QED  BY <2>2, <2>10, <2>11, <1>1, <1>2, <1>3, <1>5, OneReader
<1>. QED  BY <1>8, <1>9, <1>10

LEMMA KeepChoose == RtcInv /\ ChooseShutdown => RtcInv'
<1>. SUFFICES ASSUME RtcInv, ChooseShutdown PROVE RtcInv'
  OBVIOUS
<1>1. /\ port' = "shutdown" /\ shared' = (shared \/ \E p \in Readers : Reading(p))
      /\ chosen' = TRUE /\ UNCHANGED <<now, reader>>
  BY DEF ChooseShutdown
<1>2. RtcTypeOK'
  BY <1>1 DEF RtcInv, RtcTypeOK
<1>3. ~shared' => ~shared /\ \A p \in Readers : reader[p].pc = "idle"
  BY <1>1 DEF Reading
<1>. QED  BY <1>1, <1>2, <1>3 DEF RtcInv, ShownTime, Alone, Reading

LEMMA KeepShutdown == RtcInv /\ WriteShutdown => RtcInv'
<1>. SUFFICES ASSUME RtcInv, WriteShutdown PROVE RtcInv'
  OBVIOUS
<1>1. /\ shared' \in BOOLEAN /\ (~shared' => ~shared)
      /\ chosen' = FALSE /\ UNCHANGED <<now, port, reader>>
  BY DEF WriteShutdown, RtcInv, RtcTypeOK
<1>2. RtcTypeOK'
  BY <1>1 DEF RtcInv, RtcTypeOK
<1>. QED  BY <1>1, <1>2 DEF RtcInv, ShownTime, Alone, Reading, InTime, ReadAt

LEMMA NextRtc == RtcInv /\ [RtcNext]_rtcVars => RtcInv'
<1>. SUFFICES ASSUME RtcInv, [RtcNext]_rtcVars PROVE RtcInv'
  OBVIOUS
<1>1. CASE UNCHANGED rtcVars
  BY <1>1 DEF rtcVars, RtcInv, RtcTypeOK, Alone, Reading, ShownTime
<1>2. CASE RtcNext
  BY <1>2, KeepTick, KeepStart, KeepOut, KeepIn, KeepChoose,
      KeepShutdown DEF RtcNext
<1>. QED  BY <1>1, <1>2

(***************************************************************************)
(* While nobody disturbs a processor in timer_rtc, the registers it has    *)
(* read so far are each of a time since its loop began, in their order.    *)
(***************************************************************************)
THEOREM RtcInductive == RtcSpec => []RtcInv
<1>. QED  BY InitRtc, NextRtc, PTL DEF RtcSpec

(***************************************************************************)
(* The types of the clock, of the port and of the locals of timer_rtc.     *)
(***************************************************************************)
THEOREM RtcTypeCorrect == RtcSpec => []RtcTypeOK
<1>1. RtcInv => RtcTypeOK
  BY DEF RtcInv
<1>. QED  BY <1>1, RtcInductive, PTL

(***************************************************************************)
(* The time that timer_rtc returns is one that the clock has shown, for    *)
(* any lengths of a minute, an hour and a day, as long as its processor is *)
(* alone with the two ports: seconds that are read equal less than a       *)
(* minute apart are the same second.                                       *)
(***************************************************************************)
THEOREM TimeIsShown == RtcSpec => []ShownTime
<1>1. RtcInv => ShownTime
  BY DEF RtcInv, ShownTime
<1>. QED  BY <1>1, RtcInductive, PTL
=============================================================================
