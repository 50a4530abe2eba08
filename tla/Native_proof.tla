---------------------------- MODULE Native_proof ----------------------------
(***************************************************************************)
(* Theorems about the start of AM native (NativeBoot): the devices are     *)
(* ready when the processors enter the program, whatever their number and  *)
(* whatever they do first.  About its address spaces (PageMaps): the user  *)
(* program sees its own.  And about Native: what holds of the parts holds  *)
(* of them put together, as every step of the composition is a step of     *)
(* each part, or leaves it alone.                                          *)
(***************************************************************************)
EXTENDS Native, NativeDevices_proof, FiniteSetTheorems

(***************************************************************************)
(* Address spaces.  What a processor has mapped in the middle of a switch  *)
(* is a part of the list it walks along, so the proof numbers the pages of *)
(* every list from its end (List): a processor that leaves a space has the *)
(* pages up to the one it has come to, one that enters has those before it *)
(* (Has).                                                                  *)
(***************************************************************************)

Pages == [Vas -> [pa : Pas \cup {Null}, next : Vas \cup {Null}, is_mapped : BOOLEAN]]
Steps == [pc : {"no", "leave", "enter"}, to : Spaces \cup {Null}, pp : Vas \cup {Null}]

Rank(v, r) == IF v = Null THEN 0 ELSE r[v]

\* The pages pm of a space form a list from hd on; r numbers them from its end.
List(hd, pm, r) ==
    /\ \A v \in Vas : r[v] = 0 <=> pm[v].pa = Null
    /\ \A v, w \in Vas : r[v] = r[w] /\ r[v] > 0 => v = w
    /\ hd # Null => r[hd] > 0
    /\ \A v \in Vas : r[v] <= Rank(hd, r)
    /\ \A v \in Vas : r[v] > 0 => /\ Rank(pm[v].next, r) = r[v] - 1
                                  /\ pm[v].next # Null => r[pm[v].next] > 0

\* The pages that a processor has mapped when it has come to pp.
Has(step, r, v) ==
    \/ step.pc = "no" /\ r[v] > 0
    \/ step.pc = "leave" /\ r[v] > 0 /\ r[v] <= Rank(step.pp, r)
    \/ step.pc = "enter" /\ r[v] > Rank(step.pp, r)

\* What it sees of the space it is in.
Sees(step, h, pm, r) ==
    /\ step.pp # Null => r[step.pp] > 0
    /\ \A v \in Vas : h[v] = IF Has(step, r, v) THEN pm[v].pa ELSE Null
    /\ \A v \in Vas : Has(step, r, v) => pm[v].is_mapped

LEMMA RankType ==
    ASSUME NEW r \in [Vas -> Nat], NEW v \in Vas \cup {Null} PROVE Rank(v, r) \in Nat
BY DEF Rank

LEMMA ListInsert ==
    ASSUME NEW hd \in Vas \cup {Null}, NEW pm \in Pages, NEW r \in [Vas -> Nat],
           List(hd, pm, r), NEW va \in Vas, r[va] = 0, NEW a \in Pas, NEW b \in BOOLEAN,
           NEW m, m = [pa |-> a, next |-> hd, is_mapped |-> b],
           NEW pm2, pm2 = [pm EXCEPT ![va] = m],
           NEW r2, r2 = [r EXCEPT ![va] = Rank(hd, r) + 1]
    PROVE  List(va, pm2, r2) /\ r2 \in [Vas -> Nat]
<1>1. Rank(hd, r) \in Nat /\ va # Null /\ a # Null
  BY RankType, PageMapsAssumption
<1>2. r2 \in [Vas -> Nat] /\ r2[va] = Rank(hd, r) + 1
      /\ \A v \in Vas : v # va => r2[v] = r[v] /\ pm2[v] = pm[v]
  BY <1>1
<1>3. pm2[va].pa = a /\ pm2[va].next = hd
  BY DEF Pages
<1>4. Rank(va, r2) = Rank(hd, r) + 1
  BY <1>1, <1>2 DEF Rank
<1>5. \A v \in Vas : r[v] <= Rank(hd, r)
  BY DEF List
<1>6. \A v \in Vas : r2[v] = 0 <=> pm2[v].pa = Null
  BY <1>1, <1>2, <1>3 DEF List
<1>7. \A v, w \in Vas : r2[v] = r2[w] /\ r2[v] > 0 => v = w
  <2> SUFFICES ASSUME NEW v \in Vas, NEW w \in Vas, r2[v] = r2[w], r2[v] > 0 PROVE v = w
    OBVIOUS
  <2>1. v # va => r2[v] < r2[va]
    BY <1>1, <1>2, <1>5
  <2>2. w # va => r2[w] < r2[va]
    BY <1>1, <1>2, <1>5
  <2>3. v # va /\ w # va => v = w
    BY <1>2 DEF List
  <2> QED
    BY <2>1, <2>2, <2>3, <1>2
<1>8. \A v \in Vas : r2[v] <= Rank(va, r2)
  BY <1>1, <1>2, <1>4, <1>5
<1>9. \A v \in Vas \cup {Null} : v # va => Rank(v, r2) = Rank(v, r)
  BY <1>2 DEF Rank
<1>10. \A v \in Vas : r2[v] > 0 => /\ Rank(pm2[v].next, r2) = r2[v] - 1
                                   /\ pm2[v].next # Null => r2[pm2[v].next] > 0
  <2> SUFFICES ASSUME NEW v \in Vas, r2[v] > 0
               PROVE  /\ Rank(pm2[v].next, r2) = r2[v] - 1
                      /\ pm2[v].next # Null => r2[pm2[v].next] > 0
    OBVIOUS
  <2>1. CASE v = va
    <3>1. hd # va
      BY <1>1 DEF List
    <3> QED
      <4>1. Rank(hd, r2) = Rank(hd, r)
        BY <3>1, <1>9
      <4>2. hd # Null => r2[hd] = r[hd] /\ r[hd] > 0
        BY <3>1, <1>2 DEF List
      <4>3. Rank(pm2[va].next, r2) = r2[va] - 1
        BY <4>1, <1>1, <1>2, <1>3
      <4> QED
        BY <2>1, <4>2, <4>3, <1>3
  <2>2. CASE v # va
    <3>1. r[v] > 0 /\ pm2[v].next = pm[v].next /\ pm[v].next \in Vas \cup {Null}
      BY <2>2, <1>2 DEF Pages
    <3>2. Rank(pm[v].next, r) = r[v] - 1 /\ (pm[v].next # Null => r[pm[v].next] > 0)
      BY <2>2, <3>1 DEF List
    <3>3. pm[v].next # va
      BY <3>2, <1>1
    <3>4. Rank(pm[v].next, r2) = r[v] - 1
      BY <3>1, <3>2, <3>3, <1>9
    <3>5. pm[v].next # Null => r2[pm[v].next] > 0
      BY <3>1, <3>2, <3>3, <1>2
    <3>6. r2[v] = r[v]
      BY <2>2, <1>2
    <3> QED
      BY <3>1, <3>4, <3>5, <3>6
  <2> QED
    BY <2>1, <2>2
<1>11. r2[va] > 0
  BY <1>1, <1>2
<1> QED
  BY <1>2, <1>6, <1>7, <1>8, <1>10, <1>11 DEF List

LEMMA ListMark ==
    ASSUME NEW hd, NEW pm \in Pages, NEW r, List(hd, pm, r), NEW pm2,
           \A v \in Vas : pm2[v].pa = pm[v].pa /\ pm2[v].next = pm[v].next
    PROVE  List(hd, pm2, r)
BY DEF List

\* A step along the list.
LEMMA ListNext ==
    ASSUME NEW hd, NEW pm \in Pages, NEW r \in [Vas -> Nat], List(hd, pm, r),
           NEW pp \in Vas, r[pp] > 0
    PROVE  /\ pm[pp].next # Null => r[pm[pp].next] > 0
           /\ \A v \in Vas : r[v] > 0 /\ r[v] <= Rank(pp, r)
                               <=> v = pp \/ (r[v] > 0 /\ r[v] <= Rank(pm[pp].next, r))
           /\ \A v \in Vas : r[v] > Rank(pm[pp].next, r) <=> v = pp \/ r[v] > Rank(pp, r)
<1>1. Rank(pm[pp].next, r) = r[pp] - 1 /\ Rank(pp, r) = r[pp]
  BY PageMapsAssumption DEF List, Rank
<1>2. \A v \in Vas : r[v] = r[pp] => v = pp
  BY DEF List
<1> QED
  BY <1>1, <1>2 DEF List

\* What a processor sees when its switch goes on, step by step.
LEMMA SeesLeaving ==
    ASSUME NEW hd, NEW pm, NEW r, List(hd, pm, r), NEW h, NEW to,
           NEW s, Sees(s, h, pm, r), s.pc = "no"
    PROVE  Sees([pc |-> "leave", to |-> to, pp |-> hd], h, pm, r)
BY DEF List, Sees, Has

LEMMA SeesLeft ==
    ASSUME NEW pm, NEW r \in [Vas -> Nat], NEW h, NEW s, Sees(s, h, pm, r),
           s.pc = "leave", s.pp = Null
    PROVE  \A v \in Vas : h[v] = Null
BY DEF Sees, Has, Rank

LEMMA SeesEntering ==
    ASSUME NEW hd \in Vas \cup {Null}, NEW pm, NEW r \in [Vas -> Nat], List(hd, pm, r),
           NEW h, \A v \in Vas : h[v] = Null, NEW to
    PROVE  Sees([pc |-> "enter", to |-> to, pp |-> hd], h, pm, r)
<1>1. Rank(hd, r) \in Nat
  BY RankType
<1>2. \A v \in Vas : ~(r[v] > Rank(hd, r))
  BY <1>1 DEF List
<1> QED
  BY <1>2 DEF List, Sees, Has

LEMMA SeesEntered ==
    ASSUME NEW pm, NEW r, NEW h, NEW s, Sees(s, h, pm, r), s.pc = "enter", s.pp = Null
    PROVE  Sees(NotSwitching, h, pm, r)
BY DEF Sees, Has, Rank, NotSwitching

LEMMA SeesLeavePage ==
    ASSUME NEW hd, NEW pm \in Pages, NEW r \in [Vas -> Nat], List(hd, pm, r),
           NEW h \in [Vas -> Pas \cup {Null}],
           NEW s \in Steps, Sees(s, h, pm, r), s.pc = "leave", s.pp # Null,
           NEW s2, s2 = [s EXCEPT !.pp = pm[s.pp].next],
           NEW h2, h2 = [h EXCEPT ![s.pp] = Null],
           NEW pm2, pm2 = [pm EXCEPT ![s.pp].is_mapped = FALSE]
    PROVE  Sees(s2, h2, pm2, r)
<1> DEFINE pp == s.pp
<1>1. pp \in Vas /\ r[pp] > 0
  BY DEF Sees, Steps
<1>2. s2.pc = "leave" /\ s2.pp = pm[pp].next
  BY DEF Steps
<1>3. \A v \in Vas : Has(s, r, v) <=> r[v] > 0 /\ r[v] <= Rank(pp, r)
  BY DEF Has
<1>4. \A v \in Vas : Has(s2, r, v) <=> r[v] > 0 /\ r[v] <= Rank(pm[pp].next, r)
  BY <1>2 DEF Has
<1>5. Rank(pp, r) = r[pp] /\ Rank(pm[pp].next, r) = r[pp] - 1
  BY <1>1, PageMapsAssumption DEF Rank, List
<1>6. Has(s, r, pp) /\ ~Has(s2, r, pp)
  BY <1>1, <1>3, <1>4, <1>5
<1>7. /\ pm[pp].next # Null => r[pm[pp].next] > 0
      /\ \A v \in Vas : v # pp => (Has(s, r, v) <=> Has(s2, r, v))
  BY <1>1, <1>3, <1>4, ListNext
<1>8. \A v \in Vas : v # pp => h2[v] = h[v] /\ pm2[v] = pm[v]
  OBVIOUS
<1>9. h2[pp] = Null
  BY <1>1
<1> HIDE DEF pp
<1> QED
  BY <1>1, <1>2, <1>6, <1>7, <1>8, <1>9 DEF Sees, pp

LEMMA SeesEnterPage ==
    ASSUME NEW hd, NEW pm \in Pages, NEW r \in [Vas -> Nat], List(hd, pm, r),
           NEW h \in [Vas -> Pas \cup {Null}],
           NEW s \in Steps, Sees(s, h, pm, r), s.pc = "enter", s.pp # Null,
           NEW s2, s2 = [s EXCEPT !.pp = pm[s.pp].next],
           NEW h2, h2 = [h EXCEPT ![s.pp] = pm[s.pp].pa],
           NEW pm2, pm2 = [pm EXCEPT ![s.pp].is_mapped = TRUE]
    PROVE  Sees(s2, h2, pm2, r)
<1> DEFINE pp == s.pp
<1>1. pp \in Vas /\ r[pp] > 0
  BY DEF Sees, Steps
<1>2. s2.pc = "enter" /\ s2.pp = pm[pp].next
  BY DEF Steps
<1>3. \A v \in Vas : Has(s, r, v) <=> r[v] > Rank(pp, r)
  BY DEF Has
<1>4. \A v \in Vas : Has(s2, r, v) <=> r[v] > Rank(pm[pp].next, r)
  BY <1>2 DEF Has
<1>5. Rank(pp, r) = r[pp] /\ Rank(pm[pp].next, r) = r[pp] - 1
  BY <1>1, PageMapsAssumption DEF Rank, List
<1>6. Has(s2, r, pp)
  BY <1>1, <1>4, <1>5
<1>7. /\ pm[pp].next # Null => r[pm[pp].next] > 0
      /\ \A v \in Vas : v # pp => (Has(s, r, v) <=> Has(s2, r, v))
  BY <1>1, <1>3, <1>4, ListNext
<1>8. \A v \in Vas : v # pp => h2[v] = h[v] /\ pm2[v] = pm[v]
  OBVIOUS
<1>9. h2[pp] = pm[pp].pa /\ pm2[pp].pa = pm[pp].pa /\ pm2[pp].is_mapped
  BY <1>1 DEF Pages
<1> HIDE DEF pp
<1> QED
  BY <1>1, <1>2, <1>6, <1>7, <1>8, <1>9 DEF Sees

LEMMA SeesMap ==
    ASSUME NEW pm, NEW r, NEW h, NEW s, Sees(s, h, pm, r), s.pc = "no", s.pp = Null,
           NEW va \in Vas, NEW pm2, NEW r2, NEW h2,
           r2[va] > 0, h2[va] = pm2[va].pa, pm2[va].is_mapped,
           \A v \in Vas \ {va} : r2[v] = r[v] /\ h2[v] = h[v] /\ pm2[v] = pm[v]
    PROVE  Sees(s, h2, pm2, r2)
BY DEF Sees, Has

----------------------------------------------------------------------------
\* The invariant

\* PageMapsTypeOK, with names for its parts.
Typed ==
    /\ head \in [Spaces -> Vas \cup {Null}] /\ pagemap \in [Spaces -> Pages]
    /\ vm_head \in [Processors -> Spaces \cup {Null}]
    /\ host \in [Processors -> [Vas -> Pas \cup {Null}]]
    /\ switching \in [Processors -> Steps]
    /\ remapped \subseteq Spaces /\ strayed \subseteq Spaces

\* No two processors have used a space at once, no page was mapped again.
Calm == strayed = {} /\ remapped = {}

\* The space of which p has something mapped.
Here(p) == IF switching[p].pc = "enter" THEN switching[p].to ELSE vm_head[p]

View(p, r) ==
    IF Here(p) = Null THEN switching[p].pp = Null /\ \A v \in Vas : host[p][v] = Null
    ELSE Sees(switching[p], host[p], pagemap[Here(p)], r[Here(p)])

Numbers == [Spaces -> [Vas -> Nat]]

Lists(r) == \A sp \in Spaces : List(head[sp], pagemap[sp], r[sp])

Apart == \A p, q \in Processors : p # q => UsedBy(p) \cap UsedBy(q) = {}

\* Who walks has a list to walk along.
PlacedStep(step, c) ==
    /\ step.pc = "no" => step.to = Null /\ step.pp = Null
    /\ step.pc = "leave" => c # Null
    /\ step.pc = "enter" /\ step.to = Null => step.pp = Null

Placed == \A p \in Processors : PlacedStep(switching[p], vm_head[p])

\* r shows the lists to be lists, and every processor to have its part of one.
Seen(r) == Lists(r) /\ \A p \in Processors : View(p, r)

PageMapsInv ==
    /\ Typed /\ Placed
    /\ Calm => Apart /\ \E r \in Numbers : Seen(r)

LEMMA InitPageMaps == PageMapsInit => PageMapsInv
<1> SUFFICES ASSUME PageMapsInit PROVE PageMapsInv
  OBVIOUS
<1>1. Typed
  BY DEF PageMapsInit, Typed, Pages, Steps, Unmapped, NotSwitching
<1>2. Apart /\ Placed
  BY DEF PageMapsInit, Apart, Placed, PlacedStep, UsedBy, NotSwitching
<1> DEFINE r == [sp \in Spaces |-> [v \in Vas |-> 0]]
<1>3. r \in Numbers
  BY DEF Numbers
<1>4. Lists(r)
  BY DEF PageMapsInit, Lists, List, Rank
<1>5. \A p \in Processors : View(p, r)
  BY DEF PageMapsInit, View, Here, NotSwitching, Unmapped
<1> HIDE DEF r
<1> QED
  BY <1>1, <1>2, <1>3, <1>4, <1>5 DEF PageMapsInv, Seen

LEMMA TypedIsTypeOK == Typed <=> PageMapsTypeOK
BY DEF Typed, PageMapsTypeOK, Pages, Steps

LEMMA HostTyped ==
    Typed => \A p \in Processors, va \in Vas, a \in Pas \cup {Null} :
                [host EXCEPT ![p][va] = a] \in [Processors -> [Vas -> Pas \cup {Null}]]
BY DEF Typed

LEMMA PageTyped ==
    Typed => \A sp \in Spaces, va \in Vas :
                \A m \in [pa : Pas \cup {Null}, next : Vas \cup {Null}, is_mapped : BOOLEAN] :
                   [pagemap EXCEPT ![sp][va] = m] \in [Spaces -> Pages]
BY DEF Typed, Pages

LEMMA MarkTyped ==
    Typed => \A sp \in Spaces, va \in Vas, b \in BOOLEAN :
                [pagemap EXCEPT ![sp][va].is_mapped = b] \in [Spaces -> Pages]
<1> SUFFICES ASSUME Typed, NEW sp \in Spaces, NEW va \in Vas, NEW b \in BOOLEAN
             PROVE  [pagemap EXCEPT ![sp][va].is_mapped = b] \in [Spaces -> Pages]
  OBVIOUS
<1>1. [pagemap[sp][va] EXCEPT !.is_mapped = b]
        \in [pa : Pas \cup {Null}, next : Vas \cup {Null}, is_mapped : BOOLEAN]
  <2>1. pagemap[sp] \in Pages
    BY DEF Typed
  <2>2. pagemap[sp][va] \in [pa : Pas \cup {Null}, next : Vas \cup {Null}, is_mapped : BOOLEAN]
    BY <2>1 DEF Pages
  <2> QED
    BY <2>2
<1>2. [pagemap EXCEPT ![sp][va].is_mapped = b]
        = [pagemap EXCEPT ![sp][va] = [pagemap[sp][va] EXCEPT !.is_mapped = b]]
  OBVIOUS
<1> QED
  BY <1>1, <1>2, PageTyped

\* A step of a switch.
LEMMA StepTyped ==
    ASSUME Typed, Placed, NEW p \in Processors, NEW s \in Steps,
           switching' = [switching EXCEPT ![p] = s], PlacedStep(s, vm_head'[p]),
           \A q \in Processors \ {p} : vm_head'[q] = vm_head[q]
    PROVE  switching' \in [Processors -> Steps] /\ Placed'
<1>1. switching' \in [Processors -> Steps]
  BY DEF Typed
<1>2. switching'[p] = s /\ \A q \in Processors \ {p} : switching'[q] = switching[q]
  BY DEF Typed
<1>3. ASSUME NEW q \in Processors PROVE PlacedStep(switching'[q], vm_head'[q])
  <2>1. PlacedStep(switching[q], vm_head[q])
    BY DEF Placed
  <2> QED
    BY <1>2, <2>1
<1> QED
  BY <1>1, <1>3 DEF Placed, PlacedStep

\* The beginning of the second walk.
EnterStep(to) == [pc |-> "enter", to |-> to, pp |-> IF to = Null THEN Null ELSE head[to]]

LEMMA EnterTyped ==
    ASSUME Typed, NEW to \in Spaces \cup {Null}
    PROVE  EnterStep(to) \in Steps /\ \A c : PlacedStep(EnterStep(to), c)
BY DEF Typed, EnterStep, Steps, PlacedStep

LEMMA PageMapsTypes ==
    ASSUME Typed, Placed, NEW p \in Processors, VmStep(p)
    PROVE  Typed' /\ Placed'
<1>1. ASSUME NEW sp \in Spaces, NEW va \in Vas, NEW pa \in Pas, Map(p, sp, va, pa)
      PROVE  Typed' /\ Placed'
  <2>1. pagemap' \in [Spaces -> Pages]
    <3>1. [pa |-> pa, next |-> head[sp], is_mapped |-> vm_head[p] = sp]
            \in [pa : Pas \cup {Null}, next : Vas \cup {Null}, is_mapped : BOOLEAN]
      BY DEF Typed
    <3>2. pagemap' = [pagemap EXCEPT ![sp][va] =
                        [pa |-> pa, next |-> head[sp], is_mapped |-> vm_head[p] = sp]]
      BY <1>1 DEF Map, LinkNext, Marked
    <3> QED
      BY <3>1, <3>2, PageTyped
  <2>2. host' \in [Processors -> [Vas -> Pas \cup {Null}]]
    <3>1. [host EXCEPT ![p][va] = pa] \in [Processors -> [Vas -> Pas \cup {Null}]]
      BY HostTyped
    <3>2. host' = host \/ host' = [host EXCEPT ![p][va] = pa]
      BY <1>1 DEF Map, SetHost
    <3> QED
      BY <3>1, <3>2 DEF Typed
  <2>3. remapped' \subseteq Spaces /\ strayed' \subseteq Spaces
    BY <1>1 DEF Map, Stray, Typed
  <2> QED
    BY <1>1, <2>1, <2>2, <2>3 DEF Map, Placed, Typed
<1>2. ASSUME NEW to \in Spaces \cup {Null}, Switch(p, to) PROVE Typed' /\ Placed'
  <2>1. PICK s \in Steps : switching' = [switching EXCEPT ![p] = s] /\ PlacedStep(s, vm_head[p])
    <3>1. CASE vm_head[p] = Null
      BY <1>2, <3>1, EnterTyped DEF Switch, Enter, SetSwitching, EnterStep
    <3>2. CASE vm_head[p] # Null
      <4> DEFINE s == [pc |-> "leave", to |-> to, pp |-> head[vm_head[p]]]
      <4>1. s \in Steps /\ PlacedStep(s, vm_head[p])
        BY <3>2 DEF Typed, Steps, PlacedStep
      <4>2. switching' = [switching EXCEPT ![p] = s]
        BY <1>2, <3>2 DEF Switch, SetSwitching
      <4> QED
        BY <4>1, <4>2
    <3> QED
      BY <3>1, <3>2
  <2>2. vm_head' = vm_head /\ head' = head /\ pagemap' = pagemap /\ host' = host
        /\ remapped' = remapped /\ strayed' \subseteq Spaces
    BY <1>2 DEF Switch, Stray, Typed, UsedBy
  <2>3. switching' \in [Processors -> Steps] /\ Placed'
    BY <2>1, <2>2, StepTyped
  <2> QED
    BY <2>2, <2>3 DEF Typed
<1>3. CASE LeavePage(p)
  <2>1. vm_head[p] \in Spaces /\ switching[p].pp \in Vas /\ switching[p] \in Steps
        /\ switching[p].pc = "leave"
    BY <1>3 DEF LeavePage, Placed, PlacedStep, Steps, Typed
  <2>2. pagemap[vm_head[p]][switching[p].pp].next \in Vas \cup {Null}
    BY <2>1 DEF Pages, Typed
  <2>3. pagemap' \in [Spaces -> Pages]
    <3>1. pagemap' = pagemap \/
            pagemap' = [pagemap EXCEPT ![vm_head[p]][switching[p].pp].is_mapped = FALSE]
      BY <1>3 DEF LeavePage
    <3>2. [pagemap EXCEPT ![vm_head[p]][switching[p].pp].is_mapped = FALSE] \in [Spaces -> Pages]
      BY <2>1, MarkTyped
    <3>3. pagemap \in [Spaces -> Pages]
      BY DEF Typed
    <3> QED
      BY <2>1, <3>1, <3>2, <3>3
  <2>4. host' \in [Processors -> [Vas -> Pas \cup {Null}]]
    <3>1. host' = host \/ host' = [host EXCEPT ![p][switching[p].pp] = Null]
      BY <1>3 DEF LeavePage, SetHost
    <3>2. [host EXCEPT ![p][switching[p].pp] = Null] \in [Processors -> [Vas -> Pas \cup {Null}]]
      BY <2>1, HostTyped
    <3>3. host \in [Processors -> [Vas -> Pas \cup {Null}]]
      BY DEF Typed
    <3> QED
      BY <3>1, <3>2, <3>3
  <2> DEFINE s == [switching[p] EXCEPT !.pp = pagemap[vm_head[p]][switching[p].pp].next]
  <2>5. s \in Steps /\ PlacedStep(s, vm_head[p])
    BY <2>1, <2>2, PageMapsAssumption DEF Steps, PlacedStep
  <2>6. switching' = [switching EXCEPT ![p] = s] /\ vm_head' = vm_head
    BY <1>3 DEF LeavePage, SetSwitching
  <2> HIDE DEF s
  <2>7. switching' \in [Processors -> Steps] /\ Placed'
    BY <2>5, <2>6, StepTyped
  <2> QED
    BY <1>3, <2>3, <2>4, <2>7 DEF LeavePage, Typed
<1>4. CASE LeaveDone(p)
  <2>1. switching[p].to \in Spaces \cup {Null}
    BY DEF Typed, Steps
  <2>2. switching' = [switching EXCEPT ![p] = EnterStep(switching[p].to)]
    BY <1>4 DEF LeaveDone, Enter, EnterStep, SetSwitching
  <2>3. switching' \in [Processors -> Steps] /\ Placed'
    BY <1>4, <2>1, <2>2, EnterTyped, StepTyped DEF LeaveDone
  <2> QED
    BY <1>4, <2>3 DEF LeaveDone, Typed
<1>5. CASE EnterPage(p)
  <2>1. switching[p].to \in Spaces /\ switching[p].pp \in Vas /\ switching[p] \in Steps
        /\ switching[p].pc = "enter"
    BY <1>5 DEF EnterPage, Placed, PlacedStep, Steps, Typed
  <2>2. /\ pagemap[switching[p].to][switching[p].pp].next \in Vas \cup {Null}
        /\ pagemap[switching[p].to][switching[p].pp].pa \in Pas \cup {Null}
    BY <2>1 DEF Pages, Typed
  <2>3. pagemap' \in [Spaces -> Pages]
    BY <1>5, <2>1, MarkTyped DEF EnterPage, Typed
  <2>4. host' \in [Processors -> [Vas -> Pas \cup {Null}]]
    BY <1>5, <2>1, <2>2, HostTyped DEF EnterPage, SetHost, Typed
  <2> DEFINE s == [switching[p] EXCEPT !.pp = pagemap[switching[p].to][switching[p].pp].next]
  <2>5. s \in Steps /\ PlacedStep(s, vm_head[p])
    BY <2>1, <2>2, PageMapsAssumption DEF Steps, PlacedStep
  <2>6. switching' = [switching EXCEPT ![p] = s] /\ vm_head' = vm_head
    BY <1>5 DEF EnterPage, SetSwitching
  <2> HIDE DEF s
  <2>7. switching' \in [Processors -> Steps] /\ Placed'
    BY <2>5, <2>6, StepTyped
  <2> QED
    BY <1>5, <2>3, <2>4, <2>7 DEF EnterPage, Typed
<1>6. CASE SwitchDone(p)
  <2>1. NotSwitching \in Steps /\ \A c : PlacedStep(NotSwitching, c)
    BY DEF NotSwitching, Steps, PlacedStep
  <2>2. switching[p].to \in Spaces \cup {Null}
    BY DEF Typed, Steps
  <2>3. switching' = [switching EXCEPT ![p] = NotSwitching]
        /\ vm_head' = [vm_head EXCEPT ![p] = switching[p].to]
    BY <1>6 DEF SwitchDone, SetSwitching
  <2>4. switching' \in [Processors -> Steps] /\ Placed'
    BY <2>1, <2>3, StepTyped DEF Typed
  <2> QED
    BY <1>6, <2>2, <2>3, <2>4 DEF SwitchDone, Typed
<1> QED
  BY <1>1, <1>2, <1>3, <1>4, <1>5, <1>6 DEF VmStep, SwitchStep

\* What another processor sees does not change.
LEMMA ViewKept ==
    ASSUME NEW q \in Processors, NEW r, NEW r2, View(q, r),
           switching'[q] = switching[q], vm_head'[q] = vm_head[q], host'[q] = host[q],
           Here(q) # Null => pagemap'[Here(q)] = pagemap[Here(q)] /\ r2[Here(q)] = r[Here(q)]
    PROVE  View(q, r2)'
BY DEF View, Here

LEMMA OthersSee ==
    ASSUME Typed, NEW q \in Processors, NEW sp, sp \notin UsedBy(q), NEW r, NEW r2, View(q, r),
           switching'[q] = switching[q], vm_head'[q] = vm_head[q], host'[q] = host[q],
           \A as \in Spaces \ {sp} : pagemap'[as] = pagemap[as] /\ r2[as] = r[as]
    PROVE  View(q, r2)'
<1>1. Here(q) # Null => Here(q) \in UsedBy(q) /\ Here(q) \in Spaces
  BY DEF Here, UsedBy, Typed, Steps
<1> QED
  BY <1>1, ViewKept

\* Processors stay apart when p uses no more than before.
LEMMA ApartKept ==
    ASSUME Apart, NEW p \in Processors, \A q \in Processors \ {p} : UsedBy(q)' = UsedBy(q),
           UsedBy(p)' \subseteq UsedBy(p)
    PROVE  Apart'
<1> SUFFICES ASSUME NEW q1 \in Processors, NEW q2 \in Processors, q1 # q2
             PROVE  UsedBy(q1)' \cap UsedBy(q2)' = {}
  BY DEF Apart
<1>1. UsedBy(q1)' \subseteq UsedBy(q1) /\ UsedBy(q2)' \subseteq UsedBy(q2)
  OBVIOUS
<1>2. UsedBy(q1) \cap UsedBy(q2) = {}
  BY DEF Apart
<1> QED
  BY <1>1, <1>2

LEMMA MapKeeps ==
    ASSUME Typed, Placed, Apart, NEW r \in Numbers, Seen(r), NEW p \in Processors,
           NEW sp \in Spaces, NEW va \in Vas, NEW pa \in Pas, Map(p, sp, va, pa), Calm'
    PROVE  Apart' /\ \E r2 \in Numbers : Seen(r2)'
<1>1. Apart'
  <2>1. \A q \in Processors : UsedBy(q)' = UsedBy(q)
    BY DEF Map, UsedBy
  <2> QED
    BY <2>1, ApartKept
<1>2. /\ head[sp] \in Vas \cup {Null} /\ pagemap[sp] \in Pages /\ r[sp] \in [Vas -> Nat]
      /\ List(head[sp], pagemap[sp], r[sp])
  BY DEF Typed, Numbers, Seen, Lists
<1>3. pagemap[sp][va].pa = Null /\ \A q \in Processors \ {p} : sp \notin UsedBy(q)
  BY DEF Map, Calm, Stray
<1>4. r[sp][va] = 0
  BY <1>2, <1>3 DEF List
<1>a. Rank(head[sp], r[sp]) \in Nat
  BY <1>2, RankType
<1>b. PICK rk \in [Vas -> Nat] : rk = [r[sp] EXCEPT ![va] = Rank(head[sp], r[sp]) + 1]
  <2>1. [r[sp] EXCEPT ![va] = Rank(head[sp], r[sp]) + 1] \in [Vas -> Nat]
    BY <1>2, <1>a
  <2> QED
    BY <2>1
<1>d. PICK b \in BOOLEAN : b <=> vm_head[p] = sp
  OBVIOUS
<1>e. PICK m \in [pa : Pas, next : Vas \cup {Null}, is_mapped : BOOLEAN] :
         m = [pa |-> pa, next |-> head[sp], is_mapped |-> b]
  BY <1>2
<1>f. PICK pm \in Pages : pm = [pagemap[sp] EXCEPT ![va] = m]
  BY <1>2, <1>e DEF Pages
<1>c. PICK r2 \in Numbers : r2 = [r EXCEPT ![sp] = rk]
  BY DEF Numbers
<1>5. /\ pagemap' = [pagemap EXCEPT ![sp] = pm] /\ head' = [head EXCEPT ![sp] = va]
      /\ switching' = switching /\ vm_head' = vm_head /\ switching[p].pc = "no"
      /\ IF vm_head[p] = sp THEN host' = [host EXCEPT ![p][va] = pa] ELSE host' = host
  <2>1. pagemap' = [pagemap EXCEPT ![sp] = pm]
    BY <1>d, <1>e, <1>f DEF Map, LinkNext, Marked
  <2> QED
    BY <2>1 DEF Map, SetHost
<1>6. pagemap'[sp] = pm /\ head'[sp] = va /\ r2[sp] = rk
  BY <1>5, <1>c DEF Typed, Numbers
<1>7. \A as \in Spaces \ {sp} : pagemap'[as] = pagemap[as] /\ head'[as] = head[as] /\ r2[as] = r[as]
  BY <1>5, <1>c DEF Typed, Numbers
<1>8. List(va, pm, rk)
  BY <1>2, <1>4, <1>b, <1>e, <1>f, ListInsert
<1>10. Lists(r2)'
  <2>1. ASSUME NEW as \in Spaces PROVE List(head'[as], pagemap'[as], r2[as])
    <3>1. List(head[as], pagemap[as], r[as])
      BY DEF Seen, Lists
    <3>2. as = sp => List(head'[as], pagemap'[as], r2[as])
      BY <1>6, <1>8
    <3>3. as # sp => List(head'[as], pagemap'[as], r2[as])
      BY <1>7, <3>1
    <3> QED
      BY <3>2, <3>3
  <2> QED
    BY <2>1 DEF Lists
<1>11. ASSUME NEW q \in Processors \ {p} PROVE View(q, r2)'
  <2>1. View(q, r) /\ sp \notin UsedBy(q)
    BY <1>3 DEF Seen
  <2>2. switching'[q] = switching[q] /\ vm_head'[q] = vm_head[q] /\ host'[q] = host[q]
    BY <1>5 DEF Typed
  <2> QED
    BY <2>1, <2>2, <1>7, OthersSee
<1>12. View(p, r2)'
  <2>1. View(p, r)
    BY DEF Seen
  <2>2. CASE vm_head[p] # sp
    <3>1. sp \notin UsedBy(p)
      BY <2>2, <1>5, PageMapsAssumption DEF UsedBy, Placed, PlacedStep
    <3> QED
      BY <2>1, <2>2, <3>1, <1>5, <1>7, OthersSee
  <2>3. CASE vm_head[p] = sp
    <3>1. sp # Null /\ Here(p) = sp /\ Here(p)' = sp
      BY <2>3, <1>5, PageMapsAssumption DEF Here
    <3>2. Sees(switching[p], host[p], pagemap[sp], r[sp]) /\ switching[p].pp = Null
      BY <2>1, <3>1, <1>5 DEF View, Placed, PlacedStep
    <3>3. host'[p] = [host[p] EXCEPT ![va] = pa] /\ host[p] \in [Vas -> Pas \cup {Null}]
      BY <2>3, <1>5 DEF Typed
    <3>4. Sees(switching[p], host'[p], pm, rk)
      <4>1. m = [pa |-> pa, next |-> head[sp], is_mapped |-> TRUE]
        BY <2>3, <1>d, <1>e
      <4>2. rk[va] > 0 /\ host'[p][va] = pm[va].pa /\ pm[va].is_mapped
        BY <3>3, <4>1, <1>a, <1>b, <1>f DEF Pages
      <4>3. \A v \in Vas \ {va} : /\ rk[v] = r[sp][v] /\ pm[v] = pagemap[sp][v]
                                  /\ host'[p][v] = host[p][v]
        BY <1>2, <3>3, <1>b, <1>f DEF Pages
      <4> QED
        BY <1>5, <3>2, <4>2, <4>3, SeesMap
    <3> QED
      BY <3>1, <3>4, <1>5, <1>6 DEF View
  <2> QED
    BY <2>2, <2>3
<1> QED
  BY <1>1, <1>10, <1>11, <1>12 DEF Seen

\* A step of p's switch, which changes no page of sp but its mark, keeps the rest.
LEMMA SwitchKeeps ==
    ASSUME Typed, Apart, NEW r \in Numbers, Seen(r), NEW p \in Processors, NEW sp \in UsedBy(p),
           \A q \in Processors \ {p} : /\ switching'[q] = switching[q] /\ vm_head'[q] = vm_head[q]
                                       /\ host'[q] = host[q],
           head' = head, \A as \in Spaces \ {sp} : pagemap'[as] = pagemap[as],
           sp \in Spaces /\ \A v \in Vas : /\ pagemap'[sp][v].pa = pagemap[sp][v].pa
                                           /\ pagemap'[sp][v].next = pagemap[sp][v].next,
           View(p, r)', UsedBy(p)' \subseteq UsedBy(p)
    PROVE  Apart' /\ Seen(r)'
<1>1. Apart'
  <2>1. \A q \in Processors \ {p} : UsedBy(q)' = UsedBy(q)
    BY DEF UsedBy
  <2> QED
    BY <2>1, ApartKept
<1>2. Lists(r)'
  <2>1. ASSUME NEW as \in Spaces PROVE List(head'[as], pagemap'[as], r[as])
    <3>1. List(head[as], pagemap[as], r[as]) /\ pagemap[as] \in Pages
      BY DEF Seen, Lists, Typed
    <3>2. \A v \in Vas : /\ pagemap'[as][v].pa = pagemap[as][v].pa
                         /\ pagemap'[as][v].next = pagemap[as][v].next
      OBVIOUS
    <3> QED
      BY <3>1, <3>2, ListMark
  <2> QED
    BY <2>1 DEF Lists
<1>3. ASSUME NEW q \in Processors, q # p PROVE View(q, r)'
  <2>1. View(q, r) /\ sp \notin UsedBy(q)
    BY <1>3 DEF Seen, Apart
  <2> QED
    BY <1>3, <2>1, OthersSee
<1> QED
  BY <1>1, <1>2, <1>3 DEF Seen

LEMMA SwitchBegins ==
    ASSUME Typed, Placed, Apart, NEW r \in Numbers, Seen(r), NEW p \in Processors,
           NEW to \in Spaces \cup {Null}, Switch(p, to), Calm'
    PROVE  Apart' /\ Seen(r)'
<1>1. /\ head' = head /\ pagemap' = pagemap /\ vm_head' = vm_head /\ host' = host
      /\ switching[p].pc = "no" /\ switching[p].to = Null /\ switching[p].pp = Null
  BY DEF Switch, Placed, PlacedStep
<1>2. /\ vm_head[p] # Null =>
             switching' = [switching EXCEPT ![p] = [pc |-> "leave", to |-> to,
                                                    pp |-> head[vm_head[p]]]]
      /\ vm_head[p] = Null => switching' = [switching EXCEPT ![p] = EnterStep(to)]
  BY DEF Switch, Enter, SetSwitching, EnterStep
<1>3. /\ \A q \in Processors \ {p} : switching'[q] = switching[q]
      /\ vm_head[p] # Null => switching'[p] = [pc |-> "leave", to |-> to, pp |-> head[vm_head[p]]]
      /\ vm_head[p] = Null => switching'[p] = EnterStep(to)
  BY <1>2 DEF Typed
<1>4. Apart'
  <2>1. \A q \in Processors \ {p} : UsedBy(q)' = UsedBy(q) /\ to \notin UsedBy(q)
    <3>1. \A q \in Processors \ {p} : to \notin UsedBy(q)
      BY DEF Switch, Stray, Calm
    <3> QED
      BY <1>1, <1>3, <3>1 DEF UsedBy
  <2>2. UsedBy(p)' \subseteq UsedBy(p) \cup {to}
    BY <1>1, <1>3 DEF UsedBy, EnterStep
  <2> SUFFICES ASSUME NEW q1 \in Processors, NEW q2 \in Processors, q1 # q2
               PROVE  UsedBy(q1)' \cap UsedBy(q2)' = {}
    BY DEF Apart
  <2>3. UsedBy(q1) \cap UsedBy(q2) = {}
    BY DEF Apart
  <2> QED
    BY <2>1, <2>2, <2>3
<1>5. Lists(r)'
  BY <1>1 DEF Seen, Lists
<1>6. ASSUME NEW q \in Processors, q # p PROVE View(q, r)'
  <2>1. View(q, r)
    BY DEF Seen
  <2> QED
    BY <1>1, <1>3, <1>6, <2>1, ViewKept
<1>7. View(p, r)'
  <2>1. View(p, r) /\ Here(p) = vm_head[p]
    BY <1>1 DEF Seen, Here
  <2>2. CASE vm_head[p] # Null
    <3>1. Here(p)' = vm_head[p] /\ vm_head[p] \in Spaces
      BY <1>1, <1>3, <2>2 DEF Here, Typed
    <3>2. List(head[vm_head[p]], pagemap[vm_head[p]], r[vm_head[p]])
      BY <3>1 DEF Seen, Lists
    <3>3. Sees(switching[p], host[p], pagemap[vm_head[p]], r[vm_head[p]])
      BY <2>1, <2>2 DEF View
    <3>4. Sees([pc |-> "leave", to |-> to, pp |-> head[vm_head[p]]], host[p],
               pagemap[vm_head[p]], r[vm_head[p]])
      BY <1>1, <3>2, <3>3, SeesLeaving
    <3> QED
      BY <1>1, <1>3, <2>2, <3>1, <3>4 DEF View
  <2>3. CASE vm_head[p] = Null
    <3>1. \A v \in Vas : host[p][v] = Null
      BY <2>1, <2>3 DEF View
    <3>2. Here(p)' = to /\ switching'[p] = EnterStep(to)
      BY <1>3, <2>3 DEF Here, EnterStep
    <3>3. CASE to = Null
      BY <1>1, <3>1, <3>2, <3>3 DEF View, EnterStep
    <3>4. CASE to # Null
      <4>1. Sees([pc |-> "enter", to |-> to, pp |-> head[to]], host[p], pagemap[to], r[to])
        <5>1. /\ head[to] \in Vas \cup {Null} /\ r[to] \in [Vas -> Nat]
              /\ List(head[to], pagemap[to], r[to])
          BY <3>4 DEF Typed, Numbers, Seen, Lists
        <5> QED
          BY <3>1, <5>1, SeesEntering
      <4> QED
        BY <1>1, <3>2, <3>4, <4>1 DEF View, EnterStep
    <3> QED
      BY <3>3, <3>4
  <2> QED
    BY <2>2, <2>3
<1> QED
  BY <1>4, <1>5, <1>6, <1>7 DEF Seen

LEMMA LeavePageKeeps ==
    ASSUME Typed, Placed, Apart, NEW r \in Numbers, Seen(r), NEW p \in Processors, LeavePage(p)
    PROVE  Apart' /\ Seen(r)'
<1>1. PICK sp \in Spaces : sp = vm_head[p] /\ sp # Null /\ sp \in UsedBy(p) /\ Here(p) = sp
  BY PageMapsAssumption DEF LeavePage, Placed, PlacedStep, Typed, UsedBy, Here
<1>2. /\ switching[p] \in Steps /\ switching[p].pc = "leave" /\ switching[p].pp # Null
      /\ host[p] \in [Vas -> Pas \cup {Null}] /\ pagemap[sp] \in Pages
      /\ r[sp] \in [Vas -> Nat] /\ List(head[sp], pagemap[sp], r[sp])
  BY DEF LeavePage, Typed, Numbers, Seen, Lists
<1>3. Sees(switching[p], host[p], pagemap[sp], r[sp])
  BY <1>1 DEF Seen, View
<1>4. PICK s2 : s2 = [switching[p] EXCEPT !.pp = pagemap[sp][switching[p].pp].next]
  OBVIOUS
<1>5. PICK h2 : h2 = [host[p] EXCEPT ![switching[p].pp] = Null]
  OBVIOUS
<1>6. PICK pm2 : pm2 = [pagemap[sp] EXCEPT ![switching[p].pp].is_mapped = FALSE]
  OBVIOUS
<1>7. pagemap[sp][switching[p].pp].is_mapped /\ Sees(s2, h2, pm2, r[sp])
  <2>1. Has(switching[p], r[sp], switching[p].pp) /\ switching[p].pp \in Vas
    BY <1>2, <1>3 DEF Sees, Has, Rank, Steps
  <2>2. pagemap[sp][switching[p].pp].is_mapped
    BY <1>3, <2>1 DEF Sees
  <2>3. Sees(s2, h2, pm2, r[sp])
    BY <1>2, <1>3, <1>4, <1>5, <1>6, SeesLeavePage
  <2> QED
    BY <2>2, <2>3
<1>8. /\ switching' = [switching EXCEPT ![p] = s2] /\ host' = [host EXCEPT ![p] = h2]
      /\ pagemap' = [pagemap EXCEPT ![sp] = pm2] /\ head' = head /\ vm_head' = vm_head
  <2>1. switching' = [switching EXCEPT ![p] = s2] /\ head' = head /\ vm_head' = vm_head
    BY <1>1, <1>4 DEF LeavePage, SetSwitching
  <2>2. /\ host' = [host EXCEPT ![p][switching[p].pp] = Null]
        /\ pagemap' = [pagemap EXCEPT ![sp][switching[p].pp].is_mapped = FALSE]
    BY <1>1, <1>7 DEF LeavePage, SetHost
  <2> QED
    BY <1>5, <1>6, <2>1, <2>2
<1>9. /\ switching'[p] = s2 /\ host'[p] = h2 /\ pagemap'[sp] = pm2
      /\ \A q \in Processors \ {p} : switching'[q] = switching[q] /\ host'[q] = host[q]
      /\ \A as \in Spaces \ {sp} : pagemap'[as] = pagemap[as]
  BY <1>8 DEF Typed
<1>10. s2.pc = "leave" /\ s2.to = switching[p].to
  BY <1>2, <1>4 DEF Steps
<1>11. \A v \in Vas : pm2[v].pa = pagemap[sp][v].pa /\ pm2[v].next = pagemap[sp][v].next
  BY <1>2, <1>6 DEF Pages
<1>12. View(p, r)'
  BY <1>1, <1>7, <1>8, <1>9, <1>10 DEF View, Here
<1>13. UsedBy(p)' \subseteq UsedBy(p)
  BY <1>8, <1>9, <1>10 DEF UsedBy
<1> QED
  BY <1>1, <1>8, <1>9, <1>11, <1>12, <1>13, SwitchKeeps

LEMMA EnterPageKeeps ==
    ASSUME Typed, Placed, Apart, NEW r \in Numbers, Seen(r), NEW p \in Processors, EnterPage(p)
    PROVE  Apart' /\ Seen(r)'
<1>1. PICK sp \in Spaces : sp = switching[p].to /\ sp # Null /\ sp \in UsedBy(p) /\ Here(p) = sp
  BY PageMapsAssumption DEF EnterPage, Placed, PlacedStep, Typed, Steps, UsedBy, Here
<1>2. /\ switching[p] \in Steps /\ switching[p].pc = "enter" /\ switching[p].pp # Null
      /\ host[p] \in [Vas -> Pas \cup {Null}] /\ pagemap[sp] \in Pages
      /\ r[sp] \in [Vas -> Nat] /\ List(head[sp], pagemap[sp], r[sp])
  BY DEF EnterPage, Typed, Numbers, Seen, Lists
<1>3. Sees(switching[p], host[p], pagemap[sp], r[sp])
  BY <1>1 DEF Seen, View
<1>4. PICK s2 : s2 = [switching[p] EXCEPT !.pp = pagemap[sp][switching[p].pp].next]
  OBVIOUS
<1>5. PICK h2 : h2 = [host[p] EXCEPT ![switching[p].pp] = pagemap[sp][switching[p].pp].pa]
  OBVIOUS
<1>6. PICK pm2 : pm2 = [pagemap[sp] EXCEPT ![switching[p].pp].is_mapped = TRUE]
  OBVIOUS
<1>7. Sees(s2, h2, pm2, r[sp])
  BY <1>2, <1>3, <1>4, <1>5, <1>6, SeesEnterPage
<1>8. /\ switching' = [switching EXCEPT ![p] = s2] /\ host' = [host EXCEPT ![p] = h2]
      /\ pagemap' = [pagemap EXCEPT ![sp] = pm2] /\ head' = head /\ vm_head' = vm_head
  BY <1>1, <1>4, <1>5, <1>6 DEF EnterPage, SetHost, SetSwitching
<1>9. /\ switching'[p] = s2 /\ host'[p] = h2 /\ pagemap'[sp] = pm2
      /\ \A q \in Processors \ {p} : switching'[q] = switching[q] /\ host'[q] = host[q]
      /\ \A as \in Spaces \ {sp} : pagemap'[as] = pagemap[as]
  BY <1>8 DEF Typed
<1>10. s2.pc = "enter" /\ s2.to = switching[p].to
  BY <1>2, <1>4 DEF Steps
<1>11. \A v \in Vas : pm2[v].pa = pagemap[sp][v].pa /\ pm2[v].next = pagemap[sp][v].next
  BY <1>2, <1>6 DEF Pages
<1>12. View(p, r)'
  BY <1>1, <1>7, <1>8, <1>9, <1>10 DEF View, Here
<1>13. UsedBy(p)' \subseteq UsedBy(p)
  BY <1>8, <1>9, <1>10 DEF UsedBy
<1> QED
  BY <1>1, <1>8, <1>9, <1>11, <1>12, <1>13, SwitchKeeps

LEMMA LeaveDoneKeeps ==
    ASSUME Typed, Placed, Apart, NEW r \in Numbers, Seen(r), NEW p \in Processors, LeaveDone(p)
    PROVE  Apart' /\ Seen(r)'
<1>1. PICK sp \in Spaces : sp = vm_head[p] /\ sp # Null /\ sp \in UsedBy(p) /\ Here(p) = sp
  BY PageMapsAssumption DEF LeaveDone, Placed, PlacedStep, Typed, UsedBy, Here
<1>2. PICK to \in Spaces \cup {Null} : to = switching[p].to
  BY DEF Typed, Steps
<1>3. /\ switching' = [switching EXCEPT ![p] = EnterStep(to)]
      /\ head' = head /\ pagemap' = pagemap /\ vm_head' = vm_head /\ host' = host
  BY <1>2 DEF LeaveDone, Enter, EnterStep, SetSwitching
<1>4. switching'[p] = EnterStep(to) /\ \A q \in Processors \ {p} : switching'[q] = switching[q]
  BY <1>3 DEF Typed
<1>5. \A v \in Vas : host[p][v] = Null
  <2>1. Sees(switching[p], host[p], pagemap[sp], r[sp]) /\ r[sp] \in [Vas -> Nat]
    BY <1>1 DEF Seen, View, Numbers
  <2> QED
    BY <2>1, SeesLeft DEF LeaveDone
<1>6. View(p, r)'
  <2>1. Here(p)' = to
    BY <1>4 DEF Here, EnterStep
  <2>2. CASE to = Null
    BY <1>3, <1>4, <1>5, <2>1, <2>2 DEF View, EnterStep
  <2>3. CASE to # Null
    <3>1. /\ head[to] \in Vas \cup {Null} /\ r[to] \in [Vas -> Nat]
          /\ List(head[to], pagemap[to], r[to])
      BY <2>3 DEF Typed, Numbers, Seen, Lists
    <3>2. Sees([pc |-> "enter", to |-> to, pp |-> head[to]], host[p], pagemap[to], r[to])
      BY <1>5, <3>1, SeesEntering
    <3> QED
      BY <1>3, <1>4, <2>1, <2>3, <3>2 DEF View, EnterStep
  <2> QED
    BY <2>2, <2>3
<1>7. UsedBy(p)' \subseteq UsedBy(p)
  BY <1>2, <1>3, <1>4 DEF UsedBy, EnterStep
<1> QED
  BY <1>1, <1>3, <1>4, <1>6, <1>7, SwitchKeeps

LEMMA SwitchDoneKeeps ==
    ASSUME Typed, Placed, Apart, NEW r \in Numbers, Seen(r), NEW p \in Processors, SwitchDone(p)
    PROVE  Apart' /\ Seen(r)'
<1>1. PICK to \in Spaces \cup {Null} : to = switching[p].to
  BY DEF Typed, Steps
<1>2. /\ switching[p].pc = "enter" /\ switching[p].pp = Null /\ Here(p) = to
      /\ switching' = [switching EXCEPT ![p] = NotSwitching]
      /\ head' = head /\ pagemap' = pagemap /\ vm_head' = [vm_head EXCEPT ![p] = to] /\ host' = host
  BY <1>1 DEF SwitchDone, SetSwitching, Here
<1>3. /\ switching'[p] = NotSwitching /\ vm_head'[p] = to
      /\ \A q \in Processors \ {p} : switching'[q] = switching[q] /\ vm_head'[q] = vm_head[q]
  BY <1>2 DEF Typed
<1>4. Apart'
  <2>1. \A q \in Processors \ {p} : UsedBy(q)' = UsedBy(q)
    BY <1>3 DEF UsedBy
  <2>2. UsedBy(p)' \subseteq UsedBy(p)
    BY <1>1, <1>3 DEF UsedBy, NotSwitching
  <2> QED
    BY <2>1, <2>2, ApartKept
<1>5. Lists(r)'
  BY <1>2 DEF Seen, Lists
<1>6. ASSUME NEW q \in Processors, q # p PROVE View(q, r)'
  <2>1. View(q, r)
    BY DEF Seen
  <2> QED
    BY <1>2, <1>3, <1>6, <2>1, ViewKept
<1>7. View(p, r)'
  <2>1. View(p, r) /\ Here(p)' = to
    BY <1>3 DEF Seen, Here, NotSwitching
  <2>2. CASE to = Null
    BY <1>2, <1>3, <2>1, <2>2 DEF View, NotSwitching
  <2>3. CASE to # Null
    <3>1. Sees(switching[p], host[p], pagemap[to], r[to])
      BY <1>2, <2>1, <2>3 DEF View
    <3>2. Sees(NotSwitching, host[p], pagemap[to], r[to])
      BY <1>2, <3>1, SeesEntered
    <3> QED
      BY <1>2, <1>3, <2>1, <2>3, <3>2 DEF View
  <2> QED
    BY <2>2, <2>3
<1> QED
  BY <1>4, <1>5, <1>6, <1>7 DEF Seen

LEMMA PageMapsStep ==
    ASSUME PageMapsInv, NEW p \in Processors, VmStep(p) PROVE PageMapsInv'
<1>1. Typed' /\ Placed'
  BY PageMapsTypes DEF PageMapsInv
<1>2. SUFFICES ASSUME Calm' PROVE Apart' /\ \E r \in Numbers : Seen(r)'
  BY <1>1 DEF PageMapsInv
<1>3. Calm
  BY <1>2 DEF Calm, VmStep, SwitchStep, Map, Switch, LeavePage, LeaveDone, EnterPage, SwitchDone, Stray
<1>4. PICK r \in Numbers : Seen(r)
  BY <1>3 DEF PageMapsInv
<1>5. Typed /\ Placed /\ Apart
  BY <1>3 DEF PageMapsInv
<1>6. ASSUME NEW as \in Spaces, NEW va \in Vas, NEW pa \in Pas, Map(p, as, va, pa)
      PROVE  Apart' /\ \E r2 \in Numbers : Seen(r2)'
  BY <1>2, <1>4, <1>5, <1>6, MapKeeps
<1>7. ASSUME NEW to \in Spaces \cup {Null}, Switch(p, to) PROVE Apart' /\ Seen(r)'
  BY <1>2, <1>4, <1>5, <1>7, SwitchBegins
<1>8. CASE LeavePage(p)
  BY <1>4, <1>5, <1>8, LeavePageKeeps
<1>9. CASE LeaveDone(p)
  BY <1>4, <1>5, <1>9, LeaveDoneKeeps
<1>10. CASE EnterPage(p)
  BY <1>4, <1>5, <1>10, EnterPageKeeps
<1>11. CASE SwitchDone(p)
  BY <1>4, <1>5, <1>11, SwitchDoneKeeps
<1> QED
  BY <1>6, <1>7, <1>8, <1>9, <1>10, <1>11 DEF VmStep, SwitchStep

LEMMA PageMapsUnchanged == PageMapsInv /\ UNCHANGED vmVars => PageMapsInv'
<1> SUFFICES ASSUME PageMapsInv, UNCHANGED vmVars PROVE PageMapsInv'
  OBVIOUS
<1>1. Typed' /\ Placed' /\ (Calm' => Calm)
  BY DEF PageMapsInv, vmVars, Typed, Placed, Calm
<1>2. Apart => Apart'
  BY DEF vmVars, Apart, UsedBy
<1>3. ASSUME NEW r \in Numbers, Seen(r) PROVE Seen(r)'
  <2>1. Lists(r)'
    BY <1>3 DEF vmVars, Seen, Lists
  <2>2. ASSUME NEW p \in Processors PROVE View(p, r)'
    <3>1. View(p, r)
      BY <1>3 DEF Seen
    <3> QED
      BY <3>1, ViewKept DEF vmVars
  <2> QED
    BY <2>1, <2>2 DEF Seen
<1> QED
  BY <1>1, <1>2, <1>3 DEF PageMapsInv

LEMMA SeenIsSpace == PageMapsInv => HostIsSpace
<1> SUFFICES ASSUME PageMapsInv, Calm, NEW p \in Processors, switching[p].pc = "no"
             PROVE  host[p] = Translation(vm_head[p])
  BY DEF HostIsSpace, Calm
<1>1. PICK r \in Numbers : Seen(r)
  BY DEF PageMapsInv
<1>2. View(p, r) /\ Here(p) = vm_head[p] /\ host[p] \in [Vas -> Pas \cup {Null}]
  BY <1>1 DEF Seen, Here, PageMapsInv, Typed
<1>3. CASE vm_head[p] = Null
  BY <1>2, <1>3 DEF View, Translation, Unmapped
<1>4. CASE vm_head[p] # Null
  <2>1. vm_head[p] \in Spaces
    BY <1>4 DEF PageMapsInv, Typed
  <2>2. Sees(switching[p], host[p], pagemap[vm_head[p]], r[vm_head[p]])
    BY <1>2, <1>4 DEF View
  <2>3. List(head[vm_head[p]], pagemap[vm_head[p]], r[vm_head[p]]) /\ r[vm_head[p]] \in [Vas -> Nat]
    BY <1>1, <2>1 DEF Seen, Lists, Numbers
  <2>4. \A v \in Vas : host[p][v] = pagemap[vm_head[p]][v].pa
    BY <2>2, <2>3 DEF Sees, Has, List
  <2> QED
    BY <1>2, <1>4, <2>4 DEF Translation
<1> QED
  BY <1>3, <1>4

(***************************************************************************)
(* What map and __am_switch promise, for any processors, spaces and pages: *)
(* unless two processors use a space at once or a page is mapped twice, a  *)
(* processor that is not switching sees the pages of its own space, all of *)
(* them and no others.                                                     *)
(***************************************************************************)
THEOREM HostMapsTheSpace == PageMapsSpec => []PageMapsTypeOK /\ []HostIsSpace
<1>1. PageMapsInv /\ [PageMapsNext]_vmVars => PageMapsInv'
  BY PageMapsStep, PageMapsUnchanged DEF PageMapsNext
<1>2. PageMapsInv => PageMapsTypeOK /\ HostIsSpace
  BY SeenIsSpace, TypedIsTypeOK DEF PageMapsInv
<1> QED
  BY <1>1, <1>2, InitPageMaps, PTL DEF PageMapsSpec

----------------------------------------------------------------------------
(***************************************************************************)
(* The start.                                                              *)
(***************************************************************************)

Others == Cpu \ {0}
AtEntry == {"entry", "init_entry"}

\* Nobody is in the program before processor 0 has sent the first '+'.
Waiting ==
    /\ pc[0] \notin {"none", "wait"}
    /\ \A p \in Others : pc[p] \in {"none", "wait", "entry", "init_entry"}
    /\ pc[0] \notin AtEntry =>
          sync_pipe = 0 /\ \A p \in Others : pc[p] \in {"none", "wait"}

\* What mpe_init has found out about the devices.
Known ==
    /\ ~ioe_init_done => inits = <<>>
    /\ announced => has_ioe /\ pc[0] \notin {"main", "init_main"}
    /\ announced /\ pc[0] \in {"fork", "init_mpe"} => (early <=> ioe_init_done)

\* After which nobody begins to initialise them.
Ready ==
    announced => /\ \A p \in Cpu : pc[p] # "init_entry"
                 /\ pc[0] \in {"release", "entry"} =>
                       ioe_init_done /\ (~early => Len(inits) <= 1)

BootInv == BootTypeOK /\ Waiting /\ Known /\ Ready

LEMMA CpuZero == 0 \in Cpu /\ \A p \in Others : p \in Cpu /\ p # 0
  BY MaxCpuAssumption DEF Cpu, Others

\* A processor has at most MAX_CPU - 1 others to release.
LEMMA FewChildren ==
    ASSUME ncpu \in 1 .. MAX_CPU
    PROVE  Cardinality(Children) \in 0 .. MAX_CPU - 1
<1>1. ncpu \in Int /\ 1 <= ncpu /\ ncpu <= MAX_CPU /\ MAX_CPU \in Nat
  BY MaxCpuAssumption
<1>2. Cardinality(1 .. ncpu - 1) = IF 1 > ncpu - 1 THEN 0 ELSE (ncpu - 1) - 1 + 1
  BY <1>1, FS_Interval
<1>. QED  BY <1>1, <1>2 DEF Children

LEMMA InitBoot == BootInit => BootInv
<1>. SUFFICES ASSUME BootInit PROVE BootInv
  OBVIOUS
<1>1. BootTypeOK
  <2>1. inits \in Seq(Cpu) /\ sync_pipe \in 0 .. MAX_CPU - 1
    BY MaxCpuAssumption DEF BootInit
  <2>2. pc \in [Cpu -> {"none", "main", "fork", "wait", "release", "entry",
                        "init_main", "init_entry", "init_mpe"}]
    BY DEF BootInit
  <2>3. ncpu \in 1 .. MAX_CPU /\ {has_ioe, ioe_init_done, announced, early, halted} \subseteq BOOLEAN
    BY DEF BootInit
  <2>. QED  BY <2>1, <2>2, <2>3 DEF BootTypeOK
<1>. QED  BY <1>1, CpuZero DEF BootInit, BootInv, Waiting, Known, Ready, Others, AtEntry

\* The types, one step per action.
LEMMA BootTypesKept == BootTypeOK /\ BootNext => BootTypeOK'
<1>. SUFFICES ASSUME BootTypeOK, BootNext PROVE BootTypeOK'
  OBVIOUS
<1>. USE CpuZero DEF BootTypeOK, Goto
<1>1. CASE Mpe       BY <1>1 DEF Mpe
<1>2. CASE MpeDevices  BY <1>2 DEF MpeDevices
<1>3. CASE Release   BY <1>3, FewChildren DEF Release
<1>4. CASE IoeInit   BY <1>4 DEF IoeInit
<1>5. ASSUME NEW p \in Cpu, Fork(p) PROVE BootTypeOK'
  BY <1>5 DEF Fork
<1>6. ASSUME NEW p \in Cpu, Go(p) PROVE BootTypeOK'
  BY <1>6, MaxCpuAssumption DEF Go
<1>7. ASSUME NEW p \in Cpu, StartIo(p) PROVE BootTypeOK'
  BY <1>7 DEF StartIo
<1>8. ASSUME NEW p \in Cpu, FinishInit(p) PROVE BootTypeOK'
  <2>1. inits' \in Seq(Cpu)
    BY <1>8 DEF FinishInit
  <2>2. pc' \in [Cpu -> {"none", "main", "fork", "wait", "release", "entry",
                        "init_main", "init_entry", "init_mpe"}]
    BY <1>8 DEF FinishInit
  <2>. QED  BY <1>8, <2>1, <2>2 DEF FinishInit
<1>9. ASSUME NEW p \in Cpu, Halt(p) PROVE BootTypeOK'
  BY <1>9 DEF Halt, Exit
<1>10. CASE Quit     BY <1>10 DEF Quit, Exit
<1>. QED
  BY <1>1, <1>2, <1>3, <1>4, <1>5, <1>6, <1>7, <1>8, <1>9, <1>10 DEF BootNext, BootStep

LEMMA NextBoot == BootInv /\ [BootNext]_bootVars => BootInv'
<1>. SUFFICES ASSUME BootInv, [BootNext]_bootVars PROVE BootInv'
  OBVIOUS
<1>. USE CpuZero DEF Goto, Waiting, Known, Ready, AtEntry, InProgram
<1>0. CASE UNCHANGED bootVars
  BY <1>0 DEF bootVars, BootInv, BootTypeOK
<1>. SUFFICES ASSUME BootNext PROVE BootInv'
  BY <1>0
<1>t. BootTypeOK /\ BootTypeOK'
  BY BootTypesKept DEF BootInv
<1>i. Waiting /\ Known /\ Ready
  BY DEF BootInv
<1>p. pc \in [Cpu -> {"none", "main", "fork", "wait", "release", "entry",
                      "init_main", "init_entry", "init_mpe"}] /\ sync_pipe \in Nat
  BY <1>t, MaxCpuAssumption DEF BootTypeOK
<1>. SUFFICES Waiting' /\ Known' /\ Ready'
  BY <1>t DEF BootInv
<1>1. CASE Mpe
  BY <1>1, <1>i, <1>p DEF Mpe, Others
<1>2. CASE MpeDevices
  BY <1>2, <1>i, <1>p DEF MpeDevices, Others
<1>3. CASE Release
  BY <1>3, <1>i, <1>p DEF Release, Others
<1>4. CASE IoeInit
  BY <1>4, <1>i DEF IoeInit
<1>5. ASSUME NEW p \in Cpu, Fork(p) PROVE Waiting' /\ Known' /\ Ready'
  <2>1. p \in Others
    BY <1>5, MaxCpuAssumption DEF Fork, Children, Others
  <2>. QED  BY <1>5, <1>i, <1>p, <2>1 DEF Fork, Others
<1>6. ASSUME NEW p \in Cpu, Go(p) PROVE Waiting' /\ Known' /\ Ready'
  <2>1. p \in Others /\ pc[0] \in AtEntry
    BY <1>6, <1>i, <1>p DEF Go, Others
  <2>. QED  BY <1>6, <1>i, <1>p, <2>1 DEF Go, Others
<1>7. ASSUME NEW p \in Cpu, StartIo(p) PROVE Waiting' /\ Known' /\ Ready'
  BY <1>7, <1>i, <1>p DEF StartIo, Others
<1>8. ASSUME NEW p \in Cpu, FinishInit(p) PROVE Waiting' /\ Known' /\ Ready'
  <2>1. Waiting'
    BY <1>8, <1>i, <1>p DEF FinishInit, Others
  <2>2. Known'
    BY <1>8, <1>i, <1>p DEF FinishInit, Others
  <2>3. inits = <<>> => Len(inits') = 1
    BY <1>8 DEF FinishInit
  <2>4. announced => p = 0 /\ pc[0] = "init_mpe"
    BY <1>8, <1>i, <1>p DEF FinishInit, Others
  <2>5. Ready'
    BY <1>8, <1>i, <1>p, <2>3, <2>4 DEF FinishInit, Others
  <2>. QED  BY <2>1, <2>2, <2>5
<1>9. ASSUME NEW p \in Cpu, Halt(p) PROVE Waiting' /\ Known' /\ Ready'
  BY <1>9, <1>i DEF Halt, Exit
<1>10. CASE Quit
  BY <1>10, <1>i DEF Quit, Exit
<1>. QED
  BY <1>1, <1>2, <1>3, <1>4, <1>5, <1>6, <1>7, <1>8, <1>9, <1>10 DEF BootNext, BootStep

LEMMA InvReady == BootInv => DevicesReadyOnce
<1>. SUFFICES ASSUME BootInv, announced
              PROVE  /\ Entered # {} => ioe_init_done
                     /\ ~early => Len(inits) <= 1
  BY DEF DevicesReadyOnce
<1>1. Waiting /\ Known /\ Ready /\ pc \in [Cpu -> {"none", "main", "fork", "wait", "release",
                                "entry", "init_main", "init_entry", "init_mpe"}]
  BY DEF BootInv, BootTypeOK
<1>2. ASSUME Entered # {} PROVE pc[0] \in {"release", "entry"}
  BY <1>1, <1>2, CpuZero DEF Entered, Waiting, Ready, AtEntry, Others
<1>3. CASE pc[0] \in {"fork", "init_mpe"}
  BY <1>1, <1>2, <1>3 DEF Known
<1>4. CASE pc[0] \in {"release", "entry"}
  BY <1>1, <1>4 DEF Ready
<1>5. pc[0] \in {"fork", "init_mpe", "release", "entry"}
  BY <1>1, CpuZero DEF Waiting, Known, Ready
<1>. QED  BY <1>3, <1>4, <1>5

(***************************************************************************)
(* Processor 0 sends a '+' to the others when mpe_init has seen to the     *)
(* devices, and until then none of them is in the program.                 *)
(***************************************************************************)
THEOREM BootInductive == BootSpec => []BootInv
<1>1. BootInit => BootInv
  BY InitBoot
<1>2. BootInv /\ [BootNext]_bootVars => BootInv'
  BY NextBoot
<1>. QED  BY <1>1, <1>2, PTL DEF BootSpec

(***************************************************************************)
(* The types of the globals that the processors share and of their places  *)
(* in mpe_init and do_io.                                                  *)
(***************************************************************************)
THEOREM BootTypeCorrect == BootSpec => []BootTypeOK
<1>1. BootInv => BootTypeOK
  BY DEF BootInv
<1>. QED  BY <1>1, BootInductive, PTL

(***************************************************************************)
(* A program that calls ioe_init and then mpe_init finds the devices ready *)
(* on every processor, initialised once unless it used them in between,    *)
(* for any number of processors.                                           *)
(***************************************************************************)
THEOREM DevicesReady == BootSpec => []DevicesReadyOnce
<1>1. BootInv => DevicesReadyOnce
  BY InvReady
<1>. QED  BY <1>1, BootInductive, PTL

----------------------------------------------------------------------------
\* The composition

LEMMA StepOfStart ==
    ASSUME Start, ~halted
    PROVE  BootNext /\ UNCHANGED keyVars /\ UNCHANGED audioVars /\ UNCHANGED vmVars
BY CpuZero DEF Start, BootNext

LEMMA StepOfDevices ==
    ASSUME NEW p \in Cpu, InitDevices(p), ~halted
    PROVE  /\ BootNext /\ [KeyNext]_keyVars /\ [AudioNext]_audioVars /\ UNCHANGED vmVars
<1>1. BootNext
  BY DEF InitDevices, BootNext
<1>2. [KeyNext]_keyVars
  BY DEF InitDevices, KeyNext
<1>3. [AudioNext]_audioVars
  BY DEF InitDevices, AudioNext
<1> QED
  BY <1>1, <1>2, <1>3 DEF InitDevices

LEMMA StepOfKernel ==
    ASSUME NEW t \in Tasks, KernelStep(t), ~halted
    PROVE  [BootNext]_bootVars /\ KeyNext /\ UNCHANGED audioVars /\ UNCHANGED vmVars
<1>1. KeyNext
  BY DEF KernelStep, Poll, PrintKey, KeyNext, ReadStep
<1>2. Halt(0) => BootNext
  BY CpuZero DEF BootNext
<1>3. [BootNext]_bootVars
  BY <1>2 DEF KernelStep, PrintKey
<1> QED
  BY <1>1, <1>3 DEF KernelStep

LEMMA StepOfKeyboard ==
    ASSUME NEW m \in Threads, KeyboardStep(m) \/ CloseWindow(m), ~halted
    PROVE  [BootNext]_bootVars /\ [KeyNext]_keyVars /\ UNCHANGED audioVars /\ UNCHANGED vmVars
BY DEF KeyboardStep, CloseWindow, BootNext, KeyNext

LEMMA StepOfSwitch ==
    ASSUME NEW t \in Tasks, TaskSwitch(t)
    PROVE  UNCHANGED bootVars /\ KeyNext /\ UNCHANGED audioVars /\ UNCHANGED vmVars
BY DEF TaskSwitch, KeyNext

LEMMA StepOfSound ==
    ASSUME SoundStep
    PROVE  UNCHANGED bootVars /\ UNCHANGED keyVars /\ AudioNext /\ UNCHANGED vmVars
BY DEF SoundStep, AudioNext, AudioStep

LEMMA StepOfMemory ==
    ASSUME NEW p \in Processors, MemoryStep(p)
    PROVE  UNCHANGED bootVars /\ UNCHANGED keyVars /\ UNCHANGED audioVars /\ PageMapsNext
BY DEF MemoryStep, PageMapsNext

LEMMA StepOfNative ==
    [NativeNext]_nativeVars =>
        [BootNext]_bootVars /\ [KeyNext]_keyVars /\ [AudioNext]_audioVars /\ [PageMapsNext]_vmVars
<1> SUFFICES ASSUME [NativeNext]_nativeVars
             PROVE  /\ [BootNext]_bootVars /\ [KeyNext]_keyVars
                    /\ [AudioNext]_audioVars /\ [PageMapsNext]_vmVars
  OBVIOUS
<1>1. CASE UNCHANGED nativeVars
  BY <1>1 DEF nativeVars
<1>2. CASE NativeNext
  BY <1>2, StepOfStart, StepOfDevices, StepOfKernel, StepOfKeyboard, StepOfSwitch,
     StepOfSound, StepOfMemory DEF NativeNext
<1> QED
  BY <1>1, <1>2

(***************************************************************************)
(* The program on native is its start, its keyboard, its sound and its     *)
(* address spaces: what is proved of each alone holds while all run.       *)
(***************************************************************************)
THEOREM NativeIsItsParts == NativeSpec => BootSpec /\ KeySpec /\ AudioSpec /\ PageMapsSpec
<1>1. NativeInit => BootInit /\ KeyInit /\ AudioInitState /\ PageMapsInit
  BY DEF NativeInit
<1> QED
  BY <1>1, StepOfNative, PTL DEF NativeSpec, BootSpec, KeySpec, AudioSpec, PageMapsSpec

LEMMA SameWorkload == [NativeNext]_nativeVars => UNCHANGED workload
<1>1. ASSUME NativeNext PROVE UNCHANGED workload
  BY <1>1 DEF NativeNext, Start, InitDevices, KernelStep, TaskSwitch, KeyboardStep, CloseWindow,
     SoundStep, MemoryStep
<1>2. UNCHANGED nativeVars => UNCHANGED workload
  BY DEF nativeVars
<1> QED
  BY <1>1, <1>2

(***************************************************************************)
(* The types of the globals of AM native and of the places of its          *)
(* processors, threads and handlers, whatever the program is.              *)
(***************************************************************************)
THEOREM NativeTypeCorrect == NativeSpec => []NativeTypeOK
<1>1. NativeInit => workload \in Workloads
  BY DEF NativeInit
<1>2. workload \in Workloads /\ [NativeNext]_nativeVars => (workload \in Workloads)'
  BY SameWorkload
<1>3. NativeSpec => [](workload \in Workloads)
  BY <1>1, <1>2, PTL DEF NativeSpec
<1>4. /\ BootTypeOK /\ KeyTypeOK /\ AudioTypeOK /\ PageMapsTypeOK /\ workload \in Workloads
      => NativeTypeOK
  BY DEF NativeTypeOK
<1> QED
  BY <1>3, <1>4, NativeIsItsParts, BootTypeCorrect, KeyTypeCorrect, AudioTypeCorrect,
     HostMapsTheSpace, PTL

(***************************************************************************)
(* While processors start, initialise the devices, poll for keys and       *)
(* switch spaces: every processor finds the devices ready; the ring of     *)
(* keys is a queue, until the devices are initialised again under an event *)
(* thread or two tasks read at once (see KeyRing); what is written is      *)
(* played in its order, and a user program sees its own space, unless the  *)
(* program does what Audio and PageMaps except.                            *)
(***************************************************************************)
THEOREM NativeSafe ==
    NativeSpec => []DevicesReadyOnce /\ RingIsQueue /\ []PlayedInOrder /\ []HostIsSpace
<1> QED
  BY NativeIsItsParts, DevicesReady, RingImplementsQueue, SoundInOrder, HostMapsTheSpace, PTL
=============================================================================
