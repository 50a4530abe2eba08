---------------------------- MODULE PsTree_proof ----------------------------
(***************************************************************************)
(* Theorems about pstree, for any processes, any births and deaths, any    *)
(* options and any size of its array.                                      *)
(***************************************************************************)
EXTENDS PsTree, FiniteSetTheorems, SequenceTheorems, WellFoundedInduction, TLAPS

----------------------------------------------------------------------------
\* Numbers

\* Every set of natural numbers has a least one, which stands in for induction.
LEMMA Least ==
    ASSUME NEW S \in SUBSET Nat, S # {}
    PROVE  \E x \in S : \A y \in S : x <= y
<1>1. PICK x \in S : \A y \in S : ~(<<y, x>> \in OpToRel(<, Nat))
  BY NatLessThanWellFounded, WFMin
<1>2. ASSUME NEW y \in S, y < x PROVE FALSE
  <2>1. <<y, x>> \in Nat \X Nat /\ <<y, x>>[1] < <<y, x>>[2]
    BY <1>2
  <2>2. <<y, x>> \in OpToRel(<, Nat)
    BY <2>1, Zenon DEF OpToRel
  <2> QED  BY <1>1, <2>2
<1> QED  BY <1>2

LEMMA Greatest ==
    ASSUME NEW n \in Nat, NEW S \in SUBSET (1 .. n), S # {}
    PROVE  \E x \in S : \A y \in S : y <= x
<1> DEFINE T == {m \in Nat : \A y \in S : y <= m}
<1>1. T # {}
  BY n \in T
<1>2. PICK m \in T : \A k \in T : m <= k
  <2> HIDE DEF T
  <2>1. T \in SUBSET Nat
    BY DEF T
  <2> QED  BY <1>1, <2>1, Least
<1>3. m \in S
  <2>1. SUFFICES ASSUME m \notin S PROVE FALSE
    OBVIOUS
  <2>2. \A y \in S : y <= m - 1 /\ y >= 1 /\ y \in Nat
    BY <2>1, <1>2
  <2>3. PICK y \in S : y <= m - 1 /\ y >= 1 /\ y \in Nat /\ m \in Nat
    BY <2>2, <1>2
  <2>4. m - 1 \in Nat
    BY <2>3
  <2>5. m - 1 \in T
    BY <2>2, <2>4
  <2> QED  BY <2>3, <2>5, <1>2
<1> QED  BY <1>2, <1>3

LEMMA MinIs ==
    ASSUME NEW S \in SUBSET Nat, S # {}
    PROVE  Min(S) \in S /\ \A x \in S : Min(S) <= x
BY Least DEF Min

LEMMA Interval ==
    ASSUME NEW n \in Nat
    PROVE  IsFiniteSet(1 .. n) /\ Cardinality(1 .. n) = n
<1>1. 1 \in Int /\ n \in Int /\ n = IF 1 > n THEN 0 ELSE n - 1 + 1
  OBVIOUS
<1> QED  BY ONLY <1>1, FS_Interval

LEMMA PidsAreNumbers ==
    /\ \A p \in Pid : p \in Int /\ p \in Nat
    /\ 1 \in Pid /\ 0 \notin Pid /\ Lost \notin Nat /\ Lost \in Int
    /\ Gone \notin Pid \cup {0, Lost}
<1>1. Pid \subseteq Nat \ {0} /\ 1 \in Pid /\ Gone \notin Int
  BY PsTreeAssumption
<1>2. Lost \in Int /\ Lost \notin Nat
  BY DEF Lost
<1>3. \A p \in Pid : p \in Nat /\ p \in Int
  BY <1>1
<1>4. 0 \notin Pid
  BY <1>1
<1>5. \A p \in Pid \cup {0, Lost} : p # Gone
  BY <1>1, <1>2, <1>3
<1> QED  BY <1>1, <1>2, <1>3, <1>4, <1>5

----------------------------------------------------------------------------
\* qsort

\* t has the entries of s, each in one place, by pid.
Shuffled(s, t) ==
    \E f \in [1 .. Len(s) -> 1 .. Len(s)] :
        /\ \A i, j \in 1 .. Len(s) : f[i] = f[j] => i = j
        /\ \A i \in 1 .. Len(s) : \E r \in 1 .. Len(s) : f[r] = i
        /\ t = [r \in 1 .. Len(s) |-> s[f[r]]]
        /\ \A i, j \in 1 .. Len(s) : i < j => s[f[i]][1] <= s[f[j]][1]

LEMMA SortedIs ==
    ASSUME NEW s \in Seq(Pid \X (Pid \cup {0, Lost})), NEW stable \in BOOLEAN
    PROVE  Shuffled(s, Sorted(s, stable))
<1> DEFINE n == Len(s)
           D == 1 .. n
           Key(i) == s[i][1]
           Upto(j, i) == \/ Key(j) < Key(i)
                         \/ Key(j) = Key(i) /\ IF stable THEN j <= i ELSE i <= j
           place == [i \in D |-> Cardinality({j \in D : Upto(j, i)})]
           f == [r \in D |-> CHOOSE i \in D : place[i] = r]
<1>1. n \in Nat /\ IsFiniteSet(D) /\ Cardinality(D) = n
  <2>1. n \in Nat
    OBVIOUS
  <2> HIDE DEF n
  <2> QED  BY <2>1, Interval
<1>2. \A i \in D : Key(i) \in Int
  <2>1. \A i \in D : s[i] \in Pid \X (Pid \cup {0, Lost})
    OBVIOUS
  <2> HIDE DEF n
  <2>2. \A i \in D : s[i][1] \in Pid
    BY ONLY <2>1
  <2> QED  BY <2>2, PidsAreNumbers
<1>3. Sorted(s, stable) = [r \in D |-> s[f[r]]]
  BY DEF Sorted
<1> HIDE DEF n, Key
<1>4. \A i \in D : place[i] \in D
  <2> TAKE i \in D
  <2> DEFINE U == {j \in D : Upto(j, i)}
  <2>1. i \in U /\ U \in SUBSET D
    BY <1>2
  <2> HIDE DEF U, D
  <2>2. IsFiniteSet(U) /\ Cardinality(U) <= n
    BY <2>1, <1>1, FS_Subset
  <2>3. Cardinality(U) \in Nat /\ Cardinality(U) # 0
    BY <2>1, <2>2, FS_CardinalityType, FS_EmptySet
  <2> QED  BY <2>2, <2>3, <1>1 DEF U, D
<1>5. \A i, j \in D : i # j /\ Upto(i, j) => place[i] < place[j]
  <2> TAKE i, j \in D
  <2> HAVE i # j /\ Upto(i, j)
  <2> DEFINE U == {k \in D : Upto(k, i)}
             V == {k \in D : Upto(k, j)}
  <2>1. U \in SUBSET V /\ V \in SUBSET D /\ j \in V /\ j \notin U
    BY <1>1, <1>2
  <2> HIDE DEF U, V
  <2>2. IsFiniteSet(V)
    BY <2>1, <1>1, FS_Subset
  <2>3. IsFiniteSet(U) /\ Cardinality(U) <= Cardinality(V) /\ Cardinality(U) # Cardinality(V)
    BY <2>1, <2>2, FS_Subset
  <2>4. Cardinality(U) < Cardinality(V)
    BY <2>2, <2>3, FS_CardinalityType
  <2> QED  BY <2>4 DEF U, V
<1>6. \A i, j \in D : Upto(i, j) \/ Upto(j, i)
  BY <1>1, <1>2
<1> HIDE DEF place
<1>7. \A i, j \in D : place[i] = place[j] => i = j
  BY <1>4, <1>5, <1>6
<1>8. \A r \in D : \E i \in D : place[i] = r
  <2>1. place \in Injection(D, D)
    <3>1. place \in [D -> D]
      BY <1>4 DEF place
    <3> QED  BY <3>1, <1>7 DEF Injection, IsInjective
  <2>2. place \in Surjection(D, D)
    BY <2>1, <1>1, FS_Injection
  <2> QED  BY <2>2 DEF Surjection
<1>9. f \in [D -> D] /\ \A r \in D : place[f[r]] = r
  BY <1>8
<1>10. \A i \in D : f[place[i]] = i /\ place[i] \in D
  BY <1>4, <1>7, <1>9
<1>11. \A i, j \in D : i < j => Key(f[i]) <= Key(f[j])
  <2> TAKE i, j \in D
  <2> HAVE i < j
  <2> HIDE DEF f
  <2>1. /\ i \in Nat /\ j \in Nat /\ place[f[i]] = i /\ place[f[j]] = j
        /\ f[i] \in D /\ f[j] \in D
    BY <1>1, <1>9
  <2>2. ~Upto(f[j], f[i])
    <3>1. f[i] # f[j] /\ ~(place[f[j]] < place[f[i]])
      BY <2>1
    <3> QED  BY <2>1, <3>1, <1>5
  <2> QED  BY <2>1, <2>2, <1>2
<1>12. \A i, j \in D : f[i] = f[j] => i = j
  BY <1>9
<1> HIDE DEF f
<1>13. \A i, j \in D : i < j => s[f[i]][1] <= s[f[j]][1]
  BY <1>9, <1>11 DEF Key
<1>14. \A i \in D : \E r \in D : f[r] = i
  BY <1>10
<1> SUFFICES \E g \in [D -> D] :
               /\ \A i, j \in D : g[i] = g[j] => i = j
               /\ \A i \in D : \E r \in D : g[r] = i
               /\ Sorted(s, stable) = [r \in D |-> s[g[r]]]
               /\ \A i, j \in D : i < j => s[g[i]][1] <= s[g[j]][1]
  BY DEF n, Shuffled
<1> QED  BY <1>3, <1>9, <1>12, <1>13, <1>14

----------------------------------------------------------------------------
\* Types

Entry == Pid \X (Pid \cup {0, Lost})
Node == [pid : Pid \cup {0}, addr : 0 .. MaxPids]

\* How far the program is: what it keeps between its phases.
Phase ==
    /\ pc \in {"open", "read"} => node = <<>>
    /\ calls # <<>> <=> pc = "build" \/ (pc = "crash" /\ why # "overflow")
    /\ pc \in {"build", "print"} => dirents = {}
    /\ pc # "done" => todo # <<>>
    /\ why # "none" <=> pc = "crash"

LEMMA AliveArePids == Alive \subseteq Pid
BY DEF Alive

LEMMA InsertedType ==
    ASSUME NEW n \in Nat, NEW list \in Seq(1 .. n), NEW nd
    PROVE  Inserted(list, n + 1, nd) \in Seq(1 .. n + 1)
<1>1. CASE list = <<>>
  <2>1. <<n + 1>> \in Seq(1 .. n + 1)
    OBVIOUS
  <2> QED  BY <1>1, <2>1 DEF Inserted
<1>2. CASE list # <<>>
  <2> DEFINE stop == {k \in 1 .. Len(list) : k = Len(list) \/ ~Before(list[k], n + 1, nd)}
  <2>1. Len(list) \in Nat /\ Len(list) >= 1
    BY <1>2
  <2>2. stop \in SUBSET Nat /\ Len(list) \in stop
    BY <2>1
  <2>3. Min(stop) \in 1 .. Len(list)
    <3> HIDE DEF stop
    <3>1. Min(stop) \in stop
      BY <2>2, MinIs
    <3> QED  BY <3>1 DEF stop
  <2>4. Inserted(list, n + 1, nd) = Append(SubSeq(list, 1, Min(stop)), n + 1)
    BY <1>2 DEF Inserted
  <2> HIDE DEF stop
  <2>5. \A i \in 1 .. Len(list) : list[i] \in 1 .. n + 1
    OBVIOUS
  <2> DEFINE l == SubSeq(list, 1, Min(stop))
  <2>6. l \in Seq(1 .. n + 1)
    BY <2>1, <2>3, <2>5
  <2> HIDE DEF l
  <2>7. Append(l, n + 1) \in Seq(1 .. n + 1)
    BY <2>6
  <2> QED  BY <2>4, <2>7 DEF l
<1> QED  BY <1>1, <1>2

LEMMA InitTypes == Init => TypeOK /\ Phase
<1> SUFFICES ASSUME Init PROVE TypeOK /\ Phase
  OBVIOUS
<1> USE PsTreeAssumption DEF Init
<1>1. Alive \subseteq Pid
  BY DEF Alive
<1>2. rootPID \in Roots /\ todo \in Seq({"name", "n", "p"}) /\ todo # <<>>
  OBVIOUS
<1>3. /\ pids \in Seq(Pid \X (Pid \cup {0, Lost})) /\ Len(pids) <= MaxPids
      /\ node \in Seq(Node) /\ Len(kids) = Len(node) /\ kids \in Seq(Seq(1 .. Len(node)))
      /\ calls \in Seq([p : 0 .. Len(node), pid : Pid \cup {0}, i : 1 .. Len(pids) + 1])
  OBVIOUS
<1> QED  BY <1>1, <1>2, <1>3 DEF TypeOK, Phase, Node

LEMMA MachineTypes ==
    ASSUME TypeOK, Phase, NEW p \in Pid,
           Exit(p) \/ \E q \in Pid : Fork(p, q)
    PROVE  TypeOK' /\ Phase'
<1> USE PidsAreNumbers
<1>1. events + 1 \in 0 .. MaxEvents
  <2>1. events \in Int /\ 0 <= events /\ events < MaxEvents
    BY DEF TypeOK, Fork, Exit
  <2> QED  BY <2>1, PsTreeAssumption
<1>2. CASE Exit(p)
  <2>1. /\ UNCHANGED <<used, program>> /\ events' = events + 1
        /\ parent' \in [Pid -> Pid \cup {0, Gone}]
        /\ steady' \subseteq steady \ {p}
        /\ \A q \in Pid : parent'[q] # Gone <=> q # p /\ parent[q] # Gone
    BY <1>2 DEF TypeOK, Exit
  <2> QED  BY <1>1, <2>1 DEF TypeOK, Phase, program, Alive
<1>3. ASSUME NEW q \in Pid, Fork(p, q) PROVE TypeOK' /\ Phase'
  <2>1. /\ UNCHANGED <<steady, program>> /\ events' = events + 1
        /\ parent' \in [Pid -> Pid \cup {0, Gone}]
        /\ used' = used \cup {q}
        /\ \A r \in Pid : parent'[r] # Gone <=> r = q \/ parent[r] # Gone
    BY <1>3 DEF TypeOK, Fork
  <2> QED  BY <1>1, <2>1 DEF TypeOK, Phase, program, Alive
<1> QED  BY <1>2, <1>3

LEMMA Widen ==
    ASSUME NEW n \in Nat, NEW l \in Seq(1 .. n)
    PROVE  l \in Seq(1 .. n + 1)
<1>1. \A i \in 1 .. Len(l) : l[i] \in 1 .. n + 1
  OBVIOUS
<1> QED  BY <1>1

Call(n, len) == [p : 0 .. n, pid : Pid \cup {0}, i : 1 .. len + 1]

LEMMA AddressIs == ASSUME NEW a \in Addresses PROVE a \in 0 .. MaxPids
BY PsTreeAssumption DEF Addresses

\* The last call, and the children that its loop has still to come to.
LEMMA TopIs ==
    ASSUME TypeOK, calls # <<>>
    PROVE  /\ Len(calls) \in Nat \ {0} /\ Len(pids) \in Nat /\ Len(node) \in Nat
           /\ Top \in Call(Len(node), Len(pids))
           /\ Matches \in SUBSET (1 .. Len(pids))
           /\ Matches # {} => /\ Min(Matches) \in Matches
                              /\ \A i \in Matches : Min(Matches) <= i
<1>1. Len(calls) \in Nat \ {0} /\ Len(pids) \in Nat /\ Len(node) \in Nat
  BY DEF TypeOK
<1>2. Top \in Call(Len(node), Len(pids))
  <2>1. calls \in Seq(Call(Len(node), Len(pids))) /\ Len(calls) \in 1 .. Len(calls)
    BY <1>1 DEF TypeOK, Call
  <2> QED  BY <2>1 DEF Top
<1>3. Top.i \in Nat /\ Top.i >= 1
  BY <1>2 DEF Call
<1>4. Matches \in SUBSET (1 .. Len(pids)) /\ Matches \in SUBSET Nat
  BY <1>1, <1>3 DEF Matches
<1> QED  BY <1>1, <1>2, <1>4, MinIs

\* What Descend does to the tree and the calls if it does not crash.
Grow(i, q, a) ==
    LET child == pids[i][1]
    IN  /\ Top.p \in 1 .. Len(node) /\ child \in Alive /\ Len(calls) < MaxCalls
        /\ a \in 0 .. MaxPids
        /\ node' = Append(node, [pid |-> child, addr |-> a])
        /\ kids' = Append([kids EXCEPT ![Top.p] = Inserted(@, q, node')], <<>>)
        /\ calls' = Append(Append(Pop, [Top EXCEPT !.i = i + 1]),
                           [p |-> q, pid |-> child, i |-> 1])
        /\ UNCHANGED <<machine, steady, rootPID, todo, dirents, pids, pc, why>>

LEMMA DescendIs ==
    ASSUME TypeOK, Descend
    PROVE  \/ \E a \in 0 .. MaxPids : Grow(Min(Matches), Len(node) + 1, a)
           \/ /\ pc' = "crash" /\ UNCHANGED <<machine, steady, rootPID, todo, dirents, pids, node, kids, calls>>
              /\ \/ why' = "null" /\ (Top.p = 0 \/ pids[Min(Matches)][1] \notin Alive)
                 \/ why' = "depth" /\ Len(calls) = MaxCalls
<1>1. Top.p \in 0 .. Len(node) /\ Len(node) \in Nat
  BY TopIs DEF Descend, Call
<1>2. Top.p # 0 => Top.p \in 1 .. Len(node)
  BY <1>1
<1> DEFINE c == pids[Min(Matches)][1]
           q == Len(node) + 1
<1>3. CASE Top.p # 0 /\ c \in Alive /\ Len(calls) < MaxCalls
  <2>0. Len(calls) # MaxCalls
    BY <1>3, TopIs, PsTreeAssumption DEF Descend
  <2>1. PICK a \in Addresses :
           /\ node' = Append(node, [pid |-> c, addr |-> a])
           /\ kids' = Append([kids EXCEPT ![Top.p] = Inserted(@, q, node')], <<>>)
           /\ calls' = Append(Append(Pop, [Top EXCEPT !.i = Min(Matches) + 1]),
                              [p |-> q, pid |-> c, i |-> 1])
           /\ UNCHANGED <<machine, steady, rootPID, todo, dirents, pids, pc, why>>
    BY <1>3, <2>0, Zenon DEF Descend
  <2> QED  BY <1>2, <1>3, <2>1, AddressIs DEF Grow
<1>4. CASE ~(Top.p # 0 /\ c \in Alive /\ Len(calls) < MaxCalls)
  BY <1>4 DEF Descend
<1> QED  BY <1>3, <1>4

LEMMA ButLast ==
    ASSUME NEW S, NEW s \in Seq(S), s # <<>>
    PROVE  LET t == SubSeq(s, 1, Len(s) - 1)
           IN  /\ t \in Seq(S) /\ Len(t) = Len(s) - 1 /\ Len(s) \in Nat \ {0}
               /\ \A c \in 1 .. Len(s) - 1 : t[c] = s[c]
<1>1. Len(s) \in Nat \ {0}
  OBVIOUS
<1> DEFINE n == Len(s) - 1
<1>2. 1 \in 1 .. Len(s) + 1 /\ n \in 1 - 1 .. Len(s) /\ n \in Nat
  BY <1>1
<1> HIDE DEF n
<1>3. /\ SubSeq(s, 1, n) \in Seq(S)
      /\ Len(SubSeq(s, 1, n)) = IF 1 <= n THEN n - 1 + 1 ELSE 0
      /\ \A c \in 1 .. n - 1 + 1 : SubSeq(s, 1, n)[c] = s[1 + c - 1]
  BY <1>2, SubSeqProperties
<1>4. \A c \in 1 .. n : 1 + c - 1 = c /\ c \in 1 .. n - 1 + 1
  BY <1>2
<1>5. (IF 1 <= n THEN n - 1 + 1 ELSE 0) = n
  BY <1>2
<1> QED  BY <1>1, <1>3, <1>4, <1>5 DEF n

LEMMA Pushed ==
    ASSUME NEW S, NEW s \in Seq(S), NEW x \in S
    PROVE  LET t == Append(s, x)
           IN  /\ t \in Seq(S) /\ Len(t) = Len(s) + 1 /\ Len(s) \in Nat
               /\ \A c \in 1 .. Len(s) : t[c] = s[c]
               /\ t[Len(s) + 1] = x
OBVIOUS

LEMMA ReplaceLast ==
    ASSUME NEW S, NEW s \in Seq(S), s # <<>>, NEW x \in S, NEW y \in S
    PROVE  LET t == Append(Append(SubSeq(s, 1, Len(s) - 1), x), y)
               m == Len(s)
           IN  /\ t \in Seq(S) /\ Len(t) = m + 1 /\ m \in Nat \ {0}
               /\ \A c \in 1 .. m - 1 : t[c] = s[c]
               /\ t[m] = x /\ t[m + 1] = y
<1> DEFINE u == SubSeq(s, 1, Len(s) - 1)
           v == Append(u, x)
           m == Len(s)
<1>1. u \in Seq(S) /\ Len(u) = m - 1 /\ m \in Nat \ {0} /\ \A c \in 1 .. m - 1 : u[c] = s[c]
  BY ButLast
<1> HIDE DEF u, m
<1>2. v \in Seq(S) /\ Len(v) = m /\ v[m] = x /\ \A c \in 1 .. m - 1 : v[c] = s[c]
  <2>1. /\ v \in Seq(S) /\ Len(v) = Len(u) + 1
        /\ \A c \in 1 .. Len(u) : v[c] = u[c]
        /\ v[Len(u) + 1] = x
    BY <1>1, Pushed
  <2>2. m - 1 + 1 = m
    BY <1>1
  <2> QED  BY <1>1, <2>1, <2>2
<1> HIDE DEF v
<1> DEFINE t == Append(v, y)
<1>3. /\ t \in Seq(S) /\ Len(t) = m + 1
      /\ \A c \in 1 .. m : t[c] = v[c]
      /\ t[m + 1] = y
  BY <1>2, Pushed
<1>4. m \in 1 .. m /\ \A c \in 1 .. m - 1 : c \in 1 .. m
  BY <1>1
<1> QED  BY <1>1, <1>2, <1>3, <1>4 DEF u, v, m

LEMMA GrowIs ==
    ASSUME TypeOK, calls # <<>>, NEW i \in 1 .. Len(pids), NEW a, Grow(i, Len(node) + 1, a)
    PROVE  LET n == Len(node)
               m == Len(calls)
           IN  /\ n \in Nat /\ Len(node') = n + 1 /\ node' \in Seq(Node)
               /\ \A r \in 1 .. n : node'[r] = node[r]
               /\ node'[n + 1].pid = pids[i][1]
               /\ Len(kids) = n /\ Len(kids') = n + 1 /\ kids' \in Seq(Seq(1 .. n + 1))
               /\ \A r \in 1 .. n : r # Top.p => kids'[r] = kids[r]
               /\ kids'[Top.p] = Inserted(kids[Top.p], n + 1, node')
               /\ kids'[n + 1] = <<>>
               /\ m \in Nat \ {0} /\ Len(calls') = m + 1
               /\ calls' \in Seq(Call(n + 1, Len(pids)))
               /\ \A c \in 1 .. m - 1 : calls'[c] = calls[c]
               /\ calls'[m] = [Top EXCEPT !.i = i + 1]
               /\ calls'[m + 1] = [p |-> n + 1, pid |-> pids[i][1], i |-> 1]
<1> DEFINE n == Len(node)
           m == Len(calls)
           child == pids[i][1]
<1>0. /\ n \in Nat /\ m \in Nat \ {0} /\ Len(pids) \in Nat
      /\ Top \in Call(n, Len(pids)) /\ Top.p \in 1 .. n /\ child \in Pid
      /\ pids' = pids
  BY TopIs, AliveArePids DEF Grow
<1>1. /\ n \in Nat /\ Len(node') = n + 1 /\ node' \in Seq(Node)
      /\ \A r \in 1 .. n : node'[r] = node[r]
      /\ node'[n + 1].pid = child
  <2>1. node \in Seq(Node) /\ [pid |-> child, addr |-> a] \in Node
    BY <1>0 DEF TypeOK, Node, Grow
  <2>2. node' = Append(node, [pid |-> child, addr |-> a])
    BY DEF Grow
  <2> QED  BY <2>1, <2>2, Pushed
<1>2. /\ Len(kids) = n /\ Len(kids') = n + 1 /\ kids' \in Seq(Seq(1 .. n + 1))
      /\ \A r \in 1 .. n : r # Top.p => kids'[r] = kids[r]
      /\ kids'[Top.p] = Inserted(kids[Top.p], n + 1, node')
      /\ kids'[n + 1] = <<>>
  <2>1. kids \in Seq(Seq(1 .. n)) /\ Len(kids) = n
    BY DEF TypeOK
  <2>2. \A r \in 1 .. n : kids[r] \in Seq(1 .. n)
    BY <2>1
  <2> DEFINE new == Inserted(kids[Top.p], n + 1, node')
             ks == [kids EXCEPT ![Top.p] = new]
  <2>3. new \in Seq(1 .. n + 1)
    BY <1>0, <2>2, InsertedType
  <2>4. \A r \in 1 .. n : kids[r] \in Seq(1 .. n + 1)
    BY <1>0, <2>2, Widen
  <2>5. kids' = Append(ks, <<>>)
    BY DEF Grow
  <2> HIDE DEF new, n
  <2>6. /\ ks \in Seq(Seq(1 .. n + 1)) /\ Len(ks) = n
        /\ ks[Top.p] = new /\ \A r \in 1 .. n : r # Top.p => ks[r] = kids[r]
    <3>1. ks \in [1 .. n -> Seq(1 .. n + 1)]
      BY <1>0, <2>1, <2>3, <2>4
    <3> QED  BY <1>0, <2>1, <3>1
  <2> HIDE DEF ks
  <2>7. <<>> \in Seq(1 .. n + 1)
    OBVIOUS
  <2>8. /\ kids' \in Seq(Seq(1 .. n + 1)) /\ Len(kids') = n + 1
        /\ \A r \in 1 .. n : kids'[r] = ks[r]
        /\ kids'[n + 1] = <<>>
    BY <2>5, <2>6, <2>7, Pushed
  <2> QED  BY <1>0, <2>1, <2>6, <2>8 DEF new, n
<1>3. /\ Len(calls') = m + 1 /\ calls' \in Seq(Call(n + 1, Len(pids)))
      /\ \A c \in 1 .. m - 1 : calls'[c] = calls[c]
      /\ calls'[m] = [Top EXCEPT !.i = i + 1]
      /\ calls'[m + 1] = [p |-> n + 1, pid |-> child, i |-> 1]
  <2> DEFINE S == Call(n + 1, Len(pids))
             x == [Top EXCEPT !.i = i + 1]
             y == [p |-> n + 1, pid |-> child, i |-> 1]
  <2>1. x \in S /\ y \in S
    BY <1>0 DEF Call
  <2>2. calls \in Seq(S)
    <3>1. calls \in Seq(Call(n, Len(pids)))
      BY DEF TypeOK, Call
    <3>2. Call(n, Len(pids)) \subseteq S
      BY <1>0 DEF Call
    <3> HIDE DEF S
    <3>3. \A c \in 1 .. m : calls[c] \in S
      BY <3>1, <3>2
    <3> QED  BY <3>1, <3>3
  <2>3. calls' = Append(Append(SubSeq(calls, 1, Len(calls) - 1), x), y)
    BY DEF Grow, Pop
  <2> HIDE DEF S, x, y
  <2> QED  BY <2>1, <2>2, <2>3, ReplaceLast DEF x, y, S
<1> QED  BY <1>0, <1>1, <1>2, <1>3

\* pids after qsort.
LEMMA SortedType ==
    ASSUME NEW s \in Seq(Entry), NEW stable \in BOOLEAN
    PROVE  Sorted(s, stable) \in Seq(Entry) /\ Len(Sorted(s, stable)) = Len(s)
<1>1. PICK f \in [1 .. Len(s) -> 1 .. Len(s)] : Sorted(s, stable) = [r \in 1 .. Len(s) |-> s[f[r]]]
  <2>1. Shuffled(s, Sorted(s, stable))
    BY SortedIs DEF Entry
  <2> QED  BY <2>1, Zenon DEF Shuffled
<1>2. Len(s) \in Nat /\ \A r \in 1 .. Len(s) : s[r] \in Entry
  OBVIOUS
<1>3. [r \in 1 .. Len(s) |-> s[f[r]]] \in [1 .. Len(s) -> Entry]
  BY <1>2
<1> QED  BY <1>1, <1>2, <1>3

LEMMA ReadType ==
    ASSUME TypeOK, NEW p \in Pid, NEW x \in ReadPPID(p)
    PROVE  <<p, x>> \in Entry
<1>1. \A i \in 1 .. Len(pids) : pids[i][2] \in Pid \cup {0, Lost}
  BY DEF TypeOK
<1>2. p \in Alive => parent[p] \in Pid \cup {0}
  BY DEF TypeOK, Alive
<1>3. x \in Pid \cup {0, Lost}
  BY <1>1, <1>2 DEF ReadPPID, Misread
<1> QED  BY <1>3 DEF Entry

LEMMA PopIs ==
    ASSUME TypeOK, calls # <<>>
    PROVE  /\ Pop \in Seq(Call(Len(node), Len(pids)))
           /\ Len(calls) \in Nat \ {0} /\ Len(Pop) = Len(calls) - 1
           /\ \A c \in 1 .. Len(calls) - 1 : Pop[c] = calls[c]
<1>1. calls \in Seq(Call(Len(node), Len(pids)))
  BY DEF TypeOK, Call
<1> QED  BY <1>1, ButLast DEF Pop

LEMMA StepTypes == ASSUME TypeOK, Phase, Step PROVE TypeOK' /\ Phase'
<1>0. /\ parent \in [Pid -> Pid \cup {0, Gone}] /\ Alive \subseteq Pid
      /\ 1 <= MaxPids /\ <<1, 0>> \in Entry
      /\ pids \in Seq(Entry) /\ Len(pids) \in Nat /\ MaxPids \in Nat
  <2>1. 1 <= MaxPids /\ MaxPids \in Nat
    BY PsTreeAssumption
  <2>2. <<1, 0>> \in Entry
    BY PidsAreNumbers DEF Entry
  <2> QED  BY <2>1, <2>2, AliveArePids DEF TypeOK, Entry
<1>1. CASE Open
  <2>1. node = <<>> /\ kids = <<>> /\ calls = <<>> /\ why = "none"
    BY <1>1, EmptySeq DEF Open, Phase, TypeOK
  <2>2. pids' \in Seq(Entry) /\ Len(pids') <= MaxPids
    BY <1>0, <1>1 DEF Open, ByHand
  <2> QED  BY <1>0, <1>1, <2>1, <2>2 DEF Open, Phase, TypeOK, Entry, Alive, machine
<1>2. ASSUME NEW p \in Pid, Read(p) PROVE TypeOK' /\ Phase'
  <2>1. UNCHANGED <<machine, steady, rootPID, todo, node, kids, calls>> /\ calls = <<>> /\ node = <<>>
        /\ dirents' \subseteq dirents /\ pc = "read" /\ why = "none"
    BY <1>2 DEF Read, Phase
  <2>2. \/ /\ pids' \in Seq(Entry) /\ Len(pids') <= MaxPids /\ UNCHANGED <<pc, why>>
        \/ /\ pc' = "crash" /\ why' = "overflow" /\ UNCHANGED pids
    <3>1. CASE Room
      <4>1. PICK x \in ReadPPID(p) : pids' = Append(pids, <<p, x>>) /\ UNCHANGED <<pc, why>>
        BY <1>2, <3>1 DEF Read
      <4>2. Len(pids) + 1 <= MaxPids
        BY <1>0, <3>1 DEF Room
      <4>3. <<p, x>> \in Entry
        BY ReadType
      <4> QED  BY <1>0, <4>1, <4>2, <4>3, Pushed
    <3>2. CASE ~Room
      BY <1>2, <3>2 DEF Read
    <3> QED  BY <3>1, <3>2
  <2>3. calls' \in Seq(Call(Len(node'), Len(pids')))
    BY <2>1
  <2> QED  BY <1>0, <2>1, <2>2, <2>3 DEF Phase, TypeOK, Entry, Alive, machine, Call
<1>3. CASE MakeRoot
  <2>1. /\ UNCHANGED <<machine, steady, rootPID, todo, why, dirents>>
        /\ pc' = "build" /\ calls' = <<[p |-> Len(node'), pid |-> rootPID, i |-> 1]>>
        /\ node = <<>> /\ kids = <<>> /\ pc = "read" /\ dirents = {}
    BY <1>3, EmptySeq DEF MakeRoot, Phase, TypeOK
  <2>2. pids' \in Seq(Entry) /\ Len(pids') = Len(pids)
    BY <1>0, <1>3, SortedType DEF MakeRoot
  <2>3. rootPID \in Pid \cup {0}
    BY PsTreeAssumption DEF TypeOK
  <2>4. \/ \E a \in 0 .. MaxPids : node' = <<[pid |-> rootPID, addr |-> a]>> /\ kids' = <<<<>>>>
        \/ node' = <<>> /\ kids' = <<>>
    BY <1>3, <2>1, AddressIs DEF MakeRoot
  <2>5. /\ node' \in Seq(Node) /\ Len(node') \in Nat /\ Len(kids') = Len(node')
        /\ kids' \in Seq(Seq(1 .. Len(node')))
    <3>1. CASE node' = <<>> /\ kids' = <<>>
      BY <3>1
    <3>2. ASSUME NEW a \in 0 .. MaxPids, node' = <<[pid |-> rootPID, addr |-> a]>> /\ kids' = <<<<>>>>
          PROVE  <2>5
      <4>1. [pid |-> rootPID, addr |-> a] \in Node /\ <<>> \in Seq(1 .. 1)
        BY <2>3 DEF Node
      <4>2. Len(node') = 1 /\ node' \in Seq(Node)
        BY <3>2, <4>1
      <4>3. Len(kids') = 1 /\ kids' \in Seq(Seq(1 .. 1))
        BY <3>2, <4>1
      <4> QED  BY <4>2, <4>3
    <3> QED  BY <2>4, <3>1, <3>2
  <2>6. calls' \in Seq(Call(Len(node'), Len(pids'))) /\ calls' # <<>>
    <3>1. [p |-> Len(node'), pid |-> rootPID, i |-> 1] \in Call(Len(node'), Len(pids'))
      BY <1>0, <2>2, <2>3, <2>5 DEF Call
    <3> QED  BY <2>1, <3>1
  <2> QED  BY <1>0, <2>1, <2>2, <2>5, <2>6 DEF Phase, TypeOK, Entry, Alive, machine, Call, Node
<1>4. CASE Descend
  <2>1. calls # <<>> /\ Matches # {} /\ pc = "build"
    BY <1>4 DEF Descend
  <2>2. Min(Matches) \in 1 .. Len(pids)
    BY <2>1, TopIs
  <2>3. CASE \E a \in 0 .. MaxPids : Grow(Min(Matches), Len(node) + 1, a)
    <3>1. PICK a : Grow(Min(Matches), Len(node) + 1, a)
      BY <2>3
    <3>2. UNCHANGED <<machine, steady, rootPID, todo, dirents, pids, pc, why>>
      BY <3>1 DEF Grow
    <3>3. /\ node' \in Seq(Node) /\ Len(kids') = Len(node')
          /\ kids' \in Seq(Seq(1 .. Len(node')))
          /\ calls' \in Seq(Call(Len(node'), Len(pids'))) /\ calls' # <<>>
      <4>1. /\ Len(node) \in Nat /\ Len(node') = Len(node) + 1 /\ node' \in Seq(Node)
            /\ Len(kids') = Len(node) + 1 /\ kids' \in Seq(Seq(1 .. Len(node) + 1))
            /\ Len(calls) \in Nat \ {0} /\ Len(calls') = Len(calls) + 1
            /\ calls' \in Seq(Call(Len(node) + 1, Len(pids)))
        BY <2>1, <2>2, <3>1, GrowIs
      <4>2. calls' # <<>>
        BY <4>1
      <4> QED  BY <3>2, <4>1, <4>2
    <3> QED  BY <1>0, <2>1, <3>2, <3>3 DEF Phase, TypeOK, Entry, Alive, machine, Call, Node
  <2>4. CASE ~\E a \in 0 .. MaxPids : Grow(Min(Matches), Len(node) + 1, a)
    <3>1. /\ pc' = "crash" /\ why' \in {"null", "depth"}
          /\ UNCHANGED <<machine, steady, rootPID, todo, dirents, pids, node, kids, calls>>
      BY <1>4, <2>4, DescendIs
    <3> QED  BY <1>0, <2>1, <3>1 DEF Phase, TypeOK, Alive, machine
  <2> QED  BY <2>3, <2>4
<1>5. CASE Ascend
  <2>1. /\ UNCHANGED <<machine, steady, rootPID, todo, why, dirents, pids, node, kids>>
        /\ calls # <<>> /\ calls' = Pop /\ pc = "build"
        /\ pc' = IF calls' = <<>> THEN "print" ELSE "build"
    BY <1>5 DEF Ascend
  <2>2. calls' \in Seq(Call(Len(node), Len(pids)))
    BY <2>1, PopIs
  <2> QED  BY <1>0, <2>1, <2>2 DEF Phase, TypeOK, Alive, machine, Call
<1>6. CASE PrintTree
  <2>1. /\ UNCHANGED <<machine, steady, rootPID, why, dirents, pids, calls>>
        /\ node' = <<>> /\ kids' = <<>> /\ calls = <<>> /\ todo # <<>>
        /\ todo' = Tail(todo) /\ pc' = IF todo' = <<>> THEN "done" ELSE "open"
        /\ why = "none"
    BY <1>6 DEF PrintTree, Phase
  <2>2. todo' \in Seq({"name", "n", "p"})
    BY <2>1 DEF TypeOK
  <2>3. node' \in Seq([pid : Pid \cup {0}, addr : 0 .. MaxPids]) /\ Len(node') = 0
        /\ kids' \in Seq(Seq(1 .. 0)) /\ Len(kids') = 0
    BY <2>1
  <2>4. calls' \in Seq([p : 0 .. Len(node'), pid : Pid \cup {0}, i : 1 .. Len(pids') + 1])
    BY <2>1
  <2>5. TypeOK'
    BY <1>0, <2>1, <2>2, <2>3, <2>4 DEF TypeOK, Alive, machine
  <2>6. Phase'
    BY <2>1 DEF Phase
  <2> QED  BY <2>5, <2>6
<1> QED  BY <1>1, <1>2, <1>3, <1>4, <1>5, <1>6 DEF Step

LEMMA NextTypes == TypeOK /\ Phase /\ [Next]_vars => TypeOK' /\ Phase'
<1>1. ASSUME TypeOK, Phase, UNCHANGED vars PROVE TypeOK' /\ Phase'
  BY <1>1 DEF TypeOK, Phase, vars, machine, program, Alive
<1> QED  BY <1>1, StepTypes, MachineTypes DEF Next

\* The types of the processes, of the array and of the tree, whatever the options.
THEOREM PsTypeCorrect == Spec => []TypeOK
<1>1. Spec => [](TypeOK /\ Phase)
  BY InitTypes, NextTypes, PTL DEF Spec
<1> QED  BY <1>1, PTL

----------------------------------------------------------------------------
\* What the program knows of the processes

\* Whoever is alive has a parent that is, up to process 1.
Family ==
    /\ 1 \in Alive /\ parent[1] = 0
    /\ \A p \in Alive \ {1} : parent[p] \in Alive

(***************************************************************************)
(* pids holds processes that were there.  A process has one entry, but for *)
(* process 1, one of whose two says that it has no parent.  A process that *)
(* was there all the time is in pids or still to come.                     *)
(***************************************************************************)
Entries ==
    pc \in {"read", "build", "print"} =>
        /\ dirents \subseteq used
        /\ \A i \in 1 .. Len(pids) : pids[i][1] \in used /\ pids[i][2] \in used \cup {0, Lost}
        /\ \A i, j \in 1 .. Len(pids) :
               pids[i][1] = pids[j][1] /\ pids[i][2] # 0 /\ pids[j][2] # 0 => i = j
        /\ \A i \in 1 .. Len(pids) : pids[i][2] # 0 => pids[i][1] \notin dirents
        /\ \A p \in steady \ Spaced :
               p \in dirents \/ \E i \in 1 .. Len(pids) : pids[i] = <<p, parent[p]>>
        /\ pc = "read" => Len(pids) + Cardinality(dirents) <= 1 + Cardinality(used)
        /\ pc \in {"build", "print"} =>
               \A i, j \in 1 .. Len(pids) : i < j => pids[i][1] <= pids[j][1]

(***************************************************************************)
(* The calls are on nodes one below the other, with the pids of these, but *)
(* for a call on NULL: its pid is that of a process that is over, or of    *)
(* none that has children in pids.                                         *)
(***************************************************************************)
CallsFit ==
    /\ \A r \in 1 .. Len(node) : node[r].pid \in used \cup {0}
    /\ \A c \in 1 .. Len(calls) : calls[c].p # 0 => calls[c].pid = node[calls[c].p].pid
    /\ \A c, d \in 1 .. Len(calls) : c < d => calls[c].p < calls[d].p
    /\ \A c \in 1 .. Len(calls) : calls[c].p = 0 =>
           /\ Len(calls) = 1
           /\ \/ calls[c].pid \in used \ Alive
              \/ \A i \in 1 .. Len(pids) : pids[i][2] # calls[c].pid

Causes == /\ why = "null" => used # Alive
          /\ why = "overflow" => Cardinality(used) >= MaxPids

Known == Family /\ Entries /\ CallsFit /\ Causes

LEMMA InitKnown == Init => Known
<1> SUFFICES ASSUME Init PROVE Known
  OBVIOUS
<1>1. 1 \in Pid /\ 0 # Gone
  BY PidsAreNumbers
<1>2. Family
  BY <1>1 DEF Init, Family, Alive
<1>3. Entries /\ CallsFit /\ Causes
  BY DEF Init, Entries, CallsFit, Causes
<1> QED  BY <1>2, <1>3 DEF Known

LEMMA UsedIsFinite ==
    ASSUME TypeOK
    PROVE  /\ IsFiniteSet(used) /\ Cardinality(used) \in Nat
           /\ \A S \in SUBSET used : /\ IsFiniteSet(S) /\ Cardinality(S) \in Nat
                                     /\ Cardinality(S) <= Cardinality(used)
<1>1. used \in SUBSET Pid /\ IsFiniteSet(Pid)
  BY PsTreeAssumption DEF TypeOK
<1>2. IsFiniteSet(used)
  BY <1>1, FS_Subset
<1> QED  BY <1>2, FS_Subset, FS_CardinalityType

LEMMA ExitKeeps ==
    ASSUME TypeOK, Phase, Known, NEW p \in Pid, Exit(p)
    PROVE  Known'
<1>1. /\ UNCHANGED <<used, program>> /\ p \in Alive \ {1} /\ why = "none"
      /\ \A q \in Pid : parent'[q] = IF q = p THEN Gone
                                     ELSE IF parent[q] = p THEN 1 ELSE parent[q]
      /\ steady' \subseteq steady \ {p} /\ \A q \in steady' : parent[q] # p
  BY DEF Exit, Phase, Running
<1>2. /\ Alive' = Alive \ {p} /\ steady \subseteq Pid
      /\ \A q \in steady' : parent'[q] = parent[q]
  BY <1>1, PidsAreNumbers DEF Alive, TypeOK
<1>3. Family'
  BY <1>1, <1>2, PidsAreNumbers, AliveArePids DEF Family, Known
<1>4. Entries'
  BY <1>1, <1>2 DEF Known, Entries, program
<1>5. CallsFit' /\ Causes'
  BY <1>1, <1>2 DEF Known, CallsFit, Causes, program
<1> QED  BY <1>3, <1>4, <1>5 DEF Known

LEMMA ForkKeeps ==
    ASSUME TypeOK, Phase, Known, NEW p \in Pid, NEW q \in Pid, Fork(p, q)
    PROVE  Known'
<1>1. /\ UNCHANGED <<steady, program>> /\ p \in Alive /\ q \notin used /\ why = "none"
      /\ used' = used \cup {q}
      /\ \A r \in Pid : parent'[r] = IF r = q THEN p ELSE parent[r]
  BY DEF Fork, Phase, Running, TypeOK
<1>2. /\ Alive' = Alive \cup {q} /\ Alive \subseteq used
      /\ \A r \in steady : parent'[r] = parent[r]
      /\ q \notin Alive
  BY <1>1, PidsAreNumbers DEF Alive, TypeOK
<1>3. Family'
  BY <1>1, <1>2, PidsAreNumbers, AliveArePids DEF Family, Known
<1>4. Entries'
  <2>1. Cardinality(used) <= Cardinality(used') /\ Cardinality(used) \in Nat /\ Cardinality(used') \in Nat
    BY <1>1, UsedIsFinite, FS_AddElement
  <2>2. pc = "read" => Len(pids) \in Nat /\ Cardinality(dirents) \in Nat
    BY UsedIsFinite DEF Known, Entries, TypeOK
  <2>3. pc = "read" => Len(pids) + Cardinality(dirents) <= 1 + Cardinality(used')
    BY <2>1, <2>2 DEF Known, Entries
  <2> QED  BY <1>1, <1>2, <2>3 DEF Known, Entries, program
<1>5. CallsFit' /\ Causes'
  BY <1>1, <1>2 DEF Known, CallsFit, Causes, program
<1> QED  BY <1>3, <1>4, <1>5 DEF Known

LEMMA OpenKeeps == ASSUME TypeOK, Phase, Known, Open PROVE Known'
<1>1. /\ UNCHANGED <<machine, rootPID, todo, why, node, kids, calls>>
      /\ dirents' = Alive /\ steady' = Alive /\ pids' = <<<<1, 0>>>> /\ pc' = "read"
      /\ node = <<>> /\ calls = <<>> /\ why = "none"
  BY DEF Open, Phase, ByHand
<1>2. Alive' = Alive /\ Alive \subseteq used /\ 1 \in used
  BY <1>1 DEF machine, Alive, TypeOK, Known, Family
<1>3. Entries'
  <2>1. /\ Cardinality(Alive) \in Nat /\ Cardinality(Alive) <= Cardinality(used)
        /\ Cardinality(used) \in Nat
    BY <1>2, UsedIsFinite
  <2>2. 1 + Cardinality(Alive) <= 1 + Cardinality(used)
    BY <2>1
  <2>3. Len(pids') = 1 /\ pids'[1] = <<1, 0>> /\ \A i \in 1 .. Len(pids') : i = 1
    BY <1>1
  <2> QED  BY <1>1, <1>2, <2>2, <2>3 DEF Entries, machine
<1>4. Family' /\ CallsFit' /\ Causes'
  BY <1>1, <1>2 DEF machine, Known, Family, CallsFit, Causes
<1> QED  BY <1>3, <1>4 DEF Known

LEMMA ReadKeeps == ASSUME TypeOK, Phase, Known, NEW p \in Pid, Read(p) PROVE Known'
<1>1. /\ UNCHANGED <<machine, steady, rootPID, todo, node, kids, calls>>
      /\ p \in dirents /\ dirents' = dirents \ {p} /\ pc = "read"
      /\ node = <<>> /\ calls = <<>> /\ why = "none"
  BY DEF Read, Phase
<1>2. Alive' = Alive /\ Alive \subseteq used /\ dirents \subseteq used
  BY <1>1 DEF machine, Alive, TypeOK, Known, Entries
<1>3. Family' /\ CallsFit'
  BY <1>1, <1>2 DEF machine, Known, Family, CallsFit
<1>4. /\ Len(pids) \in Nat /\ MaxPids \in Nat /\ IsFiniteSet(dirents)
      /\ Cardinality(dirents) \in Nat /\ Cardinality(used) \in Nat
      /\ Cardinality(dirents \ {p}) = Cardinality(dirents) - 1
      /\ Cardinality(dirents \ {p}) \in Nat
  <2>1. Len(pids) \in Nat /\ MaxPids \in Nat
    BY PsTreeAssumption DEF TypeOK
  <2>2. /\ IsFiniteSet(dirents) /\ Cardinality(dirents) \in Nat /\ Cardinality(used) \in Nat
        /\ Cardinality(dirents \ {p}) \in Nat
    BY <1>2, UsedIsFinite
  <2> QED  BY <1>1, <2>1, <2>2, FS_RemoveElement
<1>5. Len(pids) + Cardinality(dirents) <= 1 + Cardinality(used)
  BY <1>1 DEF Known, Entries
<1>6. CASE Room
  <2>1. PICK x \in ReadPPID(p) : pids' = Append(pids, <<p, x>>) /\ UNCHANGED <<pc, why>>
    BY <1>6 DEF Read
  <2>2. x \in used \cup {0, Lost}
    BY <1>1, <1>2 DEF ReadPPID, Misread, Known, Family, Entries
  <2>3. pids \in Seq(Entry) /\ <<p, x>> \in Entry
    BY ReadType DEF TypeOK, Entry
  <2> DEFINE m == Len(pids)
  <2>4. /\ Len(pids') = m + 1 /\ \A i \in 1 .. m : pids'[i] = pids[i]
        /\ pids'[m + 1] = <<p, x>>
    BY <2>1, <2>3, Pushed
  <2>5. \A i \in 1 .. Len(pids') : i \in 1 .. m \/ i = m + 1
    BY <1>4, <2>4
  <2>6. \A q \in steady \ Spaced :
            q \in dirents' \/ \E i \in 1 .. Len(pids') : pids'[i] = <<q, parent'[q]>>
    <3> TAKE q \in steady \ Spaced
    <3>1. parent' = parent /\ m + 1 \in 1 .. Len(pids') /\ \A i \in 1 .. m : i \in 1 .. Len(pids')
      BY <1>1, <1>4, <2>4 DEF machine
    <3>2. CASE q = p
      <4>1. q \in Alive
        BY DEF TypeOK
      <4>2. x = parent[p]
        BY <2>1, <3>2, <4>1 DEF ReadPPID
      <4> QED  BY <2>4, <3>1, <3>2, <4>2
    <3>3. CASE q # p
      <4>1. q \in dirents \/ \E i \in 1 .. m : pids[i] = <<q, parent[q]>>
        BY <1>1 DEF Known, Entries
      <4> QED  BY <1>1, <2>4, <3>1, <3>3, <4>1
    <3> QED  BY <3>2, <3>3
  <2>7. Len(pids') + Cardinality(dirents') <= 1 + Cardinality(used')
    BY <1>1, <1>4, <1>5, <2>4 DEF machine
  <2>8. \A i \in 1 .. m :
           /\ pids[i][1] \in used /\ pids[i][2] \in used \cup {0, Lost}
           /\ pids[i][2] # 0 => pids[i][1] \notin dirents
    BY <1>1 DEF Known, Entries
  <2>9. \A i, j \in 1 .. Len(pids') :
            pids'[i][1] = pids'[j][1] /\ pids'[i][2] # 0 /\ pids'[j][2] # 0 => i = j
    <3>1. \A i \in 1 .. m : pids[i][2] # 0 => pids[i][1] # p
      BY <1>1, <2>8
    <3>2. \A i, j \in 1 .. m :
            pids[i][1] = pids[j][1] /\ pids[i][2] # 0 /\ pids[j][2] # 0 => i = j
      BY <1>1 DEF Known, Entries
    <3>3. <<p, x>>[1] = p
      OBVIOUS
    <3> HIDE DEF m
    <3> QED  BY <2>4, <2>5, <3>1, <3>2, <3>3
  <2>10. \A i \in 1 .. Len(pids') :
            /\ pids'[i][1] \in used /\ pids'[i][2] \in used \cup {0, Lost}
            /\ pids'[i][2] # 0 => pids'[i][1] \notin dirents'
    <3>1. <<p, x>>[1] = p /\ <<p, x>>[2] = x
      OBVIOUS
    <3> HIDE DEF m
    <3> QED  BY <1>1, <1>2, <2>2, <2>4, <2>5, <2>8, <3>1
  <2>11. Entries' /\ Causes'
    BY <1>1, <1>2, <2>1, <2>6, <2>7, <2>9, <2>10 DEF Entries, Causes, machine
  <2> QED  BY <1>3, <2>11 DEF Known
<1>7. CASE ~Room
  <2>1. pc' = "crash" /\ why' = "overflow" /\ pids' = pids
    BY <1>7 DEF Read
  <2>2. Cardinality(used) >= MaxPids
    BY <1>4, <1>5, <1>7 DEF Room
  <2>3. Entries' /\ Causes'
    BY <1>1, <2>1, <2>2 DEF Entries, Causes, machine
  <2> QED  BY <1>3, <2>3 DEF Known
<1> QED  BY <1>6, <1>7

LEMMA MakeRootIs ==
    ASSUME TypeOK, Phase, MakeRoot
    PROVE  /\ UNCHANGED <<machine, steady, rootPID, todo, why, dirents>>
           /\ node = <<>> /\ kids = <<>> /\ pc = "read" /\ dirents = {} /\ why = "none"
           /\ rootPID \in Pid \cup {0} /\ pc' = "build"
           /\ Len(pids') = Len(pids) /\ Len(pids) \in Nat /\ Shuffled(pids, pids')
           /\ \/ /\ rootPID \in Alive \cup {0} /\ Len(node') = 1
                 /\ node'[1].pid = rootPID /\ kids' = <<<<>>>>
              \/ rootPID \notin Alive \cup {0} /\ node' = <<>> /\ kids' = <<>>
           /\ Len(calls') = 1 /\ calls'[1] = [p |-> Len(node'), pid |-> rootPID, i |-> 1]
<1>1. /\ UNCHANGED <<machine, steady, rootPID, todo, why, dirents>>
      /\ pc' = "build" /\ calls' = <<[p |-> Len(node'), pid |-> rootPID, i |-> 1]>>
      /\ node = <<>> /\ kids = <<>> /\ pc = "read" /\ dirents = {} /\ why = "none"
  BY EmptySeq DEF MakeRoot, Phase, TypeOK
<1>2. PICK stable \in BOOLEAN : pids' = Sorted(pids, stable)
  BY DEF MakeRoot
<1>3. pids \in Seq(Entry) /\ Len(pids) \in Nat
  BY DEF TypeOK, Entry
<1>5. Shuffled(pids, pids')
  <2>1. pids \in Seq(Pid \X (Pid \cup {0, Lost}))
    BY DEF TypeOK
  <2> QED  BY <1>2, <2>1, SortedIs
<1>6. Len(pids') = Len(pids)
  BY <1>2, <1>3, SortedType
<1>7. \/ /\ rootPID \in Alive \cup {0} /\ Len(node') = 1
         /\ node'[1].pid = rootPID /\ kids' = <<<<>>>>
      \/ rootPID \notin Alive \cup {0} /\ node' = <<>> /\ kids' = <<>>
  BY <1>1 DEF MakeRoot
<1>8. rootPID \in Pid \cup {0}
  BY PsTreeAssumption DEF TypeOK
<1> QED  BY <1>1, <1>3, <1>5, <1>6, <1>7, <1>8

LEMMA MakeRootKeeps == ASSUME TypeOK, Phase, Known, MakeRoot PROVE Known'
<1>1. /\ UNCHANGED <<machine, steady, rootPID, todo, why, dirents>>
      /\ node = <<>> /\ pc = "read" /\ dirents = {} /\ why = "none"
      /\ rootPID \in Pid \cup {0} /\ pc' = "build"
      /\ Len(pids') = Len(pids) /\ Len(pids) \in Nat
  BY MakeRootIs
<1>2. Alive' = Alive /\ Alive \subseteq used /\ used' = used
  BY <1>1 DEF machine, Alive, TypeOK
<1>3. Family' /\ Causes'
  BY <1>1, <1>2 DEF machine, Known, Family, Causes
<1> DEFINE n == Len(pids)
<1>4. PICK f \in [1 .. n -> 1 .. n] :
          /\ \A i, j \in 1 .. n : f[i] = f[j] => i = j
          /\ \A i \in 1 .. n : \E r \in 1 .. n : f[r] = i
          /\ pids' = [r \in 1 .. n |-> pids[f[r]]]
          /\ \A i, j \in 1 .. n : i < j => pids[f[i]][1] <= pids[f[j]][1]
  <2>1. Shuffled(pids, pids')
    BY MakeRootIs
  <2> QED  BY <2>1, Zenon DEF Shuffled
<1>5. /\ \A i \in 1 .. n : pids[i][1] \in used /\ pids[i][2] \in used \cup {0, Lost}
      /\ \A i, j \in 1 .. n :
            pids[i][1] = pids[j][1] /\ pids[i][2] # 0 /\ pids[j][2] # 0 => i = j
      /\ \A p \in steady \ Spaced : \E i \in 1 .. n : pids[i] = <<p, parent[p]>>
  BY <1>1 DEF Known, Entries
<1>6. \A i \in 1 .. n : f[i] \in 1 .. n
  OBVIOUS
<1>7. Len(pids') = n
  BY <1>1
<1> HIDE DEF n
<1>8. \A i \in 1 .. n : pids'[i][1] \in used /\ pids'[i][2] \in used \cup {0, Lost}
  <2> TAKE i \in 1 .. n
  <2>1. pids'[i] = pids[f[i]] /\ f[i] \in 1 .. n
    BY <1>4, <1>6
  <2>2. pids[f[i]][1] \in used /\ pids[f[i]][2] \in used \cup {0, Lost}
    BY <1>5, <2>1
  <2> QED  BY <2>1, <2>2
<1>9. Entries'
  <2>1. \A i, j \in 1 .. n :
            pids'[i][1] = pids'[j][1] /\ pids'[i][2] # 0 /\ pids'[j][2] # 0 => i = j
    <3> TAKE i, j \in 1 .. n
    <3> HAVE pids'[i][1] = pids'[j][1] /\ pids'[i][2] # 0 /\ pids'[j][2] # 0
    <3>1. pids'[i] = pids[f[i]] /\ pids'[j] = pids[f[j]] /\ f[i] \in 1 .. n /\ f[j] \in 1 .. n
      BY <1>4, <1>6
    <3>2. f[i] = f[j]
      BY <1>5, <3>1, Zenon
    <3> QED  BY <1>4, <3>2
  <2>2. \A p \in steady \ Spaced : \E i \in 1 .. n : pids'[i] = <<p, parent[p]>>
    <3> TAKE p \in steady \ Spaced
    <3>1. PICK i \in 1 .. n : pids[i] = <<p, parent[p]>>
      BY <1>5
    <3>2. PICK r \in 1 .. n : f[r] = i
      BY <1>4
    <3>3. pids'[r] = <<p, parent[p]>>
      BY <1>4, <3>1, <3>2
    <3> QED  BY <3>3
  <2>3. \A i, j \in 1 .. n : i < j => pids'[i][1] <= pids'[j][1]
    BY <1>4
  <2> QED  BY <1>1, <1>7, <1>8, <2>1, <2>2, <2>3 DEF Entries, machine
<1>10. CallsFit'
  <2>1. /\ Len(calls') = 1 /\ calls'[1] = [p |-> Len(node'), pid |-> rootPID, i |-> 1]
        /\ \/ rootPID \in Alive \cup {0} /\ Len(node') = 1 /\ node'[1].pid = rootPID
           \/ rootPID \notin Alive \cup {0} /\ Len(node') = 0
    <3>1. node' = <<>> => Len(node') = 0
      OBVIOUS
    <3> QED  BY <3>1, MakeRootIs
  <2>2. Len(node') = 0 =>
           rootPID \in used \ Alive \/ \A i \in 1 .. n : pids'[i][2] # rootPID
    BY <1>1, <1>8, <2>1, PidsAreNumbers
  <2>3. \A c \in 1 .. Len(calls') : c = 1
    BY <2>1
  <2>4. calls'[1].p = Len(node') /\ calls'[1].pid = rootPID
    BY <2>1
  <2> QED  BY <1>2, <1>7, <2>1, <2>2, <2>3, <2>4 DEF CallsFit
<1> QED  BY <1>3, <1>9, <1>10 DEF Known

LEMMA DescendKeeps == ASSUME TypeOK, Phase, Known, Descend PROVE Known'
<1>1. /\ UNCHANGED <<machine, steady, rootPID, todo, dirents, pids>>
      /\ pc = "build" /\ why = "none" /\ calls # <<>> /\ Matches # {}
  BY DEF Descend, Phase
<1>2. Alive' = Alive /\ Alive \subseteq used /\ used' = used
  BY <1>1 DEF machine, Alive, TypeOK
<1>3. Family'
  BY <1>1, <1>2 DEF machine, Known, Family
<1> DEFINE i == Min(Matches)
           n == Len(node)
           m == Len(calls)
<1>4. i \in 1 .. Len(pids) /\ i \in Matches /\ m \in Nat \ {0} /\ m \in 1 .. m
  BY <1>1, TopIs
<1>5. pids[i][2] = Top.pid
  BY <1>4 DEF Matches
<1>6. pids[i][1] \in used
  BY <1>1, <1>4 DEF Known, Entries
<1>7. CASE \E a \in 0 .. MaxPids : Grow(i, n + 1, a)
  <2>1. PICK a : Grow(i, n + 1, a)
    BY <1>7
  <2>2. UNCHANGED <<pc, why>> /\ Top.p \in 1 .. n
    BY <2>1 DEF Grow
  <2>3. Entries' /\ Causes'
    BY <1>1, <1>2, <2>2 DEF Known, Entries, Causes, machine
  <2>4. /\ n \in Nat /\ Len(node') = n + 1
        /\ \A r \in 1 .. n : node'[r] = node[r]
        /\ node'[n + 1].pid = pids[i][1]
        /\ Len(calls') = m + 1
        /\ \A c \in 1 .. m - 1 : calls'[c] = calls[c]
        /\ calls'[m] = [Top EXCEPT !.i = i + 1]
        /\ calls'[m + 1] = [p |-> n + 1, pid |-> pids[i][1], i |-> 1]
    BY <1>1, <1>4, <2>1, GrowIs
  <2>5. calls'[m].p = calls[m].p /\ calls'[m].pid = calls[m].pid
    <3>1. Top \in Call(n, Len(pids))
      BY <1>1, TopIs
    <3> QED  BY <2>4, <3>1 DEF Top, Call
  <2>6. \A c \in 1 .. m : calls'[c].p = calls[c].p /\ calls'[c].pid = calls[c].pid
    <3>1. \A c \in 1 .. m : c \in 1 .. m - 1 \/ c = m
      BY <1>4
    <3> QED  BY <2>4, <2>5, <3>1
  <2>7. calls'[m + 1].p = n + 1 /\ calls'[m + 1].pid = pids[i][1]
    BY <2>4
  <2>8. \A c \in 1 .. m : calls[c].p \in 1 .. n
    <3>1. \A c \in 1 .. m : calls[c].p \in 0 .. n
      <4>1. calls \in Seq(Call(n, Len(pids)))
        BY DEF TypeOK, Call
      <4>2. \A c \in 1 .. m : calls[c] \in Call(n, Len(pids))
        BY <4>1
      <4> QED  BY <4>2 DEF Call
    <3>2. \A c \in 1 .. m : c = m \/ c < m
      BY <1>4
    <3>3. \A c \in 1 .. m : c < m => m # 1
      <4> HIDE DEF m
      <4> QED  BY <1>4
    <3>4. \A c \in 1 .. m : calls[c].p # 0
      BY <2>2, <3>2, <3>3 DEF Known, CallsFit, Top
    <3> QED  BY <2>4, <3>1, <3>4
  <2>9. CallsFit'
    <3>1. \A c \in 1 .. Len(calls') : c \in 1 .. m \/ c = m + 1
      BY <1>4, <2>4
    <3>2. \A r \in 1 .. Len(node') : r \in 1 .. n \/ r = n + 1
      BY <2>4
    <3>3. \A r \in 1 .. Len(node') : node'[r].pid \in used' \cup {0}
      BY <1>2, <1>6, <2>4, <3>2 DEF Known, CallsFit
    <3>4. \A c \in 1 .. Len(calls') : calls'[c].p # 0 => calls'[c].pid = node'[calls'[c].p].pid
      BY <2>4, <2>6, <2>7, <2>8, <3>1 DEF Known, CallsFit
    <3>5. \A c \in 1 .. Len(calls') : calls'[c].p # 0
      BY <2>4, <2>6, <2>7, <2>8, <3>1
    <3>6. \A c, d \in 1 .. Len(calls') : c < d => calls'[c].p < calls'[d].p
      <4>1. \A c, d \in 1 .. Len(calls') : c < d => c \in 1 .. m
        BY <1>4, <2>4
      <4>2. \A c, d \in 1 .. m : c < d => calls[c].p < calls[d].p
        BY DEF Known, CallsFit
      <4>3. \A c \in 1 .. m : calls'[c].p < n + 1
        BY <2>4, <2>6, <2>8
      <4> HIDE DEF m, n
      <4> QED  BY <2>6, <2>7, <3>1, <4>1, <4>2, <4>3
    <3> QED  BY <3>3, <3>4, <3>5, <3>6 DEF CallsFit
  <2> QED  BY <1>3, <2>3, <2>9 DEF Known
<1>8. CASE ~\E a \in 0 .. MaxPids : Grow(i, n + 1, a)
  <2>1. /\ pc' = "crash" /\ UNCHANGED <<node, kids, calls>>
        /\ \/ why' = "null" /\ (Top.p = 0 \/ pids[i][1] \notin Alive)
           \/ why' = "depth"
    BY <1>8, DescendIs
  <2>2. CallsFit' /\ Entries'
    BY <1>1, <1>2, <2>1 DEF Known, CallsFit, Entries
  <2>3. why' = "null" => used # Alive
    <3>1. CASE pids[i][1] \notin Alive
      BY <1>6, <3>1
    <3>2. CASE Top.p = 0
      <4>1. Top.pid \in used \ Alive
        BY <1>4, <1>5, <3>2 DEF Known, CallsFit, Top
      <4> QED  BY <4>1
    <3> QED  BY <2>1, <3>1, <3>2
  <2> QED  BY <1>2, <1>3, <2>1, <2>2, <2>3 DEF Known, Causes
<1> QED  BY <1>7, <1>8

LEMMA AscendKeeps == ASSUME TypeOK, Phase, Known, Ascend PROVE Known'
<1>1. /\ UNCHANGED <<machine, steady, rootPID, todo, why, dirents, pids, node, kids>>
      /\ pc = "build" /\ pc' \in {"build", "print"} /\ calls # <<>> /\ calls' = Pop
  BY DEF Ascend
<1>2. Alive' = Alive
  BY <1>1 DEF machine, Alive
<1>3. Family' /\ Entries' /\ Causes'
  BY <1>1, <1>2 DEF machine, Known, Family, Entries, Causes
<1> DEFINE m == Len(calls)
<1>4. m \in Nat \ {0} /\ Len(calls') = m - 1 /\ \A c \in 1 .. m - 1 : calls'[c] = calls[c]
  BY <1>1, PopIs
<1>5. \A c \in 1 .. m - 1 : c \in 1 .. m /\ m # 1
  BY <1>4
<1>6. CallsFit'
  <2>1. m = Len(calls)
    OBVIOUS
  <2> HIDE DEF m
  <2>2. \A c \in 1 .. m - 1 : /\ calls[c].p # 0
                             /\ calls[c].pid = node[calls[c].p].pid
    BY <1>5, <2>1 DEF Known, CallsFit
  <2>3. \A c, d \in 1 .. m - 1 : c < d => calls[c].p < calls[d].p
    BY <1>5, <2>1 DEF Known, CallsFit
  <2>4. \A r \in 1 .. Len(node') : node'[r].pid \in used' \cup {0}
    BY <1>1 DEF Known, CallsFit, machine
  <2> QED  BY <1>1, <1>4, <2>2, <2>3, <2>4 DEF CallsFit
<1> QED  BY <1>3, <1>6 DEF Known

LEMMA PrintKeeps == ASSUME TypeOK, Phase, Known, PrintTree PROVE Known'
<1>1. /\ UNCHANGED <<machine, steady, rootPID, why, dirents, pids, calls>>
      /\ node' = <<>> /\ pc' \in {"done", "open"} /\ calls = <<>>
  BY DEF PrintTree, Phase
<1>2. Alive' = Alive
  BY <1>1 DEF machine, Alive
<1>3. Family' /\ Entries' /\ Causes' /\ CallsFit'
  BY <1>1, <1>2 DEF machine, Known, Family, Entries, Causes, CallsFit
<1> QED  BY <1>3 DEF Known

Sound == TypeOK /\ Phase /\ Known

LEMMA NextKnown == Sound /\ [Next]_vars => Sound'
<1>1. ASSUME Sound, UNCHANGED vars PROVE Known'
  <2>1. Alive' = Alive
    BY <1>1 DEF vars, machine, Alive
  <2> QED  BY <1>1, <2>1 DEF Sound, Known, Family, Entries, CallsFit, Causes, vars, machine, program
<1>2. ASSUME Sound, Next PROVE Known'
  BY <1>2, ExitKeeps, ForkKeeps, OpenKeeps, ReadKeeps, MakeRootKeeps, DescendKeeps,
     AscendKeeps, PrintKeeps DEF Sound, Next, Step
<1> QED  BY <1>1, <1>2, NextTypes DEF Sound

LEMMA AlwaysSound == Spec => []Sound
<1>1. Init => Sound
  BY InitTypes, InitKnown DEF Sound
<1> QED  BY <1>1, NextKnown, PTL DEF Spec

----------------------------------------------------------------------------
\* How deep ConstructTree recurses

(***************************************************************************)
(* If all names can be read, then every entry of pids says what is or was  *)
(* so, and the processes have ages to go with it: a child is younger than  *)
(* its parent, also than the one it gets when that one ends.               *)
(***************************************************************************)
Ordered(age) ==
    /\ \A p \in Alive : age[parent[p]] < age[p]
    /\ \A p \in used \ {1} : age[1] < age[p]
    /\ pc \in {"read", "build", "print"} =>
           \A i \in 1 .. Len(pids) : pids[i][2] # Lost => age[pids[i][2]] < age[pids[i][1]]
    /\ \A c, d \in 1 .. Len(calls) : c < d => age[calls[c].pid] < age[calls[d].pid]

Age == [Pid \cup {0} -> Nat]

Ages == /\ Spaced = {} => \E age \in Age : Ordered(age)
        /\ why = "depth" => Spaced # {}

LEMMA InitAges == Init => Ages
<1> SUFFICES ASSUME Init PROVE Ages
  OBVIOUS
<1> DEFINE age == [p \in Pid \cup {0} |-> p]
<1>1. age \in Age
  BY PidsAreNumbers DEF Age
<1>2. \A p \in Alive : parent[p] \in Pid \cup {0} /\ parent[p] < p
  BY PidsAreNumbers DEF Init, Alive
<1>3. \A p \in used \ {1} : p \in Pid /\ 1 < p
  <2>1. \A p \in Pid : p \in Nat \ {0}
    BY PidsAreNumbers
  <2>2. used \subseteq Pid
    BY DEF Init, Alive
  <2> QED  BY <2>1, <2>2
<1>4. 1 \in Pid /\ Alive \subseteq Pid
  BY PidsAreNumbers, AliveArePids
<1>5. pc = "open" /\ Len(calls) = 0 /\ why = "none"
  BY DEF Init
<1>6. Ordered(age)
  BY <1>2, <1>3, <1>4, <1>5 DEF Ordered
<1> QED  BY <1>1, <1>5, <1>6 DEF Ages

LEMMA ForkAges ==
    ASSUME Sound, NEW p \in Pid, NEW q \in Pid, Fork(p, q), NEW age \in Age, Ordered(age)
    PROVE  \E b \in Age : Ordered(b)'
<1> DEFINE b == [age EXCEPT ![q] = age[p] + 1]
<1>1. b \in Age /\ b[q] = age[p] + 1 /\ \A r \in (Pid \cup {0}) \ {q} : b[r] = age[r]
  BY DEF Age
<1>2. /\ UNCHANGED <<steady, program>> /\ p \in Alive /\ q \in Pid \ used
      /\ used' = used \cup {q}
      /\ \A r \in Pid : parent'[r] = IF r = q THEN p ELSE parent[r]
  BY DEF Fork, Sound, TypeOK
<1>3. Alive' = Alive \cup {q} /\ Alive \subseteq used /\ used \subseteq Pid
  BY <1>2, PidsAreNumbers DEF Alive, Sound, TypeOK
<1>4. \A r \in Alive : r # q /\ parent[r] \in (Pid \cup {0}) \ {q}
  BY <1>2, <1>3, PidsAreNumbers DEF Sound, Known, Family
<1>5. p # q /\ 1 # q /\ 1 \in used
  BY <1>2, <1>3 DEF Sound, Known, Family
<1>6. age[1] \in Nat /\ age[p] \in Nat /\ age[1] <= age[p]
  <2>1. age[1] \in Nat /\ age[p] \in Nat
    BY PidsAreNumbers DEF Age
  <2>2. p = 1 \/ age[1] < age[p]
    BY <1>2, <1>3 DEF Ordered
  <2> QED  BY <2>1, <2>2
<1> HIDE DEF b
<1>7. \A r \in Alive' : b[parent'[r]] < b[r]
  <2> TAKE r \in Alive'
  <2>1. CASE r = q
    <3>1. parent'[r] = p /\ p \in (Pid \cup {0}) \ {q}
      BY <1>2, <1>5, <2>1
    <3>2. b[p] = age[p] /\ b[r] = age[p] + 1
      BY <1>1, <2>1, <3>1
    <3> QED  BY <1>6, <3>1, <3>2
  <2>2. CASE r # q
    <3>1. r \in Alive /\ r \in (Pid \cup {0}) \ {q} /\ parent'[r] = parent[r]
      BY <1>2, <1>3, <2>2
    <3>2. b[r] = age[r] /\ b[parent[r]] = age[parent[r]]
      BY <1>1, <1>4, <3>1
    <3> QED  BY <3>1, <3>2 DEF Ordered
  <2> QED  BY <2>1, <2>2
<1>8. \A r \in used' \ {1} : b[1] < b[r]
  <2> TAKE r \in used' \ {1}
  <2>1. b[1] = age[1]
    BY <1>1, <1>5, PidsAreNumbers
  <2>2. CASE r = q
    BY <1>1, <1>6, <2>1, <2>2
  <2>3. CASE r # q
    <3>1. r \in used \ {1} /\ r \in (Pid \cup {0}) \ {q}
      BY <1>2, <1>3, <2>3
    <3> QED  BY <1>1, <2>1, <3>1 DEF Ordered
  <2> QED  BY <2>2, <2>3
<1>9. pc' \in {"read", "build", "print"} =>
           \A i \in 1 .. Len(pids') : pids'[i][2] # Lost => b[pids'[i][2]] < b[pids'[i][1]]
  <2> HAVE pc' \in {"read", "build", "print"}
  <2> TAKE i \in 1 .. Len(pids')
  <2> HAVE pids'[i][2] # Lost
  <2>1. pc' = pc /\ pids' = pids
    BY <1>2 DEF program
  <2>2. pids[i][1] \in used /\ pids[i][2] \in used \cup {0} /\ age[pids[i][2]] < age[pids[i][1]]
    BY <2>1 DEF Sound, Known, Entries, Ordered
  <2>3. pids[i][1] \in (Pid \cup {0}) \ {q} /\ pids[i][2] \in (Pid \cup {0}) \ {q}
    BY <1>2, <1>3, <2>2, PidsAreNumbers
  <2>4. b[pids[i][1]] = age[pids[i][1]] /\ b[pids[i][2]] = age[pids[i][2]]
    BY <1>1, <2>3
  <2> QED  BY <2>1, <2>2, <2>4
<1>10. \A c, d \in 1 .. Len(calls') : c < d => b[calls'[c].pid] < b[calls'[d].pid]
  <2> TAKE c, d \in 1 .. Len(calls')
  <2> HAVE c < d
  <2>1. calls' = calls
    BY <1>2 DEF program
  <2>2. Len(calls) # 1 /\ age[calls[c].pid] < age[calls[d].pid]
    BY <2>1 DEF Ordered
  <2>3. \A e \in 1 .. Len(calls) : calls[e].p # 0 /\ calls[e].p \in 0 .. Len(node)
    <3>1. calls \in Seq(Call(Len(node), Len(pids)))
      BY DEF Sound, TypeOK, Call
    <3>2. \A e \in 1 .. Len(calls) : calls[e] \in Call(Len(node), Len(pids))
      BY <3>1
    <3> QED  BY <2>2, <3>2 DEF Sound, Known, CallsFit, Call
  <2>4. \A e \in 1 .. Len(calls) : calls[e].pid \in used \cup {0}
    <3> TAKE e \in 1 .. Len(calls)
    <3>1. calls[e].p \in 1 .. Len(node) /\ calls[e].pid = node[calls[e].p].pid
      <4>1. Len(node) \in Nat
        BY DEF Sound, TypeOK
      <4> QED  BY <2>3, <4>1 DEF Sound, Known, CallsFit
    <3> QED  BY <3>1 DEF Sound, Known, CallsFit
  <2>5. \A e \in 1 .. Len(calls) : calls[e].pid \in (Pid \cup {0}) \ {q}
    BY <1>2, <1>3, <2>4, PidsAreNumbers
  <2>6. b[calls[c].pid] = age[calls[c].pid] /\ b[calls[d].pid] = age[calls[d].pid]
    BY <1>1, <2>1, <2>5
  <2> QED  BY <2>1, <2>2, <2>6
<1>11. Ordered(b)'
  BY <1>7, <1>8, <1>9, <1>10 DEF Ordered
<1> QED  BY <1>1, <1>11

LEMMA ExitAges ==
    ASSUME Sound, NEW p \in Pid, Exit(p), NEW age \in Age, Ordered(age)
    PROVE  Ordered(age)'
<1>1. /\ UNCHANGED <<used, program>> /\ p \in Alive \ {1}
      /\ \A q \in Pid : parent'[q] = IF q = p THEN Gone
                                     ELSE IF parent[q] = p THEN 1 ELSE parent[q]
  BY DEF Exit
<1>2. Alive' = Alive \ {p} /\ Alive \subseteq used /\ Alive \subseteq Pid
  BY <1>1, PidsAreNumbers DEF Alive, Sound, TypeOK
<1>3. \A q \in Alive' : age[parent'[q]] < age[q]
  <2> TAKE q \in Alive'
  <2>1. CASE parent[q] = p
    <3>1. q # 1 /\ q \in used /\ parent'[q] = 1
      BY <1>1, <1>2, <2>1, PidsAreNumbers DEF Sound, Known, Family
    <3> QED  BY <3>1 DEF Ordered
  <2>2. CASE parent[q] # p
    BY <1>1, <1>2, <2>2 DEF Ordered
  <2> QED  BY <2>1, <2>2
<1> QED  BY <1>1, <1>3 DEF Ordered, program

LEMMA StepAges ==
    ASSUME Sound, Spaced = {}, Step, NEW age \in Age, Ordered(age)
    PROVE  Ordered(age)'
<1>0. UNCHANGED machine /\ Alive' = Alive
  BY DEF Step, Open, Read, MakeRoot, Descend, Ascend, PrintTree, machine, Alive
<1>1. CASE Open
  <2>1. pids' = <<<<1, 0>>>> /\ calls' = calls /\ pc' = "read"
    BY <1>1 DEF Open, ByHand
  <2>2. age[0] < age[1]
    BY DEF Sound, Known, Family, Ordered
  <2>3. \A i \in 1 .. Len(pids') : pids'[i] = <<1, 0>>
    BY <2>1
  <2>4. \A i \in 1 .. Len(pids') : age[pids'[i][2]] < age[pids'[i][1]]
    BY <2>2, <2>3
  <2> QED  BY <1>0, <2>1, <2>4 DEF Ordered, machine
<1>2. ASSUME NEW p \in Pid, Read(p) PROVE Ordered(age)'
  <2>1. calls' = calls /\ pc = "read"
    BY <1>2 DEF Read
  <2>2. CASE Room
    <3>1. PICK x \in ReadPPID(p) : pids' = Append(pids, <<p, x>>) /\ UNCHANGED <<pc, why>>
      BY <1>2, <2>2 DEF Read
    <3>2. pids \in Seq(Entry) /\ <<p, x>> \in Entry
      BY ReadType DEF Sound, TypeOK, Entry
    <3>3. /\ Len(pids') = Len(pids) + 1 /\ \A i \in 1 .. Len(pids) : pids'[i] = pids[i]
          /\ pids'[Len(pids) + 1] = <<p, x>> /\ Len(pids) \in Nat
      BY <3>1, <3>2, Pushed
    <3>4. x # Lost => age[x] < age[p]
      BY <3>1 DEF ReadPPID, Ordered
    <3>5. \A i \in 1 .. Len(pids') : pids'[i][2] # Lost => age[pids'[i][2]] < age[pids'[i][1]]
      <4> TAKE i \in 1 .. Len(pids')
      <4> HAVE pids'[i][2] # Lost
      <4>1. CASE i \in 1 .. Len(pids)
        BY <2>1, <3>3, <4>1 DEF Ordered
      <4>2. CASE i = Len(pids) + 1
        <5>1. pids'[i][1] = p /\ pids'[i][2] = x
          BY <3>3, <4>2
        <5> QED  BY <3>4, <5>1
      <4> QED  BY <3>3, <4>1, <4>2
    <3> QED  BY <1>0, <2>1, <3>5 DEF Ordered, machine
  <2>3. CASE ~Room
    BY <1>0, <1>2, <2>1, <2>3 DEF Read, Ordered, machine
  <2> QED  BY <2>2, <2>3
<1>3. CASE MakeRoot
  <2>1. pc = "read" /\ Len(calls') = 1 /\ Shuffled(pids, pids')
    BY <1>3, MakeRootIs DEF Sound
  <2> DEFINE n == Len(pids)
  <2>2. PICK f \in [1 .. n -> 1 .. n] : pids' = [r \in 1 .. n |-> pids[f[r]]]
    BY <2>1, Zenon DEF Shuffled
  <2>3. Len(pids') = n
    BY <1>3, MakeRootIs DEF Sound
  <2> HIDE DEF n
  <2>4. \A i \in 1 .. Len(pids') : pids'[i][2] # Lost => age[pids'[i][2]] < age[pids'[i][1]]
    <3> TAKE i \in 1 .. Len(pids')
    <3> HAVE pids'[i][2] # Lost
    <3>1. pids'[i] = pids[f[i]] /\ f[i] \in 1 .. n
      BY <2>2, <2>3
    <3> QED  BY <2>1, <3>1 DEF Ordered, n
  <2>5. \A c, d \in 1 .. Len(calls') : ~(c < d)
    BY <2>1
  <2> QED  BY <1>0, <2>4, <2>5 DEF Ordered, machine
<1>4. CASE Descend
  <2>1. pc = "build" /\ calls # <<>> /\ Matches # {}
    BY <1>4 DEF Descend
  <2> DEFINE i == Min(Matches)
             m == Len(calls)
  <2>2. i \in 1 .. Len(pids) /\ pids[i][2] = Top.pid /\ m \in Nat \ {0}
        /\ Top.pid \in Pid \cup {0} /\ pids[i][2] # Lost /\ pids[i][1] \in Pid
    <3>1. i \in Matches /\ i \in 1 .. Len(pids) /\ m \in Nat \ {0} /\ Top \in Call(Len(node), Len(pids))
      BY <2>1, TopIs DEF Sound
    <3>2. pids[i][2] = Top.pid /\ Top.pid \in Pid \cup {0}
      BY <3>1 DEF Matches, Call
    <3>3. pids[i][1] \in Pid
      BY <3>1 DEF Sound, TypeOK
    <3> QED  BY <3>1, <3>2, <3>3, PidsAreNumbers
  <2>3. age[Top.pid] < age[pids[i][1]]
    BY <2>1, <2>2 DEF Ordered
  <2>4. CASE \E a \in 0 .. MaxPids : Grow(i, Len(node) + 1, a)
    <3>1. PICK a : Grow(i, Len(node) + 1, a)
      BY <2>4
    <3>2. /\ Len(calls') = m + 1
          /\ \A c \in 1 .. m - 1 : calls'[c] = calls[c]
          /\ calls'[m] = [Top EXCEPT !.i = i + 1]
          /\ calls'[m + 1] = [p |-> Len(node) + 1, pid |-> pids[i][1], i |-> 1]
      BY <2>1, <2>2, <3>1, GrowIs DEF Sound
    <3>3. Top \in Call(Len(node), Len(pids))
      BY <2>1, TopIs DEF Sound
    <3>4. calls'[m].pid = calls[m].pid /\ calls'[m + 1].pid = pids[i][1] /\ Top.pid = calls[m].pid
      BY <3>2, <3>3 DEF Call, Top
    <3> DEFINE g(c) == IF c = m + 1 THEN pids[i][1] ELSE calls[c].pid
    <3>5. \A c \in 1 .. m + 1 : calls'[c].pid = g(c)
      <4>1. \A c \in 1 .. m + 1 : c \in 1 .. m - 1 \/ c = m \/ c = m + 1
        BY <2>2
      <4>2. \A c \in 1 .. m - 1 : calls'[c].pid = calls[c].pid /\ c # m + 1
        BY <2>2, <3>2
      <4>3. m # m + 1
        BY <2>2
      <4> QED  BY <3>4, <4>1, <4>2, <4>3
    <3>6. \A c, d \in 1 .. m : c < d => age[calls[c].pid] < age[calls[d].pid]
      BY DEF Ordered
    <3>7. \A c \in 1 .. m : calls[c].pid \in Pid \cup {0}
      <4>1. calls \in Seq(Call(Len(node), Len(pids)))
        BY DEF Sound, TypeOK, Call
      <4>2. \A c \in 1 .. m : calls[c] \in Call(Len(node), Len(pids))
        BY <4>1
      <4> QED  BY <4>2 DEF Call
    <3>8. \A c \in 1 .. m : age[calls[c].pid] \in Nat
      BY <3>7 DEF Age
    <3>9. age[pids[i][1]] \in Nat
      BY <2>2 DEF Age
    <3>10. \A c \in 1 .. m : age[calls[c].pid] < age[pids[i][1]]
      <4> TAKE c \in 1 .. m
      <4>1. m \in 1 .. m /\ (c = m \/ c < m)
        BY <2>2
      <4>2. c = m \/ age[calls[c].pid] < age[calls[m].pid]
        BY <3>6, <4>1
      <4>3. age[calls[m].pid] \in Nat /\ age[calls[c].pid] \in Nat
        BY <3>8, <4>1
      <4> HIDE DEF m, i
      <4> QED  BY <2>3, <3>4, <3>9, <4>2, <4>3
    <3>11. \A c, d \in 1 .. m + 1 : c < d => age[g(c)] < age[g(d)]
      <4> TAKE c, d \in 1 .. m + 1
      <4> HAVE c < d
      <4>1. c \in 1 .. m /\ c # m + 1 /\ (d = m + 1 \/ (d \in 1 .. m /\ d # m + 1))
        BY <2>2
      <4> QED  BY <3>6, <3>10, <4>1
    <3>12. \A c, d \in 1 .. Len(calls') : c < d => age[calls'[c].pid] < age[calls'[d].pid]
      <4> HIDE DEF g, m
      <4> QED  BY <3>2, <3>5, <3>11
    <3>13. pc' = pc /\ pids' = pids
      BY <3>1 DEF Grow
    <3> QED  BY <1>0, <3>12, <3>13 DEF Ordered, machine
  <2>5. CASE ~\E a \in 0 .. MaxPids : Grow(i, Len(node) + 1, a)
    <3>1. pc' = "crash" /\ calls' = calls
      BY <1>4, <2>5, DescendIs DEF Sound
    <3> QED  BY <1>0, <3>1 DEF Ordered, machine
  <2> QED  BY <2>4, <2>5
<1>5. CASE Ascend
  <2>1. UNCHANGED pids /\ pc = "build" /\ calls # <<>> /\ calls' = Pop
    BY <1>5 DEF Ascend
  <2> DEFINE m == Len(calls)
  <2>2. m \in Nat \ {0} /\ Len(calls') = m - 1 /\ \A c \in 1 .. m - 1 : calls'[c] = calls[c]
    BY <2>1, PopIs DEF Sound
  <2>3. \A c \in 1 .. m - 1 : c \in 1 .. m
    BY <2>2
  <2> QED  BY <1>0, <2>1, <2>2, <2>3 DEF Ordered, machine
<1>6. CASE PrintTree
  BY <1>0, <1>6 DEF PrintTree, Ordered, machine
<1> QED  BY <1>1, <1>2, <1>3, <1>4, <1>5, <1>6 DEF Step

\* Every call is on a younger process than the one before.
LEMMA DepthIsBounded ==
    ASSUME Sound, NEW age \in Age, Ordered(age), calls # <<>>, pc = "build", Matches # {}
    PROVE  Len(calls) <= Cardinality(Pid)
<1> DEFINE i == Min(Matches)
           m == Len(calls)
           S == Pid \cup {0}
           g == [c \in 1 .. m + 1 |-> IF c = m + 1 THEN pids[i][1] ELSE calls[c].pid]
<1>1. i \in Matches /\ i \in 1 .. Len(pids) /\ m \in Nat \ {0} /\ Top \in Call(Len(node), Len(pids))
  BY TopIs DEF Sound
<1>2. pids[i][2] = Top.pid /\ Top.pid \in Pid \cup {0} /\ Top.pid # Lost
  BY <1>1, PidsAreNumbers DEF Matches, Call
<1>3. pids[i][1] \in Pid
  BY <1>1 DEF Sound, TypeOK
<1>4. age[Top.pid] < age[pids[i][1]]
  BY <1>1, <1>2 DEF Ordered
<1>5. \A c \in 1 .. m : calls[c].pid \in S
  <2>1. calls \in Seq(Call(Len(node), Len(pids)))
    BY DEF Sound, TypeOK, Call
  <2>2. \A c \in 1 .. m : calls[c] \in Call(Len(node), Len(pids))
    BY <2>1
  <2> QED  BY <2>2 DEF Call
<1>6. \A p \in S : age[p] \in Nat
  BY DEF Age
<1>7. \A c, d \in 1 .. m : c < d => age[calls[c].pid] < age[calls[d].pid]
  BY DEF Ordered
<1>8. \A c \in 1 .. m : age[calls[c].pid] < age[pids[i][1]]
  <2> TAKE c \in 1 .. m
  <2>1. m \in 1 .. m /\ (c = m \/ c < m)
    BY <1>1
  <2>2. c = m \/ age[calls[c].pid] < age[calls[m].pid]
    BY <1>7, <2>1
  <2>3. age[calls[m].pid] \in Nat /\ age[calls[c].pid] \in Nat /\ age[pids[i][1]] \in Nat
    BY <1>3, <1>5, <1>6, <2>1
  <2>4. calls[m].pid = Top.pid
    BY DEF Top
  <2> HIDE DEF m, i
  <2> QED  BY <1>4, <2>2, <2>3, <2>4
<1> HIDE DEF i
<1>9. g \in [1 .. m + 1 -> S]
  BY <1>3, <1>5
<1>10. \A c, d \in 1 .. m + 1 : c < d => g[c] # g[d]
  <2> TAKE c, d \in 1 .. m + 1
  <2> HAVE c < d
  <2>1. c \in 1 .. m /\ g[c] = calls[c].pid
    BY <1>1
  <2>2. CASE d = m + 1
    <3>1. g[d] = pids[i][1]
      BY <1>1, <2>2
    <3>2. age[g[c]] < age[g[d]] /\ age[g[d]] \in Nat
      BY <1>3, <1>6, <1>8, <2>1, <3>1
    <3> HIDE DEF g
    <3> QED  BY <3>2
  <2>3. CASE d # m + 1
    <3>1. d \in 1 .. m /\ g[d] = calls[d].pid
      BY <1>1, <2>3
    <3>2. age[g[c]] < age[g[d]] /\ age[g[d]] \in Nat
      BY <1>5, <1>6, <1>7, <2>1, <3>1
    <3> HIDE DEF g
    <3> QED  BY <3>2
  <2> QED  BY <2>2, <2>3
<1>11. g \in Injection(1 .. m + 1, S)
  <2>1. \A c, d \in 1 .. m + 1 : c = d \/ c < d \/ d < c
    BY <1>1
  <2> HIDE DEF g
  <2> QED  BY <1>9, <1>10, <2>1 DEF Injection, IsInjective
<1>12. IsFiniteSet(S) /\ Cardinality(S) = Cardinality(Pid) + 1 /\ Cardinality(Pid) \in Nat
  BY PsTreeAssumption, PidsAreNumbers, FS_AddElement, FS_CardinalityType
<1>13. m + 1 \in Nat
  BY <1>1
<1> HIDE DEF g, S, m
<1>14. Cardinality(1 .. m + 1) = m + 1
  BY <1>13, Interval
<1>15. Cardinality(1 .. m + 1) <= Cardinality(S)
  BY <1>11, <1>12, FS_Injection
<1> QED  BY <1>1, <1>12, <1>14, <1>15 DEF m

LEMMA NextAges ==
    ASSUME MaxCalls > Cardinality(Pid)
    PROVE  Sound /\ Ages /\ [Next]_vars => Ages'
<1> SUFFICES ASSUME Sound, Ages, [Next]_vars PROVE Ages'
  OBVIOUS
<1>1. Spaced = {} => \E age \in Age : Ordered(age)'
  <2> HAVE Spaced = {}
  <2>1. PICK age \in Age : Ordered(age)
    BY DEF Ages
  <2>2. CASE UNCHANGED vars
    <3>1. Ordered(age)'
      BY <2>1, <2>2 DEF Ordered, vars, machine, program, Alive
    <3> QED  BY <3>1
  <2>3. CASE Step
    BY <2>1, <2>3, StepAges
  <2>4. CASE \E p \in Pid : Exit(p) \/ \E q \in Pid : Fork(p, q)
    BY <2>1, <2>4, ExitAges, ForkAges
  <2> QED  BY <2>2, <2>3, <2>4 DEF Next
<1>2. why' = "depth" => Spaced # {}
  <2>1. SUFFICES ASSUME why' = "depth", Spaced = {} PROVE FALSE
    OBVIOUS
  <2>2. why # "depth"
    BY <2>1 DEF Ages
  <2>3. Descend
    BY <2>1, <2>2 DEF Next, Step, Open, Read, MakeRoot, Ascend, PrintTree, Exit, Fork, vars, program
  <2>4. calls # <<>> /\ pc = "build" /\ Matches # {} /\ why = "none"
    BY <2>3 DEF Descend, Sound, Phase
  <2>5. Len(calls) = MaxCalls
    <3>1. ~\E a \in 0 .. MaxPids : Grow(Min(Matches), Len(node) + 1, a)
      BY <2>1, <2>4 DEF Grow
    <3> QED  BY <2>1, <2>3, <3>1, DescendIs DEF Sound
  <2>6. PICK age \in Age : Ordered(age)
    BY <2>1 DEF Ages
  <2>7. Len(calls) <= Cardinality(Pid)
    BY <2>4, <2>6, DepthIsBounded
  <2>8. MaxCalls \in Nat /\ Cardinality(Pid) \in Nat
    BY PsTreeAssumption, FS_CardinalityType
  <2> QED  BY <2>5, <2>7, <2>8
<1> QED  BY <1>1, <1>2 DEF Ages

(***************************************************************************)
(* With a stack for a call per process and one more, the program only      *)
(* crashes when a process has ended under its hands, when there are as     *)
(* many as its array has room for, or over a name with a space.            *)
(***************************************************************************)
THEOREM CrashesHaveCause ==
    ASSUME MaxCalls > Cardinality(Pid)
    PROVE  Spec => []CrashHasCause
<1>1. Spec => [](Sound /\ Ages)
  BY InitTypes, InitKnown, InitAges, NextKnown, NextAges, PTL DEF Spec, Sound
<1>2. Sound /\ Ages => CrashHasCause
  BY DEF Sound, Known, Causes, Ages, CrashHasCause
<1> QED  BY <1>1, <1>2, PTL

----------------------------------------------------------------------------
\* The tree, with a numeric sort and a root that is a process

\* The loop of the call on node p, or the whole call, is past entry i.
Past(cs, p, i) == \A c \in 1 .. Len(cs) : cs[c].p = p => i < cs[c].i

(***************************************************************************)
(* A node's children are those of its process in the part of pids that its *)
(* call has gone through, each once and in the order of pids, so that the  *)
(* loop that looks for a child's place goes to the end of the list and     *)
(* cuts nothing off.                                                       *)
(***************************************************************************)
Grown ==
    /\ \A r \in 1 .. Len(node) : node[r].pid # 0
    /\ NoNodeLost /\ SiblingsSorted
    /\ \A p \in 1 .. Len(kids) : \A k \in 1 .. Len(kids[p]) : p < kids[p][k]

Filled ==
    /\ \A p \in 1 .. Len(kids) : \A k \in 1 .. Len(kids[p]) :
           \E i \in 1 .. Len(pids) :
               Past(calls, p, i) /\ pids[i] = <<node[kids[p][k]].pid, node[p].pid>>
    /\ \A p \in 1 .. Len(kids) : \A i \in 1 .. Len(pids) :
           Past(calls, p, i) /\ pids[i][2] = node[p].pid =>
               \E k \in 1 .. Len(kids[p]) : node[kids[p][k]].pid = pids[i][1]
    /\ node # <<>> => node[1].pid = rootPID
    /\ node = <<>> => rootPID \notin steady

Forest == todo \in Seq({"n", "p"}) /\ Grown /\ (pc \in {"build", "print"} => Filled)

LEMMA EntryIs ==
    ASSUME TypeOK, NEW j \in 1 .. Len(pids)
    PROVE  /\ pids[j][1] \in Pid /\ pids[j][2] \in Pid \cup {0, Lost}
           /\ pids[j] = <<pids[j][1], pids[j][2]>>
<1>1. pids[j] \in Pid \X (Pid \cup {0, Lost})
  BY DEF TypeOK
<1> QED  BY ONLY <1>1

LEMMA NodePid == ASSUME TypeOK, NEW q \in 1 .. Len(node) PROVE node[q].pid \in Pid \cup {0}
<1>1. node \in Seq(Node)
  BY DEF TypeOK, Node
<1>2. node[q] \in Node
  BY <1>1
<1> QED  BY <1>2 DEF Node

LEMMA InsertedLast ==
    ASSUME NEW n \in Nat, NEW list \in Seq(1 .. n), NEW q, NEW nd,
           \A k \in 1 .. Len(list) : Before(list[k], q, nd)
    PROVE  LET new == Inserted(list, q, nd)
           IN  /\ Len(new) = Len(list) + 1 /\ Len(list) \in Nat
               /\ \A k \in 1 .. Len(list) : new[k] = list[k]
               /\ new[Len(list) + 1] = q
<1> DEFINE l == Len(list)
<1>1. l \in Nat
  OBVIOUS
<1>2. CASE list = <<>>
  <2>1. Inserted(list, q, nd) = <<q>> /\ l = 0
    BY <1>2 DEF Inserted
  <2> QED  BY <2>1
<1>3. CASE list # <<>>
  <2> DEFINE stop == {k \in 1 .. l : k = l \/ ~Before(list[k], q, nd)}
             s == SubSeq(list, 1, Min(stop))
  <2>1. l >= 1
    BY <1>3
  <2>2. stop = {l}
    BY <2>1
  <2>3. Min(stop) = l
    <3>1. {l} \in SUBSET Nat /\ {l} # {}
      OBVIOUS
    <3>2. Min({l}) \in {l}
      BY <3>1, MinIs
    <3> QED  BY <2>2, <3>2
  <2>4. Inserted(list, q, nd) = Append(s, q)
    BY <1>3 DEF Inserted
  <2>5. s \in Seq(1 .. n) /\ Len(s) = l /\ \A k \in 1 .. l : s[k] = list[k]
    <3>1. s = SubSeq(list, 1, l)
      BY <2>3
    <3> HIDE DEF s
    <3>2. 1 \in 1 .. l + 1 /\ l \in 1 - 1 .. l
      BY <1>1
    <3>3. /\ SubSeq(list, 1, l) \in Seq(1 .. n)
          /\ Len(SubSeq(list, 1, l)) = IF 1 <= l THEN l - 1 + 1 ELSE 0
          /\ \A k \in 1 .. l - 1 + 1 : SubSeq(list, 1, l)[k] = list[1 + k - 1]
      <4> HIDE DEF l
      <4>1. l = Len(list)
        BY DEF l
      <4> QED  BY <3>2, <4>1, SubSeqProperties
    <3>4. \A k \in 1 .. l : 1 + k - 1 = k /\ k \in 1 .. l - 1 + 1
      BY <1>1
    <3>5. (IF 1 <= l THEN l - 1 + 1 ELSE 0) = l
      BY <2>1
    <3> QED  BY <3>1, <3>3, <3>4, <3>5
  <2> HIDE DEF s, l
  <2> DEFINE new == Inserted(list, q, nd)
  <2>6. /\ Len(new) = l + 1 /\ \A k \in 1 .. l : new[k] = s[k]
        /\ new[l + 1] = q
    <3>1. new = Append(s, q)
      BY <2>4
    <3>2. Append(s, q) \in Seq((1 .. n) \cup {q})
      <4>1. s \in Seq((1 .. n) \cup {q})
        <5>1. \A k \in 1 .. Len(s) : s[k] \in (1 .. n) \cup {q}
          BY <2>5
        <5> QED  BY <2>5, <5>1
      <4> QED  BY <4>1
    <3> HIDE DEF new
    <3> QED  BY <1>1, <2>5, <3>1
  <2> QED  BY <1>1, <2>5, <2>6 DEF l
<1> QED  BY <1>2, <1>3

LEMMA InitForest == ASSUME Jobs \in Seq({"n", "p"}) PROVE Init => Forest
<1> SUFFICES ASSUME Init PROVE Forest
  OBVIOUS
<1>1. node = <<>> /\ kids = <<>> /\ todo = Jobs /\ pc = "open"
  BY DEF Init
<1> QED  BY <1>1 DEF Forest, Grown, Filled, NoNodeLost, SiblingsSorted

LEMMA FilledStays ==
    ASSUME Filled, UNCHANGED <<node, kids, pids, calls, rootPID>>, steady' \subseteq steady
    PROVE  Filled'
<1>1. node' = node /\ kids' = kids /\ pids' = pids /\ calls' = calls /\ rootPID' = rootPID
  OBVIOUS
<1>2. node' = <<>> => rootPID' \notin steady'
  BY <1>1 DEF Filled
<1>3. node' # <<>> => node'[1].pid = rootPID'
  BY <1>1 DEF Filled
<1>4. \A p \in 1 .. Len(kids) : \A k \in 1 .. Len(kids[p]) :
          \E i \in 1 .. Len(pids) :
              Past(calls, p, i) /\ pids[i] = <<node[kids[p][k]].pid, node[p].pid>>
  BY DEF Filled
<1>5. \A p \in 1 .. Len(kids) : \A i \in 1 .. Len(pids) :
          Past(calls, p, i) /\ pids[i][2] = node[p].pid =>
              \E k \in 1 .. Len(kids[p]) : node[kids[p][k]].pid = pids[i][1]
  BY DEF Filled
<1>6. ASSUME NEW p \in 1 .. Len(kids'), NEW k \in 1 .. Len(kids'[p])
      PROVE  \E i \in 1 .. Len(pids') :
                 Past(calls', p, i) /\ pids'[i] = <<node'[kids'[p][k]].pid, node'[p].pid>>
  <2>1. p \in 1 .. Len(kids) /\ k \in 1 .. Len(kids[p])
    BY <1>1
  <2>2. PICK i \in 1 .. Len(pids) :
            Past(calls, p, i) /\ pids[i] = <<node[kids[p][k]].pid, node[p].pid>>
    BY <1>4, <2>1
  <2> QED  BY <1>1, <2>2
<1>7. ASSUME NEW p \in 1 .. Len(kids'), NEW i \in 1 .. Len(pids'),
             Past(calls', p, i), pids'[i][2] = node'[p].pid
      PROVE  \E k \in 1 .. Len(kids'[p]) : node'[kids'[p][k]].pid = pids'[i][1]
  <2>1. PICK k \in 1 .. Len(kids[p]) : node[kids[p][k]].pid = pids[i][1]
    BY <1>1, <1>5, <1>7
  <2> QED  BY <1>1, <2>1
<1> QED  BY ONLY <1>2, <1>3, <1>6, <1>7 DEF Filled

LEMMA MachineForest ==
    ASSUME TypeOK, Forest, NEW p \in Pid, Exit(p) \/ \E q \in Pid : Fork(p, q)
    PROVE  Forest'
<1>1. UNCHANGED program /\ steady' \subseteq steady
  BY DEF Exit, Fork
<1>2. Grown => Grown'
  BY <1>1 DEF program, Grown, NoNodeLost, SiblingsSorted
<1>3. Filled => Filled'
  BY <1>1, FilledStays DEF program
<1> QED  BY <1>1, <1>2, <1>3 DEF program, Forest

LEMMA MakeRootForest ==
    ASSUME Sound, Forest, 0 \notin Roots, MakeRoot
    PROVE  Forest'
<1>1. /\ UNCHANGED <<steady, rootPID, todo>> /\ pc' = "build" /\ steady \subseteq Alive
      /\ rootPID # 0
      /\ \/ Len(node') = 1 /\ node'[1].pid = rootPID /\ kids' = <<<<>>>>
         \/ rootPID \notin Alive /\ node' = <<>> /\ kids' = <<>>
      /\ Len(calls') = 1 /\ calls'[1] = [p |-> Len(node'), pid |-> rootPID, i |-> 1]
  <2>1. rootPID # 0 /\ steady \subseteq Alive
    BY DEF Sound, TypeOK
  <2> QED  BY <2>1, MakeRootIs DEF Sound
<1>2. CASE node' = <<>> /\ kids' = <<>> /\ rootPID \notin Alive
  BY <1>1, <1>2 DEF Forest, Grown, Filled, NoNodeLost, SiblingsSorted
<1>3. CASE Len(node') = 1 /\ node'[1].pid = rootPID /\ kids' = <<<<>>>>
  <2>1. Len(kids') = 1 /\ Len(kids'[1]) = 0 /\ node' # <<>>
    BY <1>3
  <2>2. calls'[1].p = 1 /\ calls'[1].i = 1 /\ 1 \in 1 .. Len(calls')
    BY <1>1, <1>3
  <2>3. \A i \in 1 .. Len(pids') : ~Past(calls', 1, i)
    <3> TAKE i \in 1 .. Len(pids')
    <3>1. ~(i < 1)
      OBVIOUS
    <3> QED  BY <2>2, <3>1 DEF Past
  <2>4. \A p \in 1 .. Len(kids') : p = 1
    BY <2>1
  <2>5. \A p \in 1 .. Len(kids') : \A k \in 1 .. Len(kids'[p]) : FALSE
    BY <2>1, <2>4
  <2>6. NoNodeLost' /\ SiblingsSorted'
    BY <1>3, <2>5 DEF NoNodeLost, SiblingsSorted
  <2>7. \A p \in 1 .. Len(kids') : \A i \in 1 .. Len(pids') : ~Past(calls', p, i)
    BY <2>3, <2>4
  <2>8. \A r \in 1 .. Len(node') : node'[r].pid # 0
    BY <1>1, <1>3
  <2>9. Filled'
    BY <1>1, <1>3, <2>1, <2>5, <2>7 DEF Filled
  <2>10. Grown'
    BY <2>5, <2>6, <2>8 DEF Grown
  <2> QED  BY <1>1, <2>9, <2>10 DEF Forest
<1> QED  BY <1>1, <1>2, <1>3

LEMMA GrowForest ==
    ASSUME Sound, Forest, Descend, NEW a \in 0 .. MaxPids,
           Grow(Min(Matches), Len(node) + 1, a)
    PROVE  Forest'
<1> DEFINE n == Len(node)
           m == Len(calls)
           i == Min(Matches)
           P == Top.p
           child == pids[i][1]
           q == n + 1
           list == kids[P]
           l == Len(list)
<1>1. /\ UNCHANGED <<machine, steady, rootPID, todo, dirents, pids, pc, why>>
      /\ pc = "build" /\ calls # <<>> /\ Matches # {} /\ P \in 1 .. n /\ child \in Pid
  BY AliveArePids DEF Descend, Grow
<1>2. /\ i \in Matches /\ i \in 1 .. Len(pids) /\ \A j \in Matches : i <= j
      /\ Top \in Call(n, Len(pids)) /\ n \in Nat /\ m \in Nat \ {0} /\ Len(pids) \in Nat
  BY <1>1, TopIs DEF Sound
<1>3. /\ pids[i][2] = Top.pid /\ Top.i <= i /\ Top.i \in Nat
      /\ \A j \in 1 .. Len(pids) : Top.i <= j /\ j < i => pids[j][2] # Top.pid
  <2>1. Top.i \in Nat /\ Top.i >= 1
    BY <1>2 DEF Call
  <2>2. Matches = {j \in Top.i .. Len(pids) : pids[j][2] = Top.pid}
    BY DEF Matches
  <2>3. \A j \in 1 .. Len(pids) : Top.i <= j /\ pids[j][2] = Top.pid => j \in Matches
    BY <2>1, <2>2
  <2> HIDE DEF i
  <2>4. \A j \in 1 .. Len(pids) : Top.i <= j /\ j < i => pids[j][2] # Top.pid
    BY <1>2, <2>3
  <2>5. pids[i][2] = Top.pid /\ Top.i <= i
    BY <1>2, <2>2
  <2> QED  BY <2>1, <2>4, <2>5
<1>4. /\ m \in 1 .. m /\ Top = calls[m] /\ Top.pid = node[P].pid
      /\ \A c \in 1 .. m - 1 : calls[c].p # P /\ c \in 1 .. m
  <2>1. m \in 1 .. m /\ Top = calls[m]
    BY <1>2 DEF Top
  <2>2. Top.pid = node[P].pid
    BY <1>1, <2>1 DEF Sound, Known, CallsFit
  <2>3. \A c \in 1 .. m - 1 : c \in 1 .. m /\ c < m
    BY <1>2
  <2>4. \A c \in 1 .. m - 1 : calls[c].p < calls[m].p
    BY <2>1, <2>3 DEF Sound, Known, CallsFit
  <2>5. calls[m].p \in Nat
    BY <1>1, <2>1
  <2>6. \A c \in 1 .. m - 1 : calls[c].p # P
    BY <2>1, <2>4, <2>5
  <2> QED  BY <2>1, <2>2, <2>3, <2>6
<1>5. /\ Len(node') = n + 1
      /\ \A r \in 1 .. n : node'[r] = node[r]
      /\ node'[q].pid = child
      /\ Len(kids) = n /\ Len(kids') = n + 1
      /\ \A r \in 1 .. n : r # P => kids'[r] = kids[r]
      /\ kids'[P] = Inserted(list, q, node')
      /\ kids'[q] = <<>>
      /\ Len(calls') = m + 1
      /\ \A c \in 1 .. m - 1 : calls'[c] = calls[c]
      /\ calls'[m] = [Top EXCEPT !.i = i + 1]
      /\ calls'[m + 1] = [p |-> q, pid |-> child, i |-> 1]
  BY <1>1, <1>2, GrowIs DEF Sound
<1>6. \A r \in 1 .. n : kids[r] \in Seq(1 .. n)
  <2>1. kids \in Seq(Seq(1 .. n))
    BY DEF Sound, TypeOK
  <2> HIDE DEF n
  <2> QED  BY <1>5, <2>1
<1>7. /\ calls'[m].p = P /\ calls'[m].i = i + 1
      /\ calls'[m + 1].p = q /\ calls'[m + 1].i = 1
      /\ m \in 1 .. Len(calls') /\ m + 1 \in 1 .. Len(calls')
  <2>1. calls'[m].p = P /\ calls'[m].i = i + 1
    BY <1>2, <1>5 DEF Call
  <2>2. m \in 1 .. m + 1 /\ m + 1 \in 1 .. m + 1
    BY <1>2
  <2> QED  BY <1>5, <2>1, <2>2
\* Which entries the calls are past.
<1>8. \A j \in 1 .. Len(pids) : Past(calls, P, j) <=> j < Top.i
  <2> TAKE j \in 1 .. Len(pids)
  <2>1. \A c \in 1 .. m : c \in 1 .. m - 1 \/ c = m
    BY <1>2
  <2>2. calls[m].p = P /\ calls[m].i = Top.i
    BY <1>4
  <2>3. m = Len(calls)
    OBVIOUS
  <2> HIDE DEF m, P
  <2>4. \A c \in 1 .. m : calls[c].p = P <=> c = m
    BY <1>4, <2>1, <2>2
  <2> QED  BY <1>4, <2>2, <2>3, <2>4 DEF Past
<1>9. /\ \A j \in 1 .. Len(pids) : ~Past(calls', q, j)
      /\ \A j \in 1 .. Len(pids) : Past(calls', P, j) <=> j < i + 1
      /\ \A p \in 1 .. n : p # P => \A j \in 1 .. Len(pids) : Past(calls', p, j) <=> Past(calls, p, j)
  <2>1. \A c \in 1 .. Len(calls') : c \in 1 .. m - 1 \/ c = m \/ c = m + 1
    BY <1>2, <1>5
  <2>2. \A c \in 1 .. m : c \in 1 .. m - 1 \/ c = m
    BY <1>2
  <2>3. \A c \in 1 .. m - 1 : c \in 1 .. Len(calls')
    BY <1>2, <1>5
  <2>4. P # q /\ \A p \in 1 .. n : p # q
    BY <1>1, <1>2
  <2>5. \A j \in 1 .. Len(pids) : ~(j < 1)
    OBVIOUS
  <2> HIDE DEF i, m, n, q, P
  <2>6. \A j \in 1 .. Len(pids) : ~Past(calls', q, j)
    BY <1>7, <2>5 DEF Past
  <2>7. \A j \in 1 .. Len(pids) : Past(calls', P, j) <=> j < i + 1
    <3> TAKE j \in 1 .. Len(pids)
    <3>1. \A c \in 1 .. Len(calls') : calls'[c].p = P <=> c = m
      <4>1. \A c \in 1 .. m - 1 : calls'[c].p # P /\ c # m
        BY <1>2, <1>4, <1>5
      <4>2. m + 1 # m
        BY <1>2
      <4> QED  BY <1>7, <2>1, <2>4, <4>1, <4>2
    <3> QED  BY <1>7, <3>1 DEF Past
  <2>8. ASSUME NEW p \in 1 .. n, p # P, NEW j \in 1 .. Len(pids)
        PROVE  Past(calls', p, j) <=> Past(calls, p, j)
    <3>1. \A c \in 1 .. Len(calls') : calls'[c].p = p => c \in 1 .. m - 1
      BY <1>7, <2>1, <2>4, <2>8
    <3>2. calls[m].p = P
      BY <1>4 DEF P
    <3>3. \A c \in 1 .. m : calls[c].p = p => c \in 1 .. m - 1
      BY <2>2, <2>8, <3>2
    <3>4. \A c \in 1 .. m - 1 : calls'[c] = calls[c] /\ c \in 1 .. m /\ c \in 1 .. Len(calls')
      BY <1>4, <1>5, <2>3
    <3>5. m = Len(calls)
      BY DEF m
    <3> QED  BY <3>1, <3>3, <3>4, <3>5 DEF Past
  <2> QED  BY <2>6, <2>7, <2>8
\* The new node goes to the end.
<1>10. \A k \in 1 .. l :
          /\ list[k] \in 1 .. n /\ P < list[k]
          /\ node[list[k]].pid \in Nat /\ node[list[k]].pid < child
  <2> TAKE k \in 1 .. l
  <2>1. P \in 1 .. Len(kids) /\ list \in Seq(1 .. n)
    BY <1>1, <1>5, <1>6
  <2>2. list[k] \in 1 .. n
    BY <2>1
  <2>3. P < list[k]
    BY <2>1 DEF Forest, Grown, Filled
  <2>4. PICK j \in 1 .. Len(pids) : Past(calls, P, j) /\ pids[j] = <<node[list[k]].pid, node[P].pid>>
    BY <1>1, <2>1 DEF Forest, Grown, Filled
  <2>5. j < i
    BY <1>2, <1>3, <1>8, <2>4
  <2>6. pids[j][1] = node[list[k]].pid /\ pids[j][2] = Top.pid
    BY <1>4, <2>4
  <2>7. pids[j][1] <= pids[i][1]
    BY <1>1, <1>2, <2>5 DEF Sound, Known, Entries
  <2>8. Top.pid # 0
    BY <1>1, <1>4 DEF Forest, Grown, Filled
  <2>9. pids[j][1] # pids[i][1]
    <3>1. j # i
      BY <1>2, <2>5
    <3> QED  BY <1>1, <1>2, <1>3, <2>6, <2>8, <3>1 DEF Sound, Known, Entries
  <2>10. pids[j][1] \in Nat /\ child \in Nat
    <3>1. pids[j][1] \in Pid
      BY EntryIs DEF Sound
    <3> QED  BY <1>1, <3>1, PidsAreNumbers
  <2> HIDE DEF i, n, child
  <2>11. child = pids[i][1]
    BY DEF child
  <2>12. pids[j][1] < child
    BY <2>7, <2>9, <2>10, <2>11
  <2> QED  BY <2>2, <2>3, <2>6, <2>10, <2>12, Zenon
<1>11. Mode # "name"
  <2>1. todo # <<>> /\ todo \in Seq({"n", "p"})
    BY <1>1 DEF Sound, Phase, Forest
  <2>2. Head(todo) \in {"n", "p"}
    BY <2>1
  <2> QED  BY <2>2 DEF Mode
<1>12. \A k \in 1 .. l : Before(list[k], q, node')
  <2> TAKE k \in 1 .. l
  <2>1. node'[list[k]] = node[list[k]]
    BY <1>5, <1>10
  <2> QED  BY <1>5, <1>10, <1>11, <2>1 DEF Before
<1>13. /\ l \in Nat /\ Len(kids'[P]) = l + 1
       /\ \A k \in 1 .. l : kids'[P][k] = list[k]
       /\ kids'[P][l + 1] = q
  <2>1. list \in Seq(1 .. n)
    BY <1>1, <1>6
  <2> HIDE DEF list, q, n
  <2> QED  BY <1>2, <1>5, <1>12, <2>1, InsertedLast DEF l
<1>14. /\ \A k \in 1 .. l + 1 : k \in 1 .. l \/ k = l + 1
       /\ \A p \in 1 .. n + 1 : p = P \/ p = q \/ (p # P /\ p \in 1 .. n)
       /\ \A k \in 1 .. l : k \in 1 .. l + 1
       /\ l + 1 \in 1 .. l + 1 /\ P \in 1 .. n + 1 /\ Len(kids'[q]) = 0
       /\ P < q /\ \A p \in 1 .. n : p \in 1 .. n + 1
  <2>1. Len(kids'[q]) = 0
    BY <1>5
  <2>2. /\ \A k \in 1 .. l + 1 : k \in 1 .. l \/ k = l + 1
        /\ \A k \in 1 .. l : k \in 1 .. l + 1
        /\ l + 1 \in 1 .. l + 1
    <3> HIDE DEF l
    <3> QED  BY <1>13
  <2>3. /\ \A p \in 1 .. n + 1 : p = P \/ p = q \/ (p # P /\ p \in 1 .. n)
        /\ P \in 1 .. n + 1 /\ P < q /\ \A p \in 1 .. n : p \in 1 .. n + 1
    <3> HIDE DEF n, P
    <3> QED  BY <1>1, <1>2 DEF q
  <2> QED  BY <2>1, <2>2, <2>3
<1>15. \A p \in 1 .. n : \A k \in 1 .. Len(kids[p]) :
           kids[p][k] \in 1 .. n /\ node'[kids[p][k]] = node[kids[p][k]]
  <2> TAKE p \in 1 .. n
  <2> TAKE k \in 1 .. Len(kids[p])
  <2>1. kids[p] \in Seq(1 .. n)
    BY <1>6
  <2>2. kids[p][k] \in 1 .. n
    BY <2>1
  <2> QED  BY <1>5, <2>2
<1> HIDE DEF i, m, n, q, P, child, list, l
<1>16. /\ n = Len(node) /\ list = kids[P] /\ l = Len(list) /\ q = n + 1
       /\ Len(kids) = n /\ Len(kids') = n + 1 /\ Len(node') = n + 1
  BY <1>5 DEF n, list, l, q
<1>17. todo' \in Seq({"n", "p"})
  BY <1>1 DEF Forest, Grown, Filled
<1>18. \A r \in 1 .. Len(node') : node'[r].pid # 0
  <2>1. child # 0
    BY <1>1, PidsAreNumbers
  <2>2. \A r \in 1 .. n : node'[r].pid # 0
    BY <1>5, <1>16 DEF Forest, Grown, Filled
  <2> QED  BY <1>1, <1>5, <1>14, <1>16, <2>1, <2>2
<1>19. NoNodeLost'
  <2> SUFFICES ASSUME NEW r \in 2 .. n + 1
               PROVE  \E p \in 1 .. r - 1 : \E k \in 1 .. Len(kids'[p]) : kids'[p][k] = r
    BY <1>16 DEF NoNodeLost
  <2>1. CASE r = q
    <3>1. P \in 1 .. r - 1
      BY <1>1, <1>2, <1>16, <2>1
    <3> QED  BY <1>13, <1>14, <2>1, <3>1
  <2>2. CASE r # q
    <3>1. r \in 2 .. n
      BY <1>2, <1>16, <2>2
    <3>2. PICK p \in 1 .. r - 1 : \E k \in 1 .. Len(kids[p]) : kids[p][k] = r
      BY <1>16, <3>1 DEF Forest, Grown, NoNodeLost
    <3>3. p \in 1 .. n
      BY <1>2, <3>1
    <3>4. CASE p = P
      BY <1>13, <1>14, <1>16, <3>2, <3>4
    <3>5. CASE p # P
      BY <1>5, <3>2, <3>3, <3>5
    <3> QED  BY <3>4, <3>5
  <2> QED  BY <2>1, <2>2
<1>20. \A p \in 1 .. n + 1 : \A k \in 1 .. Len(kids'[p]) :
           \/ p = P /\ k = l + 1 /\ kids'[p][k] = q
           \/ /\ p \in 1 .. n /\ k \in 1 .. Len(kids[p]) /\ kids'[p][k] = kids[p][k]
              /\ p = P => k \in 1 .. l
  <2> TAKE p \in 1 .. n + 1
  <2> TAKE k \in 1 .. Len(kids'[p])
  <2>1. CASE p = P
    BY <1>1, <1>13, <1>14, <1>16, <2>1
  <2>2. CASE p = q
    BY <1>14, <2>2
  <2>3. CASE p # P /\ p \in 1 .. n
    BY <1>5, <2>3
  <2> QED  BY <1>14, <2>1, <2>2, <2>3
<1>21. \A p \in 1 .. n + 1 : \A k \in 1 .. Len(kids'[p]) : p < kids'[p][k]
  <2> TAKE p \in 1 .. n + 1
  <2> TAKE k \in 1 .. Len(kids'[p])
  <2>1. CASE p = P /\ kids'[p][k] = q
    BY <1>14, <2>1
  <2>2. CASE p \in 1 .. n /\ k \in 1 .. Len(kids[p]) /\ kids'[p][k] = kids[p][k]
    BY <1>16, <2>2 DEF Forest, Grown, Filled
  <2> QED  BY <1>20, <2>1, <2>2
<1>22. SiblingsSorted'
  <2> SUFFICES ASSUME NEW p \in 1 .. n + 1, NEW j \in 1 .. Len(kids'[p]),
                      NEW k \in 1 .. Len(kids'[p]), j < k
               PROVE  node'[kids'[p][j]].pid < node'[kids'[p][k]].pid
    BY <1>16 DEF SiblingsSorted
  <2>1. CASE p = P /\ k = l + 1 /\ kids'[p][k] = q
    <3>1. j \in 1 .. l
      BY <1>13, <2>1
    <3>2. kids'[p][j] = list[j] /\ node'[list[j]] = node[list[j]]
      BY <1>5, <1>10, <1>13, <2>1, <3>1
    <3> QED  BY <1>5, <1>10, <2>1, <3>1, <3>2
  <2>2. CASE p = P /\ j = l + 1
    <3>1. k \in 1 .. l + 1
      BY <1>13, <2>2
    <3> QED  BY <1>13, <2>2, <3>1
  <2>3. CASE /\ p \in 1 .. n /\ k \in 1 .. Len(kids[p]) /\ kids'[p][k] = kids[p][k]
             /\ j \in 1 .. Len(kids[p]) /\ kids'[p][j] = kids[p][j]
    <3>1. node[kids[p][j]].pid < node[kids[p][k]].pid
      BY <1>16, <2>3 DEF Forest, Grown, SiblingsSorted
    <3>2. node'[kids[p][j]] = node[kids[p][j]] /\ node'[kids[p][k]] = node[kids[p][k]]
      BY <1>15, <2>3
    <3> QED  BY <2>3, <3>1, <3>2
  <2> QED  BY <1>20, <2>1, <2>2, <2>3
<1>23. \A p \in 1 .. n + 1 : \A k \in 1 .. Len(kids'[p]) :
           \E j \in 1 .. Len(pids) :
               Past(calls', p, j) /\ pids[j] = <<node'[kids'[p][k]].pid, node'[p].pid>>
  <2> TAKE p \in 1 .. n + 1
  <2> TAKE k \in 1 .. Len(kids'[p])
  <2>1. CASE p = P /\ kids'[p][k] = q
    <3>1. Past(calls', P, i)
      BY <1>2, <1>9
    <3>2. pids[i][1] = node'[q].pid /\ pids[i][2] = node'[P].pid
      BY <1>1, <1>3, <1>4, <1>5 DEF child
    <3>3. pids[i] = <<pids[i][1], pids[i][2]>>
      BY <1>2, EntryIs DEF Sound
    <3> QED  BY <1>2, <2>1, <3>1, <3>2, <3>3
  <2>2. CASE p \in 1 .. n /\ k \in 1 .. Len(kids[p]) /\ kids'[p][k] = kids[p][k]
    <3>1. PICK j \in 1 .. Len(pids) : Past(calls, p, j) /\ pids[j] = <<node[kids[p][k]].pid, node[p].pid>>
      BY <1>1, <1>16, <2>2 DEF Forest, Grown, Filled
    <3>2. node'[kids[p][k]] = node[kids[p][k]] /\ node'[p] = node[p]
      BY <1>5, <1>15, <2>2
    <3>3. Past(calls', p, j)
      <4>1. CASE p = P
        <5>1. j < Top.i
          BY <1>8, <3>1, <4>1
        <5>2. j < i + 1
          BY <1>2, <1>3, <5>1
        <5> QED  BY <1>9, <4>1, <5>2
      <4>2. CASE p # P
        BY <1>9, <2>2, <3>1, <4>2
      <4> QED  BY <4>1, <4>2
    <3> QED  BY <2>2, <3>1, <3>2, <3>3
  <2> QED  BY <1>20, <2>1, <2>2
<1>24. \A p \in 1 .. n + 1 : \A j \in 1 .. Len(pids) :
           Past(calls', p, j) /\ pids[j][2] = node'[p].pid =>
               \E k \in 1 .. Len(kids'[p]) : node'[kids'[p][k]].pid = pids[j][1]
  <2> TAKE p \in 1 .. n + 1
  <2> TAKE j \in 1 .. Len(pids)
  <2> HAVE Past(calls', p, j) /\ pids[j][2] = node'[p].pid
  <2>1. CASE p = q
    BY <1>9, <2>1
  <2>2. ASSUME p \in 1 .. n, Past(calls, p, j)
        PROVE  \E k \in 1 .. Len(kids'[p]) : node'[kids'[p][k]].pid = pids[j][1]
    <3>0. pids[j][2] = node[p].pid /\ p \in 1 .. Len(kids)
      BY <1>5, <1>16, <2>2
    <3>1. PICK k \in 1 .. Len(kids[p]) : node[kids[p][k]].pid = pids[j][1]
      BY <1>1, <2>2, <3>0 DEF Forest, Grown, Filled
    <3>2. node'[kids[p][k]].pid = pids[j][1]
      BY <1>15, <2>2, <3>1
    <3>3. CASE p = P
      BY <1>13, <1>14, <1>16, <3>1, <3>2, <3>3
    <3>4. CASE p # P
      BY <1>5, <2>2, <3>1, <3>2, <3>4
    <3> QED  BY <3>3, <3>4
  <2>3. CASE p = P
    <3>1. j < i + 1 /\ pids[j][2] = Top.pid
      BY <1>1, <1>4, <1>5, <1>9, <2>3
    <3>2. CASE j = i
      <4>1. node'[kids'[P][l + 1]].pid = pids[j][1] /\ l + 1 \in 1 .. Len(kids'[P])
        BY <1>5, <1>13, <1>14, <3>2 DEF child
      <4> QED  BY <2>3, <4>1
    <3>3. CASE j # i
      <4>1. j < Top.i
        BY <1>2, <1>3, <3>1, <3>3
      <4>2. Past(calls, p, j) /\ p \in 1 .. n
        BY <1>1, <1>8, <1>16, <2>3, <4>1
      <4> QED  BY <2>2, <4>2
    <3> QED  BY <3>2, <3>3
  <2>4. CASE p # P /\ p \in 1 .. n
    BY <1>9, <2>2, <2>4
  <2> QED  BY <1>14, <2>1, <2>3, <2>4
<1>25. node' # <<>> /\ node'[1].pid = rootPID
  <2>1. node # <<>> /\ 1 \in 1 .. n /\ 1 \in 1 .. n + 1
    BY <1>1, <1>2, <1>16
  <2>2. node'[1].pid = rootPID
    BY <1>1, <1>5, <2>1 DEF Forest, Grown, Filled
  <2>3. Len(node') # 0
    BY <1>2, <1>16
  <2> QED  BY <2>2, <2>3
<1>26. pids' = pids /\ rootPID' = rootPID
  BY <1>1
<1>27. Len(kids') = n + 1 /\ Len(pids') = Len(pids)
  BY <1>16, <1>26
<1>28. Grown'
  BY <1>18, <1>19, <1>21, <1>22, <1>27 DEF Grown
<1>29. Filled'
  BY <1>23, <1>24, <1>25, <1>26, <1>27, Zenon DEF Filled
<1> QED  BY <1>17, <1>28, <1>29 DEF Forest

LEMMA DescendForest == ASSUME Sound, Forest, Descend PROVE Forest'
<1>1. CASE \E a \in 0 .. MaxPids : Grow(Min(Matches), Len(node) + 1, a)
  BY <1>1, GrowForest
<1>2. CASE ~\E a \in 0 .. MaxPids : Grow(Min(Matches), Len(node) + 1, a)
  <2>1. pc' = "crash" /\ UNCHANGED <<todo, node, kids>>
    BY <1>2, DescendIs DEF Sound
  <2>2. Grown'
    BY <2>1 DEF Forest, Grown, NoNodeLost, SiblingsSorted
  <2> QED  BY <2>1, <2>2 DEF Forest
<1> QED  BY <1>1, <1>2

LEMMA AscendForest == ASSUME Sound, Forest, Ascend PROVE Forest'
<1>1. /\ UNCHANGED <<machine, steady, rootPID, todo, why, dirents, pids, node, kids>>
      /\ pc = "build" /\ calls # <<>> /\ calls' = Pop /\ Matches = {}
  BY DEF Ascend
<1> DEFINE m == Len(calls)
<1>2. /\ m \in Nat \ {0} /\ Len(calls') = m - 1 /\ \A c \in 1 .. m - 1 : calls'[c] = calls[c]
      /\ Top = calls[m] /\ Top \in Call(Len(node), Len(pids))
  BY <1>1, PopIs, TopIs DEF Sound, Top
<1>3. /\ \A c \in 1 .. m - 1 : c \in 1 .. m
      /\ \A c \in 1 .. m : c \in 1 .. m - 1 \/ c = m
  BY <1>2
<1>4. \A p, j : Past(calls, p, j) => Past(calls', p, j)
  BY <1>2, <1>3 DEF Past
<1>5. ASSUME NEW p \in 1 .. Len(kids), NEW j \in 1 .. Len(pids),
             Past(calls', p, j), pids[j][2] = node[p].pid
      PROVE  Past(calls, p, j)
  <2>1. SUFFICES ASSUME calls[m].p = p PROVE j < calls[m].i
    <3>1. \A c \in 1 .. m - 1 : calls[c].p = p => j < calls[c].i
      BY <1>2, <1>5 DEF Past
    <3> QED  BY <1>3, <3>1 DEF Past
  <2>2. m \in 1 .. Len(calls) /\ p # 0
    BY <1>2
  <2>3. Top.pid = node[p].pid
    BY <1>2, <2>1, <2>2 DEF Sound, Known, CallsFit
  <2>4. Top.i \in Nat /\ j \in Nat
    BY <1>2 DEF Call
  <2>5. ~(Top.i <= j)
    <3>1. SUFFICES ASSUME Top.i <= j PROVE FALSE
      OBVIOUS
    <3>2. j \in Top.i .. Len(pids)
      BY <1>1, <2>4, <3>1
    <3>3. j \in Matches
      BY <1>5, <2>3, <3>2 DEF Matches
    <3> QED  BY <1>1, <3>3
  <2> QED  BY <1>2, <2>4, <2>5
<1>6. Grown'
  BY <1>1 DEF Forest, Grown, NoNodeLost, SiblingsSorted
<1>7. Filled
  BY <1>1 DEF Forest
<1>8. Filled'
  <2>1. ASSUME NEW p \in 1 .. Len(kids), NEW k \in 1 .. Len(kids[p])
        PROVE  \E j \in 1 .. Len(pids) :
                   Past(calls', p, j) /\ pids[j] = <<node[kids[p][k]].pid, node[p].pid>>
    <3>1. PICK j \in 1 .. Len(pids) :
                   Past(calls, p, j) /\ pids[j] = <<node[kids[p][k]].pid, node[p].pid>>
      BY <1>7 DEF Filled
    <3> QED  BY <1>4, <3>1
  <2>2. ASSUME NEW p \in 1 .. Len(kids), NEW j \in 1 .. Len(pids),
               Past(calls', p, j), pids[j][2] = node[p].pid
        PROVE  \E k \in 1 .. Len(kids[p]) : node[kids[p][k]].pid = pids[j][1]
    BY <1>5, <1>7, <2>2 DEF Filled
  <2>3. /\ node # <<>> => node[1].pid = rootPID
        /\ node = <<>> => rootPID \notin steady
    BY <1>7 DEF Filled
  <2>4. node' = node /\ kids' = kids /\ pids' = pids /\ rootPID' = rootPID /\ steady' = steady
    BY <1>1
  <2> QED  BY <2>1, <2>2, <2>3, <2>4, Zenon DEF Filled
<1> QED  BY <1>1, <1>6, <1>8 DEF Forest

LEMMA NextForest ==
    ASSUME 0 \notin Roots
    PROVE  Sound /\ Forest /\ [Next]_vars => Forest'
<1> SUFFICES ASSUME Sound, Forest, [Next]_vars PROVE Forest'
  OBVIOUS
<1>1. CASE UNCHANGED vars
  <2>1. Grown => Grown'
    BY <1>1 DEF vars, program, Grown, NoNodeLost, SiblingsSorted
  <2>2. Filled => Filled'
    BY <1>1, FilledStays DEF vars, program
  <2> QED  BY <1>1, <2>1, <2>2 DEF vars, program, Forest
<1>2. CASE Open \/ \E p \in Pid : Read(p)
  <2>1. pc' \notin {"build", "print"} /\ UNCHANGED <<todo, node, kids>>
    BY <1>2 DEF Open, Read
  <2>2. Grown'
    BY <2>1 DEF Forest, Grown, NoNodeLost, SiblingsSorted
  <2> QED  BY <2>1, <2>2 DEF Forest
<1>3. CASE PrintTree
  <2>1. pc' \in {"done", "open"} /\ todo' = Tail(todo) /\ node' = <<>> /\ kids' = <<>> /\ todo # <<>>
    BY <1>3 DEF PrintTree, Sound, Phase
  <2>2. Grown'
    BY <2>1 DEF Grown, NoNodeLost, SiblingsSorted
  <2> QED  BY <2>1, <2>2 DEF Forest
<1> QED  BY <1>1, <1>2, <1>3, MakeRootForest, DescendForest, AscendForest, MachineForest
         DEF Next, Step, Sound

\* What the printed tree is.
LEMMA AllPast ==
    ASSUME Sound, Forest, pc = "print"
    PROVE  /\ Filled /\ dirents = {} /\ Len(node) \in Nat /\ Len(kids) = Len(node)
           /\ \A p, j : Past(calls, p, j)
           /\ \A p \in 1 .. Len(node) : \A k \in 1 .. Len(kids[p]) : kids[p][k] \in 1 .. Len(node)
<1>1. Filled /\ dirents = {} /\ Len(node) \in Nat /\ Len(kids) = Len(node) /\ calls = <<>>
  BY DEF Sound, TypeOK, Phase, Forest
<1>2. \A p \in 1 .. Len(node) : \A k \in 1 .. Len(kids[p]) : kids[p][k] \in 1 .. Len(node)
  <2>1. kids \in Seq(Seq(1 .. Len(node)))
    BY DEF Sound, TypeOK
  <2> TAKE p \in 1 .. Len(node)
  <2>2. kids[p] \in Seq(1 .. Len(node))
    BY <1>1, <2>1
  <2> QED  BY <2>2
<1> QED  BY <1>1, <1>2 DEF Past

\* The children of a process are among those of each of its nodes.
LEMMA ChildOfTwin ==
    ASSUME Sound, Forest, pc = "print",
           NEW p \in 1 .. Len(node), NEW k \in 1 .. Len(kids[p]),
           NEW r \in 1 .. Len(node), node[r].pid = node[p].pid
    PROVE  \E j \in 1 .. Len(kids[r]) :
               node[kids[r][j]].pid = node[kids[p][k]].pid /\ r < kids[r][j]
<1>1. Filled /\ Len(kids) = Len(node) /\ \A s, j : Past(calls, s, j)
  BY AllPast
<1>2. PICK i \in 1 .. Len(pids) : pids[i] = <<node[kids[p][k]].pid, node[p].pid>>
  BY <1>1 DEF Filled
<1>3. pids[i][1] = node[kids[p][k]].pid /\ pids[i][2] = node[r].pid
  BY <1>2
<1>4. PICK j \in 1 .. Len(kids[r]) : node[kids[r][j]].pid = pids[i][1]
  BY <1>1, <1>3 DEF Filled
<1>5. r < kids[r][j]
  BY <1>1 DEF Forest, Grown
<1> QED  BY <1>3, <1>4, <1>5

LEMMA OncePerProcess ==
    ASSUME Sound, Forest, pc = "print"
    PROVE  \A q, r \in 1 .. Len(node) : node[q].pid = node[r].pid => q = r
<1> DEFINE n == Len(node)
           Twin(q) == \E r \in 1 .. n : r # q /\ node[r].pid = node[q].pid
<1>1. /\ Filled /\ n \in Nat /\ Len(kids) = n /\ \A p, j : Past(calls, p, j)
      /\ \A p \in 1 .. n : \A k \in 1 .. Len(kids[p]) : kids[p][k] \in 1 .. n
  BY AllPast
<1>2. \A q \in 2 .. n : \E p \in 1 .. q - 1 : \E k \in 1 .. Len(kids[p]) : kids[p][k] = q
  BY DEF Forest, Grown, NoNodeLost
\* The parents of two nodes of a process are two nodes of a process.
<1>3. ASSUME NEW q \in 2 .. n, NEW r \in 2 .. n, q # r, node[q].pid = node[r].pid
      PROVE  \E p \in 1 .. q - 1 : Twin(p)
  <2>1. PICK p \in 1 .. q - 1 : \E k \in 1 .. Len(kids[p]) : kids[p][k] = q
    BY <1>2
  <2>2. PICK s \in 1 .. r - 1 : \E k \in 1 .. Len(kids[s]) : kids[s][k] = r
    BY <1>2
  <2>3. p \in 1 .. n /\ s \in 1 .. n
    BY <1>1, <2>1, <2>2
  <2>4. PICK k \in 1 .. Len(kids[p]) : kids[p][k] = q
    BY <2>1
  <2>5. PICK l \in 1 .. Len(kids[s]) : kids[s][l] = r
    BY <2>2
  <2>6. PICK i \in 1 .. Len(pids) : pids[i] = <<node[q].pid, node[p].pid>>
    BY <1>1, <2>3, <2>4 DEF Filled
  <2>7. PICK j \in 1 .. Len(pids) : pids[j] = <<node[r].pid, node[s].pid>>
    BY <1>1, <2>3, <2>5 DEF Filled
  <2>8. node[p].pid # 0 /\ node[s].pid # 0
    BY <2>3 DEF Forest, Grown
  <2>9. i = j
    BY <1>3, <2>6, <2>7, <2>8 DEF Sound, Known, Entries
  <2>10. node[p].pid = node[s].pid
    BY <2>6, <2>7, <2>9
  <2>11. p # s
    <3>1. SUFFICES ASSUME p = s PROVE FALSE
      OBVIOUS
    <3>2. l # k
      BY <1>3, <2>4, <2>5, <3>1
    <3>3. l \in Int /\ k \in Int /\ node[q].pid \in Int
      <4>1. node[q].pid \in Pid \cup {0}
        BY NodePid DEF Sound
      <4> QED  BY <4>1, PidsAreNumbers
    <3>4. l < k \/ k < l
      BY <3>2, <3>3
    <3>5. node[q].pid < node[r].pid \/ node[r].pid < node[q].pid
      BY <1>1, <2>3, <2>4, <2>5, <3>1, <3>4 DEF Forest, Grown, SiblingsSorted
    <3> QED  BY <1>3, <3>3, <3>5
  <2> QED  BY <2>1, <2>3, <2>10, <2>11
\* So the first node that is not the only one of its process is the root.
<1>4. SUFFICES ASSUME NEW u \in 1 .. n, Twin(u) PROVE FALSE
  OBVIOUS
<1>5. PICK r \in 2 .. n : node[r].pid = node[1].pid
  <2> DEFINE T == {q \in 1 .. n : Twin(q)}
  <2>1. T \in SUBSET Nat /\ T # {}
    BY <1>4
  <2>2. PICK q \in T : \A p \in T : q <= p
    <3> HIDE DEF T
    <3> QED  BY <2>1, Least
  <2>3. PICK r \in 1 .. n : r # q /\ node[r].pid = node[q].pid
    BY <2>2
  <2>4. Twin(r)
    BY <2>2, <2>3
  <2>5. q < r
    <3>1. q <= r /\ q \in Nat /\ r \in Nat
      BY <2>2, <2>3, <2>4
    <3> QED  BY <2>3, <3>1
  <2>6. q = 1
    <3>1. SUFFICES ASSUME q # 1 PROVE FALSE
      OBVIOUS
    <3>2. q \in 2 .. n /\ r \in 2 .. n
      BY <2>2, <2>3, <2>5, <3>1
    <3>3. PICK p \in 1 .. q - 1 : Twin(p)
      BY <1>3, <2>3, <3>2
    <3>4. p \in T /\ p < q
      BY <1>1, <3>2, <3>3
    <3>5. q \in Nat /\ p \in Nat /\ q <= p
      BY <2>2, <3>2, <3>4
    <3> QED  BY <3>4, <3>5
  <2>7. r \in 2 .. n
    BY <2>3, <2>5, <2>6
  <2> QED  BY <2>3, <2>6, <2>7
\* Below the last node of the root's process there would be another one.
<1>6. PICK M \in 2 .. n : /\ node[M].pid = node[1].pid
                          /\ \A q \in 1 .. n : node[q].pid = node[1].pid => q <= M
  <2> DEFINE T == {q \in 1 .. n : node[q].pid = node[1].pid}
  <2>1. T \in SUBSET (1 .. n) /\ T # {} /\ r \in T
    BY <1>1, <1>5
  <2>2. PICK M \in T : \A q \in T : q <= M
    <3> HIDE DEF T
    <3> QED  BY <1>1, <2>1, Greatest
  <2>3. r <= M
    BY <2>1, <2>2
  <2>4. M \in 2 .. n
    BY <1>5, <2>2, <2>3
  <2> QED  BY <2>2, <2>4
<1>7. ASSUME NEW q \in 2 .. n, ~\E s \in 1 .. n : M < s /\ node[s].pid = node[q].pid
      PROVE  \E p \in 2 .. q - 1 : ~\E s \in 1 .. n : M < s /\ node[s].pid = node[p].pid
  <2>1. PICK p \in 1 .. q - 1 : \E k \in 1 .. Len(kids[p]) : kids[p][k] = q
    BY <1>2
  <2>2. PICK k \in 1 .. Len(kids[p]) : kids[p][k] = q
    BY <2>1
  <2>3. p \in 1 .. n
    BY <1>1, <2>1
  <2>4. ASSUME NEW t \in 1 .. n, M <= t, node[t].pid = node[p].pid PROVE FALSE
    <3>1. PICK j \in 1 .. Len(kids[t]) : node[kids[t][j]].pid = node[kids[p][k]].pid /\ t < kids[t][j]
      BY <2>3, <2>4, ChildOfTwin
    <3>2. kids[t][j] \in 1 .. n
      BY <1>1
    <3>3. M < kids[t][j]
      BY <1>6, <2>4, <3>1, <3>2
    <3> QED  BY <1>7, <2>2, <3>1, <3>2, <3>3
  <2>5. p # 1
    BY <1>6, <2>4
  <2>6. p \in 2 .. q - 1
    BY <2>1, <2>5
  <2>7. ~\E s \in 1 .. n : M < s /\ node[s].pid = node[p].pid
    BY <1>6, <2>4
  <2> QED  BY <2>6, <2>7
<1>8. \A q \in 2 .. n : \E s \in 1 .. n : M < s /\ node[s].pid = node[q].pid
  <2> DEFINE T == {q \in 2 .. n : ~\E s \in 1 .. n : M < s /\ node[s].pid = node[q].pid}
  <2>1. SUFFICES ASSUME T # {} PROVE FALSE
    OBVIOUS
  <2>2. T \in SUBSET Nat
    OBVIOUS
  <2>3. PICK q \in T : \A p \in T : q <= p
    <3> HIDE DEF T
    <3> QED  BY <2>1, <2>2, Least
  <2>4. PICK p \in 2 .. q - 1 : ~\E s \in 1 .. n : M < s /\ node[s].pid = node[p].pid
    BY <1>7, <2>3
  <2>5. p \in T /\ p < q
    BY <1>1, <2>3, <2>4
  <2>6. q \in Nat /\ p \in Nat /\ q <= p
    BY <2>3, <2>5
  <2> QED  BY <2>5, <2>6
<1>9. PICK s \in 1 .. n : M < s /\ node[s].pid = node[M].pid
  BY <1>8
<1> QED  BY <1>6, <1>9

\* Every node is linked to the root.
LEMMA AllLinked ==
    ASSUME NoNodeLost, Len(node) \in Nat
    PROVE  Linked = 1 .. Len(node)
<1> DEFINE n == Len(node)
           Nodes == 1 .. n
           Closed(S) == /\ 1 \in Nodes => 1 \in S
                        /\ \A p \in S : \A k \in 1 .. Len(kids[p]) : kids[p][k] \in S
<1>1. Linked = {q \in Nodes : \A S \in SUBSET Nodes : Closed(S) => q \in S}
  BY DEF Linked
<1>2. ASSUME NEW S \in SUBSET Nodes, Closed(S), Nodes \ S # {} PROVE FALSE
  <2>1. PICK q \in Nodes \ S : \A p \in Nodes \ S : q <= p
    <3>1. Nodes \ S \in SUBSET Nat
      OBVIOUS
    <3> HIDE DEF Nodes
    <3> QED  BY <1>2, <3>1, Least
  <2>2. q \in 2 .. n
    <3>1. q # 1
      BY <1>2, <2>1
    <3> QED  BY <2>1, <3>1
  <2>3. PICK p \in 1 .. q - 1 : \E k \in 1 .. Len(kids[p]) : kids[p][k] = q
    BY <2>2 DEF NoNodeLost
  <2>4. p \in Nodes /\ p < q /\ p \in Int /\ q \in Int
    BY <2>2, <2>3
  <2>5. p \in S
    BY <2>1, <2>4
  <2> QED  BY <1>2, <2>1, <2>3, <2>5
<1> HIDE DEF Nodes, Closed
<1>3. Linked = Nodes
  BY <1>1, <1>2
<1> QED  BY <1>3 DEF Nodes

LEMMA SteadyAreNodes ==
    ASSUME Sound, Forest, 0 \notin Roots, pc = "print"
    PROVE  SteadyBelowRoot \subseteq {node[q].pid : q \in 1 .. Len(node)}
<1> DEFINE n == Len(node)
           N == {node[q].pid : q \in 1 .. n}
           Closed(S) == /\ rootPID \in steady \cup {0} => rootPID \in S
                        /\ \A p \in steady \ Spaced : parent[p] \in S => p \in S
<1>1. /\ Filled /\ n \in Nat /\ Len(kids) = n /\ dirents = {} /\ \A p, j : Past(calls, p, j)
      /\ \A p \in 1 .. n : \A k \in 1 .. Len(kids[p]) : kids[p][k] \in 1 .. n
  BY AllPast
<1>2. N \in SUBSET (Pid \cup {0})
  <2>1. \A q \in 1 .. n : node[q].pid \in Pid \cup {0}
    BY NodePid DEF Sound
  <2> QED  BY <2>1
<1>3. rootPID \in steady \cup {0} => rootPID \in N
  <2>1. SUFFICES ASSUME rootPID \in steady \cup {0} PROVE rootPID \in N
    OBVIOUS
  <2>2. rootPID # 0
    BY DEF Sound, TypeOK
  <2>3. node # <<>>
    BY <1>1, <2>1, <2>2 DEF Filled
  <2>4. 1 \in 1 .. n
    BY <2>3 DEF Sound, TypeOK
  <2> QED  BY <1>1, <2>3, <2>4 DEF Filled
<1>4. ASSUME NEW p \in steady \ Spaced, parent[p] \in N PROVE p \in N
  <2>1. PICK i \in 1 .. Len(pids) : pids[i] = <<p, parent[p]>>
    BY <1>1 DEF Sound, Known, Entries
  <2>2. PICK q \in 1 .. n : node[q].pid = parent[p]
    BY <1>4
  <2>3. pids[i][1] = p /\ pids[i][2] = node[q].pid
    BY <2>1, <2>2
  <2>4. PICK k \in 1 .. Len(kids[q]) : node[kids[q][k]].pid = p
    BY <1>1, <2>3 DEF Filled
  <2>5. kids[q][k] \in 1 .. n
    BY <1>1
  <2> QED  BY <2>4, <2>5
<1>5. Closed(N)
  BY <1>3, <1>4
<1>6. SteadyBelowRoot = {p \in Pid : \A S \in SUBSET (Pid \cup {0}) : Closed(S) => p \in S}
  BY DEF SteadyBelowRoot
<1> HIDE DEF N, Closed
<1>7. SteadyBelowRoot \subseteq N
  BY <1>2, <1>5, <1>6
<1> QED  BY <1>7 DEF N

LEMMA AlwaysForest ==
    ASSUME Jobs \in Seq({"n", "p"}), 0 \notin Roots
    PROVE  Spec => [](Sound /\ Forest)
<1>1. Init => Sound /\ Forest
  BY InitTypes, InitKnown, InitForest DEF Sound
<1>2. Sound /\ Forest /\ [Next]_vars => (Sound /\ Forest)'
  BY NextKnown, NextForest
<1> QED  BY <1>1, <1>2, PTL DEF Spec

\* No node is cut off a list of siblings when they are sorted by number.
THEOREM NothingIsLost ==
    ASSUME Jobs \in Seq({"n", "p"}), 0 \notin Roots
    PROVE  Spec => []NoNodeLost
<1>1. Sound /\ Forest => NoNodeLost
  BY DEF Forest, Grown
<1> QED  BY <1>1, AlwaysForest, PTL

\* And they come out sorted.
THEOREM SiblingsAreSorted ==
    ASSUME Jobs \in Seq({"n", "p"}), 0 \notin Roots
    PROVE  Spec => []SiblingsSorted
<1>1. Sound /\ Forest => SiblingsSorted
  BY DEF Forest, Grown
<1> QED  BY <1>1, AlwaysForest, PTL

(***************************************************************************)
(* A tree that is printed has every process once, also where names with    *)
(* spaces have sent processes below others than their parents.             *)
(***************************************************************************)
THEOREM NobodyIsShownTwice ==
    ASSUME Jobs \in Seq({"n", "p"}), 0 \notin Roots
    PROVE  Spec => []ShownOnce
<1>1. Sound /\ Forest => ShownOnce
  <2> SUFFICES ASSUME Sound, Forest, pc = "print"
               PROVE  \A q, r \in Linked : node[q].pid = node[r].pid => q = r
    BY DEF ShownOnce
  <2>1. Linked = 1 .. Len(node)
    BY AllLinked, AllPast DEF Forest, Grown
  <2> QED  BY <2>1, OncePerProcess
<1> QED  BY <1>1, AlwaysForest, PTL

\* And it has the processes that were there all the time, below others that were.
THEOREM SteadyAreShown ==
    ASSUME Jobs \in Seq({"n", "p"}), 0 \notin Roots
    PROVE  Spec => []SteadyShown
<1>1. Sound /\ Forest => SteadyShown
  <2> SUFFICES ASSUME Sound, Forest, pc = "print"
               PROVE  SteadyBelowRoot \subseteq {node[q].pid : q \in Linked}
    BY DEF SteadyShown
  <2>1. Linked = 1 .. Len(node)
    BY AllLinked, AllPast DEF Forest, Grown
  <2> QED  BY <2>1, SteadyAreNodes
<1> QED  BY <1>1, AlwaysForest, PTL
=============================================================================
