------------------------------- MODULE PsTree -------------------------------
(***************************************************************************)
(* pstree.c: scan /proc for (pid, ppid) pairs, sort them, build a tree of  *)
(* nodes from them by recursion, print it.  The processes of the machine   *)
(* come and go meanwhile: every stat file is opened by itself, and the     *)
(* stat file of a printed process a second time when its node is made.     *)
(*                                                                         *)
(* Reading one stat file is a step.  A process is its pid; pids are not    *)
(* given out twice while the program runs.  Names matter in two ways only: *)
(* whether they hold a space, and the addresses malloc puts them at.       *)
(***************************************************************************)
EXTENDS Integers, Sequences, FiniteSets, FiniteSetsExt, TLC

CONSTANTS
    Pid,        \* pids, among them 1
    Gone,       \* parent of a pid that no process has
    Roots,      \* pids the user may ask for
    Jobs,       \* what the options ask for, one after the other: "name"
                \* (no option), "n" or "p"
    Spaced,     \* processes with a space in their name
    MaxPids,    \* length of the array pids (3000)
    MaxEvents,  \* bound: births and deaths of processes during a run
    MaxCalls    \* bound: nested calls that fit the program's stack

Lost == -1      \* what getPPID returns when the file cannot be opened

ASSUME PsTreeAssumption ==
    /\ Pid \subseteq Nat \ {0} /\ IsFiniteSet(Pid) /\ 1 \in Pid
    /\ Gone \notin Int
    /\ Roots \subseteq Pid \cup {0}
    /\ Jobs \in Seq({"name", "n", "p"}) /\ Jobs # <<>>
    /\ Spaced \subseteq Pid
    /\ {MaxPids, MaxCalls} \subseteq Nat \ {0} /\ MaxEvents \in Nat

VARIABLES
    parent,     \* the machine: parent[p], 0 for process 1
    used,       \* pids that have been given out
    events,     \* births and deaths so far
    steady,     \* processes that have lived, with one parent, since opendir
    rootPID, todo,
    pc,         \* "open", "read", "build", "print", "done" or "crash"
    why,        \* of a crash: "null", "overflow" or "depth"
    dirents,    \* directory entries that readdir has still to return
    pids,       \* pids[0 .. count-1]
    node,       \* the psNodes made so far: pid, and address of the name
    kids,       \* kids[q]: the list FirstSon, NextSibling, ... of node q
    calls       \* the active calls of ConstructTree: p, pid and next i

machine == <<parent, used, events>>
program == <<rootPID, todo, pc, why, dirents, pids, node, kids, calls>>
vars == <<machine, steady, program>>

Alive == {p \in Pid : parent[p] # Gone}

\* Every process but the first has an older one for a parent.
Init ==
    /\ parent \in [Pid -> Pid \cup {0, Gone}]
    /\ \A p \in Pid : parent[p] = 0 <=> p = 1
    /\ \A p \in Alive \ {1} : parent[p] \in Alive /\ parent[p] < p
    /\ used = Alive /\ events = 0 /\ steady = {}
    /\ rootPID \in Roots /\ todo = Jobs
    /\ pc = "open" /\ why = "none"
    /\ dirents = {} /\ pids = <<>>
    /\ node = <<>> /\ kids = <<>> /\ calls = <<>>

----------------------------------------------------------------------------
\* The machine

Running == pc \notin {"done", "crash"}

Fork(p, q) ==
    /\ Running /\ events < MaxEvents
    /\ p \in Alive /\ q \in Pid \ used
    /\ parent' = [parent EXCEPT ![q] = p]
    /\ used' = used \cup {q}
    /\ events' = events + 1
    /\ UNCHANGED <<steady, program>>

\* A process ends, and its children become those of process 1.
Exit(p) ==
    /\ Running /\ events < MaxEvents
    /\ p \in Alive \ {1}
    /\ parent' = [q \in Pid |-> IF q = p THEN Gone
                                ELSE IF parent[q] = p THEN 1 ELSE parent[q]]
    /\ steady' = {q \in steady \ {p} : parent[q] # p}
    /\ events' = events + 1
    /\ UNCHANGED <<used, program>>

----------------------------------------------------------------------------
\* The program

Mode == Head(todo)

\* (Mutated form: an entry for a process that has a parent.)
ByHandBelowRoot == <<2, 1>>

\* The first entry of pids is put there by hand; readdir will find it again.
ByHand == <<1, 0>>

\* opendir, and the first getdents that fills the buffer of readdir.
Open ==
    /\ pc = "open"
    /\ dirents' = Alive /\ steady' = Alive
    /\ pids' = <<ByHand>>
    /\ pc' = "read"
    /\ UNCHANGED <<machine, rootPID, todo, why, node, kids, calls>>

\* getPPID splits the line at spaces: behind a name with a space it leaves
\* its variable unread, which then holds what an earlier call left there.
Misread == {pids[i][2] : i \in 1 .. Len(pids)} \cup {Lost}

\* (Mutated form: the result of fopen is not looked at.)
ReadUnchecked(p) == {parent[p]}

\* What getPPID may return.
ReadPPID(p) == IF p \notin Alive THEN {Lost}
               ELSE IF p \in Spaced THEN Misread ELSE {parent[p]}

\* (Mutated form: an array one entry too short.)
RoomForOneLess == Len(pids) < MaxPids - 1

\* pids[count] is in the array.
Room == Len(pids) < MaxPids

\* One round of the loop of getPIDs.
Read(p) ==
    /\ pc = "read" /\ p \in dirents
    /\ dirents' = dirents \ {p}
    /\ \/ /\ Room
          /\ \E ppid \in ReadPPID(p) : pids' = Append(pids, <<p, ppid>>)
          /\ UNCHANGED <<pc, why>>
       \/ /\ ~Room
          /\ pc' = "crash" /\ why' = "overflow"
          /\ UNCHANGED pids
    /\ UNCHANGED <<machine, steady, rootPID, todo, node, kids, calls>>

\* (Mutated form: no qsort.)
AsRead(s, stable) == s

\* qsort by pid: the entry that goes to place r is the one that r entries are
\* not behind.  Where two have the same pid, either order may come out.
Sorted(s, stable) ==
    LET UpTo(i) == {j \in 1 .. Len(s) :
                       \/ s[j][1] < s[i][1]
                       \/ s[j][1] = s[i][1] /\ IF stable THEN j <= i ELSE i <= j}
        place == [i \in 1 .. Len(s) |-> Cardinality(UpTo(i))]
    IN  [r \in 1 .. Len(s) |-> s[CHOOSE i \in 1 .. Len(s) : place[i] = r]]

\* malloc may put the name of a new node anywhere; the addresses only matter
\* where names are compared by their addresses.
Addresses == IF Mode = "name"
             THEN 1 .. MaxPids \ {node[q].addr : q \in 1 .. Len(node)}
             ELSE {0}

\* The pids are sorted, the node of the root is made (node 1; node 0 is NULL)
\* and ConstructTree is called on it.
MakeRoot ==
    /\ pc = "read" /\ dirents = {}
    /\ \E stable \in BOOLEAN : pids' = Sorted(pids, stable)
    /\ \/ /\ rootPID \in Alive \cup {0}
          /\ \E a \in Addresses : node' = <<[pid |-> rootPID, addr |-> a]>>
          /\ kids' = <<<<>>>>
       \/ /\ rootPID \notin Alive \cup {0}
          /\ UNCHANGED <<node, kids>>
    /\ calls' = <<[p |-> Len(node'), pid |-> rootPID, i |-> 1]>>
    /\ pc' = "build"
    /\ UNCHANGED <<machine, steady, rootPID, todo, why, dirents>>

\* The comparison in the loop that looks for the place of node q.
Before(s, q, nd) == IF Mode = "name" THEN nd[s].addr < nd[q].addr
                    ELSE nd[s].pid < nd[q].pid

(***************************************************************************)
(* `temp' stops at the first sibling that is not before q, or at the last; *)
(* q becomes its NextSibling, and whatever followed it is cut off.         *)
(***************************************************************************)
Inserted(list, q, nd) ==
    IF list = <<>> THEN <<q>>
    ELSE LET stop == {k \in 1 .. Len(list) :
                         k = Len(list) \/ ~Before(list[k], q, nd)}
         IN  Append(SubSeq(list, 1, Min(stop)), q)

Top == calls[Len(calls)]

\* (Mutated forms: the call never returns; the first child is missed.)
PopNone == calls
MatchesFromNext == {i \in Top.i + 1 .. Len(pids) : pids[i][2] = Top.pid}

Pop == SubSeq(calls, 1, Len(calls) - 1)

\* The children of Top.pid that its loop has still to come to.
Matches == {i \in Top.i .. Len(pids) : pids[i][2] = Top.pid}

\* ConstructTree finds the next child of Top.pid in pids, makes its node, links
\* it and calls itself on it.
Descend ==
    LET i == Min(Matches)
        child == pids[i][1]
        q == Len(node) + 1
    IN  /\ pc = "build" /\ calls # <<>> /\ Matches # {}
        /\ \/ /\ Top.p # 0 /\ child \in Alive /\ Len(calls) < MaxCalls
              /\ \E a \in Addresses :
                    node' = Append(node, [pid |-> child, addr |-> a])
              /\ kids' = Append([kids EXCEPT ![Top.p] = Inserted(@, q, node')],
                                <<>>)
              /\ calls' = Append(Append(Pop, [Top EXCEPT !.i = i + 1]),
                                 [p |-> q, pid |-> child, i |-> 1])
              /\ UNCHANGED <<pc, why>>
           \/ /\ Top.p = 0 \/ child \notin Alive
              /\ pc' = "crash" /\ why' = "null"
              /\ UNCHANGED <<node, kids, calls>>
           \/ /\ Top.p # 0 /\ child \in Alive /\ Len(calls) = MaxCalls
              /\ pc' = "crash" /\ why' = "depth"
              /\ UNCHANGED <<node, kids, calls>>
        /\ UNCHANGED <<machine, steady, rootPID, todo, dirents, pids>>

\* A call of ConstructTree has gone through all of pids.
Ascend ==
    /\ pc = "build" /\ calls # <<>> /\ Matches = {}
    /\ calls' = Pop
    /\ pc' = IF calls' = <<>> THEN "print" ELSE pc
    /\ UNCHANGED <<machine, steady, rootPID, todo, why, dirents, pids, node, kids>>

\* The tree is printed and deleted; the next option follows.
PrintTree ==
    /\ pc = "print"
    /\ node' = <<>> /\ kids' = <<>>
    /\ todo' = Tail(todo)
    /\ pc' = IF todo' = <<>> THEN "done" ELSE "open"
    /\ UNCHANGED <<machine, steady, rootPID, why, dirents, pids, calls>>

Step == Open \/ MakeRoot \/ Descend \/ Ascend \/ PrintTree \/ \E p \in Pid : Read(p)

Next ==
    \/ Step
    \/ \E p \in Pid : Exit(p) \/ \E q \in Pid : Fork(p, q)

Spec == Init /\ [][Next]_vars

\* The program goes on; nobody owes it a birth or a death.
FairSpec == Spec /\ WF_vars(Step)

----------------------------------------------------------------------------

TypeOK ==
    /\ parent \in [Pid -> Pid \cup {0, Gone}]
    /\ used \subseteq Pid /\ steady \subseteq Alive /\ Alive \subseteq used
    /\ events \in 0 .. MaxEvents
    /\ rootPID \in Roots /\ todo \in Seq({"name", "n", "p"})
    /\ pc \in {"open", "read", "build", "print", "done", "crash"}
    /\ why \in {"none", "null", "overflow", "depth"}
    /\ dirents \subseteq Pid
    /\ pids \in Seq(Pid \X (Pid \cup {0, Lost})) /\ Len(pids) <= MaxPids
    /\ node \in Seq([pid : Pid \cup {0}, addr : 0 .. MaxPids])
    /\ Len(kids) = Len(node) /\ kids \in Seq(Seq(1 .. Len(node)))
    /\ calls \in Seq([p : 0 .. Len(node), pid : Pid \cup {0}, i : 1 .. Len(pids) + 1])

\* The nodes that PrintTree and deleteNode reach from the root: those that are
\* in every set that has the root and with a node its children.
Linked ==
    LET Nodes == 1 .. Len(node)
        Closed(S) == /\ 1 \in Nodes => 1 \in S
                     /\ \A p \in S : \A k \in 1 .. Len(kids[p]) : kids[p][k] \in S
    IN  {q \in Nodes : \A S \in SUBSET Nodes : Closed(S) => q \in S}

\* ConstructTree cuts no sibling off: whatever it makes stays in the list of a
\* node it made before, so that all nodes are linked, printed and freed.
NoNodeLost ==
    \A q \in 2 .. Len(node) :
        \E p \in 1 .. q - 1 : \E k \in 1 .. Len(kids[p]) : kids[p][k] = q

\* Processes whose whole line of ancestors up to the root is steady, and has
\* names that can be read: the smallest set with the root and their children.
SteadyBelowRoot ==
    LET Closed(S) == /\ rootPID \in steady \cup {0} => rootPID \in S
                     /\ \A p \in steady \ Spaced : parent[p] \in S => p \in S
    IN  {p \in Pid : \A S \in SUBSET (Pid \cup {0}) : Closed(S) => p \in S}

\* A process that lives all the time, below ancestors that do, is printed,
\* whatever else is born and dies.
SteadyShown ==
    pc = "print" => SteadyBelowRoot \subseteq {node[q].pid : q \in Linked}

\* No process is printed twice, although process 1 is in pids twice.
ShownOnce ==
    pc = "print" => \A q, r \in Linked : node[q].pid = node[r].pid => q = r

\* "numeric-sort" (pstree.c:551): siblings come in the order of their pids.
SiblingsSorted ==
    \A p \in 1 .. Len(kids) : \A j, k \in 1 .. Len(kids[p]) :
        j < k => node[kids[p][j]].pid < node[kids[p][k]].pid

\* The program only crashes over a missing process when one has ended under
\* its hands, only runs past pids when there are as many processes as it has
\* room for, and only recurses for ever over a name with a space.
CrashHasCause ==
    /\ why = "null" => used # Alive
    /\ why = "overflow" => Cardinality(used) >= MaxPids
    /\ why = "depth" => Spaced # {}

\* A vanished process is skipped: "if(!node){ printf("[Log] newnode fail")",
\* (pstree.c:471): NewNode returning NULL is an outcome to live with.
NoNullDereference == why # "null"

Terminates == <>~Running
=============================================================================
