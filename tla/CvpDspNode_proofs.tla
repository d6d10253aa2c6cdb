------------------------- MODULE CvpDspNode_proofs -------------------------
(***************************************************************************)
(* Proofs about CvpDspNode, for any number of processes, names, nodes,     *)
(* sessions and buffers.                                                   *)
(*                                                                         *)
(* TypeOK, with the bounds on the counters of a node, holds in every       *)
(* state.  The other properties are about the behaviours in which          *)
(* pop_frpc_node has not returned a node that it does not own; for these   *)
(* the inductive invariant says who holds a node and with what count       *)
(* (HoldInv), who takes it apart and how far that is (OutInv), and where   *)
(* each session, buffer, name and handle is found.                         *)
(***************************************************************************)
EXTENDS CvpDspNode, FiniteSetTheorems, WellFoundedInduction, TLAPS

InitCmds == {"init", "create"}
SessCmds == {"create", "delete", "use", "map", "unmap"}
BufCmds == {"alloc", "free", "map", "unmap"}
Cmds == {"init", "create", "delete", "use", "alloc", "free", "map", "unmap"}
Ats == {"idle", "register", "driver", "probe", "dequeue", "lookup", "use", "get", "work", "created",
        "close", "unregister"}
\* The thread holds a reference on its node, or at least knows it.
Holding == {"driver", "probe", "work", "created", "close"}
WithNode == Holding \cup {"dequeue"}
\* A remover has popped its node.
RemoverAts == {"idle", "pop", "sess", "close", "bufs", "free"}
Removing == {"sess", "close", "bufs", "free"}

ThrRec == [at : Ats, cmd : Cmds \cup {"none"}, h : Handles \cup {"none"}, n : 0..MaxNodes,
           i : 0..MaxInsts, b : 0..MaxBufs]
NodeRec == [st : {"none", "listed", "out", "freed"}, h : Handles \cup {"none"}, ref : Nat,
            name : Nat, reg : BOOLEAN, dev : BOOLEAN, sess : SUBSET Insts, cnt : Nat,
            bufs : SUBSET Bufs, smem : Nat]
ActRec == [at : RemoverAts, n : 0..MaxNodes, i : 0..MaxInsts]

SetsOK ==
    /\ alive \subseteq Handles /\ gaveUp \subseteq Handles /\ used \subseteq Names
    /\ bad \subseteq {"inst", "stale", "twice", "thread", "probe", "remove"}
    /\ probe \in 0..MaxNodes
InstOK == inst \in [Insts -> {"none", "open", "lost", "closed"}]
BufOK == /\ buf \in [Bufs -> {"none", "mapped", "freed", "leaked"}]
         /\ own \in [Bufs -> {"none", "DSP", "CLIENT"}]
NodeOK == node \in [Nodes -> NodeRec]
ThrOK == thr \in ThrRec
ActOK == act \in [Actors -> ActRec]
Typed == SetsOK /\ InstOK /\ BufOK /\ NodeOK /\ ThrOK /\ ActOK

\* The command of the thread has what is left of it to do.
ThreadInv ==
    /\ thr.at \in WithNode => thr.n \in Nodes
    /\ thr.at \notin WithNode /\ thr.at # "unregister" => thr.n = 0
    /\ thr.at # "idle" => thr.h \in Handles /\ thr.cmd \in Cmds
    /\ thr.at # "idle" /\ thr.cmd \in SessCmds => thr.i \in Insts
    /\ thr.at # "idle" /\ thr.cmd \in BufCmds => thr.b \in Bufs
    /\ thr.at = "idle" => thr.cmd = "none"
    /\ thr.at \in {"register", "driver", "probe", "dequeue", "unregister"} => thr.cmd \in InitCmds
    /\ thr.at = "lookup" => thr.cmd \in SessCmds \ {"create"}
    /\ thr.at = "use" => thr.cmd = "use"
    /\ thr.at = "created" => thr.cmd = "create"
    /\ thr.at = "close" => thr.cmd \in {"create", "delete"}

\* It is the thread that allocates nodes, and that unregisters as "dsp".
RegisterInv ==
    /\ thr.at = "register" => NewNodes # {}
    /\ thr.at = "unregister" <=> act["dsp"].at # "idle"

RemoverInv ==
    \A a \in Actors :
        /\ act[a].at \in Removing => act[a].n \in Nodes
        /\ act[a].at = "close" => act[a].i \in Insts
        /\ act[a].at = "idle" => act[a] = Resting
        /\ act[a].at = "pop" /\ a # "rm" => act[a].n = 0
        /\ a \in alive => act[a].at = "idle"

\* What a command is about to create does not exist yet.
NewThings ==
    /\ thr.cmd = "create" /\ thr.at \notin {"created", "close"} => inst[thr.i] = "none"
    /\ thr.cmd \in {"alloc", "map"} => buf[thr.b] = "none"

Taken == {b \in Bufs : buf[b] # "none"}
One(P) == IF P THEN 1 ELSE 0
Refs(n) == One(thr.n = n /\ thr.at \in Holding) + One(probe = n)

\* Bounds that hold even of a node that was freed under its users.
RefBound == \A n \in Nodes : node[n].ref <= Refs(n)
CountBound ==
    \A n \in Nodes :
        /\ node[n].cnt = Cardinality(node[n].sess)
        /\ \A i \in node[n].sess : inst[i] # "none"
        /\ \A b \in node[n].bufs : buf[b] # "none"
        /\ Cardinality(node[n].bufs) <= node[n].smem
        /\ node[n].smem <= Cardinality(Taken)
        /\ node[n].st = "none" => node[n] = NoNode

\* Only nodes that were allocated are used.
KnownInv ==
    /\ thr.at \in WithNode => node[thr.n].st # "none"
    /\ probe # 0 => node[probe].st # "none"
    /\ \A a \in Actors : act[a].n # 0 => node[act[a].n].st # "none"

\* A session that is being closed was opened.
OpenedInv == \A a \in Actors : act[a].at = "close" => inst[act[a].i] # "none"

Base == Typed /\ ThreadInv /\ RegisterInv /\ RemoverInv /\ NewThings /\ RefBound /\ CountBound
        /\ KnownInv /\ OpenedInv

\* A node with references is listed, and its count is exact.
HoldInv ==
    /\ thr.at \in Holding => node[thr.n].st = "listed"
    /\ probe # 0 => node[probe].st = "listed"
    /\ \A n \in Live : node[n].ref = Refs(n)
    /\ thr.at \in {"driver", "probe", "dequeue"} => node[thr.n].sess = {} /\ node[thr.n].bufs = {}

\* A node that was popped has one remover, which has emptied it as far as it got.
OutInv ==
    /\ \A a \in Actors : act[a].at \in Removing => node[act[a].n].st = "out"
    /\ \A a, b \in Actors :
          act[a].at \in Removing /\ act[b].at \in Removing /\ act[a].n = act[b].n => a = b
    /\ \A n \in Nodes : node[n].st = "out" => \E a \in Actors : act[a].at \in Removing /\ act[a].n = n
    /\ \A a \in Actors : act[a].at \in {"bufs", "free"} => node[act[a].n].sess = {}
    /\ \A a \in Actors : act[a].at = "free" => node[act[a].n].bufs = {}

\* The session was taken out of its list, to be closed.
Closing(i) == thr.at = "close" /\ thr.i = i
ClosingBy(a, i) == act[a].at = "close" /\ act[a].i = i

\* An open session is in one place: in a list, or with who closes it.
SessInv ==
    /\ \A m \in Nodes : \A i \in node[m].sess : node[m].st \in {"listed", "out"} /\ inst[i] = "open"
    /\ \A m, n \in Nodes : \A i \in Insts : i \in node[m].sess /\ i \in node[n].sess => m = n
    /\ \A i \in Insts : Closing(i) => inst[i] = "open" /\ \A n \in Nodes : i \notin node[n].sess
    /\ \A i \in Insts, a \in Actors : ClosingBy(a, i) =>
          inst[i] = "open" /\ ~Closing(i) /\ \A n \in Nodes : i \notin node[n].sess
    /\ \A i \in Insts, a, b \in Actors : ClosingBy(a, i) /\ ClosingBy(b, i) => a = b
    /\ \A i \in Insts : inst[i] = "open" =>
          \/ \E n \in Nodes : i \in node[n].sess
          \/ Closing(i)
          \/ \E a \in Actors : ClosingBy(a, i)
    /\ thr.at = "created" => thr.i \in node[thr.n].sess

BufInv ==
    /\ \A m \in Nodes : \A b \in node[m].bufs : node[m].st \in {"listed", "out"} /\ buf[b] = "mapped"
    /\ \A m, n \in Nodes : \A b \in Bufs : b \in node[m].bufs /\ b \in node[n].bufs => m = n
    /\ \A b \in Bufs : buf[b] = "mapped" => \E n \in Nodes : b \in node[n].bufs
    /\ \A n \in Listed : node[n].smem = Cardinality(node[n].bufs)

NameInv ==
    /\ \A n \in Live : node[n].name \in used
    /\ \A x \in used : \E n \in Live : node[n].name = x
    /\ \A m, n \in Live : node[m].name = node[n].name => m = n

\* A process has one node in the list, and when it is gone and its callback has done
\* its work none with a device.
HandleInv ==
    /\ \A m, n \in Listed : node[m].h = node[n].h => m = n
    /\ \A h \in Handles \ (alive \cup gaveUp) : act[h].at # "pop" =>
          \A n \in WithHandle(h) : ~node[n].dev /\ probe # n

\* Nobody has used a node that was freed, or closed a session twice.
UseInv == bad \subseteq {"inst"}

SaneInv == UseInv /\ HoldInv /\ OutInv /\ SessInv /\ BufInv /\ NameInv /\ HandleInv

NodeInv == Base /\ (Sane => SaneInv)

-----------------------------------------------------------------------------
\* Sets of numbers.

LEMMA MinIn ==
    ASSUME NEW S, S \subseteq Nat, S # {} PROVE Min(S) \in S
<1> DEFINE R == {ss \in Nat \X Nat : ss[1] < ss[2]}
<1>0. IsWellFoundedOn(R, Nat)
  BY NatLessThanWellFounded, Zenon DEF OpToRel
<1> HIDE DEF R
<1>1. PICK x \in S : \A y \in S : ~(<<y, x>> \in R)
  BY WFMin, <1>0
<1>2. \A y \in S : ~(y < x)
  BY <1>1 DEF R
<1>3. \A y \in S : x <= y
  BY <1>2
<1> QED BY <1>3 DEF Min

LEMMA Bounds ==
    /\ MaxNames \in Nat /\ MaxNodes \in Nat /\ MaxInsts \in Nat /\ MaxBufs \in Nat
    /\ Nodes \subseteq Nat /\ Names \subseteq Nat /\ Insts \subseteq Nat /\ Bufs \subseteq Nat
    /\ 0 \notin Nodes /\ Nodes \subseteq 0..MaxNodes /\ Insts \subseteq 0..MaxInsts
    /\ Bufs \subseteq 0..MaxBufs
    /\ Handles \subseteq Actors /\ "rm" \in Actors /\ "dsp" \in Actors
    /\ "rm" \notin Handles /\ "dsp" \notin Handles
<1>1. /\ MaxNames \in Nat /\ MaxNodes \in Nat /\ MaxInsts \in Nat /\ MaxBufs \in Nat
  BY NodeAssumption
<1>2. /\ Nodes \subseteq Nat /\ Names \subseteq Nat /\ Insts \subseteq Nat /\ Bufs \subseteq Nat
      /\ 0 \notin Nodes /\ Nodes \subseteq 0..MaxNodes /\ Insts \subseteq 0..MaxInsts
      /\ Bufs \subseteq 0..MaxBufs
  BY <1>1 DEF Nodes, Names, Insts, Bufs
<1>3. /\ Handles \subseteq Actors /\ "rm" \in Actors /\ "dsp" \in Actors
      /\ "rm" \notin Handles /\ "dsp" \notin Handles
  BY NodeAssumption DEF Actors
<1> QED BY <1>1, <1>2, <1>3

\* Sets of sessions and of buffers are finite.
LEMMA SubsetCard ==
    ASSUME NEW k \in Nat, NEW S, S \subseteq 1..k
    PROVE  IsFiniteSet(S) /\ Cardinality(S) \in Nat /\ Cardinality(S) <= k
<1>1. IsFiniteSet(1..k) /\ Cardinality(1..k) = k
  BY FS_Interval
<1>2. IsFiniteSet(S) /\ Cardinality(S) <= Cardinality(1..k)
  BY <1>1, FS_Subset
<1> QED BY <1>1, <1>2, FS_CardinalityType

LEMMA SessCard ==
    ASSUME NEW S \in SUBSET Insts
    PROVE  IsFiniteSet(S) /\ Cardinality(S) \in 0..MaxInsts
<1>1. MaxInsts \in Nat /\ S \subseteq 1..MaxInsts
  BY Bounds DEF Insts
<1>2. IsFiniteSet(S) /\ Cardinality(S) \in Nat /\ Cardinality(S) <= MaxInsts
  BY <1>1, SubsetCard
<1> QED BY <1>1, <1>2

LEMMA BufCard ==
    ASSUME NEW S \in SUBSET Bufs
    PROVE  IsFiniteSet(S) /\ Cardinality(S) \in 0..MaxBufs
<1>1. MaxBufs \in Nat /\ S \subseteq 1..MaxBufs
  BY Bounds DEF Bufs
<1>2. IsFiniteSet(S) /\ Cardinality(S) \in Nat /\ Cardinality(S) <= MaxBufs
  BY <1>1, SubsetCard
<1> QED BY <1>1, <1>2

LEMMA AddCard ==
    ASSUME NEW S, IsFiniteSet(S), NEW x, x \notin S
    PROVE  Cardinality(S \cup {x}) = Cardinality(S) + 1
  BY FS_AddElement

LEMMA RemoveCard ==
    ASSUME NEW S, IsFiniteSet(S), NEW x \in S
    PROVE  Cardinality(S \ {x}) = Cardinality(S) - 1 /\ Cardinality(S) # 0
<1>1. Cardinality(S \ {x}) = Cardinality(S) - 1
  BY FS_RemoveElement
<1>2. IsFiniteSet(S \ {x})
  BY FS_RemoveElement
<1>3. Cardinality(S \ {x}) \in Nat /\ Cardinality(S) \in Nat
  BY <1>2, FS_CardinalityType
<1> QED BY <1>1, <1>3

\* The invariant implies the type invariant of the model.
LEMMA BaseTypeOK ==
    ASSUME Base PROVE TypeOK
<1>1. ASSUME NEW n \in Nodes
      PROVE  /\ node[n].st \in {"none", "listed", "out", "freed"}
             /\ node[n].ref \in 0..2 /\ node[n].cnt \in 0..MaxInsts /\ node[n].smem \in 0..MaxBufs
             /\ node[n].sess \subseteq Insts /\ node[n].bufs \subseteq Bufs
  <2>1. node[n] \in NodeRec
    BY DEF Base, Typed, NodeOK
  <2>2. node[n].ref \in 0..2
    BY <2>1 DEF Base, RefBound, Refs, One, NodeRec
  <2>3. node[n].cnt \in 0..MaxInsts
    BY <2>1, SessCard DEF Base, CountBound, NodeRec
  <2>4. Cardinality(Taken) \in 0..MaxBufs
    BY BufCard DEF Taken
  <2>5. node[n].smem \in 0..MaxBufs
    BY <2>1, <2>4, Bounds DEF Base, CountBound, NodeRec
  <2> QED BY <2>1, <2>2, <2>3, <2>5 DEF NodeRec
<1>2. probe \in 0..MaxNodes /\ thr.n \in 0..MaxNodes
  BY DEF Base, Typed, SetsOK, ThrOK, ThrRec
<1> QED BY <1>1, <1>2 DEF Base, Typed, SetsOK, InstOK, BufOK, TypeOK

-----------------------------------------------------------------------------
LEMMA InitNode0 == Init => NodeInv
<1> SUFFICES ASSUME Init PROVE NodeInv
  OBVIOUS
<1>0. NoNode \in NodeRec /\ NoNode.ref = 0 /\ NoNode.cnt = 0 /\ NoNode.sess = {} /\ NoNode.bufs = {}
      /\ NoNode.smem = 0 /\ NoNode.st = "none"
  BY DEF NoNode, NodeRec
<1>1. Typed
  BY <1>0, Bounds DEF Init, Typed, SetsOK, InstOK, BufOK, NodeOK, ThrOK, ActOK, Idle, Resting, ThrRec, ActRec, Ats,
     RemoverAts
<1>2. ThreadInv /\ NewThings
  BY DEF Init, ThreadInv, NewThings, Idle, WithNode, Holding
<1>3. RegisterInv /\ RemoverInv
  BY Bounds DEF Init, RegisterInv, RemoverInv, Idle, Resting, Removing
<1>4. RefBound
  BY <1>0 DEF Init, RefBound, Refs, One
<1>5. CountBound
  <2>1. Cardinality(Taken) \in 0..MaxBufs
    BY BufCard DEF Taken
  <2>2. Cardinality({}) = 0
    BY FS_EmptySet
  <2> QED BY <1>0, <2>1, <2>2 DEF Init, CountBound
<1>9. KnownInv /\ OpenedInv
  BY DEF Init, KnownInv, OpenedInv, Idle, WithNode, Holding, Resting
<1>6. HoldInv /\ OutInv /\ UseInv
  BY <1>0 DEF Init, UseInv, HoldInv, OutInv, Idle, Holding, Live, Resting, Removing
<1>7. SessInv /\ BufInv
  BY <1>0 DEF Init, SessInv, BufInv, Idle, Listed, Resting, Closing, ClosingBy
<1>8. NameInv /\ HandleInv
  BY <1>0 DEF Init, NameInv, HandleInv, Listed, Live, WithHandle
<1> QED BY <1>1, <1>2, <1>3, <1>4, <1>5, <1>6, <1>7, <1>8, <1>9 DEF NodeInv, Base, SaneInv

-----------------------------------------------------------------------------
\* What the steps do to a node.

\* Node n becomes r, and the others stay.
NodeSet(n, r) ==
    /\ n \in Nodes /\ r \in NodeRec
    /\ node' \in [Nodes -> NodeRec]
    /\ node'[n] = r
    /\ \A m \in Nodes : m # n => node'[m] = node[m]

Dec(r) == IF r > 0 THEN r - 1 ELSE r

LEMMA SetNode ==
    ASSUME NodeOK, NEW n \in Nodes, NEW r \in NodeRec, node' = [node EXCEPT ![n] = r]
    PROVE  NodeSet(n, r)
  BY DEF NodeOK, NodeSet

LEMMA SetNodeTwice ==
    ASSUME NodeOK, NEW n \in Nodes, NEW nd, NEW r1, NEW r \in NodeRec,
           nd = [node EXCEPT ![n] = r1], node' = [nd EXCEPT ![n] = r]
    PROVE  NodeSet(n, r)
<1>1. node' = [node EXCEPT ![n] = r]
  BY DEF NodeOK
<1> QED BY <1>1, SetNode

LEMMA PutsRef ==
    ASSUME NodeOK, NEW n \in Nodes, node' = PutRef(node, n)
    PROVE  NodeSet(n, [node[n] EXCEPT !.ref = Dec(node[n].ref)])
<1>1. [node[n] EXCEPT !.ref = Dec(node[n].ref)] \in NodeRec
  BY DEF NodeOK, NodeRec, Dec
<1>2. node' = [node EXCEPT ![n] = [node[n] EXCEPT !.ref = Dec(node[n].ref)]]
  BY DEF NodeOK, PutRef, Dec
<1> QED BY <1>1, <1>2, SetNode

LEMMA GetsRef ==
    ASSUME NodeOK, NEW n \in Nodes, node' = GetRef(n)
    PROVE  NodeSet(n, [node[n] EXCEPT !.ref = node[n].ref + 1])
<1>1. [node[n] EXCEPT !.ref = node[n].ref + 1] \in NodeRec
  BY DEF NodeOK, NodeRec
<1>2. node' = [node EXCEPT ![n] = [node[n] EXCEPT !.ref = node[n].ref + 1]]
  BY DEF NodeOK, GetRef
<1> QED BY <1>1, <1>2, SetNode

LEMMA RegSet ==
    ASSUME NodeOK, NEW n \in Nodes, node' = [node EXCEPT ![n].reg = TRUE]
    PROVE  NodeSet(n, [node[n] EXCEPT !.reg = TRUE])
<1>1. [node[n] EXCEPT !.reg = TRUE] \in NodeRec
  BY DEF NodeOK, NodeRec
<1>2. node' = [node EXCEPT ![n] = [node[n] EXCEPT !.reg = TRUE]]
  BY DEF NodeOK
<1> QED BY <1>1, <1>2, SetNode

LEMMA DevSet ==
    ASSUME NodeOK, NEW n \in Nodes, node' = PutRef([node EXCEPT ![n].dev = TRUE], n)
    PROVE  NodeSet(n, [node[n] EXCEPT !.dev = TRUE, !.ref = Dec(node[n].ref)])
<1>0. node[n] \in NodeRec
  BY DEF NodeOK
<1>1. [node[n] EXCEPT !.dev = TRUE, !.ref = Dec(node[n].ref)] \in NodeRec
  <2>1. Dec(node[n].ref) \in Nat
    BY <1>0 DEF NodeRec, Dec
  <2> QED BY <1>0, <2>1 DEF NodeRec
<1> DEFINE r1 == [node[n] EXCEPT !.dev = TRUE]
           nd == [node EXCEPT ![n] = r1]
<1>2. [node EXCEPT ![n].dev = TRUE] = nd
  BY DEF NodeOK
<1>3. nd[n] = r1
  BY DEF NodeOK
<1>4. r1.ref = node[n].ref /\ [r1 EXCEPT !.ref = Dec(node[n].ref)] = [node[n] EXCEPT !.dev = TRUE, !.ref = Dec(node[n].ref)]
  BY <1>0 DEF NodeRec
<1>5. PutRef(nd, n) = [nd EXCEPT ![n] = [nd[n] EXCEPT !.ref = Dec(nd[n].ref)]]
  BY DEF PutRef, Dec, NodeOK
<1>6. node' = [nd EXCEPT ![n] = [node[n] EXCEPT !.dev = TRUE, !.ref = Dec(node[n].ref)]]
  BY <1>2, <1>3, <1>4, <1>5
<1> QED BY <1>1, <1>6, SetNodeTwice

LEMMA Enlists ==
    ASSUME NodeOK, NEW n \in Nodes, NEW i \in Insts,
           node' = [node EXCEPT ![n].sess = @ \cup {i}, ![n].cnt = @ + 1]
    PROVE  NodeSet(n, [node[n] EXCEPT !.sess = node[n].sess \cup {i}, !.cnt = node[n].cnt + 1])
<1>0. node[n] \in NodeRec
  BY DEF NodeOK
<1>1. [node[n] EXCEPT !.sess = node[n].sess \cup {i}, !.cnt = node[n].cnt + 1] \in NodeRec
  <2>1. node[n].sess \cup {i} \in SUBSET Insts /\ node[n].cnt + 1 \in Nat
    BY <1>0 DEF NodeRec
  <2> QED BY <1>0, <2>1 DEF NodeRec
<1> DEFINE r1 == [node[n] EXCEPT !.sess = node[n].sess \cup {i}]
           nd == [node EXCEPT ![n] = r1]
<1>2. [node EXCEPT ![n].sess = @ \cup {i}] = nd
  BY DEF NodeOK
<1>3. nd[n] = r1
  BY DEF NodeOK
<1>4. [r1 EXCEPT !.cnt = r1.cnt + 1]
        = [node[n] EXCEPT !.sess = node[n].sess \cup {i}, !.cnt = node[n].cnt + 1]
  BY <1>0 DEF NodeRec
<1>5. node' = [nd EXCEPT ![n] = [r1 EXCEPT !.cnt = r1.cnt + 1]]
  BY <1>2, <1>3 DEF NodeOK
<1>6. node' = [nd EXCEPT ![n] = [node[n] EXCEPT !.sess = node[n].sess \cup {i}, !.cnt = node[n].cnt + 1]]
  BY <1>4, <1>5
<1> QED BY <1>1, <1>6, SetNodeTwice

LEMMA Delists ==
    ASSUME NodeOK, CountBound, NEW n \in Nodes, NEW i \in node[n].sess, node' = Delist(n, i)
    PROVE  NodeSet(n, [node[n] EXCEPT !.sess = node[n].sess \ {i}, !.cnt = node[n].cnt - 1])
<1>0. node[n] \in NodeRec
  BY DEF NodeOK
<1>1. node[n].cnt - 1 \in Nat
  <2>1. IsFiniteSet(node[n].sess) /\ Cardinality(node[n].sess) \in Nat
    BY <1>0, SessCard DEF NodeRec
  <2>2. Cardinality(node[n].sess) # 0
    BY <2>1, RemoveCard
  <2> QED BY <2>1, <2>2 DEF CountBound
<1>2. [node[n] EXCEPT !.sess = node[n].sess \ {i}, !.cnt = node[n].cnt - 1] \in NodeRec
  BY <1>0, <1>1 DEF NodeRec
<1>3. node' = [node EXCEPT ![n] = [node[n] EXCEPT !.sess = node[n].sess \ {i}, !.cnt = node[n].cnt - 1]]
  BY <1>0 DEF NodeOK, NodeRec, Delist
<1> QED BY <1>2, <1>3, SetNode

LEMMA AddsBuf ==
    ASSUME NodeOK, NEW n \in Nodes, NEW b \in Bufs,
           node' = PutRef([node EXCEPT ![n].bufs = @ \cup {b}, ![n].smem = @ + 1], n)
    PROVE  NodeSet(n, [node[n] EXCEPT !.bufs = node[n].bufs \cup {b}, !.smem = node[n].smem + 1,
                                      !.ref = Dec(node[n].ref)])
<1> DEFINE r == [node[n] EXCEPT !.bufs = node[n].bufs \cup {b}, !.smem = node[n].smem + 1,
                                !.ref = Dec(node[n].ref)]
<1>0. node[n] \in NodeRec
  BY DEF NodeOK
<1>1. r \in NodeRec
  <2>1. node[n].bufs \cup {b} \in SUBSET Bufs /\ node[n].smem + 1 \in Nat /\ Dec(node[n].ref) \in Nat
    BY <1>0 DEF NodeRec, Dec
  <2> QED BY <1>0, <2>1 DEF NodeRec
<1> DEFINE r1 == [node[n] EXCEPT !.bufs = node[n].bufs \cup {b}]
           r2 == [r1 EXCEPT !.smem = r1.smem + 1]
           nd == [node EXCEPT ![n] = r2]
<1>2. [node EXCEPT ![n].bufs = @ \cup {b}] = [node EXCEPT ![n] = r1]
  BY DEF NodeOK
<1>3. [node EXCEPT ![n].bufs = @ \cup {b}, ![n].smem = @ + 1] = nd
  <2> DEFINE n1 == [node EXCEPT ![n] = r1]
  <2>1. n1[n] = r1 /\ [n1 EXCEPT ![n].smem = @ + 1] = [n1 EXCEPT ![n] = [n1[n] EXCEPT !.smem = n1[n].smem + 1]]
    BY DEF NodeOK
  <2>2. [n1 EXCEPT ![n] = r2] = [node EXCEPT ![n] = r2]
    <3> HIDE DEF r1, r2
    <3> QED BY DEF NodeOK
  <2> QED BY <1>2, <2>1, <2>2
<1>4. nd[n] = r2
  BY DEF NodeOK
<1>5. r2.ref = node[n].ref /\ [r2 EXCEPT !.ref = Dec(node[n].ref)] = r
  BY <1>0 DEF NodeRec
<1>6. PutRef(nd, n) = [nd EXCEPT ![n] = [nd[n] EXCEPT !.ref = Dec(nd[n].ref)]]
  <2> HIDE DEF r2
  <2> QED BY DEF PutRef, Dec, NodeOK
<1> HIDE DEF r, r1, r2
<1>7. node' = [nd EXCEPT ![n] = r]
  BY <1>3, <1>4, <1>5, <1>6
<1>8. NodeSet(n, r)
  BY <1>1, <1>7, SetNodeTwice
<1> QED BY <1>8 DEF r

LEMMA DropsBuf ==
    ASSUME NodeOK, CountBound, NEW n \in Nodes, NEW b \in node[n].bufs,
           node' = PutRef([node EXCEPT ![n].bufs = @ \ {b}, ![n].smem = @ - 1], n)
    PROVE  NodeSet(n, [node[n] EXCEPT !.bufs = node[n].bufs \ {b}, !.smem = node[n].smem - 1,
                                      !.ref = Dec(node[n].ref)])
<1> DEFINE r == [node[n] EXCEPT !.bufs = node[n].bufs \ {b}, !.smem = node[n].smem - 1,
                                !.ref = Dec(node[n].ref)]
<1>0. node[n] \in NodeRec
  BY DEF NodeOK
<1>1. node[n].smem - 1 \in Nat
  <2>1. IsFiniteSet(node[n].bufs) /\ Cardinality(node[n].bufs) \in Nat
    BY <1>0, BufCard DEF NodeRec
  <2>2. Cardinality(node[n].bufs) # 0
    BY <2>1, RemoveCard
  <2>3. node[n].smem \in Nat
    BY <1>0 DEF NodeRec
  <2> QED BY <2>1, <2>2, <2>3 DEF CountBound
<1>2. r \in NodeRec
  <2>1. node[n].bufs \ {b} \in SUBSET Bufs /\ Dec(node[n].ref) \in Nat
    BY <1>0 DEF NodeRec, Dec
  <2> QED BY <1>0, <1>1, <2>1 DEF NodeRec
<1> DEFINE r1 == [node[n] EXCEPT !.bufs = node[n].bufs \ {b}]
           r2 == [r1 EXCEPT !.smem = r1.smem - 1]
           nd == [node EXCEPT ![n] = r2]
<1>3. [node EXCEPT ![n].bufs = @ \ {b}] = [node EXCEPT ![n] = r1]
  BY DEF NodeOK
<1>4. [node EXCEPT ![n].bufs = @ \ {b}, ![n].smem = @ - 1] = nd
  <2> DEFINE n1 == [node EXCEPT ![n] = r1]
  <2>1. n1[n] = r1 /\ [n1 EXCEPT ![n].smem = @ - 1] = [n1 EXCEPT ![n] = [n1[n] EXCEPT !.smem = n1[n].smem - 1]]
    BY DEF NodeOK
  <2>2. [n1 EXCEPT ![n] = r2] = [node EXCEPT ![n] = r2]
    <3> HIDE DEF r1, r2
    <3> QED BY DEF NodeOK
  <2> QED BY <1>3, <2>1, <2>2
<1>5. nd[n] = r2
  BY DEF NodeOK
<1>6. r2.ref = node[n].ref /\ [r2 EXCEPT !.ref = Dec(node[n].ref)] = r
  BY <1>0 DEF NodeRec
<1>7. PutRef(nd, n) = [nd EXCEPT ![n] = [nd[n] EXCEPT !.ref = Dec(nd[n].ref)]]
  <2> HIDE DEF r2
  <2> QED BY DEF PutRef, Dec, NodeOK
<1> HIDE DEF r, r1, r2
<1>8. node' = [nd EXCEPT ![n] = r]
  BY <1>4, <1>5, <1>6, <1>7
<1>9. NodeSet(n, r)
  BY <1>2, <1>8, SetNodeTwice
<1> QED BY <1>9 DEF r

LEMMA ClientsCard ==
    ASSUME Base, NEW n \in Nodes
    PROVE  node[n].smem - Cardinality(Clients(n)) \in Nat
<1>0. node[n] \in NodeRec
  BY DEF Base, Typed, NodeOK
<1>1. IsFiniteSet(node[n].bufs) /\ Cardinality(node[n].bufs) \in Nat
  BY <1>0, BufCard DEF NodeRec
<1>2. Clients(n) \subseteq node[n].bufs
  BY DEF Clients
<1>3. Cardinality(Clients(n)) <= Cardinality(node[n].bufs) /\ IsFiniteSet(Clients(n))
  BY <1>1, <1>2, FS_Subset
<1>4. Cardinality(Clients(n)) \in Nat
  BY <1>3, FS_CardinalityType
<1>5. Cardinality(node[n].bufs) <= node[n].smem /\ node[n].smem \in Nat
  BY <1>0 DEF Base, CountBound, NodeRec
<1> QED BY <1>1, <1>3, <1>4, <1>5

\* What is left of smem_count when the buffers of a node were removed.
SmemLeft(a, n) == IF a = "rm" THEN node[n].smem ELSE node[n].smem - Cardinality(Clients(n))

LEMMA EmptiesBufs ==
    ASSUME Base, NEW n \in Nodes, NEW a,
           node' = [node EXCEPT ![n].bufs = {},
                                ![n].smem = IF a = "rm" THEN @ ELSE @ - Cardinality(Clients(n))]
    PROVE  /\ NodeSet(n, [node[n] EXCEPT !.bufs = {}, !.smem = SmemLeft(a, n)])
           /\ SmemLeft(a, n) \in Nat /\ SmemLeft(a, n) <= node[n].smem
<1> DEFINE r == [node[n] EXCEPT !.bufs = {}, !.smem = SmemLeft(a, n)]
<1>0. node[n] \in NodeRec /\ NodeOK
  BY DEF Base, Typed, NodeOK
<1>1. SmemLeft(a, n) \in Nat /\ SmemLeft(a, n) <= node[n].smem
  <2>1. node[n].smem \in Nat
    BY <1>0 DEF NodeRec
  <2>2. Cardinality(Clients(n)) \in Nat
    <3>1. Clients(n) \in SUBSET Bufs
      BY <1>0 DEF Clients, NodeRec
    <3> QED BY <3>1, BufCard
  <2> QED BY <2>1, <2>2, ClientsCard DEF SmemLeft
<1>2. r \in NodeRec
  BY <1>0, <1>1 DEF NodeRec
<1>3. node' = [node EXCEPT ![n] = r]
  BY <1>0 DEF NodeOK, NodeRec, SmemLeft
<1> HIDE DEF r
<1>4. NodeSet(n, r)
  BY <1>0, <1>2, <1>3, SetNode
<1> QED BY <1>1, <1>4 DEF r

LEMMA Frees ==
    ASSUME NodeOK, NEW n \in Nodes, node' = [node EXCEPT ![n] = Freed(n)]
    PROVE  NodeSet(n, Freed(n))
<1>1. Freed(n) \in NodeRec
  BY DEF NodeOK, NodeRec, Freed, NoNode
<1> QED BY <1>1, SetNode

LEMMA PopsOut ==
    ASSUME NodeOK, NEW n \in Nodes, node' = [node EXCEPT ![n].st = "out"]
    PROVE  NodeSet(n, [node[n] EXCEPT !.st = "out"])
<1>1. [node[n] EXCEPT !.st = "out"] \in NodeRec
  BY DEF NodeOK, NodeRec
<1>2. node' = [node EXCEPT ![n] = [node[n] EXCEPT !.st = "out"]]
  BY DEF NodeOK
<1> QED BY <1>1, <1>2, SetNode

\* A new node of process h, with a name.
NewNode(h, name) == [NoNode EXCEPT !.st = "listed", !.h = h, !.ref = 1, !.name = name]

LEMMA Registers ==
    ASSUME NodeOK, NEW n \in Nodes, NEW h \in Handles, NEW name \in Names,
           node' = [node EXCEPT ![n] = NewNode(h, name)]
    PROVE  NodeSet(n, NewNode(h, name))
<1>1. NewNode(h, name) \in NodeRec
  BY Bounds DEF NodeRec, NewNode, NoNode
<1> QED BY <1>1, SetNode

-----------------------------------------------------------------------------
\* The effects of the steps, field by field.

KeepSess == \A m \in Nodes : node'[m].sess = node[m].sess /\ node'[m].cnt = node[m].cnt
KeepBufs == \A m \in Nodes : node'[m].bufs = node[m].bufs /\ node'[m].smem = node[m].smem
KeepSt == \A m \in Nodes : node'[m].st = node[m].st
KeepId == \A m \in Nodes : node'[m].h = node[m].h /\ node'[m].name = node[m].name
KeepDev == \A m \in Nodes : node'[m].dev = node[m].dev
KeepRef == \A m \in Nodes : node'[m].ref = node[m].ref
\* A node that was never allocated stays as it is, or is not such a node any more.
KeepNone == \A m \in Nodes : node'[m].st = "none" => node'[m] = node[m]
OtherRefs(n) == \A m \in Nodes : m # n => node'[m].ref = node[m].ref

NodesStay == NodeOK' /\ KeepSess /\ KeepBufs /\ KeepSt /\ KeepId /\ KeepDev /\ KeepRef /\ KeepNone
RefTo(n, r) ==
    /\ NodeOK' /\ KeepSess /\ KeepBufs /\ KeepSt /\ KeepId
    /\ OtherRefs(n) /\ node'[n].ref = r

LEMMA NodeUnchanged ==
    ASSUME NodeOK, UNCHANGED node PROVE NodesStay /\ node' = node
  BY DEF NodesStay, NodeOK, KeepSess, KeepBufs, KeepSt, KeepId, KeepDev, KeepRef, KeepNone

LEMMA PutEffect ==
    ASSUME NodeOK, NEW n \in Nodes, node' = PutRef(node, n)
    PROVE  /\ RefTo(n, Dec(node[n].ref)) /\ KeepDev
           /\ \A m \in Nodes : m # n => node'[m] = node[m]
<1>1. NodeSet(n, [node[n] EXCEPT !.ref = Dec(node[n].ref)]) /\ node[n] \in NodeRec
  BY PutsRef DEF NodeOK
<1> QED
  BY <1>1 DEF RefTo, NodeOK, NodeSet, NodeRec, KeepSess, KeepBufs, KeepSt, KeepId, KeepDev, OtherRefs

LEMMA GetEffect ==
    ASSUME NodeOK, NEW n \in Nodes, node' = GetRef(n)
    PROVE  /\ RefTo(n, node[n].ref + 1) /\ KeepDev
           /\ \A m \in Nodes : m # n => node'[m] = node[m]
<1>1. NodeSet(n, [node[n] EXCEPT !.ref = node[n].ref + 1]) /\ node[n] \in NodeRec
  BY GetsRef DEF NodeOK
<1> QED
  BY <1>1 DEF RefTo, NodeOK, NodeSet, NodeRec, KeepSess, KeepBufs, KeepSt, KeepId, KeepDev, OtherRefs

LEMMA RegEffect ==
    ASSUME NodeOK, NEW n \in Nodes, node[n].st # "none", node' = [node EXCEPT ![n].reg = TRUE]
    PROVE  NodesStay
<1>1. NodeSet(n, [node[n] EXCEPT !.reg = TRUE]) /\ node[n] \in NodeRec
  BY RegSet DEF NodeOK
<1> QED
  BY <1>1 DEF NodesStay, NodeOK, NodeSet, NodeRec, KeepSess, KeepBufs, KeepSt, KeepId, KeepDev, KeepRef, KeepNone

LEMMA DevEffect ==
    ASSUME NodeOK, NEW n \in Nodes, node' = PutRef([node EXCEPT ![n].dev = TRUE], n)
    PROVE  /\ RefTo(n, Dec(node[n].ref))
           /\ \A m \in Nodes : m # n => node'[m] = node[m]
<1> DEFINE d == Dec(node[n].ref)
<1>1. NodeSet(n, [node[n] EXCEPT !.dev = TRUE, !.ref = d]) /\ node[n] \in NodeRec
  BY DevSet DEF NodeOK
<1> HIDE DEF d
<1> DEFINE q == [node[n] EXCEPT !.dev = TRUE, !.ref = d]
<1>2. q.st = node[n].st /\ q.h = node[n].h /\ q.ref = d /\ q.name = node[n].name
      /\ q.dev = TRUE /\ q.sess = node[n].sess /\ q.cnt = node[n].cnt /\ q.bufs = node[n].bufs
      /\ q.smem = node[n].smem
  BY <1>1 DEF NodeRec
<1>3. NodeSet(n, q)
  BY <1>1
<1> HIDE DEF q
<1>4. RefTo(n, d) /\ \A m \in Nodes : m # n => node'[m] = node[m]
  BY <1>2, <1>3 DEF RefTo, NodeOK, NodeSet, KeepSess, KeepBufs, KeepSt, KeepId, OtherRefs
<1> QED
  BY <1>4 DEF d

\* A change of the list of sessions.
SessTo(n, S, c) ==
    /\ NodeOK' /\ KeepBufs /\ KeepSt /\ KeepId /\ KeepDev /\ KeepRef
    /\ n \in Nodes /\ node'[n].sess = S /\ node'[n].cnt = c
    /\ \A m \in Nodes : m # n => node'[m] = node[m]

LEMMA EnlistEffect ==
    ASSUME NodeOK, NEW n \in Nodes, NEW i \in Insts,
           node' = [node EXCEPT ![n].sess = @ \cup {i}, ![n].cnt = @ + 1]
    PROVE  SessTo(n, node[n].sess \cup {i}, node[n].cnt + 1)
<1>1. /\ NodeSet(n, [node[n] EXCEPT !.sess = node[n].sess \cup {i}, !.cnt = node[n].cnt + 1])
      /\ node[n] \in NodeRec
  BY Enlists DEF NodeOK
<1> DEFINE S == node[n].sess \cup {i}
           c == node[n].cnt + 1
<1>2. NodeSet(n, [node[n] EXCEPT !.sess = S, !.cnt = c])
  BY <1>1
<1> HIDE DEF S, c
<1> DEFINE q == [node[n] EXCEPT !.sess = S, !.cnt = c]
<1>3. q.st = node[n].st /\ q.h = node[n].h /\ q.ref = node[n].ref /\ q.name = node[n].name
      /\ q.dev = node[n].dev /\ q.sess = S /\ q.cnt = c /\ q.bufs = node[n].bufs
      /\ q.smem = node[n].smem
  BY <1>1 DEF NodeRec
<1>4. NodeSet(n, q)
  BY <1>2
<1> HIDE DEF q
<1>5. SessTo(n, S, c)
  BY <1>3, <1>4 DEF SessTo, NodeOK, NodeSet, KeepBufs, KeepSt, KeepId, KeepDev, KeepRef
<1> QED
  BY <1>5 DEF S, c

LEMMA DelistEffect ==
    ASSUME NodeOK, CountBound, NEW n \in Nodes, NEW i \in node[n].sess, node' = Delist(n, i)
    PROVE  SessTo(n, node[n].sess \ {i}, node[n].cnt - 1)
<1>1. /\ NodeSet(n, [node[n] EXCEPT !.sess = node[n].sess \ {i}, !.cnt = node[n].cnt - 1])
      /\ node[n] \in NodeRec
  BY Delists DEF NodeOK
<1> DEFINE S == node[n].sess \ {i}
           c == node[n].cnt - 1
<1>2. NodeSet(n, [node[n] EXCEPT !.sess = S, !.cnt = c])
  BY <1>1
<1> HIDE DEF S, c
<1> DEFINE q == [node[n] EXCEPT !.sess = S, !.cnt = c]
<1>3. q.st = node[n].st /\ q.h = node[n].h /\ q.ref = node[n].ref /\ q.name = node[n].name
      /\ q.dev = node[n].dev /\ q.sess = S /\ q.cnt = c /\ q.bufs = node[n].bufs
      /\ q.smem = node[n].smem
  BY <1>1 DEF NodeRec
<1>4. NodeSet(n, q)
  BY <1>2
<1> HIDE DEF q
<1>5. SessTo(n, S, c)
  BY <1>3, <1>4 DEF SessTo, NodeOK, NodeSet, KeepBufs, KeepSt, KeepId, KeepDev, KeepRef
<1> QED
  BY <1>5 DEF S, c

\* A change of the list of buffers.
BufsTo(n, S, c) ==
    /\ NodeOK' /\ KeepSess /\ KeepSt /\ KeepId /\ KeepDev
    /\ n \in Nodes /\ node'[n].bufs = S /\ node'[n].smem = c
    /\ \A m \in Nodes : m # n => node'[m] = node[m]

LEMMA AddBufEffect ==
    ASSUME NodeOK, NEW n \in Nodes, NEW b \in Bufs,
           node' = PutRef([node EXCEPT ![n].bufs = @ \cup {b}, ![n].smem = @ + 1], n)
    PROVE  BufsTo(n, node[n].bufs \cup {b}, node[n].smem + 1) /\ node'[n].ref = Dec(node[n].ref)
<1> DEFINE S == node[n].bufs \cup {b}
           c == node[n].smem + 1
           d == Dec(node[n].ref)
<1>1. NodeSet(n, [node[n] EXCEPT !.bufs = S, !.smem = c, !.ref = d]) /\ node[n] \in NodeRec
  BY AddsBuf DEF NodeOK
<1> HIDE DEF S, c, d
<1> DEFINE q == [node[n] EXCEPT !.bufs = S, !.smem = c, !.ref = d]
<1>2. q.st = node[n].st /\ q.h = node[n].h /\ q.ref = d /\ q.name = node[n].name
      /\ q.dev = node[n].dev /\ q.sess = node[n].sess /\ q.cnt = node[n].cnt /\ q.bufs = S
      /\ q.smem = c
  BY <1>1 DEF NodeRec
<1>3. NodeSet(n, q)
  BY <1>1
<1> HIDE DEF q
<1>4. BufsTo(n, S, c) /\ node'[n].ref = d
  BY <1>2, <1>3 DEF BufsTo, NodeOK, NodeSet, KeepSess, KeepSt, KeepId, KeepDev
<1> QED
  BY <1>4 DEF S, c, d

LEMMA DropBufEffect ==
    ASSUME NodeOK, CountBound, NEW n \in Nodes, NEW b \in node[n].bufs,
           node' = PutRef([node EXCEPT ![n].bufs = @ \ {b}, ![n].smem = @ - 1], n)
    PROVE  BufsTo(n, node[n].bufs \ {b}, node[n].smem - 1) /\ node'[n].ref = Dec(node[n].ref)
<1> DEFINE S == node[n].bufs \ {b}
           c == node[n].smem - 1
           d == Dec(node[n].ref)
<1>1. NodeSet(n, [node[n] EXCEPT !.bufs = S, !.smem = c, !.ref = d]) /\ node[n] \in NodeRec
  BY DropsBuf DEF NodeOK
<1> HIDE DEF S, c, d
<1> DEFINE q == [node[n] EXCEPT !.bufs = S, !.smem = c, !.ref = d]
<1>2. q.st = node[n].st /\ q.h = node[n].h /\ q.ref = d /\ q.name = node[n].name
      /\ q.dev = node[n].dev /\ q.sess = node[n].sess /\ q.cnt = node[n].cnt /\ q.bufs = S
      /\ q.smem = c
  BY <1>1 DEF NodeRec
<1>3. NodeSet(n, q)
  BY <1>1
<1> HIDE DEF q
<1>4. BufsTo(n, S, c) /\ node'[n].ref = d
  BY <1>2, <1>3 DEF BufsTo, NodeOK, NodeSet, KeepSess, KeepSt, KeepId, KeepDev
<1> QED
  BY <1>4 DEF S, c, d

LEMMA EmptyBufsEffect ==
    ASSUME Base, NEW n \in Nodes, NEW a,
           node' = [node EXCEPT ![n].bufs = {},
                                ![n].smem = IF a = "rm" THEN @ ELSE @ - Cardinality(Clients(n))]
    PROVE  /\ BufsTo(n, {}, SmemLeft(a, n)) /\ KeepRef
           /\ SmemLeft(a, n) \in Nat /\ SmemLeft(a, n) <= node[n].smem
<1>1. /\ NodeSet(n, [node[n] EXCEPT !.bufs = {}, !.smem = SmemLeft(a, n)])
      /\ node[n] \in NodeRec /\ NodeOK
      /\ SmemLeft(a, n) \in Nat /\ SmemLeft(a, n) <= node[n].smem
  BY EmptiesBufs DEF Base, Typed, NodeOK
<1> QED
  BY <1>1 DEF BufsTo, NodeOK, NodeSet, NodeRec, KeepSess, KeepSt, KeepId, KeepDev, KeepRef

LEMMA OutEffect ==
    ASSUME NodeOK, NEW n \in Nodes, node' = [node EXCEPT ![n].st = "out"]
    PROVE  /\ NodeOK' /\ KeepSess /\ KeepBufs /\ KeepId /\ KeepDev /\ KeepRef
           /\ node'[n].st = "out" /\ \A m \in Nodes : m # n => node'[m] = node[m]
<1>1. NodeSet(n, [node[n] EXCEPT !.st = "out"]) /\ node[n] \in NodeRec
  BY PopsOut DEF NodeOK
<1> QED
  BY <1>1 DEF NodeOK, NodeSet, NodeRec, KeepSess, KeepBufs, KeepId, KeepDev, KeepRef

LEMMA FreeEffect ==
    ASSUME NodeOK, NEW n \in Nodes, node' = [node EXCEPT ![n] = Freed(n)]
    PROVE  /\ NodeOK' /\ \A m \in Nodes : m # n => node'[m] = node[m]
           /\ node'[n].st = "freed" /\ node'[n].ref = 0 /\ node'[n].sess = {} /\ node'[n].cnt = 0
           /\ node'[n].bufs = {} /\ node'[n].smem = 0 /\ node'[n].h = node[n].h
<1>1. NodeSet(n, Freed(n))
  BY Frees
<1> QED
  BY <1>1 DEF NodeOK, NodeSet, Freed, NoNode

LEMMA RegisterEffect ==
    ASSUME NodeOK, NEW n \in Nodes, NEW h \in Handles, NEW name \in Names,
           node' = [node EXCEPT ![n] = [NoNode EXCEPT !.st = "listed", !.h = h, !.ref = 1, !.name = name]]
    PROVE  /\ NodeOK' /\ \A m \in Nodes : m # n => node'[m] = node[m]
           /\ node'[n].st = "listed" /\ node'[n].ref = 1 /\ node'[n].sess = {} /\ node'[n].cnt = 0
           /\ node'[n].bufs = {} /\ node'[n].smem = 0 /\ node'[n].h = h /\ node'[n].name = name
           /\ ~node'[n].dev
<1>1. NodeSet(n, NewNode(h, name))
  BY Registers DEF NewNode
<1> QED
  BY <1>1 DEF NodeOK, NodeSet, NewNode, NoNode

\* The thread moves on, with or without its node.
ThrTo(at, n) ==
    /\ ThrOK'
    /\ thr'.at = at /\ thr'.n = n /\ thr'.cmd = thr.cmd /\ thr'.h = thr.h /\ thr'.i = thr.i
    /\ thr'.b = thr.b
ThrIdle ==
    /\ ThrOK'
    /\ thr'.at = "idle" /\ thr'.n = 0 /\ thr'.cmd = "none"

LEMMA ThrGoes ==
    ASSUME ThrOK, NEW at \in Ats
    PROVE  /\ thr' = [thr EXCEPT !.at = at] => ThrTo(at, thr.n)
           /\ \A n \in 0..MaxNodes : thr' = [thr EXCEPT !.at = at, !.n = n] => ThrTo(at, n)
  BY DEF ThrOK, ThrRec, ThrTo

LEMMA ThrFinishes ==
    ASSUME Finish PROVE ThrIdle
  BY Bounds DEF Finish, ThrIdle, ThrOK, ThrRec, Idle, Ats

-----------------------------------------------------------------------------
\* What keeps each part of the invariant.

LEMMA RemoverFrame ==
    ASSUME RemoverInv, act' = act, alive' = alive PROVE RemoverInv'
  BY DEF RemoverInv

LEMMA CountFrame ==
    ASSUME CountBound, KeepSess, KeepBufs, KeepNone, NodeOK, NodeOK',
           \A i \in Insts : inst[i] # "none" => inst'[i] # "none", buf' = buf
    PROVE  CountBound'
<1>1. Taken' = Taken
  BY DEF Taken
<1> SUFFICES ASSUME NEW n \in Nodes
             PROVE  /\ node'[n].cnt = Cardinality(node'[n].sess)
                    /\ \A i \in node'[n].sess : inst'[i] # "none"
                    /\ \A b \in node'[n].bufs : buf'[b] # "none"
                    /\ Cardinality(node'[n].bufs) <= node'[n].smem
                    /\ node'[n].smem <= Cardinality(Taken)'
                    /\ node'[n].st = "none" => node'[n] = NoNode
  BY DEF CountBound
<1>2. /\ node'[n].sess = node[n].sess /\ node'[n].cnt = node[n].cnt
      /\ node'[n].bufs = node[n].bufs /\ node'[n].smem = node[n].smem
      /\ node'[n].st = "none" => node'[n] = node[n]
  BY DEF KeepSess, KeepBufs, KeepNone
<1>3. node[n].sess \subseteq Insts
  BY DEF NodeOK, NodeRec
<1> QED BY <1>1, <1>2, <1>3 DEF CountBound

\* A session leaves the list of a node, and the count with it.
LEMMA DelistCount ==
    ASSUME CountBound, NodeOK, NEW n \in Nodes, NEW i \in node[n].sess,
           SessTo(n, node[n].sess \ {i}, node[n].cnt - 1), node[n].st # "none",
           inst' = inst, buf' = buf
    PROVE  CountBound'
<1>1. Taken' = Taken
  BY DEF Taken
<1>2. ASSUME NEW m \in Nodes
      PROVE  /\ node'[m].cnt = Cardinality(node'[m].sess)
             /\ \A j \in node'[m].sess : inst'[j] # "none"
  <2>1. CASE m = n
    <3>1. Cardinality(node[n].sess \ {i}) = Cardinality(node[n].sess) - 1
      <4>1. node[n].sess \in SUBSET Insts
        BY DEF NodeOK, NodeRec
      <4>2. IsFiniteSet(node[n].sess)
        BY <4>1, SessCard
      <4> QED BY <4>2, RemoveCard
    <3> QED BY <2>1, <3>1 DEF CountBound, SessTo
  <2>2. CASE m # n
    BY <2>2 DEF CountBound, SessTo
  <2> QED BY <2>1, <2>2
<1>3. ASSUME NEW m \in Nodes
      PROVE  /\ \A b \in node'[m].bufs : buf'[b] # "none"
             /\ Cardinality(node'[m].bufs) <= node'[m].smem
             /\ node'[m].smem <= Cardinality(Taken)'
             /\ node'[m].st = "none" => node'[m] = NoNode
  <2>1. node'[m].bufs = node[m].bufs /\ node'[m].smem = node[m].smem
        /\ (node'[m].st = "none" => node'[m] = node[m] /\ node[m].st = "none")
    BY DEF SessTo, KeepBufs, KeepSt
  <2> QED BY <1>1, <2>1 DEF CountBound
<1> QED BY <1>2, <1>3 DEF CountBound

\* A node that is used is not one that was never allocated.
LEMMA RefToNone ==
    ASSUME NEW n \in Nodes, node[n].st # "none", KeepSt,
           \A m \in Nodes : m # n => node'[m] = node[m]
    PROVE  KeepNone
  BY DEF KeepSt, KeepNone

LEMMA KnownFrame ==
    ASSUME KnownInv, ThreadInv, Typed, RemoverInv,
           \A m \in Nodes : node[m].st # "none" => node'[m].st # "none",
           thr'.at \in WithNode => thr.at \in WithNode /\ thr'.n = thr.n,
           probe' \in {probe, 0}, \A a \in Actors : act'[a].n \in {act[a].n, 0}
    PROVE  KnownInv'
<1>1. probe \in 0..MaxNodes /\ \A a \in Actors : act[a].n \in 0..MaxNodes
  BY DEF Typed, SetsOK, ActOK, ActRec
<1>2. 0..MaxNodes = Nodes \cup {0}
  BY Bounds DEF Nodes
<1> QED BY <1>1, <1>2 DEF KnownInv, ThreadInv

LEMMA RefFrame ==
    ASSUME RefBound, KeepRef, probe' = probe,
           \A m \in Nodes : (thr'.n = m /\ thr'.at \in Holding) <=> (thr.n = m /\ thr.at \in Holding)
    PROVE  RefBound'
  BY DEF RefBound, KeepRef, Refs, One

\* The thread gives its reference back.
LEMMA RefPut ==
    ASSUME RefBound, NodeOK, NEW n \in Nodes, thr.n = n, thr.at \in Holding, thr'.at \notin Holding,
           probe' = probe, OtherRefs(n), node'[n].ref = Dec(node[n].ref)
    PROVE  RefBound'
<1> SUFFICES ASSUME NEW m \in Nodes PROVE node'[m].ref <= Refs(m)'
  BY DEF RefBound
<1>1. node[m].ref \in Nat /\ node[m].ref <= Refs(m)
  BY DEF RefBound, NodeOK, NodeRec
<1>2. Refs(m)' = One(probe = m)
  BY DEF Refs, One
<1>3. CASE m = n
  BY <1>1, <1>2, <1>3 DEF Refs, One, Dec
<1>4. CASE m # n
  BY <1>1, <1>2, <1>4 DEF Refs, One, OtherRefs
<1> QED BY <1>3, <1>4

\* The thread takes a reference.
LEMMA RefGet ==
    ASSUME RefBound, NodeOK, NEW n \in Nodes, thr.at \notin Holding, thr'.at \in Holding, thr'.n = n,
           probe' = probe, OtherRefs(n), node'[n].ref = node[n].ref + 1
    PROVE  RefBound'
<1> SUFFICES ASSUME NEW m \in Nodes PROVE node'[m].ref <= Refs(m)'
  BY DEF RefBound
<1>1. node[m].ref \in Nat /\ node[m].ref <= One(probe = m)
  BY DEF RefBound, NodeOK, NodeRec, Refs, One
<1>3. CASE m = n
  BY <1>1, <1>3 DEF Refs, One
<1>4. CASE m # n
  BY <1>1, <1>4 DEF Refs, One, OtherRefs
<1> QED BY <1>3, <1>4

-----------------------------------------------------------------------------
LEMMA HoldFrame ==
    ASSUME HoldInv, ThreadInv, Typed, KeepRef, KeepSt, probe' = probe,
           \A m \in Nodes : (thr'.n = m /\ thr'.at \in Holding) <=> (thr.n = m /\ thr.at \in Holding),
           thr'.at \in WithNode => thr'.n \in Nodes,
           thr'.at \in {"driver", "probe", "dequeue"} =>
               thr.at \in {"driver", "probe", "dequeue"} /\ thr'.n = thr.n
               /\ node'[thr.n].sess = node[thr.n].sess /\ node'[thr.n].bufs = node[thr.n].bufs
    PROVE  HoldInv'
<1>1. probe # 0 => probe \in Nodes
  BY Bounds DEF Typed, SetsOK, Nodes
<1>2. Live' = Live /\ \A n \in Nodes : Refs(n)' = Refs(n)
  BY DEF Live, KeepSt, Refs, One
<1>3. thr'.at \in Holding => thr.at \in Holding /\ thr'.n = thr.n /\ thr.n \in Nodes
  BY DEF WithNode
<1>4. Live \subseteq Nodes
  BY DEF Live
<1> QED BY <1>1, <1>2, <1>3, <1>4 DEF HoldInv, KeepSt, KeepRef

LEMMA HoldPut ==
    ASSUME HoldInv, Typed, NEW n \in Nodes, thr.n = n, thr.at \in Holding,
           thr'.at \notin Holding, probe' = probe, OtherRefs(n), node'[n].ref = Dec(node[n].ref), KeepSt,
           thr'.at = "dequeue" => thr.at \in {"driver", "probe"} /\ thr'.n = n
               /\ node'[n].sess = node[n].sess /\ node'[n].bufs = node[n].bufs
    PROVE  HoldInv'
<1>1. probe # 0 => probe \in Nodes
  BY Bounds DEF Typed, SetsOK, Nodes
<1>2. Live' = Live /\ Live \subseteq Nodes
  BY DEF Live, KeepSt
<1>3. ASSUME NEW m \in Live PROVE node'[m].ref = Refs(m)'
  <2>1. node[m].ref \in Nat /\ node[m].ref = Refs(m)
    BY <1>2 DEF HoldInv, Typed, NodeOK, NodeRec
  <2>2. Refs(m)' = One(probe = m)
    BY DEF Refs, One
  <2>3. CASE m = n
    BY <2>1, <2>2, <2>3 DEF Refs, One, Dec
  <2>4. CASE m # n
    BY <1>2, <2>1, <2>2, <2>4 DEF Refs, One, OtherRefs
  <2> QED BY <2>3, <2>4
<1>4. probe' # 0 => node'[probe'].st = "listed"
  BY <1>1 DEF HoldInv, KeepSt
<1>5. thr'.at \in {"driver", "probe", "dequeue"} => thr'.at = "dequeue"
  BY DEF Holding
<1>6. thr'.at \in {"driver", "probe", "dequeue"} => node'[thr'.n].sess = {} /\ node'[thr'.n].bufs = {}
  BY <1>5 DEF HoldInv
<1> QED BY <1>2, <1>3, <1>4, <1>6 DEF HoldInv

LEMMA OutStays ==
    ASSUME OutInv, RemoverInv, \A m \in Nodes : (node'[m].st = "out") <=> (node[m].st = "out"),
           \A a \in Actors : act'[a] = act[a]
                \/ (act[a].at \notin Removing /\ act'[a].at \notin Removing),
           \A m \in Nodes : node[m].st = "out" =>
                node'[m].sess \subseteq node[m].sess /\ node'[m].bufs \subseteq node[m].bufs
    PROVE  OutInv'
<1>1. \A a \in Actors : act'[a].at \in Removing <=> act[a].at \in Removing
  BY DEF Removing
<1>2. \A a \in Actors : act[a].at \in Removing => act[a].n \in Nodes /\ act'[a] = act[a]
  BY DEF RemoverInv
<1>3. \A a \in Actors : act'[a].at \in {"bufs", "free"} => act[a].at \in Removing /\ act'[a] = act[a]
  BY <1>1, <1>2 DEF Removing
<1>4. \A a \in Actors : act'[a].at \in Removing => node'[act'[a].n].st = "out"
  BY <1>1, <1>2 DEF OutInv
<1>5. \A a, b \in Actors :
          act'[a].at \in Removing /\ act'[b].at \in Removing /\ act'[a].n = act'[b].n => a = b
  BY <1>1, <1>2 DEF OutInv
<1>6. ASSUME NEW n \in Nodes, node'[n].st = "out"
      PROVE  \E a \in Actors : act'[a].at \in Removing /\ act'[a].n = n
  <2>1. PICK a \in Actors : act[a].at \in Removing /\ act[a].n = n
    BY <1>6 DEF OutInv
  <2> QED BY <1>1, <1>2, <2>1
<1>7. ASSUME NEW a \in Actors, act'[a].at \in {"bufs", "free"}
      PROVE  node'[act'[a].n].sess = {} /\ (act'[a].at = "free" => node'[act'[a].n].bufs = {})
  <2>1. act[a].at \in Removing /\ act'[a] = act[a] /\ act[a].n \in Nodes
    BY <1>2, <1>3, <1>7
  <2>2. node[act[a].n].st = "out" /\ node[act[a].n].sess = {}
        /\ (act[a].at = "free" => node[act[a].n].bufs = {})
    BY <1>7, <2>1 DEF OutInv
  <2>3. node'[act[a].n].sess \subseteq node[act[a].n].sess /\ node'[act[a].n].bufs \subseteq node[act[a].n].bufs
    BY <2>1, <2>2
  <2> QED BY <2>1, <2>2, <2>3
<1>8. \A a \in Actors : act'[a].at \in {"bufs", "free"} => node'[act'[a].n].sess = {}
  BY <1>7
<1>9. \A a \in Actors : act'[a].at = "free" => node'[act'[a].n].bufs = {}
  BY <1>7
<1> QED BY <1>4, <1>5, <1>6, <1>8, <1>9 DEF OutInv

LEMMA OutFrame ==
    ASSUME OutInv, RemoverInv, KeepSt,
           \A a \in Actors : act'[a] = act[a]
                \/ (act[a].at \notin Removing /\ act'[a].at \notin Removing),
           \A m \in Nodes : node[m].st = "out" =>
                node'[m].sess \subseteq node[m].sess /\ node'[m].bufs \subseteq node[m].bufs
    PROVE  OutInv'
<1>1. \A m \in Nodes : (node'[m].st = "out") <=> (node[m].st = "out")
  BY DEF KeepSt
<1> QED BY <1>1, OutStays

LEMMA SessFrame ==
    ASSUME SessInv, ThreadInv, Typed,
           \A m \in Nodes : node'[m].sess = node[m].sess,
           \A m \in Nodes : node[m].st \in {"listed", "out"} /\ node[m].sess # {}
                               => node'[m].st \in {"listed", "out"},
           \A i \in Insts : (inst'[i] = "open") <=> (inst[i] = "open"),
           thr' = thr \/ (thr.at # "close" /\ thr'.at \notin {"close", "created"}),
           \A a \in Actors : act'[a] = act[a] \/ (act[a].at # "close" /\ act'[a].at # "close")
    PROVE  SessInv'
<1>1. \A i \in Insts : Closing(i)' <=> Closing(i)
  BY DEF Closing
<1>2. \A i \in Insts, a \in Actors : ClosingBy(a, i)' <=> ClosingBy(a, i)
  BY DEF ClosingBy
<1>3. \A m \in Nodes : node[m].sess \subseteq Insts
  BY DEF Typed, NodeOK, NodeRec
<1>4. thr'.at = "created" => thr' = thr /\ thr.n \in Nodes
  BY DEF ThreadInv, WithNode, Holding
<1>5. \A m \in Nodes : \A i \in node'[m].sess : node'[m].st \in {"listed", "out"} /\ inst'[i] = "open"
  BY <1>3 DEF SessInv
<1>6. thr'.at = "created" => thr'.i \in node'[thr'.n].sess
  BY <1>4 DEF SessInv
<1>7. \A m, n \in Nodes : \A i \in Insts : i \in node'[m].sess /\ i \in node'[n].sess => m = n
  BY DEF SessInv
<1>8. \A i \in Insts : Closing(i)' => inst'[i] = "open" /\ \A n \in Nodes : i \notin node'[n].sess
  BY <1>1 DEF SessInv
<1>9. \A i \in Insts, a \in Actors : ClosingBy(a, i)' =>
          inst'[i] = "open" /\ ~Closing(i)' /\ \A n \in Nodes : i \notin node'[n].sess
  BY <1>1, <1>2 DEF SessInv
<1>10. \A i \in Insts, a, b \in Actors : ClosingBy(a, i)' /\ ClosingBy(b, i)' => a = b
  BY <1>2 DEF SessInv
<1>11. ASSUME NEW i \in Insts, inst'[i] = "open"
       PROVE  \/ \E n \in Nodes : i \in node'[n].sess
              \/ Closing(i)'
              \/ \E a \in Actors : ClosingBy(a, i)'
  BY <1>1, <1>2, <1>11 DEF SessInv
<1> QED BY <1>5, <1>6, <1>7, <1>8, <1>9, <1>10, <1>11 DEF SessInv

LEMMA BufFrame ==
    ASSUME BufInv, Typed, \A m \in Nodes : node'[m].bufs = node[m].bufs, buf' = buf,
           \A m \in Nodes : node[m].st \in {"listed", "out"} /\ node[m].bufs # {}
                               => node'[m].st \in {"listed", "out"},
           \A m \in Nodes : node'[m].st = "listed" => node'[m].smem = node[m].smem
               /\ (node[m].st = "listed" \/ node[m].smem = Cardinality(node[m].bufs))
    PROVE  BufInv'
<1>1. \A m \in Nodes : \A b \in node'[m].bufs : node'[m].st \in {"listed", "out"} /\ buf'[b] = "mapped"
  BY DEF BufInv
<1>2. \A n \in Listed' : node'[n].smem = Cardinality(node'[n].bufs)
  BY DEF BufInv, Listed
<1> QED BY <1>1, <1>2 DEF BufInv

LEMMA NameFrame ==
    ASSUME NameInv, KeepId, used' = used,
           \A m \in Nodes : node'[m].st \in {"listed", "out"} <=> node[m].st \in {"listed", "out"}
    PROVE  NameInv'
<1>1. Live' = Live /\ Live \subseteq Nodes
  BY DEF Live
<1> QED BY <1>1 DEF NameInv, KeepId

LEMMA HandleFrame ==
    ASSUME HandleInv, Typed, KeepId, KeepSt, KeepDev, probe' \in {probe, 0}, alive' = alive,
           gaveUp' = gaveUp, \A h \in Handles : act'[h].at = "pop" <=> act[h].at = "pop"
    PROVE  HandleInv'
<1>1. Listed' = Listed /\ Listed \subseteq Nodes
  BY DEF Listed, KeepSt
<1>2. \A h \in Handles : WithHandle(h)' = WithHandle(h) /\ WithHandle(h) \subseteq Nodes
  BY <1>1 DEF WithHandle, KeepId
<1>3. \A m, n \in Listed' : node'[m].h = node'[n].h => m = n
  BY <1>1 DEF HandleInv, KeepId
<1>4. \A n \in Nodes : probe # n => probe' # n
  BY Bounds
<1>5. \A h \in Handles \ (alive' \cup gaveUp') : act'[h].at # "pop" =>
          \A n \in WithHandle(h)' : ~node'[n].dev /\ probe' # n
  BY <1>2, <1>4 DEF HandleInv, KeepDev
<1> QED BY <1>3, <1>5 DEF HandleInv

LEMMA OpenedFrame ==
    ASSUME OpenedInv, RemoverInv, \A i \in Insts : inst[i] # "none" => inst'[i] # "none",
           \A a \in Actors : act'[a] = act[a] \/ act'[a].at # "close"
    PROVE  OpenedInv'
  BY DEF OpenedInv, RemoverInv

LEMMA StaysSane ==
    ASSUME NodeInv, bad \subseteq bad', Sane' PROVE Sane /\ SaneInv
  BY DEF NodeInv, Sane

-----------------------------------------------------------------------------
\* A step of the thread that only moves the thread.
LEMMA QuietThread ==
    ASSUME NodeInv, ThrOK', ThreadInv', NewThings', thr'.at = "register" => NewNodes # {},
           thr.at \notin Holding, thr'.at \notin WithNode, thr.at # "unregister",
           thr'.at # "unregister",
           UNCHANGED <<alive, gaveUp, node, used, inst, buf, own, probe, act>>,
           bad' \in {bad, bad \cup {"inst"}}
    PROVE  NodeInv'
<1>0. Base /\ Typed
  BY DEF NodeInv, Base
<1>1. NodesStay /\ node' = node
  BY <1>0, NodeUnchanged DEF Typed
<1>2. Typed'
  <2>1. SetsOK'
    BY <1>0 DEF Typed, SetsOK
  <2> QED BY <1>0, <1>1, <2>1 DEF Typed, InstOK, BufOK, NodesStay, ActOK
<1>3. RegisterInv'
  BY <1>0 DEF Base, RegisterInv, NewNodes
<1>4. RemoverInv'
  BY <1>0, RemoverFrame DEF Base
<1>5. RefBound'
  <2>1. \A m \in Nodes : (thr'.n = m /\ thr'.at \in Holding) <=> (thr.n = m /\ thr.at \in Holding)
    BY DEF WithNode
  <2> QED BY <1>0, <1>1, <2>1, RefFrame DEF Base, NodesStay
<1>6. CountBound'
  BY <1>0, <1>1, CountFrame DEF Base, NodesStay, Typed
<1>7. KnownInv' /\ OpenedInv'
  BY <1>0, <1>1, KnownFrame, OpenedFrame DEF Base
<1>8. ASSUME Sane' PROVE SaneInv'
  <2>0. Sane /\ SaneInv
    BY <1>8, StaysSane
  <2>1. UseInv'
    BY <2>0 DEF SaneInv, UseInv
  <2>2. HoldInv'
    <3>1. \A m \in Nodes : (thr'.n = m /\ thr'.at \in Holding) <=> (thr.n = m /\ thr.at \in Holding)
      BY DEF WithNode
    <3>2. thr'.at \notin {"driver", "probe", "dequeue"}
      BY DEF WithNode, Holding
    <3> QED BY <1>0, <1>1, <2>0, <3>1, <3>2, HoldFrame DEF Base, SaneInv, NodesStay
  <2>3. OutInv'
    BY <1>0, <1>1, <2>0, OutFrame DEF Base, SaneInv, NodesStay
  <2>4. SessInv'
    <3>1. thr.at # "close" /\ thr'.at \notin {"close", "created"}
      BY DEF WithNode, Holding
    <3> QED BY <1>0, <1>1, <2>0, <3>1, SessFrame DEF Base, SaneInv
  <2>5. BufInv'
    BY <1>0, <1>1, <2>0, BufFrame DEF Base, SaneInv
  <2>6. NameInv' /\ HandleInv'
    BY <1>0, <1>1, <2>0, NameFrame, HandleFrame DEF Base, SaneInv, NodesStay
  <2> QED BY <2>1, <2>2, <2>3, <2>4, <2>5, <2>6 DEF SaneInv
<1> QED BY <1>2, <1>3, <1>4, <1>5, <1>6, <1>7, <1>8 DEF NodeInv, Base

-----------------------------------------------------------------------------
\* The thread starts to remove the node, or does not.
DspPops ==
    /\ ActOK' /\ RemoverInv'
    /\ act'["dsp"].at = "pop"
    /\ \A a \in Actors : act'[a] = act[a]
          \/ (a \notin Handles /\ act[a].at = "idle" /\ act'[a].at = "pop" /\ act'[a].n = act[a].n)

LEMMA DspStarts ==
    ASSUME Base, thr.at # "unregister", act' = [act EXCEPT !["dsp"].at = "pop"], alive' = alive
    PROVE  DspPops
<1>1. act["dsp"].at = "idle" /\ act["dsp"] = Resting
  BY Bounds DEF Base, RegisterInv, RemoverInv
<1>2. ActOK'
  BY Bounds DEF Base, Typed, ActOK, ActRec, RemoverAts
<1>3. \A a \in Actors : a # "dsp" => act'[a] = act[a]
  BY DEF Base, Typed, ActOK
<1>4. act'["dsp"].at = "pop" /\ act'["dsp"].n = act["dsp"].n /\ act["dsp"].n = 0
  BY <1>1, Bounds DEF Base, Typed, ActOK, ActRec, Resting
<1>5. "dsp" \notin alive
  BY Bounds DEF Base, Typed, SetsOK
<1>6. ASSUME NEW a \in Actors
      PROVE  /\ act'[a].at \in Removing => act'[a].n \in Nodes
             /\ act'[a].at = "close" => act'[a].i \in Insts
             /\ act'[a].at = "idle" => act'[a] = Resting
             /\ act'[a].at = "pop" /\ a # "rm" => act'[a].n = 0
             /\ a \in alive' => act'[a].at = "idle"
  <2>1. CASE a = "dsp"
    BY <1>4, <1>5, <2>1 DEF Removing
  <2>2. CASE a # "dsp"
    BY <1>3, <2>2 DEF Base, RemoverInv
  <2> QED BY <2>1, <2>2
<1>7. RemoverInv'
  BY <1>6 DEF RemoverInv
<1> QED BY <1>1, <1>2, <1>3, <1>4, <1>7, Bounds DEF DspPops

\* What the thread writes to "bad" when it uses its node.
ThreadTouch == bad' = IF node[thr.n].st = "freed" THEN bad \cup {"thread"} ELSE bad

LEMMA TouchOK ==
    ASSUME NodeInv, thr.at \in Holding, ThreadTouch, Sane' PROVE bad' = bad
<1>1. Sane /\ SaneInv
  BY StaysSane DEF ThreadTouch
<1> QED BY <1>1 DEF SaneInv, HoldInv, ThreadTouch

\* A step in which the thread gives its reference back, and which keeps SessInv.
LEMMA PutsBack ==
    ASSUME NodeInv, thr.at \in Holding, node' = PutRef(node, thr.n),
           ThrOK', ThreadInv', NewThings', thr'.at \notin Holding, thr'.at # "register",
           thr'.at = "dequeue" => thr.at \in {"driver", "probe"} /\ thr'.n = thr.n,
           \/ act' = act /\ thr'.at # "unregister"
           \/ DspPops /\ thr'.at = "unregister",
           UNCHANGED <<alive, gaveUp, used, buf, own, probe>>,
           InstOK', \A i \in Insts : inst[i] # "none" => inst'[i] # "none",
           SetsOK', bad \subseteq bad', Sane' /\ SaneInv => bad' = bad,
           SaneInv => SessInv'
    PROVE  NodeInv'
<1>0. Base /\ Typed /\ thr.n \in Nodes /\ node[thr.n].st # "none"
  BY DEF NodeInv, Base, ThreadInv, WithNode, KnownInv
<1> DEFINE n == thr.n
<1>1. RefTo(n, Dec(node[n].ref)) /\ KeepDev /\ \A m \in Nodes : m # n => node'[m] = node[m]
  BY <1>0, PutEffect DEF Typed
<1>a. ActOK' /\ RemoverInv' /\ \A a \in Actors : act'[a] = act[a]
          \/ (a \notin Handles /\ act[a].at = "idle" /\ act'[a].at = "pop" /\ act'[a].n = act[a].n)
  BY <1>0, RemoverFrame DEF Base, Typed, ActOK, DspPops
<1>2. Typed'
  BY <1>0, <1>1, <1>a DEF Typed, BufOK, RefTo
<1>3. RegisterInv'
  <2>1. thr.at # "unregister" /\ act["dsp"].at = "idle"
    BY <1>0 DEF Base, RegisterInv, Holding
  <2> QED BY <2>1 DEF RegisterInv, DspPops
<1>5. RefBound'
  BY <1>0, <1>1, RefPut DEF Base, Typed, RefTo
<1>6. CountBound'
  <2>1. KeepNone
    BY <1>0, <1>1, RefToNone DEF RefTo
  <2> QED BY <1>0, <1>1, <2>1, CountFrame DEF Base, RefTo, Typed
<1>7. KnownInv' /\ OpenedInv'
  <2>1. \A m \in Nodes : node[m].st # "none" => node'[m].st # "none"
    BY <1>1 DEF RefTo, KeepSt
  <2>2. thr'.at \in WithNode => thr.at \in WithNode /\ thr'.n = thr.n
    BY DEF WithNode, Holding
  <2>3. KnownInv'
    BY <1>0, <1>a, <2>1, <2>2, KnownFrame DEF Base
  <2>4. OpenedInv'
    BY <1>0, <1>a, OpenedFrame DEF Base
  <2> QED BY <2>3, <2>4
<1>8. ASSUME Sane' PROVE SaneInv'
  <2>0. Sane /\ SaneInv /\ bad' = bad
    BY <1>8, StaysSane
  <2>1. UseInv'
    BY <2>0 DEF SaneInv, UseInv
  <2>2. HoldInv'
    BY <1>0, <1>1, <2>0, HoldPut DEF SaneInv, RefTo, KeepSess, KeepBufs
  <2>3. OutInv'
    <3>1. \A a \in Actors : act'[a] = act[a]
                \/ (act[a].at \notin Removing /\ act'[a].at \notin Removing)
      BY <1>a DEF Removing
    <3>2. \A m \in Nodes : node[m].st = "out" =>
                node'[m].sess \subseteq node[m].sess /\ node'[m].bufs \subseteq node[m].bufs
      BY <1>1 DEF RefTo, KeepSess, KeepBufs
    <3> QED BY <1>0, <1>1, <2>0, <3>1, <3>2, OutFrame DEF Base, SaneInv, RefTo
  <2>4. SessInv'
    BY <2>0
  <2>5. BufInv'
    <3>1. \A m \in Nodes : node'[m].bufs = node[m].bufs /\ node'[m].smem = node[m].smem
                           /\ node'[m].st = node[m].st
      BY <1>1 DEF RefTo, KeepBufs, KeepSt
    <3> QED BY <1>0, <2>0, <3>1, BufFrame DEF SaneInv
  <2>6. NameInv'
    BY <1>1, <2>0, NameFrame DEF SaneInv, RefTo, KeepSt
  <2>7. HandleInv'
    <3>1. \A h \in Handles : act'[h].at = "pop" <=> act[h].at = "pop"
      BY <1>a, Bounds
    <3> QED BY <1>0, <1>1, <2>0, <3>1, HandleFrame DEF SaneInv, RefTo
  <2> QED BY <2>1, <2>2, <2>3, <2>4, <2>5, <2>6, <2>7 DEF SaneInv
<1> QED BY <1>2, <1>3, <1>5, <1>6, <1>7, <1>8, <1>a DEF NodeInv, Base

\* The same, when no session is opened or closed.
LEMMA PutStep ==
    ASSUME NodeInv, thr.at \in Holding \ {"close"}, node' = PutRef(node, thr.n),
           ThrOK', ThreadInv', NewThings', thr'.at \notin Holding, thr'.at # "register",
           thr'.at = "dequeue" => thr.at \in {"driver", "probe"} /\ thr'.n = thr.n,
           \/ act' = act /\ thr'.at # "unregister"
           \/ DspPops /\ thr'.at = "unregister",
           UNCHANGED <<alive, gaveUp, used, buf, own, probe>>,
           InstOK', \A i \in Insts : inst[i] # "none" => inst'[i] # "none",
           \A i \in Insts : (inst'[i] = "open") <=> (inst[i] = "open"),
           bad' = bad \/ ThreadTouch
    PROVE  NodeInv'
<1>0. Base /\ Typed /\ thr.n \in Nodes
  BY DEF NodeInv, Base, ThreadInv, WithNode
<1>1. RefTo(thr.n, Dec(node[thr.n].ref))
  BY <1>0, PutEffect DEF Typed
<1>2. SetsOK' /\ bad \subseteq bad'
  BY <1>0 DEF Typed, SetsOK, ThreadTouch
<1>3. Sane' /\ SaneInv => bad' = bad
  BY TouchOK
<1>4. ASSUME SaneInv PROVE SessInv'
  <2>1. thr.at # "close" /\ thr'.at \notin {"close", "created"}
    BY DEF Holding
  <2>2. \A a \in Actors : act'[a] = act[a] \/ (act[a].at # "close" /\ act'[a].at # "close")
    BY DEF DspPops
  <2>3. \A m \in Nodes : node'[m].sess = node[m].sess /\ node'[m].st = node[m].st
    BY <1>1 DEF RefTo, KeepSess, KeepSt
  <2> QED BY <1>0, <1>4, <2>1, <2>2, <2>3, SessFrame DEF Base, SaneInv
<1> QED BY <1>2, <1>3, <1>4, PutsBack

-----------------------------------------------------------------------------
\* The commands, and the steps of the thread that change nothing but the thread.

LEMMA CommandStep ==
    ASSUME NodeInv, NEW cmd \in Cmds, NEW h \in Handles, NEW i \in 0..MaxInsts, NEW b \in 0..MaxBufs,
           NEW at \in {"register", "get", "lookup"}, Command(cmd, h, i, b, at),
           cmd \in SessCmds => i \in Insts, cmd \in BufCmds => b \in Bufs,
           at = "register" => NewNodes # {} /\ cmd \in InitCmds,
           at = "lookup" => cmd \in SessCmds \ {"create"},
           cmd = "create" => inst[i] = "none", cmd \in {"alloc", "map"} => buf[b] = "none"
    PROVE  NodeInv'
<1>1. /\ thr'.at = at /\ thr'.cmd = cmd /\ thr'.h = h /\ thr'.n = 0 /\ thr'.i = i /\ thr'.b = b
      /\ thr.at = "idle"
      /\ UNCHANGED <<alive, gaveUp, node, used, inst, buf, own, probe, act, bad>>
  BY DEF Command
<1>2. ThrOK'
  BY Bounds DEF Command, ThrOK, ThrRec, Ats
<1>3. ThreadInv'
  BY <1>1 DEF ThreadInv, WithNode, Holding
<1>4. NewThings'
  BY <1>1 DEF NewThings
<1> QED BY <1>1, <1>2, <1>3, <1>4, QuietThread DEF WithNode, Holding

LEMMA NewCommandStep ==
    ASSUME NodeInv, NewCommand PROVE NodeInv'
<1>0. PICK h \in Handles : PdInit(h) \/ SessCreate(h) \/ SessDelete(h) \/ SessionUse(h)
                           \/ MemAlloc(h) \/ MemFree(h) \/ BufRegister(h) \/ BufDeregister(h)
  BY DEF NewCommand
<1>1. /\ Insts \subseteq 0..MaxInsts /\ Bufs \subseteq 0..MaxBufs /\ 0 \in 0..MaxInsts /\ 0 \in 0..MaxBufs
  BY Bounds
<1>2. /\ \A i \in Fresh(inst) : i \in Insts /\ inst[i] = "none"
      /\ \A b \in Fresh(buf) : b \in Bufs /\ buf[b] = "none"
  BY DEF NodeInv, Base, Typed, InstOK, BufOK, Fresh
<1>3. MySessions(h) \subseteq Insts /\ \A o : MyBufs(h, o) \subseteq Bufs
  <2>1. \A n \in WithHandle(h) : node[n].sess \subseteq Insts /\ node[n].bufs \subseteq Bufs
    BY DEF NodeInv, Base, Typed, NodeOK, NodeRec, WithHandle, Listed
  <2> QED BY <2>1 DEF MySessions, MyBufs
<1>4. CASE PdInit(h)
  BY <1>1, <1>4, CommandStep DEF PdInit, Cmds, SessCmds, BufCmds, InitCmds
<1>5. CASE SessCreate(h)
  <2>1. PICK i \in Fresh(inst) : \/ NewNodes # {} /\ Command("create", h, i, 0, "register")
                                 \/ Command("create", h, i, 0, "get")
    BY <1>5 DEF SessCreate
  <2> QED BY <1>1, <1>2, <2>1, CommandStep DEF Cmds, SessCmds, BufCmds, InitCmds
<1>6. CASE SessDelete(h)
  BY <1>1, <1>3, <1>6, CommandStep DEF SessDelete, Cmds, SessCmds, BufCmds, InitCmds
<1>7. CASE SessionUse(h)
  BY <1>1, <1>3, <1>7, CommandStep DEF SessionUse, Cmds, SessCmds, BufCmds, InitCmds
<1>8. CASE MemAlloc(h)
  BY <1>1, <1>2, <1>8, CommandStep DEF MemAlloc, Cmds, SessCmds, BufCmds, InitCmds
<1>9. CASE MemFree(h)
  BY <1>1, <1>3, <1>9, CommandStep DEF MemFree, Cmds, SessCmds, BufCmds, InitCmds
<1>10. CASE BufRegister(h)
  <2>1. PICK i \in MySessions(h), b \in Fresh(buf) : Command("map", h, i, b, "lookup")
    BY <1>10 DEF BufRegister
  <2> QED BY <1>1, <1>2, <1>3, <2>1, CommandStep DEF Cmds, SessCmds, BufCmds, InitCmds
<1>11. CASE BufDeregister(h)
  <2>1. PICK i \in MySessions(h), b \in MyBufs(h, "CLIENT") : Command("unmap", h, i, b, "lookup")
    BY <1>11 DEF BufDeregister
  <2> QED BY <1>1, <1>3, <2>1, CommandStep DEF Cmds, SessCmds, BufCmds, InitCmds
<1> QED BY <1>0, <1>4, <1>5, <1>6, <1>7, <1>8, <1>9, <1>10, <1>11

\* The end of a command is a state the thread may be in.
LEMMA IdleOK ==
    ASSUME ThrIdle PROVE ThreadInv' /\ NewThings' /\ thr'.at \notin WithNode \cup {"register", "unregister"}
  BY DEF ThrIdle, ThreadInv, NewThings, WithNode, Holding, InitCmds, Cmds

LEMMA LookUpStep ==
    ASSUME NodeInv, LookUp PROVE NodeInv'
<1>0. thr.at = "lookup" /\ Base /\ ThrOK /\ UNCHANGED <<alive, gaveUp, node, used, inst, buf, own, probe, act, bad>>
  BY DEF LookUp, NodeInv, Base, Typed
<1>1. CASE Finish
  BY <1>0, <1>1, ThrFinishes, IdleOK, QuietThread DEF ThrIdle, Holding
<1>2. CASE thr' = [thr EXCEPT !.at = IF thr.cmd = "use" THEN "use" ELSE "get"]
  <2>1. PICK at \in {"use", "get"} : at = IF thr.cmd = "use" THEN "use" ELSE "get"
    OBVIOUS
  <2>2. ThrTo(at, thr.n)
    BY <1>0, <1>2, <2>1, ThrGoes DEF Ats
  <2>3. ThreadInv'
    BY <1>0, <2>1, <2>2 DEF Base, ThreadInv, ThrTo, WithNode, Holding
  <2>4. NewThings'
    BY <1>0, <2>1, <2>2 DEF Base, NewThings, ThrTo
  <2> QED BY <1>0, <2>1, <2>2, <2>3, <2>4, QuietThread DEF ThrTo, WithNode, Holding
<1> QED BY <1>1, <1>2 DEF LookUp

LEMMA UseSessionStep ==
    ASSUME NodeInv, UseSession PROVE NodeInv'
<1>1. thr.at = "use" /\ Finish /\ UNCHANGED <<alive, gaveUp, node, used, inst, buf, own, probe, act>>
      /\ bad' \in {bad, bad \cup {"inst"}}
  BY DEF UseSession
<1> QED BY <1>1, ThrFinishes, IdleOK, QuietThread DEF ThrIdle, Holding

-----------------------------------------------------------------------------
\* The steps in which the thread gives its reference back.

LEMMA PutFinish ==
    ASSUME NodeInv, thr.at \in Holding \ {"close"}, node' = PutRef(node, thr.n), Finish,
           UNCHANGED <<alive, gaveUp, used, inst, buf, own, probe, act>>,
           bad' = bad \/ ThreadTouch
    PROVE  NodeInv'
<1>1. ThrIdle /\ ThreadInv' /\ NewThings' /\ thr'.at \notin WithNode \cup {"register", "unregister"}
  BY ThrFinishes, IdleOK
<1>2. InstOK'
  BY DEF NodeInv, Base, Typed, InstOK
<1> QED BY <1>1, <1>2, PutStep DEF ThrIdle, WithNode

LEMMA ProbedStep ==
    ASSUME NodeInv, Probed PROVE NodeInv'
<1>0. /\ thr.at = "probe" /\ Base /\ ThrOK /\ InstOK
      /\ UNCHANGED <<alive, gaveUp, used, inst, buf, own, probe, act, bad>>
      /\ node' = PutRef(node, thr.n) /\ thr' = [thr EXCEPT !.at = "get", !.n = 0]
  BY DEF Probed, NodeInv, Base, Typed
<1>1. ThrTo("get", 0)
  <2>1. "get" \in Ats /\ 0 \in 0..MaxNodes
    BY Bounds DEF Ats
  <2> QED BY <1>0, <2>1, ThrGoes
<1>2. ThreadInv'
  BY <1>0, <1>1 DEF Base, ThreadInv, ThrTo, WithNode, Holding
<1>3. NewThings'
  BY <1>0, <1>1 DEF Base, NewThings, ThrTo
<1>4. InstOK'
  BY <1>0 DEF InstOK
<1> QED BY <1>0, <1>1, <1>2, <1>3, <1>4, PutStep DEF ThrTo, Holding

LEMMA ToDequeue ==
    ASSUME NodeInv, thr.at \in {"driver", "probe"}, node' = PutRef(node, thr.n),
           thr' = [thr EXCEPT !.at = "dequeue"],
           UNCHANGED <<alive, gaveUp, used, inst, buf, own, probe, act, bad>>
    PROVE  NodeInv'
<1>0. Base /\ ThrOK
  BY DEF NodeInv, Base, Typed
<1>1. ThrTo("dequeue", thr.n)
  BY <1>0, ThrGoes DEF Ats
<1>2. ThreadInv'
  BY <1>0, <1>1 DEF Base, ThreadInv, ThrTo, WithNode, Holding
<1>3. NewThings'
  BY <1>0, <1>1 DEF Base, NewThings, ThrTo
<1>4. InstOK'
  BY <1>0 DEF InstOK, Base, Typed
<1> QED BY <1>0, <1>1, <1>2, <1>3, <1>4, PutStep DEF ThrTo, Holding

LEMMA ProbeTimeoutStep ==
    ASSUME NodeInv, ProbeTimeout PROVE NodeInv'
  BY ToDequeue DEF ProbeTimeout

LEMMA InitNodeStep ==
    ASSUME NodeInv, InitNode PROVE NodeInv'
<1>0. /\ thr.at = "work" /\ thr.cmd = "init" /\ Base /\ ThrOK /\ InstOK /\ ThreadTouch
      /\ UNCHANGED <<alive, gaveUp, used, inst, buf, own, probe>>
      /\ node' = PutRef(node, thr.n)
  BY DEF InitNode, AtWork, NodeInv, Base, Typed, Touch, ThreadTouch
<1>1. CASE Finish /\ UNCHANGED act
  BY <1>0, <1>1, PutFinish DEF Holding
<1>2. CASE thr' = [thr EXCEPT !.at = "unregister"] /\ act' = [act EXCEPT !["dsp"].at = "pop"]
  <2>1. ThrTo("unregister", thr.n)
    BY <1>0, <1>2, ThrGoes DEF Ats
  <2>2. ThreadInv'
    BY <1>0, <2>1 DEF Base, ThreadInv, ThrTo, WithNode, Holding, InitCmds
  <2>3. NewThings'
    BY <1>0, <2>1 DEF Base, NewThings, ThrTo
  <2>4. DspPops
    BY <1>0, <1>2, DspStarts
  <2>5. InstOK'
    BY <1>0 DEF InstOK
  <2> QED BY <1>0, <2>1, <2>2, <2>3, <2>4, <2>5, PutStep DEF ThrTo, Holding
<1> QED BY <1>1, <1>2 DEF InitNode

\* The sessions of the thread.

LEMMA ThreadClosesStep ==
    ASSUME NodeInv, ThreadCloses PROVE NodeInv'
<1>0. /\ thr.at = "close" /\ Base /\ Typed /\ InstOK
      /\ UNCHANGED <<alive, gaveUp, used, buf, own, probe, act>>
      /\ node' = PutRef(node, thr.n) /\ Finish
      /\ inst' = [inst EXCEPT ![thr.i] = "closed"]
      /\ bad' = IF inst[thr.i] = "closed" THEN bad \cup {"twice"} ELSE bad
  BY DEF ThreadCloses, Close, NodeInv, Base, Typed
<1> DEFINE i == thr.i
<1>1. thr.n \in Nodes /\ i \in Insts
  BY <1>0 DEF Base, ThreadInv, WithNode, Holding, SessCmds
<1>2. RefTo(thr.n, Dec(node[thr.n].ref))
  BY <1>0, <1>1, PutEffect DEF Typed
<1>3. ThrIdle /\ ThreadInv' /\ NewThings' /\ thr'.at \notin WithNode \cup {"register", "unregister"}
  BY <1>0, ThrFinishes, IdleOK
<1>4. InstOK' /\ inst'[i] = "closed" /\ \A j \in Insts : j # i => inst'[j] = inst[j]
  BY <1>0, <1>1 DEF InstOK
<1>5. SetsOK' /\ bad \subseteq bad'
  BY <1>0 DEF Typed, SetsOK
<1>6. SaneInv => bad' = bad
  BY <1>0, <1>1 DEF SaneInv, SessInv, Closing
<1>7. ASSUME SaneInv PROVE SessInv'
  <2>0. /\ \A m \in Nodes : node'[m].sess = node[m].sess /\ node'[m].st = node[m].st
        /\ \A m \in Nodes : i \notin node[m].sess /\ node[m].sess \subseteq Insts
        /\ \A a \in Actors : ~ClosingBy(a, i)
    BY <1>0, <1>1, <1>2, <1>7 DEF RefTo, KeepSess, KeepSt, SaneInv, SessInv, Closing, Typed, NodeOK, NodeRec
  <2>1. \A j \in Insts : ~Closing(j)' /\ (j # i => ~Closing(j))
    BY <1>3 DEF Closing, ThrIdle
  <2>2. \A j \in Insts, a \in Actors : ClosingBy(a, j)' <=> ClosingBy(a, j)
    BY <1>0 DEF ClosingBy
  <2>3. \A m \in Nodes : \A j \in node'[m].sess : node'[m].st \in {"listed", "out"} /\ inst'[j] = "open"
    BY <1>4, <1>7, <2>0 DEF SaneInv, SessInv
  <2>4. \A m, n \in Nodes : \A j \in Insts : j \in node'[m].sess /\ j \in node'[n].sess => m = n
    BY <1>7, <2>0 DEF SaneInv, SessInv
  <2>5. ASSUME NEW j \in Insts, NEW a \in Actors, ClosingBy(a, j)'
        PROVE  inst'[j] = "open" /\ \A n \in Nodes : j \notin node'[n].sess
    <3>1. ClosingBy(a, j) /\ j # i
      BY <2>0, <2>2, <2>5
    <3> QED BY <1>4, <1>7, <2>0, <3>1 DEF SaneInv, SessInv
  <2>6. \A j \in Insts, a, b \in Actors : ClosingBy(a, j)' /\ ClosingBy(b, j)' => a = b
    BY <1>7, <2>2 DEF SaneInv, SessInv
  <2>7. ASSUME NEW j \in Insts, inst'[j] = "open"
        PROVE  (\E n \in Nodes : j \in node'[n].sess) \/ \E a \in Actors : ClosingBy(a, j)'
    <3>1. j # i /\ inst[j] = "open"
      BY <1>4, <2>7
    <3> QED BY <1>7, <2>0, <2>1, <2>2, <3>1 DEF SaneInv, SessInv
  <2>8. thr'.at # "created"
    BY <1>3 DEF ThrIdle
  <2> QED BY <2>1, <2>3, <2>4, <2>5, <2>6, <2>7, <2>8 DEF SessInv
<1>8. \A j \in Insts : inst[j] # "none" => inst'[j] # "none"
  BY <1>4
<1>9. thr.at \in Holding /\ thr'.at = "idle" /\ thr'.at \notin Holding /\ ThrOK'
  BY <1>0, <1>3 DEF Holding, ThrIdle
<1> QED BY <1>0, <1>3, <1>4, <1>5, <1>6, <1>7, <1>8, <1>9, PutsBack

\* A step in which the thread keeps its reference and the list of sessions of its
\* node changes.
LEMMA ListStep ==
    ASSUME NodeInv, thr.at \in {"work", "created"}, NEW S, NEW c, SessTo(thr.n, S, c),
           NEW at \in {"created", "close"}, ThrTo(at, thr.n), thr.cmd \in {"create", "delete"},
           at = "created" => thr.cmd = "create",
           UNCHANGED <<alive, gaveUp, used, buf, own, probe, act>>,
           ThreadTouch, InstOK', \A i \in Insts : inst[i] # "none" => inst'[i] # "none",
           CountBound', SaneInv => SessInv'
    PROVE  NodeInv'
<1>0. Base /\ Typed /\ thr.n \in Nodes /\ node[thr.n].st # "none"
  BY DEF NodeInv, Base, ThreadInv, WithNode, Holding, KnownInv
<1>1. /\ thr'.at = at /\ thr'.n = thr.n /\ ThrOK' /\ thr'.cmd = thr.cmd /\ thr'.i = thr.i
      /\ thr'.h = thr.h /\ thr'.b = thr.b
  BY DEF ThrTo
<1>2. Typed'
  <2>1. SetsOK'
    BY <1>0 DEF Typed, SetsOK, ThreadTouch
  <2> QED BY <1>0, <1>1, <2>1 DEF Typed, BufOK, SessTo, ActOK
<1>3. ThreadInv'
  BY <1>0, <1>1 DEF Base, ThreadInv, WithNode, Holding
<1>4. NewThings'
  BY <1>0, <1>1 DEF NewThings
<1>5. RegisterInv' /\ RemoverInv'
  BY <1>0, <1>1, RemoverFrame DEF Base, RegisterInv
<1>6. \A m \in Nodes : (thr'.n = m /\ thr'.at \in Holding) <=> (thr.n = m /\ thr.at \in Holding)
  BY <1>1 DEF Holding
<1>7. RefBound'
  BY <1>0, <1>6, RefFrame DEF Base, SessTo
<1>8. KnownInv' /\ OpenedInv'
  <2>1. \A m \in Nodes : node[m].st # "none" => node'[m].st # "none"
    BY DEF SessTo, KeepSt
  <2>2. thr'.at \in WithNode => thr.at \in WithNode /\ thr'.n = thr.n
    BY <1>1 DEF WithNode, Holding
  <2> QED BY <1>0, <2>1, <2>2, KnownFrame, OpenedFrame DEF Base
<1>9. ASSUME Sane' PROVE SaneInv'
  <2>0. Sane /\ SaneInv /\ bad' = bad
    BY <1>9, StaysSane, TouchOK DEF ThreadTouch, Holding
  <2>1. UseInv'
    BY <2>0 DEF SaneInv, UseInv
  <2>2. HoldInv'
    <3>1. thr'.at \notin {"driver", "probe", "dequeue"} /\ (thr'.at \in WithNode => thr'.n \in Nodes)
      BY <1>0, <1>1
    <3> QED BY <1>0, <1>6, <2>0, <3>1, HoldFrame DEF Base, SaneInv, SessTo
  <2>3. OutInv'
    <3>1. node[thr.n].st = "listed"
      BY <2>0 DEF SaneInv, HoldInv, Holding
    <3>2. \A m \in Nodes : node[m].st = "out" =>
                node'[m].sess \subseteq node[m].sess /\ node'[m].bufs \subseteq node[m].bufs
      BY <3>1 DEF SessTo
    <3> QED BY <1>0, <2>0, <3>2, OutFrame DEF Base, SaneInv, SessTo
  <2>4. SessInv'
    BY <2>0
  <2>5. BufInv'
    <3>1. \A m \in Nodes : node'[m].bufs = node[m].bufs /\ node'[m].smem = node[m].smem
                           /\ node'[m].st = node[m].st
      BY DEF SessTo, KeepBufs, KeepSt
    <3> QED BY <1>0, <2>0, <3>1, BufFrame DEF SaneInv
  <2>6. NameInv'
    BY <2>0, NameFrame DEF SaneInv, SessTo, KeepSt
  <2>7. HandleInv'
    BY <1>0, <2>0, HandleFrame DEF SaneInv, SessTo
  <2> QED BY <2>1, <2>2, <2>3, <2>4, <2>5, <2>6, <2>7 DEF SaneInv
<1> QED BY <1>2, <1>3, <1>4, <1>5, <1>7, <1>8, <1>9 DEF NodeInv, Base

LEMMA OpenSessionStep ==
    ASSUME NodeInv, OpenSession PROVE NodeInv'
<1>0. /\ thr.at = "work" /\ thr.cmd = "create" /\ Base /\ Typed /\ InstOK /\ ThrOK /\ ThreadTouch
      /\ UNCHANGED <<alive, gaveUp, used, buf, own, probe, act>>
  BY DEF OpenSession, AtWork, NodeInv, Base, Typed, Touch, ThreadTouch
<1> DEFINE i == thr.i
           n == thr.n
<1>1. i \in Insts /\ n \in Nodes /\ inst[i] = "none" /\ node[n].st # "none"
  BY <1>0 DEF Base, ThreadInv, WithNode, Holding, SessCmds, NewThings, KnownInv
<1>2. ASSUME node' = PutRef(node, n), Finish,
             inst' \in {inst} \cup (IF node[n].dev THEN {[inst EXCEPT ![i] = "lost"]} ELSE {})
      PROVE  NodeInv'
  <2>1. ThrIdle /\ ThreadInv' /\ NewThings' /\ thr'.at \notin WithNode \cup {"register", "unregister"}
    BY <1>2, ThrFinishes, IdleOK
  <2>2. inst' = inst \/ inst' = [inst EXCEPT ![i] = "lost"]
    BY <1>2
  <2>3. /\ InstOK' /\ \A j \in Insts : inst[j] # "none" => inst'[j] # "none"
        /\ \A j \in Insts : (inst'[j] = "open") <=> (inst[j] = "open")
    BY <1>0, <1>1, <2>2 DEF InstOK
  <2>4. thr.at \in Holding \ {"close"} /\ thr'.at = "idle" /\ thr'.at \notin Holding /\ ThrOK'
    BY <1>0, <2>1 DEF Holding, ThrIdle
  <2> QED BY <1>0, <1>2, <2>1, <2>3, <2>4, PutStep
<1>3. ASSUME inst' = [inst EXCEPT ![i] = "open"], thr' = [thr EXCEPT !.at = "created"],
             node' = [node EXCEPT ![n].sess = @ \cup {i}, ![n].cnt = @ + 1]
      PROVE  NodeInv'
  <2>1. SessTo(n, node[n].sess \cup {i}, node[n].cnt + 1)
    BY <1>0, <1>1, <1>3, EnlistEffect DEF Typed
  <2>2. ThrTo("created", n)
    BY <1>0, <1>3, ThrGoes DEF Ats
  <2>3. InstOK' /\ inst'[i] = "open" /\ \A j \in Insts : j # i => inst'[j] = inst[j]
    BY <1>0, <1>1, <1>3 DEF InstOK
  <2>4. \A m \in Nodes : i \notin node[m].sess /\ node[m].sess \subseteq Insts
    BY <1>0, <1>1 DEF Base, CountBound, Typed, NodeOK, NodeRec
  <2>5. CountBound'
    <3>1. ASSUME NEW m \in Nodes
          PROVE  /\ node'[m].cnt = Cardinality(node'[m].sess)
                 /\ \A j \in node'[m].sess : inst'[j] # "none"
      <4>1. CASE m = n
        <5>1. Cardinality(node[n].sess \cup {i}) = Cardinality(node[n].sess) + 1
          BY <1>1, <2>4, SessCard, AddCard
        <5>2. node'[n].sess = node[n].sess \cup {i} /\ node'[n].cnt = node[n].cnt + 1
          BY <2>1 DEF SessTo
        <5>3. node[n].cnt = Cardinality(node[n].sess) /\ \A j \in node[n].sess : inst[j] # "none"
          BY <1>0, <1>1 DEF Base, CountBound
        <5> QED BY <1>1, <2>3, <2>4, <4>1, <5>1, <5>2, <5>3
      <4>2. CASE m # n
        BY <1>0, <2>1, <2>3, <2>4, <4>2 DEF Base, CountBound, SessTo
      <4> QED BY <4>1, <4>2
    <3>2. ASSUME NEW m \in Nodes
          PROVE  /\ \A b \in node'[m].bufs : buf'[b] # "none"
                 /\ Cardinality(node'[m].bufs) <= node'[m].smem
                 /\ node'[m].smem <= Cardinality(Taken)'
                 /\ node'[m].st = "none" => node'[m] = NoNode
      <4>1. Taken' = Taken
        BY <1>0 DEF Taken
      <4>2. node'[m].bufs = node[m].bufs /\ node'[m].smem = node[m].smem
            /\ (node'[m].st = "none" => node'[m] = node[m] /\ node[m].st = "none")
        BY <1>1, <2>1 DEF SessTo, KeepBufs, KeepSt
      <4> QED BY <1>0, <4>1, <4>2 DEF Base, CountBound
    <3> QED BY <3>1, <3>2 DEF CountBound
  <2>6. ASSUME SaneInv PROVE SessInv'
    <3>0. /\ node'[n].sess = node[n].sess \cup {i} /\ \A m \in Nodes : m # n => node'[m].sess = node[m].sess
          /\ \A m \in Nodes : node'[m].st = node[m].st
          /\ node[n].st = "listed"
      BY <1>0, <1>1, <2>1, <2>6 DEF SessTo, KeepSt, SaneInv, HoldInv, Holding
    <3>1. \A j \in Insts : ~Closing(j)' /\ ~Closing(j)
      BY <1>0, <2>2 DEF Closing, ThrTo
    <3>2. \A j \in Insts, a \in Actors : (ClosingBy(a, j)' <=> ClosingBy(a, j)) /\ ~ClosingBy(a, i)
      BY <1>0, <1>1, <2>6 DEF ClosingBy, SaneInv, SessInv
    <3>3. \A m \in Nodes : \A j \in node'[m].sess : node'[m].st \in {"listed", "out"} /\ inst'[j] = "open"
      BY <2>3, <2>4, <2>6, <3>0 DEF SaneInv, SessInv
    <3>4. \A m, k \in Nodes : \A j \in Insts : j \in node'[m].sess /\ j \in node'[k].sess => m = k
      BY <2>4, <2>6, <3>0 DEF SaneInv, SessInv
    <3>5. ASSUME NEW j \in Insts, NEW a \in Actors, ClosingBy(a, j)'
          PROVE  inst'[j] = "open" /\ \A m \in Nodes : j \notin node'[m].sess
      <4>1. ClosingBy(a, j) /\ j # i
        BY <3>2, <3>5
      <4>2. inst[j] = "open" /\ \A m \in Nodes : j \notin node[m].sess
        BY <2>6, <4>1 DEF SaneInv, SessInv
      <4> QED BY <2>3, <3>0, <4>1, <4>2
    <3>6. \A j \in Insts, a, b \in Actors : ClosingBy(a, j)' /\ ClosingBy(b, j)' => a = b
      BY <2>6, <3>2 DEF SaneInv, SessInv
    <3>7. ASSUME NEW j \in Insts, inst'[j] = "open"
          PROVE  (\E m \in Nodes : j \in node'[m].sess) \/ \E a \in Actors : ClosingBy(a, j)'
      <4>1. CASE j = i
        BY <1>1, <3>0, <4>1
      <4>2. CASE j # i
        <5>1. (\E m \in Nodes : j \in node[m].sess) \/ \E a \in Actors : ClosingBy(a, j)
          BY <2>3, <2>6, <3>1, <3>7, <4>2 DEF SaneInv, SessInv
        <5>2. \A m \in Nodes : node[m].sess \subseteq node'[m].sess
          BY <3>0
        <5> QED BY <3>2, <5>1, <5>2
      <4> QED BY <4>1, <4>2
    <3>8. thr'.i \in node'[thr'.n].sess
      BY <1>1, <2>2, <3>0 DEF ThrTo
    <3> QED BY <3>1, <3>3, <3>4, <3>5, <3>6, <3>7, <3>8 DEF SessInv
  <2>7. \A j \in Insts : inst[j] # "none" => inst'[j] # "none"
    BY <2>3
  <2> QED BY <1>0, <2>1, <2>2, <2>3, <2>5, <2>6, <2>7, ListStep
<1> QED BY <1>2, <1>3 DEF OpenSession

\* The thread takes a session out of the list, to close it.
LEMMA DelistStep ==
    ASSUME NodeInv, thr.at \in {"work", "created"}, thr.cmd \in {"create", "delete"},
           node' = Delist(thr.n, thr.i), thr' = [thr EXCEPT !.at = "close"],
           thr.i \in node[thr.n].sess,
           UNCHANGED <<alive, gaveUp, used, inst, buf, own, probe, act>>, ThreadTouch
    PROVE  NodeInv'
<1>0. Base /\ Typed /\ ThrOK /\ InstOK
  BY DEF NodeInv, Base, Typed
<1> DEFINE i == thr.i
           n == thr.n
<1>1. n \in Nodes /\ i \in Insts /\ node[n].st # "none"
  BY <1>0 DEF Base, ThreadInv, WithNode, Holding, KnownInv, SessCmds
<1>2. SessTo(n, node[n].sess \ {i}, node[n].cnt - 1)
  BY <1>0, <1>1, DelistEffect DEF Base, Typed
<1>3. ThrTo("close", n)
  BY <1>0, ThrGoes DEF Ats
<1>4. CountBound'
  BY <1>0, <1>1, <1>2, DelistCount DEF Base, Typed
<1>5. ASSUME SaneInv PROVE SessInv'
  <2>0. /\ node'[n].sess = node[n].sess \ {i} /\ \A m \in Nodes : m # n => node'[m].sess = node[m].sess
        /\ \A m \in Nodes : node'[m].st = node[m].st
        /\ \A m \in Nodes : node[m].sess \subseteq Insts
    BY <1>0, <1>1, <1>2 DEF SessTo, KeepSt, Typed, NodeOK, NodeRec
  <2>1. \A j \in Insts : (Closing(j)' <=> j = i) /\ ~Closing(j)
    BY <1>3 DEF Closing, ThrTo
  <2>2. \A j \in Insts, a \in Actors : (ClosingBy(a, j)' <=> ClosingBy(a, j)) /\ ~ClosingBy(a, i)
    BY <1>1, <1>5 DEF ClosingBy, SaneInv, SessInv
  <2>3. inst[i] = "open" /\ \A m \in Nodes : i \notin node'[m].sess
    BY <1>1, <1>5, <2>0 DEF SaneInv, SessInv
  <2>4. \A m \in Nodes : \A j \in node'[m].sess : node'[m].st \in {"listed", "out"} /\ inst'[j] = "open"
    BY <1>5, <2>0 DEF SaneInv, SessInv
  <2>5. \A m, k \in Nodes : \A j \in Insts : j \in node'[m].sess /\ j \in node'[k].sess => m = k
    BY <1>5, <2>0 DEF SaneInv, SessInv
  <2>6. ASSUME NEW j \in Insts, NEW a \in Actors, ClosingBy(a, j)'
        PROVE  inst'[j] = "open" /\ ~Closing(j)' /\ \A m \in Nodes : j \notin node'[m].sess
    <3>1. ClosingBy(a, j) /\ j # i
      BY <2>2, <2>6
    <3>2. inst[j] = "open" /\ \A m \in Nodes : j \notin node[m].sess
      BY <1>5, <3>1 DEF SaneInv, SessInv
    <3> QED BY <2>0, <2>1, <3>1, <3>2
  <2>7. \A j \in Insts, a, b \in Actors : ClosingBy(a, j)' /\ ClosingBy(b, j)' => a = b
    BY <1>5, <2>2 DEF SaneInv, SessInv
  <2>8. ASSUME NEW j \in Insts, inst'[j] = "open"
        PROVE  (\E m \in Nodes : j \in node'[m].sess) \/ Closing(j)' \/ \E a \in Actors : ClosingBy(a, j)'
    <3>1. CASE j = i
      BY <2>1, <3>1
    <3>2. CASE j # i
      <4>1. (\E m \in Nodes : j \in node[m].sess) \/ \E a \in Actors : ClosingBy(a, j)
        BY <1>5, <2>1, <2>8 DEF SaneInv, SessInv
      <4>2. \A m \in Nodes : j \in node[m].sess => j \in node'[m].sess
        BY <2>0, <3>2
      <4> QED BY <2>2, <4>1, <4>2
    <3> QED BY <3>1, <3>2
  <2>9. thr'.at # "created"
    BY <1>3 DEF ThrTo
  <2> QED BY <2>1, <2>3, <2>4, <2>5, <2>6, <2>7, <2>8, <2>9 DEF SessInv
<1>6. InstOK'
  BY <1>0 DEF InstOK
<1> QED BY <1>0, <1>2, <1>3, <1>4, <1>5, <1>6, ListStep

LEMMA SessionCreatedStep ==
    ASSUME NodeInv, SessionCreated PROVE NodeInv'
<1>0. /\ thr.at = "created" /\ thr.cmd = "create" /\ Base /\ Typed /\ ThrOK /\ InstOK /\ ThreadTouch
      /\ UNCHANGED <<alive, gaveUp, used, inst, buf, own, probe, act>>
  BY DEF SessionCreated, NodeInv, Base, Typed, Touch, ThreadTouch, ThreadInv
<1>1. CASE node' = PutRef(node, thr.n) /\ Finish
  BY <1>0, <1>1, PutFinish DEF Holding
<1>2. CASE node' = Delist(thr.n, thr.i) /\ thr' = [thr EXCEPT !.at = "close"] /\ thr.i \in node[thr.n].sess
  BY <1>0, <1>2, DelistStep
<1>3. CASE node' = Delist(thr.n, thr.i) /\ thr' = [thr EXCEPT !.at = "close"] /\ thr.i \notin node[thr.n].sess
  <2>0. thr.n \in Nodes
    BY <1>0 DEF Base, ThreadInv, WithNode, Holding
  <2>1. ThrTo("close", thr.n)
    BY <1>0, <1>3, ThrGoes DEF Ats
  <2>2. NodesStay /\ node' = node
    BY <1>0, <1>3, NodeUnchanged DEF Delist, Typed
  <2>3. SessTo(thr.n, node[thr.n].sess, node[thr.n].cnt)
    BY <2>0, <2>2 DEF SessTo, NodesStay
  <2>4. CountBound'
    BY <1>0, <2>2, CountFrame DEF Base, Typed, NodesStay
  <2>5. ~SaneInv
    BY <1>0, <1>3 DEF SaneInv, SessInv
  <2>6. InstOK'
    BY <1>0 DEF InstOK
  <2> QED BY <1>0, <2>1, <2>3, <2>4, <2>5, <2>6, ListStep
<1> QED BY <1>1, <1>2, <1>3 DEF SessionCreated

LEMMA DeleteSessionStep ==
    ASSUME NodeInv, DeleteSession PROVE NodeInv'
<1>0. /\ thr.at = "work" /\ thr.cmd = "delete" /\ ThreadTouch
      /\ UNCHANGED <<alive, gaveUp, used, inst, buf, own, probe, act>>
  BY DEF DeleteSession, AtWork, Touch, ThreadTouch
<1>1. CASE thr.i \in node[thr.n].sess /\ node' = Delist(thr.n, thr.i) /\ thr' = [thr EXCEPT !.at = "close"]
  BY <1>0, <1>1, DelistStep
<1>2. CASE node' = PutRef(node, thr.n) /\ Finish
  BY <1>0, <1>2, PutFinish DEF Holding
<1> QED BY <1>1, <1>2 DEF DeleteSession

-----------------------------------------------------------------------------
\* The buffers of the thread.

\* A step in which the thread changes the list of buffers of its node, gives its
\* reference back and is done.
LEMMA BufsStep ==
    ASSUME NodeInv, thr.at = "work", NEW S, NEW c, BufsTo(thr.n, S, c),
           node'[thr.n].ref = Dec(node[thr.n].ref), Finish,
           UNCHANGED <<alive, gaveUp, used, inst, probe, act>>, BufOK', ThreadTouch,
           CountBound', SaneInv => BufInv'
    PROVE  NodeInv'
<1>0. Base /\ Typed /\ thr.n \in Nodes /\ node[thr.n].st # "none" /\ thr.at \in Holding
  BY DEF NodeInv, Base, ThreadInv, WithNode, Holding, KnownInv
<1>1. /\ ThrIdle /\ ThreadInv' /\ NewThings' /\ thr'.at = "idle" /\ thr'.at \notin Holding /\ ThrOK'
      /\ thr'.at \notin WithNode
  BY ThrFinishes, IdleOK DEF ThrIdle, Holding, WithNode
<1>2. Typed'
  <2>1. SetsOK'
    BY <1>0 DEF Typed, SetsOK, ThreadTouch
  <2> QED BY <1>0, <1>1, <2>1 DEF Typed, InstOK, BufsTo, ActOK
<1>3. RegisterInv' /\ RemoverInv'
  BY <1>0, <1>1, RemoverFrame DEF Base, RegisterInv
<1>4. OtherRefs(thr.n)
  BY DEF OtherRefs, BufsTo
<1>5. RefBound'
  BY <1>0, <1>1, <1>4, RefPut DEF Base, Typed
<1>6. KnownInv' /\ OpenedInv'
  <2>1. \A m \in Nodes : node[m].st # "none" => node'[m].st # "none"
    BY DEF BufsTo, KeepSt
  <2> QED BY <1>0, <1>1, <2>1, KnownFrame, OpenedFrame DEF Base
<1>7. ASSUME Sane' PROVE SaneInv'
  <2>0. Sane /\ SaneInv /\ bad' = bad
    BY <1>0, <1>7, StaysSane, TouchOK DEF ThreadTouch
  <2>1. UseInv'
    BY <2>0 DEF SaneInv, UseInv
  <2>2. HoldInv'
    BY <1>0, <1>1, <1>4, <2>0, HoldPut DEF SaneInv, BufsTo
  <2>3. OutInv'
    <3>1. node[thr.n].st = "listed"
      BY <1>0, <2>0 DEF SaneInv, HoldInv
    <3>2. \A m \in Nodes : node[m].st = "out" =>
                node'[m].sess \subseteq node[m].sess /\ node'[m].bufs \subseteq node[m].bufs
      BY <3>1 DEF BufsTo
    <3> QED BY <1>0, <2>0, <3>2, OutFrame DEF Base, SaneInv, BufsTo
  <2>4. SessInv'
    <3>1. \A m \in Nodes : node'[m].sess = node[m].sess /\ node'[m].st = node[m].st
      BY DEF BufsTo, KeepSess, KeepSt
    <3> QED BY <1>0, <1>1, <2>0, <3>1, SessFrame DEF Base, SaneInv
  <2>5. BufInv'
    BY <2>0
  <2>6. NameInv'
    BY <2>0, NameFrame DEF SaneInv, BufsTo, KeepSt
  <2>7. HandleInv'
    BY <1>0, <2>0, HandleFrame DEF SaneInv, BufsTo
  <2> QED BY <2>1, <2>2, <2>3, <2>4, <2>5, <2>6, <2>7 DEF SaneInv
<1> QED BY <1>1, <1>2, <1>3, <1>5, <1>6, <1>7 DEF NodeInv, Base

LEMMA AddBufferStep ==
    ASSUME NodeInv, NEW cmd \in {"alloc", "map"}, NEW o \in {"DSP", "CLIENT"}, AddBuffer(cmd, o)
    PROVE  NodeInv'
<1>0. /\ thr.at = "work" /\ thr.cmd = cmd /\ ThreadTouch /\ Finish /\ Base /\ Typed
      /\ UNCHANGED <<alive, gaveUp, used, inst, probe, act>>
  BY DEF AddBuffer, AtWork, Touch, ThreadTouch, NodeInv, Base
<1>1. CASE node' = PutRef(node, thr.n) /\ UNCHANGED <<buf, own>>
  BY <1>0, <1>1, PutFinish DEF Holding
<1>2. CASE /\ node' = PutRef([node EXCEPT ![thr.n].bufs = @ \cup {thr.b}, ![thr.n].smem = @ + 1], thr.n)
           /\ buf' = [buf EXCEPT ![thr.b] = "mapped"]
           /\ own' = [own EXCEPT ![thr.b] = o]
  <2> DEFINE n == thr.n
             b == thr.b
  <2>1. n \in Nodes /\ b \in Bufs /\ buf[b] = "none" /\ node[n].st # "none" /\ thr.at \in Holding
    BY <1>0 DEF Base, ThreadInv, WithNode, Holding, BufCmds, NewThings, KnownInv
  <2>2. BufsTo(n, node[n].bufs \cup {b}, node[n].smem + 1) /\ node'[n].ref = Dec(node[n].ref)
    BY <1>0, <1>2, <2>1, AddBufEffect DEF Typed
  <2>3. BufOK' /\ buf'[b] = "mapped" /\ \A x \in Bufs : x # b => buf'[x] = buf[x]
    BY <1>0, <1>2, <2>1 DEF Typed, BufOK
  <2>4. \A m \in Nodes : b \notin node[m].bufs /\ node[m].bufs \in SUBSET Bufs /\ node[m].smem \in Nat
    BY <1>0, <2>1 DEF Base, CountBound, Typed, NodeOK, NodeRec
  <2>5. CountBound'
    <3>1. Taken' = Taken \cup {b} /\ b \notin Taken /\ Taken \in SUBSET Bufs
      BY <2>1, <2>3 DEF Taken
    <3>2. Cardinality(Taken') = Cardinality(Taken) + 1 /\ Cardinality(Taken) \in Nat
      BY <2>1, <3>1, BufCard, AddCard
    <3>3. ASSUME NEW m \in Nodes
          PROVE  /\ node'[m].cnt = Cardinality(node'[m].sess)
                 /\ \A j \in node'[m].sess : inst'[j] # "none"
                 /\ node'[m].st = "none" => node'[m] = NoNode
      <4>1. node'[m].sess = node[m].sess /\ node'[m].cnt = node[m].cnt
            /\ (node'[m].st = "none" => node'[m] = node[m] /\ node[m].st = "none")
        BY <2>1, <2>2 DEF BufsTo, KeepSess, KeepSt
      <4> QED BY <1>0, <4>1 DEF Base, CountBound
    <3>4. ASSUME NEW m \in Nodes
          PROVE  /\ \A x \in node'[m].bufs : buf'[x] # "none"
                 /\ Cardinality(node'[m].bufs) <= node'[m].smem
                 /\ node'[m].smem <= Cardinality(Taken')
      <4>0. /\ \A x \in node[m].bufs : buf[x] # "none" /\ x \in Bufs
            /\ Cardinality(node[m].bufs) <= node[m].smem
            /\ node[m].smem <= Cardinality(Taken)
            /\ Cardinality(node[m].bufs) \in Nat /\ IsFiniteSet(node[m].bufs)
        BY <1>0, <2>4, BufCard DEF Base, CountBound
      <4>1. CASE m = n
        <5>1. Cardinality(node[n].bufs \cup {b}) = Cardinality(node[n].bufs) + 1
          BY <2>4, <4>0, <4>1, AddCard
        <5>2. node'[n].bufs = node[n].bufs \cup {b} /\ node'[n].smem = node[n].smem + 1
          BY <2>2 DEF BufsTo
        <5> QED BY <2>1, <2>3, <2>4, <3>2, <4>0, <4>1, <5>1, <5>2
      <4>2. CASE m # n
        <5>1. node'[m] = node[m]
          BY <2>2, <4>2 DEF BufsTo
        <5> QED BY <2>3, <2>4, <3>2, <4>0, <5>1
      <4> QED BY <4>1, <4>2
    <3> QED BY <3>3, <3>4 DEF CountBound
  <2>6. ASSUME SaneInv PROVE BufInv'
    <3>0. /\ node'[n].bufs = node[n].bufs \cup {b} /\ node'[n].smem = node[n].smem + 1
          /\ \A m \in Nodes : m # n => node'[m].bufs = node[m].bufs /\ node'[m].smem = node[m].smem
          /\ \A m \in Nodes : node'[m].st = node[m].st
          /\ node[n].st = "listed"
      BY <2>1, <2>2, <2>6 DEF BufsTo, KeepSt, SaneInv, HoldInv
    <3>1. \A m \in Nodes : \A x \in node'[m].bufs : node'[m].st \in {"listed", "out"} /\ buf'[x] = "mapped"
      BY <2>3, <2>4, <2>6, <3>0 DEF SaneInv, BufInv
    <3>2. \A m, k \in Nodes : \A x \in Bufs : x \in node'[m].bufs /\ x \in node'[k].bufs => m = k
      BY <2>4, <2>6, <3>0 DEF SaneInv, BufInv
    <3>3. ASSUME NEW x \in Bufs, buf'[x] = "mapped" PROVE \E m \in Nodes : x \in node'[m].bufs
      <4>1. CASE x = b
        BY <2>1, <3>0, <4>1
      <4>2. CASE x # b
        <5>1. PICK m \in Nodes : x \in node[m].bufs
          BY <2>3, <2>6, <3>3, <4>2 DEF SaneInv, BufInv
        <5> QED BY <3>0, <5>1
      <4> QED BY <4>1, <4>2
    <3>4. ASSUME NEW m \in Listed' PROVE node'[m].smem = Cardinality(node'[m].bufs)
      <4>0. m \in Nodes /\ m \in Listed
        BY <3>0, <3>4 DEF Listed
      <4>1. node[m].smem = Cardinality(node[m].bufs) /\ IsFiniteSet(node[m].bufs)
        BY <2>4, <2>6, <4>0, BufCard DEF SaneInv, BufInv
      <4>2. CASE m = n
        <5>1. Cardinality(node[n].bufs \cup {b}) = Cardinality(node[n].bufs) + 1
          BY <2>1, <2>4, <4>1, <4>2, AddCard
        <5> QED BY <3>0, <4>1, <4>2, <5>1
      <4>3. CASE m # n
        BY <3>0, <4>0, <4>1, <4>3
      <4> QED BY <4>2, <4>3
    <3> QED BY <3>1, <3>2, <3>3, <3>4 DEF BufInv
  <2> QED BY <1>0, <2>2, <2>3, <2>5, <2>6, BufsStep
<1> QED BY <1>1, <1>2 DEF AddBuffer

LEMMA DelBufferStep ==
    ASSUME NodeInv, NEW cmd \in {"free", "unmap"}, DelBuffer(cmd)
    PROVE  NodeInv'
<1>0. /\ thr.at = "work" /\ thr.cmd = cmd /\ ThreadTouch /\ Finish /\ Base /\ Typed
      /\ UNCHANGED <<alive, gaveUp, used, inst, own, probe, act>>
  BY DEF DelBuffer, AtWork, Touch, ThreadTouch, NodeInv, Base
<1>1. CASE node' = PutRef(node, thr.n) /\ UNCHANGED buf
  BY <1>0, <1>1, PutFinish DEF Holding
<1>2. CASE /\ thr.b \in node[thr.n].bufs
           /\ node' = PutRef([node EXCEPT ![thr.n].bufs = @ \ {thr.b}, ![thr.n].smem = @ - 1], thr.n)
           /\ buf' = [buf EXCEPT ![thr.b] = "freed"]
  <2> DEFINE n == thr.n
             b == thr.b
  <2>1. n \in Nodes /\ b \in Bufs /\ b \in node[n].bufs /\ node[n].st # "none" /\ thr.at \in Holding
    BY <1>0, <1>2 DEF Base, ThreadInv, WithNode, Holding, BufCmds, NewThings, KnownInv
  <2>2. BufsTo(n, node[n].bufs \ {b}, node[n].smem - 1) /\ node'[n].ref = Dec(node[n].ref)
    BY <1>0, <1>2, <2>1, DropBufEffect DEF Base, Typed
  <2>3. BufOK' /\ buf'[b] = "freed" /\ \A x \in Bufs : x # b => buf'[x] = buf[x]
    BY <1>0, <1>2, <2>1 DEF Typed, BufOK
  <2>4. \A m \in Nodes : node[m].bufs \in SUBSET Bufs /\ node[m].smem \in Nat
    BY <1>0 DEF Typed, NodeOK, NodeRec
  <2>5. CountBound'
    <3>1. Taken' = Taken /\ Taken \in SUBSET Bufs
      <4>1. buf[b] # "none"
        BY <1>0, <2>1 DEF Base, CountBound
      <4> QED BY <2>1, <2>3, <4>1 DEF Taken
    <3>2. Cardinality(Taken) \in Nat
      BY <3>1, BufCard
    <3>3. ASSUME NEW m \in Nodes
          PROVE  /\ node'[m].cnt = Cardinality(node'[m].sess)
                 /\ \A j \in node'[m].sess : inst'[j] # "none"
                 /\ node'[m].st = "none" => node'[m] = NoNode
      <4>1. node'[m].sess = node[m].sess /\ node'[m].cnt = node[m].cnt
            /\ (node'[m].st = "none" => node'[m] = node[m] /\ node[m].st = "none")
        BY <2>1, <2>2 DEF BufsTo, KeepSess, KeepSt
      <4> QED BY <1>0, <4>1 DEF Base, CountBound
    <3>4. ASSUME NEW m \in Nodes
          PROVE  /\ \A x \in node'[m].bufs : buf'[x] # "none"
                 /\ Cardinality(node'[m].bufs) <= node'[m].smem
                 /\ node'[m].smem <= Cardinality(Taken')
      <4>0. /\ \A x \in node[m].bufs : buf[x] # "none" /\ x \in Bufs
            /\ Cardinality(node[m].bufs) <= node[m].smem
            /\ node[m].smem <= Cardinality(Taken)
            /\ Cardinality(node[m].bufs) \in Nat /\ IsFiniteSet(node[m].bufs)
        BY <1>0, <2>4, BufCard DEF Base, CountBound
      <4>1. CASE m = n
        <5>1. Cardinality(node[n].bufs \ {b}) = Cardinality(node[n].bufs) - 1
          BY <2>1, <4>0, <4>1, RemoveCard
        <5>2. node'[n].bufs = node[n].bufs \ {b} /\ node'[n].smem = node[n].smem - 1
          BY <2>2 DEF BufsTo
        <5> QED BY <2>1, <2>3, <2>4, <3>1, <3>2, <4>0, <4>1, <5>1, <5>2
      <4>2. CASE m # n
        <5>1. node'[m] = node[m]
          BY <2>2, <4>2 DEF BufsTo
        <5> QED BY <2>3, <2>4, <3>1, <3>2, <4>0, <5>1
      <4> QED BY <4>1, <4>2
    <3> QED BY <3>3, <3>4 DEF CountBound
  <2>6. ASSUME SaneInv PROVE BufInv'
    <3>0. /\ node'[n].bufs = node[n].bufs \ {b} /\ node'[n].smem = node[n].smem - 1
          /\ \A m \in Nodes : m # n => node'[m].bufs = node[m].bufs /\ node'[m].smem = node[m].smem
          /\ \A m \in Nodes : node'[m].st = node[m].st
      BY <2>1, <2>2 DEF BufsTo, KeepSt
    <3>a. \A m \in Nodes : b \notin node'[m].bufs
      BY <2>1, <2>6, <3>0 DEF SaneInv, BufInv
    <3>b. \A m \in Nodes : node'[m].bufs \subseteq node[m].bufs
      BY <3>0
    <3>1. \A m \in Nodes : \A x \in node'[m].bufs : node'[m].st \in {"listed", "out"} /\ buf'[x] = "mapped"
      BY <2>3, <2>4, <2>6, <3>0, <3>a, <3>b DEF SaneInv, BufInv
    <3>2. \A m, k \in Nodes : \A x \in Bufs : x \in node'[m].bufs /\ x \in node'[k].bufs => m = k
      BY <2>6, <3>b DEF SaneInv, BufInv
    <3>3. ASSUME NEW x \in Bufs, buf'[x] = "mapped" PROVE \E m \in Nodes : x \in node'[m].bufs
      <4>1. x # b
        BY <2>3, <3>3
      <4>2. PICK m \in Nodes : x \in node[m].bufs
        BY <2>3, <2>6, <3>3, <4>1 DEF SaneInv, BufInv
      <4> QED BY <3>0, <4>1, <4>2
    <3>4. ASSUME NEW m \in Listed' PROVE node'[m].smem = Cardinality(node'[m].bufs)
      <4>0. m \in Nodes /\ m \in Listed
        BY <3>0, <3>4 DEF Listed
      <4>1. node[m].smem = Cardinality(node[m].bufs) /\ IsFiniteSet(node[m].bufs)
        BY <2>4, <2>6, <4>0, BufCard DEF SaneInv, BufInv
      <4>2. CASE m = n
        <5>1. Cardinality(node[n].bufs \ {b}) = Cardinality(node[n].bufs) - 1
          BY <2>1, <4>1, <4>2, RemoveCard
        <5> QED BY <3>0, <4>1, <4>2, <5>1
      <4>3. CASE m # n
        BY <3>0, <4>0, <4>1, <4>3
      <4> QED BY <4>2, <4>3
    <3> QED BY <3>1, <3>2, <3>3, <3>4 DEF BufInv
  <2> QED BY <1>0, <2>2, <2>3, <2>5, <2>6, BufsStep
<1> QED BY <1>1, <1>2 DEF DelBuffer

-----------------------------------------------------------------------------
\* The driver of the node is registered.
LEMMA RegisterDriverStep ==
    ASSUME NodeInv, RegisterDriver PROVE NodeInv'
<1>0. /\ thr.at = "driver" /\ Base /\ Typed /\ ThrOK
      /\ UNCHANGED <<alive, gaveUp, used, inst, buf, own, probe, act, bad>>
  BY DEF RegisterDriver, NodeInv, Base, Typed
<1>1. CASE node' = PutRef(node, thr.n) /\ thr' = [thr EXCEPT !.at = "dequeue"]
  BY <1>0, <1>1, ToDequeue
<1>2. CASE node' = [node EXCEPT ![thr.n].reg = TRUE] /\ thr' = [thr EXCEPT !.at = "probe"]
  <2>0. thr.n \in Nodes /\ node[thr.n].st # "none"
    BY <1>0 DEF Base, ThreadInv, KnownInv, WithNode, Holding
  <2>1. NodesStay
    BY <1>0, <1>2, <2>0, RegEffect DEF Typed
  <2>2. ThrTo("probe", thr.n)
    BY <1>0, <1>2, ThrGoes DEF Ats
  <2>3. ThreadInv'
    BY <1>0, <2>2 DEF Base, ThreadInv, ThrTo, WithNode, Holding
  <2>4. NewThings'
    BY <1>0, <2>2 DEF Base, NewThings, ThrTo
  <2>5. Typed'
    <3>1. SetsOK'
      BY <1>0 DEF Typed, SetsOK
    <3> QED BY <1>0, <2>1, <2>2, <3>1 DEF Typed, InstOK, BufOK, NodesStay, ActOK, ThrTo
  <2>6. RegisterInv' /\ RemoverInv'
    BY <1>0, <2>2, RemoverFrame DEF Base, RegisterInv, ThrTo
  <2>7. \A m \in Nodes : (thr'.n = m /\ thr'.at \in Holding) <=> (thr.n = m /\ thr.at \in Holding)
    BY <1>0, <2>2 DEF ThrTo, Holding
  <2>8. RefBound'
    BY <1>0, <2>1, <2>7, RefFrame DEF Base, NodesStay
  <2>9. CountBound'
    BY <1>0, <2>1, CountFrame DEF Base, NodesStay, Typed
  <2>10. KnownInv' /\ OpenedInv'
    <3>1. \A m \in Nodes : node[m].st # "none" => node'[m].st # "none"
      BY <2>1 DEF NodesStay, KeepSt
    <3>2. thr'.at \in WithNode => thr.at \in WithNode /\ thr'.n = thr.n
      BY <1>0, <2>2 DEF ThrTo, WithNode, Holding
    <3> QED BY <1>0, <3>1, <3>2, KnownFrame, OpenedFrame DEF Base
  <2>11. ASSUME Sane' PROVE SaneInv'
    <3>0. Sane /\ SaneInv
      BY <1>0, <2>11, StaysSane
    <3>1. \A m \in Nodes : /\ node'[m].sess = node[m].sess /\ node'[m].st = node[m].st
                           /\ node'[m].bufs = node[m].bufs /\ node'[m].smem = node[m].smem
      BY <2>1 DEF NodesStay, KeepSess, KeepSt, KeepBufs
    <3>2. UseInv'
      BY <1>0, <3>0 DEF SaneInv, UseInv
    <3>3. HoldInv'
      BY <1>0, <2>0, <2>1, <2>2, <2>7, <3>0, <3>1, HoldFrame DEF Base, SaneInv, NodesStay, ThrTo
    <3>4. OutInv'
      BY <1>0, <2>1, <3>0, <3>1, OutFrame DEF Base, SaneInv, NodesStay
    <3>5. SessInv'
      <4>1. thr.at # "close" /\ thr'.at \notin {"close", "created"}
        BY <1>0, <2>2 DEF ThrTo
      <4> QED BY <1>0, <3>0, <3>1, <4>1, SessFrame DEF Base, SaneInv
    <3>6. BufInv'
      BY <1>0, <3>0, <3>1, BufFrame DEF SaneInv
    <3>7. NameInv' /\ HandleInv'
      BY <1>0, <2>1, <3>0, <3>1, NameFrame, HandleFrame DEF SaneInv, NodesStay
    <3> QED BY <3>2, <3>3, <3>4, <3>5, <3>6, <3>7 DEF SaneInv
  <2> QED BY <2>2, <2>3, <2>4, <2>5, <2>6, <2>8, <2>9, <2>10, <2>11 DEF NodeInv, Base
<1> QED BY <1>1, <1>2 DEF RegisterDriver

\* The node of the command is looked up.
LEMMA GetsNode ==
    ASSUME NodeInv, thr.at = "get", NEW n \in WithHandle(thr.h), node' = GetRef(n),
           thr' = [thr EXCEPT !.at = "work", !.n = n],
           UNCHANGED <<alive, gaveUp, used, inst, buf, own, probe, act, bad>>
    PROVE  NodeInv'
<1>0. Base /\ Typed /\ ThrOK /\ n \in Nodes /\ node[n].st = "listed" /\ thr.at \notin Holding
  BY DEF NodeInv, Base, Typed, WithHandle, Listed, Holding
<1>1. RefTo(n, node[n].ref + 1) /\ KeepDev /\ \A m \in Nodes : m # n => node'[m] = node[m]
  BY <1>0, GetEffect DEF Typed
<1>2. ThrTo("work", n) /\ thr'.at \in Holding
  <2>1. "work" \in Ats /\ n \in 0..MaxNodes
    BY <1>0, Bounds DEF Ats
  <2> QED BY <1>0, <2>1, ThrGoes DEF ThrTo, Holding
<1>3. ThreadInv'
  BY <1>0, <1>2 DEF Base, ThreadInv, ThrTo, WithNode, Holding
<1>4. NewThings'
  BY <1>0, <1>2 DEF Base, NewThings, ThrTo
<1>5. Typed'
  <2>1. SetsOK'
    BY <1>0 DEF Typed, SetsOK
  <2> QED BY <1>0, <1>1, <1>2, <2>1 DEF Typed, InstOK, BufOK, RefTo, ActOK, ThrTo
<1>6. RegisterInv' /\ RemoverInv'
  BY <1>0, <1>2, RemoverFrame DEF Base, RegisterInv, ThrTo
<1>7. RefBound'
  BY <1>0, <1>1, <1>2, RefGet DEF Base, Typed, RefTo, ThrTo
<1>8. CountBound'
  <2>1. KeepNone
    BY <1>0, <1>1, RefToNone DEF RefTo
  <2> QED BY <1>0, <1>1, <2>1, CountFrame DEF Base, RefTo, Typed
<1>9. \A m \in Nodes : /\ node'[m].sess = node[m].sess /\ node'[m].st = node[m].st
                       /\ node'[m].bufs = node[m].bufs /\ node'[m].smem = node[m].smem
  BY <1>1 DEF RefTo, KeepSess, KeepSt, KeepBufs
<1>10. OpenedInv'
  BY <1>0, OpenedFrame DEF Base
<1>11. KnownInv'
  <2>1. probe # 0 => probe \in Nodes
    BY <1>0, Bounds DEF Typed, SetsOK, Nodes
  <2>2. \A a \in Actors : act[a].n # 0 => act[a].n \in Nodes
    BY <1>0, Bounds DEF Typed, ActOK, ActRec, Nodes
  <2> QED BY <1>0, <1>2, <1>9, <2>1, <2>2 DEF Base, KnownInv, ThrTo
<1>12. ASSUME Sane' PROVE SaneInv'
  <2>0. Sane /\ SaneInv
    BY <1>12, StaysSane
  <2>1. UseInv'
    BY <2>0 DEF SaneInv, UseInv
  <2>2. HoldInv'
    <3>1. probe # 0 => probe \in Nodes
      BY <1>0, Bounds DEF Typed, SetsOK, Nodes
    <3>2. Live' = Live /\ Live \subseteq Nodes
      BY <1>9 DEF Live
    <3>3. ASSUME NEW m \in Live PROVE node'[m].ref = Refs(m)'
      <4>1. node[m].ref \in Nat /\ node[m].ref = One(probe = m)
        BY <1>0, <2>0, <3>2 DEF SaneInv, HoldInv, Typed, NodeOK, NodeRec, Refs, One
      <4>2. CASE m = n
        BY <1>1, <1>2, <4>1, <4>2 DEF Refs, One, RefTo, ThrTo
      <4>3. CASE m # n
        BY <1>1, <1>2, <3>2, <4>1, <4>3 DEF Refs, One, RefTo, OtherRefs, ThrTo
      <4> QED BY <4>2, <4>3
    <3>4. probe' # 0 => node'[probe'].st = "listed"
      BY <1>9, <2>0, <3>1 DEF SaneInv, HoldInv
    <3>5. node'[thr'.n].st = "listed" /\ thr'.at \notin {"driver", "probe", "dequeue"}
      BY <1>0, <1>2, <1>9 DEF ThrTo
    <3> QED BY <3>2, <3>3, <3>4, <3>5 DEF HoldInv
  <2>3. OutInv'
    BY <1>0, <1>1, <1>9, <2>0, OutFrame DEF Base, SaneInv, RefTo
  <2>4. SessInv'
    <3>1. thr.at # "close" /\ thr'.at \notin {"close", "created"}
      BY <1>2 DEF ThrTo
    <3> QED BY <1>0, <1>9, <2>0, <3>1, SessFrame DEF Base, SaneInv
  <2>5. BufInv'
    BY <1>0, <1>9, <2>0, BufFrame DEF SaneInv
  <2>6. NameInv' /\ HandleInv'
    BY <1>0, <1>1, <1>9, <2>0, NameFrame, HandleFrame DEF SaneInv, RefTo
  <2> QED BY <2>1, <2>2, <2>3, <2>4, <2>5, <2>6 DEF SaneInv
<1> QED BY <1>2, <1>3, <1>4, <1>5, <1>6, <1>7, <1>8, <1>10, <1>11, <1>12 DEF NodeInv, Base

LEMMA NoNodeFound ==
    ASSUME NodeInv, thr.at = "get", thr.cmd \in InitCmds, thr' = [thr EXCEPT !.at = "unregister"],
           act' = [act EXCEPT !["dsp"].at = "pop"],
           UNCHANGED <<alive, gaveUp, node, used, inst, buf, own, probe, bad>>
    PROVE  NodeInv'
<1>0. Base /\ Typed /\ ThrOK
  BY DEF NodeInv, Base, Typed
<1>1. NodesStay /\ node' = node
  BY <1>0, NodeUnchanged DEF Typed
<1>2. DspPops
  BY <1>0, DspStarts
<1>3. ThrTo("unregister", thr.n)
  BY <1>0, ThrGoes DEF Ats
<1>4. ThreadInv'
  BY <1>0, <1>3 DEF Base, ThreadInv, ThrTo, WithNode, Holding, InitCmds
<1>5. NewThings'
  BY <1>0, <1>3 DEF Base, NewThings, ThrTo
<1>6. Typed'
  <2>1. SetsOK'
    BY <1>0 DEF Typed, SetsOK
  <2> QED BY <1>0, <1>1, <1>2, <1>3, <2>1 DEF Typed, InstOK, BufOK, NodesStay, DspPops, ThrTo
<1>7. RegisterInv' /\ RemoverInv'
  BY <1>2, <1>3 DEF RegisterInv, ThrTo, DspPops
<1>8. \A m \in Nodes : (thr'.n = m /\ thr'.at \in Holding) <=> (thr.n = m /\ thr.at \in Holding)
  BY <1>3 DEF ThrTo, Holding
<1>9. RefBound'
  BY <1>0, <1>1, <1>8, RefFrame DEF Base, NodesStay
<1>10. CountBound'
  BY <1>0, <1>1, CountFrame DEF Base, NodesStay, Typed
<1>11. KnownInv' /\ OpenedInv'
  <2>1. thr'.at \notin WithNode
    BY <1>3 DEF ThrTo, WithNode, Holding
  <2>2. \A a \in Actors : act'[a].n \in {act[a].n, 0}
    BY <1>2 DEF DspPops
  <2>3. \A a \in Actors : act'[a] = act[a] \/ act'[a].at # "close"
    BY <1>2 DEF DspPops
  <2> QED BY <1>0, <1>1, <2>1, <2>2, <2>3, KnownFrame, OpenedFrame DEF Base
<1>12. ASSUME Sane' PROVE SaneInv'
  <2>0. Sane /\ SaneInv
    BY <1>12, StaysSane
  <2>1. UseInv'
    BY <2>0 DEF SaneInv, UseInv
  <2>2. HoldInv'
    <3>1. thr'.at \notin WithNode /\ thr'.at \notin {"driver", "probe", "dequeue"}
      BY <1>3 DEF ThrTo, WithNode, Holding
    <3> QED BY <1>0, <1>1, <1>8, <2>0, <3>1, HoldFrame DEF Base, SaneInv, NodesStay
  <2>3. OutInv'
    <3>1. \A a \in Actors : act'[a] = act[a]
                \/ (act[a].at \notin Removing /\ act'[a].at \notin Removing)
      BY <1>2 DEF Removing, DspPops
    <3> QED BY <1>0, <1>1, <2>0, <3>1, OutFrame DEF Base, SaneInv, NodesStay
  <2>4. SessInv'
    <3>1. thr.at # "close" /\ thr'.at \notin {"close", "created"}
      BY <1>3 DEF ThrTo
    <3>2. \A a \in Actors : act'[a] = act[a] \/ (act[a].at # "close" /\ act'[a].at # "close")
      BY <1>2 DEF DspPops
    <3> QED BY <1>0, <1>1, <2>0, <3>1, <3>2, SessFrame DEF Base, SaneInv
  <2>5. BufInv'
    BY <1>0, <1>1, <2>0, BufFrame DEF SaneInv
  <2>6. NameInv'
    BY <1>1, <2>0, NameFrame DEF SaneInv, NodesStay
  <2>7. HandleInv'
    <3>1. \A h \in Handles : act'[h].at = "pop" <=> act[h].at = "pop"
      BY <1>2, Bounds DEF DspPops
    <3> QED BY <1>0, <1>1, <2>0, <3>1, HandleFrame DEF SaneInv, NodesStay
  <2> QED BY <2>1, <2>2, <2>3, <2>4, <2>5, <2>6, <2>7 DEF SaneInv
<1> QED BY <1>3, <1>4, <1>5, <1>6, <1>7, <1>9, <1>10, <1>11, <1>12 DEF NodeInv, Base

LEMMA GetNodeStep ==
    ASSUME NodeInv, GetNode PROVE NodeInv'
<1>0. thr.at = "get" /\ UNCHANGED <<alive, gaveUp, used, inst, buf, own, probe, bad>>
  BY DEF GetNode
<1>1. CASE WithHandle(thr.h) = {} /\ thr.cmd \in {"init", "create"}
  BY <1>0, <1>1, NoNodeFound DEF GetNode, InitCmds
<1>2. CASE WithHandle(thr.h) = {} /\ thr.cmd \notin {"init", "create"}
  <2>1. Finish /\ UNCHANGED <<node, act>>
    BY <1>2 DEF GetNode
  <2> QED BY <1>0, <2>1, ThrFinishes, IdleOK, QuietThread DEF ThrIdle, Holding
<1>3. CASE WithHandle(thr.h) # {}
  <2>1. PICK n : n = Min(WithHandle(thr.h))
    OBVIOUS
  <2>2. WithHandle(thr.h) \subseteq Nat
    BY Bounds DEF WithHandle, Listed
  <2>3. n \in WithHandle(thr.h)
    BY <1>3, <2>1, <2>2, MinIn
  <2>4. node' = GetRef(n) /\ thr' = [thr EXCEPT !.at = "work", !.n = n] /\ UNCHANGED act
    BY <1>3, <2>1 DEF GetNode
  <2> QED BY <1>0, <2>3, <2>4, GetsNode
<1> QED BY <1>1, <1>2, <1>3

-----------------------------------------------------------------------------
\* A node that is new or freed is empty.

LEMMA EmptyCount ==
    ASSUME CountBound, NEW n \in Nodes, \A m \in Nodes : m # n => node'[m] = node[m],
           node'[n].st # "none", node'[n].sess = {}, node'[n].cnt = 0, node'[n].bufs = {},
           node'[n].smem = 0, inst' = inst, buf' = buf
    PROVE  CountBound'
<1>1. Taken' = Taken /\ Taken \in SUBSET Bufs
  BY DEF Taken
<1>2. Cardinality(Taken) \in Nat /\ Cardinality(Taken) >= 0
  BY <1>1, BufCard, Bounds
<1>3. Cardinality({}) = 0
  BY FS_EmptySet
<1>4. ASSUME NEW m \in Nodes
      PROVE  /\ node'[m].cnt = Cardinality(node'[m].sess)
             /\ \A i \in node'[m].sess : inst'[i] # "none"
             /\ \A b \in node'[m].bufs : buf'[b] # "none"
             /\ Cardinality(node'[m].bufs) <= node'[m].smem
             /\ node'[m].smem <= Cardinality(Taken')
             /\ node'[m].st = "none" => node'[m] = NoNode
  <2>1. CASE m = n
    BY <1>1, <1>2, <1>3, <2>1
  <2>2. CASE m # n
    <3>1. node'[m] = node[m]
      BY <2>2
    <3> QED BY <1>1, <3>1 DEF CountBound
  <2> QED BY <2>1, <2>2
<1> QED BY <1>4 DEF CountBound

\* A freed node gives its name back.
LEMMA NameFree ==
    ASSUME NameInv, NEW n \in Live, node'[n].st = "freed",
           \A m \in Nodes : m # n => node'[m] = node[m], used' = used \ {node[n].name}
    PROVE  NameInv'
<1>1. Live' = Live \ {n} /\ Live \subseteq Nodes
  BY DEF Live
<1>2. \A m \in Live' : node'[m] = node[m] /\ m \in Live /\ m # n
  BY <1>1
<1>3. \A m \in Live' : node'[m].name \in used'
  BY <1>2 DEF NameInv
<1>4. ASSUME NEW x \in used' PROVE \E m \in Live' : node'[m].name = x
  <2>1. PICK m \in Live : node[m].name = x
    BY <1>4 DEF NameInv
  <2>2. m # n
    BY <1>4, <2>1
  <2> QED BY <1>1, <1>2, <2>1, <2>2
<1>5. \A k, m \in Live' : node'[k].name = node'[m].name => k = m
  BY <1>2 DEF NameInv
<1> QED BY <1>3, <1>4, <1>5 DEF NameInv

\* Nodes leave the list.
LEMMA HandleLess ==
    ASSUME HandleInv, Typed, \A m \in Nodes : node'[m].st = "listed" => node'[m] = node[m],
           probe' = probe, alive' = alive, gaveUp \subseteq gaveUp',
           \A h \in Handles \ (alive \cup gaveUp') : act'[h].at # "pop" =>
               act[h].at # "pop" \/ \A m \in WithHandle(h) : node'[m].st # "listed"
    PROVE  HandleInv'
<1>1. Listed' \subseteq Listed /\ \A m \in Listed' : node'[m] = node[m]
  BY DEF Listed
<1>2. \A h : WithHandle(h)' \subseteq WithHandle(h) /\ WithHandle(h)' \subseteq Listed'
  BY <1>1 DEF WithHandle
<1>3. \A k, m \in Listed' : node'[k].h = node'[m].h => k = m
  BY <1>1 DEF HandleInv
<1>4. ASSUME NEW h \in Handles \ (alive' \cup gaveUp'), act'[h].at # "pop", NEW m \in WithHandle(h)'
      PROVE  ~node'[m].dev /\ probe' # m
  <2>1. m \in WithHandle(h) /\ node'[m] = node[m] /\ node'[m].st = "listed"
    BY <1>1, <1>2 DEF Listed
  <2>2. act[h].at # "pop"
    BY <1>4, <2>1
  <2> QED BY <2>1, <2>2 DEF HandleInv
<1> QED BY <1>3, <1>4 DEF HandleInv

LEMMA DequeueStep ==
    ASSUME NodeInv, Dequeue PROVE NodeInv'
<1>0. /\ thr.at = "dequeue" /\ Base /\ Typed /\ Finish
      /\ UNCHANGED <<alive, gaveUp, inst, buf, own, probe, act, bad>>
  BY DEF Dequeue, NodeInv, Base
<1>1. CASE UNCHANGED <<node, used>>
  BY <1>0, <1>1, ThrFinishes, IdleOK, QuietThread DEF ThrIdle, Holding
<1>2. CASE /\ thr.n \in Listed /\ node[thr.n].ref = 0
           /\ node' = [node EXCEPT ![thr.n] = Freed(thr.n)]
           /\ used' = used \ {node[thr.n].name}
  <2> DEFINE n == thr.n
  <2>0. n \in Nodes /\ node[n].st = "listed" /\ n \in Live
    BY <1>2 DEF Listed, Live
  <2>1. /\ NodeOK' /\ \A m \in Nodes : m # n => node'[m] = node[m]
        /\ node'[n].st = "freed" /\ node'[n].ref = 0 /\ node'[n].sess = {} /\ node'[n].cnt = 0
        /\ node'[n].bufs = {} /\ node'[n].smem = 0 /\ node'[n].h = node[n].h
    BY <1>0, <1>2, <2>0, FreeEffect DEF Typed
  <2>2. /\ ThrIdle /\ ThreadInv' /\ NewThings' /\ thr'.at = "idle" /\ thr'.at \notin Holding /\ ThrOK'
        /\ thr'.at \notin WithNode /\ thr.at \notin Holding
    BY <1>0, ThrFinishes, IdleOK DEF ThrIdle, Holding, WithNode
  <2>3. Typed'
    <3>1. SetsOK'
      BY <1>0, <1>2 DEF Typed, SetsOK
    <3> QED BY <1>0, <2>1, <2>2, <3>1 DEF Typed, InstOK, BufOK, ActOK
  <2>4. RegisterInv' /\ RemoverInv'
    BY <1>0, <2>2, RemoverFrame DEF Base, RegisterInv
  <2>5. RefBound'
    <3>1. ASSUME NEW m \in Nodes PROVE node'[m].ref <= Refs(m)'
      <4>1. Refs(m)' = One(probe = m) /\ Refs(m) = One(probe = m)
        BY <1>0, <2>2 DEF Refs, One
      <4>2. CASE m = n
        BY <2>1, <4>1, <4>2 DEF One
      <4>3. CASE m # n
        BY <1>0, <2>1, <4>1, <4>3 DEF Base, RefBound
      <4> QED BY <4>2, <4>3
    <3> QED BY <3>1 DEF RefBound
  <2>6. CountBound'
    BY <1>0, <2>0, <2>1, EmptyCount DEF Base
  <2>7. KnownInv' /\ OpenedInv'
    <3>1. \A m \in Nodes : node[m].st # "none" => node'[m].st # "none"
      BY <2>1
    <3> QED BY <1>0, <2>2, <3>1, KnownFrame, OpenedFrame DEF Base
  <2>8. ASSUME Sane' PROVE SaneInv'
    <3>0. Sane /\ SaneInv
      BY <1>0, <2>8, StaysSane
    <3>a. node[n].sess = {} /\ node[n].bufs = {}
      BY <1>0, <3>0 DEF SaneInv, HoldInv
    <3>1. UseInv'
      BY <1>0, <3>0 DEF SaneInv, UseInv
    <3>2. HoldInv'
      <4>1. probe # 0 => probe \in Nodes /\ node[probe].st = "listed"
        BY <1>0, <3>0, Bounds DEF Typed, SetsOK, Nodes, SaneInv, HoldInv
      <4>2. probe # n
        BY <1>2, <2>0, <3>0 DEF SaneInv, HoldInv, Refs, One
      <4>3. ASSUME NEW m \in Live' PROVE node'[m].ref = Refs(m)'
        <5>1. m # n /\ m \in Nodes /\ m \in Live /\ node'[m] = node[m]
          BY <2>1 DEF Live
        <5>2. Refs(m)' = Refs(m)
          BY <1>0, <2>2 DEF Refs, One
        <5> QED BY <3>0, <5>1, <5>2 DEF SaneInv, HoldInv
      <4>4. thr'.at \notin {"driver", "probe", "dequeue"}
        BY <2>2
      <4> QED BY <1>0, <2>1, <2>2, <4>1, <4>2, <4>3, <4>4 DEF HoldInv
    <3>3. OutInv'
      <4>1. \A m \in Nodes : (node'[m].st = "out") <=> (node[m].st = "out")
        BY <2>0, <2>1
      <4>2. \A m \in Nodes : node[m].st = "out" =>
                node'[m].sess \subseteq node[m].sess /\ node'[m].bufs \subseteq node[m].bufs
        BY <2>0, <2>1
      <4> QED BY <1>0, <3>0, <4>1, <4>2, OutStays DEF Base, SaneInv
    <3>4. SessInv'
      <4>1. \A m \in Nodes : node'[m].sess = node[m].sess
        BY <2>1, <3>a
      <4>2. \A m \in Nodes : node[m].st \in {"listed", "out"} /\ node[m].sess # {}
                               => node'[m].st \in {"listed", "out"}
        BY <2>1, <3>a
      <4>3. thr.at # "close" /\ thr'.at \notin {"close", "created"}
        BY <1>0, <2>2
      <4> QED BY <1>0, <3>0, <4>1, <4>2, <4>3, SessFrame DEF Base, SaneInv
    <3>5. BufInv'
      <4>1. \A m \in Nodes : node'[m].bufs = node[m].bufs
        BY <2>1, <3>a
      <4>2. \A m \in Nodes : node[m].st \in {"listed", "out"} /\ node[m].bufs # {}
                               => node'[m].st \in {"listed", "out"}
        BY <2>1, <3>a
      <4>3. \A m \in Nodes : node'[m].st = "listed" => node'[m].smem = node[m].smem /\ node[m].st = "listed"
        BY <2>1
      <4> QED BY <1>0, <3>0, <4>1, <4>2, <4>3, BufFrame DEF SaneInv
    <3>6. NameInv'
      BY <1>2, <2>0, <2>1, <3>0, NameFree DEF SaneInv
    <3>7. HandleInv'
      <4>1. \A m \in Nodes : node'[m].st = "listed" => node'[m] = node[m]
        BY <2>1
      <4> QED BY <1>0, <3>0, <4>1, HandleLess DEF SaneInv
    <3> QED BY <3>1, <3>2, <3>3, <3>4, <3>5, <3>6, <3>7 DEF SaneInv
  <2> QED BY <2>2, <2>3, <2>4, <2>5, <2>6, <2>7, <2>8 DEF NodeInv, Base
<1> QED BY <1>1, <1>2 DEF Dequeue

-----------------------------------------------------------------------------
\* A new node.
LEMMA RegistersNode ==
    ASSUME NodeInv, thr.at = "register", WithHandle(thr.h) = {}, NEW n \in NewNodes,
           NEW name \in Names \ used,
           node' = [node EXCEPT ![n] = [NoNode EXCEPT !.st = "listed", !.h = thr.h, !.ref = 1, !.name = name]],
           used' = used \cup {name}, thr' = [thr EXCEPT !.at = "driver", !.n = n],
           UNCHANGED <<alive, gaveUp, inst, buf, own, probe, act, bad>>
    PROVE  NodeInv'
<1>0. /\ Base /\ Typed /\ ThrOK /\ n \in Nodes /\ node[n].st = "none" /\ thr.at \notin Holding
      /\ name \in Names /\ name \notin used /\ thr.h \in Handles
  BY DEF NodeInv, Base, Typed, NewNodes, Holding, ThreadInv
<1>1. /\ NodeOK' /\ \A m \in Nodes : m # n => node'[m] = node[m]
      /\ node'[n].st = "listed" /\ node'[n].ref = 1 /\ node'[n].sess = {} /\ node'[n].cnt = 0
      /\ node'[n].bufs = {} /\ node'[n].smem = 0 /\ node'[n].h = thr.h /\ node'[n].name = name
      /\ ~node'[n].dev
  BY <1>0, RegisterEffect DEF Typed
<1>2. ThrTo("driver", n) /\ thr'.at \in Holding
  <2>1. "driver" \in Ats /\ n \in 0..MaxNodes
    BY <1>0, Bounds DEF Ats
  <2> QED BY <1>0, <2>1, ThrGoes DEF ThrTo, Holding
<1>3. ThreadInv'
  BY <1>0, <1>2 DEF Base, ThreadInv, ThrTo, WithNode, Holding
<1>4. NewThings'
  BY <1>0, <1>2 DEF Base, NewThings, ThrTo
<1>5. Typed'
  <2>1. SetsOK'
    BY <1>0 DEF Typed, SetsOK
  <2> QED BY <1>0, <1>1, <1>2, <2>1 DEF Typed, InstOK, BufOK, ActOK, ThrTo
<1>6. RegisterInv' /\ RemoverInv'
  BY <1>0, <1>2, RemoverFrame DEF Base, RegisterInv, ThrTo
<1>7. /\ node[n] = NoNode /\ node[n].sess = {} /\ node[n].bufs = {} /\ node[n].smem = 0
      /\ Cardinality(node[n].bufs) = 0
  <2>1. node[n] = NoNode
    BY <1>0 DEF Base, CountBound
  <2> QED BY <2>1, FS_EmptySet DEF NoNode
<1>8. probe # n /\ (probe # 0 => probe \in Nodes) /\ \A a \in Actors : act[a].n # n
      /\ (act[a].n # 0 => act[a].n \in Nodes)
  BY <1>0, Bounds DEF Base, KnownInv, Typed, SetsOK, ActOK, ActRec, Nodes
<1>9. \A m \in Nodes : Refs(m) = One(probe = m) /\ Refs(m)' = One(m = n) + One(probe = m)
  BY <1>0, <1>2 DEF Refs, One, ThrTo
<1>10. RefBound'
  <2>1. ASSUME NEW m \in Nodes PROVE node'[m].ref <= Refs(m)'
    <3>2. CASE m = n
      BY <1>1, <1>8, <1>9, <3>2 DEF One
    <3>3. CASE m # n
      <4>1. node'[m] = node[m] /\ node[m].ref <= Refs(m) /\ Refs(m)' = Refs(m)
        BY <1>0, <1>1, <1>9, <3>3 DEF Base, RefBound, One
      <4> QED BY <4>1
    <3> QED BY <3>2, <3>3
  <2> QED BY <2>1 DEF RefBound
<1>11. CountBound'
  BY <1>0, <1>1, EmptyCount DEF Base
<1>12. KnownInv' /\ OpenedInv'
  <2>1. KnownInv'
    BY <1>0, <1>1, <1>2, <1>8 DEF Base, KnownInv, ThrTo
  <2> QED BY <1>0, <2>1, OpenedFrame DEF Base
<1>13. ASSUME Sane' PROVE SaneInv'
  <2>0. Sane /\ SaneInv
    BY <1>13, StaysSane
  <2>1. UseInv'
    BY <2>0 DEF SaneInv, UseInv
  <2>2. HoldInv'
    <3>1. ASSUME NEW m \in Live' PROVE node'[m].ref = Refs(m)'
      <4>0. m \in Nodes
        BY DEF Live
      <4>1. CASE m = n
        BY <1>1, <1>8, <1>9, <4>0, <4>1 DEF One
      <4>2. CASE m # n
        <5>1. m \in Live /\ node'[m] = node[m] /\ Refs(m)' = Refs(m)
          BY <1>1, <1>9, <3>1, <4>2 DEF Live, One
        <5> QED BY <2>0, <5>1 DEF SaneInv, HoldInv
      <4> QED BY <4>1, <4>2
    <3>2. probe' # 0 => node'[probe'].st = "listed"
      BY <1>1, <1>8, <2>0 DEF SaneInv, HoldInv
    <3>3. thr'.n = n
      BY <1>2 DEF ThrTo
    <3> QED BY <1>1, <3>1, <3>2, <3>3 DEF HoldInv
  <2>3. OutInv'
    <3>1. \A m \in Nodes : (node'[m].st = "out") <=> (node[m].st = "out")
      BY <1>0, <1>1
    <3>2. \A m \in Nodes : node[m].st = "out" =>
              node'[m].sess \subseteq node[m].sess /\ node'[m].bufs \subseteq node[m].bufs
      BY <1>0, <1>1
    <3> QED BY <1>0, <2>0, <3>1, <3>2, OutStays DEF Base, SaneInv
  <2>4. SessInv'
    <3>1. \A m \in Nodes : node'[m].sess = node[m].sess
      BY <1>1, <1>7
    <3>2. \A m \in Nodes : node[m].st \in {"listed", "out"} /\ node[m].sess # {}
                             => node'[m].st \in {"listed", "out"}
      BY <1>1, <1>7
    <3>3. thr.at # "close" /\ thr'.at \notin {"close", "created"}
      BY <1>2 DEF ThrTo
    <3> QED BY <1>0, <2>0, <3>1, <3>2, <3>3, SessFrame DEF Base, SaneInv
  <2>5. BufInv'
    <3>1. \A m \in Nodes : node'[m].bufs = node[m].bufs /\ node'[m].smem = node[m].smem
      BY <1>1, <1>7
    <3>2. \A m \in Nodes : node[m].st \in {"listed", "out"} /\ node[m].bufs # {}
                             => node'[m].st \in {"listed", "out"}
      BY <1>1, <1>7
    <3>3. \A m \in Nodes : node'[m].st = "listed" =>
              (node[m].st = "listed" \/ node[m].smem = Cardinality(node[m].bufs))
      BY <1>1, <1>7
    <3> QED BY <1>0, <2>0, <3>1, <3>2, <3>3, BufFrame DEF SaneInv
  <2>6. NameInv'
    <3>1. Live' = Live \cup {n} /\ n \notin Live /\ Live \subseteq Nodes
      BY <1>0, <1>1 DEF Live
    <3>2. \A m \in Live : node'[m] = node[m] /\ node[m].name \in used /\ node[m].name # name
      BY <1>0, <1>1, <2>0, <3>1 DEF SaneInv, NameInv
    <3>3. \A m \in Live' : node'[m].name \in used'
      BY <1>1, <3>1, <3>2
    <3>4. \A x \in used' : \E m \in Live' : node'[m].name = x
      BY <1>1, <2>0, <3>1, <3>2 DEF SaneInv, NameInv
    <3>5. \A k, m \in Live' : node'[k].name = node'[m].name => k = m
      BY <1>1, <2>0, <3>1, <3>2 DEF SaneInv, NameInv
    <3> QED BY <3>3, <3>4, <3>5 DEF NameInv
  <2>7. HandleInv'
    <3>1. Listed' = Listed \cup {n} /\ n \notin Listed /\ Listed \subseteq Nodes
      BY <1>0, <1>1 DEF Listed
    <3>2. \A m \in Listed : node'[m] = node[m] /\ node[m].h # thr.h
      BY <1>0, <1>1, <3>1 DEF WithHandle
    <3>3. \A k, m \in Listed' : node'[k].h = node'[m].h => k = m
      BY <1>1, <2>0, <3>1, <3>2 DEF SaneInv, HandleInv
    <3>4. ASSUME NEW h \in Handles \ (alive' \cup gaveUp'), act'[h].at # "pop", NEW m \in WithHandle(h)'
          PROVE  ~node'[m].dev /\ probe' # m
      <4>1. CASE m = n
        BY <1>1, <1>8, <4>1
      <4>2. CASE m # n
        <5>1. m \in WithHandle(h) /\ node'[m] = node[m]
          BY <3>1, <3>2, <3>4, <4>2 DEF WithHandle
        <5> QED BY <2>0, <3>4, <5>1 DEF SaneInv, HandleInv
      <4> QED BY <4>1, <4>2
    <3> QED BY <3>3, <3>4 DEF HandleInv
  <2> QED BY <2>1, <2>2, <2>3, <2>4, <2>5, <2>6, <2>7 DEF SaneInv
<1> QED BY <1>2, <1>3, <1>4, <1>5, <1>6, <1>10, <1>11, <1>12, <1>13 DEF NodeInv, Base

LEMMA RegisterStep ==
    ASSUME NodeInv, Register PROVE NodeInv'
<1>0. /\ thr.at = "register" /\ UNCHANGED <<alive, gaveUp, inst, buf, own, probe, act, bad>>
      /\ Base /\ Typed /\ ThrOK /\ NewNodes # {} /\ used \subseteq Names
  BY DEF Register, NodeInv, Base, Typed, SetsOK, RegisterInv
<1>1. CASE thr' = [thr EXCEPT !.at = "get"] /\ UNCHANGED <<node, used>>
  <2>1. ThrTo("get", thr.n)
    BY <1>0, <1>1, ThrGoes DEF Ats
  <2>2. ThreadInv'
    BY <1>0, <2>1 DEF Base, ThreadInv, ThrTo, WithNode, Holding
  <2>3. NewThings'
    BY <1>0, <2>1 DEF Base, NewThings, ThrTo
  <2> QED BY <1>0, <1>1, <2>1, <2>2, <2>3, QuietThread DEF ThrTo, WithNode, Holding
<1>2. CASE Finish /\ UNCHANGED <<node, used>>
  BY <1>0, <1>2, ThrFinishes, IdleOK, QuietThread DEF ThrIdle, Holding
<1>3. ASSUME WithHandle(thr.h) = {}, used # Names,
             node' = [node EXCEPT ![Min(NewNodes)] = [NoNode EXCEPT !.st = "listed", !.h = thr.h,
                                                       !.ref = 1, !.name = Min(Names \ used)]],
             used' = used \cup {Min(Names \ used)},
             thr' = [thr EXCEPT !.at = "driver", !.n = Min(NewNodes)]
      PROVE  NodeInv'
  <2>1. Min(NewNodes) \in NewNodes
    BY <1>0, MinIn, Bounds DEF NewNodes
  <2>2. Min(Names \ used) \in Names \ used
    <3>1. Names \ used # {} /\ Names \ used \subseteq Nat
      BY <1>0, <1>3, Bounds
    <3> QED BY <3>1, MinIn
  <2> QED BY <1>0, <1>3, <2>1, <2>2, RegistersNode
<1> QED BY <1>1, <1>2, <1>3 DEF Register

-----------------------------------------------------------------------------
\* The probe of the fastrpc driver.

LEMMA ProbeGetStep ==
    ASSUME NodeInv, ProbeGet PROVE NodeInv'
<1>0. /\ probe = 0 /\ Base /\ Typed
      /\ UNCHANGED <<alive, gaveUp, used, inst, buf, own, thr, act, bad>>
  BY DEF ProbeGet, NodeInv, Base
<1>a. PICK n \in Listed : /\ node[n].reg /\ ~node[n].dev /\ node[n].h \in alive
                          /\ node' = GetRef(n) /\ probe' = n
  BY DEF ProbeGet
<1>b. n \in Nodes /\ node[n].st = "listed" /\ n # 0 /\ n \in 0..MaxNodes
  BY Bounds DEF Listed
<1>1. RefTo(n, node[n].ref + 1) /\ KeepDev /\ \A m \in Nodes : m # n => node'[m] = node[m]
  BY <1>0, <1>a, <1>b, GetEffect DEF Typed
<1>2. Typed'
  <2>1. SetsOK'
    BY <1>0, <1>a, <1>b DEF Typed, SetsOK
  <2> QED BY <1>0, <1>1, <2>1 DEF Typed, InstOK, BufOK, RefTo, ActOK, ThrOK
<1>3. \A m \in Nodes : /\ node'[m].sess = node[m].sess /\ node'[m].st = node[m].st
                       /\ node'[m].bufs = node[m].bufs /\ node'[m].smem = node[m].smem
                       /\ node'[m].h = node[m].h /\ node'[m].dev = node[m].dev
                       /\ node[m].ref \in Nat
  BY <1>0, <1>1 DEF RefTo, KeepSess, KeepSt, KeepBufs, KeepId, KeepDev, Typed, NodeOK, NodeRec
<1>4. ThreadInv' /\ NewThings'
  BY <1>0 DEF Base, ThreadInv, NewThings
<1>5. RegisterInv' /\ RemoverInv'
  <2>1. NewNodes' = NewNodes
    BY <1>3 DEF NewNodes
  <2> QED BY <1>0, <2>1, RemoverFrame DEF Base, RegisterInv
<1>6. \A m \in Nodes : /\ Refs(m) = One(thr.n = m /\ thr.at \in Holding)
                       /\ Refs(m)' = One(thr.n = m /\ thr.at \in Holding) + One(m = n)
  BY <1>0, <1>a, Bounds DEF Refs, One
<1>7. \A m \in Nodes : node'[m].ref = node[m].ref + One(m = n) /\ Refs(m)' = Refs(m) + One(m = n)
                       /\ Refs(m) \in Nat
  BY <1>1, <1>3, <1>6 DEF RefTo, OtherRefs, One
<1>8. RefBound'
  BY <1>0, <1>3, <1>7 DEF Base, RefBound, One
<1>9. CountBound'
  <2>1. KeepNone
    BY <1>b, <1>1, RefToNone DEF RefTo
  <2> QED BY <1>0, <1>1, <2>1, CountFrame DEF Base, RefTo, Typed
<1>10. KnownInv' /\ OpenedInv'
  <2>2. \A a \in Actors : act[a].n # 0 => act[a].n \in Nodes
    BY <1>0, Bounds DEF Typed, ActOK, ActRec, Nodes
  <2>3. thr.at \in WithNode => thr.n \in Nodes
    BY <1>0 DEF Base, ThreadInv
  <2>4. KnownInv'
    BY <1>0, <1>a, <1>b, <1>3, <2>2, <2>3 DEF Base, KnownInv
  <2> QED BY <1>0, <2>4, OpenedFrame DEF Base
<1>11. ASSUME Sane' PROVE SaneInv'
  <2>0. Sane /\ SaneInv
    BY <1>0, <1>11, StaysSane
  <2>1. UseInv'
    BY <1>0, <2>0 DEF SaneInv, UseInv
  <2>2. HoldInv'
    <3>1. Live' = Live /\ Live \subseteq Nodes
      BY <1>3 DEF Live
    <3>2. \A m \in Live' : node'[m].ref = Refs(m)'
      BY <1>7, <2>0, <3>1 DEF SaneInv, HoldInv
    <3>3. thr.at \in WithNode => thr.n \in Nodes
      BY <1>0 DEF Base, ThreadInv
    <3>4. thr'.at \in Holding => node'[thr'.n].st = "listed"
      BY <1>0, <1>3, <2>0, <3>3 DEF SaneInv, HoldInv, WithNode
    <3>5. thr'.at \in {"driver", "probe", "dequeue"} => node'[thr'.n].sess = {} /\ node'[thr'.n].bufs = {}
      BY <1>0, <1>3, <2>0, <3>3 DEF SaneInv, HoldInv, WithNode, Holding
    <3> QED BY <1>a, <1>b, <1>3, <3>2, <3>4, <3>5 DEF HoldInv
  <2>3. OutInv'
    BY <1>0, <1>1, <1>3, <2>0, OutFrame DEF Base, SaneInv, RefTo
  <2>4. SessInv'
    BY <1>0, <1>3, <2>0, SessFrame DEF Base, SaneInv
  <2>5. BufInv'
    BY <1>0, <1>3, <2>0, BufFrame DEF SaneInv
  <2>6. NameInv'
    BY <1>0, <1>1, <1>3, <2>0, NameFrame DEF SaneInv, RefTo
  <2>7. HandleInv'
    <3>1. Listed' = Listed /\ Listed \subseteq Nodes
      BY <1>3 DEF Listed
    <3>2. \A k, m \in Listed' : node'[k].h = node'[m].h => k = m
      BY <1>3, <2>0, <3>1 DEF SaneInv, HandleInv
    <3>3. ASSUME NEW h \in Handles \ (alive' \cup gaveUp'), act'[h].at # "pop", NEW m \in WithHandle(h)'
          PROVE  ~node'[m].dev /\ probe' # m
      <4>1. m \in WithHandle(h) /\ m \in Nodes /\ node[m].h = h
        BY <1>3, <3>1 DEF WithHandle
      <4>2. m # n
        BY <1>0, <1>a, <4>1
      <4>3. ~node[m].dev
        BY <1>0, <2>0, <3>3, <4>1 DEF SaneInv, HandleInv
      <4> QED BY <1>a, <1>3, <4>1, <4>2, <4>3
    <3> QED BY <3>2, <3>3 DEF HandleInv
  <2> QED BY <2>1, <2>2, <2>3, <2>4, <2>5, <2>6, <2>7 DEF SaneInv
<1> QED BY <1>2, <1>4, <1>5, <1>8, <1>9, <1>10, <1>11 DEF NodeInv, Base

LEMMA ProbeSetStep ==
    ASSUME NodeInv, ProbeSet PROVE NodeInv'
<1>0. /\ probe # 0 /\ Base /\ Typed /\ probe \in Nodes /\ probe' = 0
      /\ UNCHANGED <<alive, gaveUp, used, inst, buf, own, thr, act>>
      /\ node' = PutRef([node EXCEPT ![probe].dev = TRUE], probe)
      /\ bad' = IF node[probe].st = "freed" THEN bad \cup {"probe"} ELSE bad
  BY Bounds DEF ProbeSet, NodeInv, Base, Typed, SetsOK, Nodes, Touch
<1> DEFINE n == probe
<1>b. node[n].st # "none"
  BY <1>0 DEF Base, KnownInv
<1>1. RefTo(n, Dec(node[n].ref)) /\ \A m \in Nodes : m # n => node'[m] = node[m]
  BY <1>0, DevEffect DEF Typed
<1>2. Typed'
  <2>1. SetsOK'
    BY <1>0, Bounds DEF Typed, SetsOK
  <2> QED BY <1>0, <1>1, <2>1 DEF Typed, InstOK, BufOK, RefTo, ActOK, ThrOK
<1>3. \A m \in Nodes : /\ node'[m].sess = node[m].sess /\ node'[m].st = node[m].st
                       /\ node'[m].bufs = node[m].bufs /\ node'[m].smem = node[m].smem
                       /\ node'[m].h = node[m].h
                       /\ node[m].ref \in Nat
  BY <1>0, <1>1 DEF RefTo, KeepSess, KeepSt, KeepBufs, KeepId, Typed, NodeOK, NodeRec
<1>4. ThreadInv' /\ NewThings'
  BY <1>0 DEF Base, ThreadInv, NewThings
<1>5. RegisterInv' /\ RemoverInv'
  <2>1. NewNodes' = NewNodes
    BY <1>3 DEF NewNodes
  <2> QED BY <1>0, <2>1, RemoverFrame DEF Base, RegisterInv
<1>6. \A m \in Nodes : /\ Refs(m) = One(thr.n = m /\ thr.at \in Holding) + One(m = n)
                       /\ Refs(m)' = One(thr.n = m /\ thr.at \in Holding)
  BY <1>0, Bounds DEF Refs, One
<1>7. \A m \in Nodes : node'[m].ref = (IF m = n THEN Dec(node[m].ref) ELSE node[m].ref)
                       /\ Refs(m) = Refs(m)' + One(m = n) /\ Refs(m)' \in Nat
  BY <1>1, <1>6 DEF RefTo, OtherRefs, One
<1>8. RefBound'
  <2>1. ASSUME NEW m \in Nodes PROVE node'[m].ref <= Refs(m)'
    <3>1. node[m].ref <= Refs(m) /\ node[m].ref \in Nat
      BY <1>0, <1>3 DEF Base, RefBound
    <3> QED BY <1>7, <3>1 DEF One, Dec
  <2> QED BY <2>1 DEF RefBound
<1>9. CountBound'
  <2>1. KeepNone
    BY <1>0, <1>b, <1>1, RefToNone DEF RefTo
  <2> QED BY <1>0, <1>1, <2>1, CountFrame DEF Base, RefTo, Typed
<1>10. KnownInv' /\ OpenedInv'
  <2>1. \A m \in Nodes : node[m].st # "none" => node'[m].st # "none"
    BY <1>3
  <2> QED BY <1>0, <2>1, KnownFrame, OpenedFrame DEF Base
<1>11. ASSUME Sane' PROVE SaneInv'
  <2>0. Sane /\ SaneInv
    BY <1>0, <1>11, StaysSane
  <2>1. UseInv'
    BY <1>0, <2>0 DEF SaneInv, UseInv, HoldInv
  <2>2. HoldInv'
    <3>1. Live' = Live /\ Live \subseteq Nodes
      BY <1>3 DEF Live
    <3>2. ASSUME NEW m \in Live' PROVE node'[m].ref = Refs(m)'
      <4>1. node[m].ref = Refs(m) /\ node[m].ref \in Nat /\ m \in Nodes
        BY <1>3, <2>0, <3>1 DEF SaneInv, HoldInv
      <4> QED BY <1>7, <4>1 DEF One, Dec
    <3>3. thr.at \in WithNode => thr.n \in Nodes
      BY <1>0 DEF Base, ThreadInv
    <3>4. thr'.at \in Holding => node'[thr'.n].st = "listed"
      BY <1>0, <1>3, <2>0, <3>3 DEF SaneInv, HoldInv, WithNode
    <3>5. thr'.at \in {"driver", "probe", "dequeue"} => node'[thr'.n].sess = {} /\ node'[thr'.n].bufs = {}
      BY <1>0, <1>3, <2>0, <3>3 DEF SaneInv, HoldInv, WithNode, Holding
    <3> QED BY <1>0, <3>2, <3>4, <3>5 DEF HoldInv
  <2>3. OutInv'
    BY <1>0, <1>1, <1>3, <2>0, OutFrame DEF Base, SaneInv, RefTo
  <2>4. SessInv'
    BY <1>0, <1>3, <2>0, SessFrame DEF Base, SaneInv
  <2>5. BufInv'
    BY <1>0, <1>3, <2>0, BufFrame DEF SaneInv
  <2>6. NameInv'
    BY <1>0, <1>1, <1>3, <2>0, NameFrame DEF SaneInv, RefTo
  <2>7. HandleInv'
    <3>1. Listed' = Listed /\ Listed \subseteq Nodes
      BY <1>3 DEF Listed
    <3>2. \A k, m \in Listed' : node'[k].h = node'[m].h => k = m
      BY <1>3, <2>0, <3>1 DEF SaneInv, HandleInv
    <3>3. ASSUME NEW h \in Handles \ (alive' \cup gaveUp'), act'[h].at # "pop", NEW m \in WithHandle(h)'
          PROVE  ~node'[m].dev /\ probe' # m
      <4>1. m \in WithHandle(h) /\ m \in Nodes
        BY <1>3, <3>1 DEF WithHandle
      <4>2. ~node[m].dev /\ m # n
        BY <1>0, <2>0, <3>3, <4>1 DEF SaneInv, HandleInv
      <4> QED BY <1>0, <1>1, <4>1, <4>2, Bounds
    <3> QED BY <3>2, <3>3 DEF HandleInv
  <2> QED BY <2>1, <2>2, <2>3, <2>4, <2>5, <2>6, <2>7 DEF SaneInv
<1> QED BY <1>2, <1>4, <1>5, <1>8, <1>9, <1>10, <1>11 DEF NodeInv, Base

-----------------------------------------------------------------------------
\* The removers.

\* Remover a moves on, and the others stay.
ActTo(a, at, n, i) ==
    /\ ActOK'
    /\ act'[a].at = at /\ act'[a].n = n /\ act'[a].i = i
    /\ \A x \in Actors : x # a => act'[x] = act[x]

LEMMA ActGoes ==
    ASSUME ActOK, NEW a \in Actors, NEW at \in RemoverAts, NEW n \in 0..MaxNodes, NEW i \in 0..MaxInsts
    PROVE  /\ act' = [act EXCEPT ![a].at = at] => ActTo(a, at, act[a].n, act[a].i)
           /\ act' = [act EXCEPT ![a].n = n] => ActTo(a, act[a].at, n, act[a].i)
           /\ act' = [act EXCEPT ![a].at = at, ![a].n = n] => ActTo(a, at, n, act[a].i)
           /\ act' = [act EXCEPT ![a].at = at, ![a].i = i] => ActTo(a, at, act[a].n, i)
           /\ act' = [act EXCEPT ![a] = Resting] => ActTo(a, "idle", 0, 0)
           /\ act' = [act EXCEPT ![a] = [Resting EXCEPT !.at = "pop"]] => ActTo(a, "pop", 0, 0)
<1>0. act[a] \in ActRec /\ act \in [Actors -> ActRec] /\ 0 \in 0..MaxNodes /\ 0 \in 0..MaxInsts
  BY Bounds DEF ActOK
<1>1. ASSUME act' = [act EXCEPT ![a].at = at] PROVE ActTo(a, at, act[a].n, act[a].i)
  BY <1>0, <1>1 DEF ActTo, ActOK, ActRec
<1>2. ASSUME act' = [act EXCEPT ![a].n = n] PROVE ActTo(a, act[a].at, n, act[a].i)
  BY <1>0, <1>2 DEF ActTo, ActOK, ActRec
<1>3. ASSUME act' = [act EXCEPT ![a].at = at, ![a].n = n] PROVE ActTo(a, at, n, act[a].i)
  BY <1>0, <1>3 DEF ActTo, ActOK, ActRec
<1>4. ASSUME act' = [act EXCEPT ![a].at = at, ![a].i = i] PROVE ActTo(a, at, act[a].n, i)
  BY <1>0, <1>4 DEF ActTo, ActOK, ActRec
<1>5. ASSUME act' = [act EXCEPT ![a] = Resting] PROVE ActTo(a, "idle", 0, 0)
  BY <1>0, <1>5 DEF ActTo, ActOK, ActRec, Resting, RemoverAts
<1>6. ASSUME act' = [act EXCEPT ![a] = [Resting EXCEPT !.at = "pop"]] PROVE ActTo(a, "pop", 0, 0)
  BY <1>0, <1>6 DEF ActTo, ActOK, ActRec, Resting, RemoverAts
<1> QED BY <1>1, <1>2, <1>3, <1>4, <1>5, <1>6

LEMMA RemoverTo ==
    ASSUME Base, NEW a \in Actors, NEW at, NEW n, NEW i, ActTo(a, at, n, i),
           at \in Removing => n \in Nodes, at = "close" => i \in Insts, at = "idle" => n = 0 /\ i = 0,
           at = "pop" /\ a # "rm" => n = 0, a \in alive' => at = "idle", alive' \subseteq alive
    PROVE  RemoverInv'
<1>1. ASSUME NEW x \in Actors
      PROVE  /\ act'[x].at \in Removing => act'[x].n \in Nodes
             /\ act'[x].at = "close" => act'[x].i \in Insts
             /\ act'[x].at = "idle" => act'[x] = Resting
             /\ act'[x].at = "pop" /\ x # "rm" => act'[x].n = 0
             /\ x \in alive' => act'[x].at = "idle"
  <2>1. CASE x = a
    <3>1. act'[a] \in ActRec
      BY DEF ActTo, ActOK
    <3>2. act'[a].at = "idle" => act'[a] = Resting
      BY <3>1 DEF ActTo, ActRec, Resting
    <3> QED BY <2>1, <3>2 DEF ActTo
  <2>2. CASE x # a
    BY <2>2 DEF ActTo, Base, RemoverInv
  <2> QED BY <2>1, <2>2
<1> QED BY <1>1 DEF RemoverInv

LEMMA KnownTo ==
    ASSUME Base, NEW a \in Actors, NEW at, NEW n, NEW i, ActTo(a, at, n, i),
           n # 0 => n \in Nodes /\ node[n].st # "none",
           \A m \in Nodes : node[m].st # "none" => node'[m].st # "none", probe' = probe,
           thr'.at \in WithNode => thr' = thr
    PROVE  KnownInv'
<1>1. probe # 0 => probe \in Nodes
  BY Bounds DEF Base, Typed, SetsOK, Nodes
<1>2. \A x \in Actors : act[x].n # 0 => act[x].n \in Nodes
  BY Bounds DEF Base, Typed, ActOK, ActRec, Nodes
<1>3. \A x \in Actors : act'[x].n # 0 => node'[act'[x].n].st # "none"
  <2>1. ASSUME NEW x \in Actors, act'[x].n # 0 PROVE node'[act'[x].n].st # "none"
    <3>1. CASE x = a
      BY <2>1, <3>1 DEF ActTo
    <3>2. CASE x # a
      <4>1. act'[x] = act[x] /\ act[x].n \in Nodes
        BY <1>2, <2>1, <3>2 DEF ActTo
      <4>2. node[act[x].n].st # "none"
        BY <2>1, <4>1 DEF Base, KnownInv
      <4> QED BY <4>1, <4>2
    <3> QED BY <3>1, <3>2
  <2> QED BY <2>1
<1>4. thr'.at \in WithNode => node'[thr'.n].st # "none"
  BY DEF Base, KnownInv, ThreadInv
<1>5. probe' # 0 => node'[probe'].st # "none"
  BY <1>1 DEF Base, KnownInv
<1> QED BY <1>3, <1>4, <1>5 DEF KnownInv

\* The thread, as "dsp", is done with the removal when it rests.
ThrRests == thr' = thr \/ (thr.at = "unregister" /\ ThrIdle)

LEMMA ThrRestsOK ==
    ASSUME Base, ThrRests, inst' = inst, \A b \in Bufs : buf[b] = "none" => buf'[b] = "none"
    PROVE  ThrOK' /\ ThreadInv' /\ NewThings' /\ (thr'.at \in WithNode => thr' = thr)
<1>1. CASE thr' = thr
  <2>1. thr.cmd \in {"alloc", "map"} => thr.b \in Bufs
    BY DEF Base, ThreadInv, BufCmds
  <2> QED BY <1>1, <2>1 DEF Base, Typed, ThrOK, ThreadInv, NewThings
<1>2. CASE ThrIdle
  BY <1>2, IdleOK DEF ThrIdle
<1> QED BY <1>1, <1>2 DEF ThrRests

LEMMA RestOK ==
    ASSUME Base, NEW a \in Actors, act[a].at # "idle", Rest(a)
    PROVE  /\ ActTo(a, "idle", 0, 0) /\ ThrRests
           /\ thr'.at = "unregister" <=> act'["dsp"].at # "idle"
           /\ thr'.at = "register" => thr' = thr
<1>0. ActTo(a, "idle", 0, 0)
  <2>1. "idle" \in RemoverAts /\ 0 \in 0..MaxNodes /\ 0 \in 0..MaxInsts
    BY Bounds DEF RemoverAts
  <2> QED BY <2>1, ActGoes DEF Rest, Base, Typed
<1>1. CASE a = "dsp"
  <2>1. thr.at = "unregister" /\ ThrIdle
    BY <1>1, ThrFinishes DEF Rest, Base, RegisterInv
  <2> QED BY <1>0, <1>1, <2>1 DEF ThrRests, ThrIdle, ActTo
<1>2. CASE a # "dsp"
  <2>1. thr' = thr /\ act'["dsp"] = act["dsp"]
    BY <1>0, <1>2, Bounds DEF Rest, ActTo
  <2> QED BY <1>0, <2>1 DEF ThrRests, Base, RegisterInv
<1> QED BY <1>1, <1>2

\* A step that changes no node, session or buffer.
LEMMA ActStep ==
    ASSUME NodeInv, UNCHANGED <<node, used, inst, buf, own, probe>>,
           ActOK', RemoverInv', KnownInv', SetsOK', ThrRests,
           thr'.at = "unregister" <=> act'["dsp"].at # "idle",
           \A a \in Actors : act'[a] = act[a] \/ (act[a].at # "close" /\ act'[a].at # "close"),
           bad \subseteq bad',
           Sane' /\ SaneInv => bad' = bad /\ OutInv' /\ HandleInv'
    PROVE  NodeInv'
<1>0. Base /\ Typed
  BY DEF NodeInv, Base
<1>1. NodesStay /\ node' = node
  BY <1>0, NodeUnchanged DEF Typed
<1>2. ThrOK' /\ ThreadInv' /\ NewThings' /\ (thr'.at \in WithNode => thr' = thr)
  BY <1>0, ThrRestsOK
<1>3. Typed'
  BY <1>0, <1>1, <1>2 DEF Typed, InstOK, BufOK, NodesStay
<1>4. RegisterInv'
  <2>1. thr'.at = "register" => thr' = thr
    BY DEF ThrRests, ThrIdle
  <2> QED BY <1>0, <2>1 DEF Base, RegisterInv, NewNodes
<1>5. \A m \in Nodes : (thr'.n = m /\ thr'.at \in Holding) <=> (thr.n = m /\ thr.at \in Holding)
  BY DEF ThrRests, ThrIdle, Holding
<1>6. RefBound'
  BY <1>0, <1>1, <1>5, RefFrame DEF Base, NodesStay
<1>7. CountBound'
  BY <1>0, <1>1, CountFrame DEF Base, NodesStay, Typed
<1>8. OpenedInv'
  BY <1>0, OpenedFrame DEF Base
<1>9. ASSUME Sane' PROVE SaneInv'
  <2>0. Sane /\ SaneInv /\ bad' = bad /\ OutInv' /\ HandleInv'
    BY <1>9, StaysSane
  <2>1. UseInv'
    BY <2>0 DEF SaneInv, UseInv
  <2>2. HoldInv'
    <3>1. thr'.at \in WithNode => thr'.n \in Nodes
      BY <1>2 DEF ThreadInv
    <3>2. thr'.at \in {"driver", "probe", "dequeue"} => thr' = thr
      BY DEF ThrRests, ThrIdle
    <3> QED BY <1>0, <1>1, <1>5, <2>0, <3>1, <3>2, HoldFrame DEF Base, SaneInv, NodesStay
  <2>3. SessInv'
    <3>1. thr' = thr \/ (thr.at # "close" /\ thr'.at \notin {"close", "created"})
      BY DEF ThrRests, ThrIdle
    <3> QED BY <1>0, <1>1, <2>0, <3>1, SessFrame DEF Base, SaneInv
  <2>4. BufInv'
    BY <1>0, <1>1, <2>0, BufFrame DEF SaneInv
  <2>5. NameInv'
    BY <1>1, <2>0, NameFrame DEF SaneInv, NodesStay
  <2> QED BY <2>0, <2>1, <2>2, <2>3, <2>4, <2>5 DEF SaneInv
<1> QED BY <1>2, <1>3, <1>4, <1>6, <1>7, <1>8, <1>9 DEF NodeInv, Base

LEMMA RemoveSessionsStep ==
    ASSUME NodeInv, RemoveSessions PROVE NodeInv'
<1>0. /\ act["rm"].at = "idle" /\ act' = [act EXCEPT !["rm"].at = "pop"] /\ Base /\ Typed
      /\ UNCHANGED <<alive, gaveUp, node, used, inst, buf, own, thr, probe, bad>>
  BY DEF RemoveSessions, NodeInv, Base
<1>1. act["rm"].n = 0
  BY <1>0, Bounds DEF Base, RemoverInv, Resting
<1>2. ActTo("rm", "pop", 0, act["rm"].i)
  <2>1. "pop" \in RemoverAts /\ "rm" \in Actors /\ 0 \in 0..MaxNodes /\ 0 \in 0..MaxInsts
    BY Bounds DEF RemoverAts
  <2> QED BY <1>0, <1>1, <2>1, ActGoes DEF Typed
<1>3. RemoverInv'
  <2>1. "rm" \notin alive
    BY <1>0, Bounds DEF Typed, SetsOK
  <2> QED BY <1>0, <1>2, <2>1, Bounds, RemoverTo DEF Removing
<1>4. KnownInv'
  BY <1>0, <1>2, Bounds, KnownTo
<1>5. \A a \in Actors : /\ a # "rm" => act'[a] = act[a]
                        /\ act'[a] = act[a] \/ (act[a].at \notin Removing /\ act'[a].at \notin Removing)
                        /\ act'[a] = act[a] \/ (act[a].at # "close" /\ act'[a].at # "close")
  BY <1>0, <1>2 DEF ActTo, Removing
<1>6. SetsOK' /\ ThrRests /\ ActOK' /\ (thr'.at = "unregister" <=> act'["dsp"].at # "idle")
  BY <1>0, <1>2, <1>5, Bounds DEF Typed, SetsOK, ThrRests, ActTo, Base, RegisterInv
<1>7. ASSUME SaneInv PROVE OutInv' /\ HandleInv'
  <2>1. NodesStay /\ node' = node
    BY <1>0, NodeUnchanged DEF Typed
  <2>2. OutInv'
    BY <1>0, <1>5, <1>7, <2>1, OutFrame DEF Base, SaneInv, NodesStay
  <2>3. \A h \in Handles : act'[h].at = "pop" <=> act[h].at = "pop"
    BY <1>5, Bounds
  <2>4. HandleInv'
    BY <1>0, <1>7, <2>1, <2>3, HandleFrame DEF SaneInv, NodesStay
  <2> QED BY <2>2, <2>4
<1> QED BY <1>0, <1>3, <1>4, <1>5, <1>6, <1>7, ActStep

LEMMA ProcessGoneStep ==
    ASSUME NodeInv, NEW h \in Handles, ProcessGone(h) PROVE NodeInv'
<1>0. /\ h \in alive /\ alive' = alive \ {h} /\ Base /\ Typed
      /\ UNCHANGED <<gaveUp, node, used, inst, buf, own, thr, probe, bad>>
  BY DEF ProcessGone, NodeInv, Base
<1>1. PICK at \in {"pop", "idle"} :
         at = IF \E n \in WithHandle(h) : node[n].dev \/ probe = n THEN "pop" ELSE "idle"
  OBVIOUS
<1>2. h \in Actors /\ act[h].at = "idle" /\ act[h].n = 0 /\ act[h].i = 0 /\ h # "rm" /\ h # "dsp"
  BY <1>0, Bounds DEF Base, RemoverInv, Resting
<1>3. ActTo(h, at, 0, 0)
  <2>1. at \in RemoverAts /\ 0 \in 0..MaxNodes /\ 0 \in 0..MaxInsts
    BY Bounds DEF RemoverAts
  <2>2. act' = [act EXCEPT ![h].at = at]
    BY <1>1 DEF ProcessGone
  <2> QED BY <1>0, <1>2, <2>1, <2>2, ActGoes DEF Typed
<1>4. RemoverInv'
  BY <1>0, <1>2, <1>3, RemoverTo DEF Removing
<1>5. KnownInv'
  BY <1>0, <1>2, <1>3, KnownTo
<1>6. \A a \in Actors : /\ a # h => act'[a] = act[a]
                        /\ act'[a] = act[a] \/ (act[a].at \notin Removing /\ act'[a].at \notin Removing)
                        /\ act'[a] = act[a] \/ (act[a].at # "close" /\ act'[a].at # "close")
  BY <1>2, <1>3 DEF ActTo, Removing
<1>7. SetsOK' /\ ThrRests /\ ActOK' /\ (thr'.at = "unregister" <=> act'["dsp"].at # "idle")
  BY <1>0, <1>2, <1>3, <1>6, Bounds DEF Typed, SetsOK, ThrRests, ActTo, Base, RegisterInv
<1>8. ASSUME SaneInv PROVE OutInv' /\ HandleInv'
  <2>1. NodesStay /\ node' = node
    BY <1>0, NodeUnchanged DEF Typed
  <2>2. OutInv'
    BY <1>0, <1>6, <1>8, <2>1, OutFrame DEF Base, SaneInv, NodesStay
  <2>3. Listed' = Listed /\ \A x : WithHandle(x)' = WithHandle(x)
    BY <2>1 DEF Listed, WithHandle
  <2>4. ASSUME NEW x \in Handles \ (alive' \cup gaveUp'), act'[x].at # "pop", NEW m \in WithHandle(x)'
        PROVE  ~node'[m].dev /\ probe' # m
    <3>1. CASE x = h
      <4>1. at # "pop"
        BY <1>3, <2>4, <3>1 DEF ActTo
      <4> QED BY <1>0, <1>1, <2>1, <2>3, <2>4, <3>1, <4>1
    <3>2. CASE x # h
      <4>1. x \in Handles \ (alive \cup gaveUp) /\ act[x].at # "pop" /\ m \in WithHandle(x)
        BY <1>0, <1>6, <2>3, <2>4, <3>2, Bounds
      <4> QED BY <1>0, <1>8, <2>1, <4>1 DEF SaneInv, HandleInv
    <3> QED BY <3>1, <3>2
  <2>5. \A k, m \in Listed' : node'[k].h = node'[m].h => k = m
    BY <1>8, <2>1, <2>3 DEF SaneInv, HandleInv
  <2>6. HandleInv'
    BY <2>4, <2>5 DEF HandleInv
  <2> QED BY <2>2, <2>6
<1> QED BY <1>0, <1>4, <1>5, <1>6, <1>7, <1>8, ActStep

LEMMA SoughtListed ==
    ASSUME NEW a, Sought(a) # {}
    PROVE  /\ Sought(a) \subseteq Listed /\ Min(Sought(a)) \in Sought(a)
           /\ Min(Sought(a)) \in Nodes
           /\ a \in Handles => Min(Sought(a)) \in WithHandle(a)
<1>1. Sought(a) \subseteq Listed
  <2>1. CASE a = "rm"
    BY <2>1 DEF Sought
  <2>2. CASE a = "dsp"
    BY <2>2 DEF Sought, WithHandle
  <2>3. CASE a # "rm" /\ a # "dsp"
    BY <2>3 DEF Sought, WithHandle
  <2> QED BY <2>1, <2>2, <2>3
<1>2. Sought(a) \subseteq Nodes /\ Sought(a) \subseteq Nat
  BY <1>1, Bounds DEF Listed
<1>3. Min(Sought(a)) \in Sought(a)
  BY <1>2, MinIn
<1>4. a \in Handles => Sought(a) = WithHandle(a)
  BY Bounds DEF Sought
<1> QED BY <1>1, <1>2, <1>3, <1>4

LEMMA PopStep ==
    ASSUME NodeInv, NEW a \in Actors, Pop(a) PROVE NodeInv'
<1>0. /\ act[a].at = "pop" /\ Sought(a) # {} /\ Base /\ Typed
      /\ UNCHANGED <<alive, gaveUp, used, inst, buf, own, thr, probe, bad>>
  BY DEF Pop, NodeInv, Base
<1>1. PICK n : n = Min(Sought(a))
  OBVIOUS
<1>2. n \in Nodes /\ n \in Listed /\ node[n].st = "listed" /\ n # 0 /\ (a \in Handles => n \in WithHandle(a))
  BY <1>0, <1>1, SoughtListed, Bounds DEF Listed
<1>3. /\ node[n].ref = 0 /\ node' = [node EXCEPT ![n].st = "out"]
      /\ act' = [act EXCEPT ![a].at = "sess", ![a].n = n]
  BY <1>1 DEF Pop
<1>4. /\ NodeOK' /\ KeepSess /\ KeepBufs /\ KeepId /\ KeepDev /\ KeepRef
      /\ node'[n].st = "out" /\ \A m \in Nodes : m # n => node'[m] = node[m]
  BY <1>0, <1>2, <1>3, OutEffect DEF Typed
<1>5. ActTo(a, "sess", n, act[a].i)
  <2>1. "sess" \in RemoverAts /\ n \in 0..MaxNodes /\ 0 \in 0..MaxInsts
    BY <1>2, Bounds DEF RemoverAts
  <2> QED BY <1>0, <1>3, <2>1, ActGoes DEF Typed
<1>6. RemoverInv'
  <2>1. a \notin alive
    BY <1>0 DEF Base, RemoverInv
  <2> QED BY <1>0, <1>2, <1>5, <2>1, RemoverTo
<1>7. \A m \in Nodes : node[m].st # "none" => node'[m].st # "none"
  BY <1>2, <1>4
<1>8. KnownInv'
  BY <1>0, <1>2, <1>5, <1>7, KnownTo
<1>9. Typed'
  <2>1. SetsOK'
    BY <1>0 DEF Typed, SetsOK
  <2> QED BY <1>0, <1>4, <1>5, <2>1 DEF Typed, InstOK, BufOK, ThrOK, ActTo
<1>10. ThreadInv' /\ NewThings'
  BY <1>0 DEF Base, ThreadInv, NewThings
<1>11. RegisterInv'
  <2>1. act'["dsp"].at # "idle" <=> act["dsp"].at # "idle"
    BY <1>0, <1>5, Bounds DEF ActTo
  <2>2. NewNodes' = NewNodes
    BY <1>2, <1>4 DEF NewNodes
  <2> QED BY <1>0, <2>1, <2>2 DEF Base, RegisterInv
<1>12. RefBound'
  BY <1>0, <1>4, RefFrame DEF Base
<1>13. CountBound'
  <2>1. KeepNone
    BY <1>4 DEF KeepNone
  <2> QED BY <1>0, <1>4, <2>1, CountFrame DEF Base, Typed
<1>14. OpenedInv'
  <2>1. \A x \in Actors : act'[x] = act[x] \/ act'[x].at # "close"
    BY <1>5 DEF ActTo
  <2> QED BY <1>0, <2>1, OpenedFrame DEF Base
<1>15. ASSUME Sane' PROVE SaneInv'
  <2>0. Sane /\ SaneInv
    BY <1>0, <1>15, StaysSane
  <2>1. UseInv'
    BY <1>0, <2>0 DEF SaneInv, UseInv
  <2>2. HoldInv'
    <3>1. n \in Live
      BY <1>2 DEF Live
    <3>2. Refs(n) = 0
      BY <1>3, <2>0, <3>1 DEF SaneInv, HoldInv
    <3>3. ~(thr.n = n /\ thr.at \in Holding) /\ probe # n
      BY <3>2 DEF Refs, One
    <3>4. Live' = Live /\ Live \subseteq Nodes
      BY <1>2, <1>4 DEF Live
    <3>5. \A m \in Live' : node'[m].ref = Refs(m)'
      BY <1>0, <1>4, <2>0, <3>4 DEF SaneInv, HoldInv, KeepRef, Refs, One
    <3>6. thr.at \in WithNode => thr.n \in Nodes
      BY <1>0 DEF Base, ThreadInv
    <3>7. probe # 0 => probe \in Nodes
      BY <1>0, Bounds DEF Typed, SetsOK, Nodes
    <3>8. thr'.at \in Holding => node'[thr'.n].st = "listed"
      BY <1>0, <1>4, <2>0, <3>3, <3>6 DEF SaneInv, HoldInv, WithNode
    <3>9. probe' # 0 => node'[probe'].st = "listed"
      BY <1>0, <1>4, <2>0, <3>3, <3>7 DEF SaneInv, HoldInv
    <3>10. thr'.at \in {"driver", "probe", "dequeue"} => node'[thr'.n].sess = {} /\ node'[thr'.n].bufs = {}
      BY <1>0, <1>4, <2>0, <3>6 DEF SaneInv, HoldInv, KeepSess, KeepBufs, WithNode, Holding
    <3> QED BY <3>5, <3>8, <3>9, <3>10 DEF HoldInv
  <2>3. OutInv'
    <3>1. \A x \in Actors : x # a => act'[x] = act[x] /\ (act[x].at \in Removing => act[x].n # n
                                                            /\ act[x].n \in Nodes)
      BY <1>0, <1>2, <1>5, <2>0 DEF ActTo, SaneInv, OutInv, Base, RemoverInv
    <3>2. act'[a].at = "sess" /\ act'[a].n = n /\ act[a].at \notin Removing
      BY <1>0, <1>5 DEF ActTo, Removing
    <3>3. \A x \in Actors : act'[x].at \in Removing => node'[act'[x].n].st = "out"
      BY <1>4, <2>0, <3>1, <3>2 DEF SaneInv, OutInv
    <3>4. \A x, y \in Actors :
              act'[x].at \in Removing /\ act'[y].at \in Removing /\ act'[x].n = act'[y].n => x = y
      BY <2>0, <3>1, <3>2 DEF SaneInv, OutInv
    <3>5. ASSUME NEW m \in Nodes, node'[m].st = "out"
          PROVE  \E x \in Actors : act'[x].at \in Removing /\ act'[x].n = m
      <4>1. CASE m = n
        BY <3>2, <4>1 DEF Removing
      <4>2. CASE m # n
        <5>1. PICK x \in Actors : act[x].at \in Removing /\ act[x].n = m
          BY <1>4, <2>0, <3>5, <4>2 DEF SaneInv, OutInv
        <5>2. x # a
          BY <3>2, <5>1
        <5> QED BY <3>1, <5>1, <5>2
      <4> QED BY <4>1, <4>2
    <3>6. \A x \in Actors : act'[x].at \in {"bufs", "free"} => x # a /\ act'[x] = act[x] /\ act[x].at \in Removing
      BY <3>1, <3>2 DEF Removing
    <3>7. \A x \in Actors : act'[x].at \in {"bufs", "free"} => node'[act'[x].n].sess = {}
      BY <1>4, <2>0, <3>1, <3>6 DEF SaneInv, OutInv, KeepSess
    <3>8. \A x \in Actors : act'[x].at = "free" => node'[act'[x].n].bufs = {}
      BY <1>4, <2>0, <3>1, <3>6 DEF SaneInv, OutInv, KeepBufs
    <3> QED BY <3>3, <3>4, <3>5, <3>7, <3>8 DEF OutInv
  <2>4. SessInv'
    <3>1. \A m \in Nodes : node'[m].sess = node[m].sess
      BY <1>4 DEF KeepSess
    <3>2. \A m \in Nodes : node[m].st \in {"listed", "out"} => node'[m].st \in {"listed", "out"}
      BY <1>4
    <3>3. \A x \in Actors : act'[x] = act[x] \/ (act[x].at # "close" /\ act'[x].at # "close")
      BY <1>0, <1>5 DEF ActTo
    <3> QED BY <1>0, <2>0, <3>1, <3>2, <3>3, SessFrame DEF Base, SaneInv
  <2>5. BufInv'
    <3>1. \A m \in Nodes : node'[m].bufs = node[m].bufs /\ node'[m].smem = node[m].smem
      BY <1>4 DEF KeepBufs
    <3>2. \A m \in Nodes : node[m].st \in {"listed", "out"} => node'[m].st \in {"listed", "out"}
      BY <1>4
    <3>3. \A m \in Nodes : node'[m].st = "listed" => node[m].st = "listed"
      BY <1>4
    <3> QED BY <1>0, <2>0, <3>1, <3>2, <3>3, BufFrame DEF SaneInv
  <2>6. NameInv'
    <3>1. \A m \in Nodes : node'[m].st \in {"listed", "out"} <=> node[m].st \in {"listed", "out"}
      BY <1>2, <1>4
    <3> QED BY <1>0, <1>4, <2>0, <3>1, NameFrame DEF SaneInv
  <2>7. HandleInv'
    <3>1. \A m \in Nodes : node'[m].st = "listed" => node'[m] = node[m]
      BY <1>4
    <3>2. ASSUME NEW h \in Handles \ (alive \cup gaveUp'), act'[h].at # "pop", act[h].at = "pop",
                 NEW m \in WithHandle(h)
          PROVE  node'[m].st # "listed"
      <4>1. h = a
        BY <1>5, <3>2, Bounds DEF ActTo
      <4>2. m \in Listed /\ n \in Listed /\ node[m].h = node[n].h
        BY <1>2, <3>2, <4>1 DEF WithHandle
      <4>3. m = n
        BY <2>0, <4>2 DEF SaneInv, HandleInv
      <4> QED BY <1>4, <4>3
    <3> QED BY <1>0, <2>0, <3>1, <3>2, HandleLess DEF SaneInv
  <2> QED BY <2>1, <2>2, <2>3, <2>4, <2>5, <2>6, <2>7 DEF SaneInv
<1> QED BY <1>6, <1>8, <1>9, <1>10, <1>11, <1>12, <1>13, <1>14, <1>15 DEF NodeInv, Base

\* A remover that has popped nothing rests.
LEMMA RestStep ==
    ASSUME NodeInv, NEW a \in Actors, act[a].at = "pop", Rest(a),
           gaveUp \subseteq gaveUp', gaveUp' \subseteq Handles,
           a \in Handles => a \in gaveUp' \/ WithHandle(a) = {},
           UNCHANGED <<alive, node, used, inst, buf, own, probe, bad>>
    PROVE  NodeInv'
<1>0. Base /\ Typed
  BY DEF NodeInv, Base
<1>1. ActTo(a, "idle", 0, 0) /\ ThrRests /\ (thr'.at = "unregister" <=> act'["dsp"].at # "idle")
  BY <1>0, RestOK
<1>2. RemoverInv'
  BY <1>0, <1>1, RemoverTo DEF Removing
<1>3. thr'.at \in WithNode => thr' = thr
  BY <1>1 DEF ThrRests, ThrIdle, WithNode, Holding
<1>4. KnownInv'
  BY <1>0, <1>1, <1>3, KnownTo
<1>5. \A x \in Actors : /\ x # a => act'[x] = act[x]
                        /\ act'[x] = act[x] \/ (act[x].at \notin Removing /\ act'[x].at \notin Removing)
                        /\ act'[x] = act[x] \/ (act[x].at # "close" /\ act'[x].at # "close")
  BY <1>1 DEF ActTo, Removing
<1>6. SetsOK' /\ ActOK'
  BY <1>0, <1>1 DEF Typed, SetsOK, ActTo
<1>7. ASSUME SaneInv PROVE OutInv' /\ HandleInv'
  <2>1. NodesStay /\ node' = node
    BY <1>0, NodeUnchanged DEF Typed
  <2>2. OutInv'
    BY <1>0, <1>5, <1>7, <2>1, OutFrame DEF Base, SaneInv, NodesStay
  <2>3. \A h \in Handles \ (alive \cup gaveUp') : act'[h].at # "pop" =>
               act[h].at # "pop" \/ \A m \in WithHandle(h) : node'[m].st # "listed"
    BY <1>5, Bounds
  <2>4. HandleInv'
    BY <1>0, <1>7, <2>1, <2>3, HandleLess DEF SaneInv
  <2> QED BY <2>2, <2>4
<1> QED BY <1>1, <1>2, <1>4, <1>5, <1>6, <1>7, ActStep

LEMMA PopBusyStep ==
    ASSUME NodeInv, NEW a \in Actors, PopBusy(a) PROVE NodeInv'
<1>0. /\ act[a].at = "pop" /\ Sought(a) # {} /\ Base /\ Typed
      /\ UNCHANGED <<alive, node, used, inst, buf, own, probe, bad>>
  BY DEF PopBusy, NodeInv, Base
<1>1. CASE Rest(a) /\ gaveUp' = gaveUp \cup ({a} \cap Handles)
  <2>1. gaveUp \subseteq Handles
    BY <1>0 DEF Typed, SetsOK
  <2> QED BY <1>0, <1>1, <2>1, RestStep
<1>2. ASSUME a = "rm", act' = [act EXCEPT ![a].n = Min(Sought(a))], UNCHANGED <<gaveUp, thr>>
      PROVE  NodeInv'
  <2>1. PICK n : n = Min(Sought(a))
    OBVIOUS
  <2>2. n \in Nodes /\ node[n].st # "none" /\ n \in 0..MaxNodes
    BY <1>0, <2>1, SoughtListed, Bounds DEF Listed
  <2>3. ActTo(a, "pop", n, act[a].i)
    <3>1. "pop" \in RemoverAts /\ 0 \in 0..MaxInsts
      BY Bounds DEF RemoverAts
    <3> QED BY <1>0, <1>2, <2>1, <2>2, <3>1, ActGoes DEF Typed
  <2>4. RemoverInv'
    <3>1. a \notin alive
      BY <1>0 DEF Base, RemoverInv
    <3> QED BY <1>0, <1>2, <2>3, <3>1, RemoverTo DEF Removing
  <2>5. KnownInv'
    BY <1>0, <1>2, <2>2, <2>3, KnownTo
  <2>6. \A x \in Actors : /\ x # a => act'[x] = act[x]
                          /\ act'[x].at = act[x].at
                          /\ act'[x] = act[x] \/ (act[x].at \notin Removing /\ act'[x].at \notin Removing)
                          /\ act'[x] = act[x] \/ (act[x].at # "close" /\ act'[x].at # "close")
    BY <1>0, <2>3 DEF ActTo, Removing
  <2>7. SetsOK' /\ ActOK' /\ ThrRests /\ (thr'.at = "unregister" <=> act'["dsp"].at # "idle")
    BY <1>0, <1>2, <2>3, <2>6, Bounds DEF Typed, SetsOK, ActTo, ThrRests, Base, RegisterInv
  <2>8. ASSUME SaneInv PROVE OutInv' /\ HandleInv'
    <3>1. NodesStay /\ node' = node
      BY <1>0, NodeUnchanged DEF Typed
    <3>2. OutInv'
      BY <1>0, <2>6, <2>8, <3>1, OutFrame DEF Base, SaneInv, NodesStay
    <3>3. \A h \in Handles : act'[h].at = "pop" <=> act[h].at = "pop"
      BY <2>6, Bounds
    <3>4. HandleInv'
      BY <1>0, <1>2, <2>8, <3>1, <3>3, HandleFrame DEF SaneInv, NodesStay
    <3> QED BY <3>2, <3>4
  <2> QED BY <1>0, <2>4, <2>5, <2>6, <2>7, <2>8, ActStep
<1> QED BY <1>1, <1>2 DEF PopBusy

LEMMA PopEmptyStep ==
    ASSUME NodeInv, NEW a \in Actors, PopEmpty(a) PROVE NodeInv'
<1>0. /\ act[a].at = "pop" /\ Sought(a) = {} /\ Base /\ Typed
      /\ UNCHANGED <<alive, gaveUp, node, used, inst, buf, own, probe>>
  BY DEF PopEmpty, NodeInv, Base
<1>1. CASE act[a].n = 0
  <2>1. Rest(a) /\ UNCHANGED bad
    BY <1>1 DEF PopEmpty
  <2>2. a \in Handles => WithHandle(a) = {}
    BY <1>0, Bounds DEF Sought
  <2>3. gaveUp \subseteq Handles
    BY <1>0 DEF Typed, SetsOK
  <2> QED BY <1>0, <2>1, <2>2, <2>3, RestStep
<1>2. CASE act[a].n # 0
  <2>1. act' = [act EXCEPT ![a].at = "sess"] /\ bad' = bad \cup {"stale"} /\ UNCHANGED thr
    BY <1>2 DEF PopEmpty
  <2>2. act[a].n \in Nodes /\ node[act[a].n].st # "none"
    BY <1>0, <1>2, Bounds DEF Base, KnownInv, Typed, ActOK, ActRec, Nodes
  <2>3. ActTo(a, "sess", act[a].n, act[a].i)
    <3>1. "sess" \in RemoverAts /\ 0 \in 0..MaxNodes /\ 0 \in 0..MaxInsts
      BY Bounds DEF RemoverAts
    <3> QED BY <1>0, <2>1, <3>1, ActGoes DEF Typed
  <2>4. RemoverInv'
    <3>1. a \notin alive
      BY <1>0 DEF Base, RemoverInv
    <3> QED BY <1>0, <2>2, <2>3, <3>1, RemoverTo DEF Removing
  <2>5. KnownInv'
    BY <1>0, <2>1, <2>2, <2>3, KnownTo
  <2>6. \A x \in Actors : act'[x] = act[x] \/ (act[x].at # "close" /\ act'[x].at # "close")
    BY <1>0, <2>3 DEF ActTo
  <2>7. /\ SetsOK' /\ ActOK' /\ ThrRests /\ bad \subseteq bad' /\ ~Sane'
        /\ (thr'.at = "unregister" <=> act'["dsp"].at # "idle")
    BY <1>0, <2>1, <2>3, Bounds DEF Typed, SetsOK, ActTo, ThrRests, Base, RegisterInv, Sane
  <2> QED BY <1>0, <2>4, <2>5, <2>6, <2>7, ActStep
<1> QED BY <1>1, <1>2

-----------------------------------------------------------------------------
\* A remover takes its node apart.

LEMMA OutMoves ==
    ASSUME OutInv, RemoverInv, KeepSt, NEW a \in Actors, NEW at \in Removing, NEW i,
           act[a].at \in Removing, ActTo(a, at, act[a].n, i),
           \A m \in Nodes : node[m].st = "out" =>
                node'[m].sess \subseteq node[m].sess /\ node'[m].bufs \subseteq node[m].bufs,
           at \in {"bufs", "free"} => node'[act[a].n].sess = {},
           at = "free" => node'[act[a].n].bufs = {}
    PROVE  OutInv'
<1>1. \A x \in Actors : act'[x].n = act[x].n /\ (act'[x].at \in Removing <=> act[x].at \in Removing)
  BY DEF ActTo
<1>2. \A x \in Actors : act[x].at \in Removing => act[x].n \in Nodes
  BY DEF RemoverInv
<1>3. \A x \in Actors : act'[x].at \in Removing => node'[act'[x].n].st = "out"
  BY <1>1, <1>2 DEF OutInv, KeepSt
<1>4. \A x, y \in Actors :
          act'[x].at \in Removing /\ act'[y].at \in Removing /\ act'[x].n = act'[y].n => x = y
  BY <1>1 DEF OutInv
<1>5. ASSUME NEW m \in Nodes, node'[m].st = "out"
      PROVE  \E x \in Actors : act'[x].at \in Removing /\ act'[x].n = m
  <2>1. PICK x \in Actors : act[x].at \in Removing /\ act[x].n = m
    BY <1>5 DEF OutInv, KeepSt
  <2> QED BY <1>1, <2>1
<1>6. ASSUME NEW x \in Actors, act'[x].at \in {"bufs", "free"}
      PROVE  node'[act'[x].n].sess = {} /\ (act'[x].at = "free" => node'[act'[x].n].bufs = {})
  <2>1. CASE x = a
    BY <1>6, <2>1 DEF ActTo
  <2>2. CASE x # a
    <3>1. act'[x] = act[x] /\ act[x].at \in Removing
      BY <1>6, <2>2 DEF ActTo, Removing
    <3>2. /\ act[x].n \in Nodes /\ node[act[x].n].st = "out" /\ node[act[x].n].sess = {}
          /\ (act[x].at = "free" => node[act[x].n].bufs = {})
      BY <1>2, <1>6, <3>1 DEF OutInv
    <3>3. node'[act[x].n].sess \subseteq node[act[x].n].sess /\ node'[act[x].n].bufs \subseteq node[act[x].n].bufs
      BY <3>2
    <3> QED BY <3>1, <3>2, <3>3
  <2> QED BY <2>1, <2>2
<1>7. \A x \in Actors : act'[x].at \in {"bufs", "free"} => node'[act'[x].n].sess = {}
  BY <1>6
<1>8. \A x \in Actors : act'[x].at = "free" => node'[act'[x].n].bufs = {}
  BY <1>6
<1> QED BY <1>3, <1>4, <1>5, <1>7, <1>8 DEF OutInv

\* What a remover writes to "bad" when it uses its node.
RemoverTouch(a) == bad' = IF node[act[a].n].st = "freed" THEN bad \cup {"remove"} ELSE bad

\* The lists of the node are empty: its buffers are next.
LEMMA NoSessionLeft ==
    ASSUME NodeInv, NEW a \in Actors, act[a].at = "sess", RemoverTouch(a), node[act[a].n].sess = {},
           act' = [act EXCEPT ![a].at = "bufs"],
           UNCHANGED <<alive, gaveUp, node, used, inst, buf, own, thr, probe>>
    PROVE  NodeInv'
<1>0. Base /\ Typed /\ act[a].at \in Removing /\ "bufs" \in Removing
  BY DEF NodeInv, Base, Removing
<1>1. act[a].n \in Nodes /\ act[a].n # 0 /\ node[act[a].n].st # "none" /\ a \notin alive
  BY <1>0, Bounds DEF Base, RemoverInv, KnownInv
<1>2. ActTo(a, "bufs", act[a].n, act[a].i)
  <2>1. "bufs" \in RemoverAts /\ 0 \in 0..MaxNodes /\ 0 \in 0..MaxInsts
    BY Bounds DEF RemoverAts
  <2> QED BY <1>0, <2>1, ActGoes DEF Typed
<1>3. RemoverInv'
  BY <1>0, <1>1, <1>2, RemoverTo
<1>4. KnownInv'
  BY <1>0, <1>1, <1>2, KnownTo
<1>5. \A x \in Actors : act'[x] = act[x] \/ (act[x].at # "close" /\ act'[x].at # "close")
  BY <1>2 DEF ActTo
<1>6. /\ SetsOK' /\ ActOK' /\ ThrRests /\ bad \subseteq bad'
      /\ (thr'.at = "unregister" <=> act'["dsp"].at # "idle")
  BY <1>0, <1>2, Bounds DEF Typed, SetsOK, ActTo, ThrRests, Base, RegisterInv, RemoverTouch
<1>7. ASSUME SaneInv PROVE bad' = bad /\ OutInv' /\ HandleInv'
  <2>1. NodesStay /\ node' = node
    BY <1>0, NodeUnchanged DEF Typed
  <2>2. bad' = bad
    BY <1>0, <1>7 DEF SaneInv, OutInv, RemoverTouch
  <2>3. OutInv'
    BY <1>0, <1>2, <1>7, <2>1, OutMoves DEF SaneInv, Base, NodesStay
  <2>4. \A h \in Handles : act'[h].at = "pop" <=> act[h].at = "pop"
    BY <1>2, Bounds DEF ActTo
  <2>5. HandleInv'
    BY <1>0, <1>7, <2>1, <2>4, HandleFrame DEF SaneInv, NodesStay
  <2> QED BY <2>2, <2>3, <2>5
<1> QED BY <1>3, <1>4, <1>5, <1>6, <1>7, ActStep

\* A step in which a remover works on its node.
LEMMA WorkStep ==
    ASSUME NodeInv, NEW a \in Actors, act[a].at \in Removing, NEW at \in Removing, NEW i,
           ActTo(a, at, act[a].n, i), at = "close" => i \in Insts,
           NodeOK', KeepSt, KeepId, KeepDev, KeepRef,
           \A m \in Nodes : node'[m].sess \subseteq node[m].sess /\ node'[m].bufs \subseteq node[m].bufs,
           UNCHANGED <<alive, gaveUp, used, thr, probe>>, InstOK', BufOK', SetsOK',
           CountBound', OpenedInv', NewThings', bad \subseteq bad',
           at \in {"bufs", "free"} => (SaneInv => node'[act[a].n].sess = {}),
           at = "free" => node'[act[a].n].bufs = {},
           Sane' /\ SaneInv => bad' = bad /\ SessInv' /\ BufInv'
    PROVE  NodeInv'
<1>0. Base /\ Typed
  BY DEF NodeInv, Base
<1>1. act[a].n \in Nodes /\ act[a].n # 0 /\ node[act[a].n].st # "none" /\ a \notin alive
  BY <1>0, Bounds DEF Base, RemoverInv, KnownInv, Removing
<1>2. RemoverInv'
  BY <1>0, <1>1, RemoverTo DEF Removing
<1>3. KnownInv'
  <2>1. \A m \in Nodes : node[m].st # "none" => node'[m].st # "none"
    BY DEF KeepSt
  <2> QED BY <1>0, <1>1, <2>1, KnownTo
<1>4. Typed'
  BY <1>0 DEF Typed, ThrOK, ActTo
<1>5. ThreadInv' /\ RegisterInv'
  <2>1. act'["dsp"].at # "idle" <=> act["dsp"].at # "idle"
    BY Bounds DEF ActTo, Removing
  <2>2. NewNodes' = NewNodes
    BY DEF NewNodes, KeepSt
  <2> QED BY <1>0, <2>1, <2>2 DEF Base, ThreadInv, RegisterInv
<1>6. RefBound'
  BY <1>0, RefFrame DEF Base
<1>7. ASSUME Sane' PROVE SaneInv'
  <2>0. Sane /\ SaneInv /\ bad' = bad /\ SessInv' /\ BufInv'
    BY <1>7, StaysSane
  <2>1. UseInv'
    BY <2>0 DEF SaneInv, UseInv
  <2>2. HoldInv'
    <3>1. thr.at \in WithNode => thr.n \in Nodes
      BY <1>0 DEF Base, ThreadInv
    <3>2. thr.at \in {"driver", "probe", "dequeue"} =>
              node'[thr.n].sess = node[thr.n].sess /\ node'[thr.n].bufs = node[thr.n].bufs
      BY <2>0, <3>1 DEF SaneInv, HoldInv, WithNode, Holding
    <3> QED BY <1>0, <2>0, <3>1, <3>2, HoldFrame DEF Base, SaneInv
  <2>3. OutInv'
    BY <1>0, <2>0, OutMoves DEF Base, SaneInv
  <2>4. NameInv'
    BY <2>0, NameFrame DEF SaneInv, KeepSt
  <2>5. HandleInv'
    <3>1. \A h \in Handles : act'[h].at = "pop" <=> act[h].at = "pop"
      BY Bounds DEF ActTo, Removing
    <3> QED BY <1>0, <2>0, <3>1, HandleFrame DEF SaneInv
  <2> QED BY <2>0, <2>1, <2>2, <2>3, <2>4, <2>5 DEF SaneInv
<1> QED BY <1>2, <1>3, <1>4, <1>5, <1>6, <1>7 DEF NodeInv, Base

LEMMA RemoverDelists ==
    ASSUME NodeInv, NEW a \in Actors, act[a].at = "sess", RemoverTouch(a), NEW i \in node[act[a].n].sess,
           node' = Delist(act[a].n, i), act' = [act EXCEPT ![a].at = "close", ![a].i = i],
           UNCHANGED <<alive, gaveUp, used, inst, buf, own, thr, probe>>
    PROVE  NodeInv'
<1> DEFINE n == act[a].n
<1>0. Base /\ Typed /\ NodeOK /\ act[a].at \in Removing /\ "close" \in Removing
  BY DEF NodeInv, Base, Typed, Removing
<1>1. n \in Nodes /\ node[n].st # "none"
  BY <1>0, Bounds DEF Base, RemoverInv, KnownInv
<1>2. i \in Insts /\ inst[i] # "none" /\ \A m \in Nodes : node[m].sess \subseteq Insts
  BY <1>0, <1>1 DEF Base, CountBound, NodeOK, NodeRec
<1>3. SessTo(n, node[n].sess \ {i}, node[n].cnt - 1)
  BY <1>0, <1>1, DelistEffect DEF Base
<1>4. ActTo(a, "close", n, i)
  <2>1. "close" \in RemoverAts /\ 0 \in 0..MaxNodes /\ i \in 0..MaxInsts
    BY <1>2, Bounds DEF RemoverAts
  <2> QED BY <1>0, <2>1, ActGoes DEF Typed
<1>5. CountBound'
  BY <1>0, <1>1, <1>3, DelistCount DEF Base
<1>6. /\ node'[n].sess = node[n].sess \ {i} /\ \A m \in Nodes : m # n => node'[m].sess = node[m].sess
      /\ \A m \in Nodes : /\ node'[m].st = node[m].st
                          /\ node'[m].bufs = node[m].bufs /\ node'[m].smem = node[m].smem
  BY <1>1, <1>3 DEF SessTo, KeepSt, KeepBufs
<1>7. OpenedInv'
  <2>1. ASSUME NEW x \in Actors, act'[x].at = "close" PROVE inst'[act'[x].i] # "none"
    <3>1. CASE x = a
      BY <1>2, <1>4, <3>1 DEF ActTo
    <3>2. CASE x # a
      BY <1>0, <1>4, <2>1, <3>2 DEF ActTo, Base, OpenedInv
    <3> QED BY <3>1, <3>2
  <2> QED BY <2>1 DEF OpenedInv
<1>8. NewThings' /\ InstOK' /\ BufOK' /\ SetsOK' /\ bad \subseteq bad'
  BY <1>0 DEF Base, NewThings, Typed, InstOK, BufOK, SetsOK, RemoverTouch
<1>9. ASSUME SaneInv PROVE bad' = bad /\ SessInv' /\ BufInv'
  <2>1. bad' = bad
    BY <1>0, <1>9 DEF SaneInv, OutInv, RemoverTouch
  <2>2. BufInv'
    BY <1>0, <1>6, <1>9, BufFrame DEF SaneInv
  <2>3. \A j \in Insts : (Closing(j)' <=> Closing(j)) /\ ~Closing(i)
    BY <1>1, <1>2, <1>9 DEF Closing, SaneInv, SessInv
  <2>4. \A j \in Insts, x \in Actors : (ClosingBy(x, j)' <=> (ClosingBy(x, j) \/ (x = a /\ j = i)))
                                       /\ ~ClosingBy(x, i)
    <3>1. \A j \in Insts, x \in Actors : ClosingBy(x, j)' <=> (ClosingBy(x, j) \/ (x = a /\ j = i))
      BY <1>4 DEF ClosingBy, ActTo
    <3>2. \A x \in Actors : ~ClosingBy(x, i)
      BY <1>1, <1>2, <1>9 DEF SaneInv, SessInv
    <3> QED BY <3>1, <3>2
  <2>5. inst[i] = "open" /\ \A m \in Nodes : i \notin node'[m].sess
    BY <1>1, <1>2, <1>6, <1>9 DEF SaneInv, SessInv
  <2>6. \A m \in Nodes : \A j \in node'[m].sess : node'[m].st \in {"listed", "out"} /\ inst'[j] = "open"
    BY <1>6, <1>9 DEF SaneInv, SessInv
  <2>7. \A m, k \in Nodes : \A j \in Insts : j \in node'[m].sess /\ j \in node'[k].sess => m = k
    BY <1>6, <1>9 DEF SaneInv, SessInv
  <2>b. \A m \in Nodes : node'[m].sess \subseteq node[m].sess
    BY <1>6
  <2>8. ASSUME NEW j \in Insts, Closing(j)'
        PROVE  inst'[j] = "open" /\ \A m \in Nodes : j \notin node'[m].sess
    BY <1>9, <2>3, <2>8, <2>b DEF SaneInv, SessInv
  <2>9. ASSUME NEW j \in Insts, NEW x \in Actors, ClosingBy(x, j)'
        PROVE  inst'[j] = "open" /\ ~Closing(j)' /\ \A m \in Nodes : j \notin node'[m].sess
    <3>1. CASE j = i
      BY <2>3, <2>5, <3>1
    <3>2. CASE j # i
      <4>1. ClosingBy(x, j)
        BY <2>4, <2>9, <3>2
      <4>2. inst[j] = "open" /\ ~Closing(j) /\ \A m \in Nodes : j \notin node[m].sess
        BY <1>9, <4>1 DEF SaneInv, SessInv
      <4> QED BY <2>3, <2>b, <4>2
    <3> QED BY <3>1, <3>2
  <2>10. \A j \in Insts, x, y \in Actors : ClosingBy(x, j)' /\ ClosingBy(y, j)' => x = y
    BY <1>9, <2>4 DEF SaneInv, SessInv
  <2>11. ASSUME NEW j \in Insts, inst'[j] = "open"
         PROVE  (\E m \in Nodes : j \in node'[m].sess) \/ Closing(j)' \/ \E x \in Actors : ClosingBy(x, j)'
    <3>1. CASE j = i
      BY <2>4, <3>1
    <3>2. CASE j # i
      <4>1. (\E m \in Nodes : j \in node[m].sess) \/ Closing(j) \/ \E x \in Actors : ClosingBy(x, j)
        BY <1>9, <2>11 DEF SaneInv, SessInv
      <4>2. \A m \in Nodes : j \in node[m].sess => j \in node'[m].sess
        BY <1>6, <3>2
      <4> QED BY <2>3, <2>4, <4>1, <4>2
    <3> QED BY <3>1, <3>2
  <2>12. thr'.at = "created" => thr'.i \in node'[thr'.n].sess
    <3>1. ASSUME thr.at = "created" PROVE thr.n # n /\ thr.n \in Nodes
      <4>1. node[thr.n].st = "listed" /\ node[n].st = "out"
        BY <1>0, <1>9, <3>1 DEF SaneInv, HoldInv, OutInv, Holding
      <4>2. thr.n \in Nodes
        BY <1>0, <3>1 DEF Base, ThreadInv, WithNode, Holding
      <4> QED BY <4>1, <4>2
    <3> QED BY <1>6, <1>9, <3>1 DEF SaneInv, SessInv
  <2> QED BY <2>1, <2>2, <2>6, <2>7, <2>8, <2>9, <2>10, <2>11, <2>12 DEF SessInv
<1>10. \A m \in Nodes : node'[m].sess \subseteq node[m].sess /\ node'[m].bufs \subseteq node[m].bufs
  BY <1>6
<1> QED BY <1>0, <1>2, <1>3, <1>4, <1>5, <1>7, <1>8, <1>9, <1>10, WorkStep DEF SessTo

LEMMA RemoveSessionStep ==
    ASSUME NodeInv, NEW a \in Actors, RemoveSession(a) PROVE NodeInv'
<1>0. /\ act[a].at = "sess" /\ RemoverTouch(a) /\ Base /\ act[a].n \in Nodes
      /\ UNCHANGED <<alive, gaveUp, used, inst, buf, own, probe>>
  BY DEF RemoveSession, Touch, RemoverTouch, NodeInv, Base, RemoverInv, Removing
<1>1. CASE /\ node[act[a].n].sess = {} /\ act' = [act EXCEPT ![a].at = "bufs"]
           /\ UNCHANGED node /\ UNCHANGED thr
  BY <1>0, <1>1, NoSessionLeft
<1>2. CASE node[act[a].n].sess = {} /\ node[act[a].n].cnt # 0
  BY <1>0, <1>2, FS_EmptySet DEF Base, CountBound
<1>3. ASSUME NEW i \in node[act[a].n].sess, node' = Delist(act[a].n, i),
             act' = [act EXCEPT ![a].at = "close", ![a].i = i], UNCHANGED thr
      PROVE  NodeInv'
  BY <1>0, <1>3, RemoverDelists
<1> QED BY <1>1, <1>2, <1>3 DEF RemoveSession

LEMMA RemoverClosesStep ==
    ASSUME NodeInv, NEW a \in Actors, RemoverCloses(a) PROVE NodeInv'
<1>0. /\ act[a].at = "close" /\ Base /\ Typed /\ InstOK /\ act[a].at \in Removing /\ "sess" \in Removing
      /\ UNCHANGED <<alive, gaveUp, node, used, buf, own, thr, probe>>
      /\ act' = [act EXCEPT ![a].at = "sess", ![a].i = 0]
      /\ inst' = [inst EXCEPT ![act[a].i] = "closed"]
      /\ bad' = IF inst[act[a].i] = "closed" THEN bad \cup {"twice"} ELSE bad
  BY DEF RemoverCloses, Close, NodeInv, Base, Typed, Removing
<1> DEFINE i == act[a].i
<1>1. i \in Insts /\ inst[i] # "none"
  BY <1>0 DEF Base, RemoverInv, OpenedInv
<1>2. ActTo(a, "sess", act[a].n, 0)
  <2>1. "sess" \in RemoverAts /\ 0 \in 0..MaxNodes /\ 0 \in 0..MaxInsts
    BY Bounds DEF RemoverAts
  <2> QED BY <1>0, <2>1, ActGoes DEF Typed
<1>3. NodesStay /\ node' = node
  BY <1>0, NodeUnchanged DEF Typed
<1>4. InstOK' /\ inst'[i] = "closed" /\ \A j \in Insts : j # i => inst'[j] = inst[j]
  BY <1>0, <1>1 DEF InstOK
<1>5. \A j \in Insts : inst[j] # "none" => inst'[j] # "none"
  BY <1>4
<1>6. CountBound'
  BY <1>0, <1>3, <1>5, CountFrame DEF Base, NodesStay, Typed
<1>7. OpenedInv'
  <2>1. \A x \in Actors : act'[x] = act[x] \/ act'[x].at # "close"
    BY <1>2 DEF ActTo
  <2> QED BY <1>0, <1>5, <2>1, OpenedFrame DEF Base
<1>8. NewThings'
  <2>1. thr.cmd = "create" /\ thr.at \notin {"created", "close"} => thr.i \in Insts /\ thr.i # i
    BY <1>0, <1>1 DEF Base, NewThings, ThreadInv, SessCmds
  <2> QED BY <1>0, <1>4, <2>1 DEF Base, NewThings
<1>9. BufOK' /\ SetsOK' /\ bad \subseteq bad'
  BY <1>0 DEF Typed, BufOK, SetsOK
<1>10. ASSUME SaneInv PROVE bad' = bad /\ SessInv' /\ BufInv'
  <2>0. ClosingBy(a, i)
    BY <1>0 DEF ClosingBy
  <2>1. inst[i] = "open" /\ ~Closing(i) /\ \A m \in Nodes : i \notin node[m].sess
    BY <1>1, <1>10, <2>0 DEF SaneInv, SessInv
  <2>2. bad' = bad
    BY <1>0, <2>1
  <2>3. BufInv'
    BY <1>0, <1>3, <1>10, BufFrame DEF SaneInv
  <2>4. \A j \in Insts : (Closing(j)' <=> Closing(j))
    BY <1>0 DEF Closing
  <2>5. \A j \in Insts, x \in Actors : ClosingBy(x, j)' <=> (ClosingBy(x, j) /\ j # i)
    <3>1. \A x \in Actors : ClosingBy(x, i) => x = a
      BY <1>1, <1>10, <2>0 DEF SaneInv, SessInv
    <3>2. ASSUME NEW j \in Insts, NEW x \in Actors PROVE ClosingBy(x, j)' <=> (ClosingBy(x, j) /\ j # i)
      <4>1. CASE x = a
        BY <1>0, <1>2, <4>1 DEF ClosingBy, ActTo
      <4>2. CASE x # a
        BY <1>2, <3>1, <4>2 DEF ClosingBy, ActTo
      <4> QED BY <4>1, <4>2
    <3> QED BY <3>2
  <2>6. \A m \in Nodes : \A j \in node'[m].sess : node'[m].st \in {"listed", "out"} /\ inst'[j] = "open"
    <3>1. \A m \in Nodes : node[m].sess \subseteq Insts
      BY <1>0 DEF Typed, NodeOK, NodeRec
    <3> QED BY <1>3, <1>4, <1>10, <2>1, <3>1 DEF SaneInv, SessInv
  <2>7. \A m, k \in Nodes : \A j \in Insts : j \in node'[m].sess /\ j \in node'[k].sess => m = k
    BY <1>3, <1>10 DEF SaneInv, SessInv
  <2>8. \A j \in Insts : Closing(j)' => inst'[j] = "open" /\ \A m \in Nodes : j \notin node'[m].sess
    BY <1>3, <1>4, <1>10, <2>1, <2>4 DEF SaneInv, SessInv
  <2>9. ASSUME NEW j \in Insts, NEW x \in Actors, ClosingBy(x, j)'
        PROVE  inst'[j] = "open" /\ ~Closing(j)' /\ \A m \in Nodes : j \notin node'[m].sess
    <3>1. ClosingBy(x, j) /\ j # i
      BY <2>5, <2>9
    <3>2. inst[j] = "open" /\ ~Closing(j) /\ \A m \in Nodes : j \notin node[m].sess
      BY <1>10, <3>1 DEF SaneInv, SessInv
    <3> QED BY <1>3, <1>4, <2>4, <3>1, <3>2
  <2>10. \A j \in Insts, x, y \in Actors : ClosingBy(x, j)' /\ ClosingBy(y, j)' => x = y
    BY <1>10, <2>5 DEF SaneInv, SessInv
  <2>11. ASSUME NEW j \in Insts, inst'[j] = "open"
         PROVE  (\E m \in Nodes : j \in node'[m].sess) \/ Closing(j)' \/ \E x \in Actors : ClosingBy(x, j)'
    <3>1. j # i /\ inst[j] = "open"
      BY <1>4, <2>11
    <3>2. (\E m \in Nodes : j \in node[m].sess) \/ Closing(j) \/ \E x \in Actors : ClosingBy(x, j)
      BY <1>10, <3>1 DEF SaneInv, SessInv
    <3> QED BY <1>3, <2>4, <2>5, <3>1, <3>2
  <2>12. thr'.at = "created" => thr'.i \in node'[thr'.n].sess
    BY <1>0, <1>3, <1>10 DEF SaneInv, SessInv
  <2> QED BY <2>2, <2>3, <2>6, <2>7, <2>8, <2>9, <2>10, <2>11, <2>12 DEF SessInv
<1>11. /\ KeepSt /\ KeepId /\ KeepDev /\ KeepRef /\ NodeOK'
       /\ \A m \in Nodes : node'[m].sess \subseteq node[m].sess /\ node'[m].bufs \subseteq node[m].bufs
  BY <1>3 DEF NodesStay
<1> QED BY <1>0, <1>2, <1>4, <1>6, <1>7, <1>8, <1>9, <1>10, <1>11, WorkStep

LEMMA RemoveBuffersStep ==
    ASSUME NodeInv, NEW a \in Actors, RemoveBuffers(a) PROVE NodeInv'
<1> DEFINE n == act[a].n
<1>0. /\ act[a].at = "bufs" /\ Base /\ Typed /\ NodeOK /\ act[a].at \in Removing /\ "free" \in Removing
      /\ UNCHANGED <<alive, gaveUp, used, inst, own, thr, probe>> /\ RemoverTouch(a)
      /\ act' = [act EXCEPT ![a].at = "free"]
      /\ buf' = [b \in Bufs |-> CASE b \notin node[n].bufs -> buf[b]
                                  [] b \in Leaks(a, n)     -> "leaked"
                                  [] OTHER                 -> "freed"]
      /\ node' = [node EXCEPT ![n].bufs = {},
                              ![n].smem = IF a = "rm" THEN @ ELSE @ - Cardinality(Clients(n))]
  BY DEF RemoveBuffers, Touch, RemoverTouch, NodeInv, Base, Typed, Removing
<1>1. n \in Nodes /\ node[n].st # "none"
  BY <1>0, Bounds DEF Base, RemoverInv, KnownInv
<1>2. /\ BufsTo(n, {}, SmemLeft(a, n)) /\ KeepRef
      /\ SmemLeft(a, n) \in Nat /\ SmemLeft(a, n) <= node[n].smem
  BY <1>0, <1>1, EmptyBufsEffect
<1>3. ActTo(a, "free", n, act[a].i)
  <2>1. "free" \in RemoverAts /\ 0 \in 0..MaxNodes /\ 0 \in 0..MaxInsts
    BY Bounds DEF RemoverAts
  <2> QED BY <1>0, <2>1, ActGoes DEF Typed
<1>4. \A b \in Bufs : /\ b \notin node[n].bufs => buf'[b] = buf[b]
                      /\ b \in node[n].bufs => buf'[b] \in {"leaked", "freed"}
  <2>1. ASSUME NEW b \in Bufs
        PROVE  /\ b \notin node[n].bufs => buf'[b] = buf[b]
               /\ b \in node[n].bufs => buf'[b] \in {"leaked", "freed"}
    <3>0. Leaks(a, n) \subseteq node[n].bufs
      BY DEF Leaks, Clients
    <3>1. buf'[b] = CASE b \notin node[n].bufs -> buf[b]
                      [] b \in Leaks(a, n)     -> "leaked"
                      [] OTHER                 -> "freed"
      BY <1>0
    <3>2. CASE b \notin node[n].bufs
      BY <3>0, <3>1, <3>2
    <3>3. CASE b \in Leaks(a, n)
      BY <3>0, <3>1, <3>3
    <3>4. CASE b \in node[n].bufs /\ b \notin Leaks(a, n)
      BY <3>1, <3>4
    <3> QED BY <3>2, <3>3, <3>4
  <2> QED BY <2>1
<1>5. BufOK'
  <2>1. DOMAIN buf' = Bufs /\ buf' = [b \in Bufs |-> buf'[b]]
    BY <1>0
  <2>2. \A b \in Bufs : buf'[b] \in {"none", "mapped", "freed", "leaked"}
    BY <1>0, <1>4 DEF Typed, BufOK
  <2>3. buf' \in [Bufs -> {"none", "mapped", "freed", "leaked"}]
    BY <2>1, <2>2
  <2> QED BY <1>0, <2>3 DEF Typed, BufOK
<1>6. /\ node'[n].bufs = {} /\ node'[n].smem = SmemLeft(a, n)
      /\ \A m \in Nodes : m # n => node'[m] = node[m]
      /\ \A m \in Nodes : /\ node'[m].st = node[m].st
                          /\ node'[m].sess = node[m].sess /\ node'[m].cnt = node[m].cnt
      /\ \A m \in Nodes : node[m].bufs \in SUBSET Bufs /\ node[m].smem \in Nat
      /\ \A m \in Nodes : \A b \in node[m].bufs : buf[b] # "none"
  BY <1>0, <1>1, <1>2 DEF BufsTo, KeepSt, KeepSess, NodeOK, NodeRec, Base, CountBound
<1>7. Taken' = Taken
  BY <1>1, <1>4, <1>6 DEF Taken
<1>8. CountBound'
  <2>1. ASSUME NEW m \in Nodes
        PROVE  /\ node'[m].cnt = Cardinality(node'[m].sess)
               /\ \A j \in node'[m].sess : inst'[j] # "none"
               /\ node'[m].st = "none" => node'[m] = NoNode
    BY <1>0, <1>1, <1>6 DEF Base, CountBound
  <2>2. ASSUME NEW m \in Nodes
        PROVE  /\ \A b \in node'[m].bufs : buf'[b] # "none"
               /\ Cardinality(node'[m].bufs) <= node'[m].smem
               /\ node'[m].smem <= Cardinality(Taken')
    <3>1. Cardinality(Taken) \in Nat /\ node[m].smem <= Cardinality(Taken)
      BY <1>0, BufCard DEF Base, CountBound, Taken
    <3>2. CASE m = n
      <4>1. Cardinality({}) = 0
        BY FS_EmptySet
      <4>2. node'[m].bufs = {} /\ node'[m].smem = SmemLeft(a, n)
        BY <1>6, <3>2
      <4>3. node[m].smem \in Nat /\ SmemLeft(a, n) \in Nat /\ SmemLeft(a, n) <= node[m].smem
        BY <1>2, <1>6, <3>2
      <4>4. SmemLeft(a, n) <= Cardinality(Taken)
        <5> HIDE DEF n
        <5> QED BY <3>1, <4>3
      <4>5. Cardinality(Taken') = Cardinality(Taken)
        BY <1>7
      <4>6. Cardinality(node'[m].bufs) <= node'[m].smem
        <5> HIDE DEF n
        <5> QED BY <4>1, <4>2, <4>3
      <4>7. node'[m].smem <= Cardinality(Taken')
        BY <4>2, <4>4, <4>5
      <4> QED BY <4>2, <4>6, <4>7
    <3>3. CASE m # n
      <4>1. node'[m] = node[m]
        BY <1>6, <3>3
      <4> QED BY <1>0, <1>4, <1>6, <1>7, <4>1 DEF Base, CountBound
    <3> QED BY <3>2, <3>3
  <2> QED BY <2>1, <2>2 DEF CountBound
<1>9. OpenedInv'
  <2>1. \A x \in Actors : act'[x] = act[x] \/ act'[x].at # "close"
    BY <1>3 DEF ActTo
  <2> QED BY <1>0, <2>1, OpenedFrame DEF Base
<1>10. NewThings'
  <2>1. thr.cmd \in {"alloc", "map"} => thr.b \in Bufs /\ thr.b \notin node[n].bufs
    BY <1>0, <1>1, <1>6 DEF Base, ThreadInv, NewThings, BufCmds
  <2> QED BY <1>0, <1>4, <2>1 DEF Base, NewThings
<1>11. InstOK' /\ SetsOK' /\ bad \subseteq bad'
  BY <1>0 DEF Typed, InstOK, SetsOK, RemoverTouch
<1>12. ASSUME SaneInv PROVE bad' = bad /\ SessInv' /\ BufInv' /\ node'[n].sess = {}
  <2>1. node[n].st = "out" /\ node[n].sess = {}
    BY <1>0, <1>12 DEF SaneInv, OutInv
  <2>2. bad' = bad
    BY <1>0, <2>1 DEF RemoverTouch
  <2>3. SessInv'
    <3>1. \A x \in Actors : act'[x] = act[x] \/ (act[x].at # "close" /\ act'[x].at # "close")
      BY <1>0, <1>3 DEF ActTo
    <3> QED BY <1>0, <1>6, <1>12, <3>1, SessFrame DEF Base, SaneInv
  <2>4. \A m \in Nodes : \A b \in node'[m].bufs : node'[m].st \in {"listed", "out"} /\ buf'[b] = "mapped"
    <3>1. ASSUME NEW m \in Nodes, NEW b \in node'[m].bufs
          PROVE  node'[m].st \in {"listed", "out"} /\ buf'[b] = "mapped"
      <4>1. m # n /\ b \in node[m].bufs /\ b \in Bufs
        BY <1>6
      <4>2. b \notin node[n].bufs
        BY <1>1, <1>12, <4>1 DEF SaneInv, BufInv
      <4>3. node[m].st \in {"listed", "out"} /\ buf[b] = "mapped"
        BY <1>12, <4>1 DEF SaneInv, BufInv
      <4> QED BY <1>4, <1>6, <4>1, <4>2, <4>3
    <3> QED BY <3>1
  <2>5. \A m, k \in Nodes : \A b \in Bufs : b \in node'[m].bufs /\ b \in node'[k].bufs => m = k
    <3>1. \A m \in Nodes : node'[m].bufs \subseteq node[m].bufs
      BY <1>6
    <3> QED BY <1>12, <3>1 DEF SaneInv, BufInv
  <2>6. ASSUME NEW b \in Bufs, buf'[b] = "mapped" PROVE \E m \in Nodes : b \in node'[m].bufs
    <3>1. b \notin node[n].bufs /\ buf[b] = "mapped"
      BY <1>4, <2>6
    <3>2. PICK m \in Nodes : b \in node[m].bufs
      BY <1>12, <3>1 DEF SaneInv, BufInv
    <3>3. m # n
      BY <3>1, <3>2
    <3> QED BY <1>6, <3>2, <3>3
  <2>7. \A m \in Listed' : node'[m].smem = Cardinality(node'[m].bufs)
    BY <1>6, <1>12, <2>1 DEF SaneInv, BufInv, Listed
  <2>8. BufInv'
    BY <2>4, <2>5, <2>6, <2>7 DEF BufInv
  <2> QED BY <1>1, <1>6, <2>1, <2>2, <2>3, <2>8
<1>13. \A m \in Nodes : node'[m].sess \subseteq node[m].sess /\ node'[m].bufs \subseteq node[m].bufs
  BY <1>6
<1>14. NodeOK' /\ KeepSt /\ KeepId /\ KeepDev /\ KeepRef
  BY <1>2 DEF BufsTo
<1> QED BY <1>0, <1>3, <1>5, <1>6, <1>8, <1>9, <1>10, <1>11, <1>12, <1>13, <1>14, WorkStep

LEMMA FreeNodeStep ==
    ASSUME NodeInv, NEW a \in Actors, FreeNode(a) PROVE NodeInv'
<1> DEFINE n == act[a].n
<1>0. /\ act[a].at = "free" /\ Base /\ Typed /\ act[a].at \in Removing /\ RemoverTouch(a)
      /\ UNCHANGED <<alive, gaveUp, inst, buf, own, probe>>
      /\ node' = [node EXCEPT ![n] = Freed(n)] /\ used' = used \ {node[n].name}
  BY DEF FreeNode, Touch, RemoverTouch, NodeInv, Base, Removing
<1>1. n \in Nodes /\ node[n].st # "none" /\ a \notin alive
  BY <1>0, Bounds DEF Base, RemoverInv, KnownInv
<1>2. /\ NodeOK' /\ \A m \in Nodes : m # n => node'[m] = node[m]
      /\ node'[n].st = "freed" /\ node'[n].ref = 0 /\ node'[n].sess = {} /\ node'[n].cnt = 0
      /\ node'[n].bufs = {} /\ node'[n].smem = 0 /\ node'[n].h = node[n].h
  BY <1>0, <1>1, FreeEffect DEF Typed
<1>3. PICK at \in {"idle", "pop"} : /\ ActTo(a, at, 0, 0) /\ ThrRests /\ (at = "pop" => a = "rm")
                                    /\ (thr'.at = "unregister" <=> act'["dsp"].at # "idle")
  <2>1. CASE a = "rm"
    <3>1. act' = [act EXCEPT ![a] = [Resting EXCEPT !.at = "pop"]] /\ UNCHANGED thr
      BY <2>1 DEF FreeNode
    <3>2. "pop" \in RemoverAts /\ 0 \in 0..MaxNodes /\ 0 \in 0..MaxInsts
      BY Bounds DEF RemoverAts
    <3>3. ActTo(a, "pop", 0, 0)
      BY <1>0, <3>1, <3>2, ActGoes DEF Typed
    <3>4. thr'.at = "unregister" <=> act'["dsp"].at # "idle"
      BY <1>0, <2>1, <3>1, <3>3, Bounds DEF ActTo, Base, RegisterInv
    <3> QED BY <2>1, <3>1, <3>3, <3>4 DEF ThrRests
  <2>2. CASE a # "rm"
    <3>1. Rest(a)
      BY <2>2 DEF FreeNode
    <3> QED BY <1>0, <3>1, RestOK
  <2> QED BY <2>1, <2>2
<1>4. RemoverInv'
  BY <1>0, <1>1, <1>3, RemoverTo DEF Removing
<1>5. ThrOK' /\ ThreadInv' /\ NewThings' /\ (thr'.at \in WithNode => thr' = thr)
  BY <1>0, <1>3, ThrRestsOK
<1>6. KnownInv'
  <2>1. \A m \in Nodes : node[m].st # "none" => node'[m].st # "none"
    BY <1>2
  <2> QED BY <1>0, <1>3, <1>5, <2>1, KnownTo
<1>7. Typed'
  <2>1. SetsOK' /\ bad \subseteq bad'
    BY <1>0 DEF Typed, SetsOK, RemoverTouch
  <2> QED BY <1>0, <1>2, <1>3, <1>5, <2>1 DEF Typed, InstOK, BufOK, ActTo
<1>8. RegisterInv'
  <2>1. thr'.at = "register" => thr' = thr
    BY <1>3 DEF ThrRests, ThrIdle
  <2>2. NewNodes' = NewNodes
    BY <1>1, <1>2 DEF NewNodes
  <2> QED BY <1>0, <1>3, <2>1, <2>2 DEF Base, RegisterInv
<1>9. \A m \in Nodes : (thr'.n = m /\ thr'.at \in Holding) <=> (thr.n = m /\ thr.at \in Holding)
  BY <1>3 DEF ThrRests, ThrIdle, Holding
<1>10. \A m \in Nodes : Refs(m)' = Refs(m) /\ Refs(m) \in Nat
  BY <1>0, <1>9 DEF Refs, One
<1>11. RefBound'
  <2>1. ASSUME NEW m \in Nodes PROVE node'[m].ref <= Refs(m)'
    <3>1. CASE m = n
      BY <1>2, <1>10, <3>1
    <3>2. CASE m # n
      BY <1>0, <1>2, <1>10, <3>2 DEF Base, RefBound
    <3> QED BY <3>1, <3>2
  <2> QED BY <2>1 DEF RefBound
<1>12. CountBound'
  BY <1>0, <1>1, <1>2, EmptyCount DEF Base
<1>13. OpenedInv'
  <2>1. \A x \in Actors : act'[x] = act[x] \/ act'[x].at # "close"
    BY <1>3 DEF ActTo
  <2> QED BY <1>0, <2>1, OpenedFrame DEF Base
<1>14. ASSUME Sane' PROVE SaneInv'
  <2>0. Sane /\ SaneInv
    BY <1>0, <1>14, StaysSane DEF RemoverTouch
  <2>a. node[n].st = "out" /\ node[n].sess = {} /\ node[n].bufs = {} /\ n \in Live
    BY <1>0, <1>1, <2>0 DEF SaneInv, OutInv, Live
  <2>1. UseInv'
    BY <1>0, <2>0, <2>a DEF SaneInv, UseInv, RemoverTouch
  <2>2. HoldInv'
    <3>1. probe # 0 => probe \in Nodes /\ node[probe].st = "listed" /\ probe # n
      BY <1>0, <2>0, <2>a, Bounds DEF Typed, SetsOK, Nodes, SaneInv, HoldInv
    <3>2. ASSUME NEW m \in Live' PROVE node'[m].ref = Refs(m)'
      <4>1. m # n /\ m \in Nodes /\ m \in Live /\ node'[m] = node[m]
        BY <1>2 DEF Live
      <4> QED BY <1>10, <2>0, <4>1 DEF SaneInv, HoldInv
    <3>3. thr.at \in WithNode => thr.n \in Nodes
      BY <1>0 DEF Base, ThreadInv
    <3>4. ASSUME thr'.at \in Holding PROVE node'[thr'.n].st = "listed"
      <4>1. thr' = thr /\ thr.n \in Nodes /\ node[thr.n].st = "listed"
        BY <1>5, <2>0, <3>3, <3>4 DEF WithNode, SaneInv, HoldInv
      <4> QED BY <1>2, <2>a, <4>1
    <3>5. ASSUME thr'.at \in {"driver", "probe", "dequeue"}
          PROVE  node'[thr'.n].sess = {} /\ node'[thr'.n].bufs = {}
      <4>1. thr' = thr /\ thr.n \in Nodes /\ node[thr.n].sess = {} /\ node[thr.n].bufs = {}
        BY <1>5, <2>0, <3>3, <3>5 DEF WithNode, Holding, SaneInv, HoldInv
      <4> QED BY <1>2, <4>1
    <3> QED BY <1>0, <1>2, <3>1, <3>2, <3>4, <3>5 DEF HoldInv
  <2>3. OutInv'
    <3>1. \A x \in Actors : x # a => act'[x] = act[x] /\ (act[x].at \in Removing => act[x].n # n
                                                            /\ act[x].n \in Nodes)
      BY <1>0, <1>3, <2>0 DEF ActTo, SaneInv, OutInv, Base, RemoverInv
    <3>2. act'[a].at \notin Removing
      BY <1>3 DEF ActTo, Removing
    <3>3. \A x \in Actors : act'[x].at \in Removing => x # a
      BY <3>2
    <3>4. \A x \in Actors : act'[x].at \in Removing => node'[act'[x].n].st = "out"
      BY <1>2, <2>0, <3>1, <3>3 DEF SaneInv, OutInv
    <3>5. \A x, y \in Actors :
              act'[x].at \in Removing /\ act'[y].at \in Removing /\ act'[x].n = act'[y].n => x = y
      BY <2>0, <3>1, <3>3 DEF SaneInv, OutInv
    <3>6. ASSUME NEW m \in Nodes, node'[m].st = "out"
          PROVE  \E x \in Actors : act'[x].at \in Removing /\ act'[x].n = m
      <4>1. m # n /\ node[m].st = "out"
        BY <1>2, <3>6
      <4>2. PICK x \in Actors : act[x].at \in Removing /\ act[x].n = m
        BY <2>0, <4>1 DEF SaneInv, OutInv
      <4>3. x # a
        BY <4>1, <4>2
      <4> QED BY <3>1, <4>2, <4>3
    <3>7. \A x \in Actors : act'[x].at \in {"bufs", "free"} => x # a /\ act'[x] = act[x] /\ act[x].at \in Removing
      BY <3>1, <3>2 DEF Removing
    <3>8. \A x \in Actors : act'[x].at \in {"bufs", "free"} => node'[act'[x].n].sess = {}
      BY <1>2, <2>0, <3>1, <3>7 DEF SaneInv, OutInv
    <3>9. \A x \in Actors : act'[x].at = "free" => node'[act'[x].n].bufs = {}
      BY <1>2, <2>0, <3>1, <3>7 DEF SaneInv, OutInv
    <3> QED BY <3>4, <3>5, <3>6, <3>8, <3>9 DEF OutInv
  <2>4. SessInv'
    <3>1. \A m \in Nodes : node'[m].sess = node[m].sess
      BY <1>2, <2>a
    <3>2. \A m \in Nodes : node[m].st \in {"listed", "out"} /\ node[m].sess # {}
                             => node'[m].st \in {"listed", "out"}
      BY <1>2, <2>a
    <3>3. thr' = thr \/ (thr.at # "close" /\ thr'.at \notin {"close", "created"})
      BY <1>3 DEF ThrRests, ThrIdle
    <3>4. \A x \in Actors : act'[x] = act[x] \/ (act[x].at # "close" /\ act'[x].at # "close")
      BY <1>0, <1>3 DEF ActTo
    <3> QED BY <1>0, <2>0, <3>1, <3>2, <3>3, <3>4, SessFrame DEF Base, SaneInv
  <2>5. BufInv'
    <3>1. \A m \in Nodes : node'[m].bufs = node[m].bufs
      BY <1>2, <2>a
    <3>2. \A m \in Nodes : node[m].st \in {"listed", "out"} /\ node[m].bufs # {}
                             => node'[m].st \in {"listed", "out"}
      BY <1>2, <2>a
    <3>3. \A m \in Nodes : node'[m].st = "listed" => node'[m].smem = node[m].smem /\ node[m].st = "listed"
      BY <1>2
    <3> QED BY <1>0, <2>0, <3>1, <3>2, <3>3, BufFrame DEF SaneInv
  <2>6. NameInv'
    BY <1>0, <1>2, <2>0, <2>a, NameFree DEF SaneInv
  <2>7. HandleInv'
    <3>1. \A m \in Nodes : node'[m].st = "listed" => node'[m] = node[m]
      BY <1>2
    <3>2. \A h \in Handles : act[h].at = "pop" => act'[h].at = "pop"
      BY <1>0, <1>3, Bounds DEF ActTo
    <3> QED BY <1>0, <2>0, <3>1, <3>2, HandleLess DEF SaneInv
  <2> QED BY <2>1, <2>2, <2>3, <2>4, <2>5, <2>6, <2>7 DEF SaneInv
<1> QED BY <1>4, <1>5, <1>6, <1>7, <1>8, <1>11, <1>12, <1>13, <1>14 DEF NodeInv, Base

-----------------------------------------------------------------------------
LEMMA Stutter ==
    ASSUME NodeInv, UNCHANGED vars PROVE NodeInv'
<1>0. /\ UNCHANGED <<alive, gaveUp, node, used, inst, buf, own, thr, probe, act, bad>> /\ Base /\ Typed
  BY DEF vars, NodeInv, Base
<1>1. ActOK' /\ SetsOK' /\ ThrRests /\ RemoverInv' /\ KnownInv'
      /\ (thr'.at = "unregister" <=> act'["dsp"].at # "idle")
  BY <1>0, RemoverFrame DEF Base, Typed, ActOK, SetsOK, ThrRests, KnownInv, RegisterInv
<1>2. SaneInv => OutInv' /\ HandleInv'
  <2>1. NodesStay /\ node' = node
    BY <1>0, NodeUnchanged DEF Typed
  <2> QED BY <1>0, <2>1, OutFrame, HandleFrame DEF SaneInv, Base, NodesStay
<1> QED BY <1>0, <1>1, <1>2, ActStep

\* Every step keeps the invariant.
LEMMA NextKeeps ==
    ASSUME NodeInv, [Next]_vars PROVE NodeInv'
<1>1. CASE NewCommand
  BY <1>1, NewCommandStep
<1>2. CASE ThreadStep
  BY <1>2, RegisterStep, RegisterDriverStep, ProbedStep, ProbeTimeoutStep, DequeueStep, LookUpStep,
     UseSessionStep, GetNodeStep, InitNodeStep, OpenSessionStep, SessionCreatedStep, DeleteSessionStep,
     ThreadClosesStep, AddBufferStep, DelBufferStep DEF ThreadStep
<1>3. CASE ProbeGet \/ ProbeSet
  BY <1>3, ProbeGetStep, ProbeSetStep
<1>4. CASE \E h \in Handles : ProcessGone(h)
  BY <1>4, ProcessGoneStep
<1>5. CASE RemoveSessions
  BY <1>5, RemoveSessionsStep
<1>6. CASE \E a \in Actors : RemoverStep(a)
  BY <1>6, PopStep, PopBusyStep, PopEmptyStep, RemoveSessionStep, RemoverClosesStep, RemoveBuffersStep,
     FreeNodeStep DEF RemoverStep
<1>7. CASE UNCHANGED vars
  BY <1>7, Stutter
<1> QED BY <1>1, <1>2, <1>3, <1>4, <1>5, <1>6, <1>7 DEF Next

\* The inductive invariant: what is known of a node, and of the sessions, buffers,
\* names and processes that go with it, whoever acts on it.
THEOREM NodeInvariant == Spec => []NodeInv
  BY InitNode0, NextKeeps, PTL DEF Spec

\* The counters of a node stay within their bounds, even when pop_frpc_node has
\* returned a node that somebody else frees.
THEOREM NodeTypes == Spec => []TypeOK
<1>1. NodeInv => TypeOK
  BY BaseTypeOK DEF NodeInv
<1> QED BY <1>1, NodeInvariant, PTL

-----------------------------------------------------------------------------
\* One element.
LEMMA CardOne ==
    ASSUME NEW S, NEW x \in S, \A y \in S : y = x
    PROVE  Cardinality(S) = 1
<1>1. S = {x}
  OBVIOUS
<1> QED BY <1>1, FS_Singleton

LEMMA SafeNode ==
    ASSUME NodeInv PROVE NodeSafe
<1>1. NoUseAfterFree
  BY DEF NodeInv, SaneInv, UseInv, NoUseAfterFree
<1>2. ASSUME Sane, NEW n \in Nodes, node[n].st = "out"
      PROVE  Cardinality({a \in Actors : act[a].n = n /\ act[a].at # "pop"}) = 1
  <2>0. Base /\ OutInv /\ n # 0
    BY <1>2, Bounds DEF NodeInv, SaneInv
  <2>1. PICK a \in Actors : act[a].at \in Removing /\ act[a].n = n
    BY <1>2, <2>0 DEF OutInv
  <2>2. \A x \in Actors : act[x].n = n /\ act[x].at # "pop" => act[x].at \in Removing
    <3>1. \A x \in Actors : act[x].at \in RemoverAts /\ (act[x].at = "idle" => act[x].n = 0)
      BY <2>0 DEF Base, Typed, ActOK, ActRec, RemoverInv, Resting
    <3> QED BY <2>0, <3>1 DEF RemoverAts, Removing
  <2>3. a \in {x \in Actors : act[x].n = n /\ act[x].at # "pop"}
    BY <2>1 DEF Removing
  <2>4. \A y \in {x \in Actors : act[x].n = n /\ act[x].at # "pop"} : y = a
    BY <2>0, <2>1, <2>2 DEF OutInv
  <2> QED BY <2>3, <2>4, CardOne
<1>3. OutOwned
  BY <1>2 DEF OutOwned
<1> QED BY <1>1, <1>3 DEF NodeSafe

\* Whatever the order of commands, probes, processes that end and removals, no node
\* is used after it was freed and no session is closed twice, and a node that was
\* popped has exactly one remover.
THEOREM NodesAreSafe == Spec => []NodeSafe
  BY NodeInvariant, SafeNode, PTL

\* The reference count of a node is the number of its users: every path of
\* cvp_dsp_thread and of the probe gives back what it took.
THEOREM NodeRefsExact == Spec => []RefExact
<1>1. NodeInv => RefExact
  BY DEF NodeInv, SaneInv, HoldInv, RefExact, Refs, One, Holding
<1> QED BY <1>1, NodeInvariant, PTL

LEMMA SessionsOwned ==
    ASSUME NodeInv PROVE SessionsExact
<1> SUFFICES ASSUME Sane PROVE SessionsExact
  BY DEF SessionsExact
<1>0. Base /\ SessInv
  BY DEF NodeInv, SaneInv
<1>1. \A n \in Live : /\ node[n].cnt = Cardinality(node[n].sess)
                      /\ \A i \in node[n].sess : inst[i] = "open"
  BY <1>0 DEF Base, CountBound, SessInv, Live
<1>2. ASSUME NEW i \in Insts, inst[i] = "open"
      PROVE  Cardinality({n \in Live : i \in node[n].sess})
               + (IF thr.at = "close" /\ thr.i = i THEN 1 ELSE 0)
               + Cardinality({a \in Actors : act[a].at = "close" /\ act[a].i = i}) = 1
  <2> DEFINE L == {n \in Live : i \in node[n].sess}
             A == {a \in Actors : act[a].at = "close" /\ act[a].i = i}
             T == IF thr.at = "close" /\ thr.i = i THEN 1 ELSE 0
  <2>0. Cardinality({}) = 0
    BY FS_EmptySet
  <2>1. CASE \E n \in Nodes : i \in node[n].sess
    <3>1. PICK n \in Nodes : i \in node[n].sess
      BY <2>1
    <3>2. n \in L /\ \A m \in L : m = n
      BY <1>0, <3>1 DEF SessInv, Live
    <3>3. Cardinality(L) = 1
      BY <3>2, CardOne
    <3>4. ~Closing(i) /\ \A a \in Actors : ~ClosingBy(a, i)
      BY <1>0, <3>1 DEF SessInv
    <3>5. A = {}
      BY <3>4 DEF ClosingBy
    <3>6. T = 0 /\ Cardinality(A) = 0
      BY <2>0, <3>4, <3>5 DEF Closing
    <3> HIDE DEF L, A, T
    <3>7. Cardinality(L) + T + Cardinality(A) = 1
      BY <3>3, <3>6
    <3> QED BY <3>7 DEF L, A, T
  <2>2. CASE Closing(i)
    <3>1. L = {}
      BY <1>0, <2>2 DEF SessInv, Live
    <3>2. A = {}
      BY <1>0, <2>2 DEF SessInv, ClosingBy
    <3>3. Cardinality(L) = 0 /\ T = 1 /\ Cardinality(A) = 0
      BY <2>0, <2>2, <3>1, <3>2 DEF Closing
    <3> HIDE DEF L, A, T
    <3>4. Cardinality(L) + T + Cardinality(A) = 1
      BY <3>3
    <3> QED BY <3>4 DEF L, A, T
  <2>3. CASE \E a \in Actors : ClosingBy(a, i)
    <3>1. PICK a \in Actors : ClosingBy(a, i)
      BY <2>3
    <3>2. L = {} /\ ~Closing(i)
      BY <1>0, <3>1 DEF SessInv, Live
    <3>3. a \in A /\ \A x \in A : x = a
      BY <1>0, <3>1 DEF SessInv, ClosingBy
    <3>4. Cardinality(A) = 1
      BY <3>3, CardOne
    <3>5. Cardinality(L) = 0 /\ T = 0
      BY <2>0, <3>2 DEF Closing
    <3> HIDE DEF L, A, T
    <3>6. Cardinality(L) + T + Cardinality(A) = 1
      BY <3>4, <3>5
    <3> QED BY <3>6 DEF L, A, T
  <2> QED BY <1>0, <1>2, <2>1, <2>2, <2>3 DEF SessInv
<1> QED BY <1>1, <1>2 DEF SessionsExact

LEMMA RestOwned ==
    ASSUME NodeInv PROVE NamesExact /\ BuffersExact /\ GoneRemoved
<1> SUFFICES ASSUME Sane PROVE NamesExact /\ BuffersExact /\ GoneRemoved
  BY DEF NamesExact, BuffersExact, GoneRemoved
<1>0. Base /\ NameInv /\ BufInv /\ HandleInv
  BY DEF NodeInv, SaneInv
<1>1. NamesExact
  BY <1>0 DEF NameInv, NamesExact
<1>2. BuffersExact
  <2>1. ASSUME NEW b \in Bufs, buf[b] = "mapped"
        PROVE  Cardinality({n \in Live : b \in node[n].bufs}) = 1
    <3>1. PICK n \in Nodes : b \in node[n].bufs
      BY <1>0, <2>1 DEF BufInv
    <3>2. n \in {m \in Live : b \in node[m].bufs} /\ \A m \in {k \in Live : b \in node[k].bufs} : m = n
      BY <1>0, <3>1 DEF BufInv, Live
    <3> QED BY <3>2, CardOne
  <2> QED BY <1>0, <2>1 DEF BufInv, BuffersExact
<1>3. GoneRemoved
  BY <1>0 DEF HandleInv, GoneRemoved
<1> QED BY <1>1, <1>2, <1>3

\* Every open session, every mapped buffer and every name is found through exactly
\* one node, or with who closes it, and the node of a process that is gone is
\* removed unless its callback gave up.
THEOREM NodeOwnsExactly == Spec => []OwnedExact
<1>1. NodeInv => OwnedExact
  BY SessionsOwned, RestOwned DEF OwnedExact
<1> QED BY <1>1, NodeInvariant, PTL
=============================================================================
