--------------------------- MODULE CvpBuf_proofs ---------------------------
(***************************************************************************)
(* Proofs about CvpBuf, for any number of threads, buffers and slots:      *)
(* nobody uses a mapping that was freed, every count is what it counts,    *)
(* and a closed session leaves nothing behind.                             *)
(*                                                                         *)
(* The invariant has two layers.  Inv says of each holder of a mapping (a  *)
(* thread, a frame, the cache, the persistent buffers, the WNCC sources)   *)
(* what it may rely on, and RefInv that smem->refcount is the number of    *)
(* its holders; a step that frees a mapping without holders disturbs none  *)
(* of them.  CountInv adds the counts that are no references.              *)
(*                                                                         *)
(* The theorems assume Careful: a client that does not send a buffer it is *)
(* about to unmap, and does not map the same lasting buffer twice at once. *)
(* The code relies on that and checks it nowhere.                          *)
(***************************************************************************)
EXTENDS CvpBuf, FiniteSetTheorems, SequenceTheorems, WellFoundedInduction, TLAPS

-----------------------------------------------------------------------------
\* The inductive invariant.

Pcs == {"idle", "alloc", "table", "find", "persist", "frames", "add", "insert", "inc", "valid",
        "use", "list", "undo"}
\* The thread has a mapping in its hands.
Having == {"add", "insert", "inc", "valid", "use"}
Kinds == {"user", "params", "feature", "arp"}
Packets == {"frame", "config", "params"}
Phases == {"open", "frames", "persist", "cache", "wncc", "closed"}

MapRec == [buf : Bufs \cup {Nobody}, ref : Nat, st : {"live", "freed"},
           lost : {"no", "window", "invalid"}]
EntryRec == [s : DOMAIN smem, own : BOOLEAN]
PersistRec == [buf : Bufs \cup {Nobody}, s : DOMAIN smem, kind : Kinds, hits : Nat]
WnccRec == [buf : Bufs, s : DOMAIN smem, id : 1..Slots]
ThRec == [pc : Pcs, op : Packets \cup Lasting \cup {"none"}, todo : Seq(Bufs),
          got : Seq(EntryRec), s : 0..Len(smem)]

SmemType == smem \in Seq(MapRec) /\ Len(smem) <= MaxSmem
ListType ==
    /\ persist \in Seq(PersistRec)
    /\ frames \in Seq(Seq(EntryRec))
    /\ wncc \in Seq(WnccRec)
ThType == th \in [Threads -> ThRec]
RestType ==
    /\ cached \subseteq DOMAIN smem
    /\ cap \in {Cap, CapMax}
    /\ table \in [1..Slots -> 0..Len(smem)]
    /\ dmaref \in [Bufs -> Int] /\ extra \in [Bufs -> Nat]
    /\ watermark \in Int /\ smem_count \in Int
    /\ work \in BOOLEAN /\ phase \in Phases /\ ops \in Nat
Typed == SmemType /\ ListType /\ ThType /\ RestType

\* The mappings that are there, or that were freed in the window.
Tracked == {s \in DOMAIN smem : smem[s].st = "live" \/ smem[s].lost = "window"}
\* The mappings of WNCC sources, and those that only the thread which made them knows.
Sources == {wncc[i].s : i \in DOMAIN wncc}
New == {th[t].s : t \in {u \in Threads : th[u].pc \in {"add", "insert"}}}
\* The others are shared.
Shared == {s \in Tracked : s \notin Sources /\ s \notin New}
Persisting == {persist[i].s : i \in DOMAIN persist}

\* What a thread is about, by its program counter.
Shape(r) ==
    /\ r.pc = "idle" => r = Idle
    /\ r.pc # "idle" => r.op # "none"
    /\ r.pc = "alloc" => r.op \in {"user", "feature"}
    /\ r.pc = "table" => r.op = "wncc"
    /\ r.pc \notin {"idle", "alloc", "table"} => r.op \in Packets
    /\ r.pc = "list" => r.op # "params"
    /\ r.op \in Lasting => Len(r.todo) = 1 /\ r.got = <<>>
    /\ r.pc \in {"alloc", "table", "find", "persist", "frames"} \cup Having => r.todo # <<>>
    /\ r.s # 0 <=> r.pc \in Having
ShapeInv == \A t \in Threads : Shape(th[t])

\* The mapping it has in its hands.
Hand(r) ==
    /\ r.pc \in Having => smem[r.s].buf = Head(r.todo)
    /\ r.pc \in {"add", "insert"} => r.s \in Live /\ r.s \notin Sources
    /\ r.pc \in {"inc", "valid", "use"} => r.s \in Shared
    /\ r.pc = "inc" => r.s \in cached \/ smem[r.s].lost = "window"
HandInv == \A t \in Threads : Hand(th[t])

AloneInv ==
    \A t, u \in Threads : th[t].pc \in {"add", "insert"} /\ th[u].pc \in {"add", "insert"}
                          /\ th[t].s = th[u].s => t = u

\* The buffers of a frame.
EntryOK(e) ==
    /\ e.s \in Shared
    /\ smem[e.s].buf \in Bufs
    /\ ~e.own => e.s \in Persisting
EntriesOK(bs) == \A k \in DOMAIN bs : EntryOK(bs[k])
FrameInv == \A i \in DOMAIN frames : EntriesOK(frames[i])
GotInv == \A t \in Threads : EntriesOK(th[t].got)

CacheInv ==
    /\ cached \subseteq Live \cap Shared
    /\ \A s \in cached : smem[s].buf \in Bufs
    /\ \A s \in DOMAIN smem : smem[s].lost = "window" => smem[s].st = "freed"

PersistInv ==
    \A i \in DOMAIN persist :
        /\ persist[i].s \in Shared
        /\ smem[persist[i].s].buf = persist[i].buf
        /\ persist[i].kind = "arp" <=> persist[i].buf = Nobody
        /\ persist[i].kind # "params" => persist[i].s \in Live /\ persist[i].s \notin cached
        /\ \A j \in DOMAIN persist : persist[i].buf = persist[j].buf => i = j

WnccInv ==
    /\ \A i \in DOMAIN wncc :
          /\ wncc[i].s \in Live
          /\ smem[wncc[i].s].buf = wncc[i].buf
          /\ table[wncc[i].id] = wncc[i].s
          /\ \A j \in DOMAIN wncc : wncc[i].buf = wncc[j].buf => i = j
    /\ \A k \in 1..Slots : table[k] # 0 =>
          \E i \in DOMAIN wncc : wncc[i].id = k /\ wncc[i].s = table[k]

\* What a careful client keeps to.
Calling(r) ==
    /\ r.op \in {"user", "params", "feature"} => \A i \in DOMAIN persist : persist[i].buf # r.todo[1]
    /\ r.op = "wncc" => \A i \in DOMAIN wncc : wncc[i].buf # r.todo[1]
CallInv == \A t \in Threads : Calling(th[t])
ExclInv ==
    \A t, u \in Threads : th[t].op \in Lasting /\ th[u].op \in Lasting
                          /\ th[u].todo[1] = th[t].todo[1] => u = t

Counting == phase \in {"open", "frames", "persist"}
Count(s) == Cardinality(FrameRefs(frames, s)) + Cardinality(ThreadRefs(th, s)) + Cardinality(PersistRefs(persist, s))
RefInv == Counting => \A s \in Tracked : smem[s].ref = Count(s)

\* A mapping that is there is found again when the session ends.
HomeInv ==
    \A s \in Live : \/ smem[s].lost = "invalid"
                    \/ s \in cached \/ s \in Sources
                    \/ Counting /\ s \in New
                    \/ Counting /\ smem[s].ref > 0

PhaseInv ==
    /\ phase # "open" => /\ \A t \in Threads : th[t] = Idle
                         /\ \A i \in DOMAIN persist : persist[i].kind # "arp"
    /\ phase \notin {"open", "frames"} => frames = <<>>
    /\ ~Counting => persist = <<>>
    /\ phase \in {"wncc", "closed"} => cached = {}
    /\ phase = "closed" => wncc = <<>>

Inserting == {t \in Threads : th[t].pc = "insert"}
RoomInv == Cardinality(cached) + Cardinality(Inserting) < cap + Cardinality(Threads)

Inv == /\ Typed /\ ShapeInv /\ HandInv /\ AloneInv /\ FrameInv /\ GotInv /\ CallInv /\ ExclInv
       /\ CacheInv /\ PersistInv /\ WnccInv /\ RefInv /\ HomeInv /\ PhaseInv
-----------------------------------------------------------------------------
\* Numbers, sets and sequences.

LEMMA MinIn ==
    ASSUME NEW S, S \subseteq Nat, S # {} PROVE Min(S) \in S
<1> DEFINE R == {ss \in Nat \X Nat : ss[1] < ss[2]}
<1>0. IsWellFoundedOn(R, Nat)
  BY NatLessThanWellFounded, Zenon DEF OpToRel
<1> HIDE DEF R
<1>1. PICK x \in S : \A y \in S : ~(<<y, x>> \in R)
  BY WFMin, <1>0
<1>2. \A y \in S : ~(y < x)
  BY <1>1 DEF R
<1>3. \A y \in S : x <= y
  BY <1>2
<1> QED BY <1>3 DEF Min

\* Induction over the naturals, for a set instead of a predicate.
LEMMA SetInduction ==
    ASSUME NEW S, 0 \in S, \A n \in Nat : n \in S => n + 1 \in S
    PROVE  Nat \subseteq S
<1> DEFINE R == OpToRel(<, Nat)
           T == Nat \ S
<1>1. IsWellFoundedOn(R, Nat)
  BY NatLessThanWellFounded
<1> SUFFICES ASSUME T # {} PROVE FALSE
  OBVIOUS
<1>2. T \subseteq Nat
  OBVIOUS
<1>3. PICK x \in T : \A y \in T : ~(<<y, x>> \in R)
  <2> HIDE DEF R, T
  <2> QED BY <1>1, <1>2, WFMin
<1>4. \A x1, y1 \in Nat : x1 < y1 => <<x1, y1>> \in R
  BY DEF OpToRel
<1>5. x \in Nat /\ x \notin S /\ x # 0
  OBVIOUS
<1>6. x - 1 \in Nat /\ x - 1 < x /\ (x - 1) + 1 = x
  BY <1>5
<1>7. x - 1 \notin T
  <2> HIDE DEF R
  <2> QED BY <1>3, <1>4, <1>5, <1>6
<1> QED BY <1>5, <1>6, <1>7

\* A sequence is a function on its places.
LEMMA FunSeq ==
    ASSUME NEW S, NEW n \in Nat, NEW f \in [1..n -> S]
    PROVE  f \in Seq(S) /\ Len(f) = n
  OBVIOUS

\* A function on 1..n is a sequence of length n.
LEMMA SeqFun ==
    ASSUME NEW S, NEW f \in Seq(S)
    PROVE  /\ Len(f) \in Nat /\ DOMAIN f = 1..Len(f) /\ f \in [1..Len(f) -> S]
           /\ \A i \in DOMAIN f : f[i] \in S /\ i \in Nat
  OBVIOUS

\* A function on the places of a sequence is one of the same length.
LEMMA SeqOver ==
    ASSUME NEW S, NEW T, NEW f \in Seq(S), NEW g \in [DOMAIN f -> T]
    PROVE  g \in Seq(T) /\ Len(g) = Len(f) /\ DOMAIN g = DOMAIN f
<1>1. Len(f) \in Nat /\ DOMAIN f = 1..Len(f)
  OBVIOUS
<1>2. g \in [1..Len(f) -> T]
  BY <1>1
<1> DEFINE n == Len(f)
<1> HIDE DEF n
<1>3. n \in Nat /\ g \in [1..n -> T]
  BY <1>1, <1>2 DEF n
<1>4. g \in Seq(T) /\ Len(g) = n
  BY <1>3, FunSeq
<1> QED BY <1>2, <1>1, <1>4 DEF n

\* What Append does, place by place.
LEMMA AppendFun ==
    ASSUME NEW S, NEW f \in Seq(S), NEW x \in S
    PROVE  /\ Append(f, x) \in Seq(S) /\ Len(Append(f, x)) = Len(f) + 1
           /\ DOMAIN Append(f, x) = DOMAIN f \cup {Len(f) + 1}
           /\ Len(f) + 1 \notin DOMAIN f
           /\ Append(f, x)[Len(f) + 1] = x
           /\ \A i \in DOMAIN f : Append(f, x)[i] = f[i]
<1>1. Len(f) \in Nat /\ DOMAIN f = 1..Len(f)
  OBVIOUS
<1>2. Append(f, x) \in Seq(S) /\ Len(Append(f, x)) = Len(f) + 1 /\ Append(f, x)[Len(f) + 1] = x
      /\ \A i \in 1..Len(f) : Append(f, x)[i] = f[i]
  BY AppendProperties
<1>3. DOMAIN Append(f, x) = 1..(Len(f) + 1)
  BY <1>2
<1> QED BY <1>1, <1>2, <1>3

\* The place in s of what is at place j after the removal of i.
Skip(i, j) == IF j < i THEN j ELSE j + 1

\* What RemoveAt does, place by place.
LEMMA RemoveFun ==
    ASSUME NEW S, NEW f \in Seq(S), NEW i \in DOMAIN f
    PROVE  /\ RemoveAt(f, i) \in Seq(S) /\ Len(RemoveAt(f, i)) = Len(f) - 1
           /\ DOMAIN RemoveAt(f, i) = 1..(Len(f) - 1)
           /\ \A j \in DOMAIN RemoveAt(f, i) : /\ RemoveAt(f, i)[j] = f[Skip(i, j)]
                                               /\ Skip(i, j) \in DOMAIN f \ {i}
           /\ \A k \in DOMAIN f \ {i} : \E j \in DOMAIN RemoveAt(f, i) : Skip(i, j) = k
<1> DEFINE v == SubSeq(f, 1, i - 1)
           w == SubSeq(f, i + 1, Len(f))
           u == v \o w
<1>1. Len(f) \in Nat /\ i \in Nat /\ i >= 1 /\ i <= Len(f) /\ DOMAIN f = 1..Len(f)
  OBVIOUS
<1>2. v \in Seq(S) /\ Len(v) = i - 1 /\ \A k \in 1..i - 1 : v[k] = f[k]
  BY <1>1
<1>3. w \in Seq(S) /\ Len(w) = Len(f) - i /\ \A k \in 1..Len(f) - i : w[k] = f[i + k]
  BY <1>1, SMTT(30)
<1> HIDE DEF v, w
<1>4. u \in Seq(S) /\ Len(u) = Len(f) - 1
      /\ \A k \in 1..Len(u) : u[k] = IF k <= Len(v) THEN v[k] ELSE w[k - Len(v)]
  <2>1. v \in Seq(S) /\ w \in Seq(S)
    BY <1>2, <1>3
  <2>2. /\ u \in Seq(S) /\ Len(u) = Len(v) + Len(w)
        /\ \A k \in 1..Len(v) + Len(w) : u[k] = IF k <= Len(v) THEN v[k] ELSE w[k - Len(v)]
    BY <2>1, ConcatProperties
  <2> QED BY <2>2, <1>2, <1>3, <1>1, SMTT(30)
<1>5. RemoveAt(f, i) = u
  BY DEF RemoveAt, u, v, w
<1> HIDE DEF u
<1>6. DOMAIN u = 1..(Len(f) - 1)
  BY <1>4
<1>7. ASSUME NEW j \in DOMAIN u PROVE u[j] = f[Skip(i, j)] /\ Skip(i, j) \in DOMAIN f \ {i}
  <2>1. CASE j < i
    <3>1. j \in 1..i - 1 /\ j <= Len(v) /\ j \in 1..Len(u)
      BY <2>1, <1>1, <1>2, <1>4, <1>6
    <3>a. u[j] = v[j]
      BY <3>1, <1>4
    <3>b. v[j] = f[j]
      BY <3>1, <1>2
    <3>c. j \in DOMAIN f /\ j # i
      BY <3>1, <2>1, <1>1
    <3>2. u[j] = v[j] /\ v[j] = f[j] /\ j \in DOMAIN f /\ j # i
      BY <3>a, <3>b, <3>c
    <3> QED BY <3>2, <2>1 DEF Skip
  <2>2. CASE ~(j < i)
    <3>1. j - (i - 1) \in 1..Len(f) - i /\ ~(j <= Len(v)) /\ j \in 1..Len(u)
          /\ i + (j - (i - 1)) = j + 1 /\ j + 1 \in 1..Len(f) /\ j + 1 # i
      BY <2>2, <1>1, <1>2, <1>4, <1>6
    <3>2. u[j] = w[j - (i - 1)]
      BY <3>1, <1>2, <1>4
    <3>3. u[j] = f[j + 1]
      BY <3>1, <3>2, <1>3
    <3> QED BY <3>1, <3>3, <2>2, <1>1 DEF Skip
  <2> QED BY <2>1, <2>2
<1>8. ASSUME NEW k \in DOMAIN f \ {i} PROVE \E j \in DOMAIN u : Skip(i, j) = k
  <2>1. CASE k < i
    <3>1. k \in DOMAIN u /\ Skip(i, k) = k
      BY <2>1, <1>1, <1>6 DEF Skip
    <3> QED BY <3>1
  <2>2. CASE ~(k < i)
    <3>1. k - 1 \in DOMAIN u /\ Skip(i, k - 1) = k
      BY <2>2, <1>1, <1>6 DEF Skip
    <3> QED BY <3>1
  <2> QED BY <2>1, <2>2
<1> QED BY <1>4, <1>5, <1>6, <1>7, <1>8

-----------------------------------------------------------------------------
\* Pairs: the union of a family of sets, made disjoint.

LEMMA InPairs ==
    ASSUME NEW f, NEW x
    PROVE  x \in Pairs(f) <=> \E i \in DOMAIN f : \E k \in f[i] : x = <<i, k>>
  BY DEF Pairs

\* f with the set at i taken out.
Without(f, i) == [j \in DOMAIN f \ {i} |-> f[j]]

\* Pairs of f are those at i and those of the rest.
LEMMA PairsSplit ==
    ASSUME NEW f, NEW i \in DOMAIN f
    PROVE  /\ Pairs(f) = Pairs(Without(f, i)) \cup ({i} \X f[i])
           /\ Pairs(Without(f, i)) \cap ({i} \X f[i]) = {}
  BY DEF Pairs, Without

\* Finitely many finite sets have finitely many pairs.
LEMMA PairsFinite ==
    ASSUME NEW f, IsFiniteSet(DOMAIN f), \A i \in DOMAIN f : IsFiniteSet(f[i])
    PROVE  IsFiniteSet(Pairs(f)) /\ Cardinality(Pairs(f)) \in Nat
<1> DEFINE D == DOMAIN f
           U == UNION {f[i] : i \in D}
           I == {f[i] : i \in D}
<1>1. IsFiniteSet(I)
  <2> DEFINE g == [i \in D |-> f[i]]
  <2>1. g \in Surjection(D, I)
    BY DEF Surjection
  <2> HIDE DEF g
  <2> QED BY <2>1, FS_Surjection
<1>2. \A T \in I : IsFiniteSet(T)
  OBVIOUS
<1>3. IsFiniteSet(U)
  <2>1. IsFiniteSet(UNION I)
    <3> HIDE DEF I
    <3> QED BY <1>1, <1>2, FS_UNION
  <2> QED BY <2>1
<1>4. IsFiniteSet(D \X U)
  <2> HIDE DEF D, U
  <2>1. IsFiniteSet(D)
    BY DEF D
  <2> QED BY <2>1, <1>3, FS_Product
<1>5. Pairs(f) \subseteq D \X U
  BY DEF Pairs
<1>6. IsFiniteSet(Pairs(f))
  <2> HIDE DEF D, U
  <2> QED BY <1>4, <1>5, FS_Subset
<1> QED BY <1>6, FS_CardinalityType

\* Tagging a set with an index does not change its size.
LEMMA ProductCard ==
    ASSUME NEW i, NEW S, IsFiniteSet(S)
    PROVE  IsFiniteSet({i} \X S) /\ Cardinality({i} \X S) = Cardinality(S) /\ Cardinality(S) \in Nat
<1>1. IsFiniteSet({i}) /\ Cardinality({i}) = 1
  BY FS_Singleton
<1>2. IsFiniteSet({i} \X S) /\ Cardinality({i} \X S) = Cardinality({i}) * Cardinality(S)
  <2> DEFINE T == {i}
  <2> HIDE DEF T
  <2> QED BY <1>1, FS_Product DEF T
<1>3. Cardinality(S) \in Nat
  BY FS_CardinalityType
<1> QED BY <1>1, <1>2, <1>3

\* The size of a union of two disjoint sets.
LEMMA DisjointCard ==
    ASSUME NEW S, NEW T, IsFiniteSet(S), IsFiniteSet(T), S \cap T = {}
    PROVE  IsFiniteSet(S \cup T) /\ Cardinality(S \cup T) = Cardinality(S) + Cardinality(T)
<1>1. IsFiniteSet(S \cup T) /\ Cardinality(S \cup T) =
        Cardinality(S) + Cardinality(T) - Cardinality(S \cap T)
  BY FS_Union
<1>2. Cardinality(S \cap T) = 0
  BY FS_EmptySet
<1>3. Cardinality(S) \in Nat /\ Cardinality(T) \in Nat
  BY FS_CardinalityType
<1> QED BY <1>1, <1>2, <1>3

\* The pairs of f are counted at i and without i.
LEMMA PairsOut ==
    ASSUME NEW f, IsFiniteSet(DOMAIN f), \A j \in DOMAIN f : IsFiniteSet(f[j]), NEW i \in DOMAIN f
    PROVE  /\ Cardinality(Pairs(f)) = Cardinality(Pairs(Without(f, i))) + Cardinality(f[i])
           /\ Cardinality(Pairs(Without(f, i))) \in Nat /\ Cardinality(f[i]) \in Nat
           /\ Cardinality(Pairs(f)) \in Nat
<1> DEFINE g == Without(f, i)
<1>1. DOMAIN g = DOMAIN f \ {i} /\ \A j \in DOMAIN g : IsFiniteSet(g[j])
  BY DEF Without
<1>2. IsFiniteSet(DOMAIN g)
  BY <1>1, FS_Subset
<1> HIDE DEF g
<1>3. IsFiniteSet(Pairs(g)) /\ Cardinality(Pairs(g)) \in Nat
  BY <1>1, <1>2, PairsFinite
<1>4. IsFiniteSet({i} \X f[i]) /\ Cardinality({i} \X f[i]) = Cardinality(f[i])
      /\ Cardinality(f[i]) \in Nat
  BY ProductCard
<1>5. Pairs(f) = Pairs(g) \cup ({i} \X f[i]) /\ Pairs(g) \cap ({i} \X f[i]) = {}
  BY PairsSplit DEF g
<1> DEFINE P == {i} \X f[i]
<1> HIDE DEF P
<1>6. IsFiniteSet(P) /\ Pairs(f) = Pairs(g) \cup P /\ Pairs(g) \cap P = {}
      /\ Cardinality(P) = Cardinality(f[i])
  BY <1>4, <1>5 DEF P
<1>7. Cardinality(Pairs(f)) = Cardinality(Pairs(g)) + Cardinality(P)
  BY <1>3, <1>6, DisjointCard
<1> QED BY <1>3, <1>4, <1>6, <1>7 DEF g

\* A family changed at one index only, or that gets a new index.
LEMMA PairsChange ==
    ASSUME NEW f, NEW g, IsFiniteSet(DOMAIN f), DOMAIN g = DOMAIN f, NEW i \in DOMAIN f,
           \A j \in DOMAIN f : IsFiniteSet(f[j]), IsFiniteSet(g[i]),
           \A j \in DOMAIN f \ {i} : g[j] = f[j]
    PROVE  Cardinality(Pairs(g)) = Cardinality(Pairs(f)) - Cardinality(f[i]) + Cardinality(g[i])
<1>1. Without(f, i) = Without(g, i)
  BY DEF Without
<1>2. \A j \in DOMAIN g : IsFiniteSet(g[j])
  OBVIOUS
<1>3. /\ Cardinality(Pairs(f)) = Cardinality(Pairs(Without(f, i))) + Cardinality(f[i])
      /\ Cardinality(Pairs(Without(f, i))) \in Nat /\ Cardinality(f[i]) \in Nat
  BY PairsOut
<1>4. /\ Cardinality(Pairs(g)) = Cardinality(Pairs(Without(g, i))) + Cardinality(g[i])
      /\ Cardinality(g[i]) \in Nat
  BY <1>2, PairsOut
<1> QED BY <1>1, <1>3, <1>4

\* A family that gets a new index.
LEMMA PairsAdd ==
    ASSUME NEW f, NEW g, NEW i, IsFiniteSet(DOMAIN f), i \notin DOMAIN f,
           DOMAIN g = DOMAIN f \cup {i},
           \A j \in DOMAIN f : IsFiniteSet(f[j]), IsFiniteSet(g[i]),
           \A j \in DOMAIN f : g[j] = f[j], f = [j \in DOMAIN f |-> f[j]]
    PROVE  Cardinality(Pairs(g)) = Cardinality(Pairs(f)) + Cardinality(g[i])
<1>1. DOMAIN g \ {i} = DOMAIN f
  OBVIOUS
<1>2. Without(g, i) = f
  BY <1>1 DEF Without
<1>3. \A j \in DOMAIN g : IsFiniteSet(g[j])
  OBVIOUS
<1>4. IsFiniteSet(DOMAIN g)
  <2> DEFINE D == DOMAIN f
  <2> HIDE DEF D
  <2>1. IsFiniteSet(D \cup {i})
    BY FS_AddElement DEF D
  <2> QED BY <2>1 DEF D
<1>5. Cardinality(Pairs(g)) = Cardinality(Pairs(Without(g, i))) + Cardinality(g[i])
  BY <1>3, <1>4, PairsOut
<1> QED BY <1>2, <1>5

\* A family that is another one with its indices renamed.
LEMMA PairsRename ==
    ASSUME NEW f, NEW g, IsFiniteSet(DOMAIN f), \A j \in DOMAIN f : IsFiniteSet(f[j]),
           NEW r \in Bijection(DOMAIN g, DOMAIN f), \A j \in DOMAIN g : g[j] = f[r[j]]
    PROVE  Cardinality(Pairs(g)) = Cardinality(Pairs(f))
<1> DEFINE h == [x \in Pairs(g) |-> <<r[x[1]], x[2]>>]
<1>0. /\ \A j \in DOMAIN g : r[j] \in DOMAIN f
      /\ \A j, k \in DOMAIN g : r[j] = r[k] => j = k
      /\ \A j \in DOMAIN f : \E k \in DOMAIN g : r[k] = j
  BY DEF Bijection, Injection, Surjection, IsInjective
<1>1. \A x \in Pairs(g) : h[x] \in Pairs(f) /\ x = <<x[1], x[2]>> /\ x[1] \in DOMAIN g
  BY <1>0 DEF Pairs
<1>2. \A x, y \in Pairs(g) : h[x] = h[y] => x = y
  BY <1>0, <1>1
<1>3. \A y \in Pairs(f) : \E x \in Pairs(g) : h[x] = y
  <2> SUFFICES ASSUME NEW y \in Pairs(f) PROVE \E x \in Pairs(g) : h[x] = y
    OBVIOUS
  <2>1. PICK j \in DOMAIN f : \E k \in f[j] : y = <<j, k>>
    BY InPairs
  <2>2. PICK k \in f[j] : y = <<j, k>>
    BY <2>1
  <2>3. PICK m \in DOMAIN g : r[m] = j
    BY <1>0
  <2>4. <<m, k>> \in Pairs(g)
    BY <2>2, <2>3, InPairs
  <2>5. h[<<m, k>>] = y
    BY <2>2, <2>3, <2>4
  <2> QED BY <2>4, <2>5
<1>4. h \in [Pairs(g) -> Pairs(f)]
  BY <1>1
<1> HIDE DEF h
<1>5. h \in Bijection(Pairs(g), Pairs(f))
  BY <1>2, <1>3, <1>4 DEF Bijection, Injection, Surjection, IsInjective
<1>6. IsFiniteSet(Pairs(f)) /\ Cardinality(Pairs(f)) \in Nat
  BY PairsFinite
<1>7. /\ IsFiniteSet(Pairs(g)) /\ Cardinality(Pairs(g)) <= Cardinality(Pairs(f))
      /\ Cardinality(Pairs(g)) = Cardinality(Pairs(f)) <=> h \in Surjection(Pairs(g), Pairs(f))
  BY <1>5, <1>6, FS_Injection DEF Bijection
<1> QED BY <1>5, <1>7 DEF Bijection

\* A list of sets from which one was removed.
LEMMA PairsRemove ==
    ASSUME NEW n \in Nat, NEW f, DOMAIN f = 1..n, \A j \in DOMAIN f : IsFiniteSet(f[j]),
           NEW i \in 1..n, NEW g, DOMAIN g = 1..(n - 1), \A j \in DOMAIN g : g[j] = f[Skip(i, j)]
    PROVE  Cardinality(Pairs(g)) = Cardinality(Pairs(f)) - Cardinality(f[i])
<1> DEFINE w == Without(f, i)
           r == [j \in DOMAIN g |-> Skip(i, j)]
<1>1. DOMAIN w = (1..n) \ {i} /\ \A j \in DOMAIN w : w[j] = f[j] /\ IsFiniteSet(w[j])
  BY DEF Without
<1>2. IsFiniteSet(DOMAIN f)
  BY FS_Interval
<1>3. IsFiniteSet(DOMAIN w)
  BY <1>1, <1>2, FS_Subset
<1>4. \A j \in DOMAIN g : Skip(i, j) \in DOMAIN w
  BY <1>1 DEF Skip
<1>5. \A j, k \in DOMAIN g : Skip(i, j) = Skip(i, k) => j = k
  BY DEF Skip
<1>6. \A k \in DOMAIN w : \E j \in DOMAIN g : Skip(i, j) = k
  <2> SUFFICES ASSUME NEW k \in DOMAIN w PROVE \E j \in DOMAIN g : Skip(i, j) = k
    OBVIOUS
  <2>0. k \in 1..n /\ k # i
    BY <1>1
  <2>1. CASE k < i
    <3>1. k \in DOMAIN g /\ Skip(i, k) = k
      BY <2>0, <2>1 DEF Skip
    <3> QED BY <3>1
  <2>2. CASE ~(k < i)
    <3>1. k - 1 \in DOMAIN g /\ Skip(i, k - 1) = k
      BY <2>0, <2>2 DEF Skip
    <3> QED BY <3>1
  <2> QED BY <2>1, <2>2
<1>7. r \in Bijection(DOMAIN g, DOMAIN w)
  <2> HIDE DEF w
  <2> QED BY <1>4, <1>5, <1>6 DEF Bijection, Injection, Surjection, IsInjective
<1>8. \A j \in DOMAIN g : g[j] = w[r[j]]
  BY <1>1, <1>4
<1>9. Cardinality(Pairs(g)) = Cardinality(Pairs(w))
  <2> HIDE DEF w, r
  <2> QED BY <1>1, <1>3, <1>7, <1>8, PairsRename
<1>10. /\ Cardinality(Pairs(f)) = Cardinality(Pairs(w)) + Cardinality(f[i])
       /\ Cardinality(Pairs(w)) \in Nat /\ Cardinality(f[i]) \in Nat
  BY <1>2, PairsOut
<1> QED BY <1>9, <1>10

\* The same, with names for what is assumed of the two lists.
AllFinite(f) == \A j \in DOMAIN f : IsFiniteSet(f[j])
Removes(f, g, n, i) == DOMAIN g = 1..(n - 1) /\ \A j \in DOMAIN g : g[j] = f[Skip(i, j)]

LEMMA PairsRemoved ==
    ASSUME NEW n \in Nat, NEW f, DOMAIN f = 1..n, AllFinite(f), NEW i \in 1..n, NEW g,
           Removes(f, g, n, i)
    PROVE  Cardinality(Pairs(g)) = Cardinality(Pairs(f)) - Cardinality(f[i])
  BY PairsRemove DEF AllFinite, Removes

\* A family of empty sets has no pairs.
LEMMA PairsEmpty ==
    ASSUME NEW f, IsFiniteSet(DOMAIN f), \A j \in DOMAIN f : IsFiniteSet(f[j])
    PROVE  Cardinality(Pairs(f)) = 0 <=> \A j \in DOMAIN f : f[j] = {}
<1>1. IsFiniteSet(Pairs(f))
  BY PairsFinite
<1>2. Cardinality(Pairs(f)) = 0 <=> Pairs(f) = {}
  BY <1>1, FS_EmptySet
<1>3. Pairs(f) = {} <=> \A j \in DOMAIN f : f[j] = {}
  <2>1. ASSUME NEW j \in DOMAIN f, NEW k \in f[j] PROVE <<j, k>> \in Pairs(f)
    BY InPairs
  <2>2. ASSUME NEW x \in Pairs(f) PROVE \E j \in DOMAIN f : f[j] # {}
    BY InPairs
  <2> QED BY <2>1, <2>2
<1> QED BY <1>2, <1>3

-----------------------------------------------------------------------------
\* The list of persistent buffers has at most one entry, a, that is the session's own.

LEMMA ClientsAre ==
    ASSUME NEW S, NEW list \in Seq(S), NEW a \in 1..(Len(list) + 1),
           a <= Len(list) => list[a].kind = "arp",
           \A i \in DOMAIN list : i # a => list[i].kind # "arp"
    PROVE  /\ Clients(list) \in Seq(S)
           /\ Len(Clients(list)) = IF a <= Len(list) THEN Len(list) - 1 ELSE Len(list)
           /\ \A j \in DOMAIN Clients(list) : /\ Clients(list)[j] = list[Skip(a, j)]
                                              /\ Skip(a, j) \in DOMAIN list \ {a}
<1> DEFINE K(u, i) == IF list[i].kind = "arp" THEN u ELSE Append(u, list[i])
           Eq(f, n) == f = [i \in 0..n |-> IF i = 0 THEN <<>> ELSE K(f[i - 1], i)]
           N == Len(list)
<1>0. N \in Nat
  OBVIOUS
<1> DEFINE T == {n \in Nat : \E f : Eq(f, n)}
<1>1. 0 \in T
  <2>1. Eq([i \in 0..0 |-> <<>>], 0)
    OBVIOUS
  <2> HIDE DEF Eq
  <2> QED BY <2>1
<1>2. ASSUME NEW n \in Nat, n \in T PROVE n + 1 \in T
  <2>1. PICK f : Eq(f, n)
    BY <1>2
  <2> DEFINE g == [i \in 0..n+1 |-> IF i = n + 1 THEN K(f[n], n + 1) ELSE f[i]]
  <2> HIDE DEF K
  <2>2. Eq(g, n + 1)
    BY <2>1
  <2> HIDE DEF Eq, g
  <2> QED BY <2>2
<1>3. N \in T
  <2> HIDE DEF T, N
  <2>1. \A n \in Nat : n \in T => n + 1 \in T
    BY <1>2
  <2>2. Nat \subseteq T
    BY <1>1, <2>1, SetInduction, Zenon
  <2> QED BY <1>0, <2>2
<1> DEFINE F == CHOOSE f : Eq(f, N)
<1>4. Eq(F, N)
  BY <1>3
<1>5. Clients(list) = F[N]
  BY DEF Clients
<1>6. F[0] = <<>> /\ \A i \in 0..N : i > 0 => F[i] = K(F[i - 1], i)
  <2> HIDE DEF F, N, K
  <2> QED BY <1>0, <1>4
<1> HIDE DEF F, Eq, K, T
<1> DEFINE Good(n) == /\ F[n] \in Seq(S) /\ Len(F[n]) = (IF n < a THEN n ELSE n - 1)
                      /\ \A j \in 1..Len(F[n]) : F[n][j] = list[Skip(a, j)]
           G == {n \in Nat : n <= N => Good(n)}
<1>7. 0 \in G
  <2>1. <<>> \in Seq(S) /\ Len(<<>>) = 0
    OBVIOUS
  <2>2. Good(0)
    BY <1>6, <2>1
  <2> QED BY <2>2
<1>8. ASSUME NEW n \in Nat, n \in G PROVE n + 1 \in G
  <2> SUFFICES ASSUME n + 1 <= N PROVE Good(n + 1)
    OBVIOUS
  <2>1. Good(n)
    BY <1>0, <1>8
  <2>2. n + 1 \in DOMAIN list /\ n + 1 \in 0..N /\ n + 1 > 0 /\ (n + 1) - 1 = n /\ list[n + 1] \in S
    BY <1>0
  <2>3. F[n + 1] = K(F[n], n + 1)
    BY <1>6, <2>2
  <2>4. CASE n + 1 = a
    <3>1. F[n + 1] = F[n]
      BY <2>2, <2>3, <2>4 DEF K
    <3> QED BY <2>1, <2>4, <3>1
  <2>5. CASE n + 1 # a
    <3>1. F[n + 1] = Append(F[n], list[n + 1])
      BY <2>2, <2>3, <2>5 DEF K
    <3> DEFINE u == F[n]
               x == list[n + 1]
               v == Append(u, x)
    <3>2. v \in Seq(S) /\ Len(v) = Len(u) + 1 /\ v[Len(u) + 1] = x /\ Len(u) \in Nat
          /\ \A j \in 1..Len(u) : v[j] = u[j]
      <4> HIDE DEF u, x
      <4>1. u \in Seq(S) /\ x \in S
        BY <2>1, <2>2 DEF u, x
      <4> QED BY <4>1, AppendProperties
    <3>3. Len(u) = IF n < a THEN n ELSE n - 1
      BY <2>1
    <3>4. Skip(a, Len(u) + 1) = n + 1 /\ Len(u) + 1 = IF n + 1 < a THEN n + 1 ELSE n
      BY <3>3, <2>5 DEF Skip
    <3>5. \A j \in 1..Len(u) : u[j] = list[Skip(a, j)]
      BY <2>1
    <3> HIDE DEF u, v
    <3>6. ASSUME NEW j \in 1..Len(v) PROVE v[j] = list[Skip(a, j)]
      <4>1. j \in 1..Len(u) \/ j = Len(u) + 1
        BY <3>2
      <4> QED BY <4>1, <3>2, <3>4, <3>5
    <3>7. v = F[n + 1]
      BY <3>1 DEF u, v
    <3> QED BY <3>2, <3>4, <3>6, <3>7
  <2> QED BY <2>4, <2>5
<1>9. Good(N)
  <2>1. N \in G
    <3> HIDE DEF G, N
    <3> QED BY <1>0, <1>7, <1>8, SetInduction
  <2> QED BY <1>0, <2>1
<1> DEFINE c == Clients(list)
<1>10. c \in Seq(S) /\ Len(c) = (IF N < a THEN N ELSE N - 1)
       /\ \A j \in 1..Len(c) : c[j] = list[Skip(a, j)]
  BY <1>5, <1>9
<1> HIDE DEF c
<1>11. \A j \in 1..Len(c) : Skip(a, j) \in DOMAIN list \ {a}
  BY <1>0, <1>10 DEF Skip
<1>12. DOMAIN c = 1..Len(c)
  BY <1>10
<1> QED BY <1>0, <1>10, <1>11, <1>12 DEF c

\* a is the place of the only entry that is the session's own, or beyond the end.
OwnAt(list, a) ==
    /\ a <= Len(list) => list[a].kind = "arp"
    /\ \A i \in DOMAIN list : i # a => list[i].kind # "arp"

LEMMA ClientsOf ==
    ASSUME NEW S, NEW list \in Seq(S), NEW a \in 1..(Len(list) + 1), OwnAt(list, a)
    PROVE  /\ Clients(list) \in Seq(S)
           /\ Len(Clients(list)) = IF a <= Len(list) THEN Len(list) - 1 ELSE Len(list)
           /\ \A j \in DOMAIN Clients(list) : /\ Clients(list)[j] = list[Skip(a, j)]
                                              /\ Skip(a, j) \in DOMAIN list \ {a}
  BY ClientsAre DEF OwnAt

-----------------------------------------------------------------------------
\* How many references frames, threads and persistent buffers hold.

LEMMA OwnersFinite ==
    ASSUME NEW S, NEW bs \in Seq(S), NEW s
    PROVE  /\ IsFiniteSet(Owners(bs, s)) /\ Cardinality(Owners(bs, s)) \in Nat
           /\ Owners(bs, s) = {} => Cardinality(Owners(bs, s)) = 0
           /\ Cardinality(Owners(bs, s)) = 0 => Owners(bs, s) = {}
<1>1. IsFiniteSet(DOMAIN bs)
  <2>1. DOMAIN bs = 1..Len(bs) /\ Len(bs) \in Nat
    OBVIOUS
  <2> QED BY <2>1, FS_Interval
<1>2. Owners(bs, s) \in SUBSET DOMAIN bs
  BY DEF Owners
<1>3. IsFiniteSet(Owners(bs, s))
  BY <1>1, <1>2, FS_Subset
<1> QED BY <1>3, FS_CardinalityType, FS_EmptySet

\* A buffer is added to a frame.
LEMMA OwnersAppend ==
    ASSUME NEW S, NEW bs \in Seq(S), NEW e \in S, NEW s
    PROVE  Cardinality(Owners(Append(bs, e), s)) =
             Cardinality(Owners(bs, s)) + IF e.s = s /\ e.own THEN 1 ELSE 0
<1> DEFINE c == Append(bs, e)
           n == Len(bs) + 1
           O == Owners(bs, s)
<1>1. DOMAIN c = DOMAIN bs \cup {n} /\ n \notin DOMAIN bs /\ c[n] = e
      /\ \A i \in DOMAIN bs : c[i] = bs[i]
  BY AppendFun
<1>2. IsFiniteSet(O) /\ Cardinality(O) \in Nat
  BY OwnersFinite
<1> HIDE DEF c, n
<1>3. n \notin O
  BY <1>1 DEF Owners
<1>4. CASE e.s = s /\ e.own
  <2>1. Owners(c, s) = O \cup {n}
    BY <1>1, <1>4 DEF Owners
  <2> HIDE DEF O
  <2>2. Cardinality(O \cup {n}) = Cardinality(O) + 1
    BY <1>2, <1>3, FS_AddElement
  <2> QED BY <2>1, <2>2, <1>4 DEF c, O
<1>5. CASE ~(e.s = s /\ e.own)
  <2>1. Owners(c, s) = O
    BY <1>1, <1>5 DEF Owners
  <2> QED BY <2>1, <1>2, <1>5 DEF c
<1> QED BY <1>4, <1>5

\* The references of the listed frames can be counted.
LEMMA FramesFinite ==
    ASSUME NEW S, NEW fs \in Seq(Seq(S)), NEW s
    PROVE  /\ Cardinality(FrameRefs(fs, s)) \in Nat
           /\ Cardinality(FrameRefs(fs, s)) = 0 <=> \A i \in DOMAIN fs : Owners(fs[i], s) = {}
           /\ \A i \in DOMAIN fs : Cardinality(Owners(fs[i], s)) <= Cardinality(FrameRefs(fs, s))
<1> DEFINE f == [i \in DOMAIN fs |-> Owners(fs[i], s)]
<1>1. DOMAIN f = DOMAIN fs /\ \A i \in DOMAIN f : f[i] = Owners(fs[i], s)
  OBVIOUS
<1>2. IsFiniteSet(DOMAIN f)
  <2>1. DOMAIN fs = 1..Len(fs) /\ Len(fs) \in Nat
    OBVIOUS
  <2> QED BY <2>1, <1>1, FS_Interval
<1>3. \A i \in DOMAIN f : IsFiniteSet(f[i])
  <2>1. \A i \in DOMAIN fs : fs[i] \in Seq(S)
    OBVIOUS
  <2> QED BY <1>1, <2>1, OwnersFinite
<1>4. FrameRefs(fs, s) = Pairs(f)
  BY DEF FrameRefs
<1> HIDE DEF f
<1>5. Cardinality(Pairs(f)) = 0 <=> \A j \in DOMAIN f : f[j] = {}
  BY <1>2, <1>3, PairsEmpty
<1>6. Cardinality(Pairs(f)) \in Nat
  BY <1>2, <1>3, PairsFinite
<1>7. \A i \in DOMAIN f : Cardinality(f[i]) <= Cardinality(Pairs(f))
  <2> SUFFICES ASSUME NEW i \in DOMAIN f PROVE Cardinality(f[i]) <= Cardinality(Pairs(f))
    OBVIOUS
  <2>1. /\ Cardinality(Pairs(f)) = Cardinality(Pairs(Without(f, i))) + Cardinality(f[i])
        /\ Cardinality(Pairs(Without(f, i))) \in Nat /\ Cardinality(f[i]) \in Nat
    BY <1>2, <1>3, PairsOut
  <2> QED BY <2>1
<1> QED BY <1>1, <1>4, <1>5, <1>6, <1>7

\* A frame is listed: its references are added.
LEMMA FramesAppend ==
    ASSUME NEW S, NEW fs \in Seq(Seq(S)), NEW g \in Seq(S), NEW s
    PROVE  Cardinality(FrameRefs(Append(fs, g), s)) =
             Cardinality(FrameRefs(fs, s)) + Cardinality(Owners(g, s))
<1> DEFINE c == Append(fs, g)
           n == Len(fs) + 1
           f == [i \in DOMAIN fs |-> Owners(fs[i], s)]
           h == [i \in DOMAIN c |-> Owners(c[i], s)]
<1>1. DOMAIN c = DOMAIN fs \cup {n} /\ n \notin DOMAIN fs /\ c[n] = g
      /\ \A i \in DOMAIN fs : c[i] = fs[i]
  <2> DEFINE Q == Seq(S)
  <2> HIDE DEF Q
  <2>1. fs \in Seq(Q) /\ g \in Q
    BY DEF Q
  <2> QED BY <2>1, AppendFun
<1> HIDE DEF c, n
<1>2. DOMAIN f = DOMAIN fs /\ \A i \in DOMAIN f : f[i] = Owners(fs[i], s)
  OBVIOUS
<1>3. IsFiniteSet(DOMAIN f)
  <2>1. DOMAIN fs = 1..Len(fs) /\ Len(fs) \in Nat
    OBVIOUS
  <2> QED BY <2>1, <1>2, FS_Interval
<1>4. \A i \in DOMAIN f : IsFiniteSet(f[i])
  <2>1. \A i \in DOMAIN fs : fs[i] \in Seq(S)
    OBVIOUS
  <2> QED BY <1>2, <2>1, OwnersFinite
<1>5. DOMAIN h = DOMAIN f \cup {n} /\ h[n] = Owners(g, s) /\ \A j \in DOMAIN f : h[j] = f[j]
  BY <1>1
<1>6. IsFiniteSet(h[n])
  BY <1>5, OwnersFinite
<1>7. f = [j \in DOMAIN f |-> f[j]] /\ n \notin DOMAIN f
  BY <1>1, <1>2
<1>8. FrameRefs(fs, s) = Pairs(f) /\ FrameRefs(c, s) = Pairs(h)
  BY DEF FrameRefs
<1> HIDE DEF f, h
<1>9. Cardinality(Pairs(h)) = Cardinality(Pairs(f)) + Cardinality(h[n])
  BY <1>3, <1>4, <1>5, <1>6, <1>7, PairsAdd
<1> QED BY <1>5, <1>8, <1>9 DEF c

\* A frame is taken from the list: its references go.
LEMMA FramesRemove ==
    ASSUME NEW S, NEW fs \in Seq(Seq(S)), NEW i \in DOMAIN fs, NEW s
    PROVE  Cardinality(FrameRefs(RemoveAt(fs, i), s)) =
             Cardinality(FrameRefs(fs, s)) - Cardinality(Owners(fs[i], s))
<1> DEFINE c == RemoveAt(fs, i)
           f == [j \in DOMAIN fs |-> Owners(fs[j], s)]
           g == [j \in DOMAIN c |-> Owners(c[j], s)]
           n == Len(fs)
<1>1. n \in Nat /\ DOMAIN fs = 1..n /\ \A j \in DOMAIN fs : fs[j] \in Seq(S)
  OBVIOUS
<1>2. DOMAIN c = 1..(n - 1) /\ \A j \in DOMAIN c : c[j] = fs[Skip(i, j)] /\ Skip(i, j) \in DOMAIN fs
  <2> DEFINE Q == Seq(S)
  <2> HIDE DEF Q
  <2>1. fs \in Seq(Q)
    BY DEF Q
  <2> QED BY <2>1, RemoveFun
<1> HIDE DEF c, n
<1>3. DOMAIN f = 1..n /\ \A j \in DOMAIN f : IsFiniteSet(f[j])
  BY <1>1, OwnersFinite
<1>4. DOMAIN g = 1..(n - 1) /\ \A j \in DOMAIN g : g[j] = f[Skip(i, j)]
  BY <1>2
<1>5. f[i] = Owners(fs[i], s) /\ i \in 1..n
  BY <1>1
<1>6. FrameRefs(fs, s) = Pairs(f) /\ FrameRefs(c, s) = Pairs(g)
  BY DEF FrameRefs
<1> HIDE DEF f, g
<1>7. Cardinality(Pairs(g)) = Cardinality(Pairs(f)) - Cardinality(f[i])
  <2>1. AllFinite(f) /\ Removes(f, g, n, i)
    BY <1>3, <1>4 DEF AllFinite, Removes
  <2>2. n \in Nat /\ DOMAIN f = 1..n
    BY <1>1, <1>3
  <2> QED BY <2>1, <2>2, <1>5, PairsRemoved
<1> QED BY <1>5, <1>6, <1>7 DEF c

\* No frame, no reference.
LEMMA FramesNone ==
    ASSUME NEW s PROVE Cardinality(FrameRefs(<<>>, s)) = 0
<1>1. FrameRefs(<<>>, s) = {}
  BY DEF FrameRefs, Pairs
<1> QED BY <1>1, FS_EmptySet

\* 1 if the thread has taken a reference on s and not yet stored it.
Taken(r, s) == IF r.s = s /\ r.pc \in {"valid", "use"} THEN 1 ELSE 0

\* What one thread holds: its unlisted frame, and the reference in its hands.
LEMMA HoldsCard ==
    ASSUME NEW S, NEW r, r.got \in Seq(S), NEW s
    PROVE  /\ IsFiniteSet(Holds(r, s))
           /\ Cardinality(Holds(r, s)) = Cardinality(Owners(r.got, s)) + Taken(r, s)
           /\ Cardinality(Holds(r, s)) \in Nat
           /\ Holds(r, s) = {} <=> Owners(r.got, s) = {} /\ Taken(r, s) = 0
<1> DEFINE O == Owners(r.got, s)
           Z == {k \in {0} : r.s = s /\ r.pc \in {"valid", "use"}}
<1>1. IsFiniteSet(O) /\ Cardinality(O) \in Nat
  BY OwnersFinite
<1>2. 0 \notin O
  <2>1. DOMAIN (r.got) = 1..Len(r.got) /\ Len(r.got) \in Nat
    OBVIOUS
  <2> QED BY <2>1 DEF Owners
<1>3. Holds(r, s) = O \cup Z
  BY DEF Holds
<1>4. CASE Taken(r, s) = 1
  <2>1. Z = {0}
    BY <1>4 DEF Taken
  <2> HIDE DEF O, Z
  <2>2. IsFiniteSet(O \cup {0}) /\ Cardinality(O \cup {0}) = Cardinality(O) + 1
    BY <1>1, <1>2, FS_AddElement
  <2>3. Holds(r, s) = O \cup {0}
    BY <1>3, <2>1
  <2> QED BY <2>2, <2>3, <1>1, <1>4 DEF O
<1>5. CASE Taken(r, s) = 0
  <2>1. Z = {}
    BY <1>5 DEF Taken
  <2>2. Holds(r, s) = O
    BY <1>3, <2>1
  <2> QED BY <2>2, <1>1, <1>5
<1> QED BY <1>4, <1>5 DEF Taken

\* The references of the threads can be counted.
LEMMA ThreadsFinite ==
    ASSUME NEW S, NEW h, \A t \in Threads : h[t].got \in Seq(S), NEW s
    PROVE  /\ Cardinality(ThreadRefs(h, s)) \in Nat
           /\ Cardinality(ThreadRefs(h, s)) = 0 <=>
                \A t \in Threads : Owners(h[t].got, s) = {} /\ Taken(h[t], s) = 0
<1> DEFINE f == [t \in Threads |-> Holds(h[t], s)]
<1>1. IsFiniteSet(DOMAIN f)
  BY BufAssumption
<1>2. \A t \in DOMAIN f : IsFiniteSet(f[t]) /\ (f[t] = {} <=> Owners(h[t].got, s) = {} /\ Taken(h[t], s) = 0)
  BY HoldsCard
<1>3. ThreadRefs(h, s) = Pairs(f) /\ DOMAIN f = Threads
  BY DEF ThreadRefs
<1> HIDE DEF f
<1>4. Cardinality(Pairs(f)) = 0 <=> \A j \in DOMAIN f : f[j] = {}
  BY <1>1, <1>2, PairsEmpty
<1>5. Cardinality(Pairs(f)) \in Nat
  BY <1>1, <1>2, PairsFinite
<1> QED BY <1>2, <1>3, <1>4, <1>5

\* Only what the thread t holds changes.
LEMMA ThreadsChange ==
    ASSUME NEW S, NEW h, NEW g, \A t \in Threads : h[t].got \in Seq(S), NEW u \in Threads, NEW s,
           g[u].got \in Seq(S), \A t \in Threads \ {u} : g[t] = h[t]
    PROVE  /\ Cardinality(ThreadRefs(g, s)) = Cardinality(ThreadRefs(h, s))
                 - (Cardinality(Owners(h[u].got, s)) + Taken(h[u], s))
                 + (Cardinality(Owners(g[u].got, s)) + Taken(g[u], s))
           /\ Cardinality(Owners(h[u].got, s)) + Taken(h[u], s) <= Cardinality(ThreadRefs(h, s))
<1> DEFINE f == [t \in Threads |-> Holds(h[t], s)]
           k == [t \in Threads |-> Holds(g[t], s)]
<1>1. IsFiniteSet(DOMAIN f)
  BY BufAssumption
<1>2. \A t \in DOMAIN f : IsFiniteSet(f[t])
  BY HoldsCard
<1>3. IsFiniteSet(k[u]) /\ Cardinality(k[u]) = Cardinality(Owners(g[u].got, s)) + Taken(g[u], s)
  BY HoldsCard
<1>4. Cardinality(f[u]) = Cardinality(Owners(h[u].got, s)) + Taken(h[u], s)
  BY HoldsCard
<1>5. DOMAIN k = DOMAIN f /\ u \in DOMAIN f /\ \A j \in DOMAIN f \ {u} : k[j] = f[j]
  OBVIOUS
<1>6. ThreadRefs(h, s) = Pairs(f) /\ ThreadRefs(g, s) = Pairs(k)
  BY DEF ThreadRefs
<1> HIDE DEF f, k
<1>7. Cardinality(Pairs(k)) = Cardinality(Pairs(f)) - Cardinality(f[u]) + Cardinality(k[u])
  BY <1>1, <1>2, <1>3, <1>5, PairsChange
<1>8. /\ Cardinality(Pairs(f)) = Cardinality(Pairs(Without(f, u))) + Cardinality(f[u])
      /\ Cardinality(Pairs(Without(f, u))) \in Nat /\ Cardinality(f[u]) \in Nat
  BY <1>1, <1>2, <1>5, PairsOut
<1> QED BY <1>3, <1>4, <1>6, <1>7, <1>8

\* The references of one entry of the list of persistent buffers.
Kept(p, s) == IF p.s = s THEN p.hits + 1 ELSE 0

\* An entry that was sent hits times again holds hits + 1 references.
LEMMA KeptCard ==
    ASSUME NEW p, p.hits \in Nat, NEW s
    PROVE  /\ IsFiniteSet({n \in 0..p.hits : p.s = s})
           /\ Cardinality({n \in 0..p.hits : p.s = s}) = Kept(p, s)
           /\ {n \in 0..p.hits : p.s = s} = {} <=> p.s # s
<1>1. IsFiniteSet(0..p.hits) /\ Cardinality(0..p.hits) = p.hits + 1 /\ 0 \in 0..p.hits
  <2>1. 0 \in Int /\ p.hits \in Int /\ ~(0 > p.hits) /\ 0 \in 0..p.hits
    OBVIOUS
  <2>2. /\ IsFiniteSet(0..p.hits)
        /\ Cardinality(0..p.hits) = IF 0 > p.hits THEN 0 ELSE p.hits - 0 + 1
    BY <2>1, FS_Interval, Zenon
  <2> QED BY <2>1, <2>2
<1>2. CASE p.s = s
  <2>1. {n \in 0..p.hits : p.s = s} = 0..p.hits
    BY <1>2
  <2> QED BY <1>1, <1>2, <2>1 DEF Kept
<1>3. CASE p.s # s
  <2>1. {n \in 0..p.hits : p.s = s} = {}
    BY <1>3
  <2> QED BY <1>3, <2>1, FS_EmptySet DEF Kept
<1> QED BY <1>2, <1>3

\* The references of the persistent buffers can be counted.
LEMMA PersistFinite ==
    ASSUME NEW S, NEW l \in Seq(S), \A k \in DOMAIN l : l[k].hits \in Nat, NEW s
    PROVE  /\ Cardinality(PersistRefs(l, s)) \in Nat
           /\ Cardinality(PersistRefs(l, s)) = 0 <=> \A i \in DOMAIN l : l[i].s # s
<1> DEFINE f == [i \in DOMAIN l |-> {n \in 0..l[i].hits : l[i].s = s}]
<1>1. IsFiniteSet(DOMAIN f)
  <2>1. DOMAIN l = 1..Len(l) /\ Len(l) \in Nat
    OBVIOUS
  <2> QED BY <2>1, FS_Interval
<1>2. \A i \in DOMAIN l : l[i].hits \in Nat
  OBVIOUS
<1>3. \A i \in DOMAIN f : IsFiniteSet(f[i]) /\ (f[i] = {} <=> l[i].s # s)
  BY <1>2, KeptCard
<1>4. PersistRefs(l, s) = Pairs(f) /\ DOMAIN f = DOMAIN l
  BY DEF PersistRefs
<1> HIDE DEF f
<1>5. Cardinality(Pairs(f)) = 0 <=> \A j \in DOMAIN f : f[j] = {}
  BY <1>1, <1>3, PairsEmpty
<1>6. Cardinality(Pairs(f)) \in Nat
  BY <1>1, <1>3, PairsFinite
<1> QED BY <1>3, <1>4, <1>5, <1>6

\* A persistent buffer is listed.
LEMMA PersistAppend ==
    ASSUME NEW S, NEW l \in Seq(S), \A k \in DOMAIN l : l[k].hits \in Nat, NEW e \in S, e.hits \in Nat, NEW s
    PROVE  Cardinality(PersistRefs(Append(l, e), s)) = Cardinality(PersistRefs(l, s)) + Kept(e, s)
<1> DEFINE c == Append(l, e)
           n == Len(l) + 1
           f == [i \in DOMAIN l |-> {m \in 0..l[i].hits : l[i].s = s}]
           h == [i \in DOMAIN c |-> {m \in 0..c[i].hits : c[i].s = s}]
<1>1. DOMAIN c = DOMAIN l \cup {n} /\ n \notin DOMAIN l /\ c[n] = e
      /\ \A i \in DOMAIN l : c[i] = l[i]
  BY AppendFun
<1> HIDE DEF c, n
<1>2. IsFiniteSet(DOMAIN f)
  <2>1. DOMAIN l = 1..Len(l) /\ Len(l) \in Nat
    OBVIOUS
  <2> QED BY <2>1, FS_Interval
<1>3. \A i \in DOMAIN l : l[i].hits \in Nat
  OBVIOUS
<1>4. \A i \in DOMAIN f : IsFiniteSet(f[i])
  BY <1>3, KeptCard
<1>5. DOMAIN h = DOMAIN f \cup {n} /\ \A j \in DOMAIN f : h[j] = f[j]
  BY <1>1
<1>6. IsFiniteSet(h[n]) /\ Cardinality(h[n]) = Kept(e, s)
  <2>1. h[n] = {m \in 0..e.hits : e.s = s}
    BY <1>1
  <2>2. IsFiniteSet({m \in 0..e.hits : e.s = s})
        /\ Cardinality({m \in 0..e.hits : e.s = s}) = Kept(e, s)
    BY KeptCard
  <2> HIDE DEF h
  <2> QED BY <2>1, <2>2
<1>7. f = [j \in DOMAIN f |-> f[j]] /\ n \notin DOMAIN f
  BY <1>1
<1>8. PersistRefs(l, s) = Pairs(f) /\ PersistRefs(c, s) = Pairs(h)
  BY DEF PersistRefs
<1> HIDE DEF f, h
<1>9. Cardinality(Pairs(h)) = Cardinality(Pairs(f)) + Cardinality(h[n])
  BY <1>2, <1>4, <1>5, <1>6, <1>7, PairsAdd
<1> QED BY <1>6, <1>8, <1>9 DEF c

\* c is l with one entry removed.
LEMMA PersistRemove ==
    ASSUME NEW S, NEW l \in Seq(S), \A k \in DOMAIN l : l[k].hits \in Nat, NEW i \in DOMAIN l, NEW s,
           NEW c, DOMAIN c = 1..(Len(l) - 1),
           \A j \in DOMAIN c : c[j] = l[Skip(i, j)] /\ Skip(i, j) \in DOMAIN l
    PROVE  /\ Cardinality(PersistRefs(c, s)) = Cardinality(PersistRefs(l, s)) - Kept(l[i], s)
           /\ Kept(l[i], s) <= Cardinality(PersistRefs(l, s))
<1> DEFINE f == [j \in DOMAIN l |-> {m \in 0..l[j].hits : l[j].s = s}]
           g == [j \in DOMAIN c |-> {m \in 0..c[j].hits : c[j].s = s}]
           n == Len(l)
<1>1. n \in Nat /\ DOMAIN l = 1..n /\ \A j \in DOMAIN l : l[j].hits \in Nat
  OBVIOUS
<1>3. DOMAIN f = 1..n /\ \A j \in DOMAIN f : IsFiniteSet(f[j])
  BY <1>1, KeptCard
<1>4. DOMAIN g = 1..(n - 1) /\ \A j \in DOMAIN g : g[j] = f[Skip(i, j)]
  OBVIOUS
<1>5. i \in 1..n
  BY <1>1
<1>6. Cardinality(f[i]) = Kept(l[i], s)
  BY <1>1, <1>5, KeptCard
<1>7. PersistRefs(l, s) = Pairs(f) /\ PersistRefs(c, s) = Pairs(g)
  BY DEF PersistRefs
<1> HIDE DEF f, g, n
<1>8. Cardinality(Pairs(g)) = Cardinality(Pairs(f)) - Cardinality(f[i])
  <2>1. AllFinite(f) /\ Removes(f, g, n, i)
    BY <1>3, <1>4 DEF AllFinite, Removes
  <2>2. n \in Nat /\ DOMAIN f = 1..n
    BY <1>1, <1>3
  <2> QED BY <2>1, <2>2, <1>5, PairsRemoved
<1>9. /\ Cardinality(Pairs(f)) = Cardinality(Pairs(Without(f, i))) + Cardinality(f[i])
      /\ Cardinality(Pairs(Without(f, i))) \in Nat /\ Cardinality(f[i]) \in Nat
  <2>1. IsFiniteSet(DOMAIN f)
    BY <1>1, <1>3, FS_Interval
  <2> QED BY <1>3, <1>5, <2>1, PairsOut
<1> QED BY <1>6, <1>7, <1>8, <1>9

\* The entry i is replaced by another one.
LEMMA PersistChange ==
    ASSUME NEW S, NEW l \in Seq(S), \A k \in DOMAIN l : l[k].hits \in Nat, NEW i \in DOMAIN l, NEW s,
           NEW c, DOMAIN c = DOMAIN l, c[i].hits \in Nat,
           \A j \in DOMAIN l \ {i} : c[j] = l[j]
    PROVE  Cardinality(PersistRefs(c, s)) =
             Cardinality(PersistRefs(l, s)) - Kept(l[i], s) + Kept(c[i], s)
<1> DEFINE f == [j \in DOMAIN l |-> {m \in 0..l[j].hits : l[j].s = s}]
           g == [j \in DOMAIN c |-> {m \in 0..c[j].hits : c[j].s = s}]
<1>1. IsFiniteSet(DOMAIN f)
  <2>1. DOMAIN l = 1..Len(l) /\ Len(l) \in Nat
    OBVIOUS
  <2> QED BY <2>1, FS_Interval
<1>2. \A j \in DOMAIN l : l[j].hits \in Nat
  OBVIOUS
<1>3. \A j \in DOMAIN f : IsFiniteSet(f[j])
  BY <1>2, KeptCard
<1>4. Cardinality(f[i]) = Kept(l[i], s)
  BY <1>2, KeptCard
<1>5. IsFiniteSet(g[i]) /\ Cardinality(g[i]) = Kept(c[i], s)
  BY KeptCard
<1>6. DOMAIN g = DOMAIN f /\ i \in DOMAIN f /\ \A j \in DOMAIN f \ {i} : g[j] = f[j]
  OBVIOUS
<1>7. PersistRefs(l, s) = Pairs(f) /\ PersistRefs(c, s) = Pairs(g)
  BY DEF PersistRefs
<1> HIDE DEF f, g
<1>8. Cardinality(Pairs(g)) = Cardinality(Pairs(f)) - Cardinality(f[i]) + Cardinality(g[i])
  BY <1>1, <1>3, <1>5, <1>6, PairsChange
<1> QED BY <1>4, <1>5, <1>7, <1>8

-----------------------------------------------------------------------------
\* Facts of the state.

LEMMA Consts ==
    /\ Cap \in Nat /\ CapMax \in Nat /\ Slots \in Nat /\ MaxSmem \in Nat /\ MaxOps \in Nat
    /\ MaxRef \in Nat /\ 0 < Cap /\ Cap <= CapMax /\ IsFiniteSet(Threads) /\ Nobody \notin Bufs
    /\ Careful \in BOOLEAN /\ Threshold \in Int
  BY BufAssumption

\* What the types say about places, fields and lengths.
LEMMA TypeFacts ==
    ASSUME Typed
    PROVE  /\ Len(smem) \in Nat /\ DOMAIN smem = 1..Len(smem) /\ DOMAIN smem \subseteq Nat
           /\ 0 \notin DOMAIN smem /\ \A s \in DOMAIN smem : smem[s] \in MapRec
           /\ \A i \in DOMAIN persist : persist[i] \in PersistRec /\ i \in Nat
           /\ \A i \in DOMAIN wncc : wncc[i] \in WnccRec /\ i \in Nat
           /\ \A i \in DOMAIN frames : frames[i] \in Seq(EntryRec) /\ i \in Nat
           /\ \A i \in DOMAIN frames : \A k \in DOMAIN frames[i] : frames[i][k] \in EntryRec
           /\ \A t \in Threads : th[t] \in ThRec
           /\ \A t \in Threads : \A k \in DOMAIN th[t].got : th[t].got[k] \in EntryRec
<1>1. smem \in Seq(MapRec) /\ persist \in Seq(PersistRec) /\ wncc \in Seq(WnccRec)
      /\ frames \in Seq(Seq(EntryRec)) /\ th \in [Threads -> ThRec]
  BY DEF Typed, SmemType, ListType, ThType
<1> DEFINE E == EntryRec
           M == MapRec
           P == PersistRec
           W == WnccRec
<1> HIDE DEF E, M, P, W
<1>2. Len(smem) \in Nat /\ DOMAIN smem = 1..Len(smem) /\ \A s \in DOMAIN smem : smem[s] \in M
  BY <1>1 DEF M
<1>3. \A i \in DOMAIN persist : persist[i] \in P /\ i \in Nat
  BY <1>1 DEF P
<1>4. \A i \in DOMAIN wncc : wncc[i] \in W /\ i \in Nat
  BY <1>1 DEF W
<1>5. \A i \in DOMAIN frames : frames[i] \in Seq(E) /\ i \in Nat
  BY <1>1 DEF E
<1>6. \A i \in DOMAIN frames : \A k \in DOMAIN frames[i] : frames[i][k] \in E
  BY <1>5
<1>7. \A t \in Threads : th[t] \in ThRec /\ th[t].got \in Seq(E)
  BY <1>1 DEF ThRec, E
<1>8. \A t \in Threads : \A k \in DOMAIN th[t].got : th[t].got[k] \in E
  BY <1>7
<1> QED BY <1>2, <1>3, <1>4, <1>5, <1>6, <1>7, <1>8 DEF E, M, P, W

\* The fields of a thread.
LEMMA ThreadFields ==
    ASSUME NEW r \in ThRec
    PROVE  /\ r.pc \in Pcs /\ r.op \in Packets \cup Lasting \cup {"none"} /\ r.todo \in Seq(Bufs)
           /\ r.got \in Seq(EntryRec) /\ r.s \in 0..Len(smem)
           /\ r = [pc |-> r.pc, op |-> r.op, todo |-> r.todo, got |-> r.got, s |-> r.s]
  BY DEF ThRec

\* The count of references is a number, part by part.
LEMMA CountNat ==
    ASSUME Typed, NEW s
    PROVE  /\ Cardinality(FrameRefs(frames, s)) \in Nat
           /\ Cardinality(ThreadRefs(th, s)) \in Nat
           /\ Cardinality(PersistRefs(persist, s)) \in Nat
           /\ Cardinality(FrameRefs(frames, s)) = 0 <=> \A i \in DOMAIN frames : Owners(frames[i], s) = {}
           /\ Cardinality(ThreadRefs(th, s)) = 0 <=>
                \A t \in Threads : Owners(th[t].got, s) = {} /\ Taken(th[t], s) = 0
           /\ Cardinality(PersistRefs(persist, s)) = 0 <=> \A i \in DOMAIN persist : persist[i].s # s
           /\ Count(s) \in Nat
<1>1. frames \in Seq(Seq(EntryRec)) /\ persist \in Seq(PersistRec)
  BY DEF Typed, ListType
<1>2. \A t \in Threads : th[t].got \in Seq(EntryRec)
  BY TypeFacts, ThreadFields
<1>3. \A k \in DOMAIN persist : persist[k].hits \in Nat
  BY TypeFacts DEF PersistRec
<1>4. /\ Cardinality(FrameRefs(frames, s)) \in Nat
      /\ Cardinality(FrameRefs(frames, s)) = 0 <=> \A i \in DOMAIN frames : Owners(frames[i], s) = {}
  <2> DEFINE E == EntryRec
  <2> HIDE DEF E
  <2>1. frames \in Seq(Seq(E))
    BY <1>1 DEF E
  <2> QED BY <2>1, FramesFinite
<1>5. /\ Cardinality(ThreadRefs(th, s)) \in Nat
      /\ Cardinality(ThreadRefs(th, s)) = 0 <=>
           \A t \in Threads : Owners(th[t].got, s) = {} /\ Taken(th[t], s) = 0
  <2> DEFINE E == EntryRec
  <2> HIDE DEF E
  <2>1. \A t \in Threads : th[t].got \in Seq(E)
    BY <1>2 DEF E
  <2> QED BY <2>1, ThreadsFinite
<1>6. /\ Cardinality(PersistRefs(persist, s)) \in Nat
      /\ Cardinality(PersistRefs(persist, s)) = 0 <=> \A i \in DOMAIN persist : persist[i].s # s
  <2> DEFINE P == PersistRec
  <2> HIDE DEF P
  <2>1. persist \in Seq(P)
    BY <1>1 DEF P
  <2> QED BY <2>1, <1>3, PersistFinite
<1> QED BY <1>4, <1>5, <1>6 DEF Count

\* A mapping without references is used by no one, but by those who come to have it.
LEMMA Unreferenced ==
    ASSUME Inv, Counting, NEW s \in Tracked, smem[s].ref = 0
    PROVE  /\ \A i \in DOMAIN frames : \A k \in DOMAIN frames[i] : frames[i][k].s # s
           /\ \A t \in Threads : \A k \in DOMAIN th[t].got : th[t].got[k].s # s
           /\ \A i \in DOMAIN persist : persist[i].s # s
           /\ \A t \in Threads : th[t].s = s => th[t].pc \in {"add", "insert", "inc"}
<1>1. Typed
  BY DEF Inv
<1>2. Count(s) = 0
  BY DEF Inv, RefInv
<1>3. /\ \A i \in DOMAIN frames : Owners(frames[i], s) = {}
      /\ \A t \in Threads : Owners(th[t].got, s) = {} /\ Taken(th[t], s) = 0
      /\ \A i \in DOMAIN persist : persist[i].s # s
  <2>1. Cardinality(FrameRefs(frames, s)) = 0 /\ Cardinality(ThreadRefs(th, s)) = 0
        /\ Cardinality(PersistRefs(persist, s)) = 0
    BY <1>1, <1>2, CountNat DEF Count
  <2> QED BY <1>1, <2>1, CountNat
<1>4. s \notin Persisting
  BY <1>3 DEF Persisting
<1>5. \A i \in DOMAIN frames : \A k \in DOMAIN frames[i] : frames[i][k].s # s
  BY <1>3, <1>4 DEF Inv, FrameInv, EntriesOK, EntryOK, Owners
<1>6. \A t \in Threads : \A k \in DOMAIN th[t].got : th[t].got[k].s # s
  BY <1>3, <1>4 DEF Inv, GotInv, EntriesOK, EntryOK, Owners
<1>7. s # 0
  BY <1>1, TypeFacts DEF Tracked
<1>8. \A t \in Threads : th[t].s = s => th[t].pc \in {"add", "insert", "inc"}
  BY <1>3, <1>7 DEF Inv, ShapeInv, Shape, Having, Taken
<1> QED BY <1>3, <1>5, <1>6, <1>8

-----------------------------------------------------------------------------
\* Steps of one thread that leave the lists and the mappings alone, but for the counts.

\* Nothing but counts of mappings changes.
RefsOnly ==
    /\ DOMAIN smem' = DOMAIN smem /\ Len(smem') = Len(smem) /\ smem' \in Seq(MapRec)
    /\ \A x \in DOMAIN smem : /\ smem'[x].buf = smem[x].buf /\ smem'[x].st = smem[x].st
                              /\ smem'[x].lost = smem[x].lost /\ smem'[x] \in MapRec

\* A step on one count only.
LEMMA RefsOnlyExcept ==
    ASSUME Typed, NEW s \in DOMAIN smem, NEW n \in Int, smem[s].ref + n >= 0,
           smem' = [smem EXCEPT ![s].ref = @ + n]
    PROVE  /\ RefsOnly
           /\ \A x \in DOMAIN smem : smem'[x].ref = smem[x].ref + (IF x = s THEN n ELSE 0)
<1>1. Len(smem) \in Nat /\ DOMAIN smem = 1..Len(smem) /\ \A x \in DOMAIN smem : smem[x] \in MapRec
  BY TypeFacts
<1>2. DOMAIN smem' = DOMAIN smem /\ \A x \in DOMAIN smem : x # s => smem'[x] = smem[x]
  OBVIOUS
<1>3. smem[s] \in MapRec
  BY <1>1
<1>4. smem'[s] = [smem[s] EXCEPT !.ref = @ + n]
  OBVIOUS
<1>5. smem'[s] \in MapRec /\ smem'[s].ref = smem[s].ref + n /\ smem'[s].buf = smem[s].buf
      /\ smem'[s].st = smem[s].st /\ smem'[s].lost = smem[s].lost
  BY <1>3, <1>4 DEF MapRec
<1>6. \A x \in DOMAIN smem : smem[x].ref \in Nat /\ smem'[x] \in MapRec
  BY <1>1, <1>2, <1>5 DEF MapRec
<1>7. smem' \in [DOMAIN smem -> MapRec]
  <2>1. smem' = [x \in DOMAIN smem |-> smem'[x]]
    OBVIOUS
  <2> QED BY <2>1, <1>6
<1>8. smem' \in Seq(MapRec) /\ Len(smem') = Len(smem)
  <2>1. smem \in Seq(MapRec)
    BY DEF Typed, SmemType
  <2> DEFINE M == MapRec
             g == smem'
  <2> HIDE DEF M, g
  <2>2. smem \in Seq(M) /\ g \in [DOMAIN smem -> M]
    BY <2>1, <1>7 DEF M, g
  <2>3. g \in Seq(M) /\ Len(g) = Len(smem)
    BY <2>2, SeqOver
  <2> QED BY <2>3 DEF M, g
<1>9. ASSUME NEW x \in DOMAIN smem
      PROVE  /\ smem'[x].ref = smem[x].ref + (IF x = s THEN n ELSE 0)
             /\ smem'[x].buf = smem[x].buf /\ smem'[x].st = smem[x].st
             /\ smem'[x].lost = smem[x].lost
  <2>1. CASE x = s
    BY <2>1, <1>5
  <2>2. CASE x # s
    BY <2>2, <1>2, <1>6
  <2> QED BY <2>1, <2>2
<1> QED BY <1>2, <1>6, <1>8, <1>9 DEF RefsOnly

\* A reference is taken.
LEMMA RefsOnlyPlus ==
    ASSUME Typed, NEW s \in DOMAIN smem, smem' = [smem EXCEPT ![s].ref = @ + 1]
    PROVE  /\ RefsOnly
           /\ \A x \in DOMAIN smem : smem'[x].ref = smem[x].ref + (IF x = s THEN 1 ELSE 0)
<1>1. smem[s].ref \in Nat
  BY TypeFacts DEF MapRec
<1>2. smem[s].ref + 1 >= 0 /\ 1 \in Int
  BY <1>1
<1> QED BY <1>2, RefsOnlyExcept, Zenon

\* No mapping changes.
LEMMA RefsOnlySame ==
    ASSUME Typed, smem' = smem
    PROVE  RefsOnly
  BY TypeFacts DEF RefsOnly, Typed, SmemType

\* Types in the next state when the mappings are the same numbers.
LEMMA SameRecs ==
    ASSUME DOMAIN smem' = DOMAIN smem, Len(smem') = Len(smem)
    PROVE  EntryRec' = EntryRec /\ PersistRec' = PersistRec /\ WnccRec' = WnccRec /\ ThRec' = ThRec
<1>1. EntryRec' = EntryRec /\ PersistRec' = PersistRec /\ WnccRec' = WnccRec
  BY DEF EntryRec, PersistRec, WnccRec
<1> QED BY <1>1 DEF ThRec

\* A thread that neither has nor gets a new mapping.
LEMMA SameNew ==
    ASSUME NEW t \in Threads, NEW r, \A u \in Threads : th'[u] = IF u = t THEN r ELSE th[u],
           th[t].pc \notin {"add", "insert"}, r.pc \notin {"add", "insert"}
    PROVE  New' = New
<1>1. {u \in Threads : th'[u].pc \in {"add", "insert"}} = {u \in Threads : th[u].pc \in {"add", "insert"}}
  OBVIOUS
<1>2. \A u \in {v \in Threads : th[v].pc \in {"add", "insert"}} : th'[u].s = th[u].s
  OBVIOUS
<1> QED BY <1>1, <1>2 DEF New

\* Only counts change: every mapping keeps its place.
LEMMA SameSets ==
    ASSUME RefsOnly, wncc' = wncc, New' = New
    PROVE  Live' = Live /\ Tracked' = Tracked /\ Sources' = Sources /\ Shared' = Shared
<1>1. Live' = Live /\ Tracked' = Tracked /\ Sources' = Sources
  BY DEF RefsOnly, Live, Tracked, Sources
<1> QED BY <1>1 DEF Shared

\* The references a thread holds on a mapping.
Held(r, s) == Cardinality(Owners(r.got, s)) + Taken(r, s)

\* The thread t goes on to r.
LEMMA ThreadCount ==
    ASSUME Typed, NEW t \in Threads, NEW r, r.got \in Seq(EntryRec), NEW s,
           \A u \in Threads : th'[u] = IF u = t THEN r ELSE th[u]
    PROVE  /\ Cardinality(ThreadRefs(th', s)) = Cardinality(ThreadRefs(th, s))
                 - (Cardinality(Owners(th[t].got, s)) + Taken(th[t], s))
                 + (Cardinality(Owners(r.got, s)) + Taken(r, s))
           /\ Cardinality(Owners(th[t].got, s)) + Taken(th[t], s) <= Cardinality(ThreadRefs(th, s))
           /\ Cardinality(Owners(th[t].got, s)) \in Nat /\ Cardinality(Owners(r.got, s)) \in Nat
           /\ Cardinality(ThreadRefs(th, s)) \in Nat
<1> DEFINE E == EntryRec
<1>1. \A u \in Threads : th[u].got \in Seq(E)
  BY TypeFacts, ThreadFields
<1>2. th'[t].got \in Seq(E) /\ th'[t] = r /\ \A u \in Threads \ {t} : th'[u] = th[u]
  OBVIOUS
<1> HIDE DEF E
<1>3. /\ Cardinality(ThreadRefs(th', s)) = Cardinality(ThreadRefs(th, s))
            - (Cardinality(Owners(th[t].got, s)) + Taken(th[t], s))
            + (Cardinality(Owners(th'[t].got, s)) + Taken(th'[t], s))
      /\ Cardinality(Owners(th[t].got, s)) + Taken(th[t], s) <= Cardinality(ThreadRefs(th, s))
  BY <1>1, <1>2, ThreadsChange
<1>4. Cardinality(Owners(th[t].got, s)) \in Nat /\ Cardinality(Owners(r.got, s)) \in Nat
  BY <1>1, <1>2, OwnersFinite
<1>5. Cardinality(ThreadRefs(th, s)) \in Nat
  BY CountNat
<1> QED BY <1>2, <1>3, <1>4, <1>5

\* No one else calls about the buffer of r.
Only(t, r) == r.op \in Lasting => \A u \in Threads \ {t} : th[u].op \in Lasting => th[u].todo[1] # r.todo[1]

\* The thread t goes on to r; the counts follow what it holds.
LEMMA Moves ==
    ASSUME Inv, NEW t \in Threads, NEW r \in ThRec, phase = "open", RefsOnly,
           th' = [th EXCEPT ![t] = r], RestType',
           UNCHANGED <<cached, persist, frames, wncc, table, phase>>,
           th[t].pc \notin {"add", "insert"}, r.pc \notin {"add", "insert"},
           \A x \in DOMAIN smem : /\ smem'[x].ref >= smem[x].ref
                                  /\ smem'[x].ref - smem[x].ref = Held(r, x) - Held(th[t], x),
           Shape(r), Hand(r), EntriesOK(r.got), Calling(r), Only(t, r)
    PROVE  Inv'
<1> USE DEF Inv
<1>1. \A u \in Threads : th'[u] = IF u = t THEN r ELSE th[u]
  BY DEF Typed, ThType
<1>2. New' = New
  BY <1>1, SameNew
<1>3. Live' = Live /\ Tracked' = Tracked /\ Sources' = Sources /\ Shared' = Shared
  BY <1>2, SameSets
<1>4. DOMAIN smem' = DOMAIN smem /\ Len(smem') = Len(smem)
      /\ EntryRec' = EntryRec /\ PersistRec' = PersistRec /\ WnccRec' = WnccRec /\ ThRec' = ThRec
  BY SameRecs DEF RefsOnly
<1>5. Persisting' = Persisting
  BY DEF Persisting
<1>6. Typed'
  <2>1. SmemType'
    BY <1>4 DEF RefsOnly, SmemType, Typed, MapRec
  <2>2. ListType'
    BY <1>4 DEF ListType, Typed
  <2>3. ThType'
    BY <1>4 DEF ThType, Typed
  <2> QED BY <2>1, <2>2, <2>3 DEF Typed
<1>7. ShapeInv'
  BY <1>1 DEF ShapeInv
<1>8. HandInv'
  <2>1. ASSUME NEW v, Hand(v) PROVE Hand(v)'
    <3>1. v.pc \in Having => v.s \in DOMAIN smem
      BY <2>1 DEF Hand, Having, Shared, Tracked, Live
    <3> QED BY <2>1, <3>1, <1>3 DEF Hand, RefsOnly, Having
  <2>2. \A u \in Threads : Hand(th'[u])
    BY <1>1 DEF HandInv
  <2> QED BY <2>1, <2>2 DEF HandInv
<1>9. AloneInv'
  BY <1>1 DEF AloneInv
<1>10. \A e : EntryOK(e) => EntryOK(e)'
  BY <1>3, <1>5 DEF EntryOK, RefsOnly, Shared, Tracked
<1>11. FrameInv' /\ GotInv'
  BY <1>1, <1>10 DEF FrameInv, GotInv, EntriesOK
<1>12. CallInv' /\ ExclInv'
  BY <1>1 DEF CallInv, ExclInv, Calling, Only
<1>13. CacheInv'
  BY <1>3, <1>4 DEF CacheInv, RefsOnly, Live
<1>14. PersistInv'
  BY <1>3 DEF PersistInv, RefsOnly, Shared, Tracked
<1>15. WnccInv'
  BY <1>3 DEF WnccInv, RefsOnly, Live
<1>16. RefInv'
  <2> SUFFICES ASSUME NEW s \in Tracked PROVE smem'[s].ref = Count(s)'
    BY <1>3 DEF RefInv
  <2>1. smem[s].ref = Count(s) /\ s \in DOMAIN smem
    BY DEF RefInv, Counting, Tracked
  <2>2. r.got \in Seq(EntryRec)
    BY ThreadFields
  <2>3. /\ Cardinality(ThreadRefs(th', s)) = Cardinality(ThreadRefs(th, s)) - Held(th[t], s) + Held(r, s)
        /\ Held(r, s) \in Nat /\ Held(th[t], s) \in Nat
    <3>1. Typed
      OBVIOUS
    <3>2. /\ Cardinality(ThreadRefs(th', s)) = Cardinality(ThreadRefs(th, s))
                 - (Cardinality(Owners(th[t].got, s)) + Taken(th[t], s))
                 + (Cardinality(Owners(r.got, s)) + Taken(r, s))
          /\ Cardinality(Owners(th[t].got, s)) \in Nat /\ Cardinality(Owners(r.got, s)) \in Nat
      BY <3>1, <1>1, <2>2, ThreadCount
    <3> QED BY <3>2 DEF Held, Taken
  <2>4. Cardinality(FrameRefs(frames, s)) \in Nat /\ Cardinality(ThreadRefs(th, s)) \in Nat
        /\ Cardinality(PersistRefs(persist, s)) \in Nat
    BY CountNat
  <2>5. Count(s)' = Count(s) - Held(th[t], s) + Held(r, s) /\ Count(s) \in Nat
    BY <2>3, <2>4 DEF Count
  <2>6. smem'[s].ref \in Nat
    BY <2>1 DEF RefsOnly, MapRec
  <2>7. smem'[s].ref - smem[s].ref = Held(r, s) - Held(th[t], s)
    BY <2>1
  <2> QED BY <2>1, <2>3, <2>5, <2>6, <2>7
<1>17. HomeInv'
  <2>1. \A s \in Live : smem'[s].ref >= smem[s].ref /\ smem'[s].lost = smem[s].lost
        /\ smem'[s].ref \in Nat /\ smem[s].ref \in Nat
    BY TypeFacts DEF RefsOnly, Live, MapRec
  <2> QED BY <2>1, <1>2, <1>3 DEF HomeInv, Counting
<1>18. PhaseInv'
  BY DEF PhaseInv, Counting
<1> QED BY <1>6, <1>7, <1>8, <1>9, <1>11, <1>12, <1>13, <1>14, <1>15, <1>16, <1>17, <1>18

\* The types of the variables the calls of a thread leave alone.
LEMMA RestSame ==
    ASSUME Typed, DOMAIN smem' = DOMAIN smem, Len(smem') = Len(smem),
           UNCHANGED <<cached, cap, table, watermark, smem_count, work, phase>>,
           dmaref' \in [Bufs -> Int], extra' \in [Bufs -> Nat], ops' \in Nat
    PROVE  RestType'
  BY DEF RestType, Typed

\* A call begins.
LEMMA Starts ==
    ASSUME Inv, NEW t \in Threads, NEW r \in ThRec, th[t].pc = "idle", phase = "open",
           th' = [th EXCEPT ![t] = r], ops' = ops + 1,
           UNCHANGED <<smem, cached, cap, persist, frames, wncc, table, dmaref, extra, watermark,
                       smem_count, work, phase>>,
           r.got = <<>>, r.s = 0, r.pc \in {"find", "alloc", "table"}, Shape(r), Calling(r), Only(t, r)
    PROVE  Inv'
<1>1. Typed
  BY DEF Inv
<1>2. RestType'
  BY <1>1, RestSame DEF Typed, RestType
<1>3. RefsOnly
  BY <1>1, RefsOnlySame
<1>4. th[t] = Idle
  BY DEF Inv, ShapeInv, Shape
<1>5. th[t].got = <<>> /\ th[t].s = 0 /\ th[t].pc = "idle"
  BY <1>4 DEF Idle
<1>6. \A x \in DOMAIN smem : smem[x].ref \in Nat
  BY <1>1, TypeFacts DEF MapRec
<1>7. \A x \in DOMAIN smem : /\ smem'[x].ref >= smem[x].ref
                             /\ smem'[x].ref - smem[x].ref = Held(r, x) - Held(th[t], x)
  <2> SUFFICES ASSUME NEW x \in DOMAIN smem PROVE Held(r, x) = Held(th[t], x) /\ Held(r, x) \in Nat
    BY <1>6
  <2>1. r.got \in Seq(EntryRec)
    BY ThreadFields
  <2>2. Cardinality(Owners(r.got, x)) \in Nat
    <3> DEFINE E == EntryRec
    <3> HIDE DEF E
    <3>1. r.got \in Seq(E)
      BY <2>1 DEF E
    <3> QED BY <3>1, OwnersFinite
  <2> QED BY <1>5, <2>2 DEF Held, Taken
<1>8. Hand(r) /\ EntriesOK(r.got)
  BY DEF Hand, EntriesOK, Having
<1> QED BY <1>2, <1>3, <1>5, <1>7, <1>8, Moves

\* The record of a thread whose call has begun.
LEMMA Started ==
    ASSUME NEW p, NEW o, NEW bs
    PROVE  /\ [Idle EXCEPT !.pc = p, !.op = o, !.todo = bs] =
              [pc |-> p, op |-> o, todo |-> bs, got |-> <<>>, s |-> 0]
           /\ [Idle EXCEPT !.pc = p, !.todo = bs, !.op = o] =
              [pc |-> p, op |-> o, todo |-> bs, got |-> <<>>, s |-> 0]
<1> DEFINE R == [pc : {p}, op : {o}, todo : {bs}, got : {<<>>}, s : {0}]
<1>1. [Idle EXCEPT !.pc = p, !.op = o, !.todo = bs] \in R
  BY DEF Idle
<1>2. [Idle EXCEPT !.pc = p, !.todo = bs, !.op = o] \in R
  BY DEF Idle
<1>3. \A r \in R : r = [pc |-> p, op |-> o, todo |-> bs, got |-> <<>>, s |-> 0]
  OBVIOUS
<1> QED BY <1>1, <1>2, <1>3

\* msm_cvp_map_frame is called.
LEMMA MapFrameStep ==
    ASSUME Inv, NEW t \in Threads, NEW bs \in Seq(Bufs), bs # <<>>, NEW config \in BOOLEAN,
           MapFrame(t, bs, config)
    PROVE  Inv'
<1> DEFINE o == IF config THEN "config" ELSE "frame"
           r == [Idle EXCEPT !.pc = "find", !.todo = bs, !.op = o]
<1>0. o \in {"config", "frame"}
  OBVIOUS
<1>1. r = [pc |-> "find", op |-> o, todo |-> bs, got |-> <<>>, s |-> 0]
  BY Started
<1>2. Typed
  BY DEF Inv
<1>3. r \in ThRec
  <2>1. <<>> \in Seq(EntryRec) /\ 0 \in 0..Len(smem)
    BY <1>2, TypeFacts
  <2> QED BY <1>0, <1>1, <2>1 DEF ThRec, Pcs, Packets
<1>4. th[t].pc = "idle" /\ phase = "open" /\ th' = [th EXCEPT ![t] = r] /\ ops' = ops + 1
      /\ UNCHANGED <<smem, cached, cap, persist, frames, wncc, table, dmaref, extra, watermark,
                     smem_count, work, phase>>
  BY DEF MapFrame, Calls
<1>6. r.got = <<>> /\ r.s = 0 /\ r.pc = "find" /\ r.op \in {"config", "frame"} /\ r.todo = bs
  BY <1>0, <1>1
<1> HIDE DEF r
<1>5. Shape(r) /\ Calling(r) /\ Only(t, r)
  BY <1>6 DEF Shape, Calling, Only, Lasting, Packets, Having
<1> QED BY <1>3, <1>4, <1>5, <1>6, Starts

\* What a careful client is held to when it calls about a lasting buffer.
LEMMA CallsOnly ==
    ASSUME Inv, Careful, NEW t \in Threads, NEW b \in Bufs, NEW r, Calls(t, Lasting, b), r.todo = <<b>>
    PROVE  Only(t, r)
<1> SUFFICES ASSUME NEW u \in Threads, th[u].op \in Lasting PROVE th[u].todo[1] # b
  BY DEF Only
<1>1. b \notin Range(th[u].todo)
  BY DEF Calls
<1>2. Len(th[u].todo) = 1 /\ th[u].todo \in Seq(Bufs)
  BY TypeFacts, ThreadFields DEF Inv, ShapeInv, Shape
<1>3. 1 \in DOMAIN th[u].todo
  BY <1>2
<1> QED BY <1>1, <1>3 DEF Range

\* The calls about a lasting buffer, and when they may begin.
LastingCall(p, o) ==
    \/ p = "find" /\ o = "params"
    \/ p = "alloc" /\ o \in {"user", "feature"}
    \/ p = "table" /\ o = "wncc"
Unlisted(o, b) ==
    /\ o # "wncc" => \A i \in DOMAIN persist : persist[i].buf # b
    /\ o = "wncc" => \A i \in DOMAIN wncc : wncc[i].buf # b

\* A call about one lasting buffer begins.
LEMMA StartsLasting ==
    ASSUME Inv, Careful, NEW t \in Threads, NEW b \in Bufs, NEW p, NEW o, Calls(t, Lasting, b),
           th' = [th EXCEPT ![t] = [Idle EXCEPT !.pc = p, !.op = o, !.todo = <<b>>]],
           LastingCall(p, o), Unlisted(o, b),
           UNCHANGED <<smem, cached, cap, persist, frames, wncc, table, dmaref, extra, watermark,
                       smem_count, work, phase>>
    PROVE  Inv'
<1> DEFINE r == [Idle EXCEPT !.pc = p, !.op = o, !.todo = <<b>>]
<1>1. r = [pc |-> p, op |-> o, todo |-> <<b>>, got |-> <<>>, s |-> 0]
  BY Started
<1>2. Typed
  BY DEF Inv
<1>3. r \in ThRec
  <2>1. <<>> \in Seq(EntryRec) /\ 0 \in 0..Len(smem) /\ <<b>> \in Seq(Bufs)
    BY <1>2, TypeFacts
  <2> QED BY <1>1, <2>1 DEF ThRec, Pcs, Packets, Lasting, LastingCall
<1>4. th[t].pc = "idle" /\ phase = "open" /\ ops' = ops + 1
  BY DEF Calls
<1>5. r.todo = <<b>> /\ r.todo[1] = b /\ Len(r.todo) = 1 /\ r.todo # <<>>
  BY <1>1
<1>6. Only(t, r)
  BY <1>5, CallsOnly
<1>7. r.got = <<>> /\ r.s = 0 /\ r.pc \in {"find", "alloc", "table"} /\ r.op = o /\ r.pc = p
  BY <1>1 DEF LastingCall
<1>8. Shape(r)
  <2> HIDE DEF r
  <2> QED BY <1>5, <1>7 DEF Shape, Lasting, Packets, Having, LastingCall
<1> HIDE DEF r
<1>9. Calling(r)
  BY <1>5, <1>7 DEF Calling, Unlisted
<1>10. th' = [th EXCEPT ![t] = r]
  BY DEF r
<1> QED BY <1>3, <1>4, <1>6, <1>7, <1>8, <1>9, <1>10, Starts

\* The entries of a client's buffer.
LEMMA MappedAre ==
    ASSUME Inv, NEW b \in Bufs
    PROVE  /\ Mapped(b, {"user", "params", "feature"}) = {i \in DOMAIN persist : persist[i].buf = b}
           /\ Mapped(b, {"user", "params", "feature"}) \subseteq Nat
           /\ Mapped(b, {"user", "params", "feature"}) # {} =>
                /\ Min(Mapped(b, {"user", "params", "feature"})) \in DOMAIN persist
                /\ persist[Min(Mapped(b, {"user", "params", "feature"}))].buf = b
                /\ persist[Min(Mapped(b, {"user", "params", "feature"}))].kind # "arp"
<1> DEFINE M == Mapped(b, {"user", "params", "feature"})
<1>1. \A i \in DOMAIN persist : persist[i] \in PersistRec /\ i \in Nat
  BY TypeFacts DEF Inv
<1>2. \A i \in DOMAIN persist : persist[i].kind = "arp" <=> persist[i].buf = Nobody
  BY DEF Inv, PersistInv
<1>3. \A i \in DOMAIN persist : persist[i].kind \in Kinds
  BY <1>1 DEF PersistRec
<1>4. Nobody # b
  BY Consts
<1>5. M = {i \in DOMAIN persist : persist[i].buf = b}
  BY <1>2, <1>3, <1>4 DEF Mapped, Kinds
<1>6. M \subseteq Nat
  BY <1>1, <1>5
<1>7. M # {} => Min(M) \in M
  <2> HIDE DEF M
  <2> QED BY <1>6, MinIn
<1> QED BY <1>2, <1>4, <1>5, <1>6, <1>7

\* A feature buffer is to be mapped.
LEMMA MapFeatureStep ==
    ASSUME Inv, Careful, NEW t \in Threads, NEW b \in Bufs, MapFeaturePersist(t, b)
    PROVE  Inv'
<1>1. \A i \in DOMAIN persist : persist[i].buf # b
  BY MappedAre DEF MapFeaturePersist
<1>2. Calls(t, Lasting, b)
      /\ th' = [th EXCEPT ![t] = [Idle EXCEPT !.pc = "alloc", !.op = "feature", !.todo = <<b>>]]
      /\ UNCHANGED <<smem, cached, cap, persist, frames, wncc, table, dmaref, extra, watermark,
                     smem_count, work, phase>>
  BY DEF MapFeaturePersist
<1>3. LastingCall("alloc", "feature") /\ Unlisted("feature", b)
  BY <1>1 DEF LastingCall, Unlisted
<1> QED BY <1>2, <1>3, StartsLasting

\* msm_cvp_map_buf_wncc is called.
LEMMA MapWnccStep ==
    ASSUME Inv, Careful, NEW t \in Threads, NEW b \in Bufs, MapBufWncc(t, b)
    PROVE  Inv'
<1>1. \A i \in DOMAIN wncc : wncc[i].buf # b
  BY DEF MapBufWncc
<1>2. Calls(t, Lasting, b)
      /\ th' = [th EXCEPT ![t] = [Idle EXCEPT !.pc = "table", !.op = "wncc", !.todo = <<b>>]]
      /\ UNCHANGED <<smem, cached, cap, persist, frames, wncc, table, dmaref, extra, watermark,
                     smem_count, work, phase>>
  BY DEF MapBufWncc
<1>3. LastingCall("table", "wncc") /\ Unlisted("wncc", b)
  BY <1>1 DEF LastingCall, Unlisted
<1> QED BY <1>2, <1>3, StartsLasting

-----------------------------------------------------------------------------
\* A thread goes on.

Rec(p, o, bs, g, s) == [pc |-> p, op |-> o, todo |-> bs, got |-> g, s |-> s]

\* A record of a thread is known by its fields.
LEMMA RecIs ==
    ASSUME NEW p, NEW o, NEW bs, NEW g, NEW s,
           NEW r \in [pc : {p}, op : {o}, todo : {bs}, got : {g}, s : {s}]
    PROVE  r = Rec(p, o, bs, g, s)
  BY DEF Rec

\* The fields of Rec.
LEMMA RecFields ==
    ASSUME NEW p, NEW o, NEW bs, NEW g, NEW s
    PROVE  /\ Rec(p, o, bs, g, s).pc = p /\ Rec(p, o, bs, g, s).op = o /\ Rec(p, o, bs, g, s).todo = bs
           /\ Rec(p, o, bs, g, s).got = g /\ Rec(p, o, bs, g, s).s = s
  BY DEF Rec

\* A thread moves to another label.
LEMMA ToPc ==
    ASSUME Typed, NEW t \in Threads, NEW p, th' = [th EXCEPT ![t].pc = p]
    PROVE  th' = [th EXCEPT ![t] = Rec(p, th[t].op, th[t].todo, th[t].got, th[t].s)]
<1>1. th[t] = [pc |-> th[t].pc, op |-> th[t].op, todo |-> th[t].todo, got |-> th[t].got, s |-> th[t].s]
  BY TypeFacts, ThreadFields
<1>2. [th[t] EXCEPT !.pc = p] \in [pc : {p}, op : {th[t].op}, todo : {th[t].todo}, got : {th[t].got}, s : {th[t].s}]
  BY <1>1
<1>3. [th[t] EXCEPT !.pc = p] = Rec(p, th[t].op, th[t].todo, th[t].got, th[t].s)
  BY <1>2, RecIs
<1>4. th' = [th EXCEPT ![t] = [th[t] EXCEPT !.pc = p]]
  OBVIOUS
<1> QED BY <1>3, <1>4

\* The ways the actions write it.
ToMapping(t, p, s) == [th EXCEPT ![t].pc = p, ![t].s = s]
ToNext(t, p, bs, g) == [th EXCEPT ![t].todo = bs, ![t].got = g, ![t].pc = p]
ToNextFree(t, p, bs, g, s) == [th EXCEPT ![t].todo = bs, ![t].s = s, ![t].got = g, ![t].pc = p]

\* A thread moves to another label with the mapping s.
LEMMA ToPcS ==
    ASSUME Typed, NEW t \in Threads, NEW p, NEW s, th' = ToMapping(t, p, s)
    PROVE  th' = [th EXCEPT ![t] = Rec(p, th[t].op, th[t].todo, th[t].got, s)]
<1>0. th \in [Threads -> ThRec]
  BY DEF Typed, ThType
<1>1. th[t] = [pc |-> th[t].pc, op |-> th[t].op, todo |-> th[t].todo, got |-> th[t].got, s |-> th[t].s]
  BY TypeFacts, ThreadFields
<1>2. [th[t] EXCEPT !.pc = p, !.s = s] \in [pc : {p}, op : {th[t].op}, todo : {th[t].todo}, got : {th[t].got}, s : {s}]
  BY <1>1
<1>3. [th[t] EXCEPT !.pc = p, !.s = s] = Rec(p, th[t].op, th[t].todo, th[t].got, s)
  BY <1>2, RecIs
<1>4. th' = [th EXCEPT ![t] = [th[t] EXCEPT !.pc = p, !.s = s]]
  BY <1>0 DEF ToMapping
<1> QED BY <1>3, <1>4

\* A thread moves on to the next buffer of its packet.
LEMMA ToAll ==
    ASSUME Typed, NEW t \in Threads, NEW p, NEW s, NEW bs, NEW g,
           \/ th' = ToNext(t, p, bs, g) /\ s = th[t].s
           \/ th' = ToNextFree(t, p, bs, g, s)
    PROVE  th' = [th EXCEPT ![t] = Rec(p, th[t].op, bs, g, s)]
<1>0. th \in [Threads -> ThRec]
  BY DEF Typed, ThType
<1>1. th[t] = [pc |-> th[t].pc, op |-> th[t].op, todo |-> th[t].todo, got |-> th[t].got, s |-> th[t].s]
  BY TypeFacts, ThreadFields
<1>2. CASE th' = ToNext(t, p, bs, g) /\ s = th[t].s
  <2>1. [th[t] EXCEPT !.todo = bs, !.got = g, !.pc = p] \in [pc : {p}, op : {th[t].op}, todo : {bs}, got : {g}, s : {s}]
    BY <1>1, <1>2
  <2>2. [th[t] EXCEPT !.todo = bs, !.got = g, !.pc = p] = Rec(p, th[t].op, bs, g, s)
    BY <2>1, RecIs
  <2>3. th' = [th EXCEPT ![t] = [th[t] EXCEPT !.todo = bs, !.got = g, !.pc = p]]
    BY <1>0, <1>2 DEF ToNext
  <2> QED BY <2>2, <2>3
<1>3. CASE th' = ToNextFree(t, p, bs, g, s)
  <2>1. [th[t] EXCEPT !.todo = bs, !.s = s, !.got = g, !.pc = p] \in [pc : {p}, op : {th[t].op}, todo : {bs}, got : {g}, s : {s}]
    BY <1>1
  <2>2. [th[t] EXCEPT !.todo = bs, !.s = s, !.got = g, !.pc = p] = Rec(p, th[t].op, bs, g, s)
    BY <2>1, RecIs
  <2>3. th' = [th EXCEPT ![t] = [th[t] EXCEPT !.todo = bs, !.s = s, !.got = g, !.pc = p]]
    BY <1>0, <1>3 DEF ToNextFree
  <2> QED BY <2>2, <2>3
<1> QED BY <1>2, <1>3

\* Threads are at work only while the session is open.
LEMMA Open ==
    ASSUME Inv, NEW t \in Threads, th[t].pc # "idle"
    PROVE  phase = "open"
  BY DEF Inv, PhaseInv, Idle

\* The counts follow the thread t, that goes on to the mapping s.
Follows(t, s) ==
    \A x \in DOMAIN smem : /\ smem'[x].ref >= smem[x].ref
                           /\ smem'[x].ref - smem[x].ref = (IF x = s THEN 1 ELSE 0) - Taken(th[t], x)

\* A thread with a packet goes on to p and to the mapping s.
LEMMA Advance ==
    ASSUME Inv, NEW t \in Threads, NEW p \in {"persist", "frames", "undo", "valid", "use"},
           NEW s \in 0..Len(smem),
           th[t].pc \in {"find", "persist", "frames", "inc", "valid"},
           th' = [th EXCEPT ![t] = Rec(p, th[t].op, th[t].todo, th[t].got, s)],
           RefsOnly, RestType', UNCHANGED <<cached, persist, frames, wncc, table, phase>>,
           s # 0 <=> p \in {"valid", "use"},
           s # 0 => s \in Shared /\ smem[s].buf = Head(th[t].todo),
           Follows(t, s)
    PROVE  Inv'
<1>1. Typed /\ th[t] \in ThRec
  BY TypeFacts DEF Inv
<1> DEFINE r == Rec(p, th[t].op, th[t].todo, th[t].got, s)
<1>2. r.pc = p /\ r.op = th[t].op /\ r.todo = th[t].todo /\ r.got = th[t].got /\ r.s = s
  BY RecFields
<1>3. th[t].op \in Packets \cup Lasting \cup {"none"} /\ th[t].todo \in Seq(Bufs) /\ th[t].got \in Seq(EntryRec)
  BY <1>1, ThreadFields
<1>4. r \in ThRec
  BY <1>3 DEF ThRec, Rec, Pcs
<1> HIDE DEF r
<1>5. Shape(th[t]) /\ EntriesOK(th[t].got) /\ Calling(th[t])
  BY DEF Inv, ShapeInv, GotInv, CallInv
<1>6. Shape(r)
  BY <1>2, <1>5 DEF Shape, Having, Packets, Lasting
<1>7. Hand(r)
  BY <1>2 DEF Hand, Having
<1>8. EntriesOK(r.got) /\ Calling(r)
  BY <1>2, <1>5 DEF Calling
<1>9. Only(t, r)
  BY <1>2 DEF Only, Inv, ExclInv
<1>10. phase = "open"
  BY Open
<1>11. th' = [th EXCEPT ![t] = r]
  BY DEF r
<1>12. ASSUME NEW x \in DOMAIN smem
       PROVE  smem'[x].ref >= smem[x].ref /\ smem'[x].ref - smem[x].ref = Held(r, x) - Held(th[t], x)
  <2>1. Cardinality(Owners(th[t].got, x)) \in Nat
    <3> DEFINE E == EntryRec
    <3> HIDE DEF E
    <3>1. th[t].got \in Seq(E)
      BY <1>3 DEF E
    <3> QED BY <3>1, OwnersFinite
  <2>2. x # 0
    BY <1>1, TypeFacts
  <2>3. Taken(r, x) = IF x = s THEN 1 ELSE 0
    BY <1>2, <2>2 DEF Taken
  <2>4. smem'[x].ref >= smem[x].ref
        /\ smem'[x].ref - smem[x].ref = (IF x = s THEN 1 ELSE 0) - Taken(th[t], x)
    BY DEF Follows
  <2> QED BY <1>2, <2>1, <2>3, <2>4 DEF Held, Taken
<1> QED BY <1>2, <1>4, <1>6, <1>7, <1>8, <1>9, <1>10, <1>11, <1>12, Moves

\* The mapping s is found, and a reference on it taken.
LEMMA Finds ==
    ASSUME Inv, NEW t \in Threads, NEW s \in Shared, smem[s].buf = Wants(t),
           th[t].pc \in {"find", "persist", "frames"}, Found(t, s),
           smem' = [smem EXCEPT ![s].ref = @ + 1],
           UNCHANGED <<cached, cap, persist, frames, wncc, table, watermark, smem_count, work,
                       phase, ops>>,
           dmaref' \in [Bufs -> Int], extra' \in [Bufs -> Nat]
    PROVE  Inv'
<1>1. Typed
  BY DEF Inv
<1>2. s \in DOMAIN smem /\ s \in 0..Len(smem) /\ s # 0
  BY <1>1, TypeFacts DEF Shared, Tracked
<1>3. smem[s].ref \in Nat
  BY <1>1, <1>2, TypeFacts DEF MapRec
<1>4. RefsOnly /\ \A x \in DOMAIN smem : smem'[x].ref = smem[x].ref + (IF x = s THEN 1 ELSE 0)
  BY <1>1, <1>2, RefsOnlyPlus, Zenon
<1>5. RestType'
  BY <1>1, <1>4, RestSame DEF RefsOnly, Typed, RestType
<1>6. th' = [th EXCEPT ![t] = Rec("valid", th[t].op, th[t].todo, th[t].got, s)]
  <2>1. th' = ToMapping(t, "valid", s)
    BY DEF Found, ToMapping
  <2> QED BY <1>1, <2>1, ToPcS
<1>7. \A x \in DOMAIN smem : smem[x].ref \in Nat
  BY <1>1, TypeFacts DEF MapRec
<1>8. Follows(t, s)
  BY <1>4, <1>7 DEF Follows, Taken
<1> QED BY <1>2, <1>4, <1>5, <1>6, <1>8, Advance DEF Wants

\* The search goes on.
LEMMA Seeks ==
    ASSUME Inv, NEW t \in Threads, NEW p \in {"persist", "frames", "undo"},
           th[t].pc \in {"find", "persist", "frames"}, th' = [th EXCEPT ![t].pc = p],
           UNCHANGED <<smem, cached, cap, persist, frames, wncc, table, watermark, smem_count,
                       work, phase, ops>>,
           dmaref' \in [Bufs -> Int], extra' = extra
    PROVE  Inv'
<1>1. Typed
  BY DEF Inv
<1>2. RefsOnly
  BY <1>1, RefsOnlySame
<1>3. RestType'
  BY <1>1, <1>2, RestSame DEF RefsOnly, Typed, RestType
<1>4. th[t].s = 0
  BY DEF Inv, ShapeInv, Shape, Having
<1>5. th' = [th EXCEPT ![t] = Rec(p, th[t].op, th[t].todo, th[t].got, 0)]
  BY <1>1, <1>4, ToPc
<1>6. \A x \in DOMAIN smem : smem[x].ref \in Nat /\ x # 0
  BY <1>1, TypeFacts DEF MapRec
<1>7. Follows(t, 0)
  BY <1>6 DEF Follows, Taken
<1>8. 0 \in 0..Len(smem)
  BY <1>1, TypeFacts
<1>9. p \notin {"valid", "use"} /\ p \in {"persist", "frames", "undo", "valid", "use"}
  OBVIOUS
<1>10. th[t].pc \in {"find", "persist", "frames", "inc", "valid"}
  OBVIOUS
<1> QED BY <1>2, <1>3, <1>5, <1>7, <1>8, <1>9, <1>10, Advance

\* The buffer a thread looks for is one of the client's.
LEMMA WantsBuf ==
    ASSUME Inv, NEW t \in Threads, th[t].pc \in {"find", "persist", "frames"} \cup Having
    PROVE  Wants(t) \in Bufs /\ Wants(t) = th[t].todo[1] /\ th[t].todo # <<>>
<1>1. th[t].todo \in Seq(Bufs)
  BY TypeFacts, ThreadFields DEF Inv
<1>2. th[t].todo # <<>>
  BY DEF Inv, ShapeInv, Shape
<1> QED BY <1>1, <1>2 DEF Wants

\* The type of dmaref after a reference to a dma_buf is taken.
LEMMA GetType ==
    ASSUME Inv, NEW b \in Bufs, NEW n \in Int
    PROVE  Get(b, n) \in [Bufs -> Int]
  BY DEF Inv, Typed, RestType, Get

\* msm_cvp_session_find_smem looks through the cache.
LEMMA FindCachedStep ==
    ASSUME Inv, NEW t \in Threads, FindCached(t)
    PROVE  Inv'
<1> DEFINE hit == {s \in cached : smem[s].buf = Wants(t)}
<1>1. th[t].pc = "find" /\ UNCHANGED <<cached, cap, persist, frames, wncc, table, extra, watermark, smem_count, work, phase, ops>>
  BY DEF FindCached
<1>2. Wants(t) \in Bufs
  BY <1>1, WantsBuf
<1>3. Get(Wants(t), 1) \in [Bufs -> Int] /\ dmaref \in [Bufs -> Int] /\ extra \in [Bufs -> Nat]
  BY <1>2, GetType DEF Inv, Typed, RestType
<1>4. CASE hit # {} /\ smem' = [smem EXCEPT ![Min(hit)].ref = @ + 1] /\ Found(t, Min(hit)) /\ UNCHANGED dmaref
  <2>1. hit \subseteq Nat
    BY TypeFacts DEF Inv, Typed, RestType
  <2>2. Min(hit) \in hit
    <3> HIDE DEF hit
    <3> QED BY <1>4, <2>1, MinIn
  <2>3. Min(hit) \in Shared /\ smem[Min(hit)].buf = Wants(t)
    BY <2>2 DEF Inv, CacheInv
  <2> HIDE DEF hit
  <2> QED BY <1>1, <1>3, <1>4, <2>3, Finds
<1>5. CASE dmaref' = Get(Wants(t), 1) /\ th' = [th EXCEPT ![t].pc = "persist"] /\ UNCHANGED smem
  BY <1>1, <1>3, <1>5, Seeks
<1> QED BY <1>4, <1>5 DEF FindCached

\* The type of extra after a reference to a dma_buf is left behind.
LEMMA ExtraType ==
    ASSUME Inv, NEW b \in Bufs
    PROVE  [extra EXCEPT ![b] = @ + 1] \in [Bufs -> Nat]
  BY DEF Inv, Typed, RestType

\* ... through the list of persistent buffers,
LEMMA FindPersistStep ==
    ASSUME Inv, NEW t \in Threads, FindPersist(t)
    PROVE  Inv'
<1> DEFINE hit == Mapped(Wants(t), {"user", "params", "feature"})
<1>1. th[t].pc = "persist"
      /\ UNCHANGED <<cached, cap, persist, frames, wncc, table, dmaref, watermark, smem_count, work, phase, ops>>
  BY DEF FindPersist
<1>2. Wants(t) \in Bufs
  BY <1>1, WantsBuf
<1>3. dmaref \in [Bufs -> Int] /\ extra \in [Bufs -> Nat]
  BY DEF Inv, Typed, RestType
<1>4. CASE hit # {} /\ ListHit(t, persist[Min(hit)].s)
  <2>1. Min(hit) \in DOMAIN persist /\ persist[Min(hit)].buf = Wants(t)
    BY <1>2, <1>4, MappedAre
  <2> HIDE DEF hit
  <2>2. persist[Min(hit)].s \in Shared /\ smem[persist[Min(hit)].s].buf = Wants(t)
    BY <2>1 DEF Inv, PersistInv
  <2>3. extra' \in [Bufs -> Nat]
    BY <1>2, <1>4, ExtraType DEF ListHit
  <2> QED BY <1>1, <1>3, <1>4, <2>2, <2>3, Finds DEF ListHit
<1>5. CASE th' = [th EXCEPT ![t].pc = "frames"] /\ UNCHANGED <<smem, extra>>
  BY <1>1, <1>3, <1>5, Seeks
<1> QED BY <1>4, <1>5 DEF FindPersist

\* What is found in the list of frames.
LEMMA InFramesAre ==
    ASSUME Inv, NEW b, NEW s \in InFrames(b)
    PROVE  s \in Shared /\ smem[s].buf = b
<1>1. PICK i \in DOMAIN frames : \E e \in Range(frames[i]) : e.s = s /\ e.own /\ smem[e.s].buf = b
  BY DEF InFrames
<1>2. PICK k \in DOMAIN frames[i] : frames[i][k].s = s /\ smem[s].buf = b
  BY <1>1 DEF Range
<1> QED BY <1>2 DEF Inv, FrameInv, EntriesOK, EntryOK

\* ... and through the frames in flight.
LEMMA FindFrameOldStep ==
    ASSUME Inv, NEW t \in Threads, th[t].pc = "frames",
           \/ InFrames(Wants(t)) # {} /\ ListHit(t, Min(InFrames(Wants(t)))) /\ UNCHANGED <<dmaref, smem_count>>
           \/ dmaref' = Get(Wants(t), -1) /\ th' = [th EXCEPT ![t].pc = "undo"] /\ UNCHANGED <<smem, extra, smem_count>>,
           UNCHANGED <<cached, cap, persist, frames, wncc, table, watermark, work, phase, ops>>
    PROVE  Inv'
<1>2. Wants(t) \in Bufs
  BY WantsBuf
<1>3. dmaref \in [Bufs -> Int] /\ extra \in [Bufs -> Nat]
  BY DEF Inv, Typed, RestType
<1> DEFINE hit == InFrames(Wants(t))
<1>4. CASE hit # {} /\ ListHit(t, Min(hit)) /\ UNCHANGED <<dmaref, smem_count>>
  <2>1. \A s \in hit : s \in Shared /\ smem[s].buf = Wants(t)
    BY InFramesAre
  <2> HIDE DEF hit
  <2>2. hit \subseteq Nat
    BY <2>1, TypeFacts DEF Inv, Shared, Tracked
  <2>3. Min(hit) \in hit
    BY <1>4, <2>2, MinIn
  <2>4. extra' \in [Bufs -> Nat]
    BY <1>2, <1>4, ExtraType DEF ListHit
  <2> QED BY <1>3, <1>4, <2>1, <2>3, <2>4, Finds DEF ListHit
<1>5. CASE dmaref' = Get(Wants(t), -1) /\ th' = [th EXCEPT ![t].pc = "undo"] /\ UNCHANGED <<smem, extra, smem_count>>
  <2>1. dmaref' \in [Bufs -> Int]
    BY <1>2, <1>5, GetType
  <2> QED BY <1>5, <2>1, Seeks
<1> QED BY <1>4, <1>5

\* The mapping a thread has in its hands.
LEMMA HandIs ==
    ASSUME Inv, NEW t \in Threads, th[t].pc \in Having
    PROVE  /\ th[t].s \in DOMAIN smem /\ th[t].s \in Tracked /\ th[t].s # 0 /\ th[t].s \in 0..Len(smem)
           /\ smem[th[t].s].buf = Wants(t)
           /\ th[t].pc \in {"inc", "valid", "use"} => th[t].s \in Shared
<1>1. Hand(th[t])
  BY DEF Inv, HandInv
<1>2. th[t].s \in Tracked
  BY <1>1 DEF Hand, Having, Live, Tracked, Shared
<1> QED BY <1>1, <1>2, TypeFacts DEF Hand, Inv, Tracked, Wants

\* The first reference is taken, after the window.
LEMMA FirstRefStep ==
    ASSUME Inv, NEW t \in Threads, FirstRef(t)
    PROVE  Inv'
<1> DEFINE s == th[t].s
<1>1. th[t].pc = "inc" /\ smem' = [smem EXCEPT ![s].ref = @ + 1] /\ th' = [th EXCEPT ![t].pc = "use"]
      /\ watermark' = watermark + 1 /\ work' = (work \/ watermark' > Threshold)
      /\ UNCHANGED <<cached, cap, persist, frames, wncc, table, dmaref, extra, smem_count, phase, ops>>
  BY DEF FirstRef
<1>2. Typed
  BY DEF Inv
<1>3. s \in DOMAIN smem /\ s \in Shared /\ s # 0 /\ s \in 0..Len(smem) /\ smem[s].buf = Head(th[t].todo)
  BY <1>1, HandIs DEF Having, Wants
<1> HIDE DEF s
<1>4. \A x \in DOMAIN smem : smem[x].ref \in Nat
  BY <1>2, TypeFacts DEF MapRec
<1>5. RefsOnly /\ \A x \in DOMAIN smem : smem'[x].ref = smem[x].ref + (IF x = s THEN 1 ELSE 0)
  BY <1>1, <1>2, <1>3, RefsOnlyPlus, Zenon
<1>6. RestType'
  BY <1>1, <1>2, <1>5 DEF RefsOnly, Typed, RestType
<1>7. th' = [th EXCEPT ![t] = Rec("use", th[t].op, th[t].todo, th[t].got, s)]
  BY <1>1, <1>2, ToPc DEF s
<1>8. Follows(t, s)
  BY <1>1, <1>4, <1>5 DEF Follows, Taken
<1> QED BY <1>1, <1>3, <1>5, <1>6, <1>7, <1>8, Advance

\* IS_CVP_BUF_VALID: the mapping is large enough.
LEMMA CheckGoodStep ==
    ASSUME Inv, NEW t \in Threads, th[t].pc = "valid", th' = [th EXCEPT ![t].pc = "use"],
           UNCHANGED <<smem, cached, cap, persist, frames, wncc, table, dmaref, extra, watermark,
                       smem_count, work, phase, ops>>
    PROVE  Inv'
<1> DEFINE s == th[t].s
<1>2. Typed
  BY DEF Inv
<1>3. s \in DOMAIN smem /\ s \in Shared /\ s # 0 /\ s \in 0..Len(smem) /\ smem[s].buf = Head(th[t].todo)
  BY HandIs DEF Having, Wants
<1>4. \A x \in DOMAIN smem : smem[x].ref \in Nat
  BY <1>2, TypeFacts DEF MapRec
<1>5. RefsOnly
  BY <1>2, RefsOnlySame
<1>6. RestType'
  BY <1>2, RestSame DEF Typed, RestType
<1>7. th' = [th EXCEPT ![t] = Rec("use", th[t].op, th[t].todo, th[t].got, s)]
  BY <1>2, ToPc
<1>8. Follows(t, s)
  BY <1>4 DEF Follows, Taken
<1> HIDE DEF s
<1> QED BY <1>3, <1>5, <1>6, <1>7, <1>8, Advance

\* A buffer of a frame is stored in it.
LEMMA Stores ==
    ASSUME Inv, NEW t \in Threads, NEW p \in {"find", "list", "undo"}, NEW e \in EntryRec,
           EntryOK(e),
           th[t].pc \in {"find", "use"}, th[t].op \in {"frame", "config"},
           th' = [th EXCEPT ![t] = Rec(p, th[t].op, Tail(th[t].todo), Append(th[t].got, e), 0)],
           th[t].pc = "find" => ~e.own, th[t].pc = "use" => e.own /\ e.s = th[t].s,
           p = "find" => Tail(th[t].todo) # <<>>,
           UNCHANGED <<smem, cached, cap, persist, frames, wncc, table, dmaref, extra, watermark,
                       smem_count, work, phase, ops>>
    PROVE  Inv'
<1>1. Typed /\ th[t] \in ThRec
  BY TypeFacts DEF Inv
<1> DEFINE r == Rec(p, th[t].op, Tail(th[t].todo), Append(th[t].got, e), 0)
<1>2. r.pc = p /\ r.op = th[t].op /\ r.todo = Tail(th[t].todo) /\ r.got = Append(th[t].got, e) /\ r.s = 0
  BY DEF Rec
<1>3. th[t].todo \in Seq(Bufs) /\ th[t].got \in Seq(EntryRec) /\ 0 \in 0..Len(smem)
  BY <1>1, ThreadFields, TypeFacts
<1>4. th[t].todo # <<>>
  BY DEF Inv, ShapeInv, Shape, Having
<1>5. Tail(th[t].todo) \in Seq(Bufs)
  BY <1>3, <1>4
<1>6. Append(th[t].got, e) \in Seq(EntryRec)
  <2> DEFINE E == EntryRec
             g == th[t].got
  <2> HIDE DEF E, g
  <2>1. g \in Seq(E) /\ e \in E
    BY <1>3 DEF E, g
  <2>2. Append(g, e) \in Seq(E)
    BY <2>1
  <2> QED BY <2>2 DEF E, g
<1>7. r \in ThRec
  BY <1>3, <1>5, <1>6 DEF ThRec, Rec, Pcs, Packets
<1> HIDE DEF r
<1>8. Shape(r)
  BY <1>2 DEF Shape, Having, Packets, Lasting
<1>9. Hand(r)
  BY <1>2 DEF Hand, Having
<1>10. EntriesOK(r.got)
  <2>1. EntriesOK(th[t].got)
    BY DEF Inv, GotInv
  <2>2. \A k \in DOMAIN Append(th[t].got, e) : Append(th[t].got, e)[k] = e \/ (k \in DOMAIN th[t].got /\ Append(th[t].got, e)[k] = th[t].got[k])
    <3> DEFINE E == EntryRec
               g == th[t].got
    <3> HIDE DEF E, g
    <3>1. g \in Seq(E) /\ e \in E
      BY <1>3 DEF E, g
    <3>2. \A k \in DOMAIN Append(g, e) : Append(g, e)[k] = e \/ (k \in DOMAIN g /\ Append(g, e)[k] = g[k])
      BY <3>1, AppendFun
    <3> QED BY <3>2 DEF g
  <2> QED BY <1>2, <2>1, <2>2 DEF EntriesOK
<1>11. Calling(r) /\ Only(t, r)
  BY <1>2 DEF Calling, Only, Lasting
<1>12. phase = "open"
  BY Open
<1>13. th' = [th EXCEPT ![t] = r]
  BY DEF r
<1>14. \A x \in DOMAIN smem : smem[x].ref \in Nat /\ x # 0
  BY <1>1, TypeFacts DEF MapRec
<1>15. ASSUME NEW x \in DOMAIN smem
       PROVE  smem'[x].ref >= smem[x].ref /\ smem'[x].ref - smem[x].ref = Held(r, x) - Held(th[t], x)
  <2>1. /\ Cardinality(Owners(Append(th[t].got, e), x)) = Cardinality(Owners(th[t].got, x)) + IF e.s = x /\ e.own THEN 1 ELSE 0
        /\ Cardinality(Owners(th[t].got, x)) \in Nat
    <3> DEFINE E == EntryRec
               g == th[t].got
    <3> HIDE DEF E, g
    <3>1. g \in Seq(E) /\ e \in E
      BY <1>3 DEF E, g
    <3>2. /\ Cardinality(Owners(Append(g, e), x)) = Cardinality(Owners(g, x)) + IF e.s = x /\ e.own THEN 1 ELSE 0
          /\ Cardinality(Owners(g, x)) \in Nat
      BY <3>1, OwnersAppend, OwnersFinite
    <3> QED BY <3>2 DEF g
  <2>2. Taken(r, x) = 0
    BY <1>2, <1>14 DEF Taken
  <2>3. Taken(th[t], x) = IF e.s = x /\ e.own THEN 1 ELSE 0
    BY DEF Taken
  <2> QED BY <1>2, <1>14, <2>1, <2>2, <2>3 DEF Held
<1>16. RefsOnly
  BY <1>1, RefsOnlySame
<1>17. RestType'
  BY <1>1, RestSame DEF Typed, RestType
<1> QED BY <1>2, <1>7, <1>8, <1>9, <1>10, <1>11, <1>12, <1>13, <1>15, <1>16, <1>17, Moves

\* A frame uses the address of a persistent buffer, without a reference.
LEMMA BorrowStep ==
    ASSUME Inv, NEW t \in Threads, Borrow(t)
    PROVE  Inv'
<1> DEFINE todo == Tail(th[t].todo)
           i == Min(Mapped(Wants(t), {"user", "params", "feature"}))
           e == [s |-> persist[i].s, own |-> FALSE]
           p == IF todo = <<>> THEN "list" ELSE "find"
<1>1. th[t].pc = "find" /\ th[t].op = "config" /\ Mapped(Wants(t), {"user", "params", "feature"}) # {}
      /\ th' = [th EXCEPT ![t].todo = todo, ![t].got = Append(@, e), ![t].pc = p]
      /\ UNCHANGED <<smem, cached, cap, persist, frames, wncc, table, dmaref, extra, watermark, smem_count, work, phase, ops>>
  BY DEF Borrow, FirstMapped
<1>2. Wants(t) \in Bufs
  BY <1>1, WantsBuf
<1>3. i \in DOMAIN persist /\ persist[i].buf = Wants(t)
  BY <1>1, <1>2, MappedAre
<1> HIDE DEF i
<1>4. persist[i].s \in Shared /\ smem[persist[i].s].buf = Wants(t) /\ persist[i].s \in Persisting
  BY <1>3 DEF Inv, PersistInv, Persisting
<1>5. e \in EntryRec /\ e.s = persist[i].s /\ ~e.own
  BY <1>4 DEF EntryRec, Shared, Tracked
<1> HIDE DEF e
<1>6. EntryOK(e)
  BY <1>2, <1>4, <1>5 DEF EntryOK
<1>7. Typed /\ th[t].s = 0
  BY <1>1 DEF Inv, ShapeInv, Shape, Having
<1>8. p \in {"list", "find"} /\ (p = "find" => todo # <<>>)
  OBVIOUS
<1> HIDE DEF p, todo
<1>9. th' = [th EXCEPT ![t].todo = todo, ![t].got = Append(th[t].got, e), ![t].pc = p]
  <2>1. th \in [Threads -> ThRec]
    BY <1>7 DEF Typed, ThType
  <2>2. th[t] = [pc |-> th[t].pc, op |-> th[t].op, todo |-> th[t].todo, got |-> th[t].got, s |-> th[t].s]
    BY <1>7, TypeFacts, ThreadFields
  <2> QED BY <1>1, <2>1, <2>2
<1>10. th' = [th EXCEPT ![t] = Rec(p, th[t].op, todo, Append(th[t].got, e), 0)]
  <2>1. th' = ToNext(t, p, todo, Append(th[t].got, e))
    BY <1>9 DEF ToNext
  <2> QED BY <1>7, <2>1, ToAll
<1> QED BY <1>1, <1>5, <1>6, <1>8, <1>10, Stores DEF todo

\* The mapping becomes an entry of the frame being put together.
LEMMA UseFrameStep ==
    ASSUME Inv, NEW t \in Threads, UseSmem(t), th[t].op # "params"
    PROVE  Inv'
<1> DEFINE todo == Tail(th[t].todo)
           s == th[t].s
           e == [s |-> s, own |-> TRUE]
           p == CASE s \notin Live -> "undo"
                  [] s \in Live /\ todo = <<>> -> "list"
                  [] s \in Live /\ todo # <<>> -> "find"
<1>1. th[t].pc = "use" /\ th' = [th EXCEPT ![t].todo = todo, ![t].s = 0, ![t].got = Append(@, e), ![t].pc = p]
      /\ UNCHANGED <<smem, cached, cap, persist, frames, wncc, table, dmaref, extra, watermark, smem_count, work, phase, ops>>
  BY DEF UseSmem
<1>2. Wants(t) \in Bufs
  BY <1>1, WantsBuf DEF Having
<1>3. s \in Shared /\ s \in DOMAIN smem /\ smem[s].buf = Wants(t)
  BY <1>1, HandIs DEF Having
<1>4. e \in EntryRec /\ e.s = s /\ e.own
  BY <1>3 DEF EntryRec
<1> HIDE DEF e
<1>5. EntryOK(e)
  BY <1>2, <1>3, <1>4 DEF EntryOK
<1>6. Typed /\ th[t].op \in {"frame", "config"}
  BY <1>1 DEF Inv, ShapeInv, Shape, Packets
<1>7. p \in {"undo", "list", "find"} /\ (p = "find" => todo # <<>>)
  OBVIOUS
<1> HIDE DEF p, todo
<1>8. th' = [th EXCEPT ![t].todo = todo, ![t].s = 0, ![t].got = Append(th[t].got, e), ![t].pc = p]
  <2>1. th \in [Threads -> ThRec]
    BY <1>6 DEF Typed, ThType
  <2>2. th[t] = [pc |-> th[t].pc, op |-> th[t].op, todo |-> th[t].todo, got |-> th[t].got, s |-> th[t].s]
    BY <1>6, TypeFacts, ThreadFields
  <2> QED BY <1>1, <2>1, <2>2
<1>9. th' = [th EXCEPT ![t] = Rec(p, th[t].op, todo, Append(th[t].got, e), 0)]
  <2>1. th' = ToNextFree(t, p, todo, Append(th[t].got, e), 0)
    BY <1>8 DEF ToNextFree
  <2> QED BY <1>6, <2>1, ToAll
<1> QED BY <1>1, <1>4, <1>5, <1>6, <1>7, <1>9, Stores DEF todo

\* An idle thread has nothing, and all is right with it.
LEMMA IdleFields ==
    /\ Idle \in ThRec => Shape(Idle) /\ Hand(Idle) /\ EntriesOK(Idle.got) /\ Calling(Idle)
    /\ Idle.pc = "idle" /\ Idle.got = <<>> /\ Idle.s = 0 /\ Idle.op = "none"
    /\ Typed => Idle \in ThRec
    /\ \A x : Owners(Idle.got, x) = {} /\ Cardinality(Owners(Idle.got, x)) = 0
    /\ \A x : Taken(Idle, x) = 0 /\ Held(Idle, x) = 0
<1>1. Idle.pc = "idle" /\ Idle.got = <<>> /\ Idle.s = 0 /\ Idle.op = "none"
  BY DEF Idle
<1>2. Shape(Idle) /\ Hand(Idle) /\ EntriesOK(Idle.got) /\ Calling(Idle)
  BY <1>1 DEF Shape, Hand, EntriesOK, Calling, Having, Lasting
<1>3. ASSUME Typed PROVE Idle \in ThRec
  <2>1. 0 \in 0..Len(smem) /\ <<>> \in Seq(EntryRec) /\ <<>> \in Seq(Bufs)
    BY <1>3, TypeFacts
  <2> QED BY <2>1 DEF ThRec, Idle, Pcs
<1>4. \A x : Owners(Idle.got, x) = {}
  BY <1>1 DEF Owners
<1>5. \A x : Cardinality(Owners(Idle.got, x)) = 0
  BY <1>4, FS_EmptySet
<1>6. \A x : Taken(Idle, x) = 0
  BY <1>1 DEF Taken
<1> QED BY <1>1, <1>2, <1>3, <1>4, <1>5, <1>6 DEF Held

\* A call ends without effect.
LEMMA Returns ==
    ASSUME Inv, NEW t \in Threads, th[t].pc \in {"alloc", "table"}, Finish(t),
           UNCHANGED <<smem, cached, cap, persist, frames, wncc, table, dmaref, extra, watermark,
                       smem_count, work, phase, ops>>
    PROVE  Inv'
<1>1. Typed
  BY DEF Inv
<1>2. Idle \in ThRec /\ Shape(Idle) /\ Hand(Idle) /\ EntriesOK(Idle.got) /\ Calling(Idle) /\ Only(t, Idle)
      /\ Idle.pc \notin {"add", "insert"}
  BY <1>1, IdleFields DEF Only, Lasting
<1>3. RefsOnly /\ RestType' /\ phase = "open"
  BY <1>1, RefsOnlySame, RestSame, Open DEF Typed, RestType
<1>4. th[t].got = <<>> /\ th[t].pc \notin {"valid", "use"}
  BY DEF Inv, ShapeInv, Shape, Lasting
<1>5. \A x : Held(th[t], x) = 0
  BY <1>4, IdleFields DEF Held, Taken
<1>6. \A x \in DOMAIN smem : smem'[x].ref >= smem[x].ref /\ smem'[x].ref - smem[x].ref = Held(Idle, x) - Held(th[t], x)
  <2>1. \A x \in DOMAIN smem : smem[x].ref \in Nat
    BY <1>1, TypeFacts DEF MapRec
  <2> QED BY <2>1, <1>5, IdleFields
<1> QED BY <1>2, <1>3, <1>6, Moves DEF Finish

-----------------------------------------------------------------------------
\* Steps that take no mapping away.

\* What is there stays, and a mapping that was lost in the window stays so.
Keeps ==
    \A x \in DOMAIN smem : /\ x \in DOMAIN smem' /\ smem'[x].buf = smem[x].buf
                           /\ smem'[x].st = smem[x].st
                           /\ smem'[x].lost = "window" <=> smem[x].lost = "window"

\* At most the thread t does something, and goes on to r.
Others(t, r) == \A u \in Threads : th'[u] = th[u] \/ (u = t /\ th'[u] = r)

\* An entry of a frame stays good when mappings are only added.
LEMMA EntryKept ==
    ASSUME Keeps, Shared \subseteq Shared', Persisting \subseteq Persisting', NEW e, EntryOK(e)
    PROVE  EntryOK(e)'
<1>1. e.s \in Shared /\ smem[e.s].buf \in Bufs /\ (~e.own => e.s \in Persisting)
  BY DEF EntryOK
<1>2. e.s \in DOMAIN smem
  BY <1>1 DEF Shared, Tracked
<1>3. smem'[e.s].buf \in Bufs
  BY <1>1, <1>2 DEF Keeps
<1> QED BY <1>1, <1>3 DEF EntryOK

\* So does the mapping in a thread's hands.
LEMMA HandKept ==
    ASSUME Keeps, Shared \subseteq Shared', Sources' \cap DOMAIN smem \subseteq Sources,
           cached \subseteq cached', NEW v, Hand(v)
    PROVE  Hand(v)'
<1>1. v.pc \in Having => v.s \in DOMAIN smem
  BY DEF Hand, Having, Shared, Tracked, Live
<1>2. v.pc \in Having => smem'[v.s].buf = Head(v.todo)
  BY <1>1 DEF Hand, Keeps
<1>3. v.pc \in {"add", "insert"} => v.s \in Live' /\ v.s \notin Sources'
  BY <1>1 DEF Hand, Keeps, Live, Having
<1>4. v.pc \in {"inc", "valid", "use"} => v.s \in Shared'
  BY DEF Hand
<1>5. v.pc = "inc" => v.s \in cached' \/ smem'[v.s].lost = "window"
  BY <1>1 DEF Hand, Keeps, Having
<1> QED BY <1>2, <1>3, <1>4, <1>5 DEF Hand

\* A step that frees nothing, from the parts it has to establish.
LEMMA Grow ==
    ASSUME Inv, NEW t, NEW r, phase = "open", phase' = "open", Typed',
           Others(t, r),
           Keeps, Shared \subseteq Shared', Sources' \cap DOMAIN smem \subseteq Sources,
           cached \subseteq cached', Persisting \subseteq Persisting',
           Shape(r), Hand(r)', EntriesOK(r.got),
           r.pc \in {"add", "insert"} =>
             \A u \in Threads : u # t /\ th[u].pc \in {"add", "insert"} => th[u].s # r.s,
           FrameInv', CallInv', ExclInv', CacheInv', PersistInv', WnccInv', RefInv', HomeInv'
    PROVE  Inv'
<1> USE DEF Inv, Others
<1>1. ShapeInv'
  BY DEF ShapeInv
<1>2. HandInv'
  <2>1. \A v : Hand(v) => Hand(v)'
    BY HandKept
  <2>2. \A u \in Threads : Hand(th[u])
    BY DEF HandInv
  <2>3. \A v : Hand(v) \/ v = r => Hand(v)'
    BY <2>1
  <2>4. \A u \in Threads : Hand(th'[u]) \/ th'[u] = r
    BY <2>2
  <2> QED BY <2>3, <2>4 DEF HandInv
<1>3. AloneInv'
  BY DEF AloneInv
<1>4. GotInv'
  <2>1. \A e : EntryOK(e) => EntryOK(e)'
    BY EntryKept
  <2>2. \A g : EntriesOK(g) => EntriesOK(g)'
    BY <2>1 DEF EntriesOK
  <2>3. \A u \in Threads : EntriesOK(th'[u].got)
    BY DEF GotInv
  <2> QED BY <2>2, <2>3 DEF GotInv
<1>5. PhaseInv'
  BY DEF PhaseInv, Counting
<1> QED BY <1>1, <1>2, <1>3, <1>4, <1>5

\* The invariants of what does not change.
LEMMA FramesKept ==
    ASSUME Inv, Keeps, Shared \subseteq Shared', Persisting \subseteq Persisting', frames' = frames
    PROVE  FrameInv'
<1>1. \A e : EntryOK(e) => EntryOK(e)'
  BY EntryKept
<1> QED BY <1>1 DEF Inv, FrameInv, EntriesOK

\* The cache is left alone.
LEMMA CacheKept ==
    ASSUME Inv, Keeps, Shared \subseteq Shared', cached' = cached,
           \A x \in DOMAIN smem' : x \notin DOMAIN smem => smem'[x].lost # "window"
    PROVE  CacheInv'
<1>1. cached \subseteq Live /\ cached \subseteq Shared /\ \A s \in cached : smem[s].buf \in Bufs
  BY DEF Inv, CacheInv
<1>2. cached \subseteq DOMAIN smem
  BY <1>1 DEF Live
<1>3. cached' \subseteq Live' \cap Shared'
  BY <1>1, <1>2 DEF Keeps, Live
<1>4. \A s \in cached' : smem'[s].buf \in Bufs
  BY <1>1, <1>2 DEF Keeps
<1>5. \A s \in DOMAIN smem' : smem'[s].lost = "window" => smem'[s].st = "freed"
  BY DEF Keeps, Inv, CacheInv
<1> QED BY <1>3, <1>4, <1>5 DEF CacheInv

\* One entry of the list of persistent buffers.
PersistOK(p) ==
    /\ p.s \in Shared
    /\ smem[p.s].buf = p.buf
    /\ p.kind = "arp" <=> p.buf = Nobody
    /\ p.kind # "params" => p.s \in Live /\ p.s \notin cached

\* PersistInv, entry by entry.
LEMMA PersistOKs ==
    PersistInv <=> /\ \A i \in DOMAIN persist : PersistOK(persist[i])
                   /\ \A i, j \in DOMAIN persist : persist[i].buf = persist[j].buf => i = j
  BY DEF PersistInv, PersistOK

\* An entry of the list stays good when mappings are only added.
LEMMA PersistOKKept ==
    ASSUME Keeps, Shared \subseteq Shared', cached' \cap Shared \subseteq cached, NEW p,
           PersistOK(p)
    PROVE  PersistOK(p)'
<1>1. p.s \in DOMAIN smem /\ p.s \in Shared
  BY DEF PersistOK, Shared, Tracked
<1> QED BY <1>1 DEF PersistOK, Keeps, Live

\* The list of persistent buffers is left alone.
LEMMA PersistKept ==
    ASSUME Inv, Keeps, Shared \subseteq Shared', cached' \cap Shared \subseteq cached,
           persist' = persist
    PROVE  PersistInv'
<1>1. \A i \in DOMAIN persist : PersistOK(persist[i])
  BY PersistOKs DEF Inv
<1>2. \A p : PersistOK(p) => PersistOK(p)'
  BY PersistOKKept
<1>3. \A i \in DOMAIN persist' : PersistOK(persist'[i])
  BY <1>1
<1>4. \A i, j \in DOMAIN persist' : persist'[i].buf = persist'[j].buf => i = j
  BY DEF Inv, PersistInv
<1>5. (\A i \in DOMAIN persist : PersistOK(persist[i]))'
  BY <1>2, <1>3
<1> QED BY <1>4, <1>5 DEF PersistInv, PersistOK

\* The WNCC sources are left alone.
LEMMA WnccKept ==
    ASSUME Inv, Keeps, wncc' = wncc, table' = table
    PROVE  WnccInv'
  BY DEF Inv, WnccInv, Keeps, Live

\* The calls of the others, when nothing is listed that they are about.
LEMMA CallsKept ==
    ASSUME Inv, NEW t, NEW r, Others(t, r),
           \A i \in DOMAIN persist' : (\E j \in DOMAIN persist : persist'[i].buf = persist[j].buf)
                                      \/ \A u \in Threads : th'[u].op \in Lasting => th'[u].todo[1] # persist'[i].buf,
           \A i \in DOMAIN wncc' : (\E j \in DOMAIN wncc : wncc'[i].buf = wncc[j].buf)
                                   \/ \A u \in Threads : th'[u].op \in Lasting => th'[u].todo[1] # wncc'[i].buf,
           \/ r.op \notin Lasting
           \/ t \in Threads /\ th[t].op = r.op /\ th[t].todo = r.todo
    PROVE  CallInv' /\ ExclInv'
<1>1. \A u \in Threads : th'[u].op \in Lasting => th'[u].op = th[u].op /\ th'[u].todo = th[u].todo
  BY DEF Others
<1>2. \A u \in Threads : Calling(th[u])
  BY DEF Inv, CallInv
<1>3. ASSUME NEW u \in Threads, th'[u].op \in {"user", "params", "feature"}, NEW i \in DOMAIN persist'
      PROVE  persist'[i].buf # th'[u].todo[1]
  BY <1>1, <1>2, <1>3 DEF Calling, Lasting
<1>4. ASSUME NEW u \in Threads, th'[u].op = "wncc", NEW i \in DOMAIN wncc'
      PROVE  wncc'[i].buf # th'[u].todo[1]
  BY <1>1, <1>2, <1>4 DEF Calling, Lasting
<1>5. CallInv'
  BY <1>3, <1>4 DEF CallInv, Calling
<1>6. ExclInv'
  BY <1>1 DEF Inv, ExclInv
<1> QED BY <1>5, <1>6

\* No call begins or ends.
LEMMA SameCalls ==
    ASSUME Inv, NEW t, NEW r, Others(t, r),
           persist' = persist, wncc' = wncc,
           \/ r.op \notin Lasting
           \/ t \in Threads /\ th[t].op = r.op /\ th[t].todo = r.todo
    PROVE  CallInv' /\ ExclInv'
  BY CallsKept

\* A step that changes counts only frees nothing.
LEMMA RefsKeep ==
    ASSUME RefsOnly PROVE Keeps
  BY DEF RefsOnly, Keeps

\* A persistent buffer is sent again.
LEMMA MapUserHitStep ==
    ASSUME Inv, NEW b \in Bufs, phase = "open", NEW i \in DOMAIN persist,
           smem' = [smem EXCEPT ![persist[i].s].ref = @ + 1],
           persist' = [persist EXCEPT ![i].hits = @ + 1], ops' = ops + 1,
           UNCHANGED <<th, cached, cap, frames, wncc, table, dmaref, extra, watermark, smem_count,
                       work, phase>>
    PROVE  Inv'
<1> DEFINE s == persist[i].s
<1>1. Typed
  BY DEF Inv
<1>2. s \in DOMAIN smem /\ \A j \in DOMAIN persist : persist[j] \in PersistRec
  BY <1>1, TypeFacts DEF PersistRec
<1>3. RefsOnly /\ \A x \in DOMAIN smem : smem'[x].ref = smem[x].ref + (IF x = s THEN 1 ELSE 0)
  BY <1>1, <1>2, RefsOnlyPlus, Zenon
<1>4. Keeps
  BY <1>3, RefsKeep
<1>5. New' = New
  BY DEF New
<1>6. Live' = Live /\ Tracked' = Tracked /\ Sources' = Sources /\ Shared' = Shared
  BY <1>3, <1>5, SameSets
<1>7. DOMAIN smem' = DOMAIN smem /\ Len(smem') = Len(smem)
      /\ EntryRec' = EntryRec /\ PersistRec' = PersistRec /\ WnccRec' = WnccRec /\ ThRec' = ThRec
  BY <1>3, SameRecs DEF RefsOnly
<1>8. /\ DOMAIN persist' = DOMAIN persist
      /\ \A j \in DOMAIN persist : /\ j # i => persist'[j] = persist[j]
                                   /\ persist'[j].s = persist[j].s /\ persist'[j].buf = persist[j].buf
                                   /\ persist'[j].kind = persist[j].kind
                                   /\ persist'[j] \in PersistRec
      /\ persist'[i].hits = persist[i].hits + 1 /\ persist[i].hits \in Nat
  <2>1. DOMAIN persist' = DOMAIN persist /\ \A j \in DOMAIN persist : j # i => persist'[j] = persist[j]
    OBVIOUS
  <2>2. persist'[i] = [persist[i] EXCEPT !.hits = @ + 1]
    OBVIOUS
  <2>3. persist[i] \in PersistRec
    BY <1>2
  <2>4. /\ persist'[i].s = persist[i].s /\ persist'[i].buf = persist[i].buf
        /\ persist'[i].kind = persist[i].kind /\ persist'[i] \in PersistRec
        /\ persist'[i].hits = persist[i].hits + 1 /\ persist[i].hits \in Nat
    BY <2>2, <2>3 DEF PersistRec
  <2> QED BY <1>2, <2>1, <2>4
<1>9. Persisting' = Persisting
  BY <1>8 DEF Persisting
<1>10. persist' \in Seq(PersistRec)
  <2> DEFINE P == PersistRec
             g == persist'
  <2>1. persist \in Seq(P)
    BY <1>1 DEF Typed, ListType
  <2>2. g \in [DOMAIN persist -> P]
    BY <1>8
  <2> HIDE DEF P, g
  <2>3. g \in Seq(P)
    BY <2>1, <2>2, SeqOver
  <2> QED BY <2>3 DEF P, g
<1>11. Typed'
  <2>1. SmemType'
    BY <1>1, <1>3, <1>7 DEF RefsOnly, SmemType, Typed, MapRec
  <2>2. ListType'
    BY <1>1, <1>7, <1>10 DEF ListType, Typed
  <2>3. ThType'
    BY <1>1, <1>7 DEF ThType, Typed
  <2>4. RestType'
    BY <1>1, <1>7, RestSame DEF Typed, RestType
  <2> QED BY <2>1, <2>2, <2>3, <2>4 DEF Typed
<1>12. FrameInv' /\ CacheInv' /\ WnccInv'
  BY <1>4, <1>6, <1>7, <1>9, FramesKept, CacheKept, WnccKept
<1>13. PersistInv'
  <2>1. \A j \in DOMAIN persist : PersistOK(persist[j])
    BY PersistOKs DEF Inv
  <2>2. \A j \in DOMAIN persist' : PersistOK(persist'[j])
    BY <2>1, <1>8 DEF PersistOK
  <2>3. \A p : PersistOK(p) => PersistOK(p)'
    BY <1>4, <1>6, PersistOKKept
  <2>4. (\A j \in DOMAIN persist : PersistOK(persist[j]))'
    BY <2>2, <2>3
  <2>5. \A j, k \in DOMAIN persist' : persist'[j].buf = persist'[k].buf => j = k
    BY <1>8 DEF Inv, PersistInv
  <2> QED BY <2>4, <2>5 DEF PersistInv, PersistOK
<1>14. CallInv' /\ ExclInv'
  <2>1. Others(Nobody, Idle)
    BY DEF Others
  <2>2. \A j \in DOMAIN persist' : \E k \in DOMAIN persist : persist'[j].buf = persist[k].buf
    BY <1>8
  <2>3. Idle.op \notin Lasting
    BY DEF Idle, Lasting
  <2> QED BY <2>1, <2>2, <2>3, CallsKept
<1>15. RefInv'
  <2> SUFFICES ASSUME NEW x \in Tracked PROVE smem'[x].ref = Count(x)'
    BY <1>6 DEF RefInv
  <2>1. smem[x].ref = Count(x) /\ x \in DOMAIN smem
    BY DEF Inv, RefInv, Counting, Tracked
  <2>2. Cardinality(PersistRefs(persist', x)) = Cardinality(PersistRefs(persist, x)) + (IF x = s THEN 1 ELSE 0)
    <3> DEFINE P == PersistRec
               c == persist'
    <3>1. persist \in Seq(P) /\ \A k \in DOMAIN persist : persist[k].hits \in Nat
      BY <1>1, <1>2 DEF Typed, ListType, PersistRec
    <3>2. DOMAIN c = DOMAIN persist /\ c[i].hits \in Nat /\ \A j \in DOMAIN persist \ {i} : c[j] = persist[j]
      BY <1>8
    <3> HIDE DEF P, c
    <3>3. Cardinality(PersistRefs(c, x)) = Cardinality(PersistRefs(persist, x)) - Kept(persist[i], x) + Kept(c[i], x)
      BY <3>1, <3>2, PersistChange
    <3>4. Cardinality(PersistRefs(persist, x)) \in Nat
      BY <1>1, CountNat
    <3>5. Kept(c[i], x) = Kept(persist[i], x) + (IF x = s THEN 1 ELSE 0) /\ Kept(persist[i], x) \in Nat
      <4>1. c[i].s = persist[i].s /\ c[i].hits = persist[i].hits + 1 /\ persist[i].hits \in Nat
        BY <1>8 DEF c
      <4> QED BY <4>1 DEF Kept
    <3> QED BY <3>3, <3>4, <3>5 DEF c
  <2>3. Cardinality(FrameRefs(frames, x)) \in Nat /\ Cardinality(ThreadRefs(th, x)) \in Nat
        /\ Cardinality(PersistRefs(persist, x)) \in Nat
    BY <1>1, CountNat
  <2>4. Count(x)' = Count(x) + (IF x = s THEN 1 ELSE 0)
    BY <2>2, <2>3 DEF Count
  <2> HIDE DEF s
  <2> QED BY <2>1, <2>4, <1>3
<1>16. HomeInv'
  <2>1. \A x \in Live : smem'[x].ref >= smem[x].ref /\ smem'[x].lost = smem[x].lost
        /\ smem'[x].ref \in Nat /\ smem[x].ref \in Nat
    <3>1. \A x \in DOMAIN smem : smem[x].ref \in Nat
      BY <1>1, TypeFacts DEF MapRec
    <3> HIDE DEF s
    <3> QED BY <3>1, <1>3 DEF RefsOnly, Live
  <2> QED BY <2>1, <1>5, <1>6 DEF Inv, HomeInv, Counting
<1>17. Idle.pc = "idle" /\ Shape(Idle) /\ Hand(Idle)' /\ EntriesOK(Idle.got)
  BY DEF Idle, Shape, Hand, EntriesOK, Having, Lasting
<1> HIDE DEF s
<1>18. Others(Nobody, Idle)
  BY DEF Others
<1>19. Shared \subseteq Shared' /\ Sources' \cap DOMAIN smem \subseteq Sources /\ cached \subseteq cached' /\ Persisting \subseteq Persisting'
  BY <1>6, <1>9
<1> QED BY <1>4, <1>11, <1>12, <1>13, <1>14, <1>15, <1>16, <1>17, <1>18, <1>19, Grow

\* A mapping is made.
LEMMA SeqSub ==
    ASSUME NEW S, NEW T, S \subseteq T, NEW f \in Seq(S)
    PROVE  f \in Seq(T)
<1>1. Len(f) \in Nat /\ f \in [1..Len(f) -> S]
  OBVIOUS
<1>2. f \in [1..Len(f) -> T]
  BY <1>1
<1> QED BY <1>1, <1>2, FunSeq

\* A mapping is made.
LEMMA SmemGrow ==
    ASSUME Typed, NEW m \in MapRec, m.st = "live", m.lost = "no", Room, smem' = Append(smem, m)
    PROVE  /\ Fresh \notin DOMAIN smem /\ Fresh # 0 /\ Fresh \in Nat
           /\ DOMAIN smem' = DOMAIN smem \cup {Fresh} /\ Len(smem') = Fresh /\ Fresh \in DOMAIN smem'
           /\ smem'[Fresh] = m /\ \A x \in DOMAIN smem : smem'[x] = smem[x]
           /\ SmemType' /\ Keeps
           /\ Live' = Live \cup {Fresh} /\ Tracked' = Tracked \cup {Fresh}
<1>1. smem \in Seq(MapRec) /\ Len(smem) \in Nat /\ Len(smem) < MaxSmem
  BY TypeFacts DEF Typed, SmemType, Room
<1>2. /\ smem' \in Seq(MapRec) /\ Len(smem') = Fresh /\ DOMAIN smem' = DOMAIN smem \cup {Fresh}
      /\ Fresh \notin DOMAIN smem /\ smem'[Fresh] = m
      /\ \A x \in DOMAIN smem : smem'[x] = smem[x]
  <2> DEFINE M == MapRec
  <2> HIDE DEF M
  <2>1. smem \in Seq(M) /\ m \in M
    BY <1>1 DEF M
  <2>2. /\ Append(smem, m) \in Seq(M) /\ Len(Append(smem, m)) = Len(smem) + 1
        /\ DOMAIN Append(smem, m) = DOMAIN smem \cup {Len(smem) + 1}
        /\ Len(smem) + 1 \notin DOMAIN smem
        /\ Append(smem, m)[Len(smem) + 1] = m
        /\ \A i \in DOMAIN smem : Append(smem, m)[i] = smem[i]
    BY <2>1, AppendFun
  <2> QED BY <2>2 DEF M, Fresh
<1>3. Fresh # 0 /\ Fresh \in Nat /\ Fresh <= MaxSmem
  BY <1>1, Consts DEF Fresh
<1>4. SmemType'
  BY <1>2, <1>3 DEF SmemType, MapRec
<1>5. Keeps
  BY <1>2 DEF Keeps
<1>6. Live' = Live \cup {Fresh} /\ Tracked' = Tracked \cup {Fresh}
  BY <1>2 DEF Live, Tracked
<1> QED BY <1>2, <1>3, <1>4, <1>5, <1>6

\* The types when a mapping is made.
LEMMA TypesGrow ==
    ASSUME Typed, DOMAIN smem' = DOMAIN smem \cup {Fresh}, Len(smem') = Fresh
    PROVE  /\ EntryRec \subseteq EntryRec' /\ PersistRec \subseteq PersistRec' /\ WnccRec \subseteq WnccRec'
           /\ ThRec \subseteq ThRec'
           /\ persist \in Seq(PersistRec)' /\ frames \in Seq(Seq(EntryRec))' /\ wncc \in Seq(WnccRec)'
           /\ table \in [1..Slots -> 0..Len(smem')]
           /\ \A g \in Seq(EntryRec) : g \in Seq(EntryRec)'
<1>1. EntryRec \subseteq EntryRec' /\ PersistRec \subseteq PersistRec' /\ WnccRec \subseteq WnccRec'
  BY DEF EntryRec, PersistRec, WnccRec
<1>2. persist \in Seq(PersistRec) /\ frames \in Seq(Seq(EntryRec)) /\ wncc \in Seq(WnccRec)
  BY DEF Typed, ListType
<1> DEFINE E == EntryRec
           F == EntryRec'
<1>3. E \subseteq F /\ frames \in Seq(Seq(E))
  BY <1>1, <1>2
<1> HIDE DEF E, F
<1>4. \A g \in Seq(E) : g \in Seq(F)
  BY <1>3, SeqSub
<1>5. frames \in Seq(Seq(F))
  <2>1. Seq(E) \subseteq Seq(F)
    BY <1>4
  <2> DEFINE G == Seq(E)
             H == Seq(F)
  <2> HIDE DEF G, H
  <2>2. G \subseteq H /\ frames \in Seq(G)
    BY <2>1, <1>3 DEF G, H
  <2>3. frames \in Seq(H)
    BY <2>2, SeqSub
  <2> QED BY <2>3 DEF H
<1>6. persist \in Seq(PersistRec)'
  <2> DEFINE G == PersistRec
             H == PersistRec'
  <2>1. G \subseteq H /\ persist \in Seq(G)
    BY <1>1, <1>2
  <2> HIDE DEF G, H
  <2>2. persist \in Seq(H)
    BY <2>1, SeqSub
  <2> QED BY <2>2 DEF H
<1>7. wncc \in Seq(WnccRec)'
  <2> DEFINE G == WnccRec
             H == WnccRec'
  <2>1. G \subseteq H /\ wncc \in Seq(G)
    BY <1>1, <1>2
  <2> HIDE DEF G, H
  <2>2. wncc \in Seq(H)
    BY <2>1, SeqSub
  <2> QED BY <2>2 DEF H
<1>8. 0..Len(smem) \subseteq 0..Len(smem') /\ Len(smem) \in Nat
  BY TypeFacts DEF Fresh
<1>9. ThRec \subseteq ThRec'
  <2> SUFFICES ASSUME NEW r \in ThRec PROVE r \in ThRec'
    OBVIOUS
  <2>1. /\ r.pc \in Pcs /\ r.op \in Packets \cup Lasting \cup {"none"} /\ r.todo \in Seq(Bufs)
        /\ r.got \in Seq(EntryRec) /\ r.s \in 0..Len(smem)
        /\ r = [pc |-> r.pc, op |-> r.op, todo |-> r.todo, got |-> r.got, s |-> r.s]
    BY ThreadFields
  <2>2. r.got \in Seq(EntryRec)'
    BY <2>1, <1>4 DEF E, F
  <2>3. r.s \in 0..Len(smem')
    BY <2>1, <1>8
  <2> QED BY <2>1, <2>2, <2>3 DEF ThRec
<1>10. table \in [1..Slots -> 0..Len(smem')]
  BY <1>8 DEF Typed, RestType
<1> QED BY <1>1, <1>4, <1>5, <1>6, <1>7, <1>9, <1>10 DEF E, F

\* Nobody knows a mapping before it is made.
LEMMA FreshUnknown ==
    ASSUME Typed
    PROVE  /\ Fresh \notin Persisting /\ Fresh \notin Sources /\ Fresh \notin New
           /\ \A t \in Threads : th[t].s # Fresh
           /\ Count(Fresh) = 0 /\ Fresh \notin cached
<1>1. Fresh \notin 0..Len(smem) /\ Fresh \notin DOMAIN smem
  BY TypeFacts DEF Fresh
<1>2. \A t \in Threads : th[t].s # Fresh /\ th[t].got \in Seq(EntryRec)
  BY <1>1, TypeFacts, ThreadFields
<1>3. \A i \in DOMAIN persist : persist[i].s # Fresh
  BY <1>1, TypeFacts DEF PersistRec
<1>4. \A i \in DOMAIN wncc : wncc[i].s # Fresh
  BY <1>1, TypeFacts DEF WnccRec
<1>5. \A i \in DOMAIN frames : Owners(frames[i], Fresh) = {}
  BY <1>1, TypeFacts DEF Owners, EntryRec
<1>6. \A t \in Threads : Owners(th[t].got, Fresh) = {} /\ Taken(th[t], Fresh) = 0
  BY <1>1, <1>2, TypeFacts DEF Owners, EntryRec, Taken
<1>7. Count(Fresh) = 0
  <2> DEFINE f == Fresh
  <2> HIDE DEF f
  <2>1. /\ \A i \in DOMAIN persist : persist[i].s # f
        /\ \A i \in DOMAIN frames : Owners(frames[i], f) = {}
        /\ \A t \in Threads : Owners(th[t].got, f) = {} /\ Taken(th[t], f) = 0
    BY <1>3, <1>5, <1>6 DEF f
  <2>2. Cardinality(FrameRefs(frames, f)) = 0 /\ Cardinality(ThreadRefs(th, f)) = 0
        /\ Cardinality(PersistRefs(persist, f)) = 0
    BY <2>1, CountNat
  <2>3. Count(f) = 0
    BY <2>2 DEF Count
  <2> QED BY <2>3 DEF f
<1>8. Fresh \notin cached
  BY <1>1 DEF Typed, RestType
<1> QED BY <1>2, <1>3, <1>4, <1>7, <1>8 DEF Persisting, Sources, New

\* The thread t is done.
LEMMA EndCount ==
    ASSUME Typed, NEW t \in Threads, Finish(t), NEW x
    PROVE  /\ Cardinality(ThreadRefs(th', x)) = Cardinality(ThreadRefs(th, x)) - Held(th[t], x)
           /\ Held(th[t], x) <= Cardinality(ThreadRefs(th, x)) /\ Held(th[t], x) \in Nat
           /\ \A u \in Threads : th'[u] = IF u = t THEN Idle ELSE th[u]
           /\ th' \in [Threads -> ThRec]
<1>1. th \in [Threads -> ThRec] /\ Idle \in ThRec /\ th' = [th EXCEPT ![t] = Idle]
  BY IdleFields DEF Typed, ThType, Finish
<1>2. \A u \in Threads : th'[u] = IF u = t THEN Idle ELSE th[u]
  BY <1>1
<1>3. th' \in [Threads -> ThRec]
  BY <1>1
<1>4. Idle.got \in Seq(EntryRec)
  BY <1>1, ThreadFields
<1>5. /\ Cardinality(ThreadRefs(th', x)) = Cardinality(ThreadRefs(th, x))
           - (Cardinality(Owners(th[t].got, x)) + Taken(th[t], x))
           + (Cardinality(Owners(Idle.got, x)) + Taken(Idle, x))
      /\ Cardinality(Owners(th[t].got, x)) + Taken(th[t], x) <= Cardinality(ThreadRefs(th, x))
      /\ Cardinality(Owners(th[t].got, x)) \in Nat /\ Cardinality(ThreadRefs(th, x)) \in Nat
  BY <1>2, <1>4, ThreadCount
<1>6. Cardinality(Owners(Idle.got, x)) = 0 /\ Taken(Idle, x) = 0
  BY IdleFields
<1> QED BY <1>2, <1>3, <1>5, <1>6 DEF Held, Taken

\* A call about a lasting buffer holds no reference yet.
LEMMA LastingHeld ==
    ASSUME Inv, NEW t \in Threads, th[t].pc \in {"alloc", "table"}, NEW x
    PROVE  Held(th[t], x) = 0
<1>1. th[t].got = <<>> /\ th[t].pc \notin {"valid", "use"}
  BY DEF Inv, ShapeInv, Shape, Lasting
<1> QED BY <1>1, IdleFields DEF Held, Taken

\* A new mapping goes into the list of persistent buffers.
LEMMA NewPersist ==
    ASSUME Inv, NEW t, NEW b \in Bufs \cup {Nobody}, NEW k \in {"user", "feature", "arp"},
           k = "arp" <=> b = Nobody, phase = "open", Room,
           NEW e, e = [buf |-> b, s |-> Fresh, kind |-> k, hits |-> 0],
           smem' = Append(smem, Mapping(b, 1)), persist' = Append(persist, e),
           Others(t, Idle), th' \in [Threads -> ThRec],
           \A x : Cardinality(ThreadRefs(th', x)) = Cardinality(ThreadRefs(th, x)), New' = New,
           \A i \in DOMAIN persist : persist[i].buf # b,
           \A u \in Threads : th'[u].op \in Lasting => th'[u].todo[1] # b,
           dmaref' \in [Bufs -> Int], smem_count' \in Int,
           UNCHANGED <<cached, cap, frames, wncc, table, extra, watermark, work, phase, ops>>
    PROVE  Inv'
<1> DEFINE m == Mapping(b, 1)
<1>1. Typed
  BY DEF Inv
<1>2. m \in MapRec /\ m.st = "live" /\ m.lost = "no" /\ m.ref = 1 /\ m.buf = b
  BY DEF Mapping, MapRec
<1>3. e.buf = b /\ e.s = Fresh /\ e.kind = k /\ e.hits = 0
  OBVIOUS
<1> HIDE DEF m
<1>4. /\ Fresh \notin DOMAIN smem /\ Fresh # 0 /\ Fresh \in Nat
      /\ DOMAIN smem' = DOMAIN smem \cup {Fresh} /\ Len(smem') = Fresh /\ Fresh \in DOMAIN smem'
      /\ smem'[Fresh] = m /\ \A x \in DOMAIN smem : smem'[x] = smem[x]
      /\ SmemType' /\ Keeps
      /\ Live' = Live \cup {Fresh} /\ Tracked' = Tracked \cup {Fresh}
  <2>1. smem' = Append(smem, m)
    BY DEF m
  <2> QED BY <1>1, <1>2, <2>1, SmemGrow
<1>5. /\ PersistRec \subseteq PersistRec' /\ ThRec \subseteq ThRec'
      /\ persist \in Seq(PersistRec)' /\ frames \in Seq(Seq(EntryRec))' /\ wncc \in Seq(WnccRec)'
      /\ table \in [1..Slots -> 0..Len(smem')]
  BY <1>1, <1>4, TypesGrow
<1>6. e \in PersistRec'
  BY <1>4 DEF PersistRec, Kinds
<1>7. /\ persist' \in Seq(PersistRec)' /\ DOMAIN persist' = DOMAIN persist \cup {Len(persist) + 1}
      /\ persist'[Len(persist) + 1] = e /\ \A i \in DOMAIN persist : persist'[i] = persist[i]
  <2> DEFINE P == PersistRec'
  <2>1. persist \in Seq(P) /\ e \in P
    BY <1>5, <1>6
  <2>2. persist' = Append(persist, e)
    OBVIOUS
  <2> HIDE DEF P
  <2>3. /\ persist' \in Seq(P) /\ DOMAIN persist' = DOMAIN persist \cup {Len(persist) + 1}
        /\ persist'[Len(persist) + 1] = e /\ \A i \in DOMAIN persist : persist'[i] = persist[i]
    BY <2>1, <2>2, AppendFun
  <2> QED BY <2>3 DEF P
<1>8. Typed'
  <2>1. ListType'
    BY <1>5, <1>7 DEF ListType
  <2>2. ThType'
    BY <1>5 DEF ThType
  <2>3. RestType'
    BY <1>1, <1>4, <1>5 DEF RestType, Typed
  <2> QED BY <1>4, <2>1, <2>2, <2>3 DEF Typed
<1>9. Sources' = Sources
  BY DEF Sources
<1>10. /\ Fresh \notin Persisting /\ Fresh \notin Sources /\ Fresh \notin New
       /\ Count(Fresh) = 0 /\ Fresh \notin cached
  BY <1>1, FreshUnknown
<1>11. Shared' = Shared \cup {Fresh}
  BY <1>4, <1>9, <1>10 DEF Shared
<1>12. Persisting \subseteq Persisting'
  BY <1>7 DEF Persisting
<1>13. FrameInv' /\ CacheInv' /\ WnccInv'
  <2>1. smem'[Fresh].lost # "window"
    BY <1>2, <1>4
  <2>2. FrameInv'
    BY <1>4, <1>11, <1>12, FramesKept
  <2>3. CacheInv'
    BY <1>4, <1>11, <2>1, CacheKept
  <2>4. WnccInv'
    BY <1>4, WnccKept
  <2> QED BY <2>2, <2>3, <2>4
<1>14. PersistInv'
  <2>1. \A i \in DOMAIN persist : PersistOK(persist[i])
    BY PersistOKs DEF Inv
  <2>2. \A p : PersistOK(p) => PersistOK(p)'
    BY <1>4, <1>11, PersistOKKept
  <2>3. PersistOK(e)'
    BY <1>2, <1>3, <1>4, <1>10, <1>11 DEF PersistOK
  <2>4. \A i \in DOMAIN persist' : PersistOK(persist'[i]) \/ persist'[i] = e
    BY <1>7, <2>1
  <2>6. \A p : PersistOK(p) \/ p = e => PersistOK(p)'
    BY <2>2, <2>3
  <2>7. (\A i \in DOMAIN persist : PersistOK(persist[i]))'
    BY <2>4, <2>6
  <2>5. \A i, j \in DOMAIN persist' : persist'[i].buf = persist'[j].buf => i = j
    BY <1>3, <1>7 DEF Inv, PersistInv
  <2> QED BY <2>5, <2>7, ZenonT(40) DEF PersistInv, PersistOK
<1>15. CallInv' /\ ExclInv'
  <2>1. Idle.op \notin Lasting
    BY DEF Idle, Lasting
  <2>2. \A i \in DOMAIN persist' : (\E j \in DOMAIN persist : persist'[i].buf = persist[j].buf)
                                   \/ \A u \in Threads : th'[u].op \in Lasting => th'[u].todo[1] # persist'[i].buf
    BY <1>3, <1>7
  <2> QED BY <2>1, <2>2, CallsKept
<1>16. \A x : Cardinality(PersistRefs(persist', x)) = Cardinality(PersistRefs(persist, x)) + (IF x = Fresh THEN 1 ELSE 0)
  <2> TAKE x
  <2>1. \A i \in DOMAIN persist : persist[i].hits \in Nat
    BY <1>1, TypeFacts DEF PersistRec
  <2>2. persist' = Append(persist, e)
    OBVIOUS
  <2> DEFINE P == PersistRec'
  <2>3. persist \in Seq(P) /\ e \in P
    BY <1>5, <1>6
  <2> HIDE DEF P
  <2>4. Cardinality(PersistRefs(Append(persist, e), x)) = Cardinality(PersistRefs(persist, x)) + Kept(e, x)
    <3>1. e.hits \in Nat
      BY <1>3
    <3> QED BY <3>1, <2>1, <2>3, PersistAppend
  <2> QED BY <1>3, <2>2, <2>4 DEF Kept
<1>17. RefInv'
  <2> SUFFICES ASSUME NEW x \in Tracked' PROVE smem'[x].ref = Count(x)'
    BY DEF RefInv
  <2>1. Cardinality(FrameRefs(frames, x)) \in Nat /\ Cardinality(ThreadRefs(th, x)) \in Nat
        /\ Cardinality(PersistRefs(persist, x)) \in Nat
    BY <1>1, CountNat
  <2>2. Count(x)' = Count(x) + (IF x = Fresh THEN 1 ELSE 0) /\ Count(x) \in Nat
    BY <1>16, <2>1 DEF Count
  <2>3. CASE x = Fresh
    BY <1>2, <1>4, <1>10, <2>2, <2>3
  <2>4. CASE x # Fresh
    <3>1. x \in Tracked /\ x \in DOMAIN smem
      BY <1>4, <2>4 DEF Tracked
    <3>2. smem[x].ref = Count(x)
      BY <3>1 DEF Inv, RefInv, Counting
    <3> QED BY <1>4, <2>2, <2>4, <3>1, <3>2
  <2> QED BY <2>3, <2>4
<1>18. HomeInv'
  <2> SUFFICES ASSUME NEW x \in Live'
               PROVE  \/ smem'[x].lost = "invalid" \/ x \in cached' \/ x \in Sources'
                      \/ x \in New' \/ smem'[x].ref > 0
    BY DEF HomeInv, Counting
  <2>1. CASE x = Fresh
    BY <2>1, <1>2, <1>4
  <2>2. CASE x # Fresh
    <3>1. x \in Live /\ smem'[x] = smem[x]
      BY <1>4, <2>2 DEF Live
    <3> QED BY <3>1, <1>9 DEF Inv, HomeInv
  <2> QED BY <2>1, <2>2
<1>19. Shape(Idle) /\ Hand(Idle)' /\ EntriesOK(Idle.got) /\ Idle.pc = "idle"
  BY DEF Idle, Shape, Hand, EntriesOK, Having, Lasting
<1>20. phase' = "open" /\ Shared \subseteq Shared' /\ Sources' \cap DOMAIN smem \subseteq Sources /\ cached \subseteq cached'
  BY <1>9, <1>11
<1> QED BY <1>4, <1>8, <1>12, <1>13, <1>14, <1>15, <1>17, <1>18, <1>19, <1>20, Grow

\* The buffer such a call is about.
LEMMA LastingBuf ==
    ASSUME Inv, NEW u \in Threads, th[u].op \in Lasting
    PROVE  th[u].todo[1] \in Bufs
<1>1. th[u].todo \in Seq(Bufs) /\ Len(th[u].todo) = 1
  BY TypeFacts, ThreadFields DEF Inv, ShapeInv, Shape
<1> QED BY <1>1

\* The end of the call about a lasting buffer.
LEMMA LastingEnds ==
    ASSUME Inv, NEW t \in Threads, th[t].pc \in {"alloc", "table"}, Finish(t)
    PROVE  /\ Others(t, Idle) /\ th' \in [Threads -> ThRec] /\ New' = New
           /\ \A x : Cardinality(ThreadRefs(th', x)) = Cardinality(ThreadRefs(th, x))
           /\ th[t].todo[1] \in Bufs /\ phase = "open"
           /\ \A u \in Threads : th'[u].op \in Lasting => th'[u].todo[1] # th[t].todo[1]
<1>1. Typed /\ th[t].op \in Lasting
  BY DEF Inv, ShapeInv, Shape, Lasting
<1>2. /\ \A u \in Threads : th'[u] = IF u = t THEN Idle ELSE th[u]
      /\ th' \in [Threads -> ThRec]
  BY <1>1, EndCount
<1>3. Idle.pc = "idle" /\ Idle.op = "none"
  BY IdleFields
<1>4. New' = New
  BY <1>2, <1>3, SameNew
<1>5. \A x : Cardinality(ThreadRefs(th', x)) = Cardinality(ThreadRefs(th, x))
  <2> TAKE x
  <2>1. Cardinality(ThreadRefs(th', x)) = Cardinality(ThreadRefs(th, x)) - Held(th[t], x)
    BY <1>1, EndCount
  <2>2. Cardinality(ThreadRefs(th, x)) \in Nat
    BY <1>1, CountNat
  <2> QED BY <2>1, <2>2, LastingHeld
<1>6. \A u \in Threads : th'[u].op \in Lasting => th'[u].todo[1] # th[t].todo[1]
  BY <1>1, <1>2, <1>3 DEF Inv, ExclInv, Lasting
<1>7. th[t].todo[1] \in Bufs /\ phase = "open"
  BY <1>1, LastingBuf, Open
<1> QED BY <1>2, <1>4, <1>5, <1>6, <1>7 DEF Others

\* The smem of a persistent buffer is allocated, mapped and listed.
LEMMA AllocPersistStep ==
    ASSUME Inv, NEW t \in Threads, AllocPersist(t)
    PROVE  Inv'
<1> DEFINE b == th[t].todo[1]
           k == th[t].op
<1>1. th[t].pc = "alloc" /\ Finish(t) /\ UNCHANGED <<cached, cap, frames, wncc, table, extra, watermark, work, phase, ops>>
  BY DEF AllocPersist
<1>2. CASE UNCHANGED <<smem, persist, dmaref, smem_count>>
  BY <1>1, <1>2, Returns
<1>3. CASE /\ Room /\ smem' = Append(smem, Mapping(b, 1))
           /\ persist' = Append(persist, [buf |-> b, s |-> Fresh, kind |-> k, hits |-> 0])
           /\ dmaref' = Get(b, 1) /\ smem_count' = smem_count + 1
  <2>1. /\ Others(t, Idle) /\ th' \in [Threads -> ThRec] /\ New' = New
        /\ \A x : Cardinality(ThreadRefs(th', x)) = Cardinality(ThreadRefs(th, x))
        /\ b \in Bufs /\ phase = "open"
        /\ \A u \in Threads : th'[u].op \in Lasting => th'[u].todo[1] # b
    BY <1>1, LastingEnds
  <2>2. k \in {"user", "feature"}
    BY <1>1 DEF Inv, ShapeInv, Shape
  <2>3. \A i \in DOMAIN persist : persist[i].buf # b
    BY <2>2 DEF Inv, CallInv, Calling
  <2>4. dmaref' \in [Bufs -> Int] /\ smem_count' \in Int
    BY <1>3, <2>1, GetType DEF Inv, Typed, RestType
  <2>5. b # Nobody
    BY <2>1, Consts
  <2>6. PICK c, o : c = b /\ o = k
    OBVIOUS
  <2>7. PICK e : e = [buf |-> c, s |-> Fresh, kind |-> o, hits |-> 0]
    OBVIOUS
  <2>8. Room /\ smem' = Append(smem, Mapping(c, 1)) /\ persist' = Append(persist, e)
    BY <1>3, <2>6, <2>7
  <2> HIDE DEF b, k
  <2>9. c \in Bufs \cup {Nobody} /\ o \in {"user", "feature", "arp"} /\ (o = "arp" <=> c = Nobody)
    BY <2>1, <2>2, <2>5, <2>6
  <2> QED BY <1>1, <2>1, <2>3, <2>4, <2>6, <2>7, <2>8, <2>9, NewPersist
<1> QED BY <1>2, <1>3 DEF AllocPersist

\* cvp_allocate_arp_bufs.
LEMMA AllocateArpStep ==
    ASSUME Inv, AllocateArp
    PROVE  Inv'
<1>1. /\ phase = "open" /\ Room /\ ~\E i \in DOMAIN persist : persist[i].kind = "arp"
      /\ smem' = Append(smem, Mapping(Nobody, 1))
      /\ persist' = Append(persist, [buf |-> Nobody, s |-> Fresh, kind |-> "arp", hits |-> 0])
      /\ UNCHANGED <<cached, cap, frames, wncc, table, dmaref, extra, watermark, smem_count, work, th, phase, ops>>
  BY DEF AllocateArp
<1>2. Others(Nobody, Idle) /\ New' = New /\ \A x : Cardinality(ThreadRefs(th', x)) = Cardinality(ThreadRefs(th, x))
  BY <1>1 DEF Others, New
<1>3. th' \in [Threads -> ThRec] /\ dmaref' \in [Bufs -> Int] /\ smem_count' \in Int
  BY <1>1 DEF Inv, Typed, ThType, RestType
<1>4. \A i \in DOMAIN persist : persist[i].buf # Nobody
  BY <1>1 DEF Inv, PersistInv
<1>5. \A u \in Threads : th'[u].op \in Lasting => th'[u].todo[1] # Nobody
  BY <1>1, LastingBuf, Consts
<1>6. PICK c, o : c = Nobody /\ o = "arp"
  OBVIOUS
<1>7. PICK e : e = [buf |-> c, s |-> Fresh, kind |-> o, hits |-> 0]
  OBVIOUS
<1>8. smem' = Append(smem, Mapping(c, 1)) /\ persist' = Append(persist, e)
  BY <1>1, <1>6, <1>7
<1>9. c \in Bufs \cup {Nobody} /\ o \in {"user", "feature", "arp"} /\ (o = "arp" <=> c = Nobody)
  BY <1>6
<1> QED BY <1>1, <1>2, <1>3, <1>4, <1>5, <1>6, <1>7, <1>8, <1>9, NewPersist

\* A new mapping becomes a source of WNCC.
LEMMA NewSource ==
    ASSUME Inv, NEW t, NEW b \in Bufs, NEW k \in 1..Slots, table[k] = 0, phase = "open", Room,
           NEW e, e = [buf |-> b, s |-> Fresh, id |-> k],
           smem' = Append(smem, Mapping(b, 0)), wncc' = Append(wncc, e),
           table' = [table EXCEPT ![k] = Fresh],
           Others(t, Idle), th' \in [Threads -> ThRec],
           \A x : Cardinality(ThreadRefs(th', x)) = Cardinality(ThreadRefs(th, x)), New' = New,
           \A i \in DOMAIN wncc : wncc[i].buf # b,
           \A u \in Threads : th'[u].op \in Lasting => th'[u].todo[1] # b,
           dmaref' \in [Bufs -> Int], smem_count' \in Int,
           UNCHANGED <<cached, cap, persist, frames, extra, watermark, work, phase, ops>>
    PROVE  Inv'
<1> DEFINE m == Mapping(b, 0)
<1>1. Typed
  BY DEF Inv
<1>2. m \in MapRec /\ m.st = "live" /\ m.lost = "no" /\ m.ref = 0 /\ m.buf = b
  BY DEF Mapping, MapRec
<1>3. e.buf = b /\ e.s = Fresh /\ e.id = k
  OBVIOUS
<1> HIDE DEF m
<1>4. /\ Fresh \notin DOMAIN smem /\ Fresh # 0 /\ Fresh \in Nat
      /\ DOMAIN smem' = DOMAIN smem \cup {Fresh} /\ Len(smem') = Fresh /\ Fresh \in DOMAIN smem'
      /\ smem'[Fresh] = m /\ \A x \in DOMAIN smem : smem'[x] = smem[x]
      /\ SmemType' /\ Keeps
      /\ Live' = Live \cup {Fresh} /\ Tracked' = Tracked \cup {Fresh}
  <2>1. smem' = Append(smem, m)
    BY DEF m
  <2> QED BY <1>1, <1>2, <2>1, SmemGrow
<1>5. /\ WnccRec \subseteq WnccRec' /\ ThRec \subseteq ThRec'
      /\ persist \in Seq(PersistRec)' /\ frames \in Seq(Seq(EntryRec))' /\ wncc \in Seq(WnccRec)'
      /\ table \in [1..Slots -> 0..Len(smem')]
  BY <1>1, <1>4, TypesGrow
<1>6. e \in WnccRec'
  BY <1>4 DEF WnccRec
<1>7. /\ wncc' \in Seq(WnccRec)' /\ DOMAIN wncc' = DOMAIN wncc \cup {Len(wncc) + 1}
      /\ wncc'[Len(wncc) + 1] = e /\ \A i \in DOMAIN wncc : wncc'[i] = wncc[i]
  <2> DEFINE P == WnccRec'
  <2>1. wncc \in Seq(P) /\ e \in P
    BY <1>5, <1>6
  <2> HIDE DEF P
  <2>3. /\ wncc' \in Seq(P) /\ DOMAIN wncc' = DOMAIN wncc \cup {Len(wncc) + 1}
        /\ wncc'[Len(wncc) + 1] = e /\ \A i \in DOMAIN wncc : wncc'[i] = wncc[i]
    BY <2>1, AppendFun
  <2> QED BY <2>3 DEF P
<1>8. /\ table' \in [1..Slots -> 0..Len(smem')]
      /\ table'[k] = Fresh /\ \A j \in 1..Slots : j # k => table'[j] = table[j]
  BY <1>4, <1>5
<1>9. Typed'
  <2>1. ListType'
    BY <1>5, <1>7 DEF ListType
  <2>2. ThType'
    BY <1>5 DEF ThType
  <2>3. RestType'
    BY <1>1, <1>4, <1>8 DEF RestType, Typed
  <2> QED BY <1>4, <2>1, <2>2, <2>3 DEF Typed
<1>10. Sources' = Sources \cup {Fresh}
  BY <1>3, <1>7 DEF Sources
<1>11. /\ Fresh \notin Persisting /\ Fresh \notin Sources /\ Fresh \notin New
       /\ Count(Fresh) = 0 /\ Fresh \notin cached
  BY <1>1, FreshUnknown
<1>12. Shared' = Shared
  BY <1>4, <1>10, <1>11 DEF Shared, Tracked
<1>13. Persisting' = Persisting
  BY DEF Persisting
<1>14. FrameInv' /\ CacheInv' /\ PersistInv'
  <2>1. smem'[Fresh].lost # "window"
    BY <1>2, <1>4
  <2>2. FrameInv'
    BY <1>4, <1>12, <1>13, FramesKept
  <2>3. CacheInv'
    BY <1>4, <1>12, <2>1, CacheKept
  <2>4. PersistInv'
    BY <1>4, <1>12, PersistKept
  <2> QED BY <2>2, <2>3, <2>4
<1>15. WnccInv'
  <2>1. ASSUME NEW i \in DOMAIN wncc
        PROVE  /\ wncc[i].s \in DOMAIN smem /\ wncc[i].s \in Live' /\ smem'[wncc[i].s].buf = wncc[i].buf
               /\ wncc[i].id \in 1..Slots /\ wncc[i].id # k /\ table'[wncc[i].id] = wncc[i].s
    <3>1. wncc[i].s \in Live /\ smem[wncc[i].s].buf = wncc[i].buf /\ table[wncc[i].id] = wncc[i].s
      BY DEF Inv, WnccInv
    <3>2. wncc[i].s \in DOMAIN smem /\ wncc[i].id \in 1..Slots
      BY <1>1, TypeFacts DEF WnccRec
    <3>3. wncc[i].s # 0
      BY <3>2, <1>1, TypeFacts
    <3> QED BY <1>4, <1>8, <3>1, <3>2, <3>3
  <2>2. ASSUME NEW i \in DOMAIN wncc'
        PROVE  /\ wncc'[i].s \in Live' /\ smem'[wncc'[i].s].buf = wncc'[i].buf
               /\ table'[wncc'[i].id] = wncc'[i].s
               /\ \A j \in DOMAIN wncc' : wncc'[i].buf = wncc'[j].buf => i = j
    <3>1. CASE i \in DOMAIN wncc
      BY <1>3, <1>7, <2>1, <3>1, SMTT(30) DEF Inv, WnccInv
    <3>2. CASE i = Len(wncc) + 1
      BY <1>2, <1>3, <1>4, <1>7, <1>8, <3>2
    <3> QED BY <1>7, <3>1, <3>2
  <2>3. ASSUME NEW j \in 1..Slots, table'[j] # 0
        PROVE  \E i \in DOMAIN wncc' : wncc'[i].id = j /\ wncc'[i].s = table'[j]
    <3>1. CASE j = k
      BY <1>3, <1>7, <1>8, <3>1
    <3>2. CASE j # k
      <4>1. PICK i \in DOMAIN wncc : wncc[i].id = j /\ wncc[i].s = table[j]
        BY <1>8, <2>3, <3>2 DEF Inv, WnccInv
      <4> QED BY <1>7, <1>8, <3>2, <4>1
    <3> QED BY <3>1, <3>2
  <2> QED BY <2>2, <2>3, ZenonT(40) DEF WnccInv
<1>16. CallInv' /\ ExclInv'
  <2>1. Idle.op \notin Lasting
    BY DEF Idle, Lasting
  <2>2. \A i \in DOMAIN wncc' : (\E j \in DOMAIN wncc : wncc'[i].buf = wncc[j].buf)
                                \/ \A u \in Threads : th'[u].op \in Lasting => th'[u].todo[1] # wncc'[i].buf
    BY <1>3, <1>7
  <2> QED BY <2>1, <2>2, CallsKept
<1>17. RefInv'
  <2> SUFFICES ASSUME NEW x \in Tracked' PROVE smem'[x].ref = Count(x)'
    BY DEF RefInv
  <2>1. Count(x)' = Count(x)
    BY DEF Count
  <2>2. CASE x = Fresh
    BY <1>2, <1>4, <1>11, <2>1, <2>2
  <2>3. CASE x # Fresh
    <3>1. x \in Tracked /\ x \in DOMAIN smem
      BY <1>4, <2>3 DEF Tracked
    <3>2. smem[x].ref = Count(x)
      BY <3>1 DEF Inv, RefInv, Counting
    <3> QED BY <1>4, <2>1, <3>1, <3>2
  <2> QED BY <2>2, <2>3
<1>18. HomeInv'
  <2> SUFFICES ASSUME NEW x \in Live'
               PROVE  \/ smem'[x].lost = "invalid" \/ x \in cached' \/ x \in Sources'
                      \/ x \in New' \/ smem'[x].ref > 0
    BY DEF HomeInv, Counting
  <2>1. CASE x = Fresh
    BY <2>1, <1>10
  <2>2. CASE x # Fresh
    <3>1. x \in Live /\ smem'[x] = smem[x]
      BY <1>4, <2>2 DEF Live
    <3> QED BY <3>1, <1>10 DEF Inv, HomeInv
  <2> QED BY <2>1, <2>2
<1>19. Shape(Idle) /\ Hand(Idle)' /\ EntriesOK(Idle.got) /\ Idle.pc = "idle"
  BY DEF Idle, Shape, Hand, EntriesOK, Having, Lasting
<1>20. /\ phase' = "open" /\ Shared \subseteq Shared' /\ Sources' \cap DOMAIN smem \subseteq Sources
       /\ cached \subseteq cached' /\ Persisting \subseteq Persisting'
  BY <1>4, <1>10, <1>12, <1>13
<1> QED BY <1>4, <1>9, <1>14, <1>15, <1>16, <1>17, <1>18, <1>19, <1>20, Grow

\* The WNCC source is mapped, listed and entered in the table.
LEMMA WnccAddStep ==
    ASSUME Inv, NEW t \in Threads, WnccAdd(t)
    PROVE  Inv'
<1> DEFINE b == th[t].todo[1]
           free == {i \in 1..Slots : table[i] = 0}
<1>1. th[t].pc = "table" /\ Finish(t) /\ UNCHANGED <<cached, cap, persist, frames, extra, watermark, work, phase, ops>>
  BY DEF WnccAdd
<1>2. CASE UNCHANGED <<smem, wncc, table, dmaref, smem_count>>
  BY <1>1, <1>2, Returns
<1>3. CASE /\ Room /\ free # {} /\ smem' = Append(smem, Mapping(b, 0))
           /\ wncc' = Append(wncc, [buf |-> b, s |-> Fresh, id |-> Min(free)])
           /\ table' = [table EXCEPT ![Min(free)] = Fresh]
           /\ dmaref' = Get(b, 1) /\ smem_count' = smem_count + 1
  <2>1. /\ Others(t, Idle) /\ th' \in [Threads -> ThRec] /\ New' = New
        /\ \A x : Cardinality(ThreadRefs(th', x)) = Cardinality(ThreadRefs(th, x))
        /\ b \in Bufs /\ phase = "open"
        /\ \A u \in Threads : th'[u].op \in Lasting => th'[u].todo[1] # b
    BY <1>1, LastingEnds
  <2>2. \A i \in DOMAIN wncc : wncc[i].buf # b
    BY <1>1 DEF Inv, CallInv, Calling, ShapeInv, Shape
  <2>3. dmaref' \in [Bufs -> Int] /\ smem_count' \in Int
    <3>1. Get(b, 1) \in [Bufs -> Int]
      BY <2>1, GetType
    <3>2. smem_count \in Int
      BY DEF Inv, Typed, RestType
    <3> QED BY <1>3, <3>1, <3>2
  <2>4. free \subseteq Nat /\ free \subseteq {i \in 1..Slots : table[i] = 0}
    BY Consts
  <2>5. Min(free) \in free
    <3> HIDE DEF free
    <3> QED BY <1>3, <2>4, MinIn
  <2>6. PICK c, k : c = b /\ k = Min(free)
    OBVIOUS
  <2>7. k \in 1..Slots /\ table[k] = 0
    BY <2>5, <2>6
  <2>8. PICK e : e = [buf |-> c, s |-> Fresh, id |-> k]
    OBVIOUS
  <2> HIDE DEF free
  <2>9. Room /\ smem' = Append(smem, Mapping(c, 0)) /\ wncc' = Append(wncc, e) /\ table' = [table EXCEPT ![k] = Fresh]
    BY <1>3, <2>6, <2>8
  <2> HIDE DEF b
  <2>10. c \in Bufs
    BY <2>1, <2>6
  <2> QED BY <1>1, <2>1, <2>2, <2>3, <2>6, <2>7, <2>8, <2>9, <2>10, NewSource
<1> QED BY <1>2, <1>3 DEF WnccAdd

\* A new mapping that only its thread knows.
LEMMA FindFrameNewStep ==
    ASSUME Inv, NEW t \in Threads, th[t].pc = "frames", NEW b, b = Wants(t), Room, InFrames(b) = {},
           smem' = Append(smem, Mapping(b, 0)), smem_count' = smem_count + 1,
           th' = ToMapping(t, "add", Fresh),
           UNCHANGED <<cached, cap, persist, frames, wncc, table, dmaref, extra, watermark, work,
                       phase, ops>>
    PROVE  Inv'
<1> DEFINE m == Mapping(b, 0)
<1>1. Typed /\ b \in Bufs /\ phase = "open" /\ b = Head(th[t].todo)
  BY WantsBuf, Open DEF Inv, Wants
<1>2. m \in MapRec /\ m.st = "live" /\ m.lost = "no" /\ m.ref = 0 /\ m.buf = b
  BY <1>1 DEF Mapping, MapRec
<1> HIDE DEF m
<1>4. /\ Fresh \notin DOMAIN smem /\ Fresh # 0 /\ Fresh \in Nat
      /\ DOMAIN smem' = DOMAIN smem \cup {Fresh} /\ Len(smem') = Fresh /\ Fresh \in DOMAIN smem'
      /\ smem'[Fresh] = m /\ \A x \in DOMAIN smem : smem'[x] = smem[x]
      /\ SmemType' /\ Keeps
      /\ Live' = Live \cup {Fresh} /\ Tracked' = Tracked \cup {Fresh}
  <2>1. smem' = Append(smem, m)
    BY DEF m
  <2> QED BY <1>1, <1>2, <2>1, SmemGrow
<1>5. /\ ThRec \subseteq ThRec' /\ \A g \in Seq(EntryRec) : g \in Seq(EntryRec)'
      /\ persist \in Seq(PersistRec)' /\ frames \in Seq(Seq(EntryRec))' /\ wncc \in Seq(WnccRec)'
      /\ table \in [1..Slots -> 0..Len(smem')]
  BY <1>1, <1>4, TypesGrow
<1>6. PICK r : r = Rec("add", th[t].op, th[t].todo, th[t].got, Fresh)
  OBVIOUS
<1>7. r.pc = "add" /\ r.op = th[t].op /\ r.todo = th[t].todo /\ r.got = th[t].got /\ r.s = Fresh
  BY <1>6 DEF Rec
<1>8. th' = [th EXCEPT ![t] = r]
  BY <1>1, <1>6, ToPcS
<1>9. /\ th[t].op \in Packets \cup Lasting \cup {"none"} /\ th[t].todo \in Seq(Bufs)
      /\ th[t].got \in Seq(EntryRec) /\ th \in [Threads -> ThRec]
  BY <1>1, TypeFacts, ThreadFields DEF Typed, ThType
<1>10. r \in ThRec'
  <2>1. th[t].got \in Seq(EntryRec)' /\ Fresh \in 0..Len(smem')
    BY <1>4, <1>5, <1>9
  <2> QED BY <2>1, <1>6, <1>9 DEF ThRec, Rec, Pcs
<1>11. \A u \in Threads : th'[u] = IF u = t THEN r ELSE th[u]
  BY <1>8, <1>9
<1>12. Others(t, r)
  BY <1>11 DEF Others
<1>13. Typed'
  <2>1. ListType'
    BY <1>5 DEF ListType
  <2>2. ThType'
    BY <1>5, <1>8, <1>9, <1>10 DEF ThType
  <2>3. RestType'
    BY <1>1, <1>4, <1>5 DEF RestType, Typed
  <2> QED BY <1>4, <2>1, <2>2, <2>3 DEF Typed
<1>14. Sources' = Sources /\ Persisting' = Persisting
  BY DEF Sources, Persisting
<1>15. /\ Fresh \notin Persisting /\ Fresh \notin Sources /\ Fresh \notin New
       /\ Count(Fresh) = 0 /\ Fresh \notin cached /\ \A u \in Threads : th[u].s # Fresh
  BY <1>1, FreshUnknown
<1>16. New' = New \cup {Fresh}
  <2>1. \A x : x \in New' <=> \E u \in Threads : th'[u].pc \in {"add", "insert"} /\ th'[u].s = x
    BY DEF New
  <2>2. \A x : x \in New <=> \E u \in Threads : th[u].pc \in {"add", "insert"} /\ th[u].s = x
    BY DEF New
  <2>3. \A x : x \in New' <=> x \in New \/ x = Fresh
    <3>1. \A u \in Threads : u # t => th'[u] = th[u]
      BY <1>11
    <3>2. th'[t].pc = "add" /\ th'[t].s = Fresh /\ th[t].pc = "frames"
      BY <1>7, <1>11
    <3> QED BY <2>1, <2>2, <3>1, <3>2
  <2> QED BY <2>3
<1>17. Shared' = Shared
  BY <1>4, <1>14, <1>16 DEF Shared, Tracked
<1>18. FrameInv' /\ CacheInv' /\ PersistInv' /\ WnccInv'
  <2>1. smem'[Fresh].lost # "window"
    BY <1>2, <1>4
  <2>2. FrameInv'
    BY <1>4, <1>14, <1>17, FramesKept
  <2>3. CacheInv'
    BY <1>4, <1>17, <2>1, CacheKept
  <2>4. PersistInv'
    BY <1>4, <1>17, PersistKept
  <2>5. WnccInv'
    BY <1>4, WnccKept
  <2> QED BY <2>2, <2>3, <2>4, <2>5
<1>19. CallInv' /\ ExclInv'
  BY <1>7, <1>12, SameCalls
<1>20. \A x : Cardinality(ThreadRefs(th', x)) = Cardinality(ThreadRefs(th, x))
  <2> TAKE x
  <2>1. r.got \in Seq(EntryRec)
    BY <1>7, <1>9
  <2>2. /\ Cardinality(ThreadRefs(th', x)) = Cardinality(ThreadRefs(th, x))
              - (Cardinality(Owners(th[t].got, x)) + Taken(th[t], x))
              + (Cardinality(Owners(r.got, x)) + Taken(r, x))
        /\ Cardinality(Owners(th[t].got, x)) \in Nat /\ Cardinality(ThreadRefs(th, x)) \in Nat
    BY <1>1, <1>11, <2>1, ThreadCount
  <2>3. Taken(th[t], x) = 0 /\ Taken(r, x) = 0
    BY <1>7 DEF Taken
  <2> QED BY <1>7, <2>2, <2>3
<1>21. RefInv'
  <2> SUFFICES ASSUME NEW x \in Tracked' PROVE smem'[x].ref = Count(x)'
    BY DEF RefInv
  <2>1. Count(x)' = Count(x)
    BY <1>20 DEF Count
  <2>2. CASE x = Fresh
    BY <1>2, <1>4, <1>15, <2>1, <2>2
  <2>3. CASE x # Fresh
    <3>1. x \in Tracked /\ x \in DOMAIN smem
      BY <1>4, <2>3 DEF Tracked
    <3>2. smem[x].ref = Count(x)
      BY <1>1, <3>1 DEF Inv, RefInv, Counting
    <3> QED BY <1>4, <2>1, <3>1, <3>2
  <2> QED BY <2>2, <2>3
<1>22. HomeInv'
  <2> SUFFICES ASSUME NEW x \in Live'
               PROVE  \/ smem'[x].lost = "invalid" \/ x \in cached' \/ x \in Sources'
                      \/ x \in New' \/ smem'[x].ref > 0
    BY <1>1 DEF HomeInv, Counting
  <2>1. CASE x = Fresh
    BY <2>1, <1>16
  <2>2. CASE x # Fresh
    <3>1. x \in Live /\ smem'[x] = smem[x]
      BY <1>4, <2>2 DEF Live
    <3> QED BY <3>1, <1>14, <1>16 DEF Inv, HomeInv
  <2> QED BY <2>1, <2>2
<1>23. Shape(r) /\ EntriesOK(r.got)
  <2>1. Shape(th[t]) /\ EntriesOK(th[t].got)
    BY DEF Inv, ShapeInv, GotInv
  <2> QED BY <2>1, <1>4, <1>7 DEF Shape, Having, Packets
<1>24. Hand(r)'
  <2>1. smem'[r.s].buf = Head(r.todo) /\ r.s \in Live' /\ r.s \notin Sources'
    BY <1>1, <1>2, <1>4, <1>7, <1>14, <1>15
  <2> QED BY <1>7, <2>1 DEF Hand
<1>25. r.pc \in {"add", "insert"} => \A u \in Threads : u # t /\ th[u].pc \in {"add", "insert"} => th[u].s # r.s
  BY <1>7, <1>15
<1>26. /\ phase' = "open" /\ Shared \subseteq Shared' /\ Sources' \cap DOMAIN smem \subseteq Sources
       /\ cached \subseteq cached' /\ Persisting \subseteq Persisting'
  BY <1>1, <1>14, <1>17
<1> QED BY <1>1, <1>4, <1>12, <1>13, <1>18, <1>19, <1>21, <1>22, <1>23, <1>24, <1>25, <1>26, Grow

-----------------------------------------------------------------------------
\* From a new mapping to one that is shared.

LEMMA SameChange ==
    ASSUME NEW c \in Nat, NEW h \in Nat, NEW k \in Nat, NEW r \in Nat, NEW d, d = c - h + k,
           r - c = k - h
    PROVE  r = d
  OBVIOUS

\* The counts, when one thread moves and the lists do not change.
LEMMA RefStep ==
    ASSUME Inv, Counting, NEW t \in Threads, NEW r, r.got \in Seq(EntryRec),
           \A u \in Threads : th'[u] = IF u = t THEN r ELSE th[u],
           frames' = frames, persist' = persist, Tracked' \subseteq Tracked,
           \A x \in DOMAIN smem : /\ smem'[x].ref \in Nat
                                  /\ smem'[x].ref - smem[x].ref = Held(r, x) - Held(th[t], x)
    PROVE  RefInv'
<1> SUFFICES ASSUME NEW s \in Tracked' PROVE smem'[s].ref = Count(s)'
  BY DEF RefInv
<1>1. smem[s].ref = Count(s) /\ s \in DOMAIN smem
  BY DEF Inv, RefInv, Tracked
<1>2. Typed
  BY DEF Inv
<1>3. /\ Cardinality(ThreadRefs(th', s)) = Cardinality(ThreadRefs(th, s)) - Held(th[t], s) + Held(r, s)
      /\ Held(r, s) \in Nat /\ Held(th[t], s) \in Nat
  <2>1. /\ Cardinality(ThreadRefs(th', s)) = Cardinality(ThreadRefs(th, s))
               - (Cardinality(Owners(th[t].got, s)) + Taken(th[t], s))
               + (Cardinality(Owners(r.got, s)) + Taken(r, s))
        /\ Cardinality(Owners(th[t].got, s)) \in Nat /\ Cardinality(Owners(r.got, s)) \in Nat
    BY <1>2, ThreadCount
  <2> QED BY <2>1 DEF Held, Taken
<1>4. Cardinality(FrameRefs(frames, s)) \in Nat /\ Cardinality(ThreadRefs(th, s)) \in Nat
      /\ Cardinality(PersistRefs(persist, s)) \in Nat
  BY <1>2, CountNat
<1>5. Count(s)' = Count(s) - Held(th[t], s) + Held(r, s) /\ Count(s) \in Nat
  BY <1>3, <1>4 DEF Count
<1>6. smem'[s].ref \in Nat /\ smem'[s].ref - smem[s].ref = Held(r, s) - Held(th[t], s)
  BY <1>1
<1>7. smem'[s].ref - Count(s) = Held(r, s) - Held(th[t], s)
  BY <1>1, <1>6
<1>8. PICK c, d, h, k, n : c = Count(s) /\ d = Count(s)' /\ h = Held(th[t], s) /\ k = Held(r, s) /\ n = smem'[s].ref
  OBVIOUS
<1>9. c \in Nat /\ h \in Nat /\ k \in Nat /\ n \in Nat /\ d = c - h + k /\ n - c = k - h
  BY <1>3, <1>5, <1>6, <1>7, <1>8
<1>10. n = d
  BY <1>9, SameChange
<1> QED BY <1>8, <1>10

\* A step of one thread on the cache and the counts.
LEMMA ThreadStep ==
    ASSUME Inv, NEW t \in Threads, NEW r \in ThRec, phase = "open", th' = [th EXCEPT ![t] = r],
           DOMAIN smem' = DOMAIN smem, Len(smem') = Len(smem), SmemType', RestType', Keeps,
           UNCHANGED <<persist, frames, wncc, table, phase>>,
           Shared \subseteq Shared', cached \subseteq cached',
           cached' \cap Shared \subseteq cached, CacheInv',
           Shape(r), Hand(r)', EntriesOK(r.got),
           r.pc \in {"add", "insert"} =>
             \A u \in Threads : u # t /\ th[u].pc \in {"add", "insert"} => th[u].s # r.s,
           r.op = th[t].op, r.todo = th[t].todo,
           \A x \in DOMAIN smem : /\ smem'[x].ref \in Nat
                                  /\ smem'[x].ref - smem[x].ref = Held(r, x) - Held(th[t], x),
           HomeInv'
    PROVE  Inv'
<1>1. Typed /\ th \in [Threads -> ThRec]
  BY DEF Inv, Typed, ThType
<1>2. \A u \in Threads : th'[u] = IF u = t THEN r ELSE th[u]
  BY <1>1
<1>3. Others(t, r)
  BY <1>2 DEF Others
<1>4. EntryRec' = EntryRec /\ PersistRec' = PersistRec /\ WnccRec' = WnccRec /\ ThRec' = ThRec
  BY SameRecs
<1>5. Typed'
  BY <1>1, <1>4 DEF Typed, ListType, ThType
<1>6. Sources' = Sources /\ Persisting' = Persisting
  BY DEF Sources, Persisting
<1>7. FrameInv' /\ PersistInv' /\ WnccInv'
  BY <1>6, FramesKept, PersistKept, WnccKept
<1>8. CallInv' /\ ExclInv'
  BY <1>3, SameCalls
<1>9. Tracked' \subseteq Tracked
  BY DEF Tracked, Keeps
<1>10. r.got \in Seq(EntryRec)
  BY ThreadFields
<1>11. RefInv'
  BY <1>2, <1>9, <1>10, RefStep DEF Counting
<1>12. phase' = "open" /\ Sources' \cap DOMAIN smem \subseteq Sources /\ Persisting \subseteq Persisting'
  BY <1>6
<1> QED BY <1>3, <1>5, <1>7, <1>8, <1>11, <1>12, Grow

\* A new mapping is known to one thread.
LEMMA InNew ==
    ASSUME NEW x
    PROVE  x \in New <=> \E u \in Threads : th[u].pc \in {"add", "insert"} /\ th[u].s = x
  BY DEF New

\* The thread t tells the others of its mapping.
LEMMA LeaveNew ==
    ASSUME Inv, NEW t \in Threads, th[t].pc \in {"add", "insert"}, NEW r,
           r.pc \notin {"add", "insert"},
           \A u \in Threads : th'[u] = IF u = t THEN r ELSE th[u]
    PROVE  New' = New \ {th[t].s} /\ th[t].s \in New
<1>1. \A x : x \in New' <=> \E u \in Threads : th'[u].pc \in {"add", "insert"} /\ th'[u].s = x
  BY DEF New
<1>2. \A x : x \in New <=> \E u \in Threads : th[u].pc \in {"add", "insert"} /\ th[u].s = x
  BY DEF New
<1>3. \A u \in Threads : u # t /\ th[u].pc \in {"add", "insert"} => th[u].s # th[t].s
  BY DEF Inv, AloneInv
<1>4. \A u \in Threads : u # t => th'[u] = th[u]
  OBVIOUS
<1>5. th'[t].pc \notin {"add", "insert"}
  OBVIOUS
<1>6. \A x : x \in New' <=> x \in New /\ x # th[t].s
  BY <1>1, <1>2, <1>3, <1>4, <1>5
<1> QED BY <1>2, <1>6

\* The same thread with another program counter.
LEMMA RecThread ==
    ASSUME Inv, NEW t \in Threads, NEW p \in Pcs, NEW s \in 0..Len(smem), NEW r,
           r = Rec(p, th[t].op, th[t].todo, th[t].got, s)
    PROVE  /\ r \in ThRec /\ r.pc = p /\ r.op = th[t].op /\ r.todo = th[t].todo /\ r.got = th[t].got /\ r.s = s
           /\ EntriesOK(r.got) /\ Shape(th[t]) /\ Hand(th[t])
           /\ \A x : Held(r, x) - Held(th[t], x) = Taken(r, x) - Taken(th[t], x)
<1>1. Typed
  BY DEF Inv
<1>2. r.pc = p /\ r.op = th[t].op /\ r.todo = th[t].todo /\ r.got = th[t].got /\ r.s = s
  BY DEF Rec
<1>3. th[t].op \in Packets \cup Lasting \cup {"none"} /\ th[t].todo \in Seq(Bufs) /\ th[t].got \in Seq(EntryRec)
  BY <1>1, TypeFacts, ThreadFields
<1>4. r \in ThRec
  BY <1>3 DEF ThRec, Rec
<1>5. EntriesOK(th[t].got) /\ Shape(th[t]) /\ Hand(th[t])
  BY DEF Inv, GotInv, ShapeInv, HandInv
<1>6. ASSUME NEW x PROVE Held(r, x) - Held(th[t], x) = Taken(r, x) - Taken(th[t], x)
  <2>1. Cardinality(Owners(th[t].got, x)) \in Nat
    <3> DEFINE E == EntryRec
    <3> HIDE DEF E
    <3>1. th[t].got \in Seq(E)
      BY <1>3 DEF E
    <3> QED BY <3>1, OwnersFinite
  <2> QED BY <1>2, <2>1 DEF Held, Taken
<1> QED BY <1>2, <1>4, <1>5, <1>6

\* msm_cvp_session_add_smem: the mapping is there, the cache has room.
LEMMA AddInsertStep ==
    ASSUME Inv, NEW t \in Threads, th[t].pc = "add", th' = [th EXCEPT ![t].pc = "insert"],
           UNCHANGED <<smem, cached, cap, persist, frames, wncc, table, dmaref, extra, watermark,
                       smem_count, work, phase, ops>>
    PROVE  Inv'
<1>1. Typed /\ th[t].s \in 0..Len(smem) /\ phase = "open" /\ th \in [Threads -> ThRec]
  BY TypeFacts, ThreadFields, Open DEF Inv, Typed, ThType
<1>2. PICK r : r = Rec("insert", th[t].op, th[t].todo, th[t].got, th[t].s)
  OBVIOUS
<1>3. th' = [th EXCEPT ![t] = r]
  BY <1>1, <1>2, ToPc
<1>4. /\ r \in ThRec /\ r.pc = "insert" /\ r.op = th[t].op /\ r.todo = th[t].todo /\ r.got = th[t].got /\ r.s = th[t].s
      /\ EntriesOK(r.got) /\ Shape(th[t]) /\ Hand(th[t])
      /\ \A x : Held(r, x) - Held(th[t], x) = Taken(r, x) - Taken(th[t], x)
  BY <1>1, <1>2, RecThread DEF Pcs
<1>5. Keeps
  BY DEF Keeps
<1>6. \A u \in Threads : th'[u] = IF u = t THEN r ELSE th[u]
  BY <1>1, <1>3
<1>7. New' = New
  <2>1. \A x : x \in New' <=> \E u \in Threads : th'[u].pc \in {"add", "insert"} /\ th'[u].s = x
    BY DEF New
  <2>2. \A u \in Threads : th'[u].s = th[u].s /\ (th'[u].pc \in {"add", "insert"} <=> th[u].pc \in {"add", "insert"})
    BY <1>4, <1>6
  <2>3. \A x : x \in New' <=> x \in New
    BY <2>1, <2>2, InNew
  <2> QED BY <2>3
<1>8. Live' = Live /\ Tracked' = Tracked /\ Sources' = Sources /\ Shared' = Shared
  BY <1>1, <1>7, RefsOnlySame, SameSets
<1>9. CacheInv' /\ HomeInv'
  BY <1>7, <1>8 DEF Inv, CacheInv, HomeInv, Counting
<1>10. Shape(r) /\ Hand(r)'
  BY <1>4, <1>8 DEF Shape, Hand, Having
<1>11. \A u \in Threads : u # t /\ th[u].pc \in {"add", "insert"} => th[u].s # r.s
  BY <1>4 DEF Inv, AloneInv
<1>12. \A x \in DOMAIN smem : smem'[x].ref \in Nat /\ smem'[x].ref - smem[x].ref = Held(r, x) - Held(th[t], x)
  <2>1. \A x \in DOMAIN smem : smem[x].ref \in Nat
    BY <1>1, TypeFacts DEF MapRec
  <2>2. \A x : Taken(r, x) = 0 /\ Taken(th[t], x) = 0
    BY <1>4 DEF Taken
  <2> QED BY <2>1, <2>2, <1>4
<1>13. SmemType' /\ RestType'
  BY <1>1 DEF Typed, SmemType, RestType, MapRec
<1>14. Shared \subseteq Shared' /\ cached \subseteq cached' /\ cached' \cap Shared \subseteq cached
  BY <1>8
<1> QED BY <1>1, <1>3, <1>4, <1>5, <1>9, <1>10, <1>11, <1>12, <1>13, <1>14, ThreadStep

\* The cache is full: the mapping is used without it.
LEMMA AddUseStep ==
    ASSUME Inv, NEW t \in Threads, th[t].pc = "add", th' = [th EXCEPT ![t].pc = "use"],
           smem' = [smem EXCEPT ![th[t].s].ref = @ + 1], cap' \in {Cap, CapMax},
           UNCHANGED <<cached, persist, frames, wncc, table, dmaref, extra, watermark, smem_count,
                       work, phase, ops>>
    PROVE  Inv'
<1> DEFINE s == th[t].s
<1>1. Typed /\ phase = "open" /\ th \in [Threads -> ThRec]
  BY Open DEF Inv, Typed, ThType
<1>2. s \in DOMAIN smem /\ s \in Tracked /\ s # 0 /\ s \in 0..Len(smem) /\ smem[s].buf = Wants(t)
  BY HandIs DEF Having
<1>3. RefsOnly /\ \A x \in DOMAIN smem : smem'[x].ref = smem[x].ref + (IF x = s THEN 1 ELSE 0)
  BY <1>1, <1>2, RefsOnlyPlus, Zenon
<1>4. PICK r : r = Rec("use", th[t].op, th[t].todo, th[t].got, s)
  OBVIOUS
<1>5. th' = [th EXCEPT ![t] = r]
  BY <1>1, <1>4, ToPc
<1>6. /\ r \in ThRec /\ r.pc = "use" /\ r.op = th[t].op /\ r.todo = th[t].todo /\ r.got = th[t].got /\ r.s = s
      /\ EntriesOK(r.got) /\ Shape(th[t]) /\ Hand(th[t])
      /\ \A x : Held(r, x) - Held(th[t], x) = Taken(r, x) - Taken(th[t], x)
  <2>1. "use" \in Pcs
    BY DEF Pcs
  <2> HIDE DEF s
  <2> QED BY <1>2, <1>4, <2>1, RecThread
<1>7. Keeps
  BY <1>3, RefsKeep
<1>8. \A u \in Threads : th'[u] = IF u = t THEN r ELSE th[u]
  BY <1>1, <1>5
<1>9. New' = New \ {s}
  BY <1>6, <1>8, LeaveNew
<1>10. Live' = Live /\ Tracked' = Tracked /\ Sources' = Sources
  BY <1>3 DEF RefsOnly, Live, Tracked, Sources
<1>11. s \in Live /\ s \notin Sources
  BY <1>6 DEF Hand
<1>12. Shared' = Shared \cup {s}
  BY <1>2, <1>9, <1>10, <1>11 DEF Shared
<1>13. DOMAIN smem' = DOMAIN smem /\ Len(smem') = Len(smem)
  BY <1>3 DEF RefsOnly
<1> HIDE DEF s
<1>14. CacheInv'
  BY <1>7, <1>12, <1>13, CacheKept
<1>15. \A x \in DOMAIN smem : smem[x].ref \in Nat /\ smem'[x].ref \in Nat
  <2>1. \A x \in DOMAIN smem : smem[x].ref \in Nat
    BY <1>1, TypeFacts DEF MapRec
  <2> QED BY <2>1, <1>3
<1>16. HomeInv'
  <2> SUFFICES ASSUME NEW x \in Live'
               PROVE  \/ smem'[x].lost = "invalid" \/ x \in cached' \/ x \in Sources'
                      \/ x \in New' \/ smem'[x].ref > 0
    BY <1>1 DEF HomeInv, Counting
  <2>1. x \in Live /\ x \in DOMAIN smem
    BY <1>10 DEF Live
  <2>2. smem'[x].lost = smem[x].lost /\ smem'[x].ref = smem[x].ref + (IF x = s THEN 1 ELSE 0)
    BY <2>1, <1>3 DEF RefsOnly
  <2>3. smem[x].lost = "invalid" \/ x \in cached \/ x \in Sources \/ x \in New \/ smem[x].ref > 0
    BY <2>1 DEF Inv, HomeInv
  <2> QED BY <2>1, <2>2, <2>3, <1>9, <1>10, <1>15
<1>17. Shape(r)
  BY <1>6 DEF Shape, Having, Packets, s
<1>18. Hand(r)'
  <2>1. smem'[s].buf = Head(th[t].todo)
    BY <1>2, <1>3 DEF RefsOnly, Wants
  <2> QED BY <2>1, <1>6, <1>12 DEF Hand
<1>19. \A x \in DOMAIN smem : smem'[x].ref \in Nat /\ smem'[x].ref - smem[x].ref = Held(r, x) - Held(th[t], x)
  <2>1. \A x : Taken(r, x) = IF x = s THEN 1 ELSE 0
    BY <1>6 DEF Taken
  <2>2. \A x : Taken(th[t], x) = 0
    BY SMTT(30) DEF Taken
  <2> QED BY <2>1, <2>2, <1>3, <1>6, <1>15
<1>20. SmemType' /\ RestType'
  BY <1>1, <1>3, <1>13 DEF RefsOnly, Typed, SmemType, RestType, MapRec
<1>21. Shared \subseteq Shared' /\ cached \subseteq cached' /\ cached' \cap Shared \subseteq cached
  BY <1>12
<1> QED BY <1>1, <1>5, <1>6, <1>7, <1>13, <1>14, <1>16, <1>17, <1>18, <1>19, <1>20, <1>21,
           ThreadStep

\* The mapping is put into the cache.
LEMMA InsertSmemStep ==
    ASSUME Inv, NEW t \in Threads, InsertSmem(t)
    PROVE  Inv'
<1> DEFINE s == th[t].s
<1>0. th[t].pc = "insert" /\ cached' = cached \cup {s} /\ th' = [th EXCEPT ![t].pc = "inc"]
      /\ UNCHANGED <<smem, cap, persist, frames, wncc, table, dmaref, extra, watermark, smem_count, work, phase, ops>>
  BY DEF InsertSmem
<1>1. Typed /\ phase = "open" /\ th \in [Threads -> ThRec]
  BY <1>0, Open DEF Inv, Typed, ThType
<1>2. s \in DOMAIN smem /\ s \in Tracked /\ s # 0 /\ s \in 0..Len(smem) /\ smem[s].buf = Wants(t) /\ Wants(t) \in Bufs
  BY <1>0, HandIs, WantsBuf DEF Having
<1>4. PICK r : r = Rec("inc", th[t].op, th[t].todo, th[t].got, s)
  OBVIOUS
<1>5. th' = [th EXCEPT ![t] = r]
  BY <1>0, <1>1, <1>4, ToPc
<1>6. /\ r \in ThRec /\ r.pc = "inc" /\ r.op = th[t].op /\ r.todo = th[t].todo /\ r.got = th[t].got /\ r.s = s
      /\ EntriesOK(r.got) /\ Shape(th[t]) /\ Hand(th[t])
      /\ \A x : Held(r, x) - Held(th[t], x) = Taken(r, x) - Taken(th[t], x)
  <2>1. "inc" \in Pcs
    BY DEF Pcs
  <2> HIDE DEF s
  <2> QED BY <1>2, <1>4, <2>1, RecThread
<1>7. Keeps
  BY <1>0 DEF Keeps
<1>8. \A u \in Threads : th'[u] = IF u = t THEN r ELSE th[u]
  BY <1>1, <1>5
<1>9. New' = New \ {s} /\ s \in New
  BY <1>0, <1>6, <1>8, LeaveNew
<1>10. Live' = Live /\ Tracked' = Tracked /\ Sources' = Sources
  BY <1>0 DEF Live, Tracked, Sources
<1>11. s \in Live /\ s \notin Sources /\ s \notin Shared
  BY <1>0, <1>6, <1>9 DEF Hand, Shared
<1>12. Shared' = Shared \cup {s}
  BY <1>2, <1>9, <1>10, <1>11 DEF Shared
<1> HIDE DEF s
<1>14. CacheInv'
  BY <1>0, <1>2, <1>10, <1>11, <1>12 DEF Inv, CacheInv
<1>16. HomeInv'
  BY <1>0, <1>1, <1>9, <1>10 DEF Inv, HomeInv, Counting
<1>17. Shape(r)
  BY <1>0, <1>6 DEF Shape, Having, Packets, s
<1>18. Hand(r)'
  BY <1>0, <1>2, <1>6, <1>12 DEF Hand, Wants
<1>19. \A x \in DOMAIN smem : smem'[x].ref \in Nat /\ smem'[x].ref - smem[x].ref = Held(r, x) - Held(th[t], x)
  <2>1. \A x : Taken(r, x) = 0 /\ Taken(th[t], x) = 0
    BY <1>0, <1>6 DEF Taken
  <2>2. \A x \in DOMAIN smem : smem[x].ref \in Nat
    BY <1>1, TypeFacts DEF MapRec
  <2> QED BY <2>1, <2>2, <1>0, <1>6
<1>20. SmemType' /\ RestType'
  <2>1. SmemType'
    BY <1>0, <1>1 DEF Typed, SmemType, MapRec
  <2>2. RestType'
    BY <1>0, <1>1, <1>2, SMTT(30) DEF Typed, RestType
  <2> QED BY <2>1, <2>2
<1>21. Shared \subseteq Shared' /\ cached \subseteq cached' /\ cached' \cap Shared \subseteq cached
  BY <1>0, <1>11, <1>12
<1> QED BY <1>0, <1>1, <1>5, <1>6, <1>7, <1>14, <1>16, <1>17, <1>18, <1>19, <1>20, <1>21, ThreadStep

\* A mapping that is too small: the reference is dropped.
LEMMA CheckBadStep ==
    ASSUME Inv, NEW t \in Threads, th[t].pc = "valid", NEW s, s = th[t].s,
           th' = ToMapping(t, "undo", 0),
           NEW l, l = IF smem[s].ref = 1 /\ ~Flagged(s) THEN "invalid" ELSE smem[s].lost,
           smem' = [smem EXCEPT ![s] = [buf |-> smem[s].buf, ref |-> smem[s].ref - 1, st |-> smem[s].st, lost |-> l]],
           UNCHANGED <<cached, cap, persist, frames, wncc, table, dmaref, extra, watermark,
                       smem_count, work, phase, ops>>
    PROVE  Inv'
<1>1. Typed /\ phase = "open" /\ th \in [Threads -> ThRec]
  BY Open DEF Inv, Typed, ThType
<1>2. s \in DOMAIN smem /\ s \in Shared /\ s # 0 /\ 0 \in 0..Len(smem) /\ s \in Tracked
  BY <1>1, HandIs, TypeFacts DEF Having
<1>3. PICK r : r = Rec("undo", th[t].op, th[t].todo, th[t].got, 0)
  OBVIOUS
<1>4. th' = [th EXCEPT ![t] = r]
  BY <1>1, <1>3, ToPcS
<1>5. /\ r \in ThRec /\ r.pc = "undo" /\ r.op = th[t].op /\ r.todo = th[t].todo /\ r.got = th[t].got /\ r.s = 0
      /\ EntriesOK(r.got) /\ Shape(th[t]) /\ Hand(th[t])
      /\ \A x : Held(r, x) - Held(th[t], x) = Taken(r, x) - Taken(th[t], x)
  <2>1. "undo" \in Pcs
    BY DEF Pcs
  <2> QED BY <1>2, <1>3, <2>1, RecThread
<1>6. \A u \in Threads : th'[u] = IF u = t THEN r ELSE th[u]
  BY <1>1, <1>4
<1>7. smem[s].ref \in Nat /\ smem[s].ref >= 1
  <2>1. smem[s].ref = Count(s)
    BY <1>1, <1>2 DEF Inv, RefInv, Counting
  <2>2. r.got \in Seq(EntryRec)
    BY <1>5, ThreadFields
  <2>3. /\ Cardinality(Owners(th[t].got, s)) + Taken(th[t], s) <= Cardinality(ThreadRefs(th, s))
        /\ Cardinality(Owners(th[t].got, s)) \in Nat
    BY <1>1, <1>6, <2>2, ThreadCount
  <2>4. Taken(th[t], s) = 1
    BY DEF Taken
  <2>5. Cardinality(FrameRefs(frames, s)) \in Nat /\ Cardinality(ThreadRefs(th, s)) \in Nat
        /\ Cardinality(PersistRefs(persist, s)) \in Nat
    BY <1>1, CountNat
  <2> QED BY <2>1, <2>3, <2>4, <2>5 DEF Count
<1>8. smem[s] \in MapRec /\ \A x \in DOMAIN smem : smem[x] \in MapRec
  BY <1>1, <1>2, TypeFacts
<1>9. l \in {"no", "window", "invalid"} /\ (l = "window" <=> smem[s].lost = "window")
      /\ (l = "invalid" <=> smem[s].lost = "invalid" \/ (smem[s].ref = 1 /\ ~Flagged(s)))
  BY <1>8 DEF MapRec, Flagged
<1>10. /\ DOMAIN smem' = DOMAIN smem /\ \A x \in DOMAIN smem : x # s => smem'[x] = smem[x]
       /\ smem'[s].buf = smem[s].buf /\ smem'[s].st = smem[s].st /\ smem'[s].ref = smem[s].ref - 1
       /\ smem'[s].lost = l /\ smem'[s] \in MapRec
  BY <1>2, <1>7, <1>8, <1>9 DEF MapRec
<1>11. smem' \in Seq(MapRec) /\ Len(smem') = Len(smem)
  <2> DEFINE M == MapRec
             g == smem'
  <2>1. smem \in Seq(M)
    BY <1>1 DEF Typed, SmemType
  <2>2. g \in [DOMAIN smem -> M]
    BY <1>8, <1>10
  <2> HIDE DEF M, g
  <2>3. g \in Seq(M) /\ Len(g) = Len(smem)
    BY <2>1, <2>2, SeqOver
  <2> QED BY <2>3 DEF M, g
<1>12. Keeps
  BY <1>9, <1>10 DEF Keeps
<1>13. New' = New
  BY <1>5, <1>6, SameNew, SMTT(20)
<1>14. Live' = Live /\ Tracked' = Tracked /\ Sources' = Sources
  BY <1>10, <1>12 DEF Live, Tracked, Sources, Keeps
<1>15. Shared' = Shared
  BY <1>13, <1>14 DEF Shared
<1>16. CacheInv'
  BY <1>10, <1>12, <1>15, CacheKept
<1>17. HomeInv'
  <2> SUFFICES ASSUME NEW x \in Live'
               PROVE  \/ smem'[x].lost = "invalid" \/ x \in cached' \/ x \in Sources'
                      \/ x \in New' \/ smem'[x].ref > 0
    BY <1>1 DEF HomeInv, Counting
  <2>1. x \in Live /\ x \in DOMAIN smem
    BY <1>14 DEF Live
  <2>2. smem[x].lost = "invalid" \/ x \in cached \/ x \in Sources \/ x \in New \/ smem[x].ref > 0
    BY <2>1 DEF Inv, HomeInv
  <2>3. CASE x # s
    BY <2>1, <2>2, <2>3, <1>10, <1>13, <1>14
  <2>4. CASE x = s
    <3>1. smem[s].lost # "window"
      BY <2>1, <2>4 DEF Inv, CacheInv, Live
    <3>2. smem[s].ref = 1 /\ s \notin cached => l = "invalid"
      BY <1>9, <3>1 DEF Flagged
    <3> QED BY <2>4, <3>2, <1>7, <1>10
  <2> QED BY <2>3, <2>4
<1>18. Shape(r)
  BY <1>5 DEF Shape, Having, Packets
<1>19. Hand(r)'
  BY <1>5 DEF Hand, Having
<1>20. \A x \in DOMAIN smem : smem'[x].ref \in Nat /\ smem'[x].ref - smem[x].ref = Held(r, x) - Held(th[t], x)
  <2>1. \A x : Taken(r, x) = 0
    BY <1>5 DEF Taken
  <2>2. \A x : Taken(th[t], x) = IF x = s THEN 1 ELSE 0
    BY DEF Taken
  <2>3. \A x \in DOMAIN smem : smem[x].ref \in Nat
    BY <1>8 DEF MapRec
  <2> QED BY <2>1, <2>2, <2>3, <1>5, <1>7, <1>10
<1>21. SmemType' /\ RestType'
  BY <1>1, <1>10, <1>11 DEF Typed, SmemType, RestType, MapRec
<1>22. Shared \subseteq Shared' /\ cached \subseteq cached' /\ cached' \cap Shared \subseteq cached
  BY <1>15
<1> QED BY <1>1, <1>4, <1>5, <1>10, <1>11, <1>12, <1>16, <1>17, <1>18, <1>19, <1>20, <1>21, <1>22,
           ThreadStep

\* IS_CVP_BUF_VALID of a mapping that was found, large enough or not.
LEMMA CheckFoundStep ==
    ASSUME Inv, NEW t \in Threads, CheckFound(t)
    PROVE  Inv'
<1>1. th[t].pc = "valid" /\ UNCHANGED <<cached, cap, persist, frames, wncc, table, dmaref, extra, watermark, smem_count, work, phase, ops>>
  BY DEF CheckFound
<1>2. PICK s : s = th[t].s
  OBVIOUS
<1>3. s \in DOMAIN smem /\ smem[s] \in MapRec
  BY <1>1, <1>2, HandIs, TypeFacts DEF Having, Inv
<1>4. CASE th' = [th EXCEPT ![t].pc = "use"] /\ UNCHANGED smem
  BY <1>1, <1>4, CheckGoodStep
<1>5. CASE /\ th' = [th EXCEPT ![t].pc = "undo", ![t].s = 0]
           /\ smem' = [smem EXCEPT ![s].ref = @ - 1,
                         ![s].lost = IF smem[s].ref = 1 /\ ~Flagged(s) THEN "invalid" ELSE @]
  <2>1. th' = ToMapping(t, "undo", 0)
    BY <1>5 DEF ToMapping
  <2>2. PICK l : l = IF smem[s].ref = 1 /\ ~Flagged(s) THEN "invalid" ELSE smem[s].lost
    OBVIOUS
  <2>3. PICK m : m = [buf |-> smem[s].buf, ref |-> smem[s].ref - 1, st |-> smem[s].st, lost |-> l]
    OBVIOUS
  <2>4. [smem[s] EXCEPT !.ref = @ - 1, !.lost = IF smem[s].ref = 1 /\ ~Flagged(s) THEN "invalid" ELSE @] = m
    <3>1. smem[s] = [buf |-> smem[s].buf, ref |-> smem[s].ref, st |-> smem[s].st, lost |-> smem[s].lost]
      BY <1>3 DEF MapRec
    <3>2. [smem[s] EXCEPT !.ref = @ - 1, !.lost = IF smem[s].ref = 1 /\ ~Flagged(s) THEN "invalid" ELSE @]
          \in [buf : {smem[s].buf}, ref : {smem[s].ref - 1}, st : {smem[s].st}, lost : {l}]
      BY <2>2, <3>1
    <3>3. \A x \in [buf : {smem[s].buf}, ref : {smem[s].ref - 1}, st : {smem[s].st}, lost : {l}] : x = m
      BY <2>3
    <3> QED BY <3>2, <3>3
  <2>5. smem' = [smem EXCEPT ![s] = m]
    <3>1. smem' = [smem EXCEPT ![s] = [smem[s] EXCEPT !.ref = @ - 1, !.lost = IF smem[s].ref = 1 /\ ~Flagged(s) THEN "invalid" ELSE @]]
      BY <1>3, <1>5
    <3> QED BY <3>1, <2>4
  <2> QED BY <1>1, <1>2, <2>1, <2>2, <2>3, <2>5, CheckBadStep
<1> QED BY <1>2, <1>4, <1>5 DEF CheckFound

\* The lists and the counts when the thread t is done and what it held goes into a list.
LEMMA HandsOver ==
    ASSUME Inv, NEW t \in Threads, phase = "open", Finish(t), smem' = smem, RestType', ListType',
           UNCHANGED <<cached, wncc, table, phase>>, th[t].pc \notin {"add", "insert"},
           Persisting \subseteq Persisting', FrameInv', PersistInv',
           \A i \in DOMAIN persist' : (\E j \in DOMAIN persist : persist'[i].buf = persist[j].buf)
                                      \/ \A u \in Threads : th'[u].op \in Lasting => th'[u].todo[1] # persist'[i].buf,
           \A x : Cardinality(FrameRefs(frames', x)) + Cardinality(PersistRefs(persist', x)) =
                    Cardinality(FrameRefs(frames, x)) + Cardinality(PersistRefs(persist, x)) + Held(th[t], x),
           \A x : Cardinality(FrameRefs(frames', x)) \in Nat /\ Cardinality(PersistRefs(persist', x)) \in Nat
    PROVE  Inv'
<1>1. Typed
  BY DEF Inv
<1>2. /\ \A u \in Threads : th'[u] = IF u = t THEN Idle ELSE th[u]
      /\ th' \in [Threads -> ThRec]
  BY <1>1, EndCount
<1>3. Idle.pc = "idle" /\ Idle.op = "none" /\ Shape(Idle) /\ EntriesOK(Idle.got) /\ Hand(Idle)'
  BY DEF Idle, Shape, EntriesOK, Hand, Having, Lasting
<1>4. New' = New
  BY <1>2, <1>3, SameNew
<1>5. Live' = Live /\ Tracked' = Tracked /\ Sources' = Sources /\ Shared' = Shared
  BY <1>1, <1>4, RefsOnlySame, SameSets
<1>6. Keeps
  BY DEF Keeps
<1>7. Typed'
  <2>1. ThRec' = ThRec
    BY SameRecs
  <2> QED BY <1>1, <1>2, <2>1 DEF Typed, SmemType, MapRec, ThType
<1>8. CacheInv' /\ WnccInv'
  BY <1>5, <1>6, CacheKept, WnccKept
<1>9. Others(t, Idle)
  BY <1>2 DEF Others
<1>10. CallInv' /\ ExclInv'
  <2>1. Idle.op \notin Lasting
    BY <1>3 DEF Lasting
  <2> QED BY <1>9, <2>1, CallsKept
<1>11. RefInv'
  <2> SUFFICES ASSUME NEW x \in Tracked PROVE smem[x].ref = Count(x)'
    BY <1>5 DEF RefInv
  <2>1. smem[x].ref = Count(x)
    BY DEF Inv, RefInv, Counting
  <2>2. Cardinality(ThreadRefs(th', x)) = Cardinality(ThreadRefs(th, x)) - Held(th[t], x) /\ Held(th[t], x) \in Nat
    BY <1>1, EndCount
  <2>3. Cardinality(FrameRefs(frames, x)) \in Nat /\ Cardinality(ThreadRefs(th, x)) \in Nat
        /\ Cardinality(PersistRefs(persist, x)) \in Nat
    BY <1>1, CountNat
  <2>4. /\ Cardinality(FrameRefs(frames', x)) + Cardinality(PersistRefs(persist', x)) =
             Cardinality(FrameRefs(frames, x)) + Cardinality(PersistRefs(persist, x)) + Held(th[t], x)
        /\ Cardinality(FrameRefs(frames', x)) \in Nat /\ Cardinality(PersistRefs(persist', x)) \in Nat
    OBVIOUS
  <2>5. Count(x)' = Count(x)
    BY <2>2, <2>3, <2>4 DEF Count
  <2> QED BY <2>1, <2>5
<1>12. HomeInv'
  BY <1>4, <1>5 DEF Inv, HomeInv, Counting
<1>13. phase' = "open" /\ Shared \subseteq Shared' /\ Sources' \cap DOMAIN smem \subseteq Sources /\ cached \subseteq cached'
  BY <1>5
<1> QED BY <1>3, <1>6, <1>7, <1>8, <1>9, <1>10, <1>11, <1>12, <1>13, Grow

\* The frame is put into the list of frames.
LEMMA ListFrameStep ==
    ASSUME Inv, NEW t \in Threads, ListFrame(t)
    PROVE  Inv'
<1>1. th[t].pc = "list" /\ frames' = Append(frames, th[t].got) /\ Finish(t)
      /\ UNCHANGED <<smem, cached, cap, persist, wncc, table, dmaref, extra, watermark, smem_count, work, phase, ops>>
  BY DEF ListFrame
<1>2. Typed /\ phase = "open"
  BY <1>1, Open DEF Inv
<1>3. PICK g : g = th[t].got
  OBVIOUS
<1>4. g \in Seq(EntryRec) /\ frames \in Seq(Seq(EntryRec)) /\ EntriesOK(g)
  BY <1>2, <1>3, TypeFacts, ThreadFields DEF Typed, ListType, Inv, GotInv
<1>5. EntryRec' = EntryRec /\ PersistRec' = PersistRec /\ WnccRec' = WnccRec
  BY <1>1, SameRecs
<1>6. /\ frames' \in Seq(Seq(EntryRec))
      /\ \A i \in DOMAIN frames' : frames'[i] = g \/ (i \in DOMAIN frames /\ frames'[i] = frames[i])
  <2> DEFINE F == Seq(EntryRec)
  <2>1. g \in F /\ frames \in Seq(F) /\ frames' = Append(frames, g)
    BY <1>1, <1>3, <1>4
  <2> HIDE DEF F
  <2>2. /\ frames' \in Seq(F)
        /\ \A i \in DOMAIN frames' : frames'[i] = g \/ (i \in DOMAIN frames /\ frames'[i] = frames[i])
    BY <2>1, AppendFun
  <2> QED BY <2>2 DEF F
<1>7. ListType' /\ RestType'
  BY <1>1, <1>2, <1>5, <1>6 DEF Typed, ListType, RestType
<1>8. Idle.pc = "idle"
  BY DEF Idle
<1>9. New' = New
  <2>1. \A u \in Threads : th'[u] = IF u = t THEN Idle ELSE th[u]
    BY <1>1, <1>2, EndCount
  <2> QED BY <1>1, <1>8, <2>1, SameNew
<1>10. Shared' = Shared /\ Persisting' = Persisting
  BY <1>1, <1>2, <1>9, RefsOnlySame, SameSets DEF Persisting
<1>11. Keeps
  BY <1>1 DEF Keeps
<1>12. FrameInv'
  <2>1. \A e : EntryOK(e) => EntryOK(e)'
    BY <1>10, <1>11, EntryKept
  <2>2. \A i \in DOMAIN frames' : EntriesOK(frames'[i])
    BY <1>4, <1>6 DEF Inv, FrameInv
  <2> QED BY <2>1, <2>2 DEF FrameInv, EntriesOK
<1>13. PersistInv'
  BY <1>1, <1>10, <1>11, PersistKept
<1>14. \A x : Held(th[t], x) = Cardinality(Owners(g, x)) /\ Cardinality(Owners(g, x)) \in Nat
  <2> TAKE x
  <2>1. Taken(th[t], x) = 0
    BY <1>1 DEF Taken
  <2> DEFINE E == EntryRec
  <2>2. g \in Seq(E)
    BY <1>4
  <2> HIDE DEF E
  <2>3. Cardinality(Owners(g, x)) \in Nat
    BY <2>2, OwnersFinite
  <2> QED BY <1>3, <2>1, <2>3 DEF Held
<1>15. \A x : /\ Cardinality(FrameRefs(frames', x)) = Cardinality(FrameRefs(frames, x)) + Held(th[t], x)
              /\ Cardinality(FrameRefs(frames, x)) \in Nat /\ Cardinality(PersistRefs(persist, x)) \in Nat
              /\ Held(th[t], x) \in Nat
  <2> TAKE x
  <2> DEFINE E == EntryRec
  <2>1. g \in Seq(E) /\ frames \in Seq(Seq(E)) /\ frames' = Append(frames, g)
    BY <1>1, <1>3, <1>4
  <2> HIDE DEF E
  <2>2. Cardinality(FrameRefs(frames', x)) = Cardinality(FrameRefs(frames, x)) + Cardinality(Owners(g, x))
    BY <2>1, FramesAppend
  <2>3. Cardinality(FrameRefs(frames, x)) \in Nat /\ Cardinality(PersistRefs(persist, x)) \in Nat
    BY <1>2, CountNat
  <2> QED BY <1>14, <2>2, <2>3
<1>16. \A x : /\ Cardinality(FrameRefs(frames', x)) + Cardinality(PersistRefs(persist', x)) =
                   Cardinality(FrameRefs(frames, x)) + Cardinality(PersistRefs(persist, x)) + Held(th[t], x)
              /\ Cardinality(FrameRefs(frames', x)) \in Nat /\ Cardinality(PersistRefs(persist', x)) \in Nat
  BY <1>1, <1>15
<1> QED BY <1>1, <1>2, <1>7, <1>10, <1>12, <1>13, <1>16, HandsOver

\* The mapping becomes a persistent buffer of the client.
LEMMA UseParamsStep ==
    ASSUME Inv, NEW t \in Threads, UseSmem(t), th[t].op = "params"
    PROVE  Inv'
<1>1. th[t].pc = "use" /\ Finish(t)
      /\ persist' = Append(persist, [buf |-> Wants(t), s |-> th[t].s, kind |-> "params", hits |-> 0])
      /\ UNCHANGED <<smem, cached, cap, frames, wncc, table, dmaref, extra, watermark, smem_count, work, phase, ops>>
  BY DEF UseSmem
<1>2. Typed /\ phase = "open"
  BY <1>1, Open DEF Inv
<1>3. PICK s, b : s = th[t].s /\ b = Wants(t)
  OBVIOUS
<1>4. s \in DOMAIN smem /\ s \in Shared /\ smem[s].buf = b /\ b \in Bufs /\ b = th[t].todo[1]
  BY <1>1, <1>3, HandIs, WantsBuf DEF Having
<1>5. PICK e : e = [buf |-> b, s |-> s, kind |-> "params", hits |-> 0]
  OBVIOUS
<1>6. e \in PersistRec /\ e.buf = b /\ e.s = s /\ e.kind = "params" /\ e.hits = 0
  BY <1>4, <1>5 DEF PersistRec, Kinds
<1>7. EntryRec' = EntryRec /\ PersistRec' = PersistRec /\ WnccRec' = WnccRec
  BY <1>1, SameRecs
<1>8. persist \in Seq(PersistRec) /\ persist' = Append(persist, e)
  BY <1>1, <1>2, <1>3, <1>5 DEF Typed, ListType
<1>9. /\ persist' \in Seq(PersistRec) /\ DOMAIN persist' = DOMAIN persist \cup {Len(persist) + 1}
      /\ Len(persist) + 1 \notin DOMAIN persist
      /\ persist'[Len(persist) + 1] = e /\ \A i \in DOMAIN persist : persist'[i] = persist[i]
  <2> DEFINE P == PersistRec
  <2>1. persist \in Seq(P) /\ e \in P
    BY <1>6, <1>8
  <2> HIDE DEF P
  <2>2. /\ persist' \in Seq(P) /\ DOMAIN persist' = DOMAIN persist \cup {Len(persist) + 1}
        /\ Len(persist) + 1 \notin DOMAIN persist
        /\ persist'[Len(persist) + 1] = e /\ \A i \in DOMAIN persist : persist'[i] = persist[i]
    BY <1>8, <2>1, AppendFun
  <2> QED BY <2>2 DEF P
<1>10. ListType' /\ RestType'
  BY <1>1, <1>2, <1>7, <1>9 DEF Typed, ListType, RestType
<1>11. Idle.pc = "idle" /\ Idle.op = "none"
  BY DEF Idle
<1>12. \A u \in Threads : th'[u] = IF u = t THEN Idle ELSE th[u]
  BY <1>1, <1>2, EndCount
<1>13. New' = New
  BY <1>1, <1>11, <1>12, SameNew
<1>14. Shared' = Shared
  BY <1>1, <1>2, <1>13, RefsOnlySame, SameSets
<1>15. Persisting \subseteq Persisting'
  BY <1>9 DEF Persisting
<1>16. Keeps
  BY <1>1 DEF Keeps
<1>17. FrameInv'
  BY <1>1, <1>14, <1>15, <1>16, FramesKept
<1>18. \A i \in DOMAIN persist : persist[i].buf # b
  BY <1>4 DEF Inv, CallInv, Calling
<1>19. PersistInv'
  <2>1. \A i \in DOMAIN persist : PersistOK(persist[i])
    BY PersistOKs DEF Inv
  <2>2. \A p : PersistOK(p) => PersistOK(p)'
    BY <1>1, <1>14, <1>16, PersistOKKept
  <2>3. PersistOK(e)
    BY <1>4, <1>6, Consts DEF PersistOK
  <2>4. \A i \in DOMAIN persist' : PersistOK(persist'[i])
    BY <1>9, <2>1, <2>3
  <2>5. \A i, j \in DOMAIN persist' : persist'[i].buf = persist'[j].buf => i = j
    BY <1>6, <1>9, <1>18 DEF Inv, PersistInv
  <2>6. (\A i \in DOMAIN persist : PersistOK(persist[i]))'
    BY <2>2, <2>4
  <2> QED BY <2>5, <2>6 DEF PersistInv, PersistOK
<1>20. \A i \in DOMAIN persist' : (\E j \in DOMAIN persist : persist'[i].buf = persist[j].buf)
                                  \/ \A u \in Threads : th'[u].op \in Lasting => th'[u].todo[1] # persist'[i].buf
  <2>1. \A u \in Threads : th'[u].op \in Lasting => th'[u].todo[1] # b
    BY <1>4, <1>11, <1>12 DEF Inv, ExclInv, Lasting
  <2> QED BY <2>1, <1>6, <1>9
<1>21. \A x : Held(th[t], x) = IF x = s THEN 1 ELSE 0
  <2> TAKE x
  <2>1. th[t].got = <<>>
    BY DEF Inv, ShapeInv, Shape, Lasting
  <2>2. Cardinality(Owners(th[t].got, x)) = 0
    BY <2>1, IdleFields
  <2> QED BY <1>1, <1>3, <2>2 DEF Held, Taken
<1>22. \A x : /\ Cardinality(PersistRefs(persist', x)) = Cardinality(PersistRefs(persist, x)) + Held(th[t], x)
              /\ Cardinality(FrameRefs(frames, x)) \in Nat /\ Cardinality(PersistRefs(persist, x)) \in Nat
  <2> TAKE x
  <2> DEFINE P == PersistRec
  <2>1. persist \in Seq(P) /\ e \in P /\ e.hits \in Nat /\ \A k \in DOMAIN persist : persist[k].hits \in Nat
    BY <1>2, <1>6, <1>8, TypeFacts DEF PersistRec
  <2> HIDE DEF P
  <2>2. Cardinality(PersistRefs(Append(persist, e), x)) = Cardinality(PersistRefs(persist, x)) + Kept(e, x)
    BY <2>1, PersistAppend
  <2>3. Cardinality(FrameRefs(frames, x)) \in Nat /\ Cardinality(PersistRefs(persist, x)) \in Nat
    BY <1>2, CountNat
  <2>4. Kept(e, x) = Held(th[t], x)
    BY <1>6, <1>21 DEF Kept
  <2> QED BY <1>8, <2>2, <2>3, <2>4
<1>23. \A x : /\ Cardinality(FrameRefs(frames', x)) + Cardinality(PersistRefs(persist', x)) =
                   Cardinality(FrameRefs(frames, x)) + Cardinality(PersistRefs(persist, x)) + Held(th[t], x)
              /\ Cardinality(FrameRefs(frames', x)) \in Nat /\ Cardinality(PersistRefs(persist', x)) \in Nat
  BY <1>1, <1>21, <1>22
<1> QED BY <1>1, <1>2, <1>10, <1>15, <1>17, <1>19, <1>20, <1>23, HandsOver

\* The search through the frames, found or not.
LEMMA FindFrameStep ==
    ASSUME Inv, NEW t \in Threads, FindFrame(t)
    PROVE  Inv'
<1>1. th[t].pc = "frames" /\ UNCHANGED <<cached, cap, persist, frames, wncc, table, watermark, work, phase, ops>>
  BY DEF FindFrame
<1>2. PICK b : b = Wants(t)
  OBVIOUS
<1>3. CASE /\ InFrames(b) = {} /\ Room /\ smem' = Append(smem, Mapping(b, 0)) /\ smem_count' = smem_count + 1
           /\ th' = [th EXCEPT ![t].pc = "add", ![t].s = Fresh] /\ UNCHANGED <<dmaref, extra>>
  <2>1. th' = ToMapping(t, "add", Fresh)
    BY <1>3 DEF ToMapping
  <2>2. /\ InFrames(b) = {} /\ Room /\ smem' = Append(smem, Mapping(b, 0)) /\ smem_count' = smem_count + 1
        /\ UNCHANGED <<dmaref, extra>>
    BY <1>3
  <2> QED BY <1>1, <1>2, <2>1, <2>2, FindFrameNewStep
<1>4. CASE \/ InFrames(b) # {} /\ ListHit(t, Min(InFrames(b))) /\ UNCHANGED <<dmaref, smem_count>>
           \/ dmaref' = Get(b, -1) /\ th' = [th EXCEPT ![t].pc = "undo"] /\ UNCHANGED <<smem, extra, smem_count>>
  BY <1>1, <1>2, <1>4, FindFrameOldStep
<1> QED BY <1>2, <1>3, <1>4 DEF FindFrame

\* The mapping is used, by a frame or as a persistent buffer.
LEMMA UseSmemStep ==
    ASSUME Inv, NEW t \in Threads, UseSmem(t)
    PROVE  Inv'
  BY UseParamsStep, UseFrameStep

\* msm_cvp_map_user_persist is called.
LEMMA MapUserStep ==
    ASSUME Inv, Careful, NEW t \in Threads, NEW b \in Bufs, NEW kind, MapUserPersist(t, b, kind)
    PROVE  Inv'
<1> DEFINE hit == Mapped(b, {"user", "params", "feature"})
<1>1. /\ kind \in {"user", "params"} /\ Calls(t, Lasting, b)
      /\ UNCHANGED <<cached, cap, frames, wncc, table, dmaref, extra, watermark, smem_count, work, phase>>
  BY DEF MapUserPersist
<1>2. phase = "open" /\ ops' = ops + 1
  BY <1>1 DEF Calls
<1>3. CASE hit # {} /\ smem' = [smem EXCEPT ![persist[Min(hit)].s].ref = @ + 1]
           /\ persist' = [persist EXCEPT ![Min(hit)].hits = @ + 1] /\ UNCHANGED th
  <2>1. Min(hit) \in DOMAIN persist
    BY <1>3, MappedAre
  <2>2. PICK i : i = Min(hit)
    OBVIOUS
  <2> HIDE DEF hit
  <2>3. i \in DOMAIN persist /\ smem' = [smem EXCEPT ![persist[i].s].ref = @ + 1]
        /\ persist' = [persist EXCEPT ![i].hits = @ + 1]
    BY <1>3, <2>1, <2>2
  <2>4. UNCHANGED <<th, cached, cap, frames, wncc, table, dmaref, extra, watermark, smem_count, work, phase>>
    BY <1>1, <1>3
  <2> QED BY <1>2, <2>3, <2>4, MapUserHitStep, Zenon
<1>4. CASE /\ hit = {} /\ UNCHANGED <<smem, persist>>
           /\ th' = [th EXCEPT ![t] = [Idle EXCEPT !.pc = IF kind = "params" THEN "find" ELSE "alloc",
                                                   !.op = kind, !.todo = <<b>>]]
  <2>1. \A i \in DOMAIN persist : persist[i].buf # b
    BY <1>4, MappedAre
  <2>2. PICK p : p = IF kind = "params" THEN "find" ELSE "alloc"
    OBVIOUS
  <2>3. LastingCall(p, kind) /\ Unlisted(kind, b)
    BY <1>1, <2>1, <2>2 DEF LastingCall, Unlisted
  <2>4. th' = [th EXCEPT ![t] = [Idle EXCEPT !.pc = p, !.op = kind, !.todo = <<b>>]]
    BY <1>4, <2>2
  <2>5. UNCHANGED <<smem, cached, cap, persist, frames, wncc, table, dmaref, extra, watermark, smem_count, work, phase>>
    BY <1>1, <1>4
  <2> QED BY <1>1, <2>3, <2>4, <2>5, StartsLasting
<1> QED BY <1>3, <1>4 DEF MapUserPersist

-----------------------------------------------------------------------------
\* Steps that take mappings away.

LEMMA SmemMap ==
    ASSUME Typed, smem' \in [DOMAIN smem -> MapRec]
    PROVE  SmemType' /\ Len(smem') = Len(smem) /\ DOMAIN smem' = DOMAIN smem
<1> DEFINE M == MapRec
           g == smem'
<1>1. smem \in Seq(M) /\ g \in [DOMAIN smem -> M] /\ Len(smem) <= MaxSmem
  BY DEF Typed, SmemType
<1>2. M' = M
  BY DEF MapRec
<1> HIDE DEF M, g
<1>3. g \in Seq(M) /\ Len(g) = Len(smem) /\ DOMAIN g = DOMAIN smem
  BY <1>1, SeqOver
<1> QED BY <1>1, <1>2, <1>3 DEF SmemType, M, g

\* The mappings of D are freed.
Frees(D) ==
    /\ DOMAIN smem' = DOMAIN smem
    /\ \A x \in DOMAIN smem :
         /\ smem'[x].buf = smem[x].buf
         /\ x \notin D => smem'[x].st = smem[x].st /\ smem'[x].lost = smem[x].lost
         /\ x \in D => smem'[x].st = "freed"

\* No new source, and no new mapping that only one thread knows.
Less == Sources' \subseteq Sources /\ New' \subseteq New

\* The sets of mappings when those in D are freed.
LEMMA FreesSets ==
    ASSUME NEW D, Frees(D)
    PROVE  /\ Live' = Live \ D
           /\ \A s \in Tracked : s \notin D => s \in Tracked'
           /\ \A s \in Tracked' : s \notin D => s \in Tracked
  BY DEF Frees, Live, Tracked

\* A shared mapping that is not freed stays shared.
LEMMA SharedStays ==
    ASSUME Less, NEW s \in Shared, s \in Tracked'
    PROVE  s \in Shared'
  BY DEF Less, Shared

\* An entry of a frame stays good when its mapping is not freed.
LEMMA EntryStays ==
    ASSUME NEW D, Frees(D), Less, NEW e, EntryOK(e), e.s \in Tracked', ~e.own => e.s \in Persisting'
    PROVE  EntryOK(e)'
<1>1. e.s \in Shared /\ smem[e.s].buf \in Bufs /\ e.s \in DOMAIN smem
  BY DEF EntryOK, Shared, Tracked
<1>2. e.s \in Shared'
  BY <1>1, SharedStays
<1> QED BY <1>1, <1>2 DEF EntryOK, Frees

\* So does the mapping in a thread's hands,
LEMMA HandStays ==
    ASSUME NEW D, Frees(D), Less, NEW v, Hand(v),
           v.pc \in {"inc", "valid", "use"} => v.s \in Tracked',
           v.pc \in {"add", "insert"} => v.s \in Live',
           v.pc = "inc" => v.s \in cached' \/ smem'[v.s].lost = "window"
    PROVE  Hand(v)'
<1>1. v.pc \in Having => v.s \in DOMAIN smem
  BY DEF Hand, Having, Shared, Tracked, Live
<1>2. v.pc \in Having => smem'[v.s].buf = Head(v.todo)
  BY <1>1 DEF Hand, Frees
<1>3. v.pc \in {"inc", "valid", "use"} => v.s \in Shared'
  BY SharedStays DEF Hand
<1>4. v.pc \in {"add", "insert"} => v.s \in Live' /\ v.s \notin Sources'
  BY DEF Hand, Less
<1> QED BY <1>2, <1>3, <1>4 DEF Hand

\* ... an entry of the list of persistent buffers,
LEMMA PersistOKStays ==
    ASSUME NEW D, Frees(D), Less, cached' \subseteq cached, NEW p, PersistOK(p), p.s \in Tracked',
           p.kind # "params" => p.s \notin D
    PROVE  PersistOK(p)'
<1>1. p.s \in Shared /\ p.s \in DOMAIN smem
  BY DEF PersistOK, Shared, Tracked
<1>2. p.s \in Shared'
  BY <1>1, SharedStays
<1>3. p.kind # "params" => p.s \in Live'
  BY FreesSets DEF PersistOK
<1> QED BY <1>1, <1>2, <1>3 DEF PersistOK, Frees

\* ... and the WNCC sources.
LEMMA WnccStays ==
    ASSUME Inv, NEW D, Frees(D), D \cap Sources = {}, wncc' = wncc, table' = table
    PROVE  WnccInv'
<1>1. Live' = Live \ D
  BY FreesSets
<1>2. \A i \in DOMAIN wncc : wncc[i].s \in Sources /\ wncc[i].s \in DOMAIN smem
  BY DEF Sources, Inv, WnccInv, Live
<1>3. \A i \in DOMAIN wncc : wncc[i].s \in Live' /\ smem'[wncc[i].s].buf = wncc[i].buf
  BY <1>1, <1>2 DEF Inv, WnccInv, Frees
<1> QED BY <1>3 DEF Inv, WnccInv

\* A thread does nothing, or goes from the full cache to the insertion.
Stays(u) ==
    \/ th'[u] = th[u]
    \/ th[u].pc = "add" /\ th'[u] = Rec("insert", th[u].op, th[u].todo, th[u].got, th[u].s)

\* What a thread keeps while a mapping may be taken from under it.
LEMMA StaysFields ==
    ASSUME NEW u, Stays(u)
    PROVE  /\ th'[u].op = th[u].op /\ th'[u].todo = th[u].todo /\ th'[u].got = th[u].got /\ th'[u].s = th[u].s
           /\ th'[u] = th[u] \/ (th[u].pc = "add" /\ th'[u].pc = "insert")
           /\ th'[u].pc \in {"add", "insert"} <=> th[u].pc \in {"add", "insert"}
           /\ th'[u].pc \notin {"add", "insert"} => th'[u] = th[u]
  BY DEF Stays, Rec

\* Nobody uses a mapping of the cache without references, but a thread in the window.
LEMMA UnusedUsers ==
    ASSUME Inv, NEW s \in Unused
    PROVE  /\ \A i \in DOMAIN frames : \A k \in DOMAIN frames[i] : frames[i][k].s # s
           /\ \A t \in Threads : \A k \in DOMAIN th[t].got : th[t].got[k].s # s
           /\ \A i \in DOMAIN persist : persist[i].s # s
           /\ \A t \in Threads : th[t].s = s => th[t].pc = "inc"
           /\ s \in Live /\ s \in Shared /\ s \in Tracked
<1>1. s \in Live /\ s \in Shared /\ s \in Tracked /\ smem[s].ref = 0 /\ s \in DOMAIN smem
  BY DEF Unused, Inv, CacheInv, Shared, Tracked
<1>2. s # 0
  BY <1>1, TypeFacts DEF Inv
<1>3. CASE Counting
  <2>1. \A t \in Threads : th[t].s = s => th[t].pc \in {"add", "insert", "inc"}
    BY <1>1, <1>3, Unreferenced
  <2>2. \A t \in Threads : th[t].s = s => th[t].pc \notin {"add", "insert"}
    BY <1>1, InNew DEF Shared
  <2>3. \A t \in Threads : th[t].s = s => th[t].pc = "inc"
    BY <2>1, <2>2
  <2> QED BY <1>1, <1>3, <2>3, Unreferenced
<1>4. CASE ~Counting
  <2>1. persist = <<>> /\ frames = <<>> /\ \A t \in Threads : th[t] = Idle
    BY <1>4 DEF Inv, PhaseInv, Counting
  <2>2. \A t \in Threads : th[t].got = <<>> /\ th[t].s = 0
    BY <2>1, IdleFields
  <2> QED BY <1>1, <1>2, <2>1, <2>2
<1> QED BY <1>3, <1>4

\* msm_cvp_free_unused_mapping: only what has no user, or one in the window, goes.
LEMMA Cleans ==
    ASSUME Inv, free_unused_mapping, cap' \in {Cap, CapMax}, work' \in BOOLEAN,
           UNCHANGED <<persist, frames, wncc, table, extra, phase, ops>>,
           th' \in [Threads -> ThRec],
           \A u \in Threads : Stays(u)
    PROVE  Inv'
<1>1. Typed
  BY DEF Inv
<1>2. \A x \in DOMAIN smem : smem[x] \in MapRec
  BY <1>1, TypeFacts
<1>3. /\ Unused \subseteq cached /\ cached' = cached \ Unused /\ cached \subseteq DOMAIN smem
      /\ watermark' = watermark - Cardinality(Unused) /\ smem_count' = smem_count - Cardinality(Unused)
  <2>1. Unused \subseteq cached
    BY DEF Unused
  <2>2. cached \subseteq DOMAIN smem
    BY <1>1 DEF Typed, RestType
  <2>3. /\ cached' = cached \ Unused /\ watermark' = watermark - Cardinality(Unused)
        /\ smem_count' = smem_count - Cardinality(Unused)
    BY ZenonT(40) DEF free_unused_mapping
  <2> QED BY <2>1, <2>2, <2>3
<1>4. /\ DOMAIN smem' = DOMAIN smem /\ \A x \in DOMAIN smem : x \notin Unused => smem'[x] = smem[x]
      /\ \A x \in Unused : smem'[x] = [smem[x] EXCEPT !.st = "freed", !.lost = IF InWindow(x) THEN "window" ELSE @]
  BY <1>3 DEF free_unused_mapping
<1>5. \A x \in Unused : /\ smem'[x] \in MapRec /\ smem'[x].buf = smem[x].buf /\ smem'[x].ref = smem[x].ref
                        /\ smem'[x].st = "freed" /\ (InWindow(x) => smem'[x].lost = "window")
  <2> TAKE x \in Unused
  <2>1. x \in DOMAIN smem /\ smem[x] \in MapRec
    BY <1>2, <1>3
  <2>2. PICK l : l = IF InWindow(x) THEN "window" ELSE smem[x].lost
    OBVIOUS
  <2>3. l \in {"no", "window", "invalid"}
    BY <2>1, <2>2 DEF MapRec
  <2>4. smem'[x] = [smem[x] EXCEPT !.st = "freed", !.lost = l]
    BY <1>4, <2>2
  <2> QED BY <2>1, <2>2, <2>3, <2>4 DEF MapRec
<1>6. Frees(Unused)
  BY <1>4, <1>5 DEF Frees
<1>7. \A x \in DOMAIN smem : smem'[x].ref = smem[x].ref
  BY <1>4, <1>5
<1>8. SmemType' /\ Len(smem') = Len(smem) /\ DOMAIN smem' = DOMAIN smem
  <2>1. smem' = [x \in DOMAIN smem |-> smem'[x]]
    BY DEF free_unused_mapping
  <2>2. \A x \in DOMAIN smem : smem'[x] \in MapRec
    BY <1>2, <1>4, <1>5
  <2>3. smem' \in [DOMAIN smem -> MapRec]
    BY <2>1, <2>2
  <2> QED BY <1>1, <2>3, SmemMap
<1>9. EntryRec' = EntryRec /\ PersistRec' = PersistRec /\ WnccRec' = WnccRec /\ ThRec' = ThRec
  BY <1>8, SameRecs
<1>10. RestType'
  <2>1. Cardinality(Unused) \in Nat /\ \A b \in Bufs : Cardinality({s \in Unused : smem[s].buf = b}) \in Nat
    <3>1. IsFiniteSet(DOMAIN smem)
      BY <1>1, TypeFacts, FS_Interval
    <3>2. IsFiniteSet(Unused)
      BY <1>3, <3>1, FS_Subset
    <3>3. \A b \in Bufs : IsFiniteSet({s \in Unused : smem[s].buf = b})
      BY <3>2, FS_Subset
    <3> QED BY <3>2, <3>3, FS_CardinalityType
  <2>2. dmaref' = Put(smem, Unused)
    BY DEF free_unused_mapping
  <2>3. dmaref' \in [Bufs -> Int]
    BY <1>1, <2>1, <2>2 DEF Put, Typed, RestType
  <2> QED BY <1>1, <1>3, <1>8, <2>1, <2>3 DEF Typed, RestType
<1>11. Typed'
  BY <1>1, <1>8, <1>9, <1>10 DEF Typed, ListType, ThType
<1>12. \A u \in Threads :
         /\ th'[u].op = th[u].op /\ th'[u].todo = th[u].todo /\ th'[u].got = th[u].got /\ th'[u].s = th[u].s
         /\ th'[u] = th[u] \/ (th[u].pc = "add" /\ th'[u].pc = "insert")
         /\ th'[u].pc \in {"add", "insert"} <=> th[u].pc \in {"add", "insert"}
         /\ th'[u].pc \notin {"add", "insert"} => th'[u] = th[u]
  BY StaysFields
<1>13. New' = New
  <2>1. \A x : x \in New' <=> \E u \in Threads : th'[u].pc \in {"add", "insert"} /\ th'[u].s = x
    BY DEF New
  <2>2. \A x : x \in New' <=> x \in New
    BY <1>12, <2>1, InNew
  <2> QED BY <2>2
<1>14. Sources' = Sources /\ Persisting' = Persisting
  BY DEF Sources, Persisting
<1>15. Less
  BY <1>13, <1>14 DEF Less
<1>16. /\ Live' = Live \ Unused /\ \A s \in Tracked : s \notin Unused => s \in Tracked'
       /\ Tracked' \subseteq Tracked
  BY <1>6, FreesSets, UnusedUsers
<1>17. ShapeInv'
  <2>1. ASSUME NEW u \in Threads PROVE Shape(th'[u])
    <3>1. Shape(th[u])
      BY DEF Inv, ShapeInv
    <3>2. CASE th'[u] = th[u]
      BY <3>1, <3>2
    <3>3. CASE th[u].pc = "add" /\ th'[u].pc = "insert"
      BY <3>1, <3>3, <1>12 DEF Shape, Having
    <3> QED BY <3>2, <3>3, <1>12
  <2> QED BY <2>1 DEF ShapeInv
<1>18. HandInv'
  <2>1. \A v : /\ Hand(v) /\ (v.pc \in {"inc", "valid", "use"} => v.s \in Tracked')
               /\ (v.pc \in {"add", "insert"} => v.s \in Live')
               /\ (v.pc = "inc" => v.s \in cached' \/ smem'[v.s].lost = "window")
               => Hand(v)'
    BY <1>6, <1>15, HandStays
  <2>2. ASSUME NEW u \in Threads
        PROVE  /\ Hand(th'[u]) /\ (th'[u].pc \in {"inc", "valid", "use"} => th'[u].s \in Tracked')
               /\ (th'[u].pc \in {"add", "insert"} => th'[u].s \in Live')
               /\ (th'[u].pc = "inc" => th'[u].s \in cached' \/ smem'[th'[u].s].lost = "window")
    <3>1. Hand(th[u])
      BY DEF Inv, HandInv
    <3>2. CASE th[u].s \in Unused
      <4>1. th[u].pc = "inc" /\ th[u].s \in DOMAIN smem
        BY <1>3, <3>2, UnusedUsers
      <4>2. th'[u] = th[u]
        BY <4>1, <1>12
      <4>3. InWindow(th[u].s)
        BY <4>1 DEF InWindow
      <4>4. smem'[th[u].s].lost = "window"
        BY <3>2, <4>3, <1>5
      <4>5. th[u].s \in Tracked'
        BY <4>1, <4>4, <1>4 DEF Tracked
      <4> QED BY <3>1, <4>1, <4>2, <4>4, <4>5
    <3>3. CASE th[u].s \notin Unused
      <4>1. th[u].pc \in Having => th[u].s \in Tracked' /\ th[u].s \in DOMAIN smem
        BY <1>16, <3>3, HandIs
      <4>2. th[u].pc \in {"add", "insert"} => th[u].s \in Live'
        BY <1>16, <3>1, <3>3 DEF Hand
      <4>3. th[u].pc = "inc" => th[u].s \in cached' \/ smem'[th[u].s].lost = "window"
        BY <1>3, <1>4, <3>1, <3>3, <4>1 DEF Hand, Having
      <4>4. CASE th'[u] = th[u]
        BY <3>1, <4>1, <4>2, <4>3, <4>4 DEF Having
      <4>5. CASE th[u].pc = "add" /\ th'[u].pc = "insert"
        BY <3>1, <4>2, <4>5, <1>12 DEF Hand, Having
      <4> QED BY <4>4, <4>5, <1>12
    <3> QED BY <3>2, <3>3
  <2> QED BY <2>1, <2>2 DEF HandInv
<1>19. AloneInv'
  BY <1>12 DEF Inv, AloneInv
<1>20. \A e : EntryOK(e) /\ e.s \notin Unused => EntryOK(e)'
  <2>1. \A e : EntryOK(e) => e.s \in Tracked /\ (~e.own => e.s \in Persisting)
    BY DEF EntryOK, Shared
  <2> QED BY <2>1, <1>6, <1>14, <1>15, <1>16, EntryStays
<1>21. FrameInv'
  <2>1. \A i \in DOMAIN frames : \A k \in DOMAIN frames[i] : EntryOK(frames[i][k]) /\ frames[i][k].s \notin Unused
    BY UnusedUsers DEF Inv, FrameInv, EntriesOK
  <2> QED BY <1>20, <2>1 DEF FrameInv, EntriesOK
<1>22. GotInv'
  <2>1. \A u \in Threads : \A k \in DOMAIN th[u].got : EntryOK(th[u].got[k]) /\ th[u].got[k].s \notin Unused
    BY UnusedUsers DEF Inv, GotInv, EntriesOK
  <2> QED BY <1>12, <1>20, <2>1 DEF GotInv, EntriesOK
<1>23. CallInv' /\ ExclInv'
  BY <1>12 DEF Inv, CallInv, ExclInv, Calling
<1>24. CacheInv'
  <2>1. \A s \in cached' : s \in Live /\ s \in Shared /\ smem[s].buf \in Bufs /\ s \in Tracked /\ s \in DOMAIN smem
    BY <1>3 DEF Inv, CacheInv, Shared
  <2>2. \A s \in cached' : s \in Live' /\ s \in Shared'
    BY <1>3, <1>15, <1>16, <2>1, SharedStays
  <2>3. \A s \in cached' : smem'[s].buf \in Bufs
    BY <1>6, <2>1 DEF Frees
  <2>4. \A s \in DOMAIN smem' : smem'[s].lost = "window" => smem'[s].st = "freed"
    BY <1>4, <1>5 DEF Inv, CacheInv
  <2> QED BY <2>2, <2>3, <2>4 DEF CacheInv
<1>25. PersistInv'
  <2>1. \A i \in DOMAIN persist : PersistOK(persist[i]) /\ persist[i].s \notin Unused
    BY PersistOKs, UnusedUsers DEF Inv
  <2>2. \A p : PersistOK(p) /\ p.s \notin Unused => PersistOK(p)'
    <3>1. \A p : PersistOK(p) => p.s \in Tracked
      BY DEF PersistOK, Shared
    <3>2. cached' \subseteq cached
      BY <1>3
    <3> QED BY <3>1, <3>2, <1>6, <1>15, <1>16, PersistOKStays
  <2>3. (\A i \in DOMAIN persist : PersistOK(persist[i]))'
    BY <2>1, <2>2
  <2> QED BY <2>3 DEF Inv, PersistInv, PersistOK
<1>26. WnccInv'
  <2>1. Unused \cap Sources = {}
    BY UnusedUsers DEF Shared
  <2> QED BY <1>6, <2>1, WnccStays
<1>27. RefInv'
  <2> SUFFICES ASSUME Counting, NEW s \in Tracked' PROVE smem'[s].ref = Count(s)'
    BY DEF RefInv, Counting
  <2>1. smem[s].ref = Count(s) /\ s \in DOMAIN smem
    BY <1>16 DEF Inv, RefInv, Tracked
  <2>2. \A u \in Threads : Holds(th'[u], s) = Holds(th[u], s)
    <3> SUFFICES ASSUME NEW u \in Threads PROVE Holds(th'[u], s) = Holds(th[u], s)
      OBVIOUS
    <3>1. CASE th'[u] = th[u]
      BY <3>1
    <3>2. CASE th[u].pc = "add" /\ th'[u].pc = "insert"
      BY <3>2, <1>12 DEF Holds
    <3> QED BY <3>1, <3>2, <1>12
  <2>3. ThreadRefs(th', s) = ThreadRefs(th, s)
    BY <2>2 DEF ThreadRefs
  <2>4. Count(s)' = Count(s)
    BY <2>3 DEF Count
  <2> QED BY <2>1, <2>4, <1>7
<1>28. HomeInv'
  <2> SUFFICES ASSUME NEW s \in Live'
               PROVE  \/ smem'[s].lost = "invalid" \/ s \in cached' \/ s \in Sources'
                      \/ Counting /\ s \in New'
                      \/ Counting /\ smem'[s].ref > 0
    BY DEF HomeInv, Counting
  <2>1. s \in Live /\ s \notin Unused /\ s \in DOMAIN smem
    BY <1>16 DEF Live
  <2>2. HomeInv
    BY DEF Inv
  <2>3. \/ smem[s].lost = "invalid" \/ s \in cached \/ s \in Sources
        \/ Counting /\ s \in New
        \/ Counting /\ smem[s].ref > 0
    BY <2>1, <2>2 DEF HomeInv
  <2> QED BY <2>1, <2>3, <1>3, <1>4, <1>13, <1>14
<1>29. PhaseInv'
  <2>1. phase # "open" => \A u \in Threads : th'[u] = Idle
    BY <1>12, IdleFields DEF Inv, PhaseInv
  <2> QED BY <1>3, <2>1 DEF Inv, PhaseInv, Counting
<1> QED BY <1>11, <1>17, <1>18, <1>19, <1>21, <1>22, <1>23, <1>24, <1>25, <1>26, <1>27, <1>28,
           <1>29 DEF Inv

\* The worker that makes room.
LEMMA IovaCleanupStep ==
    ASSUME Inv, IovaCleanup
    PROVE  Inv'
<1>1. /\ free_unused_mapping /\ work' = FALSE
      /\ UNCHANGED <<cap, persist, frames, wncc, table, extra, th, phase, ops>>
  BY DEF IovaCleanup
<1>2. cap' \in {Cap, CapMax} /\ work' \in BOOLEAN /\ th' \in [Threads -> ThRec]
  BY <1>1 DEF Inv, Typed, RestType, ThType
<1>3. \A u \in Threads : Stays(u)
  BY <1>1 DEF Stays
<1> QED BY <1>1, <1>2, <1>3, Cleans

\* The limit of the cache only grows.
LEMMA CapGrows ==
    ASSUME Typed PROVE Max({cap, CapMax}) = CapMax
<1>1. cap \in Nat /\ CapMax \in Nat /\ cap <= CapMax
  BY Consts DEF Typed, RestType
<1>2. \A x \in {cap, CapMax} : CapMax >= x
  BY <1>1
<1>3. \A y \in {cap, CapMax} : (\A x \in {cap, CapMax} : y >= x) => y = CapMax
  BY <1>1
<1> QED BY <1>2, <1>3 DEF Max

\* A thread whose mapping is new goes to the cache, makes room or starts the worker.
LEMMA AddSmemStep ==
    ASSUME Inv, NEW t \in Threads, AddSmem(t)
    PROVE  Inv'
<1>1. th[t].pc = "add" /\ UNCHANGED <<persist, frames, wncc, table, extra, work, phase, ops>>
  BY DEF AddSmem
<1>2. CASE Cardinality(cached) < cap
  <2>1. th' = [th EXCEPT ![t].pc = "insert"] /\ UNCHANGED <<smem, cached, cap, dmaref, watermark, smem_count>>
    BY <1>2 DEF AddSmem
  <2> QED BY <1>1, <2>1, AddInsertStep, Zenon
<1>3. CASE ~(Cardinality(cached) < cap)
  <2>1. cap' \in {Cap, CapMax}
    BY <1>3, CapGrows DEF AddSmem, Inv
  <2>2. CASE Unused # {}
    <3>1. free_unused_mapping /\ th' = [th EXCEPT ![t].pc = "insert"]
      BY <1>3, <2>2 DEF AddSmem
    <3>2. th[t] \in ThRec /\ th \in [Threads -> ThRec]
      BY TypeFacts DEF Inv, Typed, ThType
    <3>3. th[t] = Rec(th[t].pc, th[t].op, th[t].todo, th[t].got, th[t].s)
      BY <3>2 DEF ThRec, Rec
    <3>4. PICK r : r = Rec("insert", th[t].op, th[t].todo, th[t].got, th[t].s)
      OBVIOUS
    <3>5. [th[t] EXCEPT !.pc = "insert"] = r
      BY <3>3, <3>4 DEF Rec
    <3>6. th' = [th EXCEPT ![t] = r]
      BY <3>1, <3>5
    <3>7. r \in ThRec
      BY <3>2, <3>4 DEF ThRec, Rec, Pcs
    <3>8. th' \in [Threads -> ThRec] /\ \A u \in Threads : th'[u] = IF u = t THEN r ELSE th[u]
      BY <3>2, <3>6, <3>7
    <3>9. \A u \in Threads : Stays(u)
      BY <1>1, <3>4, <3>8 DEF Stays
    <3>10. work' \in BOOLEAN
      BY <1>1 DEF Inv, Typed, RestType
    <3> QED BY <1>1, <2>1, <3>1, <3>8, <3>9, <3>10, Cleans
  <2>3. CASE Unused = {}
    <3>1. /\ smem' = [smem EXCEPT ![th[t].s].ref = @ + 1] /\ th' = [th EXCEPT ![t].pc = "use"]
          /\ UNCHANGED <<cached, dmaref, watermark, smem_count>>
      BY <1>3, <2>3 DEF AddSmem
    <3> QED BY <1>1, <2>1, <3>1, AddUseStep, Zenon
  <2> QED BY <2>2, <2>3
<1> QED BY <1>2, <1>3

\* A step that takes the mappings of D away, and entries of the lists.
LEMMA Takes ==
    ASSUME Inv, NEW D, D \subseteq Live, Frees(D), smem' \in [DOMAIN smem -> MapRec],
           \A x \in D : smem'[x].lost = smem[x].lost,
           NEW t, Others(t, Idle), t \in Threads => th[t].pc \notin {"add", "insert"},
           th' \in [Threads -> ThRec],
           RestType', ListType', cached' = cached \ D,
           \A u \in Threads : th'[u].pc \in Having => th'[u].s \notin D,
           \A i \in DOMAIN frames' : \A k \in DOMAIN frames'[i] :
             /\ EntryOK(frames'[i][k]) /\ frames'[i][k].s \notin D
             /\ ~frames'[i][k].own => frames'[i][k].s \in Persisting',
           \A u \in Threads : \A k \in DOMAIN th'[u].got :
             /\ th'[u].got[k].s \notin D
             /\ ~th'[u].got[k].own => th'[u].got[k].s \in Persisting',
           \A i \in DOMAIN persist' : persist'[i].s \notin D /\ \E j \in DOMAIN persist : persist'[i] = persist[j],
           \A i, j \in DOMAIN persist' : persist'[i].buf = persist'[j].buf => i = j,
           \A i \in DOMAIN wncc' : \E j \in DOMAIN wncc : wncc'[i] = wncc[j],
           WnccInv', RefInv', HomeInv', PhaseInv'
    PROVE  Inv'
<1>1. Typed
  BY DEF Inv
<1>2. SmemType' /\ Len(smem') = Len(smem) /\ DOMAIN smem' = DOMAIN smem
  BY <1>1, SmemMap
<1>3. ThRec' = ThRec
  BY <1>2, SameRecs
<1>4. Typed'
  BY <1>2, <1>3 DEF Typed, ThType
<1>5. \A u \in Threads : th'[u] = th[u] \/ th'[u] = Idle
  BY DEF Others
<1>6. Idle.pc = "idle" /\ Idle.got = <<>> /\ Idle.op = "none" /\ Idle.s = 0
  BY DEF Idle
<1>7. New' \subseteq New
  <2>1. \A x : x \in New' <=> \E u \in Threads : th'[u].pc \in {"add", "insert"} /\ th'[u].s = x
    BY DEF New
  <2>2. \A x \in New' : x \in New
    BY <1>5, <1>6, <2>1, InNew
  <2> QED BY <2>2
<1>8. Sources' \subseteq Sources
  BY DEF Sources
<1>9. Less
  BY <1>7, <1>8 DEF Less
<1>10. Live' = Live \ D /\ \A s \in Tracked : s \notin D => s \in Tracked'
  BY FreesSets
<1>11. ShapeInv'
  <2>1. Shape(Idle)
    BY <1>6 DEF Shape, Having, Lasting
  <2>2. \A u \in Threads : Shape(th'[u])
    BY <1>5, <2>1 DEF Inv, ShapeInv
  <2> QED BY <2>2 DEF ShapeInv
<1>12. HandInv'
  <2>1. \A v : /\ Hand(v) /\ (v.pc \in {"inc", "valid", "use"} => v.s \in Tracked')
               /\ (v.pc \in {"add", "insert"} => v.s \in Live')
               /\ (v.pc = "inc" => v.s \in cached' \/ smem'[v.s].lost = "window")
               => Hand(v)'
    BY <1>9, HandStays
  <2>2. ASSUME NEW u \in Threads
        PROVE  /\ Hand(th'[u]) /\ (th'[u].pc \in {"inc", "valid", "use"} => th'[u].s \in Tracked')
               /\ (th'[u].pc \in {"add", "insert"} => th'[u].s \in Live')
               /\ (th'[u].pc = "inc" => th'[u].s \in cached' \/ smem'[th'[u].s].lost = "window")
    <3>1. CASE th'[u].pc \in Having
      <4>1. th'[u] = th[u] /\ th[u].pc \in Having /\ th[u].s \notin D
        BY <1>5, <1>6, <3>1 DEF Having
      <4>2. Hand(th[u])
        BY DEF Inv, HandInv
      <4>3. th[u].s \in Tracked /\ th[u].s \in DOMAIN smem
        BY <4>1, HandIs
      <4>4. th[u].s \in Tracked' /\ smem'[th[u].s].lost = smem[th[u].s].lost
        BY <4>1, <4>3, <1>10 DEF Frees
      <4>5. th[u].pc \in {"add", "insert"} => th[u].s \in Live'
        BY <4>1, <4>2, <1>10 DEF Hand
      <4>6. th[u].pc = "inc" => th[u].s \in cached' \/ smem'[th[u].s].lost = "window"
        BY <4>1, <4>2, <4>4 DEF Hand
      <4> QED BY <4>1, <4>2, <4>4, <4>5, <4>6
    <3>2. CASE th'[u].pc \notin Having
      BY <3>2 DEF Having, Hand
    <3> QED BY <3>1, <3>2
  <2> QED BY <2>1, <2>2 DEF HandInv
<1>13. AloneInv'
  BY <1>5, <1>6 DEF Inv, AloneInv
<1>14. \A e : EntryOK(e) /\ e.s \notin D /\ (~e.own => e.s \in Persisting') => EntryOK(e)'
  <2>1. \A e : EntryOK(e) => e.s \in Tracked
    BY DEF EntryOK, Shared
  <2> QED BY <2>1, <1>9, <1>10, EntryStays
<1>15. FrameInv'
  BY <1>14 DEF FrameInv, EntriesOK
<1>16. GotInv'
  <2>1. \A u \in Threads : \A k \in DOMAIN th'[u].got : EntryOK(th'[u].got[k])
    BY <1>5, <1>6 DEF Inv, GotInv, EntriesOK
  <2> QED BY <1>14, <2>1 DEF GotInv, EntriesOK
<1>17. CallInv' /\ ExclInv'
  <2>1. Idle.op \notin Lasting
    BY <1>6 DEF Lasting
  <2> QED BY <2>1, CallsKept
<1>18. CacheInv'
  <2>1. \A s \in cached' : s \in Live /\ s \in Shared /\ smem[s].buf \in Bufs /\ s \in Tracked /\ s \in DOMAIN smem
    BY DEF Inv, CacheInv, Shared, Tracked
  <2>2. \A s \in cached' : s \in Live' /\ s \in Shared'
    BY <1>9, <1>10, <2>1, SharedStays
  <2>3. \A s \in cached' : smem'[s].buf \in Bufs
    BY <2>1 DEF Frees
  <2>4. \A s \in DOMAIN smem' : smem'[s].lost = "window" => smem'[s].st = "freed"
    BY <1>2 DEF Inv, CacheInv, Frees
  <2> QED BY <2>2, <2>3, <2>4 DEF CacheInv
<1>19. PersistInv'
  <2>1. \A i \in DOMAIN persist' : PersistOK(persist'[i]) /\ persist'[i].s \notin D
    BY PersistOKs DEF Inv
  <2>2. \A p : PersistOK(p) /\ p.s \notin D => PersistOK(p)'
    <3>1. \A p : PersistOK(p) => p.s \in Tracked
      BY DEF PersistOK, Shared
    <3>2. cached' \subseteq cached
      OBVIOUS
    <3> QED BY <3>1, <3>2, <1>9, <1>10, PersistOKStays
  <2>3. (\A i \in DOMAIN persist : PersistOK(persist[i]))'
    BY <2>1, <2>2
  <2> QED BY <2>3 DEF PersistInv, PersistOK
<1> QED BY <1>4, <1>11, <1>12, <1>13, <1>15, <1>16, <1>17, <1>18, <1>19 DEF Inv

\* A mapping that is there is tracked.
LEMMA LiveTracked ==
    ASSUME Inv, NEW s \in Live
    PROVE  s \in Tracked /\ s \in DOMAIN smem /\ smem[s].lost # "window"
  BY DEF Inv, CacheInv, Live, Tracked

\* RefInv, for one mapping.
LEMMA RefIs ==
    ASSUME Inv, Counting, NEW s \in Tracked
    PROVE  smem[s].ref = Count(s)
  BY DEF Inv, RefInv

\* What unmap_frame_buf does to the mappings.
LEMMA Unmaps ==
    ASSUME Typed, NEW n, \A x \in DOMAIN smem : n[x] \in Nat /\ n[x] <= smem[x].ref, unmap_frame_buf(n)
    PROVE  /\ Frees(Gone(n)) /\ smem' \in [DOMAIN smem -> MapRec]
           /\ \A x \in DOMAIN smem : smem'[x].lost = smem[x].lost /\ smem'[x].ref = smem[x].ref - n[x]
<1> DEFINE D == Gone(n)
           d == Dropped(smem, n)
<1>1. smem' = Unmapped(d, D)
  BY DEF unmap_frame_buf
<1>2. DOMAIN d = DOMAIN smem /\ \A x \in DOMAIN smem : d[x] = [smem[x] EXCEPT !.ref = @ - n[x]]
  BY DEF Dropped
<1> HIDE DEF d, D
<1>3. smem' = [x \in DOMAIN smem |-> IF x \in D THEN [d[x] EXCEPT !.st = "freed"] ELSE d[x]]
  BY <1>1, <1>2 DEF Unmapped
<1>4. ASSUME NEW x \in DOMAIN smem
      PROVE  /\ smem'[x] \in MapRec /\ smem'[x].buf = smem[x].buf /\ smem'[x].lost = smem[x].lost
             /\ smem'[x].ref = smem[x].ref - n[x] /\ (x \notin D => smem'[x].st = smem[x].st)
             /\ (x \in D => smem'[x].st = "freed")
  <2>1. smem[x] \in MapRec
    BY TypeFacts
  <2>2. smem[x].ref - n[x] \in Nat
    BY <2>1 DEF MapRec
  <2>3. PICK r : r = smem[x].ref - n[x]
    OBVIOUS
  <2>4. d[x] = [smem[x] EXCEPT !.ref = r] /\ r \in Nat
    BY <1>2, <2>2, <2>3
  <2>5. d[x] \in MapRec /\ d[x].buf = smem[x].buf /\ d[x].lost = smem[x].lost /\ d[x].ref = r /\ d[x].st = smem[x].st
    BY <2>1, <2>4 DEF MapRec
  <2>6. smem'[x] = IF x \in D THEN [d[x] EXCEPT !.st = "freed"] ELSE d[x]
    BY <1>3
  <2>7. CASE x \in D
    <3>1. smem'[x] = [d[x] EXCEPT !.st = "freed"]
      BY <2>6, <2>7
    <3> QED BY <2>3, <2>5, <2>7, <3>1 DEF MapRec
  <2>8. CASE x \notin D
    BY <2>3, <2>5, <2>6, <2>8
  <2> QED BY <2>7, <2>8
<1>5. smem' \in [DOMAIN smem -> MapRec] /\ DOMAIN smem' = DOMAIN smem
  BY <1>3, <1>4
<1> QED BY <1>4, <1>5 DEF Frees, D

\* The type of dmaref after the dma_bufs of D are put.
LEMMA PutType ==
    ASSUME Typed, NEW S, S \subseteq DOMAIN smem
    PROVE  Put(smem, S) \in [Bufs -> Int] /\ Cardinality(S) \in Nat
<1>1. IsFiniteSet(DOMAIN smem)
  BY TypeFacts, FS_Interval
<1>2. IsFiniteSet(S)
  BY <1>1, FS_Subset
<1>3. \A b \in Bufs : IsFiniteSet({s \in S : smem[s].buf = b})
  BY <1>2, FS_Subset
<1>4. Cardinality(S) \in Nat /\ \A b \in Bufs : Cardinality({s \in S : smem[s].buf = b}) \in Nat
  BY <1>2, <1>3, FS_CardinalityType
<1> QED BY <1>4 DEF Put, Typed, RestType

\* References of frames are dropped; a mapping out of the cache goes with its last one.
LEMMA DropFrames ==
    ASSUME Inv, Counting, Counting', NEW n, unmap_frame_buf(n),
           \A x \in DOMAIN smem : /\ n[x] \in Nat /\ (n[x] > 0 => x \in Shared)
                                  /\ n[x] <= Count(x) /\ Count(x)' = Count(x) - n[x],
           NEW t, Others(t, Idle), t \in Threads => th[t].pc \notin {"add", "insert"},
           th' \in [Threads -> ThRec],
           frames' \in Seq(Seq(EntryRec)),
           \A i \in DOMAIN frames' : \E j \in DOMAIN frames : frames'[i] = frames[j],
           UNCHANGED <<cached, cap, persist, wncc, table, extra, watermark, work, ops>>,
                       phase' \in Phases,
           New' = New, PhaseInv'
    PROVE  Inv'
<1> DEFINE D == Gone(n)
<1>1. Typed
  BY DEF Inv
<1>2. \A x \in DOMAIN smem : smem[x] \in MapRec /\ smem[x].ref \in Nat
  BY <1>1, TypeFacts DEF MapRec
<1>3. \A x \in DOMAIN smem : n[x] <= smem[x].ref
  <2> SUFFICES ASSUME NEW x \in DOMAIN smem PROVE n[x] <= smem[x].ref
    OBVIOUS
  <2>1. CASE n[x] > 0
    BY <2>1, RefIs DEF Shared
  <2>2. CASE ~(n[x] > 0)
    BY <2>2, <1>2
  <2> QED BY <2>1, <2>2
<1>4. /\ Frees(D) /\ smem' \in [DOMAIN smem -> MapRec]
      /\ \A x \in DOMAIN smem : smem'[x].lost = smem[x].lost /\ smem'[x].ref = smem[x].ref - n[x]
  BY <1>1, <1>3, Unmaps
<1>5. \A x \in D : /\ x \in DOMAIN smem /\ n[x] > 0 /\ x \in Shared /\ smem[x].ref = n[x]
                   /\ x \notin cached /\ smem[x].lost # "window"
  BY DEF Gone, Flagged
<1>6. dmaref' = Put(smem, D \cap Live) /\ smem_count' = smem_count - Cardinality(D \cap Live)
  BY DEF unmap_frame_buf
<1> HIDE DEF D
<1>7. D \subseteq Live
  BY <1>5 DEF Shared, Tracked, Live
<1>8. \A x \in D : Count(x)' = 0
  <2> SUFFICES ASSUME NEW x \in D PROVE Count(x)' = 0
    OBVIOUS
  <2>1. smem[x].ref = Count(x)
    BY <1>5, RefIs DEF Shared
  <2>2. x \in DOMAIN smem /\ n[x] = smem[x].ref /\ Count(x)' = Count(x) - n[x] /\ n[x] \in Nat
    BY <1>5
  <2> QED BY <2>1, <2>2
<1>9. SmemType' /\ Len(smem') = Len(smem) /\ DOMAIN smem' = DOMAIN smem
  BY <1>1, <1>4, SmemMap
<1>10. EntryRec' = EntryRec /\ PersistRec' = PersistRec /\ WnccRec' = WnccRec /\ ThRec' = ThRec
  BY <1>9, SameRecs
<1>11. ListType'
  BY <1>1, <1>10 DEF Typed, ListType
<1>12. RestType'
  <2>1. D \cap Live \subseteq DOMAIN smem
    BY DEF Live
  <2>2. dmaref' \in [Bufs -> Int] /\ Cardinality(D \cap Live) \in Nat
    BY <1>1, <1>6, <2>1, PutType
  <2>3. smem_count' \in Int
    BY <1>1, <1>6, <2>2 DEF Typed, RestType
  <2> QED BY <1>1, <1>9, <2>2, <2>3 DEF Typed, RestType
<1>13. Typed'
  BY <1>9, <1>10, <1>11, <1>12 DEF Typed, ThType
<1>14. Persisting' = Persisting /\ Sources' = Sources
  BY DEF Persisting, Sources
<1>15. ASSUME NEW x \in D
       PROVE  /\ \A i \in DOMAIN frames' : Owners(frames'[i], x) = {}
              /\ \A u \in Threads : Owners(th'[u].got, x) = {} /\ Taken(th'[u], x) = 0
              /\ \A i \in DOMAIN persist : persist[i].s # x
  <2>1. Cardinality(FrameRefs(frames', x)) + Cardinality(ThreadRefs(th', x))
        + Cardinality(PersistRefs(persist', x)) = 0
    BY <1>8 DEF Count
  <2>2. \A u \in Threads : th'[u].got \in Seq(EntryRec)
    BY DEF ThRec
  <2>3. persist' \in Seq(PersistRec) /\ \A k \in DOMAIN persist' : persist'[k].hits \in Nat
    BY <1>1, TypeFacts DEF Typed, ListType, PersistRec
  <2> DEFINE E == EntryRec
             P == PersistRec
             fs == frames'
             h == th'
             l == persist'
  <2>4. fs \in Seq(Seq(E)) /\ (\A u \in Threads : h[u].got \in Seq(E)) /\ l \in Seq(P)
    BY <2>2, <2>3
  <2>5. \A k \in DOMAIN l : l[k].hits \in Nat
    BY <2>3
  <2>6. Cardinality(FrameRefs(fs, x)) + Cardinality(ThreadRefs(h, x)) + Cardinality(PersistRefs(l, x)) = 0
    BY <2>1
  <2> HIDE DEF E, P, fs, h, l
  <2>7. /\ \A i \in DOMAIN fs : Owners(fs[i], x) = {}
        /\ \A u \in Threads : Owners(h[u].got, x) = {} /\ Taken(h[u], x) = 0
        /\ \A i \in DOMAIN l : l[i].s # x
    <3>1. /\ Cardinality(FrameRefs(fs, x)) \in Nat
          /\ Cardinality(FrameRefs(fs, x)) = 0 <=> \A i \in DOMAIN fs : Owners(fs[i], x) = {}
      BY <2>4, FramesFinite
    <3>2. /\ Cardinality(ThreadRefs(h, x)) \in Nat
          /\ Cardinality(ThreadRefs(h, x)) = 0 <=>
               \A u \in Threads : Owners(h[u].got, x) = {} /\ Taken(h[u], x) = 0
      BY <2>4, ThreadsFinite
    <3>3. /\ Cardinality(PersistRefs(l, x)) \in Nat
          /\ Cardinality(PersistRefs(l, x)) = 0 <=> \A i \in DOMAIN l : l[i].s # x
      BY <2>4, <2>5, PersistFinite
    <3>4. /\ Cardinality(FrameRefs(fs, x)) = 0 /\ Cardinality(ThreadRefs(h, x)) = 0
          /\ Cardinality(PersistRefs(l, x)) = 0
      BY <2>6, <3>1, <3>2, <3>3
    <3> QED BY <3>1, <3>2, <3>3, <3>4
  <2> QED BY <2>7 DEF fs, h, l
<1>16. \A x \in D : x \notin Persisting
  BY <1>15 DEF Persisting
<1>17. cached' = cached \ D
  BY <1>5
<1>18. \A i \in DOMAIN frames' : \A k \in DOMAIN frames'[i] :
         /\ EntryOK(frames'[i][k]) /\ frames'[i][k].s \notin D
         /\ ~frames'[i][k].own => frames'[i][k].s \in Persisting'
  <2> SUFFICES ASSUME NEW i \in DOMAIN frames', NEW k \in DOMAIN frames'[i]
               PROVE  /\ EntryOK(frames'[i][k]) /\ frames'[i][k].s \notin D
                      /\ ~frames'[i][k].own => frames'[i][k].s \in Persisting'
    OBVIOUS
  <2>1. PICK e : e = frames'[i][k]
    OBVIOUS
  <2>2. EntryOK(e)
    BY <2>1 DEF Inv, FrameInv, EntriesOK
  <2>3. ~e.own => e.s \in Persisting
    BY <2>2 DEF EntryOK
  <2>4. e.s \in D => k \notin Owners(frames'[i], e.s)
    BY <1>15
  <2>5. e.s \notin D
    BY <2>1, <2>3, <2>4, <1>16 DEF Owners
  <2> QED BY <2>1, <2>2, <2>3, <2>5, <1>14
<1>19. \A u \in Threads : th'[u] = th[u] \/ th'[u] = Idle
  BY DEF Others
<1>20. Idle.pc = "idle" /\ Idle.got = <<>>
  BY DEF Idle
<1>21. \A u \in Threads : \A k \in DOMAIN th'[u].got :
         /\ th'[u].got[k].s \notin D
         /\ ~th'[u].got[k].own => th'[u].got[k].s \in Persisting'
  <2> SUFFICES ASSUME NEW u \in Threads, NEW k \in DOMAIN th'[u].got
               PROVE  /\ th'[u].got[k].s \notin D
                      /\ ~th'[u].got[k].own => th'[u].got[k].s \in Persisting'
    OBVIOUS
  <2>1. PICK e : e = th'[u].got[k]
    OBVIOUS
  <2>2. EntryOK(e)
    BY <2>1, <1>19, <1>20 DEF Inv, GotInv, EntriesOK
  <2>3. ~e.own => e.s \in Persisting
    BY <2>2 DEF EntryOK
  <2>4. e.s \in D => k \notin Owners(th'[u].got, e.s)
    BY <1>15
  <2>5. e.s \notin D
    BY <2>1, <2>3, <2>4, <1>16 DEF Owners
  <2> QED BY <2>1, <2>3, <2>5, <1>14
<1>22. \A u \in Threads : th'[u].pc \in Having => th'[u].s \notin D
  <2> SUFFICES ASSUME NEW u \in Threads, th'[u].pc \in Having, th'[u].s \in D PROVE FALSE
    OBVIOUS
  <2>1. th'[u] = th[u]
    BY <1>19, <1>20 DEF Having
  <2>2. Hand(th[u]) /\ th[u].s \in Shared /\ Taken(th[u], th[u].s) = 0
    BY <1>5, <1>15, <2>1 DEF Inv, HandInv
  <2>3. th[u].pc \notin {"valid", "use"}
    BY <2>2 DEF Taken
  <2>4. th[u].pc \notin {"add", "insert"}
    BY <2>2, InNew DEF Shared
  <2>5. th[u].pc = "inc"
    BY <2>1, <2>3, <2>4 DEF Having
  <2> QED BY <1>5, <2>1, <2>2, <2>5 DEF Hand
<1>23. \A i \in DOMAIN persist' : persist'[i].s \notin D /\ \E j \in DOMAIN persist : persist'[i] = persist[j]
  BY <1>16 DEF Persisting
<1>24. \A i, j \in DOMAIN persist' : persist'[i].buf = persist'[j].buf => i = j
  BY DEF Inv, PersistInv
<1>25. WnccInv'
  <2>1. D \cap Sources = {}
    BY <1>5 DEF Shared
  <2> QED BY <1>4, <2>1, WnccStays
<1>26. Tracked' \subseteq Tracked /\ Live' = Live \ D
  <2>1. \A x \in Tracked' : x \in Tracked
    BY <1>5, <1>4, FreesSets DEF Shared
  <2> QED BY <2>1, <1>4, FreesSets
<1>27. RefInv'
  <2> SUFFICES ASSUME NEW x \in Tracked' PROVE smem'[x].ref = Count(x)'
    BY DEF RefInv
  <2>1. x \in Tracked /\ x \in DOMAIN smem
    BY <1>26 DEF Tracked
  <2> QED BY <2>1, <1>4, RefIs
<1>28. HomeInv'
  <2> SUFFICES ASSUME NEW x \in Live'
               PROVE  \/ smem'[x].lost = "invalid" \/ x \in cached' \/ x \in Sources'
                      \/ x \in New' \/ smem'[x].ref > 0
    BY DEF HomeInv
  <2>1. x \in Live /\ x \notin D /\ x \in DOMAIN smem /\ smem[x].lost # "window"
    BY <1>26, LiveTracked
  <2>2. \/ smem[x].lost = "invalid" \/ x \in cached \/ x \in Sources
        \/ x \in New \/ smem[x].ref > 0
    BY <2>1 DEF Inv, HomeInv
  <2>3. smem[x].ref > 0 => smem'[x].ref > 0 \/ x \in cached
    <3>1. smem[x].ref \in Nat /\ n[x] \in Nat /\ n[x] <= smem[x].ref /\ smem'[x].ref = smem[x].ref - n[x]
      BY <2>1, <1>2, <1>3, <1>4
    <3>2. n[x] > 0 /\ smem[x].ref = n[x] => Flagged(x)
      BY <2>1 DEF D, Gone
    <3>3. n[x] > 0 /\ smem[x].ref = n[x] => x \in cached
      BY <2>1, <3>2 DEF Flagged
    <3> QED BY <3>1, <3>3
  <2> QED BY <2>1, <2>2, <2>3, <1>4, <1>14
<1>29. \A x \in D : smem'[x].lost = smem[x].lost
  BY <1>4, <1>5
<1>30. \A i \in DOMAIN wncc' : \E j \in DOMAIN wncc : wncc'[i] = wncc[j]
  OBVIOUS
<1> QED BY <1>4, <1>7, <1>11, <1>12, <1>17, <1>18, <1>21, <1>22, <1>23, <1>24, <1>25, <1>27, <1>28,
           <1>29, <1>30, Takes

\* What a frame holds references on is shared.
LEMMA OwnedShared ==
    ASSUME NEW bs \in Seq(EntryRec), EntriesOK(bs), NEW x
    PROVE  /\ Cardinality(Owners(bs, x)) \in Nat
           /\ Cardinality(Owners(bs, x)) > 0 => x \in Shared
<1>1. Cardinality(Owners(bs, x)) \in Nat /\ (Owners(bs, x) = {} => Cardinality(Owners(bs, x)) = 0)
  <2> DEFINE E == EntryRec
  <2> HIDE DEF E
  <2>1. bs \in Seq(E)
    BY DEF E
  <2> QED BY <2>1, OwnersFinite
<1>2. ASSUME Cardinality(Owners(bs, x)) > 0 PROVE x \in Shared
  <2>1. PICK k : k \in Owners(bs, x)
    BY <1>1, <1>2
  <2> QED BY <2>1 DEF Owners, EntriesOK, EntryOK
<1> QED BY <1>1, <1>2

\* Each part of the count is at most the count.
LEMMA CountParts ==
    ASSUME Typed, NEW x
    PROVE  /\ Cardinality(FrameRefs(frames, x)) \in Nat /\ Cardinality(FrameRefs(frames, x)) <= Count(x)
           /\ Cardinality(ThreadRefs(th, x)) \in Nat /\ Cardinality(ThreadRefs(th, x)) <= Count(x)
           /\ Cardinality(PersistRefs(persist, x)) \in Nat /\ Cardinality(PersistRefs(persist, x)) <= Count(x)
           /\ Count(x) \in Nat
<1>1. /\ Cardinality(FrameRefs(frames, x)) \in Nat
      /\ Cardinality(ThreadRefs(th, x)) \in Nat
      /\ Cardinality(PersistRefs(persist, x)) \in Nat
  BY CountNat
<1> QED BY <1>1 DEF Count

\* A frame that could not be mapped as a whole is undone.
LEMMA UndoFrameStep ==
    ASSUME Inv, NEW t \in Threads, UndoFrame(t)
    PROVE  Inv'
<1>1. /\ th[t].pc = "undo" /\ Finish(t)
      /\ UNCHANGED <<cached, cap, persist, frames, wncc, table, extra, watermark, work, phase, ops>>
  BY DEF UndoFrame
<1>2. Typed /\ phase = "open" /\ Counting /\ Counting'
  BY <1>1, Open DEF Inv, Counting
<1>3. PICK n : n = Owned(th[t].got)
  OBVIOUS
<1>4. unmap_frame_buf(n)
  BY <1>3 DEF UndoFrame
<1>5. th[t].got \in Seq(EntryRec) /\ EntriesOK(th[t].got)
  BY <1>2, TypeFacts, ThreadFields DEF Inv, GotInv
<1>6. /\ \A u \in Threads : th'[u] = IF u = t THEN Idle ELSE th[u]
      /\ th' \in [Threads -> ThRec]
  BY <1>1, <1>2, EndCount
<1>7. \A x \in DOMAIN smem : /\ n[x] \in Nat /\ (n[x] > 0 => x \in Shared)
                             /\ n[x] <= Count(x) /\ Count(x)' = Count(x) - n[x]
  <2> SUFFICES ASSUME NEW x \in DOMAIN smem
               PROVE  /\ n[x] \in Nat /\ (n[x] > 0 => x \in Shared)
                      /\ n[x] <= Count(x) /\ Count(x)' = Count(x) - n[x]
    OBVIOUS
  <2>1. n[x] = Cardinality(Owners(th[t].got, x))
    BY <1>3 DEF Owned
  <2>2. n[x] \in Nat /\ (n[x] > 0 => x \in Shared)
    BY <1>5, <2>1, OwnedShared
  <2>3. Held(th[t], x) = n[x]
    BY <1>1, <2>1, <2>2 DEF Held, Taken
  <2>4. /\ Cardinality(ThreadRefs(th', x)) = Cardinality(ThreadRefs(th, x)) - n[x]
        /\ n[x] <= Cardinality(ThreadRefs(th, x))
    BY <1>1, <1>2, <2>3, EndCount
  <2>5. /\ Cardinality(FrameRefs(frames, x)) \in Nat /\ Cardinality(ThreadRefs(th, x)) \in Nat
        /\ Cardinality(PersistRefs(persist, x)) \in Nat /\ Cardinality(ThreadRefs(th, x)) <= Count(x) /\ Count(x) \in Nat
    BY <1>2, CountParts
  <2>6. Count(x)' = Cardinality(FrameRefs(frames, x)) + Cardinality(ThreadRefs(th', x))
                    + Cardinality(PersistRefs(persist, x))
    BY <1>1 DEF Count
  <2>7. Count(x) = Cardinality(FrameRefs(frames, x)) + Cardinality(ThreadRefs(th, x))
                    + Cardinality(PersistRefs(persist, x))
    BY DEF Count
  <2> QED BY <2>2, <2>4, <2>5, <2>6, <2>7
<1>8. Others(t, Idle)
  BY <1>6 DEF Others
<1>9. New' = New
  <2>1. Idle.pc \notin {"add", "insert"} /\ th[t].pc \notin {"add", "insert"}
    BY <1>1 DEF Idle
  <2> QED BY <1>6, <2>1, SameNew
<1>10. PhaseInv'
  BY <1>1, <1>2 DEF PhaseInv, Counting
<1>11. frames' \in Seq(Seq(EntryRec)) /\ \A i \in DOMAIN frames' : \E j \in DOMAIN frames : frames'[i] = frames[j]
  BY <1>1, <1>2 DEF Typed, ListType
<1>12. phase' \in Phases /\ th[t].pc \notin {"add", "insert"}
  BY <1>1, <1>2 DEF Phases
<1> QED BY <1>1, <1>2, <1>4, <1>6, <1>7, <1>8, <1>9, <1>10, <1>11, <1>12, DropFrames

\* msm_cvp_unmap_frame.
LEMMA UnmapFrameStep ==
    ASSUME Inv, NEW i \in DOMAIN frames, UnmapFrame(i)
    PROVE  Inv'
<1>1. /\ phase = "open" /\ frames' = RemoveAt(frames, i)
      /\ UNCHANGED <<cached, cap, persist, wncc, table, extra, watermark, work, th, phase, ops>>
  BY DEF UnmapFrame
<1>2. Typed /\ Counting /\ Counting'
  BY <1>1 DEF Inv, Counting
<1>3. PICK n : n = Owned(frames[i])
  OBVIOUS
<1>4. unmap_frame_buf(n)
  BY <1>3 DEF UnmapFrame
<1>5. frames \in Seq(Seq(EntryRec)) /\ frames[i] \in Seq(EntryRec) /\ EntriesOK(frames[i])
  BY <1>2, TypeFacts DEF Inv, FrameInv, Typed, ListType
<1>6. /\ frames' \in Seq(Seq(EntryRec)) /\ \A j \in DOMAIN frames' : \E k \in DOMAIN frames : frames'[j] = frames[k]
      /\ \A x : /\ Cardinality(FrameRefs(frames', x)) =
                     Cardinality(FrameRefs(frames, x)) - Cardinality(Owners(frames[i], x))
                /\ Cardinality(Owners(frames[i], x)) <= Cardinality(FrameRefs(frames, x))
  <2> DEFINE E == EntryRec
  <2>1. frames \in Seq(Seq(E))
    BY <1>5
  <2> HIDE DEF E
  <2>2. /\ RemoveAt(frames, i) \in Seq(Seq(E))
        /\ \A j \in DOMAIN RemoveAt(frames, i) : /\ RemoveAt(frames, i)[j] = frames[Skip(i, j)]
                                                 /\ Skip(i, j) \in DOMAIN frames
    <3> DEFINE Q == Seq(E)
    <3> HIDE DEF Q
    <3>1. frames \in Seq(Q)
      BY <2>1 DEF Q
    <3> QED BY <3>1, RemoveFun DEF Q
  <2>3. \A x : /\ Cardinality(FrameRefs(RemoveAt(frames, i), x)) =
                    Cardinality(FrameRefs(frames, x)) - Cardinality(Owners(frames[i], x))
               /\ Cardinality(Owners(frames[i], x)) <= Cardinality(FrameRefs(frames, x))
    BY <2>1, FramesRemove, FramesFinite
  <2> QED BY <1>1, <2>2, <2>3 DEF E
<1>7. \A x \in DOMAIN smem : /\ n[x] \in Nat /\ (n[x] > 0 => x \in Shared)
                             /\ n[x] <= Count(x) /\ Count(x)' = Count(x) - n[x]
  <2> SUFFICES ASSUME NEW x \in DOMAIN smem
               PROVE  /\ n[x] \in Nat /\ (n[x] > 0 => x \in Shared)
                      /\ n[x] <= Count(x) /\ Count(x)' = Count(x) - n[x]
    OBVIOUS
  <2>1. n[x] = Cardinality(Owners(frames[i], x))
    BY <1>3 DEF Owned
  <2>2. n[x] \in Nat /\ (n[x] > 0 => x \in Shared)
    BY <1>5, <2>1, OwnedShared
  <2>4. /\ Cardinality(FrameRefs(frames', x)) = Cardinality(FrameRefs(frames, x)) - n[x]
        /\ n[x] <= Cardinality(FrameRefs(frames, x))
    BY <1>6, <2>1
  <2>5. /\ Cardinality(FrameRefs(frames, x)) \in Nat /\ Cardinality(ThreadRefs(th, x)) \in Nat
        /\ Cardinality(PersistRefs(persist, x)) \in Nat /\ Cardinality(FrameRefs(frames, x)) <= Count(x) /\ Count(x) \in Nat
    BY <1>2, CountParts
  <2>6. Count(x)' = Cardinality(FrameRefs(frames', x)) + Cardinality(ThreadRefs(th, x))
                    + Cardinality(PersistRefs(persist, x))
    BY <1>1 DEF Count
  <2>7. Count(x) = Cardinality(FrameRefs(frames, x)) + Cardinality(ThreadRefs(th, x))
                    + Cardinality(PersistRefs(persist, x))
    BY DEF Count
  <2> QED BY <2>2, <2>4, <2>5, <2>6, <2>7
<1>8. PICK t : t \notin Threads
  BY NoSetContainsEverything
<1>9. Others(t, Idle) /\ th' \in [Threads -> ThRec]
  BY <1>1, <1>2 DEF Others, Typed, ThType
<1>10. New' = New
  BY <1>1 DEF New
<1>11. PhaseInv'
  BY <1>1 DEF PhaseInv, Counting
<1>12. phase' \in Phases
  BY <1>1 DEF Phases
<1> QED BY <1>1, <1>2, <1>4, <1>6, <1>7, <1>8, <1>9, <1>10, <1>11, <1>12, DropFrames

\* The frames left in flight are unmapped when the session ends.
LEMMA DeinitFramesStep ==
    ASSUME Inv, DeinitFrames
    PROVE  Inv'
<1>1. /\ phase = "frames" /\ frames' = <<>> /\ phase' = "persist"
      /\ UNCHANGED <<cached, cap, persist, wncc, table, extra, watermark, work, th, ops>>
  BY DEF DeinitFrames
<1>2. Typed /\ Counting /\ Counting'
  BY <1>1 DEF Inv, Counting
<1>3. PICK n : n = [s \in DOMAIN smem |-> Cardinality(FrameRefs(frames, s))]
  OBVIOUS
<1>4. unmap_frame_buf(n)
  BY <1>3 DEF DeinitFrames
<1>5. \A x \in DOMAIN smem : /\ n[x] \in Nat /\ (n[x] > 0 => x \in Shared)
                             /\ n[x] <= Count(x) /\ Count(x)' = Count(x) - n[x]
  <2> SUFFICES ASSUME NEW x \in DOMAIN smem
               PROVE  /\ n[x] \in Nat /\ (n[x] > 0 => x \in Shared)
                      /\ n[x] <= Count(x) /\ Count(x)' = Count(x) - n[x]
    OBVIOUS
  <2>1. n[x] = Cardinality(FrameRefs(frames, x))
    BY <1>3
  <2>2. /\ n[x] \in Nat
        /\ n[x] = 0 <=> \A i \in DOMAIN frames : Owners(frames[i], x) = {}
    BY <1>2, <2>1, CountNat
  <2>3. n[x] > 0 => x \in Shared
    BY <2>2 DEF Inv, FrameInv, EntriesOK, EntryOK, Owners
  <2>4. /\ Cardinality(FrameRefs(frames, x)) \in Nat /\ Cardinality(ThreadRefs(th, x)) \in Nat
        /\ Cardinality(PersistRefs(persist, x)) \in Nat /\ Cardinality(FrameRefs(frames, x)) <= Count(x) /\ Count(x) \in Nat
    BY <1>2, CountParts
  <2>5. Cardinality(FrameRefs(frames', x)) = 0
    BY <1>1, FramesNone
  <2>6. Count(x)' = Cardinality(FrameRefs(frames', x)) + Cardinality(ThreadRefs(th, x))
                    + Cardinality(PersistRefs(persist, x))
    BY <1>1 DEF Count
  <2>7. Count(x) = Cardinality(FrameRefs(frames, x)) + Cardinality(ThreadRefs(th, x))
                    + Cardinality(PersistRefs(persist, x))
    BY DEF Count
  <2> QED BY <2>1, <2>2, <2>3, <2>4, <2>5, <2>6, <2>7
<1>6. PICK t : t \notin Threads
  BY NoSetContainsEverything
<1>7. Others(t, Idle) /\ th' \in [Threads -> ThRec]
  BY <1>1, <1>2 DEF Others, Typed, ThType
<1>8. New' = New
  BY <1>1 DEF New
<1>9. PhaseInv'
  BY <1>1 DEF Inv, PhaseInv, Counting
<1>10. phase' \in Phases /\ frames' \in Seq(Seq(EntryRec)) /\ DOMAIN frames' = {}
  BY <1>1 DEF Phases
<1> QED BY <1>1, <1>2, <1>4, <1>5, <1>6, <1>7, <1>8, <1>9, <1>10, DropFrames

\* The mapping s is freed, and is left with r references.
FreedWith(s, r) ==
    smem' = [x \in DOMAIN smem |-> IF x = s THEN [smem[x] EXCEPT !.ref = r, !.st = "freed"] ELSE smem[x]]

\* One mapping is freed, whatever its count.
LEMMA FreeOne ==
    ASSUME Typed, NEW s \in DOMAIN smem, NEW r \in Nat, FreedWith(s, r)
    PROVE  /\ Frees({s}) /\ smem' \in [DOMAIN smem -> MapRec]
           /\ \A x \in DOMAIN smem : smem'[x].lost = smem[x].lost
           /\ \A x \in DOMAIN smem : x # s => smem'[x] = smem[x]
<1>1. \A x \in DOMAIN smem : smem[x] \in MapRec
  BY TypeFacts
<1>2. smem'[s] = [smem[s] EXCEPT !.ref = r, !.st = "freed"] /\ \A x \in DOMAIN smem : x # s => smem'[x] = smem[x]
  BY DEF FreedWith
<1>3. smem'[s] \in MapRec /\ smem'[s].lost = smem[s].lost /\ smem'[s].buf = smem[s].buf /\ smem'[s].st = "freed"
  BY <1>1, <1>2 DEF MapRec
<1>4. \A x \in DOMAIN smem : smem'[x] \in MapRec
  BY <1>1, <1>2, <1>3
<1>5. DOMAIN smem' = DOMAIN smem /\ smem' \in [DOMAIN smem -> MapRec]
  BY <1>4 DEF FreedWith
<1> QED BY <1>2, <1>3, <1>5 DEF Frees

\* A persistent buffer that no frame uses is withdrawn.
LEMMA DropPersist ==
    ASSUME Inv, Counting, Counting', NEW i \in DOMAIN persist, NEW s, s = persist[i].s,
           persist[i].kind # "params",
           FreedWith(s, smem[s].ref - 1),
           persist' \in Seq(PersistRec), Len(persist') = Len(persist) - 1,
           \A j \in DOMAIN persist' : /\ persist'[j] = persist[Skip(i, j)]
                                      /\ Skip(i, j) \in DOMAIN persist \ {i},
           \A j \in DOMAIN frames : \A k \in DOMAIN frames[j] : frames[j][k].s # s,
           \A u \in Threads : /\ th[u].pc \in Having => th[u].s # s
                              /\ \A k \in DOMAIN th[u].got : th[u].got[k].s # s,
           dmaref' \in [Bufs -> Int], smem_count' \in Int, phase' \in Phases, PhaseInv',
           UNCHANGED <<cached, cap, frames, wncc, table, extra, watermark, work, th, ops>>
    PROVE  Inv'
<1> DEFINE D == {s}
<1>1. Typed
  BY DEF Inv
<1>2. PersistOK(persist[i]) /\ s \in DOMAIN smem /\ s \in Live /\ s \notin cached /\ s \in Shared /\ s \in Tracked
  BY PersistOKs DEF Inv, PersistOK, Live, Shared
<1>3. /\ persist \in Seq(PersistRec) /\ \A k \in DOMAIN persist : persist[k].hits \in Nat
      /\ Len(persist) \in Nat /\ DOMAIN persist' = 1..(Len(persist) - 1) /\ DOMAIN persist = 1..Len(persist)
  BY <1>1, TypeFacts DEF Typed, ListType, PersistRec
<1>4. \A x : /\ Cardinality(PersistRefs(persist', x)) = Cardinality(PersistRefs(persist, x)) - Kept(persist[i], x)
             /\ Kept(persist[i], x) <= Cardinality(PersistRefs(persist, x))
  <2> DEFINE P == PersistRec
             c == persist'
             l == persist
  <2>1. l \in Seq(P) /\ (\A k \in DOMAIN l : l[k].hits \in Nat) /\ DOMAIN c = 1..(Len(l) - 1) /\ i \in DOMAIN l
    BY <1>3
  <2>2. \A j \in DOMAIN c : c[j] = l[Skip(i, j)] /\ Skip(i, j) \in DOMAIN l
    OBVIOUS
  <2> HIDE DEF P, c, l
  <2>3. \A x : /\ Cardinality(PersistRefs(c, x)) = Cardinality(PersistRefs(l, x)) - Kept(l[i], x)
               /\ Kept(l[i], x) <= Cardinality(PersistRefs(l, x))
    BY <2>1, <2>2, PersistRemove
  <2> QED BY <2>3 DEF c, l
<1>5. smem[s].ref \in Nat /\ smem[s].ref - 1 \in Nat
  <2>1. Kept(persist[i], s) = persist[i].hits + 1 /\ persist[i].hits \in Nat
    BY <1>3 DEF Kept
  <2>2. Cardinality(PersistRefs(persist, s)) \in Nat /\ Cardinality(PersistRefs(persist, s)) <= Count(s) /\ Count(s) \in Nat
    BY <1>1, CountParts
  <2>3. smem[s].ref = Count(s)
    BY <1>2, RefIs
  <2>4. Kept(persist[i], s) <= Cardinality(PersistRefs(persist, s))
    BY <1>4
  <2> QED BY <2>1, <2>2, <2>3, <2>4
<1>8. /\ Frees(D) /\ smem' \in [DOMAIN smem -> MapRec]
      /\ \A x \in DOMAIN smem : smem'[x].lost = smem[x].lost
      /\ \A x \in DOMAIN smem : x # s => smem'[x] = smem[x]
  <2>1. PICK r : r = smem[s].ref - 1
    OBVIOUS
  <2>2. r \in Nat /\ FreedWith(s, r)
    BY <1>5, <2>1
  <2> QED BY <1>1, <1>2, <2>2, FreeOne
<1>9. SmemType' /\ Len(smem') = Len(smem) /\ DOMAIN smem' = DOMAIN smem
  BY <1>1, <1>8, SmemMap
<1>10. EntryRec' = EntryRec /\ PersistRec' = PersistRec /\ WnccRec' = WnccRec /\ ThRec' = ThRec
  BY <1>9, SameRecs
<1>11. ListType' /\ RestType' /\ th' \in [Threads -> ThRec]
  BY <1>1, <1>9, <1>10 DEF Typed, ListType, RestType, ThType
<1>12. \A j \in DOMAIN persist : j # i => persist[j].s # s
  BY <1>2, PersistOKs DEF Inv, PersistOK
<1>13. \A j \in DOMAIN persist' : persist'[j].s \notin D /\ \E k \in DOMAIN persist : persist'[j] = persist[k]
  BY <1>12
<1>14. \A j, k \in DOMAIN persist' : persist'[j].buf = persist'[k].buf => j = k
  <2>1. \A j, k \in DOMAIN persist' : Skip(i, j) = Skip(i, k) => j = k
    BY <1>3 DEF Skip
  <2>2. \A j, k \in DOMAIN persist : persist[j].buf = persist[k].buf => j = k
    BY DEF Inv, PersistInv
  <2> QED BY <2>1, <2>2
<1>15. \A x \in Persisting : x # s => x \in Persisting'
  <2> SUFFICES ASSUME NEW k \in DOMAIN persist, persist[k].s # s PROVE persist[k].s \in Persisting'
    BY DEF Persisting
  <2>0. k # i
    OBVIOUS
  <2>1. \E j \in DOMAIN persist' : Skip(i, j) = k
    <3>1. CASE k < i
      <4>1. k \in DOMAIN persist' /\ Skip(i, k) = k
        BY <1>3, <2>0, <3>1 DEF Skip
      <4> QED BY <4>1
    <3>2. CASE ~(k < i)
      <4>1. k - 1 \in DOMAIN persist' /\ Skip(i, k - 1) = k
        BY <1>3, <2>0, <3>2 DEF Skip
      <4> QED BY <4>1
    <3> QED BY <3>1, <3>2
  <2> QED BY <2>1 DEF Persisting
<1>16. \A j \in DOMAIN frames' : \A k \in DOMAIN frames'[j] :
         /\ EntryOK(frames'[j][k]) /\ frames'[j][k].s \notin D
         /\ ~frames'[j][k].own => frames'[j][k].s \in Persisting'
  <2>1. \A j \in DOMAIN frames : \A k \in DOMAIN frames[j] :
          EntryOK(frames[j][k]) /\ (~frames[j][k].own => frames[j][k].s \in Persisting)
    BY DEF Inv, FrameInv, EntriesOK, EntryOK
  <2> QED BY <1>15, <2>1
<1>17. \A u \in Threads : \A k \in DOMAIN th'[u].got :
         /\ th'[u].got[k].s \notin D
         /\ ~th'[u].got[k].own => th'[u].got[k].s \in Persisting'
  <2>1. \A u \in Threads : \A k \in DOMAIN th[u].got : ~th[u].got[k].own => th[u].got[k].s \in Persisting
    BY DEF Inv, GotInv, EntriesOK, EntryOK
  <2> QED BY <1>15, <2>1
<1>18. \A u \in Threads : th'[u].pc \in Having => th'[u].s \notin D
  OBVIOUS
<1>19. WnccInv'
  <2>1. D \cap Sources = {}
    BY <1>2 DEF Shared
  <2> QED BY <1>8, <2>1, WnccStays
<1>20. New' = New /\ Sources' = Sources
  BY DEF New, Sources
<1>21. Live' = Live \ D /\ \A x \in Tracked' : x \in Tracked /\ x # s
  <2>1. s \notin Tracked'
    BY <1>2, <1>8, LiveTracked DEF Tracked, Frees
  <2> QED BY <1>8, <2>1, FreesSets
<1>22. RefInv'
  <2> SUFFICES ASSUME NEW x \in Tracked' PROVE smem'[x].ref = Count(x)'
    BY DEF RefInv
  <2>1. x \in Tracked /\ x # s /\ x \in DOMAIN smem
    BY <1>21 DEF Tracked
  <2>2. Kept(persist[i], x) = 0
    BY <2>1 DEF Kept
  <2>3. Cardinality(PersistRefs(persist, x)) \in Nat
    BY <1>1, CountParts
  <2>4. Cardinality(PersistRefs(persist', x)) = Cardinality(PersistRefs(persist, x))
    BY <1>4, <2>2, <2>3
  <2>5. Count(x)' = Count(x)
    BY <2>4 DEF Count
  <2> QED BY <2>1, <2>5, <1>8, RefIs
<1>23. HomeInv'
  BY <1>8, <1>20, <1>21, LiveTracked DEF Inv, HomeInv
<1>24. PICK t : t \notin Threads
  BY NoSetContainsEverything
<1>25. Others(t, Idle)
  BY DEF Others
<1>26. D \subseteq Live /\ cached' = cached \ D /\ \A x \in D : smem'[x].lost = smem[x].lost
  BY <1>2, <1>8
<1>27. \A j \in DOMAIN wncc' : \E k \in DOMAIN wncc : wncc'[j] = wncc[k]
  OBVIOUS
<1> HIDE DEF D
<1> QED BY <1>8, <1>11, <1>13, <1>14, <1>16, <1>17, <1>18, <1>19, <1>22, <1>23, <1>24, <1>25,
           <1>26, <1>27, Takes

\* Only the phase changes, or nothing does.
LEMMA OnlyPhase ==
    ASSUME Inv, phase' \in Phases, Counting' <=> Counting, PhaseInv',
           UNCHANGED <<smem, cached, cap, persist, frames, wncc, table, dmaref, extra, watermark,
                       smem_count, work, th, ops>>
    PROVE  Inv'
<1>1. EntryRec' = EntryRec /\ PersistRec' = PersistRec /\ WnccRec' = WnccRec /\ ThRec' = ThRec
  BY SameRecs
<1>2. Typed'
  <2>1. MapRec' = MapRec
    BY DEF MapRec
  <2> QED BY <1>1, <2>1 DEF Inv, Typed, SmemType, ListType, ThType, RestType
<1>3. Live' = Live /\ Sources' = Sources /\ New' = New /\ Persisting' = Persisting
  BY DEF Live, Sources, New, Persisting
<1>4. Tracked' = Tracked
  BY DEF Tracked
<1>5. Shared' = Shared
  BY <1>3, <1>4 DEF Shared
<1>6. \A v : Hand(v)' <=> Hand(v)
  BY <1>3, <1>5 DEF Hand
<1>7. \A e : EntryOK(e)' <=> EntryOK(e)
  BY <1>3, <1>5 DEF EntryOK
<1>8. ShapeInv' /\ AloneInv' /\ CallInv' /\ ExclInv'
  BY DEF Inv, ShapeInv, Shape, AloneInv, CallInv, Calling, ExclInv
<1>9. HandInv'
  BY <1>6 DEF Inv, HandInv
<1>10. FrameInv' /\ GotInv'
  BY <1>7 DEF Inv, FrameInv, GotInv, EntriesOK
<1>11. CacheInv' /\ PersistInv' /\ WnccInv'
  BY <1>3, <1>5 DEF Inv, CacheInv, PersistInv, WnccInv
<1>12. RefInv'
  <2>1. \A x : Count(x)' = Count(x)
    BY DEF Count
  <2> QED BY <1>4, <2>1 DEF Inv, RefInv
<1>13. HomeInv'
  BY <1>3 DEF Inv, HomeInv
<1> QED BY <1>2, <1>8, <1>9, <1>10, <1>11, <1>12, <1>13 DEF Inv

\* msm_cvp_unmap_feature_persist.
LEMMA UnmapFeatureStep ==
    ASSUME Inv, Careful, NEW b \in Bufs, UnmapFeaturePersist(b)
    PROVE  Inv'
<1>1. Typed /\ persist \in Seq(PersistRec)
  BY DEF Inv, Typed, ListType
<1>2. PICK i : i = Min(Mapped(b, {"feature"}))
  OBVIOUS
<1>3. PICK s : s = persist[i].s
  OBVIOUS
<1>4. /\ phase = "open" /\ Mapped(b, {"feature"}) # {} /\ ~UsedBy(s)
      /\ persist' = RemoveAt(persist, i)
      /\ smem' = [smem EXCEPT ![s].ref = @ - 1, ![s].st = "freed"]
      /\ dmaref' = Put(smem, {s}) /\ smem_count' = smem_count - 1
      /\ UNCHANGED <<cached, cap, frames, wncc, table, extra, watermark, work, th, phase, ops>>
  BY <1>2, <1>3 DEF UnmapFeaturePersist
<1>5. i \in DOMAIN persist /\ persist[i].kind = "feature"
  <2>1. Mapped(b, {"feature"}) \subseteq Nat
    BY <1>1, TypeFacts DEF Mapped
  <2>2. i \in Mapped(b, {"feature"})
    BY <1>2, <1>4, <2>1, MinIn
  <2> QED BY <2>2 DEF Mapped
<1>6. s \in DOMAIN smem /\ smem[s] \in MapRec
  BY <1>1, <1>3, <1>5, TypeFacts DEF PersistRec
<1>7. FreedWith(s, smem[s].ref - 1)
  <2>1. DOMAIN smem' = DOMAIN smem /\ smem' = [smem EXCEPT ![s] = [smem[s] EXCEPT !.ref = smem[s].ref - 1, !.st = "freed"]]
    BY <1>4, <1>6
  <2>2. PICK v : v = [smem[s] EXCEPT !.ref = smem[s].ref - 1, !.st = "freed"]
    OBVIOUS
  <2>3. smem' = [smem EXCEPT ![s] = v]
    BY <2>1, <2>2
  <2>4. smem' = [x \in DOMAIN smem |-> IF x = s THEN v ELSE smem[x]]
    BY <1>1, <2>3 DEF Typed, SmemType
  <2>5. \A x \in DOMAIN smem : (IF x = s THEN v ELSE smem[x]) =
            IF x = s THEN [smem[x] EXCEPT !.ref = smem[s].ref - 1, !.st = "freed"] ELSE smem[x]
    BY <2>2
  <2> QED BY <2>4, <2>5 DEF FreedWith
<1>8. /\ persist' \in Seq(PersistRec) /\ Len(persist') = Len(persist) - 1
      /\ \A j \in DOMAIN persist' : /\ persist'[j] = persist[Skip(i, j)]
                                    /\ Skip(i, j) \in DOMAIN persist \ {i}
  <2> DEFINE P == PersistRec
  <2>1. persist \in Seq(P)
    BY <1>1
  <2> HIDE DEF P
  <2>2. /\ RemoveAt(persist, i) \in Seq(P) /\ Len(RemoveAt(persist, i)) = Len(persist) - 1
        /\ \A j \in DOMAIN RemoveAt(persist, i) : /\ RemoveAt(persist, i)[j] = persist[Skip(i, j)]
                                                  /\ Skip(i, j) \in DOMAIN persist \ {i}
    BY <1>5, <2>1, RemoveFun
  <2> QED BY <1>4, <2>2 DEF P
<1>9. /\ \A j \in DOMAIN frames : \A k \in DOMAIN frames[j] : frames[j][k].s # s
      /\ \A u \in Threads : /\ th[u].pc \in Having => th[u].s # s
                            /\ \A k \in DOMAIN th[u].got : th[u].got[k].s # s
  BY <1>4 DEF UsedBy, Range
<1>10. dmaref' \in [Bufs -> Int] /\ smem_count' \in Int
  <2>1. {s} \subseteq DOMAIN smem
    BY <1>6
  <2>2. Put(smem, {s}) \in [Bufs -> Int]
    BY <1>1, <2>1, PutType
  <2>3. dmaref' \in [Bufs -> Int]
    BY <1>4, <2>2
  <2>4. smem_count' = smem_count - 1 /\ smem_count \in Int
    BY <1>1, <1>4 DEF Typed, RestType
  <2> QED BY <2>3, <2>4
<1>11. PhaseInv' /\ phase' \in Phases /\ Counting /\ Counting'
  BY <1>4 DEF PhaseInv, Phases, Counting
<1>12. UNCHANGED <<cached, cap, frames, wncc, table, extra, watermark, work, th, ops>>
  BY <1>4
<1>13. persist[i].kind # "params"
  BY <1>5
<1> QED BY <1>3, <1>5, <1>7, <1>8, <1>9, <1>10, <1>11, <1>12, <1>13, DropPersist

\* cvp_release_arp_buffers.
LEMMA ReleaseArpStep ==
    ASSUME Inv, ReleaseArp
    PROVE  Inv'
<1> DEFINE arp == {j \in DOMAIN persist : persist[j].kind = "arp"}
           own == {persist[i].s : i \in arp}
<1>1. Typed /\ persist \in Seq(PersistRec)
  BY DEF Inv, Typed, ListType
<1>2. /\ phase = "open" /\ (\A t \in Threads : th[t] = Idle) /\ phase' = "frames" /\ persist' = Clients(persist)
      /\ smem' = [x \in DOMAIN smem |-> IF x \in own THEN [smem[x] EXCEPT !.ref = @ - 1, !.st = "freed"] ELSE smem[x]]
      /\ UNCHANGED <<cached, cap, frames, wncc, table, dmaref, extra, watermark, smem_count, work, th, ops>>
  BY DEF ReleaseArp
<1>3. Counting /\ Counting' /\ phase' \in Phases
  BY <1>2 DEF Counting, Phases
<1>4. \A j \in arp : \A k \in arp : j = k
  BY DEF Inv, PersistInv
<1>5. Len(persist) \in Nat /\ DOMAIN persist = 1..Len(persist)
  BY <1>1
<1>6. dmaref' \in [Bufs -> Int] /\ smem_count' \in Int
  BY <1>1, <1>2 DEF Typed, RestType
<1>7. CASE arp # {}
  <2>1. PICK a \in arp : TRUE
    BY <1>7
  <2>2. a \in DOMAIN persist /\ persist[a].kind = "arp" /\ arp = {a} /\ a \in 1..(Len(persist) + 1) /\ a <= Len(persist)
    <3>1. a \in DOMAIN persist /\ persist[a].kind = "arp"
      BY <2>1
    <3>2. arp = {a}
      BY <1>4, <2>1
    <3> QED BY <3>1, <3>2, <1>5
  <2>3. PICK s : s = persist[a].s
    OBVIOUS
  <2>4. own = {s}
    BY <2>2, <2>3, SMTT(30)
  <2> HIDE DEF own
  <2>5. FreedWith(s, smem[s].ref - 1)
    <3>1. smem' = [x \in DOMAIN smem |-> IF x = s THEN [smem[x] EXCEPT !.ref = @ - 1, !.st = "freed"] ELSE smem[x]]
      BY <1>2, <2>4
    <3>2. \A x \in DOMAIN smem :
            (IF x = s THEN [smem[x] EXCEPT !.ref = @ - 1, !.st = "freed"] ELSE smem[x]) =
            IF x = s THEN [smem[x] EXCEPT !.ref = smem[s].ref - 1, !.st = "freed"] ELSE smem[x]
      OBVIOUS
    <3> QED BY <3>1, <3>2 DEF FreedWith
  <2>6. /\ persist' \in Seq(PersistRec) /\ Len(persist') = Len(persist) - 1
        /\ \A j \in DOMAIN persist' : /\ persist'[j] = persist[Skip(a, j)]
                                      /\ Skip(a, j) \in DOMAIN persist \ {a}
    <3> DEFINE P == PersistRec
    <3>1. persist \in Seq(P)
      BY <1>1
    <3>2. OwnAt(persist, a)
      BY <2>2 DEF OwnAt
    <3> HIDE DEF P, arp
    <3>3. /\ Clients(persist) \in Seq(P)
          /\ Len(Clients(persist)) = IF a <= Len(persist) THEN Len(persist) - 1 ELSE Len(persist)
          /\ \A j \in DOMAIN Clients(persist) : /\ Clients(persist)[j] = persist[Skip(a, j)]
                                                /\ Skip(a, j) \in DOMAIN persist \ {a}
      BY <2>2, <3>1, <3>2, ClientsOf
    <3> QED BY <1>2, <2>2, <3>3 DEF P
  <2>7. PhaseInv'
    <3>1. \A j \in DOMAIN persist' : persist'[j].kind # "arp"
      BY <2>2, <2>6
    <3> QED BY <1>2, <3>1 DEF PhaseInv, Counting
  <2>8. smem[s].buf = Nobody /\ s \in DOMAIN smem
    BY <2>2, <2>3, PersistOKs DEF Inv, PersistOK, Shared, Tracked
  <2>9. \A j \in DOMAIN frames : \A k \in DOMAIN frames[j] : frames[j][k].s # s
    BY <2>8, Consts DEF Inv, FrameInv, EntriesOK, EntryOK
  <2>10. \A u \in Threads : /\ th[u].pc \in Having => th[u].s # s
                            /\ \A k \in DOMAIN th[u].got : th[u].got[k].s # s
    <3>1. \A u \in Threads : th[u].pc = "idle" /\ th[u].got = <<>>
      BY <1>2, IdleFields
    <3> QED BY <3>1 DEF Having
  <2>11. persist[a].kind # "params" /\ UNCHANGED <<cached, cap, frames, wncc, table, extra, watermark, work, th, ops>>
    BY <1>2, <2>2
  <2> HIDE DEF arp
  <2> QED BY <1>3, <1>6, <2>2, <2>3, <2>5, <2>6, <2>7, <2>9, <2>10, <2>11, DropPersist
<1>8. CASE arp = {}
  <2>1. own = {} /\ \A j \in DOMAIN persist : persist[j].kind # "arp"
    BY <1>8
  <2>2. smem' = smem
    <3>1. smem' = [x \in DOMAIN smem |-> smem[x]]
      BY <1>2, <2>1
    <3> QED BY <1>1, <3>1 DEF Typed, SmemType
  <2>3. persist' = persist
    <3> DEFINE P == PersistRec
               a == Len(persist) + 1
    <3>1. persist \in Seq(P) /\ a \in 1..(Len(persist) + 1) /\ ~(a <= Len(persist))
      BY <1>1, <1>5
    <3>2. /\ \A i \in DOMAIN persist : persist[i].kind # "arp" /\ i < a
          /\ OwnAt(persist, a)
      BY <1>5, <2>1 DEF OwnAt
    <3> HIDE DEF P, a, arp
    <3>3. /\ Clients(persist) \in Seq(P)
          /\ Len(Clients(persist)) = IF a <= Len(persist) THEN Len(persist) - 1 ELSE Len(persist)
          /\ \A j \in DOMAIN Clients(persist) : /\ Clients(persist)[j] = persist[Skip(a, j)]
                                                /\ Skip(a, j) \in DOMAIN persist \ {a}
      BY <3>1, <3>2, ClientsOf, Zenon
    <3>4. Len(Clients(persist)) = Len(persist) /\ DOMAIN Clients(persist) = DOMAIN persist
      BY <3>1, <3>3, SMTT(30)
    <3>5. \A j \in DOMAIN persist : Clients(persist)[j] = persist[j]
      BY <3>2, <3>3, <3>4 DEF Skip
    <3>6. Clients(persist) = persist
      <4> DEFINE c == Clients(persist)
      <4>1. c \in Seq(P) /\ Len(c) = Len(persist) /\ \A j \in 1..Len(persist) : c[j] = persist[j]
        BY <1>5, <3>3, <3>4, <3>5
      <4> HIDE DEF c
      <4>2. /\ c = [j \in 1..Len(c) |-> c[j]]
            /\ persist = [j \in 1..Len(persist) |-> persist[j]]
        BY <3>1, <4>1
      <4>3. c = persist
        BY <4>1, <4>2
      <4> QED BY <4>3, ZenonT(40) DEF c
    <3> QED BY <1>2, <3>6
  <2>4. PhaseInv'
    BY <1>2, <2>1, <2>3 DEF PhaseInv, Counting
  <2>5. Counting' <=> Counting
    BY <1>3
  <2> HIDE DEF arp, own
  <2> QED BY <1>2, <1>3, <2>2, <2>3, <2>4, <2>5, OnlyPhase
<1> QED BY <1>7, <1>8

\* The source of a slot, and what else there is about it.
LEMMA SlotSource ==
    ASSUME Inv, NEW k \in 1..Slots, table[k] # 0
    PROVE  LET i == Min({j \in DOMAIN wncc : wncc[j].buf = smem[table[k]].buf})
           IN  /\ i \in DOMAIN wncc /\ wncc[i].s = table[k] /\ wncc[i].id = k
<1>1. PICK i \in DOMAIN wncc : wncc[i].id = k /\ wncc[i].s = table[k]
  BY DEF Inv, WnccInv
<1>2. PICK S : S = {j \in DOMAIN wncc : wncc[j].buf = smem[table[k]].buf}
  OBVIOUS
<1>3. smem[table[k]].buf = wncc[i].buf
  BY <1>1 DEF Inv, WnccInv
<1>4. i \in S /\ \A j \in S : j = i
  BY <1>1, <1>2, <1>3 DEF Inv, WnccInv
<1>5. S \subseteq Nat
  BY <1>2, TypeFacts DEF Inv
<1>6. Min(S) \in S
  BY <1>4, <1>5, MinIn
<1>7. Min(S) = i
  BY <1>4, <1>6
<1> QED BY <1>1, <1>2, <1>7

\* A WNCC source is taken out of the list and the table, and freed.
LEMMA DropSource ==
    ASSUME Inv, NEW k \in 1..Slots, table[k] # 0, unmap_buf_wncc(k),
           UNCHANGED <<cached, cap, persist, frames, extra, watermark, work, th, phase, ops>>
    PROVE  Inv'
<1>1. PICK i : i = Min({j \in DOMAIN wncc : wncc[j].buf = smem[table[k]].buf})
  OBVIOUS
<1>2. i \in DOMAIN wncc /\ wncc[i].s = table[k] /\ wncc[i].id = k
  BY <1>1, SlotSource
<1>3. PICK s : s = table[k]
  OBVIOUS
<1>4. /\ wncc' = RemoveAt(wncc, i) /\ table' = [table EXCEPT ![k] = 0] /\ smem' = Unmapped(smem, {s})
      /\ dmaref' = Put(smem, {s}) /\ smem_count' = smem_count - 1
  BY <1>1, <1>2, <1>3 DEF unmap_buf_wncc
<1> DEFINE D == {s}
<1>5. Typed /\ wncc \in Seq(WnccRec) /\ table \in [1..Slots -> 0..Len(smem)]
  BY DEF Inv, Typed, ListType, RestType
<1>6. s \in Live /\ s \in DOMAIN smem /\ s \in Sources /\ s \notin Shared
  BY <1>2, <1>3 DEF Inv, WnccInv, Sources, Shared, Live
<1>7. s \notin cached
  BY <1>6 DEF Inv, CacheInv
<1>8. smem[s] \in MapRec /\ smem[s].ref \in Nat
  BY <1>5, <1>6, TypeFacts DEF MapRec
<1>9. /\ Frees(D) /\ smem' \in [DOMAIN smem -> MapRec]
      /\ \A x \in DOMAIN smem : smem'[x].lost = smem[x].lost
      /\ \A x \in DOMAIN smem : x # s => smem'[x] = smem[x]
  <2>1. [smem[s] EXCEPT !.st = "freed"] = [smem[s] EXCEPT !.ref = smem[s].ref, !.st = "freed"]
    BY <1>8 DEF MapRec
  <2>2. FreedWith(s, smem[s].ref)
    <3>1. smem' = [x \in DOMAIN smem |-> IF x \in {s} THEN [smem[x] EXCEPT !.st = "freed"] ELSE smem[x]]
      BY <1>4 DEF Unmapped
    <3>2. \A x \in DOMAIN smem :
            (IF x \in {s} THEN [smem[x] EXCEPT !.st = "freed"] ELSE smem[x]) =
            IF x = s THEN [smem[x] EXCEPT !.ref = smem[s].ref, !.st = "freed"] ELSE smem[x]
      BY <2>1
    <3> QED BY <3>1, <3>2 DEF FreedWith
  <2> QED BY <1>5, <1>6, <1>8, <2>2, FreeOne
<1>10. SmemType' /\ Len(smem') = Len(smem) /\ DOMAIN smem' = DOMAIN smem
  BY <1>5, <1>9, SmemMap
<1>11. EntryRec' = EntryRec /\ PersistRec' = PersistRec /\ WnccRec' = WnccRec /\ ThRec' = ThRec
  BY <1>10, SameRecs
<1>12. /\ wncc' \in Seq(WnccRec)
       /\ \A j \in DOMAIN wncc' : wncc'[j] = wncc[Skip(i, j)] /\ Skip(i, j) \in DOMAIN wncc \ {i}
       /\ \A m \in DOMAIN wncc \ {i} : \E j \in DOMAIN wncc' : Skip(i, j) = m
       /\ \A j, m \in DOMAIN wncc' : Skip(i, j) = Skip(i, m) => j = m
  <2> DEFINE W == WnccRec
             c == RemoveAt(wncc, i)
  <2>1. wncc \in Seq(W)
    BY <1>5
  <2> HIDE DEF W
  <2>2. /\ c \in Seq(W)
        /\ DOMAIN c = 1..(Len(wncc) - 1)
        /\ \A j \in DOMAIN c : c[j] = wncc[Skip(i, j)] /\ Skip(i, j) \in DOMAIN wncc \ {i}
        /\ \A m \in DOMAIN wncc \ {i} : \E j \in DOMAIN c : Skip(i, j) = m
    BY <1>2, <2>1, RemoveFun
  <2> HIDE DEF c
  <2>3. Len(wncc) \in Nat /\ i \in Nat
    BY <1>2, <2>1
  <2>4. \A j, m \in DOMAIN c : Skip(i, j) = Skip(i, m) => j = m
    BY <2>2, <2>3 DEF Skip
  <2> QED BY <1>4, <2>2, <2>4 DEF W, c
<1>13. ListType'
  BY <1>5, <1>11, <1>12 DEF Typed, ListType
<1>14. RestType'
  <2>1. Put(smem, D) \in [Bufs -> Int]
    BY <1>5, <1>6, PutType
  <2>2. dmaref' \in [Bufs -> Int]
    BY <1>4, <2>1
  <2>3. smem_count' \in Int
    BY <1>4, <1>5 DEF Typed, RestType
  <2>4. table' \in [1..Slots -> 0..Len(smem)]
    BY <1>4, <1>5, TypeFacts
  <2> QED BY <1>5, <1>10, <2>2, <2>3, <2>4 DEF Typed, RestType
<1>15. \A j \in DOMAIN wncc \ {i} : wncc[j].s # s /\ wncc[j].id # k
  <2>1. \A j \in DOMAIN wncc : smem[wncc[j].s].buf = wncc[j].buf /\ table[wncc[j].id] = wncc[j].s
                               /\ \A m \in DOMAIN wncc : wncc[j].buf = wncc[m].buf => j = m
    BY DEF Inv, WnccInv
  <2> QED BY <1>2, <1>3, <2>1
<1>16. \A x : x \in Sources' <=> x \in Sources /\ x # s
  <2>1. \A x : x \in Sources' <=> \E j \in DOMAIN wncc' : wncc'[j].s = x
    BY DEF Sources
  <2>2. \A x : x \in Sources <=> \E j \in DOMAIN wncc : wncc[j].s = x
    BY DEF Sources
  <2>3. \A x : x \in Sources /\ x # s => x \in Sources'
    BY <1>2, <1>3, <1>12, <2>1, <2>2
  <2>4. \A x : x \in Sources' => x \in Sources /\ x # s
    BY <1>12, <1>15, <2>1, <2>2
  <2> QED BY <2>3, <2>4
<1>17. New' = New /\ Persisting' = Persisting
  BY DEF New, Persisting
<1>18. Live' = Live \ D /\ \A x \in Tracked' : x \in Tracked /\ x # s
  <2>1. s \notin Tracked'
    BY <1>6, <1>9, LiveTracked DEF Tracked, Frees
  <2> QED BY <1>9, <2>1, FreesSets
<1>19. WnccInv'
  <2>1. ASSUME NEW j \in DOMAIN wncc'
        PROVE  /\ wncc'[j].s \in Live' /\ smem'[wncc'[j].s].buf = wncc'[j].buf
               /\ table'[wncc'[j].id] = wncc'[j].s
               /\ \A m \in DOMAIN wncc' : wncc'[j].buf = wncc'[m].buf => j = m
    <3>1. PICK m : m = Skip(i, j)
      OBVIOUS
    <3>2. m \in DOMAIN wncc /\ m # i /\ wncc'[j] = wncc[m] /\ wncc[m].s # s /\ wncc[m].id # k
      BY <3>1, <1>12, <1>15
    <3>3. /\ wncc[m].s \in Live /\ smem[wncc[m].s].buf = wncc[m].buf /\ table[wncc[m].id] = wncc[m].s
          /\ \A q \in DOMAIN wncc : wncc[m].buf = wncc[q].buf => m = q
      BY <3>2 DEF Inv, WnccInv
    <3>4. wncc[m].id \in 1..Slots /\ wncc[m].s \in DOMAIN smem
      BY <1>5, <3>2, TypeFacts DEF WnccRec
    <3>5. table'[wncc[m].id] = table[wncc[m].id]
      BY <1>4, <1>5, <3>2, <3>4
    <3>6. \A q \in DOMAIN wncc' : wncc'[j].buf = wncc'[q].buf => j = q
      BY <1>12, <3>1, <3>2, <3>3
    <3>7. wncc[m].s \in Live' /\ smem'[wncc[m].s] = smem[wncc[m].s]
      BY <1>9, <1>18, <3>2, <3>3, <3>4
    <3> QED BY <3>2, <3>3, <3>5, <3>6, <3>7
  <2>2. ASSUME NEW q \in 1..Slots, table'[q] # 0
        PROVE  \E j \in DOMAIN wncc' : wncc'[j].id = q /\ wncc'[j].s = table'[q]
    <3>1. q # k /\ table'[q] = table[q]
      BY <1>4, <1>5, <2>2
    <3>2. PICK m \in DOMAIN wncc : wncc[m].id = q /\ wncc[m].s = table[q]
      BY <2>2, <3>1 DEF Inv, WnccInv
    <3>3. m # i
      BY <1>2, <3>1, <3>2
    <3> QED BY <1>12, <3>1, <3>2, <3>3
  <2> QED BY <2>1, <2>2 DEF WnccInv
<1>20. RefInv'
  <2> SUFFICES ASSUME Counting, NEW x \in Tracked' PROVE smem'[x].ref = Count(x)'
    BY DEF RefInv, Counting
  <2>1. x \in Tracked /\ x # s /\ x \in DOMAIN smem
    BY <1>18 DEF Tracked
  <2>2. Count(x)' = Count(x)
    BY DEF Count
  <2> QED BY <2>1, <2>2, <1>9, RefIs
<1>21. HomeInv'
  <2>1. \A x \in Live' : x \in Live /\ x # s /\ smem'[x] = smem[x]
    BY <1>9, <1>18, LiveTracked
  <2>2. Counting' <=> Counting
    BY DEF Counting
  <2> QED BY <1>16, <1>17, <2>1, <2>2 DEF Inv, HomeInv
<1>22. PhaseInv'
  <2>1. wncc # <<>>
    BY <1>2
  <2> QED BY <2>1 DEF Inv, PhaseInv, Counting
<1>23. \A j \in DOMAIN frames' : \A m \in DOMAIN frames'[j] :
         /\ EntryOK(frames'[j][m]) /\ frames'[j][m].s \notin D
         /\ ~frames'[j][m].own => frames'[j][m].s \in Persisting'
  BY <1>6, <1>17 DEF Inv, FrameInv, EntriesOK, EntryOK
<1>24. \A u \in Threads : \A m \in DOMAIN th'[u].got :
         /\ th'[u].got[m].s \notin D
         /\ ~th'[u].got[m].own => th'[u].got[m].s \in Persisting'
  BY <1>6, <1>17 DEF Inv, GotInv, EntriesOK, EntryOK
<1>25. \A u \in Threads : th'[u].pc \in Having => th'[u].s \notin D
  BY <1>6 DEF Inv, HandInv, Hand, Having
<1>26. \A j \in DOMAIN persist' : persist'[j].s \notin D /\ \E m \in DOMAIN persist : persist'[j] = persist[m]
  BY <1>6 DEF Inv, PersistInv
<1>27. \A j, m \in DOMAIN persist' : persist'[j].buf = persist'[m].buf => j = m
  BY DEF Inv, PersistInv
<1>28. PICK t : t \notin Threads
  BY NoSetContainsEverything
<1>29. Others(t, Idle) /\ th' \in [Threads -> ThRec]
  BY <1>5 DEF Others, Typed, ThType
<1>30. D \subseteq Live /\ cached' = cached \ D /\ \A x \in D : smem'[x].lost = smem[x].lost
  BY <1>6, <1>7, <1>9
<1>31. \A j \in DOMAIN wncc' : \E m \in DOMAIN wncc : wncc'[j] = wncc[m]
  BY <1>12
<1> HIDE DEF D
<1> QED BY <1>9, <1>13, <1>14, <1>19, <1>20, <1>21, <1>22, <1>23, <1>24, <1>25, <1>26, <1>27,
           <1>28, <1>29, <1>30, <1>31, Takes

\* msm_cvp_unmap_buf_wncc.
LEMMA UnmapWnccStep ==
    ASSUME Inv, NEW k \in 1..Slots, UnmapBufWncc(k)
    PROVE  Inv'
  BY DropSource DEF UnmapBufWncc

\* The WNCC sources left are unmapped when the session ends.
LEMMA DeinitWnccStep ==
    ASSUME Inv, DeinitWncc
    PROVE  Inv'
<1>1. phase = "wncc" /\ UNCHANGED <<cached, cap, persist, frames, extra, watermark, work, th, ops>>
  BY DEF DeinitWncc
<1>2. CASE wncc # <<>>
  <2>1. unmap_buf_wncc(Head(wncc).id) /\ UNCHANGED phase
    BY <1>2 DEF DeinitWncc
  <2>2. wncc \in Seq(WnccRec)
    BY DEF Inv, Typed, ListType
  <2>3. 1 \in DOMAIN wncc /\ Head(wncc) = wncc[1]
    BY <1>2, <2>2
  <2>4. PICK k : k = wncc[1].id
    OBVIOUS
  <2>5. k \in 1..Slots /\ table[k] = wncc[1].s /\ wncc[1].s # 0
    BY <2>3, <2>4, TypeFacts DEF Inv, WnccInv, WnccRec
  <2>6. unmap_buf_wncc(k)
    BY <2>1, <2>3, <2>4
  <2> QED BY <1>1, <2>1, <2>5, <2>6, DropSource
<1>3. CASE wncc = <<>>
  <2>1. phase' = "closed" /\ UNCHANGED <<wncc, table, smem, dmaref, smem_count>>
    BY <1>3 DEF DeinitWncc
  <2>2. PhaseInv' /\ phase' \in Phases /\ (Counting' <=> Counting)
    BY <1>1, <1>3, <2>1 DEF Inv, PhaseInv, Counting, Phases
  <2> QED BY <1>1, <2>1, <2>2, OnlyPhase
<1> QED BY <1>2, <1>3

\* The mappings in D are freed.
LEMMA UnmapsSet ==
    ASSUME Typed, NEW D, D \subseteq DOMAIN smem, smem' = Unmapped(smem, D)
    PROVE  /\ Frees(D) /\ smem' \in [DOMAIN smem -> MapRec]
           /\ \A x \in DOMAIN smem : smem'[x].lost = smem[x].lost /\ smem'[x].ref = smem[x].ref
<1>1. smem' = [x \in DOMAIN smem |-> IF x \in D THEN [smem[x] EXCEPT !.st = "freed"] ELSE smem[x]]
  BY DEF Unmapped
<1>2. ASSUME NEW x \in DOMAIN smem
      PROVE  /\ smem'[x] \in MapRec /\ smem'[x].buf = smem[x].buf /\ smem'[x].lost = smem[x].lost
             /\ smem'[x].ref = smem[x].ref /\ (x \notin D => smem'[x].st = smem[x].st)
             /\ (x \in D => smem'[x].st = "freed")
  <2>1. smem[x] \in MapRec
    BY TypeFacts
  <2>2. CASE x \in D
    <3>1. smem'[x] = [smem[x] EXCEPT !.st = "freed"]
      BY <1>1, <2>2
    <3> QED BY <2>1, <2>2, <3>1 DEF MapRec
  <2>3. CASE x \notin D
    BY <1>1, <2>1, <2>3
  <2> QED BY <2>2, <2>3
<1>3. smem' \in [DOMAIN smem -> MapRec] /\ DOMAIN smem' = DOMAIN smem
  BY <1>1, <1>2
<1> QED BY <1>2, <1>3 DEF Frees

\* The session ends: a whole list of mappings is unmapped, and no thread is there.
LEMMA TakesAll ==
    ASSUME Inv, NEW D, D \subseteq Live, D \cap Sources = {}, smem' = Unmapped(smem, D),
           cached' = cached \ D,
           \A u \in Threads : th[u] = Idle, frames = <<>>, persist' = <<>>,
           dmaref' = Put(smem, D), watermark' \in Int, smem_count' = smem_count - Cardinality(D),
           UNCHANGED <<cap, frames, wncc, table, extra, work, th, ops>>, phase' \in Phases,
           Counting' = FALSE, PhaseInv',
           \A x \in Live : x \notin D => smem[x].lost = "invalid" \/ x \in cached \/ x \in Sources
    PROVE  Inv'
<1>1. Typed /\ D \subseteq DOMAIN smem
  BY DEF Inv, Live
<1>2. /\ Frees(D) /\ smem' \in [DOMAIN smem -> MapRec]
      /\ \A x \in DOMAIN smem : smem'[x].lost = smem[x].lost /\ smem'[x].ref = smem[x].ref
  BY <1>1, UnmapsSet
<1>3. SmemType' /\ Len(smem') = Len(smem) /\ DOMAIN smem' = DOMAIN smem
  BY <1>1, <1>2, SmemMap
<1>4. EntryRec' = EntryRec /\ PersistRec' = PersistRec /\ WnccRec' = WnccRec /\ ThRec' = ThRec
  BY <1>3, SameRecs
<1>5. ListType'
  BY <1>1, <1>4 DEF Typed, ListType
<1>6. RestType'
  <2>1. dmaref' \in [Bufs -> Int] /\ Cardinality(D) \in Nat
    BY <1>1, PutType
  <2>2. smem_count' \in Int
    BY <1>1, <2>1 DEF Typed, RestType
  <2> QED BY <1>1, <1>3, <2>1, <2>2 DEF Typed, RestType
<1>7. \A u \in Threads : th'[u].pc = "idle" /\ th'[u].got = <<>>
  BY IdleFields
<1>8. \A u \in Threads : th'[u].pc \in Having => th'[u].s \notin D
  BY <1>7 DEF Having
<1>9. DOMAIN frames' = {} /\ DOMAIN persist' = {} /\ \A u \in Threads : DOMAIN th'[u].got = {}
  BY <1>7
<1>10. WnccInv'
  BY <1>2, WnccStays
<1>11. RefInv'
  BY DEF RefInv
<1>12. HomeInv'
  <2>1. Live' = Live \ D
    BY <1>2, FreesSets
  <2>2. Sources' = Sources
    BY DEF Sources
  <2>3. \A x \in Live' : smem'[x].lost = "invalid" \/ x \in cached' \/ x \in Sources'
    BY <1>2, <2>1, <2>2, LiveTracked
  <2> QED BY <2>3 DEF HomeInv
<1>13. PICK t : t \notin Threads
  BY NoSetContainsEverything
<1>14. Others(t, Idle) /\ th' \in [Threads -> ThRec]
  BY <1>1 DEF Others, Typed, ThType
<1>15. \A x \in D : smem'[x].lost = smem[x].lost
  BY <1>1, <1>2
<1>16. \A j \in DOMAIN wncc' : \E m \in DOMAIN wncc : wncc'[j] = wncc[m]
  OBVIOUS
<1> QED BY <1>2, <1>5, <1>6, <1>8, <1>9, <1>10, <1>11, <1>12, <1>13, <1>14, <1>15, <1>16, Takes

\* The persistent buffers left are unmapped when the session ends.
LEMMA DeinitPersistStep ==
    ASSUME Inv, DeinitPersist
    PROVE  Inv'
<1>1. PICK D : D = {s \in {persist[i].s : i \in DOMAIN persist} : ~Flagged(s)}
  OBVIOUS
<1>2. /\ phase = "persist" /\ smem' = Unmapped(smem, D) /\ dmaref' = Put(smem, D)
      /\ smem_count' = smem_count - Cardinality(D) /\ persist' = <<>> /\ phase' = "cache"
      /\ UNCHANGED <<cached, cap, frames, wncc, table, extra, watermark, work, th, ops>>
  BY <1>1 DEF DeinitPersist
<1>3. Typed /\ Counting /\ frames = <<>> /\ \A u \in Threads : th[u] = Idle
  BY <1>2 DEF Inv, PhaseInv, Counting
<1>4. \A x : x \in D <=> x \in Persisting /\ x \notin cached /\ smem[x].lost # "window"
  BY <1>1 DEF Persisting, Flagged
<1>5. \A x \in Persisting : x \in Shared
  BY DEF Inv, PersistInv, Persisting
<1>6. D \subseteq Live /\ D \cap Sources = {} /\ cached' = cached \ D
  BY <1>2, <1>4, <1>5 DEF Shared, Tracked, Live
<1>7. ASSUME NEW x \in Live, x \notin D PROVE smem[x].lost = "invalid" \/ x \in cached \/ x \in Sources
  <2>1. x \in Tracked /\ smem[x].lost # "window"
    BY <1>7, LiveTracked
  <2>2. x \notin New
    BY <1>3, InNew, IdleFields
  <2>3. smem[x].ref > 0 => x \in Persisting
    <3>1. smem[x].ref = Count(x)
      BY <1>3, <2>1, RefIs
    <3>2. Cardinality(FrameRefs(frames, x)) = 0
      BY <1>3, FramesNone
    <3>3. Cardinality(ThreadRefs(th, x)) = 0
      <4>1. \A t \in Threads : Owners(th[t].got, x) = {} /\ Taken(th[t], x) = 0
        BY <1>3, IdleFields
      <4> QED BY <1>3, <4>1, CountNat
    <3>4. /\ Cardinality(PersistRefs(persist, x)) \in Nat
          /\ Cardinality(PersistRefs(persist, x)) = 0 <=> \A i \in DOMAIN persist : persist[i].s # x
      BY <1>3, CountNat
    <3>5. smem[x].ref = Cardinality(PersistRefs(persist, x))
      BY <3>1, <3>2, <3>3, <3>4 DEF Count
    <3> QED BY <3>4, <3>5 DEF Persisting
  <2>4. \/ smem[x].lost = "invalid" \/ x \in cached \/ x \in Sources
        \/ smem[x].ref > 0
    BY <1>7, <2>2 DEF Inv, HomeInv
  <2> QED BY <1>4, <1>7, <2>1, <2>3, <2>4
<1>8. PhaseInv' /\ phase' \in Phases /\ Counting' = FALSE
  BY <1>2, <1>3 DEF PhaseInv, Phases, Counting
<1>9. watermark' \in Int
  BY <1>2, <1>3 DEF Typed, RestType
<1> QED BY <1>2, <1>3, <1>6, <1>7, <1>8, <1>9, TakesAll

\* The cache is emptied when the session ends.
LEMMA DeinitCacheStep ==
    ASSUME Inv, DeinitCache
    PROVE  Inv'
<1>1. /\ phase = "cache" /\ smem' = Unmapped(smem, cached) /\ dmaref' = Put(smem, cached)
      /\ watermark' = watermark - Cardinality(cached) /\ smem_count' = smem_count - Cardinality(cached)
      /\ cached' = {} /\ phase' = "wncc"
      /\ UNCHANGED <<cap, persist, frames, wncc, table, extra, work, th, ops>>
  BY DEF DeinitCache
<1>2. /\ Typed /\ frames = <<>> /\ persist = <<>> /\ ~Counting /\ \A u \in Threads : th[u] = Idle
      /\ \A i \in DOMAIN persist : persist[i].kind # "arp"
  BY <1>1 DEF Inv, PhaseInv, Counting
<1>3. cached \subseteq Live /\ cached \cap Sources = {} /\ cached' = cached \ cached
  BY <1>1 DEF Inv, CacheInv, Shared
<1>4. \A x \in Live : x \notin cached => smem[x].lost = "invalid" \/ x \in cached \/ x \in Sources
  BY <1>2 DEF Inv, HomeInv
<1>5. PhaseInv' /\ phase' \in Phases /\ Counting' = FALSE
  BY <1>1, <1>2 DEF PhaseInv, Phases, Counting
<1>6. watermark' \in Int
  <2>1. cached \subseteq DOMAIN smem
    BY <1>2 DEF Typed, RestType
  <2>2. Cardinality(cached) \in Nat
    BY <1>2, <2>1, PutType
  <2> QED BY <1>1, <1>2, <2>2 DEF Typed, RestType
<1> QED BY <1>1, <1>2, <1>3, <1>4, <1>5, <1>6, TakesAll

\* A new session.
LEMMA InitInv ==
    ASSUME Init PROVE Inv
<1>1. /\ smem = <<>> /\ cached = {} /\ cap = Cap /\ persist = <<>> /\ frames = <<>> /\ wncc = <<>>
      /\ table = [i \in 1..Slots |-> 0] /\ dmaref = [b \in Bufs |-> 0] /\ extra = [b \in Bufs |-> 0]
      /\ watermark = 0 /\ smem_count = 0 /\ work = FALSE /\ th = [t \in Threads |-> Idle]
      /\ phase = "open" /\ ops = 0
  BY DEF Init
<1>2. \A t \in Threads : th[t] = Idle
  BY <1>1
<1>3. Len(smem) = 0 /\ DOMAIN smem = {} /\ DOMAIN persist = {} /\ DOMAIN frames = {} /\ DOMAIN wncc = {}
  BY <1>1
<1>4. Typed
  <2>1. SmemType /\ ListType
    BY <1>1, Consts DEF SmemType, ListType
  <2>2. RestType
    <3>1. table \in [1..Slots -> 0..Len(smem)] /\ dmaref \in [Bufs -> Int] /\ extra \in [Bufs -> Nat]
      BY <1>1, <1>3
    <3>2. work \in BOOLEAN
      BY <1>1, Zenon
    <3>3. cached \subseteq DOMAIN smem /\ cap \in {Cap, CapMax} /\ watermark \in Int /\ smem_count \in Int
          /\ phase \in Phases /\ ops \in Nat
      BY <1>1 DEF Phases
    <3> QED BY <3>1, <3>2, <3>3, Zenon DEF RestType
  <2>3. ThType
    <3>1. Idle \in ThRec
      BY <1>3 DEF Idle, ThRec, Pcs
    <3> QED BY <1>1, <3>1 DEF ThType
  <2> QED BY <2>1, <2>2, <2>3 DEF Typed
<1>5. Shape(Idle) /\ Hand(Idle) /\ EntriesOK(Idle.got) /\ Calling(Idle) /\ Idle.pc = "idle" /\ Idle.op = "none"
  BY <1>4, IdleFields
<1>6. ShapeInv /\ HandInv /\ GotInv /\ CallInv
  BY <1>2, <1>5 DEF ShapeInv, HandInv, GotInv, CallInv
<1>7. AloneInv /\ ExclInv
  BY <1>2, <1>5 DEF AloneInv, ExclInv, Lasting
<1>8. FrameInv /\ CacheInv /\ PersistInv /\ WnccInv
  BY <1>1, <1>3 DEF FrameInv, CacheInv, PersistInv, WnccInv
<1>9. RefInv /\ HomeInv
  BY <1>3 DEF RefInv, HomeInv, Tracked, Live
<1>10. PhaseInv
  BY <1>1 DEF PhaseInv, Counting
<1> QED BY <1>4, <1>6, <1>7, <1>8, <1>9, <1>10 DEF Inv

\* Every step of a careful client's session keeps the invariant.
LEMMA NextInv ==
    ASSUME Inv, Careful, [Next]_vars
    PROVE  Inv'
<1>1. ASSUME NEW t \in Threads, NEW b \in Bufs, NEW c \in Bufs, NEW config \in BOOLEAN,
             MapFrame(t, <<b>>, config) \/ (b # c /\ MapFrame(t, <<b, c>>, config))
      PROVE  Inv'
  <2>1. <<b>> \in Seq(Bufs) /\ <<b>> # <<>> /\ <<b, c>> \in Seq(Bufs) /\ <<b, c>> # <<>>
    OBVIOUS
  <2> QED BY <1>1, <2>1, MapFrameStep
<1>2. ASSUME NEW t \in Threads, NEW b \in Bufs, MapFeaturePersist(t, b) \/ MapBufWncc(t, b)
      PROVE  Inv'
  BY <1>2, MapFeatureStep, MapWnccStep
<1>3. ASSUME NEW t \in Threads, NEW b \in Bufs, NEW kind, MapUserPersist(t, b, kind)
      PROVE  Inv'
  BY <1>3, MapUserStep
<1>4. ASSUME NEW t \in Threads, AllocPersist(t) \/ WnccAdd(t) \/ Borrow(t) \/ FindCached(t)
      PROVE  Inv'
  BY <1>4, AllocPersistStep, WnccAddStep, BorrowStep, FindCachedStep
<1>5. ASSUME NEW t \in Threads, FindPersist(t) \/ FindFrame(t) \/ AddSmem(t) \/ InsertSmem(t)
      PROVE  Inv'
  BY <1>5, FindPersistStep, FindFrameStep, AddSmemStep, InsertSmemStep
<1>6. ASSUME NEW t \in Threads, FirstRef(t) \/ CheckFound(t) \/ UseSmem(t) \/ ListFrame(t) \/ UndoFrame(t)
      PROVE  Inv'
  BY <1>6, FirstRefStep, CheckFoundStep, UseSmemStep, ListFrameStep, UndoFrameStep
<1>7. ASSUME NEW i \in DOMAIN frames, UnmapFrame(i) PROVE Inv'
  BY <1>7, UnmapFrameStep
<1>8. ASSUME NEW b \in Bufs, UnmapFeaturePersist(b) PROVE Inv'
  BY <1>8, UnmapFeatureStep
<1>9. ASSUME NEW k \in 1..Slots, UnmapBufWncc(k) PROVE Inv'
  BY <1>9, UnmapWnccStep
<1>10. CASE IovaCleanup \/ AllocateArp \/ ReleaseArp
  BY <1>10, IovaCleanupStep, AllocateArpStep, ReleaseArpStep
<1>11. CASE DeinitFrames \/ DeinitPersist \/ DeinitCache \/ DeinitWncc
  BY <1>11, DeinitFramesStep, DeinitPersistStep, DeinitCacheStep, DeinitWnccStep
<1>12. CASE UNCHANGED vars
  <2>1. UNCHANGED <<smem, cached, cap, persist, frames, wncc, table, dmaref, extra, watermark,
                    smem_count, work, th, phase, ops>>
    BY <1>12 DEF vars
  <2>2. PhaseInv' /\ phase' \in Phases /\ (Counting' <=> Counting)
    BY <2>1 DEF Inv, PhaseInv, Counting, Typed, RestType
  <2> QED BY <2>1, <2>2, OnlyPhase
<1> QED BY <1>1, <1>2, <1>3, <1>4, <1>5, <1>6, <1>7, <1>8, <1>9, <1>10, <1>11, <1>12 DEF Next

\* The lists of a session agree with its mappings and with what its threads have in their
\* hands, whatever packets come, in whatever order the threads of msm_cvp_map_frame,
\* msm_cvp_unmap_frame and the cleanup worker take the locks, and in every phase of
\* msm_cvp_session_deinit_buffers: Inv is inductive.
THEOREM InvHolds ==
    ASSUME Careful PROVE Spec => []Inv
<1>1. Init => Inv
  BY InitInv
<1>2. Inv /\ [Next]_vars => Inv'
  BY NextInv
<1> QED BY <1>1, <1>2, PTL DEF Spec

\* What the users of a mapping need.
LEMMA InvUse ==
    ASSUME Inv PROVE NoUseAfterFree
<1>1. \A s \in Tracked : s \in Live \/ smem[s].lost = "window"
  BY DEF Tracked, Live
<1>2. \A i \in DOMAIN persist : persist[i].s \in Tracked
  BY DEF Inv, PersistInv, Shared
<1>3. \A i \in DOMAIN wncc : wncc[i].s \in Live
  BY DEF Inv, WnccInv
<1>4. ASSUME NEW s \in DOMAIN smem, UsedBy(s) PROVE s \in Tracked
  <2>1. ASSUME NEW i \in DOMAIN frames, NEW e \in Range(frames[i]), e.s = s PROVE s \in Tracked
    <3>1. PICK k \in DOMAIN frames[i] : frames[i][k] = e
      BY DEF Range
    <3> QED BY <2>1, <3>1 DEF Inv, FrameInv, EntriesOK, EntryOK, Shared
  <2>2. ASSUME NEW t \in Threads, th[t].s = s PROVE s \in Tracked
    <3>1. s # 0
      BY TypeFacts DEF Inv
    <3>2. th[t].pc \in Having
      BY <2>2, <3>1 DEF Inv, ShapeInv, Shape
    <3> QED BY <2>2, <3>2, HandIs
  <2>3. ASSUME NEW t \in Threads, NEW e \in Range(th[t].got), e.s = s PROVE s \in Tracked
    <3>1. PICK k \in DOMAIN th[t].got : th[t].got[k] = e
      BY DEF Range
    <3> QED BY <2>3, <3>1 DEF Inv, GotInv, EntriesOK, EntryOK, Shared
  <2> QED BY <1>4, <2>1, <2>2, <2>3 DEF UsedBy
<1> QED BY <1>1, <1>2, <1>3, <1>4 DEF NoUseAfterFree

\* What is left of a closed session.
LEMMA InvLeft ==
    ASSUME Inv PROVE NothingLeft
<1> SUFFICES ASSUME phase = "closed", NEW s \in Live PROVE smem[s].lost = "invalid"
  BY DEF NothingLeft
<1>1. cached = {} /\ wncc = <<>> /\ ~Counting
  BY DEF Inv, PhaseInv, Counting
<1>2. s \notin cached /\ s \notin Sources
  BY <1>1 DEF Sources
<1> QED BY <1>1, <1>2 DEF Inv, HomeInv

\* The counts of references, and the table.
LEMMA InvCounts ==
    ASSUME Inv PROVE RefcountExact /\ TableExact
<1>1. RefcountExact
  <2> SUFFICES ASSUME Counting, NEW s \in Live PROVE smem[s].ref = Count(s)
    BY DEF RefcountExact, Counting, Count
  <2> QED BY LiveTracked, RefIs
<1>2. TableExact
  <2>1. \A k \in 1..Slots : table[k] # 0 =>
           \E i \in DOMAIN wncc : wncc[i].id = k /\ wncc[i].s = table[k] /\ wncc[i].s \in Live
    BY DEF Inv, WnccInv
  <2>2. \A s \in Live : s # 0
    BY TypeFacts DEF Inv, Live
  <2> QED BY <2>1, <2>2 DEF TableExact
<1> QED BY <1>1, <1>2

-----------------------------------------------------------------------------
\* The counts that are no references: dma_bufs, the watermark, smem_count and the
\* size of the cache.

Bound(b) == {s \in Live : smem[s].buf = b}
Mine == {s \in Live : smem[s].buf # Nobody}
Looking(b) == {t \in Threads : th[t].pc \in {"persist", "frames"} /\ Wants(t) = b}
Incs == {t \in Threads : th[t].pc = "inc"}

CountInv == DmaBufExact /\ WatermarkExact /\ SmemCountExact /\ RoomInv

One(p) == IF p THEN 1 ELSE 0

\* The sets that are counted are finite.
LEMMA FiniteParts ==
    ASSUME Typed
    PROVE  /\ IsFiniteSet(Live) /\ IsFiniteSet(Mine) /\ IsFiniteSet(cached) /\ IsFiniteSet(Incs)
           /\ IsFiniteSet(Inserting) /\ \A b : IsFiniteSet(Bound(b)) /\ IsFiniteSet(Looking(b))
           /\ Cardinality(Live) \in Nat /\ Cardinality(Mine) \in Nat /\ Cardinality(cached) \in Nat
           /\ Cardinality(Incs) \in Nat /\ Cardinality(Inserting) \in Nat /\ Cardinality(Threads) \in Nat
           /\ \A b : Cardinality(Bound(b)) \in Nat /\ Cardinality(Looking(b)) \in Nat
           /\ Cardinality(Inserting) <= Cardinality(Threads)
<1>1. IsFiniteSet(DOMAIN smem)
  BY TypeFacts, FS_Interval
<1>2. IsFiniteSet(Threads)
  BY Consts
<1>3. Live \subseteq DOMAIN smem /\ Mine \subseteq DOMAIN smem /\ cached \subseteq DOMAIN smem
      /\ \A b : Bound(b) \subseteq DOMAIN smem
  BY DEF Live, Mine, Bound, Typed, RestType
<1>4. Incs \subseteq Threads /\ Inserting \subseteq Threads /\ \A b : Looking(b) \subseteq Threads
  BY DEF Incs, Inserting, Looking
<1>5. IsFiniteSet(Live) /\ IsFiniteSet(Mine) /\ IsFiniteSet(cached) /\ \A b : IsFiniteSet(Bound(b))
  BY <1>1, <1>3, FS_Subset
<1>6. IsFiniteSet(Incs) /\ IsFiniteSet(Inserting) /\ \A b : IsFiniteSet(Looking(b))
  BY <1>2, <1>4, FS_Subset
<1>7. Cardinality(Inserting) <= Cardinality(Threads)
  BY <1>2, <1>4, FS_Subset
<1> QED BY <1>2, <1>5, <1>6, <1>7, FS_CardinalityType

\* The counts by the names of the sets.
LEMMA CountDefs ==
    /\ DmaBufExact <=> \A b \in Bufs : dmaref[b] = Cardinality(Bound(b)) + extra[b] + Cardinality(Looking(b))
    /\ WatermarkExact <=> watermark = Cardinality(cached) - Cardinality(Incs)
    /\ SmemCountExact <=> smem_count = Cardinality(Mine)
  BY DEF DmaBufExact, WatermarkExact, SmemCountExact, Bound, Looking, Incs, Mine

\* A set in which at most t changes.
LEMMA OneChanges ==
    ASSUME NEW S, NEW T, NEW t, IsFiniteSet(S), IsFiniteSet(T), \A u : u # t => (u \in S <=> u \in T)
    PROVE  Cardinality(T) = Cardinality(S) - One(t \in S) + One(t \in T)
<1> DEFINE R == S \ {t}
<1>1. T \ {t} = R
  OBVIOUS
<1>2. IsFiniteSet(R) /\ Cardinality(R) \in Nat
  BY FS_RemoveElement, FS_CardinalityType
<1>3. ASSUME NEW A, IsFiniteSet(A), A \ {t} = R PROVE Cardinality(A) = Cardinality(R) + One(t \in A)
  <2>1. IsFiniteSet(A \ {t}) /\ Cardinality(A \ {t}) = IF t \in A THEN Cardinality(A) - 1 ELSE Cardinality(A)
    BY <1>3, FS_RemoveElement
  <2>2. Cardinality(A) \in Nat
    BY <1>3, FS_CardinalityType
  <2>3. Cardinality(A \ {t}) = Cardinality(R)
    BY <1>3
  <2> HIDE DEF R
  <2> QED BY <2>1, <2>2, <2>3 DEF One
<1>4. Cardinality(S) = Cardinality(R) + One(t \in S)
  BY <1>3
<1>5. Cardinality(T) = Cardinality(R) + One(t \in T)
  BY <1>1, <1>3
<1>6. One(t \in S) \in Nat /\ One(t \in T) \in Nat
  BY DEF One
<1> HIDE DEF R
<1> QED BY <1>2, <1>4, <1>5, <1>6

\* A set from which some elements go.
LEMMA CardOut ==
    ASSUME NEW S, NEW D, IsFiniteSet(S), D \subseteq S
    PROVE  Cardinality(S \ D) = Cardinality(S) - Cardinality(D) /\ Cardinality(D) \in Nat
<1>1. IsFiniteSet(D) /\ IsFiniteSet(S \ D)
  BY FS_Subset
<1>2. IsFiniteSet((S \ D) \cup D) /\ Cardinality((S \ D) \cup D) = Cardinality(S \ D) + Cardinality(D)
  <2> DEFINE A == S \ D
  <2>1. A \cap D = {} /\ IsFiniteSet(A)
    BY <1>1
  <2> HIDE DEF A
  <2>2. Cardinality(A \cup D) = Cardinality(A) + Cardinality(D) /\ IsFiniteSet(A \cup D)
    BY <1>1, <2>1, DisjointCard
  <2> QED BY <2>2 DEF A
<1>3. Cardinality(S) = Cardinality(S \ D) + Cardinality(D)
  <2>1. (S \ D) \cup D = S
    OBVIOUS
  <2> QED BY <1>2, <2>1, Zenon
<1>4. Cardinality(S \ D) \in Nat /\ Cardinality(D) \in Nat
  BY <1>1, FS_CardinalityType
<1> DEFINE c == Cardinality(S \ D)
<1> HIDE DEF c
<1>5. Cardinality(S) = c + Cardinality(D) /\ c \in Nat /\ Cardinality(D) \in Nat
  BY <1>3, <1>4 DEF c
<1>6. c = Cardinality(S) - Cardinality(D)
  BY <1>5
<1> QED BY <1>5, <1>6 DEF c

\* At most the thread t does something.
But(t) == \A u \in Threads : u # t => th'[u] = th[u]
Looks(h, t, b) == t \in Threads /\ h[t].pc \in {"persist", "frames"} /\ Head(h[t].todo) = b

\* A step of t changes the number of threads that look for b by one at most.
LEMMA LookingStep ==
    ASSUME Typed, Typed', NEW t, But(t), NEW b
    PROVE  /\ Cardinality(Looking(b)') = Cardinality(Looking(b)) - One(Looks(th, t, b)) + One(Looks(th', t, b))
           /\ Cardinality(Looking(b)') \in Nat /\ Cardinality(Looking(b)) \in Nat
<1> DEFINE S == Looking(b)
           T == Looking(b)'
<1>1. \A u : u \in S <=> u \in Threads /\ th[u].pc \in {"persist", "frames"} /\ Head(th[u].todo) = b
  BY DEF Looking, Wants
<1>2. \A u : u \in T <=> u \in Threads /\ th'[u].pc \in {"persist", "frames"} /\ Head(th'[u].todo) = b
  BY DEF Looking, Wants
<1>3. IsFiniteSet(S) /\ IsFiniteSet(T)
  <2>1. S \subseteq Threads /\ T \subseteq Threads
    BY <1>1, <1>2
  <2> HIDE DEF S, T
  <2> QED BY <2>1, Consts, FS_Subset
<1>4. \A u : u # t => (u \in S <=> u \in T)
  BY <1>1, <1>2 DEF But
<1>5. (t \in S <=> Looks(th, t, b)) /\ (t \in T <=> Looks(th', t, b))
  BY <1>1, <1>2 DEF Looks
<1> HIDE DEF S, T
<1>6. Cardinality(T) = Cardinality(S) - One(t \in S) + One(t \in T)
  BY <1>3, <1>4, OneChanges
<1>7. One(t \in S) = One(Looks(th, t, b)) /\ One(t \in T) = One(Looks(th', t, b))
  BY <1>5 DEF One
<1> QED BY <1>3, <1>6, <1>7, FS_CardinalityType DEF S, T

\* The same after a step.
LEMMA CountDefsNext ==
    /\ DmaBufExact' <=> \A b \in Bufs : dmaref'[b] = Cardinality(Bound(b)') + extra'[b] + Cardinality(Looking(b)')
    /\ WatermarkExact' <=> watermark' = Cardinality(cached') - Cardinality(Incs')
    /\ SmemCountExact' <=> smem_count' = Cardinality(Mine')
  BY DEF DmaBufExact, WatermarkExact, SmemCountExact, Bound, Looking, Incs, Mine

\* The references on a dma_buf change with its mappings, less what is never put
\* and the lookups.
LEMMA DmaStep ==
    ASSUME Typed, Typed', DmaBufExact, NEW t, But(t), NEW g,
           \A b \in Bufs :
             /\ g[b] \in Int /\ Cardinality(Bound(b)') = Cardinality(Bound(b)) + g[b]
             /\ dmaref'[b] - extra'[b] - One(Looks(th', t, b)) = dmaref[b] - extra[b] - One(Looks(th, t, b)) + g[b]
    PROVE  DmaBufExact'
<1> SUFFICES ASSUME NEW b \in Bufs
             PROVE  dmaref'[b] = Cardinality(Bound(b)') + extra'[b] + Cardinality(Looking(b)')
  BY CountDefsNext
<1>1. dmaref[b] = Cardinality(Bound(b)) + extra[b] + Cardinality(Looking(b))
  BY CountDefs
<1>2. dmaref[b] \in Int /\ extra[b] \in Int /\ dmaref'[b] \in Int /\ extra'[b] \in Int
  BY DEF Typed, RestType
<1>3. Cardinality(Bound(b)) \in Nat
  BY FiniteParts
<1>4. One(Looks(th', t, b)) \in Int /\ One(Looks(th, t, b)) \in Int
  BY DEF One
<1>5. /\ Cardinality(Looking(b)') = Cardinality(Looking(b)) - One(Looks(th, t, b)) + One(Looks(th', t, b))
      /\ Cardinality(Looking(b)') \in Nat /\ Cardinality(Looking(b)) \in Nat
  BY LookingStep
<1>6. /\ g[b] \in Int /\ Cardinality(Bound(b)') = Cardinality(Bound(b)) + g[b]
      /\ dmaref'[b] - extra'[b] - One(Looks(th', t, b)) = dmaref[b] - extra[b] - One(Looks(th, t, b)) + g[b]
  OBVIOUS
<1> DEFINE k == Cardinality(Bound(b))
           kk == Cardinality(Bound(b)')
           l == Cardinality(Looking(b))
           ll == Cardinality(Looking(b)')
           o == One(Looks(th, t, b))
           oo == One(Looks(th', t, b))
<1> HIDE DEF k, kk, l, ll, o, oo
<1>7. /\ dmaref[b] = k + extra[b] + l /\ k \in Int /\ o \in Int /\ oo \in Int /\ ll = l - o + oo /\ l \in Int
      /\ kk = k + g[b] /\ dmaref'[b] - extra'[b] - oo = dmaref[b] - extra[b] - o + g[b] /\ g[b] \in Int
  BY <1>1, <1>3, <1>4, <1>5, <1>6 DEF k, kk, l, ll, o, oo
<1>8. dmaref'[b] = kk + extra'[b] + ll
  BY <1>2, <1>7
<1> QED BY <1>8 DEF kk, ll

\* The same mappings, and the same buffers behind them.
SameMaps == /\ DOMAIN smem' = DOMAIN smem
            /\ \A x \in DOMAIN smem : smem'[x].buf = smem[x].buf /\ smem'[x].st = smem[x].st

\* No mapping is made or freed.
LEMMA SameBound ==
    ASSUME SameMaps
    PROVE  Live' = Live /\ Mine' = Mine /\ \A b : Bound(b)' = Bound(b)
  BY DEF SameMaps, Live, Mine, Bound

\* A step outside the window.
LEMMA WatermarkStep ==
    ASSUME WatermarkExact, NEW t, But(t), t \in Threads => th[t].pc # "inc" /\ th'[t].pc # "inc",
           cached' = cached, watermark' = watermark
    PROVE  WatermarkExact'
<1>1. Incs' = Incs
  BY DEF Incs, But
<1> QED BY <1>1, CountDefs, CountDefsNext

\* A step that puts nothing into the cache.
LEMMA RoomStep ==
    ASSUME Typed, RoomInv, NEW t, But(t), t \in Threads => th'[t].pc # "insert",
           cached' \subseteq cached, cap' >= cap, cap' \in Nat
    PROVE  RoomInv'
<1>1. Inserting' \subseteq Inserting
  BY DEF Inserting, But
<1>2. IsFiniteSet(Inserting) /\ IsFiniteSet(cached) /\ Cardinality(cached) \in Nat /\ Cardinality(Inserting) \in Nat
      /\ Cardinality(Threads) \in Nat
  BY FiniteParts
<1>3. Cardinality(Inserting') <= Cardinality(Inserting) /\ Cardinality(Inserting') \in Nat
  BY <1>1, <1>2, FS_Subset, FS_CardinalityType
<1>4. Cardinality(cached') <= Cardinality(cached) /\ Cardinality(cached') \in Nat
  BY <1>2, FS_Subset, FS_CardinalityType
<1>5. cap \in Nat
  BY Consts DEF Typed, RestType
<1>6. Cardinality(cached) + Cardinality(Inserting) < cap + Cardinality(Threads)
  BY DEF RoomInv
<1>7. Cardinality(cached') + Cardinality(Inserting') < cap' + Cardinality(Threads)
  BY <1>2, <1>3, <1>4, <1>5, <1>6
<1> QED BY <1>7 DEF RoomInv

\* A thread goes on, or nothing does, and the mappings stay.
LEMMA QuietStep ==
    ASSUME Typed, Typed', CountInv, NEW t, But(t),
           t \in Threads => th[t].pc # "inc" /\ th'[t].pc \notin {"inc", "insert"},
           SameMaps, UNCHANGED <<cached, watermark, smem_count>>, cap' >= cap,
           \A b \in Bufs : dmaref'[b] - extra'[b] - One(Looks(th', t, b)) = dmaref[b] - extra[b] - One(Looks(th, t, b))
    PROVE  CountInv'
<1>1. Live' = Live /\ Mine' = Mine /\ \A b : Bound(b)' = Bound(b)
  BY SameBound
<1>2. DmaBufExact'
  <2>1. PICK g : g = [b \in Bufs |-> 0]
    OBVIOUS
  <2>2. \A b \in Bufs :
          /\ g[b] \in Int /\ Cardinality(Bound(b)') = Cardinality(Bound(b)) + g[b]
          /\ dmaref'[b] - extra'[b] - One(Looks(th', t, b)) = dmaref[b] - extra[b] - One(Looks(th, t, b)) + g[b]
    <3> SUFFICES ASSUME NEW b \in Bufs
                 PROVE  /\ g[b] \in Int /\ Cardinality(Bound(b)') = Cardinality(Bound(b)) + g[b]
                        /\ dmaref'[b] - extra'[b] - One(Looks(th', t, b)) = dmaref[b] - extra[b] - One(Looks(th, t, b)) + g[b]
      OBVIOUS
    <3>1. g[b] = 0
      BY <2>1
    <3>2. Cardinality(Bound(b)) \in Nat /\ Cardinality(Bound(b)') = Cardinality(Bound(b))
      BY <1>1, FiniteParts
    <3>3. dmaref[b] \in Int /\ extra[b] \in Int /\ One(Looks(th, t, b)) \in Int
      BY DEF One, Typed, RestType
    <3> QED BY <3>1, <3>2, <3>3
  <2> QED BY <2>2, DmaStep DEF CountInv
<1>3. WatermarkExact'
  BY WatermarkStep DEF CountInv
<1>4. SmemCountExact'
  BY <1>1, CountDefs, CountDefsNext DEF CountInv
<1>5. RoomInv'
  <2>1. cap' \in Nat
    BY Consts DEF Typed, RestType
  <2> QED BY <2>1, RoomStep DEF CountInv
<1> QED BY <1>2, <1>3, <1>4, <1>5 DEF CountInv

\* A mapping is made.
LEMMA GrowCounts ==
    ASSUME Typed, Typed', CountInv, NEW t, But(t),
           t \in Threads => th[t].pc # "inc" /\ th'[t].pc \notin {"inc", "insert"},
           NEW m \in MapRec, m.st = "live", m.lost = "no", Room, smem' = Append(smem, m),
           UNCHANGED <<cached, cap, watermark>>, smem_count' = smem_count + One(m.buf # Nobody),
           \A b \in Bufs : dmaref'[b] - extra'[b] - One(Looks(th', t, b)) =
                           dmaref[b] - extra[b] - One(Looks(th, t, b)) + One(m.buf = b)
    PROVE  CountInv'
<1>1. /\ Fresh \notin DOMAIN smem /\ Live' = Live \cup {Fresh} /\ smem'[Fresh] = m
      /\ \A x \in DOMAIN smem : smem'[x] = smem[x]
  BY SmemGrow
<1>2. PICK f : f = Fresh
  OBVIOUS
<1>3. /\ f \notin Live /\ Live' = Live \cup {f} /\ smem'[f] = m /\ \A x \in Live : smem'[x] = smem[x]
  BY <1>1, <1>2 DEF Live
<1>4. \A b : /\ \A u : u # f => (u \in Bound(b) <=> u \in Bound(b)')
             /\ f \notin Bound(b) /\ (f \in Bound(b)' <=> m.buf = b)
  <2> SUFFICES ASSUME NEW b
               PROVE  /\ \A u : u # f => (u \in Bound(b) <=> u \in Bound(b)')
                      /\ f \notin Bound(b) /\ (f \in Bound(b)' <=> m.buf = b)
    OBVIOUS
  <2>1. \A u : u \in Bound(b)' <=> u \in Live' /\ smem'[u].buf = b
    BY DEF Bound
  <2>2. \A u : u \in Bound(b) <=> u \in Live /\ smem[u].buf = b
    BY DEF Bound
  <2>3. \A u : u # f => (u \in Bound(b) <=> u \in Bound(b)')
    BY <1>3, <2>1, <2>2, ZenonT(40)
  <2>4. f \notin Bound(b) /\ (f \in Bound(b)' <=> m.buf = b)
    BY <1>3, <2>1, <2>2
  <2> QED BY <2>3, <2>4
<1>5. /\ \A u : u # f => (u \in Mine <=> u \in Mine')
      /\ f \notin Mine /\ (f \in Mine' <=> m.buf # Nobody)
  <2>1. \A u : u \in Mine' <=> u \in Live' /\ smem'[u].buf # Nobody
    BY DEF Mine
  <2>2. \A u : u \in Mine <=> u \in Live /\ smem[u].buf # Nobody
    BY DEF Mine
  <2> QED BY <1>3, <2>1, <2>2, ZenonT(40)
<1>6. \A b : Cardinality(Bound(b)') = Cardinality(Bound(b)) + One(m.buf = b)
  <2> SUFFICES ASSUME NEW b PROVE Cardinality(Bound(b)') = Cardinality(Bound(b)) + One(m.buf = b)
    OBVIOUS
  <2>1. IsFiniteSet(Bound(b)) /\ Cardinality(Bound(b)) \in Nat
    BY FiniteParts
  <2>2. Bound(b)' \subseteq DOMAIN smem' /\ IsFiniteSet(DOMAIN smem')
    <3>1. Len(smem') \in Nat /\ DOMAIN smem' = 1..Len(smem')
      BY DEF Typed, SmemType
    <3>2. IsFiniteSet(DOMAIN smem')
      BY <3>1, FS_Interval
    <3> QED BY <3>2 DEF Bound, Live
  <2>3. IsFiniteSet(Bound(b)')
    BY <2>2, FS_Subset
  <2> DEFINE S == Bound(b)
             T == Bound(b)'
  <2>4. IsFiniteSet(S) /\ IsFiniteSet(T) /\ (\A u : u # f => (u \in S <=> u \in T)) /\ f \notin S /\ (f \in T <=> m.buf = b)
    BY <1>4, <2>1, <2>3
  <2> HIDE DEF S, T
  <2>5. Cardinality(T) = Cardinality(S) - One(f \in S) + One(f \in T)
    BY <2>4, OneChanges
  <2>6. One(f \in S) = 0 /\ One(f \in T) = One(m.buf = b)
    BY <2>4 DEF One
  <2> QED BY <2>1, <2>5, <2>6 DEF S, T, One
<1>7. Cardinality(Mine') = Cardinality(Mine) + One(m.buf # Nobody)
  <2>1. IsFiniteSet(Mine) /\ Cardinality(Mine) \in Nat
    BY FiniteParts
  <2>2. Mine' \subseteq DOMAIN smem' /\ IsFiniteSet(DOMAIN smem')
    <3>1. Len(smem') \in Nat /\ DOMAIN smem' = 1..Len(smem')
      BY DEF Typed, SmemType
    <3>2. IsFiniteSet(DOMAIN smem')
      BY <3>1, FS_Interval
    <3> QED BY <3>2 DEF Mine, Live
  <2>3. IsFiniteSet(Mine')
    BY <2>2, FS_Subset
  <2> DEFINE S == Mine
             T == Mine'
  <2>4. IsFiniteSet(S) /\ IsFiniteSet(T) /\ (\A u : u # f => (u \in S <=> u \in T)) /\ f \notin S /\ (f \in T <=> m.buf # Nobody)
    BY <1>5, <2>1, <2>3
  <2> HIDE DEF S, T
  <2>5. Cardinality(T) = Cardinality(S) - One(f \in S) + One(f \in T)
    BY <2>4, OneChanges
  <2>6. One(f \in S) = 0 /\ One(f \in T) = One(m.buf # Nobody)
    BY <2>4 DEF One
  <2> QED BY <2>1, <2>5, <2>6 DEF S, T, One
<1>8. DmaBufExact'
  <2>1. PICK g : g = [b \in Bufs |-> One(m.buf = b)]
    OBVIOUS
  <2>2. \A b \in Bufs : g[b] = One(m.buf = b) /\ g[b] \in Int
    BY <2>1 DEF One
  <2> QED BY <1>6, <2>2, DmaStep DEF CountInv
<1>9. WatermarkExact'
  BY WatermarkStep DEF CountInv
<1>10. SmemCountExact'
  BY <1>7, CountDefs, CountDefsNext DEF CountInv
<1>11. RoomInv'
  <2>1. cap' \in Nat /\ cap' >= cap /\ cached' \subseteq cached
    BY Consts DEF Typed, RestType
  <2> QED BY <2>1, RoomStep DEF CountInv
<1> QED BY <1>8, <1>9, <1>10, <1>11 DEF CountInv

\* Mappings of the client's buffers are freed.
LEMMA FreeCounts ==
    ASSUME Typed, Typed', DmaBufExact, SmemCountExact, NEW t, But(t),
           t \in Threads => \A b \in Bufs : ~Looks(th, t, b) /\ ~Looks(th', t, b),
           NEW D, Frees(D), D \subseteq Live, \A x \in D : smem[x].buf # Nobody,
           dmaref' = Put(smem, D), extra' = extra, smem_count' = smem_count - Cardinality(D)
    PROVE  DmaBufExact' /\ SmemCountExact'
<1>1. Live' = Live \ D /\ \A x \in Live : smem'[x].buf = smem[x].buf
  BY FreesSets DEF Frees, Live
<1>2. \A b : Bound(b)' = Bound(b) \ {s \in D : smem[s].buf = b} /\ {s \in D : smem[s].buf = b} \subseteq Bound(b)
  <2>1. \A b : \A u : u \in Bound(b)' <=> u \in Live' /\ smem'[u].buf = b
    BY DEF Bound
  <2>2. \A b : \A u : u \in Bound(b) <=> u \in Live /\ smem[u].buf = b
    BY DEF Bound
  <2> QED BY <1>1, <2>1, <2>2
<1>3. Mine' = Mine \ D /\ D \subseteq Mine
  <2>1. \A u : u \in Mine' <=> u \in Live' /\ smem'[u].buf # Nobody
    BY DEF Mine
  <2>2. \A u : u \in Mine <=> u \in Live /\ smem[u].buf # Nobody
    BY DEF Mine
  <2> QED BY <1>1, <2>1, <2>2
<1>4. SmemCountExact'
  <2>1. Cardinality(Mine \ D) = Cardinality(Mine) - Cardinality(D)
    BY <1>3, FiniteParts, CardOut
  <2> QED BY <1>3, <2>1, CountDefs, CountDefsNext
<1>5. DmaBufExact'
  <2>1. PICK g : g = [b \in Bufs |-> 0 - Cardinality({s \in D : smem[s].buf = b})]
    OBVIOUS
  <2>2. ASSUME NEW b \in Bufs
        PROVE  /\ g[b] \in Int /\ Cardinality(Bound(b)') = Cardinality(Bound(b)) + g[b]
               /\ dmaref'[b] - extra'[b] - One(Looks(th', t, b)) = dmaref[b] - extra[b] - One(Looks(th, t, b)) + g[b]
    <3> DEFINE B == {s \in D : smem[s].buf = b}
    <3>1. IsFiniteSet(Bound(b)) /\ Cardinality(Bound(b)) \in Nat
      BY FiniteParts
    <3>2. Bound(b)' = Bound(b) \ B /\ B \subseteq Bound(b)
      BY <1>2
    <3>3. dmaref'[b] = dmaref[b] - Cardinality(B)
      BY DEF Put
    <3>4. g[b] = 0 - Cardinality(B)
      BY <2>1
    <3> HIDE DEF B
    <3>5. Cardinality(Bound(b) \ B) = Cardinality(Bound(b)) - Cardinality(B) /\ Cardinality(B) \in Nat
      BY <3>1, <3>2, CardOut
    <3>6. Cardinality(Bound(b)') = Cardinality(Bound(b)) - Cardinality(B)
      BY <3>2, <3>5
    <3>7. dmaref[b] \in Int /\ extra[b] \in Int
      BY DEF Typed, RestType
    <3>8. One(Looks(th', t, b)) = 0 /\ One(Looks(th, t, b)) = 0
      BY DEF One, Looks
    <3> QED BY <3>1, <3>3, <3>4, <3>5, <3>6, <3>7, <3>8
  <2> QED BY <2>2, DmaStep
<1> QED BY <1>4, <1>5

\* A step that leaves the mappings alone.
LEMMA SameSmem ==
    ASSUME smem' = smem PROVE SameMaps
  BY DEF SameMaps

\* A step that takes a reference.
LEMMA MoreRef ==
    ASSUME Typed, NEW s \in DOMAIN smem, smem' = [smem EXCEPT ![s].ref = @ + 1] PROVE SameMaps
<1>1. RefsOnly
  BY RefsOnlyPlus, Zenon
<1> QED BY <1>1 DEF RefsOnly, SameMaps

\* Nobody looks for a buffer but at these places.
LEMMA NoLook ==
    ASSUME NEW h, NEW t, t \in Threads => h[t].pc \notin {"persist", "frames"}, NEW b
    PROVE  ~Looks(h, t, b) /\ One(Looks(h, t, b)) = 0
  BY DEF Looks, One

\* A thread that does not hold the dma_buf it looked up.
LEMMA NobodyLooks ==
    ASSUME NEW h, NEW t, t \in Threads => h[t].pc \notin {"persist", "frames"}
    PROVE  \A b : One(Looks(h, t, b)) = 0
  BY NoLook

\* The balance of a step that neither begins nor ends a lookup.
LEMMA Balance ==
    ASSUME UNCHANGED <<dmaref, extra>>, NEW t,
           t \in Threads => th[t].pc \notin {"persist", "frames"},
           t \in Threads => th'[t].pc \notin {"persist", "frames"}
    PROVE  \A b \in Bufs : dmaref'[b] - extra'[b] - One(Looks(th', t, b)) = dmaref[b] - extra[b] - One(Looks(th, t, b))
<1>1. \A b : One(Looks(th, t, b)) = 0
  BY NobodyLooks
<1>2. \A b : One(Looks(th', t, b)) = 0
  BY NobodyLooks
<1> QED BY <1>1, <1>2

\* The same mappings and references of the client's buffers, and no lookup.
LEMMA SameDma ==
    ASSUME Typed, Typed', DmaBufExact, SmemCountExact, NEW t, But(t),
           t \in Threads => th[t].pc \notin {"persist", "frames"}, t \in Threads => th'[t].pc \notin {"persist", "frames"},
           Mine' = Mine, \A b \in Bufs : Bound(b)' = Bound(b), UNCHANGED <<dmaref, extra, smem_count>>
    PROVE  DmaBufExact' /\ SmemCountExact'
<1>1. \A b \in Bufs : dmaref'[b] - extra'[b] - One(Looks(th', t, b)) = dmaref[b] - extra[b] - One(Looks(th, t, b))
  BY Balance
<1>2. PICK g : g = [b \in Bufs |-> 0]
  OBVIOUS
<1>3. \A b \in Bufs : /\ g[b] = 0 /\ Cardinality(Bound(b)) \in Nat /\ Cardinality(Bound(b)') = Cardinality(Bound(b))
                      /\ dmaref[b] \in Int /\ extra[b] \in Int /\ One(Looks(th, t, b)) \in Int
  BY <1>2, FiniteParts DEF One, Typed, RestType
<1>4. \A b \in Bufs :
        /\ g[b] \in Int /\ Cardinality(Bound(b)') = Cardinality(Bound(b)) + g[b]
        /\ dmaref'[b] - extra'[b] - One(Looks(th', t, b)) = dmaref[b] - extra[b] - One(Looks(th, t, b)) + g[b]
  BY <1>1, <1>3
<1>5. DmaBufExact'
  BY <1>4, DmaStep
<1> QED BY <1>5, CountDefs, CountDefsNext

\* A step of one thread that changes no count at all.
LEMMA StillStep ==
    ASSUME Typed, Typed', CountInv, NEW t, But(t),
           t \in Threads => th[t].pc \notin {"inc", "persist", "frames"},
           t \in Threads => th'[t].pc \notin {"inc", "insert", "persist", "frames"},
           SameMaps, UNCHANGED <<cached, watermark, smem_count, dmaref, extra>>, cap' >= cap
    PROVE  CountInv'
<1>1. \A b \in Bufs : dmaref'[b] - extra'[b] - One(Looks(th', t, b)) = dmaref[b] - extra[b] - One(Looks(th, t, b))
  BY Balance
<1> QED BY <1>1, QuietStep

\* The limit of the cache stays.
LEMMA CapSame ==
    ASSUME Typed, cap' = cap PROVE cap' >= cap
  BY Consts DEF Typed, RestType

\* A step of the thread t only.
LEMMA Goes ==
    ASSUME Typed, NEW t \in Threads, NEW r, th' = [th EXCEPT ![t] = r]
    PROVE  th'[t] = r /\ But(t)
  BY DEF But, Typed, ThType

\* msm_cvp_map_frame is called.
LEMMA MapFrameCounts ==
    ASSUME Typed, Typed', CountInv, NEW t \in Threads, NEW bs, NEW config, MapFrame(t, bs, config)
    PROVE  CountInv'
<1>1. th[t].pc = "idle"
  BY DEF MapFrame, Calls
<1>2. PICK o : o = IF config THEN "config" ELSE "frame"
  OBVIOUS
<1>3. th' = [th EXCEPT ![t] = [Idle EXCEPT !.pc = "find", !.todo = bs, !.op = o]]
  BY <1>2 DEF MapFrame
<1>4. th'[t].pc = "find" /\ But(t)
  <2> DEFINE r == [Idle EXCEPT !.pc = "find", !.todo = bs, !.op = o]
  <2>1. r.pc = "find"
    BY DEF Idle
  <2> HIDE DEF r
  <2>2. th' = [th EXCEPT ![t] = r]
    BY <1>3 DEF r
  <2>3. th'[t] = r /\ But(t)
    BY <2>2, Goes, Zenon
  <2> QED BY <2>1, <2>3
<1>5. UNCHANGED <<smem, cached, cap, dmaref, extra, watermark, smem_count>>
  BY DEF MapFrame
<1> QED BY <1>1, <1>4, <1>5, SameSmem, CapSame, StillStep

\* A call begins: nothing is counted.
LEMMA StartCounts ==
    ASSUME Typed, Typed', CountInv, NEW t \in Threads, th[t].pc = "idle",
           NEW p \in {"find", "alloc", "table"}, NEW o, NEW bs,
           th' = [th EXCEPT ![t] = [Idle EXCEPT !.pc = p, !.op = o, !.todo = bs]],
           UNCHANGED <<smem, cached, cap, dmaref, extra, watermark, smem_count>>
    PROVE  CountInv'
<1>1. th'[t].pc = p /\ But(t)
  <2> DEFINE r == [Idle EXCEPT !.pc = p, !.op = o, !.todo = bs]
  <2>1. r.pc = p
    BY DEF Idle
  <2> HIDE DEF r
  <2>2. th' = [th EXCEPT ![t] = r]
    BY DEF r
  <2>3. th'[t] = r /\ But(t)
    BY <2>2, Goes, Zenon
  <2> QED BY <2>1, <2>3
<1> QED BY <1>1, SameSmem, CapSame, StillStep

\* The calls about lasting buffers begin.
LEMMA MapFeatureCounts ==
    ASSUME Typed, Typed', CountInv, NEW t \in Threads, NEW b \in Bufs, MapFeaturePersist(t, b)
    PROVE  CountInv'
<1>1. /\ th[t].pc = "idle" /\ UNCHANGED <<smem, cached, cap, dmaref, extra, watermark, smem_count>>
      /\ th' = [th EXCEPT ![t] = [Idle EXCEPT !.pc = "alloc", !.op = "feature", !.todo = <<b>>]]
  BY DEF MapFeaturePersist, Calls
<1> QED BY <1>1, StartCounts, Zenon

\* ... about a WNCC source,
LEMMA MapWnccCounts ==
    ASSUME Typed, Typed', CountInv, NEW t \in Threads, NEW b \in Bufs, MapBufWncc(t, b)
    PROVE  CountInv'
<1>1. /\ th[t].pc = "idle" /\ UNCHANGED <<smem, cached, cap, dmaref, extra, watermark, smem_count>>
      /\ th' = [th EXCEPT ![t] = [Idle EXCEPT !.pc = "table", !.op = "wncc", !.todo = <<b>>]]
  BY DEF MapBufWncc, Calls
<1> QED BY <1>1, StartCounts, Zenon

\* ... and about a persistent buffer of the client.
LEMMA MapUserCounts ==
    ASSUME Inv, Typed', CountInv, NEW t \in Threads, NEW b \in Bufs, NEW kind,
           MapUserPersist(t, b, kind)
    PROVE  CountInv'
<1> DEFINE hit == Mapped(b, {"user", "params", "feature"})
<1>1. th[t].pc = "idle" /\ Typed /\ UNCHANGED <<cached, cap, dmaref, extra, watermark, smem_count>>
  BY DEF MapUserPersist, Calls, Inv
<1>2. CASE hit # {} /\ smem' = [smem EXCEPT ![persist[Min(hit)].s].ref = @ + 1] /\ UNCHANGED th
  <2>1. Min(hit) \in DOMAIN persist
    BY <1>2, MappedAre
  <2>2. PICK s : s = persist[Min(hit)].s
    OBVIOUS
  <2>3. s \in DOMAIN smem /\ smem' = [smem EXCEPT ![s].ref = @ + 1]
    BY <1>1, <1>2, <2>1, <2>2, TypeFacts DEF PersistRec
  <2>4. SameMaps
    BY <1>1, <2>3, MoreRef
  <2>5. But(t) /\ th'[t].pc = "idle"
    BY <1>1, <1>2 DEF But
  <2> QED BY <1>1, <2>4, <2>5, CapSame, StillStep
<1>3. CASE /\ UNCHANGED smem
           /\ th' = [th EXCEPT ![t] = [Idle EXCEPT !.pc = IF kind = "params" THEN "find" ELSE "alloc",
                                                   !.op = kind, !.todo = <<b>>]]
  <2>1. PICK p : p = IF kind = "params" THEN "find" ELSE "alloc"
    OBVIOUS
  <2>2. p \in {"find", "alloc", "table"} /\ th' = [th EXCEPT ![t] = [Idle EXCEPT !.pc = p, !.op = kind, !.todo = <<b>>]]
    BY <1>3, <2>1
  <2>3. UNCHANGED <<smem, cached, cap, dmaref, extra, watermark, smem_count>>
    BY <1>1, <1>3
  <2> QED BY <1>1, <2>2, <2>3, StartCounts, Zenon
<1> QED BY <1>2, <1>3 DEF MapUserPersist

\* How a thread goes on.
LEMMA GoesPc ==
    ASSUME Typed, NEW t \in Threads, NEW p, th' = [th EXCEPT ![t].pc = p]
    PROVE  th'[t].pc = p /\ th'[t].todo = th[t].todo /\ But(t)
<1>1. th[t] \in ThRec
  BY TypeFacts
<1>2. DOMAIN th = Threads
  BY DEF Typed, ThType
<1>3. th'[t] = [th[t] EXCEPT !.pc = p] /\ But(t)
  BY <1>2 DEF But
<1> QED BY <1>1, <1>3 DEF ThRec

\* The thread t goes on with a mapping,
LEMMA GoesMapping ==
    ASSUME Typed, NEW t \in Threads, NEW p, NEW s, th' = ToMapping(t, p, s)
    PROVE  th'[t].pc = p /\ th'[t].todo = th[t].todo /\ But(t)
<1>1. th' = [th EXCEPT ![t] = Rec(p, th[t].op, th[t].todo, th[t].got, s)]
  BY ToPcS
<1>2. PICK r : r = Rec(p, th[t].op, th[t].todo, th[t].got, s)
  OBVIOUS
<1>3. th'[t] = r /\ But(t)
  BY <1>1, <1>2, Goes, Zenon
<1>4. r.pc = p /\ r.todo = th[t].todo
  BY <1>2, RecFields
<1> QED BY <1>3, <1>4

\* ... to the next buffer of the packet,
LEMMA GoesNext ==
    ASSUME Typed, NEW t \in Threads, NEW p, NEW bs, NEW g, th' = ToNext(t, p, bs, g)
    PROVE  th'[t].pc = p /\ But(t)
<1>1. th \in [Threads -> ThRec] /\ th[t] \in ThRec
  BY DEF Typed, ThType
<1>2. th'[t] = [th[t] EXCEPT !.todo = bs, !.got = g, !.pc = p] /\ But(t)
  BY <1>1 DEF ToNext, But
<1> QED BY <1>1, <1>2 DEF ThRec

\* ... or its call ends.
LEMMA GoesIdle ==
    ASSUME Typed, NEW t \in Threads, Finish(t)
    PROVE  th'[t].pc = "idle" /\ But(t)
<1>1. th' = [th EXCEPT ![t] = Idle]
  BY DEF Finish
<1>2. th'[t] = Idle /\ But(t)
  BY <1>1 DEF But, Typed, ThType
<1> QED BY <1>2 DEF Idle

\* A thread that looks for the buffer b.
LEMMA LookFor ==
    ASSUME NEW h, NEW t \in Threads, h[t].pc \in {"persist", "frames"}, NEW b
    PROVE  One(Looks(h, t, b)) = One(Head(h[t].todo) = b)
  BY DEF Looks, One

\* A new mapping with its reference on the dma_buf, made by a thread that does not look.
LEMMA MakesCounts ==
    ASSUME Inv, Typed', CountInv, NEW t \in Threads, th[t].pc \in {"alloc", "table"}, Finish(t),
           NEW b \in Bufs, NEW n \in Nat, Room, smem' = Append(smem, Mapping(b, n)),
           dmaref' = Get(b, 1),
           smem_count' = smem_count + 1, UNCHANGED <<cached, cap, watermark, extra>>
    PROVE  CountInv'
<1>1. Typed
  BY DEF Inv
<1>2. th'[t].pc = "idle" /\ But(t)
  BY <1>1, GoesIdle
<1>3. PICK m : m = Mapping(b, n)
  OBVIOUS
<1>4. m \in MapRec /\ m.st = "live" /\ m.lost = "no" /\ m.buf = b
  BY <1>3 DEF Mapping, MapRec
<1>5. b # Nobody
  BY Consts
<1>6. One(m.buf # Nobody) = 1
  BY <1>4, <1>5 DEF One
<1>7. \A c : One(Looks(th, t, c)) = 0
  BY NobodyLooks
<1>8. \A c : One(Looks(th', t, c)) = 0
  BY <1>2, NobodyLooks
<1>9. \A c \in Bufs : dmaref'[c] = dmaref[c] + One(m.buf = c) /\ dmaref[c] \in Int /\ extra[c] \in Int
                      /\ One(m.buf = c) \in Int /\ extra'[c] = extra[c]
  BY <1>1, <1>4 DEF Get, One, Typed, RestType
<1>10. \A c \in Bufs : dmaref'[c] - extra'[c] - One(Looks(th', t, c)) =
                       dmaref[c] - extra[c] - One(Looks(th, t, c)) + One(m.buf = c)
  BY <1>7, <1>8, <1>9
<1> QED BY <1>1, <1>2, <1>3, <1>4, <1>6, <1>10, GrowCounts

\* A persistent buffer is mapped: it counts for its dma_buf and in smem_count.
LEMMA AllocPersistCounts ==
    ASSUME Inv, Typed', CountInv, NEW t \in Threads, AllocPersist(t)
    PROVE  CountInv'
<1>1. Typed /\ th[t].pc = "alloc" /\ Finish(t) /\ UNCHANGED <<cached, cap, watermark, extra>>
  BY DEF AllocPersist, Inv
<1>2. th[t].todo[1] \in Bufs
  <2>1. th[t].todo \in Seq(Bufs) /\ th[t].todo # <<>>
    BY <1>1, TypeFacts, ThreadFields DEF Inv, ShapeInv, Shape
  <2> QED BY <2>1
<1>3. CASE UNCHANGED <<smem, persist, dmaref, smem_count>>
  BY <1>1, <1>3, GoesIdle, SameSmem, CapSame, StillStep
<1>4. CASE /\ Room /\ smem' = Append(smem, Mapping(th[t].todo[1], 1)) /\ dmaref' = Get(th[t].todo[1], 1)
           /\ smem_count' = smem_count + 1
  <2>1. 1 \in Nat
    OBVIOUS
  <2> QED BY <1>1, <1>2, <1>4, <2>1, MakesCounts
<1> QED BY <1>3, <1>4 DEF AllocPersist

\* So does a WNCC source.
LEMMA WnccAddCounts ==
    ASSUME Inv, Typed', CountInv, NEW t \in Threads, WnccAdd(t)
    PROVE  CountInv'
<1>1. Typed /\ th[t].pc = "table" /\ Finish(t) /\ UNCHANGED <<cached, cap, watermark, extra>>
  BY DEF WnccAdd, Inv
<1>2. th[t].todo[1] \in Bufs
  <2>1. th[t].todo \in Seq(Bufs) /\ th[t].todo # <<>>
    BY <1>1, TypeFacts, ThreadFields DEF Inv, ShapeInv, Shape
  <2> QED BY <2>1
<1>3. CASE UNCHANGED <<smem, wncc, table, dmaref, smem_count>>
  BY <1>1, <1>3, GoesIdle, SameSmem, CapSame, StillStep
<1>4. CASE /\ Room /\ smem' = Append(smem, Mapping(th[t].todo[1], 0)) /\ dmaref' = Get(th[t].todo[1], 1)
           /\ smem_count' = smem_count + 1
  <2>1. 0 \in Nat
    OBVIOUS
  <2> QED BY <1>1, <1>2, <1>4, <2>1, MakesCounts
<1> QED BY <1>3, <1>4 DEF WnccAdd

\* Nothing is done by a thread.
LEMMA NoThread ==
    \E t : t \notin Threads
  BY NoSetContainsEverything

\* A buffer of the session itself counts nowhere.
LEMMA AllocateArpCounts ==
    ASSUME Inv, Typed', CountInv, AllocateArp
    PROVE  CountInv'
<1>1. Typed /\ Room /\ smem' = Append(smem, Mapping(Nobody, 1))
      /\ UNCHANGED <<cached, cap, dmaref, extra, watermark, smem_count, th>>
  BY DEF AllocateArp, Inv
<1>2. PICK t : t \notin Threads
  BY NoThread
<1>3. PICK m : m = Mapping(Nobody, 1)
  OBVIOUS
<1>4. m \in MapRec /\ m.st = "live" /\ m.lost = "no" /\ m.buf = Nobody
  BY <1>3 DEF Mapping, MapRec
<1>5. But(t)
  BY <1>1 DEF But
<1>6. smem_count' = smem_count + One(m.buf # Nobody)
  BY <1>1, <1>4 DEF One, Typed, RestType
<1>7. \A c : One(Looks(th, t, c)) = 0
  BY <1>2, NobodyLooks
<1>8. \A c : One(Looks(th', t, c)) = 0
  BY <1>2, NobodyLooks
<1>9. \A c \in Bufs : One(m.buf = c) = 0 /\ dmaref'[c] = dmaref[c] /\ extra'[c] = extra[c]
                      /\ dmaref[c] \in Int /\ extra[c] \in Int
  BY <1>1, <1>4, Consts DEF One, Typed, RestType
<1>10. \A c \in Bufs : dmaref'[c] - extra'[c] - One(Looks(th', t, c)) =
                       dmaref[c] - extra[c] - One(Looks(th, t, c)) + One(m.buf = c)
  BY <1>7, <1>8, <1>9
<1> QED BY <1>1, <1>2, <1>3, <1>4, <1>5, <1>6, <1>10, GrowCounts

\* A frame uses the address of a persistent buffer.
LEMMA BorrowCounts ==
    ASSUME Inv, Typed', CountInv, NEW t \in Threads, Borrow(t)
    PROVE  CountInv'
<1>1. Typed /\ th[t].pc = "find" /\ UNCHANGED <<smem, cached, cap, dmaref, extra, watermark, smem_count>>
  BY DEF Borrow, Inv
<1>2. PICK p, bs, g : /\ p = IF Tail(th[t].todo) = <<>> THEN "list" ELSE "find"
                      /\ bs = Tail(th[t].todo)
                      /\ g = Append(th[t].got, [s |-> FirstMapped(Wants(t)).s, own |-> FALSE])
  OBVIOUS
<1>3. th' = ToNext(t, p, bs, g)
  BY <1>2 DEF Borrow, ToNext
<1>4. p \in {"list", "find"}
  BY <1>2
<1>5. th'[t].pc = p /\ But(t)
  BY <1>1, <1>3, GoesNext
<1> QED BY <1>1, <1>4, <1>5, SameSmem, CapSame, StillStep

\* The frame is listed.
LEMMA ListFrameCounts ==
    ASSUME Inv, Typed', CountInv, NEW t \in Threads, ListFrame(t)
    PROVE  CountInv'
<1>1. Typed /\ th[t].pc = "list" /\ Finish(t) /\ UNCHANGED <<smem, cached, cap, dmaref, extra, watermark, smem_count>>
  BY DEF ListFrame, Inv
<1> QED BY <1>1, GoesIdle, SameSmem, CapSame, StillStep

\* The mapping is used.
LEMMA UseSmemCounts ==
    ASSUME Inv, Typed', CountInv, NEW t \in Threads, UseSmem(t)
    PROVE  CountInv'
<1>1. Typed /\ th[t].pc = "use" /\ UNCHANGED <<smem, cached, cap, dmaref, extra, watermark, smem_count>>
  BY DEF UseSmem, Inv
<1>2. CASE Finish(t)
  BY <1>1, <1>2, GoesIdle, SameSmem, CapSame, StillStep
<1>3. CASE th[t].op # "params"
  <2>1. PICK p, bs, g : /\ p = CASE th[t].s \notin Live -> "undo"
                                 [] th[t].s \in Live /\ Tail(th[t].todo) = <<>> -> "list"
                                 [] th[t].s \in Live /\ Tail(th[t].todo) # <<>> -> "find"
                        /\ bs = Tail(th[t].todo)
                        /\ g = Append(th[t].got, [s |-> th[t].s, own |-> TRUE])
    OBVIOUS
  <2>2. th' = ToNextFree(t, p, bs, g, 0)
    BY <1>3, <2>1 DEF UseSmem, ToNextFree
  <2>3. PICK r : r = Rec(p, th[t].op, bs, g, 0)
    OBVIOUS
  <2>4. th' = [th EXCEPT ![t] = r]
    BY <1>1, <2>2, <2>3, ToAll
  <2>5. th'[t] = r /\ But(t)
    BY <1>1, <2>4, Goes, Zenon
  <2>6. p \in {"undo", "list", "find"}
    BY <2>1
  <2>7. th'[t].pc \in {"undo", "list", "find"}
    BY <2>3, <2>5, <2>6, RecFields
  <2> QED BY <1>1, <2>5, <2>7, SameSmem, CapSame, StillStep
<1> QED BY <1>2, <1>3 DEF UseSmem

\* The thread t has found a mapping.
LEMMA GoesFound ==
    ASSUME Typed, NEW t \in Threads, NEW s, Found(t, s)
    PROVE  th'[t].pc = "valid" /\ But(t)
<1>1. th' = ToMapping(t, "valid", s)
  BY DEF Found, ToMapping
<1> QED BY <1>1, GoesMapping

\* A hit in one of the lists keeps the reference on the dma_buf, as one that is never put.
LEMMA HitCounts ==
    ASSUME Inv, Typed', CountInv, NEW t \in Threads, th[t].pc \in {"persist", "frames"},
           NEW s \in DOMAIN smem,
           ListHit(t, s), UNCHANGED <<cached, cap, dmaref, watermark, smem_count>>
    PROVE  CountInv'
<1>1. Typed
  BY DEF Inv
<1>2. smem' = [smem EXCEPT ![s].ref = @ + 1] /\ extra' = [extra EXCEPT ![Wants(t)] = @ + 1] /\ Found(t, s)
  BY DEF ListHit
<1>3. th'[t].pc = "valid" /\ But(t)
  BY <1>1, <1>2, GoesFound
<1>4. SameMaps
  BY <1>1, <1>2, MoreRef
<1>5. \A b : One(Looks(th', t, b)) = 0
  BY <1>3, NobodyLooks
<1>6. \A b : One(Looks(th, t, b)) = One(Wants(t) = b)
  BY LookFor DEF Wants
<1>7. \A b \in Bufs : /\ extra'[b] = extra[b] + One(Wants(t) = b) /\ One(Wants(t) = b) \in Int
                      /\ dmaref[b] \in Int /\ extra[b] \in Int /\ dmaref'[b] = dmaref[b]
  BY <1>1, <1>2 DEF One, Typed, RestType
<1>8. \A b \in Bufs : dmaref'[b] - extra'[b] - One(Looks(th', t, b)) = dmaref[b] - extra[b] - One(Looks(th, t, b))
  BY <1>5, <1>6, <1>7
<1> QED BY <1>1, <1>3, <1>4, <1>8, CapSame, QuietStep

\* The search goes on, with n more references on the dma_buf.
LEMMA SeekCounts ==
    ASSUME Inv, Typed', CountInv, NEW t \in Threads, NEW p, NEW n \in Int,
           th' = [th EXCEPT ![t].pc = p],
           \/ th[t].pc = "find" /\ p = "persist" /\ n = 1
           \/ th[t].pc = "persist" /\ p = "frames" /\ n = 0
           \/ th[t].pc = "frames" /\ p = "undo" /\ n = -1,
           \A b \in Bufs : dmaref'[b] = dmaref[b] + (IF Wants(t) = b THEN n ELSE 0),
           UNCHANGED <<smem, cached, cap, extra, watermark, smem_count>>
    PROVE  CountInv'
<1>1. Typed
  BY DEF Inv
<1>2. th'[t].pc = p /\ th'[t].todo = th[t].todo /\ But(t)
  BY <1>1, GoesPc
<1>3. \A b : One(Looks(th, t, b)) = IF th[t].pc # "find" /\ Wants(t) = b THEN 1 ELSE 0
  BY DEF One, Looks, Wants
<1>4. \A b : One(Looks(th', t, b)) = IF p # "undo" /\ Wants(t) = b THEN 1 ELSE 0
  BY <1>2 DEF One, Looks, Wants
<1>5. \A b \in Bufs : dmaref[b] \in Int /\ extra[b] \in Int /\ extra'[b] = extra[b]
  BY <1>1 DEF Typed, RestType
<1>6. \A b \in Bufs : dmaref'[b] - extra'[b] - One(Looks(th', t, b)) = dmaref[b] - extra[b] - One(Looks(th, t, b))
  <2> SUFFICES ASSUME NEW b \in Bufs
               PROVE  dmaref'[b] - extra'[b] - One(Looks(th', t, b)) = dmaref[b] - extra[b] - One(Looks(th, t, b))
    OBVIOUS
  <2>1. PICK o, oo : o = One(Looks(th, t, b)) /\ oo = One(Looks(th', t, b))
    OBVIOUS
  <2>2. o = (IF th[t].pc # "find" /\ Wants(t) = b THEN 1 ELSE 0) /\ oo = (IF p # "undo" /\ Wants(t) = b THEN 1 ELSE 0)
    BY <1>3, <1>4, <2>1
  <2>3. oo = o + (IF Wants(t) = b THEN n ELSE 0) /\ o \in Int
    BY <2>2
  <2>4. dmaref'[b] - extra'[b] - oo = dmaref[b] - extra[b] - o
    BY <1>5, <2>3
  <2> QED BY <2>1, <2>4
<1>7. th[t].pc # "inc" /\ th'[t].pc \notin {"inc", "insert"}
  BY <1>2
<1> QED BY <1>1, <1>2, <1>6, <1>7, SameSmem, CapSame, QuietStep

\* The search: the dma_buf that was looked up is held until a mapping is found.
LEMMA FindCachedCounts ==
    ASSUME Inv, Typed', CountInv, NEW t \in Threads, FindCached(t)
    PROVE  CountInv'
<1> DEFINE hit == {s \in cached : smem[s].buf = Wants(t)}
<1>1. Typed /\ th[t].pc = "find" /\ UNCHANGED <<cached, cap, extra, watermark, smem_count>>
  BY DEF FindCached, Inv
<1>2. CASE hit # {} /\ smem' = [smem EXCEPT ![Min(hit)].ref = @ + 1] /\ Found(t, Min(hit)) /\ UNCHANGED dmaref
  <2>1. hit \subseteq DOMAIN smem /\ hit \subseteq Nat
    BY TypeFacts DEF Inv, Typed, RestType
  <2> HIDE DEF hit
  <2>2. Min(hit) \in hit
    BY <1>2, <2>1, MinIn
  <2>3. PICK s : s = Min(hit)
    OBVIOUS
  <2>4. s \in DOMAIN smem /\ smem' = [smem EXCEPT ![s].ref = @ + 1] /\ Found(t, s)
    BY <1>2, <2>1, <2>2, <2>3
  <2>5. SameMaps
    BY <1>1, <2>4, MoreRef
  <2>6. th'[t].pc = "valid" /\ But(t)
    BY <1>1, <2>4, GoesFound
  <2> QED BY <1>1, <1>2, <2>5, <2>6, CapSame, StillStep
<1>3. CASE dmaref' = Get(Wants(t), 1) /\ th' = [th EXCEPT ![t].pc = "persist"] /\ UNCHANGED smem
  <2>1. \A b \in Bufs : dmaref'[b] = dmaref[b] + (IF Wants(t) = b THEN 1 ELSE 0)
    BY <1>1, <1>3 DEF Get, Typed, RestType
  <2>2. 1 \in Int
    OBVIOUS
  <2> QED BY <1>1, <1>3, <2>1, <2>2, SeekCounts
<1> QED BY <1>2, <1>3 DEF FindCached

\* ... in the list of persistent buffers,
LEMMA FindPersistCounts ==
    ASSUME Inv, Typed', CountInv, NEW t \in Threads, FindPersist(t)
    PROVE  CountInv'
<1> DEFINE hit == Mapped(Wants(t), {"user", "params", "feature"})
<1>1. Typed /\ th[t].pc = "persist" /\ UNCHANGED <<cached, cap, dmaref, watermark, smem_count>>
  BY DEF FindPersist, Inv
<1>2. CASE hit # {} /\ ListHit(t, persist[Min(hit)].s)
  <2>1. Wants(t) \in Bufs
    BY <1>1, WantsBuf
  <2>2. Min(hit) \in DOMAIN persist
    BY <1>2, <2>1, MappedAre
  <2> HIDE DEF hit
  <2>3. PICK s : s = persist[Min(hit)].s
    OBVIOUS
  <2>4. s \in DOMAIN smem /\ ListHit(t, s)
    BY <1>1, <1>2, <2>2, <2>3, TypeFacts DEF PersistRec
  <2> QED BY <1>1, <2>4, HitCounts
<1>3. CASE th' = [th EXCEPT ![t].pc = "frames"] /\ UNCHANGED <<smem, extra>>
  <2>1. \A b \in Bufs : dmaref'[b] = dmaref[b] + (IF Wants(t) = b THEN 0 ELSE 0)
    BY <1>1 DEF Typed, RestType
  <2>2. 0 \in Int
    OBVIOUS
  <2> QED BY <1>1, <1>3, <2>1, <2>2, SeekCounts
<1> QED BY <1>2, <1>3 DEF FindPersist

\* ... and in the frames; else a mapping is made.
LEMMA FindFrameCounts ==
    ASSUME Inv, Typed', CountInv, NEW t \in Threads, FindFrame(t)
    PROVE  CountInv'
<1>1. Typed /\ th[t].pc = "frames" /\ UNCHANGED <<cached, cap, watermark>>
  BY DEF FindFrame, Inv
<1>2. PICK b : b = Wants(t)
  OBVIOUS
<1>3. b \in Bufs /\ b # Nobody
  BY <1>1, <1>2, WantsBuf, Consts
<1>4. CASE InFrames(b) # {} /\ ListHit(t, Min(InFrames(b))) /\ UNCHANGED <<dmaref, smem_count>>
  <2> DEFINE hit == InFrames(b)
  <2>1. \A s \in hit : s \in Shared
    BY InFramesAre
  <2> HIDE DEF hit
  <2>2. hit \subseteq Nat /\ hit \subseteq DOMAIN smem
    BY <1>1, <2>1, TypeFacts DEF Shared, Tracked
  <2>3. Min(hit) \in hit
    BY <1>4, <2>2, MinIn DEF hit
  <2>4. PICK s : s = Min(hit)
    OBVIOUS
  <2>5. s \in DOMAIN smem /\ ListHit(t, s)
    BY <1>4, <2>2, <2>3, <2>4 DEF hit
  <2> QED BY <1>1, <1>4, <2>5, HitCounts
<1>5. CASE /\ Room /\ smem' = Append(smem, Mapping(b, 0)) /\ smem_count' = smem_count + 1
           /\ th' = [th EXCEPT ![t].pc = "add", ![t].s = Fresh] /\ UNCHANGED <<dmaref, extra>>
  <2>1. th' = ToMapping(t, "add", Fresh)
    BY <1>5 DEF ToMapping
  <2>2. Room /\ smem' = Append(smem, Mapping(b, 0)) /\ smem_count' = smem_count + 1 /\ UNCHANGED <<dmaref, extra>>
    BY <1>5
  <2>3. th'[t].pc = "add" /\ But(t)
    BY <1>1, <2>1, GoesMapping
  <2>4. PICK m : m = Mapping(b, 0)
    OBVIOUS
  <2>5. m \in MapRec /\ m.st = "live" /\ m.lost = "no" /\ m.buf = b
    BY <1>3, <2>4 DEF Mapping, MapRec
  <2>6. One(m.buf # Nobody) = 1
    BY <1>3, <2>5 DEF One
  <2>7. \A c : One(Looks(th', t, c)) = 0
    BY <2>3, NobodyLooks
  <2>8. \A c : One(Looks(th, t, c)) = One(m.buf = c)
    BY <1>1, <1>2, <2>5, LookFor DEF Wants
  <2>9. \A c \in Bufs : /\ dmaref[c] \in Int /\ extra[c] \in Int /\ dmaref'[c] = dmaref[c] /\ extra'[c] = extra[c]
                        /\ One(m.buf = c) \in Int
    BY <1>1, <2>2 DEF Typed, RestType, One
  <2>10. \A c \in Bufs : dmaref'[c] - extra'[c] - One(Looks(th', t, c)) =
                         dmaref[c] - extra[c] - One(Looks(th, t, c)) + One(m.buf = c)
    BY <2>7, <2>8, <2>9
  <2> QED BY <1>1, <2>2, <2>3, <2>4, <2>5, <2>6, <2>10, GrowCounts
<1>6. CASE dmaref' = Get(b, -1) /\ th' = [th EXCEPT ![t].pc = "undo"] /\ UNCHANGED <<smem, extra, smem_count>>
  <2>1. \A c \in Bufs : dmaref'[c] = dmaref[c] + (IF Wants(t) = c THEN -1 ELSE 0)
    BY <1>1, <1>2, <1>6 DEF Get, Typed, RestType
  <2>2. -1 \in Int
    OBVIOUS
  <2> QED BY <1>1, <1>6, <2>1, <2>2, SeekCounts
<1> QED BY <1>2, <1>4, <1>5, <1>6 DEF FindFrame

\* The check of the size frees no mapping, whatever count it leaves.
LEMMA CheckFoundCounts ==
    ASSUME Inv, Typed', CountInv, NEW t \in Threads, CheckFound(t)
    PROVE  CountInv'
<1>1. Typed /\ th[t].pc = "valid" /\ UNCHANGED <<cached, cap, dmaref, extra, watermark, smem_count>>
  BY DEF CheckFound, Inv
<1>2. PICK s : s = th[t].s
  OBVIOUS
<1>3. s \in DOMAIN smem /\ smem[s] \in MapRec
  BY <1>1, <1>2, HandIs, TypeFacts DEF Having, Inv
<1>4. CASE th' = [th EXCEPT ![t].pc = "use"] /\ UNCHANGED smem
  <2>1. th'[t].pc = "use" /\ But(t)
    BY <1>1, <1>4, GoesPc
  <2> QED BY <1>1, <1>4, <2>1, SameSmem, CapSame, StillStep
<1>5. CASE /\ th' = [th EXCEPT ![t].pc = "undo", ![t].s = 0]
           /\ smem' = [smem EXCEPT ![s].ref = @ - 1,
                         ![s].lost = IF smem[s].ref = 1 /\ ~Flagged(s) THEN "invalid" ELSE @]
  <2>1. th' = ToMapping(t, "undo", 0)
    BY <1>5 DEF ToMapping
  <2>2. th'[t].pc = "undo" /\ But(t)
    BY <1>1, <2>1, GoesMapping
  <2>3. SameMaps
    BY <1>3, <1>5 DEF SameMaps, MapRec
  <2> QED BY <1>1, <2>2, <2>3, CapSame, StillStep
<1> QED BY <1>2, <1>4, <1>5 DEF CheckFound

\* How many threads stand at one of two places of msm_cvp_session_add_smem.
LEMMA IncsStep ==
    ASSUME NEW t \in Threads, But(t)
    PROVE  /\ Cardinality(Incs') = Cardinality(Incs) - One(th[t].pc = "inc") + One(th'[t].pc = "inc")
           /\ Cardinality(Inserting') = Cardinality(Inserting) - One(th[t].pc = "insert") + One(th'[t].pc = "insert")
           /\ Cardinality(Incs) \in Nat /\ Cardinality(Inserting) \in Nat
           /\ Cardinality(Incs') \in Nat /\ Cardinality(Inserting') \in Nat
           /\ Cardinality(Inserting') <= Cardinality(Threads) /\ Cardinality(Threads) \in Nat
<1>1. ASSUME NEW S, NEW T, S \subseteq Threads, T \subseteq Threads, \A u \in Threads : u # t => (u \in S <=> u \in T)
      PROVE  /\ Cardinality(T) = Cardinality(S) - One(t \in S) + One(t \in T)
             /\ Cardinality(S) \in Nat /\ Cardinality(T) \in Nat
             /\ Cardinality(T) <= Cardinality(Threads) /\ Cardinality(Threads) \in Nat
  <2>1. IsFiniteSet(Threads)
    BY Consts
  <2>2. IsFiniteSet(S) /\ IsFiniteSet(T) /\ Cardinality(T) <= Cardinality(Threads)
    BY <1>1, <2>1, FS_Subset
  <2>3. \A u : u # t => (u \in S <=> u \in T)
    BY <1>1
  <2>4. Cardinality(T) = Cardinality(S) - One(t \in S) + One(t \in T)
    BY <2>2, <2>3, OneChanges
  <2> QED BY <2>1, <2>2, <2>4, FS_CardinalityType
<1> DEFINE S == Incs
           T == Incs'
           U == Inserting
           V == Inserting'
<1>2. S \subseteq Threads /\ T \subseteq Threads /\ \A u \in Threads : u # t => (u \in S <=> u \in T)
  BY DEF Incs, But
<1>3. U \subseteq Threads /\ V \subseteq Threads /\ \A u \in Threads : u # t => (u \in U <=> u \in V)
  BY DEF Inserting, But
<1>4. (t \in S <=> th[t].pc = "inc") /\ (t \in T <=> th'[t].pc = "inc")
      /\ (t \in U <=> th[t].pc = "insert") /\ (t \in V <=> th'[t].pc = "insert")
  BY DEF Incs, Inserting
<1> HIDE DEF S, T, U, V
<1>5. /\ One(t \in S) = One(th[t].pc = "inc") /\ One(t \in T) = One(th'[t].pc = "inc")
      /\ One(t \in U) = One(th[t].pc = "insert") /\ One(t \in V) = One(th'[t].pc = "insert")
  BY <1>4 DEF One
<1>6. /\ Cardinality(T) = Cardinality(S) - One(th[t].pc = "inc") + One(th'[t].pc = "inc")
      /\ Cardinality(S) \in Nat /\ Cardinality(T) \in Nat
  BY <1>1, <1>2, <1>5
<1>7. /\ Cardinality(V) = Cardinality(U) - One(th[t].pc = "insert") + One(th'[t].pc = "insert")
      /\ Cardinality(U) \in Nat /\ Cardinality(V) \in Nat
      /\ Cardinality(V) <= Cardinality(Threads) /\ Cardinality(Threads) \in Nat
  BY <1>1, <1>3, <1>5
<1> QED BY <1>6, <1>7 DEF S, T, U, V

\* Mappings leave the cache.
LEMMA LeaveCache ==
    ASSUME Typed, WatermarkExact, NEW t, But(t),
           t \in Threads => th[t].pc # "inc" /\ th'[t].pc # "inc",
           NEW C, C \subseteq cached, cached' = cached \ C, watermark' = watermark - Cardinality(C)
    PROVE  /\ WatermarkExact' /\ Cardinality(cached') = Cardinality(cached) - Cardinality(C)
           /\ Cardinality(C) \in Nat /\ Cardinality(cached) \in Nat
<1>1. Incs' = Incs
  BY DEF Incs, But
<1>2. IsFiniteSet(cached) /\ Cardinality(cached) \in Nat /\ Cardinality(Incs) \in Nat
  BY FiniteParts
<1>3. Cardinality(cached \ C) = Cardinality(cached) - Cardinality(C) /\ Cardinality(C) \in Nat
  BY <1>2, CardOut
<1>4. watermark = Cardinality(cached) - Cardinality(Incs)
  BY CountDefs
<1>5. Cardinality(cached') = Cardinality(cached) - Cardinality(C)
  BY <1>3
<1>6. watermark' = Cardinality(cached') - Cardinality(Incs')
  BY <1>1, <1>2, <1>3, <1>4, <1>5
<1> QED BY <1>2, <1>3, <1>5, <1>6, CountDefsNext

\* Mappings of the client's buffers are freed, those of C out of the cache.
LEMMA TakeCounts ==
    ASSUME Typed, Typed', CountInv, NEW t, But(t),
           t \in Threads => th[t].pc \notin {"inc", "persist", "frames"},
           t \in Threads => th'[t].pc \notin {"inc", "insert", "persist", "frames"},
           NEW D, Frees(D), D \subseteq Live, \A x \in D : smem[x].buf # Nobody,
           dmaref' = Put(smem, D), UNCHANGED <<extra, cap>>, smem_count' = smem_count - Cardinality(D),
           NEW C, C \subseteq cached, cached' = cached \ C, watermark' = watermark - Cardinality(C)
    PROVE  CountInv'
<1>1. t \in Threads => \A b \in Bufs : ~Looks(th, t, b) /\ ~Looks(th', t, b)
  BY DEF Looks
<1>2. DmaBufExact' /\ SmemCountExact'
  BY <1>1, FreeCounts DEF CountInv
<1>3. WatermarkExact'
  BY LeaveCache DEF CountInv
<1>4. RoomInv'
  <2>1. cap' \in Nat /\ cap' >= cap /\ cached' \subseteq cached
    BY Consts DEF Typed, RestType
  <2> QED BY <2>1, RoomStep DEF CountInv
<1> QED BY <1>2, <1>3, <1>4 DEF CountInv

\* None of them out of the cache.
LEMMA TakeUncached ==
    ASSUME Typed, Typed', CountInv, NEW t, But(t),
           t \in Threads => th[t].pc \notin {"inc", "persist", "frames"},
           t \in Threads => th'[t].pc \notin {"inc", "insert", "persist", "frames"},
           NEW D, Frees(D), D \subseteq Live, \A x \in D : smem[x].buf # Nobody,
           dmaref' = Put(smem, D), UNCHANGED <<extra, cap, cached, watermark>>, smem_count' = smem_count - Cardinality(D)
    PROVE  CountInv'
<1>1. PICK C : C = {}
  OBVIOUS
<1>2. Cardinality(C) = 0
  BY <1>1, FS_EmptySet
<1>3. watermark' = watermark - Cardinality(C)
  BY <1>2 DEF Typed, RestType
<1>4. C \subseteq cached /\ cached' = cached \ C
  BY <1>1
<1> QED BY <1>3, <1>4, TakeCounts

\* msm_cvp_free_unused_mapping.
LEMMA CleanFrees ==
    ASSUME Typed, free_unused_mapping
    PROVE  Frees(Unused)
<1>1. PICK l : l = [x \in DOMAIN smem |-> IF InWindow(x) THEN "window" ELSE smem[x].lost]
  OBVIOUS
<1>2. \A x \in DOMAIN smem : smem[x] \in MapRec
  BY TypeFacts
<1>3. DOMAIN smem' = DOMAIN smem
      /\ \A x \in DOMAIN smem : smem'[x] = IF x \notin Unused THEN smem[x] ELSE [smem[x] EXCEPT !.st = "freed", !.lost = l[x]]
  BY <1>1 DEF free_unused_mapping
<1> QED BY <1>2, <1>3 DEF Frees, MapRec

\* What is cleaned up is there and in the cache.
LEMMA UnusedAre ==
    ASSUME Inv PROVE Unused \subseteq Live /\ Unused \subseteq cached /\ \A x \in Unused : smem[x].buf # Nobody
<1>1. cached \subseteq Live /\ \A s \in cached : smem[s].buf \in Bufs
  BY DEF Inv, CacheInv
<1> QED BY <1>1, Consts DEF Unused

\* The worker takes what it frees from the watermark.
LEMMA IovaCleanupCounts ==
    ASSUME Inv, Typed', CountInv, IovaCleanup
    PROVE  CountInv'
<1>1. Typed /\ free_unused_mapping /\ UNCHANGED <<cap, extra, th>>
  BY DEF IovaCleanup, Inv
<1>2. /\ cached' = cached \ Unused /\ dmaref' = Put(smem, Unused)
      /\ watermark' = watermark - Cardinality(Unused) /\ smem_count' = smem_count - Cardinality(Unused)
  BY <1>1 DEF free_unused_mapping
<1>3. PICK t : t \notin Threads
  BY NoThread
<1>4. But(t)
  BY <1>1 DEF But
<1>5. Frees(Unused)
  BY <1>1, CleanFrees
<1>6. Unused \subseteq Live /\ Unused \subseteq cached /\ \A x \in Unused : smem[x].buf # Nobody
  BY UnusedAre
<1>7. UNCHANGED <<extra, cap>>
  BY <1>1
<1> QED BY <1>1, <1>2, <1>3, <1>4, <1>5, <1>6, <1>7, TakeCounts

\* So does a thread that makes room.
LEMMA AddSmemCounts ==
    ASSUME Inv, Typed', CountInv, NEW t \in Threads, AddSmem(t)
    PROVE  CountInv'
<1>1. Typed /\ th[t].pc = "add" /\ UNCHANGED extra
  BY DEF AddSmem, Inv
<1>2. cap \in Nat /\ cap' \in Nat /\ Cardinality(cached) \in Nat
  BY <1>1, Consts, FiniteParts DEF Typed, RestType
<1>3. CASE Cardinality(cached) < cap
  <2>1. th' = [th EXCEPT ![t].pc = "insert"] /\ UNCHANGED <<smem, cached, cap, dmaref, watermark, smem_count>>
    BY <1>3 DEF AddSmem
  <2>2. th'[t].pc = "insert" /\ But(t)
    BY <1>1, <2>1, GoesPc
  <2>3. SameMaps
    BY <2>1, SameSmem
  <2>4. Mine' = Mine /\ \A b : Bound(b)' = Bound(b)
    BY <2>3, SameBound
  <2>5. DmaBufExact' /\ SmemCountExact'
    BY <1>1, <2>1, <2>2, <2>4, SameDma DEF CountInv
  <2>6. WatermarkExact'
    <3>1. th[t].pc # "inc" /\ th'[t].pc # "inc"
      BY <1>1, <2>2
    <3> QED BY <2>1, <2>2, <3>1, WatermarkStep DEF CountInv
  <2>7. RoomInv'
    <3>1. Cardinality(Inserting') \in Nat /\ Cardinality(Inserting') <= Cardinality(Threads) /\ Cardinality(Threads) \in Nat
      BY <2>2, IncsStep
    <3>2. Cardinality(cached') + Cardinality(Inserting') < cap' + Cardinality(Threads)
      BY <1>2, <1>3, <2>1, <3>1
    <3> QED BY <3>2 DEF RoomInv
  <2> QED BY <2>5, <2>6, <2>7 DEF CountInv
<1>4. CASE ~(Cardinality(cached) < cap)
  <2>1. cap' >= cap
    <3>1. cap' = CapMax
      BY <1>1, <1>4, CapGrows DEF AddSmem
    <3> QED BY <1>1, <3>1, Consts DEF Typed, RestType
  <2>2. CASE Unused # {}
    <3>1. free_unused_mapping /\ th' = [th EXCEPT ![t].pc = "insert"]
      BY <1>4, <2>2 DEF AddSmem
    <3>2. th'[t].pc = "insert" /\ But(t)
      BY <1>1, <3>1, GoesPc
    <3>3. /\ cached' = cached \ Unused /\ dmaref' = Put(smem, Unused)
          /\ watermark' = watermark - Cardinality(Unused) /\ smem_count' = smem_count - Cardinality(Unused)
      BY <3>1 DEF free_unused_mapping
    <3>4. Frees(Unused)
      BY <1>1, <3>1, CleanFrees
    <3>5. Unused \subseteq Live /\ Unused \subseteq cached /\ \A x \in Unused : smem[x].buf # Nobody
      BY UnusedAre
    <3>6. \A b \in Bufs : ~Looks(th, t, b) /\ ~Looks(th', t, b)
      BY <1>1, <3>2 DEF Looks
    <3>7. DmaBufExact' /\ SmemCountExact'
      BY <1>1, <3>2, <3>3, <3>4, <3>5, <3>6, FreeCounts DEF CountInv
    <3>8. th[t].pc # "inc" /\ th'[t].pc # "inc"
      BY <1>1, <3>2
    <3>9. /\ WatermarkExact' /\ Cardinality(cached') = Cardinality(cached) - Cardinality(Unused)
          /\ Cardinality(Unused) \in Nat
      BY <1>1, <3>2, <3>3, <3>5, <3>8, LeaveCache DEF CountInv
    <3>10. Cardinality(Unused) # 0
      <4>1. IsFiniteSet(Unused)
        BY <1>1, <3>5, FiniteParts, FS_Subset
      <4> QED BY <2>2, <4>1, FS_EmptySet
    <3>11. RoomInv'
      <4>1. /\ Cardinality(Inserting') = Cardinality(Inserting) - One(th[t].pc = "insert") + One(th'[t].pc = "insert")
            /\ Cardinality(Inserting) \in Nat /\ Cardinality(Threads) \in Nat
        BY <3>2, IncsStep
      <4>2. One(th[t].pc = "insert") = 0 /\ One(th'[t].pc = "insert") = 1
        BY <1>1, <3>2 DEF One
      <4>3. Cardinality(cached) + Cardinality(Inserting) < cap + Cardinality(Threads)
        BY DEF CountInv, RoomInv
      <4>4. Cardinality(Inserting') = Cardinality(Inserting) + 1
        BY <4>1, <4>2
      <4>5. PICK c, cc, i, ii, n : /\ c = Cardinality(cached) /\ cc = Cardinality(cached') /\ n = Cardinality(Unused)
                                   /\ i = Cardinality(Inserting) /\ ii = Cardinality(Inserting')
        OBVIOUS
      <4>6. /\ cc = c - n /\ c \in Nat /\ n \in Nat /\ n # 0 /\ ii = i + 1 /\ i \in Nat
            /\ c + i < cap + Cardinality(Threads) /\ Cardinality(Threads) \in Nat
        BY <1>2, <3>9, <3>10, <4>1, <4>3, <4>4, <4>5
      <4>7. cc + ii < cap' + Cardinality(Threads)
        BY <1>2, <2>1, <4>6
      <4> QED BY <4>5, <4>7 DEF RoomInv
    <3> QED BY <3>7, <3>9, <3>11 DEF CountInv
  <2>3. CASE Unused = {}
    <3>1. /\ smem' = [smem EXCEPT ![th[t].s].ref = @ + 1] /\ th' = [th EXCEPT ![t].pc = "use"]
          /\ UNCHANGED <<cached, dmaref, watermark, smem_count>>
      BY <1>4, <2>3 DEF AddSmem
    <3>2. PICK s : s = th[t].s
      OBVIOUS
    <3>3. s \in DOMAIN smem /\ smem' = [smem EXCEPT ![s].ref = @ + 1]
      BY <1>1, <3>1, <3>2, HandIs DEF Having
    <3>4. SameMaps
      BY <1>1, <3>3, MoreRef
    <3>5. th'[t].pc = "use" /\ But(t)
      BY <1>1, <3>1, GoesPc
    <3> QED BY <1>1, <2>1, <3>1, <3>4, <3>5, StillStep
  <2> QED BY <2>2, <2>3
<1> QED BY <1>3, <1>4

\* The cache grows, and the watermark only after the window.
LEMMA InsertSmemCounts ==
    ASSUME Inv, Typed', CountInv, NEW t \in Threads, InsertSmem(t)
    PROVE  CountInv'
<1>1. /\ Typed /\ th[t].pc = "insert" /\ cached' = cached \cup {th[t].s} /\ th' = [th EXCEPT ![t].pc = "inc"]
      /\ UNCHANGED <<smem, cap, dmaref, extra, watermark, smem_count>>
  BY DEF InsertSmem, Inv
<1>2. th'[t].pc = "inc" /\ But(t)
  BY <1>1, GoesPc
<1>3. PICK s : s = th[t].s
  OBVIOUS
<1>4. s \notin cached
  <2>1. s \in New
    BY <1>1, <1>3, InNew
  <2>2. cached \subseteq Shared
    BY DEF Inv, CacheInv
  <2> QED BY <2>1, <2>2 DEF Shared
<1>5. Cardinality(cached') = Cardinality(cached) + 1 /\ Cardinality(cached) \in Nat
  <2>1. IsFiniteSet(cached) /\ Cardinality(cached) \in Nat
    BY <1>1, FiniteParts
  <2>2. Cardinality(cached \cup {s}) = Cardinality(cached) + 1
    BY <1>4, <2>1, FS_AddElement
  <2> QED BY <1>1, <1>3, <2>1, <2>2
<1>6. /\ Cardinality(Incs') = Cardinality(Incs) - One(th[t].pc = "inc") + One(th'[t].pc = "inc")
      /\ Cardinality(Inserting') = Cardinality(Inserting) - One(th[t].pc = "insert") + One(th'[t].pc = "insert")
      /\ Cardinality(Incs) \in Nat /\ Cardinality(Inserting) \in Nat /\ Cardinality(Threads) \in Nat
  BY <1>2, IncsStep
<1>7. /\ One(th[t].pc = "inc") = 0 /\ One(th'[t].pc = "inc") = 1
      /\ One(th[t].pc = "insert") = 1 /\ One(th'[t].pc = "insert") = 0
  BY <1>1, <1>2 DEF One
<1>8. /\ Cardinality(Incs') = Cardinality(Incs) + 1 /\ Cardinality(Inserting') = Cardinality(Inserting) - 1
      /\ Cardinality(Incs) \in Nat /\ Cardinality(Inserting) \in Nat
  BY <1>6, <1>7
<1>9. DmaBufExact' /\ SmemCountExact'
  <2>1. Mine' = Mine /\ \A b \in Bufs : Bound(b)' = Bound(b)
    BY <1>1, SameSmem, SameBound
  <2> QED BY <1>1, <1>2, <2>1, SameDma DEF CountInv
<1>10. WatermarkExact'
  <2>1. watermark = Cardinality(cached) - Cardinality(Incs)
    BY CountDefs DEF CountInv
  <2>2. watermark' = Cardinality(cached') - Cardinality(Incs')
    BY <1>1, <1>5, <1>8, <2>1
  <2> QED BY <2>2, CountDefsNext
<1>11. RoomInv'
  <2>1. Cardinality(cached) + Cardinality(Inserting) < cap + Cardinality(Threads)
    BY DEF CountInv, RoomInv
  <2>2. Cardinality(cached') + Cardinality(Inserting') = Cardinality(cached) + Cardinality(Inserting)
    BY <1>5, <1>8
  <2> QED BY <1>1, <2>1, <2>2 DEF RoomInv
<1> QED BY <1>9, <1>10, <1>11 DEF CountInv

\* The watermark catches up.
LEMMA FirstRefCounts ==
    ASSUME Inv, Typed', CountInv, NEW t \in Threads, FirstRef(t)
    PROVE  CountInv'
<1>1. /\ Typed /\ th[t].pc = "inc" /\ smem' = [smem EXCEPT ![th[t].s].ref = @ + 1] /\ th' = [th EXCEPT ![t].pc = "use"]
      /\ watermark' = watermark + 1 /\ UNCHANGED <<cached, cap, dmaref, extra, smem_count>>
  BY DEF FirstRef, Inv
<1>2. th'[t].pc = "use" /\ But(t)
  BY <1>1, GoesPc
<1>3. PICK s : s = th[t].s
  OBVIOUS
<1>4. s \in DOMAIN smem /\ smem' = [smem EXCEPT ![s].ref = @ + 1]
  BY <1>1, <1>3, HandIs DEF Having
<1>5. SameMaps
  BY <1>1, <1>4, MoreRef
<1>6. /\ Cardinality(Incs') = Cardinality(Incs) - One(th[t].pc = "inc") + One(th'[t].pc = "inc")
      /\ Cardinality(Incs) \in Nat
  BY <1>2, IncsStep
<1>7. One(th[t].pc = "inc") = 1 /\ One(th'[t].pc = "inc") = 0
  BY <1>1, <1>2 DEF One
<1>8. Cardinality(Incs') = Cardinality(Incs) - 1
  BY <1>6, <1>7
<1>9. DmaBufExact' /\ SmemCountExact'
  <2>1. Mine' = Mine /\ \A b \in Bufs : Bound(b)' = Bound(b)
    BY <1>5, SameBound
  <2> QED BY <1>1, <1>2, <2>1, SameDma DEF CountInv
<1>10. WatermarkExact'
  <2>1. watermark = Cardinality(cached) - Cardinality(Incs) /\ Cardinality(cached) \in Nat
    BY <1>1, CountDefs, FiniteParts DEF CountInv
  <2>2. watermark' = Cardinality(cached') - Cardinality(Incs')
    BY <1>1, <1>6, <1>8, <2>1
  <2> QED BY <2>2, CountDefsNext
<1>11. RoomInv'
  <2>1. cap' \in Nat /\ cap' >= cap /\ cached' \subseteq cached
    BY <1>1, Consts DEF Typed, RestType
  <2> QED BY <1>1, <1>2, <2>1, RoomStep DEF CountInv
<1> QED BY <1>9, <1>10, <1>11 DEF CountInv

\* msm_cvp_unmap_frame_buf.
LEMMA UnmapFrees ==
    ASSUME Typed, NEW n, unmap_frame_buf(n)
    PROVE  Frees(Gone(n))
<1> DEFINE D == Gone(n)
<1>1. \A x \in DOMAIN smem : smem[x] \in MapRec
  BY TypeFacts
<1>2. smem' = Unmapped(Dropped(smem, n), D)
  BY DEF unmap_frame_buf
<1> HIDE DEF D
<1>3. DOMAIN Dropped(smem, n) = DOMAIN smem
      /\ \A x \in DOMAIN smem : /\ Dropped(smem, n)[x].buf = smem[x].buf /\ Dropped(smem, n)[x].st = smem[x].st
                                /\ Dropped(smem, n)[x].lost = smem[x].lost
                                /\ DOMAIN Dropped(smem, n)[x] = {"buf", "ref", "st", "lost"}
  BY <1>1 DEF Dropped, MapRec
<1>4. PICK q : q = Dropped(smem, n)
  OBVIOUS
<1>5. DOMAIN smem' = DOMAIN q /\ \A x \in DOMAIN q : smem'[x] = IF x \in D THEN [q[x] EXCEPT !.st = "freed"] ELSE q[x]
  BY <1>2, <1>4 DEF Unmapped
<1>6. Frees(D)
  BY <1>3, <1>4, <1>5 DEF Frees
<1> QED BY <1>6 DEF D

\* References of frames are dropped.
LEMMA DropCounts ==
    ASSUME Inv, Typed', CountInv, NEW n, unmap_frame_buf(n),
           \A x \in DOMAIN smem : n[x] > 0 => x \in Shared /\ smem[x].buf \in Bufs,
           NEW t, But(t), t \in Threads => th[t].pc \notin {"inc", "persist", "frames"},
           t \in Threads => th'[t].pc \notin {"inc", "insert", "persist", "frames"},
           UNCHANGED <<cached, cap, extra, watermark>>
    PROVE  CountInv'
<1> DEFINE D == Gone(n)
<1>1. Typed /\ Frees(D)
  BY UnmapFrees DEF Inv
<1>2. \A x \in D : x \in Shared /\ smem[x].buf \in Bufs /\ smem[x].lost # "window"
  BY DEF Gone, Flagged
<1>3. dmaref' = Put(smem, D \cap Live) /\ smem_count' = smem_count - Cardinality(D \cap Live)
  BY DEF unmap_frame_buf
<1> HIDE DEF D
<1>4. D \subseteq Live /\ \A x \in D : smem[x].buf # Nobody
  BY <1>2, Consts DEF Shared, Tracked, Live
<1>5. D \cap Live = D
  BY <1>4
<1>6. dmaref' = Put(smem, D) /\ smem_count' = smem_count - Cardinality(D)
  BY <1>3, <1>5, Zenon
<1> QED BY <1>1, <1>4, <1>6, TakeUncached

\* What a sequence of buffers holds references on.
LEMMA OwnedBufs ==
    ASSUME NEW bs \in Seq(EntryRec), EntriesOK(bs), NEW x, Cardinality(Owners(bs, x)) > 0
    PROVE  x \in Shared /\ smem[x].buf \in Bufs
<1> DEFINE E == EntryRec
<1>1. bs \in Seq(E)
  OBVIOUS
<1> HIDE DEF E
<1>2. Owners(bs, x) # {}
  BY <1>1, OwnersFinite
<1>3. PICK k \in DOMAIN bs : bs[k].s = x
  BY <1>2 DEF Owners
<1> QED BY <1>3 DEF EntriesOK, EntryOK

\* A frame is undone.
LEMMA UndoFrameCounts ==
    ASSUME Inv, Typed', CountInv, NEW t \in Threads, UndoFrame(t)
    PROVE  CountInv'
<1>1. /\ Typed /\ th[t].pc = "undo" /\ unmap_frame_buf(Owned(th[t].got)) /\ Finish(t)
      /\ UNCHANGED <<cached, cap, extra, watermark>>
  BY DEF UndoFrame, Inv
<1>2. th'[t].pc = "idle" /\ But(t)
  BY <1>1, GoesIdle
<1>3. PICK n : n = Owned(th[t].got)
  OBVIOUS
<1>4. unmap_frame_buf(n) /\ \A x \in DOMAIN smem : n[x] = Cardinality(Owners(th[t].got, x))
  BY <1>1, <1>3 DEF Owned
<1>5. th[t].got \in Seq(EntryRec) /\ EntriesOK(th[t].got)
  BY <1>1, TypeFacts, ThreadFields DEF Inv, GotInv
<1>6. \A x \in DOMAIN smem : n[x] > 0 => x \in Shared /\ smem[x].buf \in Bufs
  BY <1>4, <1>5, OwnedBufs
<1> QED BY <1>1, <1>2, <1>4, <1>6, DropCounts

\* msm_cvp_unmap_frame.
LEMMA UnmapFrameCounts ==
    ASSUME Inv, Typed', CountInv, NEW i \in DOMAIN frames, UnmapFrame(i)
    PROVE  CountInv'
<1>1. Typed /\ unmap_frame_buf(Owned(frames[i])) /\ UNCHANGED <<cached, cap, extra, watermark, th>>
  BY DEF UnmapFrame, Inv
<1>2. PICK t : t \notin Threads
  BY NoThread
<1>3. But(t)
  BY <1>1 DEF But
<1>4. PICK n : n = Owned(frames[i])
  OBVIOUS
<1>5. unmap_frame_buf(n) /\ \A x \in DOMAIN smem : n[x] = Cardinality(Owners(frames[i], x))
  BY <1>1, <1>4 DEF Owned
<1>6. frames[i] \in Seq(EntryRec) /\ EntriesOK(frames[i])
  BY <1>1, TypeFacts DEF Inv, FrameInv
<1>7. \A x \in DOMAIN smem : n[x] > 0 => x \in Shared /\ smem[x].buf \in Bufs
  BY <1>5, <1>6, OwnedBufs
<1>8. UNCHANGED <<cached, cap, extra, watermark>>
  BY <1>1
<1> QED BY <1>2, <1>3, <1>5, <1>7, <1>8, DropCounts

\* The frames left in flight.
LEMMA DeinitFramesCounts ==
    ASSUME Inv, Typed', CountInv, DeinitFrames
    PROVE  CountInv'
<1>1. /\ Typed /\ unmap_frame_buf([s \in DOMAIN smem |-> Cardinality(FrameRefs(frames, s))])
      /\ UNCHANGED <<cached, cap, extra, watermark>> /\ UNCHANGED th
  BY DEF DeinitFrames, Inv
<1>2. PICK t : t \notin Threads
  BY NoThread
<1>3. But(t)
  BY <1>1 DEF But
<1>4. PICK n : n = [s \in DOMAIN smem |-> Cardinality(FrameRefs(frames, s))]
  OBVIOUS
<1>5. unmap_frame_buf(n) /\ \A x \in DOMAIN smem : n[x] = Cardinality(FrameRefs(frames, x))
  BY <1>1, <1>4
<1>6. \A x \in DOMAIN smem : n[x] > 0 => x \in Shared /\ smem[x].buf \in Bufs
  <2> SUFFICES ASSUME NEW x \in DOMAIN smem, n[x] > 0 PROVE x \in Shared /\ smem[x].buf \in Bufs
    OBVIOUS
  <2>1. Cardinality(FrameRefs(frames, x)) = 0 <=> \A i \in DOMAIN frames : Owners(frames[i], x) = {}
    BY <1>1, CountNat
  <2>2. PICK i \in DOMAIN frames : Owners(frames[i], x) # {}
    BY <1>5, <2>1
  <2>3. PICK k \in DOMAIN frames[i] : frames[i][k].s = x
    BY <2>2 DEF Owners
  <2> QED BY <2>3 DEF Inv, FrameInv, EntriesOK, EntryOK
<1> QED BY <1>1, <1>2, <1>3, <1>5, <1>6, DropCounts

\* One mapping is freed.
LEMMA TakeOne ==
    ASSUME Inv, Typed', CountInv, NEW s \in Live, smem[s].buf \in Bufs, Frees({s}),
           dmaref' = Put(smem, {s}), smem_count' = smem_count - 1,
           UNCHANGED <<cached, cap, extra, watermark, th>>
    PROVE  CountInv'
<1>1. Typed
  BY DEF Inv
<1>2. PICK t : t \notin Threads
  BY NoThread
<1>3. But(t)
  BY DEF But
<1>4. Cardinality({s}) = 1
  BY FS_Singleton
<1>5. PICK D : D = {s}
  OBVIOUS
<1>6. /\ Frees(D) /\ D \subseteq Live /\ (\A x \in D : smem[x].buf # Nobody)
      /\ dmaref' = Put(smem, D) /\ smem_count' = smem_count - Cardinality(D)
  BY <1>4, <1>5, Consts
<1>7. UNCHANGED <<extra, cap, cached, watermark>>
  OBVIOUS
<1> QED BY <1>1, <1>2, <1>3, <1>6, <1>7, TakeUncached

\* msm_cvp_unmap_feature_persist.
LEMMA UnmapFeatureCounts ==
    ASSUME Inv, Typed', CountInv, NEW b \in Bufs, UnmapFeaturePersist(b)
    PROVE  CountInv'
<1>1. Typed
  BY DEF Inv
<1>2. PICK i : i = Min(Mapped(b, {"feature"}))
  OBVIOUS
<1>3. PICK s : s = persist[i].s
  OBVIOUS
<1>4. /\ Mapped(b, {"feature"}) # {}
      /\ smem' = [smem EXCEPT ![s].ref = @ - 1, ![s].st = "freed"]
      /\ dmaref' = Put(smem, {s}) /\ smem_count' = smem_count - 1
      /\ UNCHANGED <<cached, cap, extra, watermark, th>>
  BY <1>2, <1>3 DEF UnmapFeaturePersist
<1>5. i \in DOMAIN persist /\ persist[i].kind = "feature" /\ persist[i].buf = b
  <2>1. Mapped(b, {"feature"}) \subseteq Nat
    BY <1>1, TypeFacts DEF Mapped
  <2>2. i \in Mapped(b, {"feature"})
    BY <1>2, <1>4, <2>1, MinIn
  <2> QED BY <2>2 DEF Mapped
<1>6. s \in Live /\ smem[s].buf \in Bufs
  BY <1>3, <1>5 DEF Inv, PersistInv
<1>7. Frees({s})
  <2>1. s \in DOMAIN smem /\ smem[s] \in MapRec
    BY <1>1, <1>6, TypeFacts DEF Live
  <2> QED BY <1>4, <2>1 DEF Frees, MapRec
<1> QED BY <1>4, <1>6, <1>7, TakeOne

\* A WNCC source is freed.
LEMMA DropSourceCounts ==
    ASSUME Inv, Typed', CountInv, NEW k \in 1..Slots, table[k] # 0, unmap_buf_wncc(k),
           UNCHANGED <<cached, cap, extra, watermark, th>>
    PROVE  CountInv'
<1>1. PICK i : i = Min({j \in DOMAIN wncc : wncc[j].buf = smem[table[k]].buf})
  OBVIOUS
<1>2. i \in DOMAIN wncc /\ wncc[i].s = table[k]
  BY <1>1, SlotSource
<1>3. PICK s : s = table[k]
  OBVIOUS
<1>4. smem' = Unmapped(smem, {s}) /\ dmaref' = Put(smem, {s}) /\ smem_count' = smem_count - 1
  BY <1>1, <1>2, <1>3 DEF unmap_buf_wncc
<1>5. s \in Live /\ smem[s].buf \in Bufs
  BY <1>2, <1>3, TypeFacts DEF Inv, WnccInv, WnccRec
<1>6. Frees({s})
  <2>1. {s} \subseteq DOMAIN smem
    BY <1>5 DEF Live
  <2>2. PICK D : D = {s}
    OBVIOUS
  <2>3. Typed /\ D \subseteq DOMAIN smem /\ smem' = Unmapped(smem, D)
    BY <1>4, <2>1, <2>2 DEF Inv
  <2> QED BY <2>2, <2>3, UnmapsSet
<1> QED BY <1>4, <1>5, <1>6, TakeOne

\* msm_cvp_unmap_buf_wncc.
LEMMA UnmapWnccCounts ==
    ASSUME Inv, Typed', CountInv, NEW k \in 1..Slots, UnmapBufWncc(k)
    PROVE  CountInv'
<1>1. table[k] # 0 /\ unmap_buf_wncc(k) /\ UNCHANGED <<cached, cap, extra, watermark, th>>
  BY DEF UnmapBufWncc
<1> QED BY <1>1, DropSourceCounts

\* Nothing happens to what is counted.
LEMMA Uncounted ==
    ASSUME Inv, Typed', CountInv, UNCHANGED <<smem, cached, cap, dmaref, extra, watermark,
           smem_count, th>>
    PROVE  CountInv'
<1>1. PICK t : t \notin Threads
  BY NoThread
<1>2. But(t)
  BY DEF But
<1>3. Typed /\ SameMaps /\ UNCHANGED <<cached, watermark, smem_count, dmaref, extra>>
  BY SameSmem DEF Inv
<1>4. cap' >= cap
  BY <1>3, CapSame
<1> QED BY <1>1, <1>2, <1>3, <1>4, StillStep

\* The WNCC sources left.
LEMMA DeinitWnccCounts ==
    ASSUME Inv, Typed', CountInv, DeinitWncc
    PROVE  CountInv'
<1>1. UNCHANGED <<cached, cap, extra, watermark, th>>
  BY DEF DeinitWncc
<1>2. CASE wncc # <<>>
  <2>1. unmap_buf_wncc(Head(wncc).id)
    BY <1>2 DEF DeinitWncc
  <2>2. wncc \in Seq(WnccRec) /\ 1 \in DOMAIN wncc /\ Head(wncc) = wncc[1]
    BY <1>2 DEF Inv, Typed, ListType
  <2>3. PICK k : k = wncc[1].id
    OBVIOUS
  <2>4. k \in 1..Slots /\ unmap_buf_wncc(k)
    BY <2>1, <2>2, <2>3, TypeFacts DEF Inv, WnccRec
  <2>5. table[k] # 0
    <3>1. table[k] = wncc[1].s /\ wncc[1].s \in Live
      BY <2>2, <2>3 DEF Inv, WnccInv
    <3> QED BY <3>1, TypeFacts DEF Inv, Live
  <2> QED BY <1>1, <2>4, <2>5, DropSourceCounts
<1>3. CASE wncc = <<>>
  <2>1. UNCHANGED <<smem, dmaref, smem_count>>
    BY <1>3 DEF DeinitWncc
  <2> QED BY <1>1, <2>1, Uncounted
<1> QED BY <1>2, <1>3

\* The session's own buffers are not counted.
LEMMA ReleaseArpCounts ==
    ASSUME Inv, Typed', CountInv, ReleaseArp
    PROVE  CountInv'
<1> DEFINE own == {persist[i].s : i \in {j \in DOMAIN persist : persist[j].kind = "arp"}}
<1>1. /\ Typed /\ UNCHANGED <<cached, cap, dmaref, extra, watermark, smem_count, th>>
      /\ smem' = [x \in DOMAIN smem |-> IF x \in own THEN [smem[x] EXCEPT !.ref = @ - 1, !.st = "freed"] ELSE smem[x]]
  BY DEF ReleaseArp, Inv
<1>2. \A x \in own : smem[x].buf = Nobody
  BY DEF Inv, PersistInv
<1> HIDE DEF own
<1>3. DOMAIN smem' = DOMAIN smem /\ \A x \in DOMAIN smem : smem[x] \in MapRec
  BY <1>1, TypeFacts
<1>4. \A x \in DOMAIN smem : /\ smem'[x].buf = smem[x].buf
                             /\ smem[x].buf # Nobody => smem'[x].st = smem[x].st
  BY <1>1, <1>2, <1>3 DEF MapRec
<1>5. Mine' = Mine
  BY <1>3, <1>4 DEF Mine, Live
<1>6. \A b \in Bufs : Bound(b)' = Bound(b)
  <2> SUFFICES ASSUME NEW b \in Bufs PROVE Bound(b)' = Bound(b)
    OBVIOUS
  <2>1. b # Nobody
    BY Consts
  <2> QED BY <1>3, <1>4, <2>1 DEF Bound, Live
<1>7. PICK t : t \notin Threads
  BY NoThread
<1>8. But(t)
  BY <1>1 DEF But
<1>9. DmaBufExact' /\ SmemCountExact'
  BY <1>1, <1>5, <1>6, <1>7, <1>8, SameDma DEF CountInv
<1>10. WatermarkExact'
  BY <1>1, <1>7, <1>8, WatermarkStep DEF CountInv
<1>11. RoomInv'
  <2>1. Typed /\ cap' = cap /\ cached' = cached
    BY <1>1
  <2>2. cap' \in Nat /\ cap' >= cap /\ cached' \subseteq cached
    BY <2>1, Consts DEF Typed, RestType
  <2> QED BY <1>7, <1>8, <2>1, <2>2, RoomStep DEF CountInv
<1> QED BY <1>9, <1>10, <1>11 DEF CountInv

\* The persistent buffers left.
LEMMA DeinitPersistCounts ==
    ASSUME Inv, Typed', CountInv, DeinitPersist
    PROVE  CountInv'
<1>1. PICK D : D = {s \in {persist[i].s : i \in DOMAIN persist} : ~Flagged(s)}
  OBVIOUS
<1>2. /\ phase = "persist" /\ smem' = Unmapped(smem, D) /\ dmaref' = Put(smem, D)
      /\ smem_count' = smem_count - Cardinality(D) /\ UNCHANGED <<extra, cap, cached, watermark>> /\ UNCHANGED th
  BY <1>1 DEF DeinitPersist
<1>3. Typed
  BY DEF Inv
<1>4. \A x \in D : \E i \in DOMAIN persist : persist[i].s = x
  BY <1>1
<1>5. \A x \in D : x \notin cached /\ smem[x].lost # "window"
  BY <1>1 DEF Flagged
<1>6. \A i \in DOMAIN persist : persist[i].s \in Shared /\ smem[persist[i].s].buf # Nobody
  <2>1. \A i \in DOMAIN persist : persist[i].kind # "arp"
    BY <1>2 DEF Inv, PhaseInv
  <2> QED BY <2>1 DEF Inv, PersistInv
<1>7. D \subseteq Live /\ \A x \in D : smem[x].buf # Nobody
  BY <1>4, <1>5, <1>6 DEF Shared, Tracked, Live
<1>8. Frees(D)
  <2>1. D \subseteq DOMAIN smem
    BY <1>7 DEF Live
  <2> QED BY <1>2, <1>3, <2>1, UnmapsSet
<1>9. PICK t : t \notin Threads
  BY NoThread
<1>10. But(t)
  BY <1>2 DEF But
<1> QED BY <1>2, <1>3, <1>7, <1>8, <1>9, <1>10, TakeUncached

\* The cache is emptied.
LEMMA DeinitCacheCounts ==
    ASSUME Inv, Typed', CountInv, DeinitCache
    PROVE  CountInv'
<1>1. /\ smem' = Unmapped(smem, cached) /\ dmaref' = Put(smem, cached)
      /\ watermark' = watermark - Cardinality(cached) /\ smem_count' = smem_count - Cardinality(cached)
      /\ cached' = {} /\ UNCHANGED <<extra, cap>> /\ UNCHANGED th
  BY DEF DeinitCache
<1>2. Typed /\ cached \subseteq Live /\ \A s \in cached : smem[s].buf # Nobody
  BY Consts DEF Inv, CacheInv
<1>3. Frees(cached)
  <2>1. cached \subseteq DOMAIN smem
    BY <1>2 DEF Live
  <2> QED BY <1>1, <1>2, <2>1, UnmapsSet
<1>4. PICK t : t \notin Threads
  BY NoThread
<1>5. But(t)
  BY <1>1 DEF But
<1>6. PICK C : C = cached
  OBVIOUS
<1>7. C \subseteq cached /\ cached' = cached \ C /\ watermark' = watermark - Cardinality(C)
  BY <1>1, <1>6
<1> QED BY <1>1, <1>2, <1>3, <1>4, <1>5, <1>7, TakeCounts

\* A new session.
LEMMA InitCounts ==
    ASSUME Init PROVE CountInv
<1>1. /\ DOMAIN smem = {} /\ cached = {} /\ cap = Cap /\ watermark = 0 /\ smem_count = 0
      /\ dmaref = [b \in Bufs |-> 0] /\ extra = [b \in Bufs |-> 0] /\ th = [t \in Threads |-> Idle]
  BY DEF Init
<1>2. \A t \in Threads : th[t].pc = "idle"
  BY <1>1, IdleFields
<1>3. Mine = {} /\ Incs = {} /\ Inserting = {} /\ \A b : Bound(b) = {} /\ Looking(b) = {}
  BY <1>1, <1>2 DEF Mine, Incs, Inserting, Bound, Looking, Live
<1>4. Cardinality({}) = 0
  BY FS_EmptySet
<1>5. DmaBufExact
  <2>1. \A b \in Bufs : dmaref[b] = 0 /\ extra[b] = 0
    BY <1>1
  <2>2. \A b : Cardinality(Bound(b)) = 0 /\ Cardinality(Looking(b)) = 0
    BY <1>3, <1>4
  <2> QED BY <2>1, <2>2, CountDefs
<1>6. WatermarkExact /\ SmemCountExact
  BY <1>1, <1>3, <1>4, CountDefs
<1>7. RoomInv
  <2>1. Cardinality(Threads) \in Nat
    BY Consts, FS_CardinalityType
  <2>2. Cardinality(cached) = 0 /\ Cardinality(Inserting) = 0 /\ cap \in Nat /\ cap > 0
    BY <1>1, <1>3, <1>4, Consts
  <2> QED BY <2>1, <2>2 DEF RoomInv
<1> QED BY <1>5, <1>6, <1>7 DEF CountInv

\* Every step of a careful client's session keeps the counts.
LEMMA NextCounts ==
    ASSUME Inv, CountInv, Careful, [Next]_vars
    PROVE  CountInv'
<1>0. Typed'
  BY NextInv DEF Inv
<1>1. ASSUME NEW t \in Threads, NEW b \in Bufs, NEW c \in Bufs, NEW config \in BOOLEAN,
             MapFrame(t, <<b>>, config) \/ (b # c /\ MapFrame(t, <<b, c>>, config))
      PROVE  CountInv'
  BY <1>0, <1>1, MapFrameCounts DEF Inv
<1>2. ASSUME NEW t \in Threads, NEW b \in Bufs, MapFeaturePersist(t, b) \/ MapBufWncc(t, b)
      PROVE  CountInv'
  BY <1>0, <1>2, MapFeatureCounts, MapWnccCounts DEF Inv
<1>3. ASSUME NEW t \in Threads, NEW b \in Bufs, NEW kind, MapUserPersist(t, b, kind)
      PROVE  CountInv'
  BY <1>0, <1>3, MapUserCounts
<1>4. ASSUME NEW t \in Threads, AllocPersist(t) \/ WnccAdd(t) \/ Borrow(t) \/ FindCached(t)
      PROVE  CountInv'
  BY <1>0, <1>4, AllocPersistCounts, WnccAddCounts, BorrowCounts, FindCachedCounts
<1>5. ASSUME NEW t \in Threads, FindPersist(t) \/ FindFrame(t) \/ AddSmem(t) \/ InsertSmem(t)
      PROVE  CountInv'
  BY <1>0, <1>5, FindPersistCounts, FindFrameCounts, AddSmemCounts, InsertSmemCounts
<1>6. ASSUME NEW t \in Threads, FirstRef(t) \/ CheckFound(t) \/ UseSmem(t) \/ ListFrame(t) \/ UndoFrame(t)
      PROVE  CountInv'
  BY <1>0, <1>6, FirstRefCounts, CheckFoundCounts, UseSmemCounts, ListFrameCounts, UndoFrameCounts
<1>7. ASSUME NEW i \in DOMAIN frames, UnmapFrame(i) PROVE CountInv'
  BY <1>0, <1>7, UnmapFrameCounts
<1>8. ASSUME NEW b \in Bufs, UnmapFeaturePersist(b) PROVE CountInv'
  BY <1>0, <1>8, UnmapFeatureCounts
<1>9. ASSUME NEW k \in 1..Slots, UnmapBufWncc(k) PROVE CountInv'
  BY <1>0, <1>9, UnmapWnccCounts
<1>10. CASE IovaCleanup \/ AllocateArp \/ ReleaseArp
  BY <1>0, <1>10, IovaCleanupCounts, AllocateArpCounts, ReleaseArpCounts
<1>11. CASE DeinitFrames \/ DeinitPersist \/ DeinitCache \/ DeinitWncc
  BY <1>0, <1>11, DeinitFramesCounts, DeinitPersistCounts, DeinitCacheCounts, DeinitWnccCounts
<1>12. CASE UNCHANGED vars
  <2>1. UNCHANGED <<smem, cached, cap, dmaref, extra, watermark, smem_count, th>>
    BY <1>12 DEF vars
  <2> QED BY <1>0, <2>1, Uncounted
<1> QED BY <1>1, <1>2, <1>3, <1>4, <1>5, <1>6, <1>7, <1>8, <1>9, <1>10, <1>11, <1>12 DEF Next

\* The counts, from both parts of the invariant.
LEMMA CountsFollow ==
    ASSUME Inv, CountInv PROVE CountsExact
<1>1. RefcountExact /\ TableExact
  BY InvCounts
<1>2. CacheBounded
  <2>1. /\ Cardinality(cached) \in Nat /\ Cardinality(Inserting) \in Nat /\ Cardinality(Threads) \in Nat
    BY FiniteParts DEF Inv
  <2>2. cap \in Nat
    BY Consts DEF Inv, Typed, RestType
  <2>3. Cardinality(cached) + Cardinality(Inserting) < cap + Cardinality(Threads)
    BY DEF CountInv, RoomInv
  <2> QED BY <2>1, <2>2, <2>3 DEF CacheBounded
<1> QED BY <1>1, <1>2 DEF CountsExact, CountInv

\* The types, from both parts of the invariant.
LEMMA TypesFollow ==
    ASSUME Inv, CountInv PROVE TypeOK
<1>1. Typed
  BY DEF Inv
<1>2. Len(smem) \in Nat /\ Len(smem) <= MaxSmem /\ DOMAIN smem = 1..Len(smem) /\ MaxSmem \in Nat
  BY <1>1, TypeFacts, Consts DEF Typed, SmemType
<1>3. \A s \in DOMAIN smem : s <= MaxSmem /\ smem[s] \in MapRec /\ s \in 1..MaxSmem
  BY <1>1, <1>2, TypeFacts
<1>4. cached \subseteq Live /\ cap \in {Cap, CapMax} /\ table \in [1..Slots -> 0..MaxSmem]
  <2>1. cached \subseteq Live
    BY DEF Inv, CacheInv
  <2>2. table \in [1..Slots -> 0..Len(smem)] /\ cap \in {Cap, CapMax}
    BY <1>1 DEF Typed, RestType
  <2>3. 0..Len(smem) \subseteq 0..MaxSmem
    BY <1>2
  <2> QED BY <2>1, <2>2, <2>3
<1>5. \A i \in DOMAIN persist : persist[i].s \in DOMAIN smem
  BY <1>1, TypeFacts DEF PersistRec
<1>6. EntryRec \subseteq Entries
  BY <1>3 DEF EntryRec, Entries
<1>7. \A i \in DOMAIN frames : Range(frames[i]) \subseteq Entries
  BY <1>1, <1>6, TypeFacts DEF Range
<1>8. \A t \in Threads : th[t].s \in 0..Len(smem) /\ Range(th[t].got) \subseteq Entries
  <2>1. \A t \in Threads : th[t].s \in 0..Len(smem)
    BY <1>1, TypeFacts, ThreadFields
  <2>2. \A t \in Threads : Range(th[t].got) \subseteq Entries
    BY <1>1, <1>6, TypeFacts DEF Range
  <2> QED BY <2>1, <2>2
<1>9. dmaref \in [Bufs -> Nat] /\ extra \in [Bufs -> Nat]
  <2>1. dmaref \in [Bufs -> Int] /\ extra \in [Bufs -> Nat]
    BY <1>1 DEF Typed, RestType
  <2>2. \A b \in Bufs : dmaref[b] = Cardinality(Bound(b)) + extra[b] + Cardinality(Looking(b))
    BY CountDefs DEF CountInv
  <2>3. \A b \in Bufs : Cardinality(Bound(b)) \in Nat /\ Cardinality(Looking(b)) \in Nat
    BY <1>1, FiniteParts
  <2>4. \A b \in Bufs : dmaref[b] \in Nat
    BY <2>1, <2>2, <2>3
  <2> QED BY <2>1, <2>4
<1> QED BY <1>3, <1>4, <1>5, <1>7, <1>8, <1>9 DEF TypeOK, MapRec

\* With the counts that are no references, the invariant all the results follow from.
\* dma_buf references, the watermark of the cache and smem_count are changed at other
\* places than the lists are (msm_cvp_session_get_smem, msm_cvp_session_add_smem,
\* msm_cvp_free_unused_mapping, msm_cvp_unmap_frame_buf).
THEOREM CountsHold ==
    ASSUME Careful PROVE Spec => [](Inv /\ CountInv)
<1>1. Init => Inv /\ CountInv
  BY InitInv, InitCounts
<1>2. Inv /\ CountInv /\ [Next]_vars => Inv' /\ CountInv'
  BY NextInv, NextCounts
<1> QED BY <1>1, <1>2, PTL DEF Spec

\* Every reference of a session to an smem is to one that was allocated, the cache holds only
\* mappings that are there, and no count of a dma_buf gets below zero.
THEOREM BufTypes ==
    ASSUME Careful PROVE Spec => []TypeOK
<1>1. Inv /\ CountInv => TypeOK
  BY TypesFollow
<1> QED BY <1>1, CountsHold, PTL

\* No frame in flight, persistent buffer, WNCC source or thread uses a mapping that was
\* unmapped and freed, but for the one freed in the window between the insertion into the
\* cache and the first reference, whatever msm_cvp_free_unused_mapping,
\* msm_cvp_unmap_frame_buf and the unmap calls free.
THEOREM BufUse ==
    ASSUME Careful PROVE Spec => []NoUseAfterFree
<1>1. Inv => NoUseAfterFree
  BY InvUse
<1> QED BY <1>1, CountsHold, PTL

\* smem->refcount is the number of users, each dma_buf has a reference for each mapping of
\* it, the watermark and smem_count follow the cache and the mappings, the WNCC table has
\* exactly the listed sources and the cache is over its limit by less than the threads.
THEOREM BufCounts ==
    ASSUME Careful PROVE Spec => []CountsExact
<1>1. Inv /\ CountInv => CountsExact
  BY CountsFollow
<1> QED BY <1>1, CountsHold, PTL

\* After msm_cvp_session_deinit_buffers no mapping is left, but for those that
\* IS_CVP_BUF_VALID found too small and whose reference it dropped without a look at the count.
THEOREM BufLeft ==
    ASSUME Careful PROVE Spec => []NothingLeft
<1>1. Inv => NothingLeft
  BY InvLeft
<1> QED BY <1>1, CountsHold, PTL

=============================================================================
