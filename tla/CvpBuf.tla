------------------------------ MODULE CvpBuf ------------------------------
(***************************************************************************)
(* The buffers of one session (src/msm/eva/msm_cvp_buf.c and cvp_smem.c):  *)
(* the mapping cache, the lists of persistent buffers, frames and WNCC     *)
(* sources that share its mappings, and the threads that map buffers while *)
(* frames complete, the IOVA worker cleans up and the session closes.      *)
(*                                                                         *)
(* What runs under one mutex is one step.  A buffer is its dma_buf, every  *)
(* size is 1 and an offset is 0; a mapping (struct msm_cvp_smem) is a      *)
(* number, never used again after it is freed, so that a stale use shows.  *)
(***************************************************************************)
EXTENDS Integers, Sequences, FiniteSets, SequencesExt, FiniteSetsExt

CONSTANTS
    Bufs,        \* the client's dma_bufs
    Threads,     \* its threads in an ioctl
    Cap, CapMax, \* dma_cache.max_capacity: 128 at first, 256 after it was full
    Slots,       \* EVA_KMD_WNCC_MAX_SRC_BUFS
    Threshold,   \* IOVA_THRESHOLD
    Careful,     \* the client keeps to the rules of a careful client, below
    MaxSmem,     \* bound: mappings made
    MaxOps,      \* bound: calls of the client
    MaxRef       \* bound: how often a persistent buffer is sent again

Nobody == "no dma_buf"

ASSUME BufAssumption ==
    /\ {Cap, CapMax, Slots, MaxSmem, MaxOps, MaxRef} \subseteq Nat
    /\ 0 < Cap /\ Cap <= CapMax
    /\ IsFiniteSet(Threads)
    /\ Nobody \notin Bufs
    /\ Threshold \in Int
    /\ Careful \in BOOLEAN

VARIABLES
    smem,        \* the mappings made so far
    cached,      \* dma_cache.rbtree
    cap,         \* dma_cache.max_capacity
    persist,     \* persistbufs.list
    frames,      \* frames.list, each a sequence of buffers
    wncc,        \* cvpwnccbufs.list
    table,       \* cvpwnccbufs_table: the iova of a slot, which is its mapping, or 0
    dmaref,      \* the references the driver holds on each dma_buf
    extra,       \* of these, the ones taken and never put
    watermark,   \* va_watermark
    smem_count,  \* inst->smem_count
    work,        \* iova_cleanup_work is pending
    th,          \* the threads in an ioctl
    phase,       \* of the session
    ops          \* calls so far

vars == <<smem, cached, cap, persist, frames, wncc, table, dmaref, extra, watermark,
          smem_count, work, th, phase, ops>>

(***************************************************************************)
(* st is "live" or "freed".  lost says why a mapping escaped its count:    *)
(* "window" if it was freed between its insertion and its first reference, *)
(* "invalid" if its last reference was dropped without a look at the       *)
(* count.                                                                  *)
(***************************************************************************)
Mapping(b, r) == [buf |-> b, ref |-> r, st |-> "live", lost |-> "no"]

Idle == [pc |-> "idle", op |-> "none", todo |-> <<>>, got |-> <<>>, s |-> 0]

Live == {s \in DOMAIN smem : smem[s].st = "live"}

Init ==
    /\ smem = <<>>
    /\ cached = {}
    /\ cap = Cap
    /\ persist = <<>>
    /\ frames = <<>>
    /\ wncc = <<>>
    /\ table = [i \in 1..Slots |-> 0]
    /\ dmaref = [b \in Bufs |-> 0]
    /\ extra = [b \in Bufs |-> 0]
    /\ watermark = 0
    /\ smem_count = 0
    /\ work = FALSE
    /\ th = [t \in Threads |-> Idle]
    /\ phase = "open"
    /\ ops = 0

-----------------------------------------------------------------------------
\* Mapping and unmapping.

\* msm_cvp_unmap_smem and the free of the mapping, of every mapping in S.
Unmapped(sm, S) == [s \in DOMAIN sm |-> IF s \in S THEN [sm[s] EXCEPT !.st = "freed"] ELSE sm[s]]

\* msm_cvp_smem_put_dma_buf for every mapping in S.
Put(sm, S) == [b \in Bufs |-> dmaref[b] - Cardinality({s \in S : sm[s].buf = b})]

Get(b, n) == [dmaref EXCEPT ![b] = @ + n]

\* The buffers of a frame that hold a reference on s; one that borrows the address
\* of a persistent buffer holds none.
Owners(bs, s) == {k \in DOMAIN bs : bs[k].s = s /\ bs[k].own}

Owned(bs) == [s \in DOMAIN smem |-> Cardinality(Owners(bs, s))]

\* The elements of all the sets f[i], each with its index.
Pairs(f) == UNION {{i} \X f[i] : i \in DOMAIN f}

\* The same for a list of frames.
FrameRefs(fs, s) == Pairs([i \in DOMAIN fs |-> Owners(fs[i], s)])

\* smem->cached, which a mapping freed out of the cache keeps.
Flagged(s) == s \in cached \/ smem[s].lost = "window"

\* msm_cvp_unmap_frame_buf drops n[s] references on each mapping s.
Dropped(sm, n) == [s \in DOMAIN sm |-> [sm[s] EXCEPT !.ref = @ - n[s]]]

\* A mapping that is not in the cache goes with its last reference.
Gone(n) == {s \in DOMAIN smem : n[s] > 0 /\ ~Flagged(s) /\ smem[s].ref = n[s]}

unmap_frame_buf(n) ==
    LET dead == Gone(n)
        mapped == dead \cap Live
    IN  /\ smem' = Unmapped(Dropped(smem, n), dead)
        /\ dmaref' = Put(smem, mapped)
        /\ smem_count' = smem_count - Cardinality(mapped)

\* Mutant: a mapping with one user counts as unused.
MutUnused == {s \in cached : smem[s].ref <= 1}

\* msm_cvp_free_unused_mapping: the mappings of the cache that nobody uses.
Unused == {s \in cached : smem[s].ref = 0}

\* The threads that have inserted s into the cache and hold no reference yet.
InWindow(s) == \E t \in Threads : th[t].pc = "inc" /\ th[t].s = s

free_unused_mapping ==
    /\ cached' = cached \ Unused
    /\ smem' = [s \in DOMAIN smem |->
                  IF s \notin Unused THEN smem[s]
                  ELSE [smem[s] EXCEPT !.st = "freed", !.lost = IF InWindow(s) THEN "window" ELSE @]]
    /\ dmaref' = Put(smem, Unused)
    /\ watermark' = watermark - Cardinality(Unused)
    /\ smem_count' = smem_count - Cardinality(Unused)

\* Mutant: the worker unmaps and leaves the entries in the cache.
MutIovaCleanup ==
    /\ work
    /\ work' = FALSE
    /\ smem' = Unmapped(smem, Unused)
    /\ dmaref' = Put(smem, Unused)
    /\ UNCHANGED <<cached, watermark, smem_count>>
    /\ UNCHANGED <<cap, persist, frames, wncc, table, extra, th, phase, ops>>

\* msm_cvp_iova_cleanup_handler, for this session.
IovaCleanup ==
    /\ work
    /\ work' = FALSE
    /\ free_unused_mapping
    /\ UNCHANGED <<cap, persist, frames, wncc, table, extra, th, phase, ops>>

-----------------------------------------------------------------------------
\* The calls of the client.

\* A careful client does not send two calls about one persistent buffer at
\* once, and withdraws a buffer only when no frame uses it.
Calls(t, kinds, b) ==
    /\ phase = "open"
    /\ ops < MaxOps
    /\ ops' = ops + 1
    /\ th[t].pc = "idle"
    /\ Careful => \A u \in Threads : th[u].op \in kinds => b \notin Range(th[u].todo)

Lasting == {"params", "user", "feature", "wncc"}

Mapped(b, kinds) == {i \in DOMAIN persist : persist[i].buf = b /\ persist[i].kind \in kinds}

\* is_mapped_persist_buf: the first entry with this fd and size.
FirstMapped(b) == persist[Min(Mapped(b, {"user", "params", "feature"}))]

\* msm_cvp_map_frame: a packet with one or two buffers.
MapFrame(t, bs, config) ==
    /\ Calls(t, {}, bs[1])
    /\ th' = [th EXCEPT ![t] = [Idle EXCEPT !.pc = "find", !.todo = bs,
                                            !.op = IF config THEN "config" ELSE "frame"]]
    /\ UNCHANGED <<smem, cached, cap, persist, frames, wncc, table, dmaref, extra, watermark,
                   smem_count, work, phase>>

\* msm_cvp_map_user_persist_buf: the list is searched under the lock.
MapUserPersist(t, b, kind) ==
    /\ kind \in {"user", "params"}
    /\ Calls(t, Lasting, b)
    /\ LET hit == Mapped(b, {"user", "params", "feature"})
           i == Min(hit)
       IN  \/ /\ hit # {}
              /\ persist[i].hits < MaxRef
              /\ smem' = [smem EXCEPT ![persist[i].s].ref = @ + 1]
              /\ persist' = [persist EXCEPT ![i].hits = @ + 1]
              /\ UNCHANGED th
           \/ /\ hit = {}
              /\ th' = [th EXCEPT ![t] = [Idle EXCEPT !.pc = IF kind = "params" THEN "find" ELSE "alloc",
                                                      !.op = kind, !.todo = <<b>>]]
              /\ UNCHANGED <<smem, persist>>
    /\ UNCHANGED <<cached, cap, frames, wncc, table, dmaref, extra, watermark, smem_count, work,
                   phase>>

\* msm_cvp_map_feature_persist: nothing to do if is_mapped_persist_buf.
MapFeaturePersist(t, b) ==
    /\ Calls(t, Lasting, b)
    /\ Mapped(b, {"user", "params", "feature"}) = {}
    /\ th' = [th EXCEPT ![t] = [Idle EXCEPT !.pc = "alloc", !.op = "feature", !.todo = <<b>>]]
    /\ UNCHANGED <<smem, cached, cap, persist, frames, wncc, table, dmaref, extra, watermark,
                   smem_count, work, phase>>

\* msm_cvp_map_buf_wncc, up to the check for a duplicate.
MapBufWncc(t, b) ==
    /\ Calls(t, Lasting, b)
    /\ ~\E i \in DOMAIN wncc : wncc[i].buf = b
    /\ th' = [th EXCEPT ![t] = [Idle EXCEPT !.pc = "table", !.op = "wncc", !.todo = <<b>>]]
    /\ UNCHANGED <<smem, cached, cap, persist, frames, wncc, table, dmaref, extra, watermark,
                   smem_count, work, phase>>

Fresh == Len(smem) + 1
Room == Len(smem) < MaxSmem

Finish(t) == th' = [th EXCEPT ![t] = Idle]

\* msm_cvp_session_get_smem(is_persist) and list_add_tail; the mapping may fail.
AllocPersist(t) ==
    /\ th[t].pc = "alloc"
    /\ LET b == th[t].todo[1]
       IN  \/ UNCHANGED <<smem, persist, dmaref, smem_count>>
           \/ /\ Room
              /\ smem' = Append(smem, Mapping(b, 1))
              /\ persist' = Append(persist, [buf |-> b, s |-> Fresh, kind |-> th[t].op, hits |-> 0])
              /\ dmaref' = Get(b, 1)
              /\ smem_count' = smem_count + 1
    /\ Finish(t)
    /\ UNCHANGED <<cached, cap, frames, wncc, table, extra, watermark, work, phase, ops>>

\* msm_cvp_map_buf_wncc, from the mapping on: a free slot of the table, or none,
\* and then the mapping is undone and the caller is told of no error.
WnccAdd(t) ==
    /\ th[t].pc = "table"
    /\ LET b == th[t].todo[1]
           free == {i \in 1..Slots : table[i] = 0}
       IN  \/ UNCHANGED <<smem, wncc, table, dmaref, smem_count>>
           \/ /\ Room
              /\ free # {}
              /\ smem' = Append(smem, Mapping(b, 0))
              /\ wncc' = Append(wncc, [buf |-> b, s |-> Fresh, id |-> Min(free)])
              /\ table' = [table EXCEPT ![Min(free)] = Fresh]
              /\ dmaref' = Get(b, 1)
              /\ smem_count' = smem_count + 1
    /\ Finish(t)
    /\ UNCHANGED <<cached, cap, persist, frames, extra, watermark, work, phase, ops>>

-----------------------------------------------------------------------------
\* msm_cvp_session_get_smem for a frame or a params packet.

Wants(t) == Head(th[t].todo)

\* The caller has its mapping s: what is left is the check of its size.
Found(t, s) == th' = [th EXCEPT ![t].pc = "valid", ![t].s = s]

\* A config packet uses the address of a persistent buffer and takes no reference.
Borrow(t) ==
    /\ th[t].pc = "find"
    /\ th[t].op = "config"
    /\ Mapped(Wants(t), {"user", "params", "feature"}) # {}
    /\ LET todo == Tail(th[t].todo)
       IN  th' = [th EXCEPT ![t].todo = todo,
                            ![t].got = Append(@, [s |-> FirstMapped(Wants(t)).s, own |-> FALSE]),
                            ![t].pc = IF todo = <<>> THEN "list" ELSE "find"]
    /\ UNCHANGED <<smem, cached, cap, persist, frames, wncc, table, dmaref, extra, watermark,
                   smem_count, work, phase, ops>>

\* msm_cvp_session_find_smem: the cache, under its lock.  The reference on the
\* dma_buf that came with the fd is put again.
FindCached(t) ==
    /\ th[t].pc = "find"
    /\ th[t].op = "config" => Mapped(Wants(t), {"user", "params", "feature"}) = {}
    /\ LET hit == {s \in cached : smem[s].buf = Wants(t)}
       IN  \/ /\ hit # {}
              /\ smem' = [smem EXCEPT ![Min(hit)].ref = @ + 1]
              /\ Found(t, Min(hit))
              /\ UNCHANGED dmaref
           \/ /\ hit = {}
              /\ dmaref' = Get(Wants(t), 1)
              /\ th' = [th EXCEPT ![t].pc = "persist"]
              /\ UNCHANGED smem
    /\ UNCHANGED <<cached, cap, persist, frames, wncc, table, extra, watermark, smem_count, work,
                   phase, ops>>

\* A hit in one of the lists: here the reference on the dma_buf is kept.
ListHit(t, s) ==
    /\ smem' = [smem EXCEPT ![s].ref = @ + 1]
    /\ extra' = [extra EXCEPT ![Wants(t)] = @ + 1]
    /\ Found(t, s)

\* The list of persistent buffers, under its lock.
FindPersist(t) ==
    /\ th[t].pc = "persist"
    /\ LET hit == Mapped(Wants(t), {"user", "params", "feature"})
       IN  \/ /\ hit # {}
              /\ ListHit(t, persist[Min(hit)].s)
           \/ /\ hit = {}
              /\ th' = [th EXCEPT ![t].pc = "frames"]
              /\ UNCHANGED <<smem, extra>>
    /\ UNCHANGED <<cached, cap, persist, frames, wncc, table, dmaref, watermark, smem_count, work,
                   phase, ops>>

InFrames(b) ==
    {e.s : e \in {f \in UNION {Range(frames[i]) : i \in DOMAIN frames} : f.own /\ smem[f.s].buf = b}}

\* The list of frames, under its lock; after a miss a mapping is made, or cannot be.
FindFrame(t) ==
    /\ th[t].pc = "frames"
    /\ LET b == Wants(t)
       IN  \/ /\ InFrames(b) # {}
              /\ ListHit(t, Min(InFrames(b)))
              /\ UNCHANGED <<dmaref, smem_count>>
           \/ /\ InFrames(b) = {}
              /\ Room
              /\ smem' = Append(smem, Mapping(b, 0))
              /\ smem_count' = smem_count + 1
              /\ th' = [th EXCEPT ![t].pc = "add", ![t].s = Fresh]
              /\ UNCHANGED <<dmaref, extra>>
           \/ /\ InFrames(b) = {}
              /\ dmaref' = Get(b, -1)
              /\ th' = [th EXCEPT ![t].pc = "undo"]
              /\ UNCHANGED <<smem, extra, smem_count>>
    /\ UNCHANGED <<cached, cap, persist, frames, wncc, table, watermark, work, phase, ops>>

\* msm_cvp_session_add_smem: the size of the cache is read without its lock.  A
\* full cache is cleaned and allowed to grow; if nothing was freed the mapping
\* is used uncached.
AddSmem(t) ==
    /\ th[t].pc = "add"
    /\ IF Cardinality(cached) < cap
       THEN /\ th' = [th EXCEPT ![t].pc = "insert"]
            /\ UNCHANGED <<smem, cached, cap, dmaref, watermark, smem_count>>
       ELSE /\ cap' = Max({cap, CapMax})
            /\ IF Unused # {}
               THEN /\ free_unused_mapping
                    /\ th' = [th EXCEPT ![t].pc = "insert"]
               ELSE /\ smem' = [smem EXCEPT ![th[t].s].ref = @ + 1]
                    /\ th' = [th EXCEPT ![t].pc = "use"]
                    /\ UNCHANGED <<cached, dmaref, watermark, smem_count>>
    /\ UNCHANGED <<persist, frames, wncc, table, extra, work, phase, ops>>

\* msm_cvp_add_smem_rb_node: inserted with no reference, which follows after the
\* lock was released.
InsertSmem(t) ==
    /\ th[t].pc = "insert"
    /\ cached' = cached \cup {th[t].s}
    /\ th' = [th EXCEPT ![t].pc = "inc"]
    /\ UNCHANGED <<smem, cap, persist, frames, wncc, table, dmaref, extra, watermark, smem_count,
                   work, phase, ops>>

\* Mutant: a new mapping gets no first reference.
MutFirstRef(t) ==
    /\ th[t].pc = "inc"
    /\ watermark' = watermark + 1
    /\ work' = (work \/ watermark' > Threshold)
    /\ th' = [th EXCEPT ![t].pc = "use"]
    /\ UNCHANGED <<smem, cached, cap, persist, frames, wncc, table, dmaref, extra, smem_count, phase,
                   ops>>

FirstRef(t) ==
    /\ th[t].pc = "inc"
    /\ smem' = [smem EXCEPT ![th[t].s].ref = @ + 1]
    /\ watermark' = watermark + 1
    /\ work' = (work \/ watermark' > Threshold)
    /\ th' = [th EXCEPT ![t].pc = "use"]
    /\ UNCHANGED <<cached, cap, persist, frames, wncc, table, dmaref, extra, smem_count, phase,
                   ops>>

\* IS_CVP_BUF_VALID of a mapping that was found.  If the client asked for more
\* than it holds, the reference is dropped without a look at the count.
CheckFound(t) ==
    /\ th[t].pc = "valid"
    /\ LET s == th[t].s
       IN  \/ /\ th' = [th EXCEPT ![t].pc = "use"]
              /\ UNCHANGED smem
           \/ /\ th' = [th EXCEPT ![t].pc = "undo", ![t].s = 0]
              /\ smem' = [smem EXCEPT ![s].ref = @ - 1,
                            ![s].lost = IF smem[s].ref = 1 /\ ~Flagged(s) THEN "invalid" ELSE @]
    /\ UNCHANGED <<cached, cap, persist, frames, wncc, table, dmaref, extra, watermark, smem_count,
                   work, phase, ops>>

\* The mapping goes into the frame, or with a params packet into the list.  An
\* address of 0, of a mapping that is gone, fails the frame.
UseSmem(t) ==
    /\ th[t].pc = "use"
    /\ LET s == th[t].s
           todo == Tail(th[t].todo)
       IN  IF th[t].op = "params"
           THEN /\ persist' = Append(persist, [buf |-> Wants(t), s |-> s, kind |-> "params", hits |-> 0])
                /\ Finish(t)
           ELSE /\ th' = [th EXCEPT ![t].todo = todo, ![t].s = 0,
                            ![t].got = Append(@, [s |-> s, own |-> TRUE]),
                            ![t].pc = CASE s \notin Live -> "undo"
                                        [] s \in Live /\ todo = <<>> -> "list"
                                        [] s \in Live /\ todo # <<>> -> "find"]
                /\ UNCHANGED persist
    /\ UNCHANGED <<smem, cached, cap, frames, wncc, table, dmaref, extra, watermark, smem_count,
                   work, phase, ops>>

\* msm_cvp_map_frame: the frame is complete.
ListFrame(t) ==
    /\ th[t].pc = "list"
    /\ frames' = Append(frames, th[t].got)
    /\ Finish(t)
    /\ UNCHANGED <<smem, cached, cap, persist, wncc, table, dmaref, extra, watermark, smem_count,
                   work, phase, ops>>

\* Mutant: what a failed frame has mapped is kept.
MutUndoFrame(t) ==
    /\ th[t].pc = "undo"
    /\ Finish(t)
    /\ UNCHANGED <<smem, dmaref, smem_count>>
    /\ UNCHANGED <<cached, cap, persist, frames, wncc, table, extra, watermark, work, phase, ops>>

\* msm_cvp_map_frame: one of the buffers cannot be mapped, and what the frame has
\* so far is unmapped.
UndoFrame(t) ==
    /\ th[t].pc = "undo"
    /\ unmap_frame_buf(Owned(th[t].got))
    /\ Finish(t)
    /\ UNCHANGED <<cached, cap, persist, frames, wncc, table, extra, watermark, work, phase, ops>>

-----------------------------------------------------------------------------
\* What takes buffers away again.

\* msm_cvp_unmap_frame: the frame was answered, or cannot be sent.
UnmapFrame(i) ==
    /\ i \in DOMAIN frames
    /\ phase = "open"
    /\ frames' = RemoveAt(frames, i)
    /\ unmap_frame_buf(Owned(frames[i]))
    /\ UNCHANGED <<cached, cap, persist, wncc, table, extra, watermark, work, th, phase, ops>>

\* The buffers of all frames, complete or not, that use the mapping s.
UsedBy(s) ==
    \/ \E i \in DOMAIN frames : \E e \in Range(frames[i]) : e.s = s
    \/ \E t \in Threads : th[t].s = s \/ \E e \in Range(th[t].got) : e.s = s

\* msm_cvp_unmap_feature_persist: the mapping goes whatever its count is.
UnmapFeaturePersist(b) ==
    LET hit == Mapped(b, {"feature"})
        i == Min(hit)
        s == persist[i].s
    IN  /\ phase = "open"
        /\ hit # {}
        /\ Careful => ~UsedBy(s) /\ persist[i].hits = 0
        /\ persist' = RemoveAt(persist, i)
        /\ smem' = [smem EXCEPT ![s].ref = @ - 1, ![s].st = "freed"]
        /\ dmaref' = Put(smem, {s})
        /\ smem_count' = smem_count - 1
        /\ UNCHANGED <<cached, cap, frames, wncc, table, extra, watermark, work, th, phase, ops>>

\* msm_cvp_unmap_buf_wncc of the slot k: the first entry with the slot's fd.
unmap_buf_wncc(k) ==
    LET i == Min({j \in DOMAIN wncc : wncc[j].buf = smem[table[k]].buf})
        e == wncc[i]
    IN  /\ wncc' = RemoveAt(wncc, i)
        /\ table' = [table EXCEPT ![k] = 0]
        /\ smem' = Unmapped(smem, {e.s})
        /\ dmaref' = Put(smem, {e.s})
        /\ smem_count' = smem_count - 1

UnmapBufWncc(k) ==
    /\ phase = "open"
    /\ table[k] # 0
    /\ unmap_buf_wncc(k)
    /\ UNCHANGED <<cached, cap, persist, frames, extra, watermark, work, th, phase, ops>>

-----------------------------------------------------------------------------
\* The session's own buffers, and its end.

\* cvp_allocate_arp_bufs: not one of the client's buffers, and not counted.
AllocateArp ==
    /\ phase = "open"
    /\ Room
    /\ ~\E i \in DOMAIN persist : persist[i].kind = "arp"
    /\ smem' = Append(smem, Mapping(Nobody, 1))
    /\ persist' = Append(persist, [buf |-> Nobody, s |-> Fresh, kind |-> "arp", hits |-> 0])
    /\ UNCHANGED <<cached, cap, frames, wncc, table, dmaref, extra, watermark, smem_count, work, th,
                   phase, ops>>

\* The list of persistent buffers without the session's own.
Clients(list) ==
    LET kept[n \in 0..Len(list)] ==
          IF n = 0 THEN <<>>
          ELSE IF list[n].kind = "arp" THEN kept[n - 1] ELSE Append(kept[n - 1], list[n])
    IN  kept[Len(list)]

\* cvp_release_arp_buffers, when the last ioctl has returned.
ReleaseArp ==
    LET own == {persist[i].s : i \in {j \in DOMAIN persist : persist[j].kind = "arp"}}
    IN  /\ phase = "open"
        /\ \A t \in Threads : th[t] = Idle
        /\ phase' = "frames"
        /\ smem' = [s \in DOMAIN smem |-> IF s \in own
                                          THEN [smem[s] EXCEPT !.ref = @ - 1, !.st = "freed"]
                                          ELSE smem[s]]
        /\ persist' = Clients(persist)
        /\ UNCHANGED <<cached, cap, frames, wncc, table, dmaref, extra, watermark, smem_count, work,
                       th, ops>>

\* msm_cvp_session_deinit_buffers, one step for each of its locks.
DeinitFrames ==
    /\ phase = "frames"
    /\ unmap_frame_buf([s \in DOMAIN smem |-> Cardinality(FrameRefs(frames, s))])
    /\ frames' = <<>>
    /\ phase' = "persist"
    /\ UNCHANGED <<cached, cap, persist, wncc, table, extra, watermark, work, th, ops>>

\* Whatever their count; the ones in the cache are left to it.
DeinitPersist ==
    LET S == {s \in {persist[i].s : i \in DOMAIN persist} : ~Flagged(s)}
    IN  /\ phase = "persist"
        /\ smem' = Unmapped(smem, S)
        /\ dmaref' = Put(smem, S)
        /\ smem_count' = smem_count - Cardinality(S)
        /\ persist' = <<>>
        /\ phase' = "cache"
        /\ UNCHANGED <<cached, cap, frames, wncc, table, extra, watermark, work, th, ops>>

DeinitCache ==
    /\ phase = "cache"
    /\ smem' = Unmapped(smem, cached)
    /\ dmaref' = Put(smem, cached)
    /\ watermark' = watermark - Cardinality(cached)
    /\ smem_count' = smem_count - Cardinality(cached)
    /\ cached' = {}
    /\ phase' = "wncc"
    /\ UNCHANGED <<cap, persist, frames, wncc, table, extra, work, th, ops>>

\* The lock is released for every entry, each of which names its slot.
DeinitWncc ==
    /\ phase = "wncc"
    /\ IF wncc # <<>>
       THEN unmap_buf_wncc(Head(wncc).id) /\ UNCHANGED phase
       ELSE phase' = "closed" /\ UNCHANGED <<wncc, table, smem, dmaref, smem_count>>
    /\ UNCHANGED <<cached, cap, persist, frames, extra, watermark, work, th, ops>>

Next ==
    \/ \E t \in Threads :
        \/ \E b, c \in Bufs, config \in BOOLEAN :
            MapFrame(t, <<b>>, config) \/ (b # c /\ MapFrame(t, <<b, c>>, config))
        \/ \E b \in Bufs : MapFeaturePersist(t, b) \/ MapBufWncc(t, b)
        \/ \E b \in Bufs, kind \in {"user", "params"} : MapUserPersist(t, b, kind)
        \/ AllocPersist(t) \/ WnccAdd(t)
        \/ Borrow(t) \/ FindCached(t) \/ FindPersist(t) \/ FindFrame(t)
        \/ AddSmem(t) \/ InsertSmem(t) \/ FirstRef(t) \/ CheckFound(t) \/ UseSmem(t)
        \/ ListFrame(t) \/ UndoFrame(t)
    \/ \E i \in DOMAIN frames : UnmapFrame(i)
    \/ \E b \in Bufs : UnmapFeaturePersist(b)
    \/ \E k \in 1..Slots : UnmapBufWncc(k)
    \/ IovaCleanup
    \/ AllocateArp \/ ReleaseArp
    \/ DeinitFrames \/ DeinitPersist \/ DeinitCache \/ DeinitWncc

Spec == Init /\ [][Next]_vars

-----------------------------------------------------------------------------
Entries == [s : 1..MaxSmem, own : BOOLEAN]

\* The types of the variables.
TypeOK ==
    /\ \A s \in DOMAIN smem :
         /\ s <= MaxSmem
         /\ smem[s] \in [buf : Bufs \cup {Nobody}, ref : Nat, st : {"live", "freed"},
                         lost : {"no", "window", "invalid"}]
    /\ cached \subseteq Live
    /\ cap \in {Cap, CapMax}
    /\ \A i \in DOMAIN persist : persist[i].s \in DOMAIN smem
    /\ \A i \in DOMAIN frames : Range(frames[i]) \subseteq Entries
    /\ table \in [1..Slots -> 0..MaxSmem]
    /\ dmaref \in [Bufs -> Nat] /\ extra \in [Bufs -> Nat]
    /\ \A t \in Threads : th[t].s \in 0..Len(smem) /\ Range(th[t].got) \subseteq Entries

-----------------------------------------------------------------------------
\* A mapping that a frame, a persistent buffer, a WNCC source or a thread still
\* uses is not freed, by the end of a frame, a withdrawn buffer, a full cache or
\* the IOVA worker alike.  The one exception is the window of add_smem, which the
\* mapping that was lost there records.
NoUseAfterFree ==
    LET used == {s \in DOMAIN smem : UsedBy(s)}
                \cup {persist[i].s : i \in DOMAIN persist} \cup {wncc[i].s : i \in DOMAIN wncc}
    IN  \A s \in used : s \in Live \/ smem[s].lost = "window"

\* The references a thread holds: those of the frame it puts together, and the one it has
\* taken and not yet stored.
Holds(r, s) == Owners(r.got, s) \cup {k \in {0} : r.s = s /\ r.pc \in {"valid", "use"}}

ThreadRefs(h, s) == Pairs([t \in Threads |-> Holds(h[t], s)])

\* A persistent buffer holds one, and one more for each time it was sent again.
PersistRefs(list, s) ==
    Pairs([i \in DOMAIN list |-> {n \in 0..list[i].hits : list[i].s = s}])

\* The reference count is the number of users: frames, complete and not, entries
\* of the persist list and the packets that sent one of these again, and threads
\* between taking a reference and storing it.  Nothing reads it once the persist
\* list is taken down.
RefcountExact ==
    phase \in {"open", "frames", "persist"} => \A s \in Live :
        smem[s].ref = Cardinality(FrameRefs(frames, s)) + Cardinality(ThreadRefs(th, s))
                      + Cardinality(PersistRefs(persist, s))

\* The driver's references on a dma_buf are its mappings, the lookups in flight,
\* and the ones that hits in the persist and frame lists never put.
DmaBufExact ==
    \A b \in Bufs :
        dmaref[b] = Cardinality({s \in Live : smem[s].buf = b}) + extra[b]
                    + Cardinality({t \in Threads : th[t].pc \in {"persist", "frames"} /\ Wants(t) = b})

\* va_watermark, by which the IOVA worker is started, is what the cache holds,
\* less the entries whose threads have yet to add them.
WatermarkExact ==
    watermark = Cardinality(cached) - Cardinality({t \in Threads : th[t].pc = "inc"})

\* smem_count, by which msm_cvp_destroy reports leaks, counts the mappings of the
\* client's buffers.
SmemCountExact == smem_count = Cardinality({s \in Live : smem[s].buf # Nobody})

\* The cache outgrows its capacity only by the threads that read its size before
\* others inserted.
CacheBounded == Cardinality(cached) < cap + Cardinality(Threads)

\* The table by which WNCC packets are given addresses names exactly the mapped
\* sources, so that no packet gets the address of an unmapped one.
TableExact ==
    \A k \in 1..Slots :
        table[k] # 0 <=> \E i \in DOMAIN wncc : wncc[i].id = k /\ wncc[i].s = table[k] /\ table[k] \in Live

\* After msm_cvp_session_deinit_buffers no mapping is left, except those whose
\* last reference was dropped by the check of their size.
NothingLeft == phase = "closed" => \A s \in Live : smem[s].lost = "invalid"

\* The counts and tables by which buffers are shared, evicted and reported agree
\* with the mappings there are.
CountsExact ==
    RefcountExact /\ DmaBufExact /\ WatermarkExact /\ SmemCountExact /\ TableExact /\ CacheBounded

=============================================================================
