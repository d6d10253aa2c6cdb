------------------------------ MODULE HfiQueue ------------------------------
(***************************************************************************)
(* One shared-memory HFI queue between the driver and the EVA firmware     *)
(* (cvp_hfi.c).  A queue is a ring of QWords words and a header with two   *)
(* indices and two request flags.  It has one writer and one reader, and   *)
(* no lock is common to both: hfi_lock and device->lock serialise the      *)
(* driver's own threads, the firmware takes neither.  Every access of one  *)
(* side to a shared header field is therefore a step of its own here.      *)
(*                                                                         *)
(* The writer is __write_queue, as run by __iface_cmdq_write on the        *)
(* command queue; the reader is __read_queue, as run by __response_handler *)
(* on the message queue.  On each queue the firmware plays the other role, *)
(* and is taken to follow the protocol of the driver's code for that role. *)
(*                                                                         *)
(* A word of memory records which word of which packet was stored in it,   *)
(* so a torn, overwritten or misaligned packet is visible as such.         *)
(***************************************************************************)
EXTENDS Integers, Sequences

CONSTANTS QWords,     \* words in the ring: q_array.mem_size >> 2
          HugeWords,  \* CVP_IFACEQ_VAR_HUGE_PKT_SIZE >> 2
          MaxPackets, \* cvp_max_packets: entries of device->response_pkt
          Sizes,      \* packet sizes, in words, that are tried
          Kinds,      \* kinds of packets that are tried
          MaxSend     \* bound on the number of packets sent

(* A packet is "resp" (handed to the callback), "skip" (unknown, without a *)
(* response, or for a session that is gone) or "syserr" (HAL_SYS_ERROR).   *)
ASSUME QWordsAssumption == QWords \in Nat \ {0}
ASSUME HugeAssumption == HugeWords \in Nat \ {0}
ASSUME MaxPacketsAssumption == MaxPackets \in Nat \ {0}
ASSUME SizesAssumption == Sizes \subseteq Nat \ {0}
ASSUME KindsAssumption == Kinds \subseteq {"resp", "skip", "syserr"}
ASSUME MaxSendAssumption == MaxSend \in Nat

VARIABLES
    mem,        \* the ring
    read_idx,   \* qhdr_read_idx
    write_idx,  \* qhdr_write_idx
    rx_req,     \* qhdr_rx_req: the reader asks for an interrupt
    tx_req,     \* qhdr_tx_req: the writer asks for an interrupt
    bell,       \* interrupt pending at the reader
    txbell,     \* interrupt raised for the writer
    wpc,        \* control of the writer
    wpkt,       \* packet being written
    wnew,       \* new_write_idx
    sent,       \* number of packets published (their ids are 1..sent)
    rpc,        \* control of the reader
    l_r,        \* read_idx, as loaded by __read_queue
    l_w,        \* write_idx, as loaded by __read_queue
    l_sent,     \* sent, when write_idx was loaded
    new_r,      \* new_read_idx
    want,       \* outcome of comparing new_read_idx with qhdr_write_idx
    pkt,        \* raw_packet: the words copied out
    drop,       \* the packet at hand is too large
    consumed,   \* id of the last packet taken from the ring
    packets,    \* response_pkt[0..packet_count-1]: ids kept for the callback
    cut         \* why the last pass ended before it saw an empty queue

memVars == <<mem, read_idx, write_idx, rx_req, tx_req>>
bellVars == <<bell, txbell>>
writerVars == <<wpc, wpkt, wnew, sent>>
localVars == <<l_r, l_w, l_sent, new_r, want, pkt, drop>>
passVars == <<packets, cut>>
readerVars == <<rpc, consumed, localVars, passVars>>
vars == <<memVars, bellVars, writerVars, readerVars>>

-----------------------------------------------------------------------------
(* Words, packets and ring arithmetic. *)

Packet == [id : Nat, size : Nat, kind : {"resp", "skip", "syserr", "zero"}]
Word == [pkt : Packet, off : Nat]

(* A word of the zeroed memory, and the packet it would belong to. *)
ZeroPacket == [id |-> 0, size |-> 0, kind |-> "zero"]
ZeroWord == [pkt |-> ZeroPacket, off |-> 0]

WordOf(p, k) == [pkt |-> p, off |-> k]
Positions == 0 .. QWords - 1

(* Mutant: the free space of a wrapped ring is measured to its end. *)
MutEmptySpaceWrap(r, w) == IF w >= r THEN QWords - (w - r) ELSE QWords - w

(* Mutant: one word too many, so that a full ring looks like an empty one. *)
MutEmptySpaceFull(r, w) == IF w >= r THEN QWords - (w - r) + 1 ELSE r - w + 1

(* The free space __write_queue computes. *)
EmptySpace(r, w) == IF w >= r THEN QWords - (w - r) ELSE r - w

(* Mutant: an index may stand right behind the ring. *)
MutAdvance(i, n) == IF i + n <= QWords THEN i + n ELSE i + n - QWords

(* An index advanced by n words, as both ends do it. *)
Advance(i, n) == IF i + n < QWords THEN i + n ELSE i + n - QWords

(* The memcpys of __write_queue: the words of p stored from w on, the tail *)
(* of a packet that reaches the end of the ring at its start.              *)
CopyIn(m, w, p) ==
    IF w + p.size < QWords
    THEN [i \in Positions |-> IF w <= i /\ i < w + p.size
                              THEN WordOf(p, i - w) ELSE m[i]]
    ELSE LET tail == w + p.size - QWords
         IN  [i \in Positions |->
                CASE i < tail -> WordOf(p, p.size - tail + i)
                  [] i >= tail /\ i >= w -> WordOf(p, i - w)
                  [] OTHER -> m[i]]

(* Mutant: the second part is not taken from the start of the ring. *)
MutCopyOut(m, r, n) ==
    IF r + n < QWords
    THEN [k \in 0 .. n - 1 |-> m[r + k]]
    ELSE LET tail == r + n - QWords
         IN  [k \in 0 .. n - 1 |-> IF k < n - tail THEN m[r + k] ELSE m[k]]

(* The memcpys of __read_queue: n words from r on. *)
CopyOut(m, r, n) ==
    IF r + n < QWords
    THEN [k \in 0 .. n - 1 |-> m[r + k]]
    ELSE LET tail == r + n - QWords
         IN  [k \in 0 .. n - 1 |-> IF k < n - tail
                                   THEN m[r + k] ELSE m[k - (n - tail)]]

(* The number of words published and not yet consumed. *)
Used(r, w) == IF w >= r THEN w - r ELSE QWords - (r - w)

-----------------------------------------------------------------------------
(* __hfi_queue_init and __set_queue_hdr_defaults on zeroed memory. *)
Init ==
    /\ mem = [i \in Positions |-> ZeroWord]
    /\ read_idx = 0 /\ write_idx = 0
    /\ rx_req = 1 /\ tx_req = 0
    /\ bell = 0 /\ txbell = 0
    /\ wpc = "idle" /\ wpkt = ZeroPacket /\ wnew = 0 /\ sent = 0
    /\ rpc = "idle" /\ l_r = 0 /\ l_w = 0 /\ l_sent = 0 /\ new_r = 0
    /\ want = 0 /\ pkt = <<>> /\ drop = FALSE /\ consumed = 0
    /\ packets = <<>> /\ cut = "none"

-----------------------------------------------------------------------------
(* The writer: __write_queue. *)

(* read_idx is sampled and the packet does not fit. *)
WriteFull(n) ==
    /\ wpc = "idle" /\ sent < MaxSend
    /\ EmptySpace(read_idx, write_idx) <= n
    /\ wpc' = "full"
    /\ UNCHANGED <<memVars, bellVars, wpkt, wnew, sent, readerVars>>

(* ... qhdr_tx_req is set and the caller gets -ENOTEMPTY. *)
WriteReject ==
    /\ wpc = "full"
    /\ tx_req' = 1
    /\ wpc' = "idle"
    /\ UNCHANGED <<mem, read_idx, write_idx, rx_req, bellVars, wpkt, wnew,
                   sent, readerVars>>

(* read_idx is sampled, the packet fits and is copied into the ring. *)
WriteCopy(n, kind) ==
    LET p == [id |-> sent + 1, size |-> n, kind |-> kind]
    IN  /\ wpc = "idle" /\ sent < MaxSend
        /\ EmptySpace(read_idx, write_idx) > n
        /\ tx_req' = 0
        /\ mem' = CopyIn(mem, write_idx, p)
        /\ wnew' = Advance(write_idx, n)
        /\ wpkt' = p
        /\ wpc' = "publish"
        /\ UNCHANGED <<read_idx, write_idx, rx_req, bellVars, sent,
                       readerVars>>

(* After the barrier qhdr_write_idx makes the packet visible. *)
WritePublish ==
    /\ wpc = "publish"
    /\ write_idx' = wnew
    /\ sent' = sent + 1
    /\ wpc' = "rxreq"
    /\ UNCHANGED <<mem, read_idx, rx_req, tx_req, bellVars, wpkt, wnew,
                   readerVars>>

(* *rx_req_is_set is loaded ... *)
WriteLoadRxReq ==
    /\ wpc = "rxreq"
    /\ wpc' = IF rx_req = 1 THEN "ring" ELSE "idle"
    /\ UNCHANGED <<memVars, bellVars, wpkt, wnew, sent, readerVars>>

(* ... and __iface_cmdq_write raises the interrupt if it was set. *)
WriteRing ==
    /\ wpc = "ring"
    /\ bell' = 1
    /\ wpc' = "idle"
    /\ UNCHANGED <<memVars, txbell, wpkt, wnew, sent, readerVars>>

-----------------------------------------------------------------------------
(* The reader: iris_hfi_core_work_handler, __response_handler and          *)
(* __read_queue.                                                           *)

(* cvp_hfi_isr disabled the interrupt and woke the handler, which clears   *)
(* the pending interrupt before it looks at the queue.                     *)
ReadStart ==
    /\ rpc = "idle" /\ bell = 1
    /\ bell' = 0
    /\ packets' = <<>> /\ cut' = "none"
    /\ rpc' = "load"
    /\ UNCHANGED <<memVars, txbell, writerVars, localVars, consumed>>

(* __read_queue loads both indices. *)
ReadLoad ==
    /\ rpc = "load"
    /\ l_r' = read_idx /\ l_w' = write_idx /\ l_sent' = sent
    /\ rpc' = IF read_idx = write_idx THEN "arm" ELSE "fetch"
    /\ UNCHANGED <<memVars, bellVars, writerVars, new_r, want, pkt, drop,
                   consumed, passVars>>

(* The queue looked empty: ask for an interrupt ... *)
ReadArm ==
    /\ rpc = "arm"
    /\ rx_req' = 1
    /\ rpc' = "recheck"
    /\ UNCHANGED <<mem, read_idx, write_idx, tx_req, bellVars, writerVars,
                   localVars, consumed, passVars>>

(* ... and look again: a packet that arrived meanwhile is read after all,  *)
(* otherwise the loop of __response_handler ends.                          *)
ReadRecheck ==
    /\ rpc = "recheck"
    /\ IF l_w # write_idx
       THEN rx_req' = 0 /\ rpc' = "fetch"
       ELSE rx_req' = rx_req /\ rpc' = "callback"
    /\ UNCHANGED <<mem, read_idx, write_idx, tx_req, bellVars, writerVars,
                   localVars, consumed, passVars>>

(* The size word is read and the packet copied out; a packet that is too   *)
(* large is dropped, with everything up to the write index that was loaded *)
(* above.                                                                  *)
ReadFetch ==
    LET n == mem[l_r].pkt.size
    IN  /\ rpc = "fetch"
        /\ IF n <= HugeWords
           THEN /\ pkt' = CopyOut(mem, l_r, n)
                /\ new_r' = Advance(l_r, n)
                /\ drop' = FALSE
           ELSE /\ pkt' = <<>>
                /\ new_r' = l_w
                /\ drop' = TRUE
        /\ rpc' = "compare"
        /\ UNCHANGED <<memVars, bellVars, writerVars, l_r, l_w, l_sent, want,
                       consumed, passVars>>

(* new_read_idx is compared with the shared write index ... *)
ReadCompare ==
    /\ rpc = "compare"
    /\ want' = IF new_r = write_idx THEN 1 ELSE 0
    /\ rpc' = "store"
    /\ UNCHANGED <<memVars, bellVars, writerVars, l_r, l_w, l_sent, new_r,
                   pkt, drop, consumed, passVars>>

(* ... and qhdr_rx_req and qhdr_read_idx are stored. *)
ReadStore ==
    /\ rpc = "store"
    /\ rx_req' = want
    /\ read_idx' = new_r
    /\ consumed' = IF drop THEN l_sent ELSE consumed + 1
    /\ rpc' = "txreq"
    /\ UNCHANGED <<mem, write_idx, tx_req, bellVars, writerVars, localVars,
                   passVars>>

(* A dropped packet ends the loop: __iface_msgq_read returns -ENODATA and  *)
(* does not look at the tx request.                                        *)
ReadDropped ==
    /\ rpc = "txreq" /\ drop
    /\ cut' = "drop"
    /\ rpc' = "callback"
    /\ UNCHANGED <<memVars, bellVars, writerVars, localVars, consumed,
                   packets>>

(* Mutant: the loop goes on when response_pkt has just become full. *)
MutReadProcess ==
    LET p == pkt[0].pkt
        kept == Append(packets, p.id)
    IN  /\ rpc = "txreq" /\ ~drop
        /\ txbell' = IF tx_req = 1 THEN 1 ELSE txbell
        /\ \/ /\ p.kind = "skip"
              /\ rpc' = "load"
              /\ UNCHANGED passVars
           \/ /\ p.kind # "skip"
              /\ packets' = kept
              /\ cut' = CASE Len(kept) > MaxPackets -> "limit"
                          [] Len(kept) <= MaxPackets /\ p.kind = "syserr" -> "syserr"
                          [] OTHER -> cut
              /\ rpc' = IF cut' = "none" THEN "load" ELSE "callback"
        /\ UNCHANGED <<memVars, bell, writerVars, localVars, consumed>>

(* A waiting writer is woken, then __response_handler goes through the     *)
(* packet: it keeps it for the callback or forgets it, and goes on unless  *)
(* response_pkt is full or the packet was a system error.                  *)
ReadProcess ==
    LET p == pkt[0].pkt
        kept == Append(packets, p.id)
    IN  /\ rpc = "txreq" /\ ~drop
        /\ txbell' = IF tx_req = 1 THEN 1 ELSE txbell
        /\ \/ /\ p.kind = "skip"
              /\ rpc' = "load"
              /\ UNCHANGED passVars
           \/ /\ p.kind # "skip"
              /\ packets' = kept
              /\ cut' = CASE Len(kept) >= MaxPackets -> "limit"
                          [] Len(kept) < MaxPackets /\ p.kind = "syserr" -> "syserr"
                          [] OTHER -> cut
              /\ rpc' = IF cut' = "none" THEN "load" ELSE "callback"
        /\ UNCHANGED <<memVars, bell, writerVars, localVars, consumed>>

(* Mutant: the pending interrupt is cleared after the queue was drained. *)
MutReadCallbacks ==
    /\ rpc = "callback"
    /\ bell' = 0
    /\ rpc' = "idle"
    /\ UNCHANGED <<memVars, txbell, writerVars, localVars, consumed, passVars>>

(* The callbacks run and the interrupt is enabled again. *)
ReadCallbacks ==
    /\ rpc = "callback"
    /\ rpc' = "idle"
    /\ UNCHANGED <<memVars, bellVars, writerVars, localVars, consumed,
                   passVars>>

-----------------------------------------------------------------------------
Writer ==
    \/ \E n \in Sizes : WriteFull(n)
    \/ WriteReject
    \/ \E n \in Sizes, kind \in Kinds : WriteCopy(n, kind)
    \/ WritePublish
    \/ WriteLoadRxReq
    \/ WriteRing

Reader ==
    \/ ReadStart \/ ReadLoad \/ ReadArm \/ ReadRecheck \/ ReadFetch
    \/ ReadCompare \/ ReadStore \/ ReadDropped \/ ReadProcess
    \/ ReadCallbacks

Next == Writer \/ Reader

Spec == Init /\ [][Next]_vars

(* The handler is a kernel thread: it keeps running once it is woken, and  *)
(* an enabled pending interrupt is delivered.  A __write_queue call that   *)
(* has begun runs to its end.                                              *)
FairSpec ==
    /\ Spec
    /\ WF_vars(Reader)
    /\ WF_vars(WriteReject \/ WritePublish \/ WriteLoadRxReq \/ WriteRing)
-----------------------------------------------------------------------------
(* Properties. *)

TypeOK ==
    /\ mem \in [Positions -> Word]
    /\ read_idx \in Positions /\ write_idx \in Positions
    /\ rx_req \in {0, 1} /\ tx_req \in {0, 1}
    /\ bell \in {0, 1} /\ txbell \in {0, 1}
    /\ wpc \in {"idle", "full", "publish", "rxreq", "ring"}
    /\ wpkt \in Packet /\ wnew \in Positions /\ sent \in Nat
    /\ rpc \in {"idle", "load", "arm", "recheck", "fetch", "compare",
                "store", "txreq", "callback"}
    /\ l_r \in Positions /\ l_w \in Positions /\ l_sent \in Nat
    /\ new_r \in Positions /\ want \in {0, 1} /\ drop \in BOOLEAN
    /\ consumed \in Nat /\ packets \in Seq(Nat)
    /\ cut \in {"none", "limit", "syserr", "drop"}

(* The i-th unread word, counted from the read index. *)
Unread(i) == mem[Advance(read_idx, i)]
NumUnread == Used(read_idx, write_idx)

(* Word i is part of a packet all of whose words are unread and in place. *)
WholePacketAt(i) ==
    LET p == Unread(i).pkt
        start == i - Unread(i).off
    IN  /\ start >= 0
        /\ Unread(i).off < p.size
        /\ start + p.size <= NumUnread
        /\ \A k \in 0 .. p.size - 1 : Unread(start + k) = WordOf(p, k)

(* What the reader has not consumed is a sequence of whole packets: no     *)
(* word of an unread packet is overwritten by a write that wraps or runs   *)
(* into the read index, and neither index ever points inside a packet.     *)
(* The packets are those after the last consumed one, in the order sent.   *)
QueueIntact ==
    \A i \in 0 .. NumUnread - 1 :
        /\ WholePacketAt(i)
        /\ \A j \in i .. NumUnread - 1 : Unread(i).pkt.id <= Unread(j).pkt.id
        /\ i = 0 => Unread(i).pkt.id = consumed + 1
        /\ i > 0 /\ Unread(i).off = 0
              => Unread(i).pkt.id = Unread(i - 1).pkt.id + 1
        /\ i = NumUnread - 1 => Unread(i).pkt.id = sent

(* What __read_queue copied out is, word for word, the packet sent right   *)
(* after the one consumed last, although the writer kept writing between   *)
(* the load of the indices and the copy.                                   *)
PacketIntact ==
    rpc \in {"compare", "store"} /\ ~drop =>
        LET p == pkt[0].pkt
        IN  /\ pkt = [k \in 0 .. p.size - 1 |-> WordOf(p, k)]
            /\ p.id = consumed + 1

(* The wakeup for what is in the queue is under way at the writer or       *)
(* pending at the reader.                                                  *)
WakeupOnItsWay == \/ bell = 1
                  \/ wpc = "ring"
                  \/ wpc = "rxreq" /\ rx_req = 1

(* No lost wakeup: when the response handler has seen an empty queue and   *)
(* gone to sleep, a packet published at any moment of that pass, or later, *)
(* raises an interrupt.  A pass that response_pkt, a system error or a     *)
(* dropped packet cut short gives no such guarantee.                       *)
NoLostWakeup ==
    rpc = "idle" /\ cut = "none" /\ read_idx # write_idx => WakeupOnItsWay

(* __response_handler stores the packet at hand at response_pkt[           *)
(* packet_count]: that entry exists whenever a packet was read.            *)
ResponsePktInBounds == rpc = "txreq" => Len(packets) < MaxPackets

(* Every packet that is published is consumed, unless a pass is cut short  *)
(* by a full response_pkt, a system error or a dropped packet.             *)
EveryPacketConsumed ==
    \A k \in 1 .. MaxSend : sent >= k ~> (consumed >= k \/ cut # "none")

(* The packet with this id, as it is found in the unread words, if it is. *)
InRing(id) ==
    LET found == {p \in {Unread(i).pkt : i \in 0 .. NumUnread - 1} : p.id = id}
    IN  IF found = {} THEN ZeroPacket ELSE CHOOSE p \in found : TRUE

(* The packets in the ring, from the first one not yet consumed to the     *)
(* last one published.                                                     *)
PacketsInRing == [k \in 1 .. sent - consumed |-> InRing(consumed + k)]

Fifo == INSTANCE HfiFifo WITH Capacity <- QWords - 1,
                              queue <- PacketsInRing, last <- consumed

(* The ring, its indices and the two-sided access to them implement a      *)
(* bounded first-in first-out queue of whole packets.                      *)
ImplementsFifo == Fifo!Spec
=============================================================================
