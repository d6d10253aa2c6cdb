------------------------------ MODULE HfiFifo ------------------------------
(***************************************************************************)
(* What an HFI queue promises, without rings, indices or flags: packets    *)
(* come out whole and in the order they were put in, and none is lost      *)
(* unless the one at the head is larger than CVP_IFACEQ_VAR_HUGE_PKT_SIZE, *)
(* when it is thrown away, possibly with packets behind it.                *)
(***************************************************************************)
EXTENDS Naturals, Sequences

CONSTANTS Capacity,   \* words that fit
          HugeWords   \* largest packet the reader accepts, in words

VARIABLES queue,      \* the packets in the queue
          last        \* id of the packet consumed last

(* The words taken by the packets of q. *)
Words(q) ==
    LET sum[i \in 0 .. Len(q)] == IF i = 0 THEN 0 ELSE sum[i - 1] + q[i].size
    IN  sum[Len(q)]

Init == queue = <<>> /\ last = 0

Put ==
    /\ \E size \in 1 .. Capacity, kind \in {"resp", "skip", "syserr"} :
         queue' = Append(queue, [id |-> last + Len(queue) + 1,
                                 size |-> size, kind |-> kind])
    /\ Words(queue') <= Capacity
    /\ UNCHANGED last

Take ==
    /\ queue # <<>> /\ Head(queue).size <= HugeWords
    /\ queue' = Tail(queue)
    /\ last' = Head(queue).id

Discard ==
    /\ queue # <<>> /\ Head(queue).size > HugeWords
    /\ \E k \in 1 .. Len(queue) :
         /\ queue' = SubSeq(queue, k + 1, Len(queue))
         /\ last' = queue[k].id

Next == Put \/ Take \/ Discard

Spec == Init /\ [][Next]_<<queue, last>>
=============================================================================
