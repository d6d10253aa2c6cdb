--------------------------- MODULE HfiQueue_proofs ---------------------------
(***************************************************************************)
(* Proofs about HfiQueue, for every ring size, packet size and bound.      *)
(***************************************************************************)
EXTENDS HfiQueue, TLAPS, WellFoundedInduction

-----------------------------------------------------------------------------
(* The inductive invariant. *)

(* When the reader has loaded write_idx, the unread words before that      *)
(* position are exactly the ones of packets sent by then.                  *)
SampleOK ==
    LET d == Used(read_idx, l_w)
    IN  /\ l_r = read_idx
        /\ d <= NumUnread
        /\ l_sent <= sent
        /\ d = 0 => l_sent = consumed
        /\ \A i \in 0 .. NumUnread - 1 : i < d <=> Unread(i).pkt.id <= l_sent

(* What the reader holds in its locals at each of its steps. *)
LocalsOK ==
    /\ rpc \in {"arm", "recheck"} =>
         l_r = read_idx /\ l_w = read_idx /\ l_sent = consumed
    /\ rpc \in {"fetch", "compare", "store"} =>
         read_idx # write_idx /\ SampleOK
    /\ rpc \in {"compare", "store"} =>
         IF drop THEN new_r = l_w /\ Unread(0).pkt.size > HugeWords
                 ELSE /\ new_r = Advance(read_idx, Unread(0).pkt.size)
                      /\ Unread(0).pkt.size <= HugeWords
                      /\ pkt[0].pkt = Unread(0).pkt
                      /\ pkt = [k \in 0 .. Unread(0).pkt.size - 1 |->
                                    WordOf(Unread(0).pkt, k)]
    /\ rpc = "txreq" /\ ~drop => pkt[0].pkt \in Packet

(* The packet that is copied but not yet published lies in free words. *)
WriterOK ==
    wpc = "publish" =>
        /\ wpkt.id = sent + 1
        /\ wpkt.size > 0 /\ wpkt.kind \in Kinds
        /\ NumUnread + wpkt.size < QWords
        /\ wnew = Advance(write_idx, wpkt.size)
        /\ \A k \in 0 .. wpkt.size - 1 :
              mem[Advance(write_idx, k)] = WordOf(wpkt, k)

(* Between two passes, unless the last one was cut short, the reader has   *)
(* asked for an interrupt and will get one for what is in the queue.       *)
WakeOK ==
    /\ rpc \in {"idle", "callback"} /\ cut = "none" =>
         /\ rx_req = 1
         /\ read_idx # write_idx => WakeupOnItsWay
    /\ rpc = "recheck" => rx_req = 1
    /\ rpc \notin {"idle", "callback"} => cut = "none"

EmptyOK == read_idx = write_idx => consumed = sent

PassOK == rpc \notin {"idle", "callback"} => Len(packets) < MaxPackets

IInv == /\ TypeOK /\ QueueIntact /\ LocalsOK /\ WriterOK /\ WakeOK
        /\ EmptyOK /\ PassOK

-----------------------------------------------------------------------------
(* Ring arithmetic. *)

(* The number of unread words is in range, leads from the read index to    *)
(* the write index, and is what EmptySpace leaves.                         *)
LEMMA UsedFacts ==
    ASSUME NEW r \in Positions, NEW w \in Positions
    PROVE  /\ Used(r, w) \in 0 .. QWords - 1
           /\ Advance(r, Used(r, w)) = w
           /\ EmptySpace(r, w) = QWords - Used(r, w)
           /\ Used(r, w) = 0 <=> r = w
BY QWordsAssumption DEF Positions, Used, Advance, EmptySpace

(* Advancing stays in the ring, and advancing by 0 stays put. *)
LEMMA AdvanceType ==
    ASSUME NEW r \in Positions, NEW n \in 0 .. QWords
    PROVE  Advance(r, n) \in Positions /\ Advance(r, 0) = r
BY QWordsAssumption DEF Positions, Advance

(* Different distances below QWords lead to different words. *)
LEMMA AdvanceInjective ==
    ASSUME NEW r \in Positions, NEW i \in Positions, NEW j \in Positions,
           Advance(r, i) = Advance(r, j)
    PROVE  i = j
BY QWordsAssumption DEF Positions, Advance

(* Advancing twice is advancing by the sum. *)
LEMMA AdvanceAdd ==
    ASSUME NEW r \in Positions, NEW i \in Nat, NEW j \in Nat, i + j <= QWords
    PROVE  Advance(Advance(r, i), j) = Advance(r, i + j)
BY QWordsAssumption DEF Positions, Advance

(* Consuming n unread words, and publishing n words. *)
LEMMA UsedConsume ==
    ASSUME NEW r \in Positions, NEW w \in Positions, NEW n \in Nat,
           n <= Used(r, w)
    PROVE  Used(Advance(r, n), w) = Used(r, w) - n
BY QWordsAssumption DEF Positions, Used, Advance

(* Publishing n words that fit makes n more words unread. *)
LEMMA UsedPublish ==
    ASSUME NEW r \in Positions, NEW w \in Positions, NEW n \in Nat,
           Used(r, w) + n < QWords
    PROVE  Used(r, Advance(w, n)) = Used(r, w) + n
BY QWordsAssumption DEF Positions, Used, Advance

(* CopyIn stores the packet from w on and leaves every other word alone. *)
LEMMA CopyInFacts ==
    ASSUME NEW m \in [Positions -> Word], NEW w \in Positions,
           NEW p \in Packet, p.size < QWords
    PROVE  /\ CopyIn(m, w, p) \in [Positions -> Word]
           /\ \A k \in 0 .. p.size - 1 :
                 CopyIn(m, w, p)[Advance(w, k)] = WordOf(p, k)
           /\ \A k \in p.size .. QWords - 1 :
                 CopyIn(m, w, p)[Advance(w, k)] = m[Advance(w, k)]
<1> p.size \in Nat
  BY DEF Packet
<1>1. CASE w + p.size < QWords
  <2>1. CopyIn(m, w, p) = [i \in Positions |-> IF w <= i /\ i < w + p.size
                              THEN WordOf(p, i - w) ELSE m[i]]
    BY <1>1 DEF CopyIn
  <2>2. \A i \in Positions : w <= i /\ i < w + p.size => WordOf(p, i - w) \in Word
    BY QWordsAssumption DEF Positions, WordOf, Word
  <2>3. CopyIn(m, w, p) \in [Positions -> Word]
    BY <2>1, <2>2
  <2>4. ASSUME NEW k \in 0 .. p.size - 1
        PROVE  CopyIn(m, w, p)[Advance(w, k)] = WordOf(p, k)
    BY <1>1, <2>1, QWordsAssumption DEF Positions, Advance
  <2>5. ASSUME NEW k \in p.size .. QWords - 1
        PROVE  CopyIn(m, w, p)[Advance(w, k)] = m[Advance(w, k)]
    BY <1>1, <2>1, QWordsAssumption DEF Positions, Advance
  <2> QED BY <2>3, <2>4, <2>5
<1>2. CASE ~(w + p.size < QWords)
  <2> DEFINE tail == w + p.size - QWords
  <2>1. CopyIn(m, w, p) = [i \in Positions |->
                CASE i < tail -> WordOf(p, p.size - tail + i)
                  [] i >= tail /\ i >= w -> WordOf(p, i - w)
                  [] OTHER -> m[i]]
    BY <1>2 DEF CopyIn
  <2>2. tail \in Nat /\ tail < w /\ tail < QWords /\ tail <= p.size
    BY <1>2, QWordsAssumption DEF Positions
  <2>3. \A i \in Positions :
          /\ i < tail => CopyIn(m, w, p)[i] = WordOf(p, p.size - tail + i)
          /\ i >= w => CopyIn(m, w, p)[i] = WordOf(p, i - w)
          /\ i >= tail /\ i < w => CopyIn(m, w, p)[i] = m[i]
    BY <2>1, <2>2, QWordsAssumption DEF Positions
  <2>4. \A i \in Positions : CopyIn(m, w, p)[i] \in Word
    <3> SUFFICES ASSUME NEW i \in Positions
                 PROVE  CopyIn(m, w, p)[i] \in Word
      OBVIOUS
    <3> \A k \in Nat : WordOf(p, k) \in Word
      BY DEF WordOf, Word
    <3> QED BY <2>2, <2>3, QWordsAssumption DEF Positions
  <2>5. CopyIn(m, w, p) \in [Positions -> Word]
    BY <2>1, <2>4
  <2>6. ASSUME NEW k \in 0 .. p.size - 1
        PROVE  CopyIn(m, w, p)[Advance(w, k)] = WordOf(p, k)
    <3>1. CASE w + k < QWords
      <4>1. Advance(w, k) = w + k /\ w + k \in Positions /\ w + k >= w
        BY <3>1, QWordsAssumption DEF Positions, Advance
      <4>2. CopyIn(m, w, p)[w + k] = WordOf(p, (w + k) - w)
        BY <2>3, <4>1
      <4>3. (w + k) - w = k
        BY DEF Positions
      <4> QED BY <4>1, <4>2, <4>3
    <3>2. CASE ~(w + k < QWords)
      <4>1. /\ Advance(w, k) = w + k - QWords
            /\ w + k - QWords \in Positions /\ w + k - QWords < tail
        BY <3>2, QWordsAssumption DEF Positions, Advance
      <4>2. CopyIn(m, w, p)[w + k - QWords]
              = WordOf(p, p.size - tail + (w + k - QWords))
        BY <2>3, <4>1
      <4>3. p.size - tail + (w + k - QWords) = k
        BY QWordsAssumption DEF Positions
      <4> QED BY <4>1, <4>2, <4>3
    <3> QED BY <3>1, <3>2
  <2>7. ASSUME NEW k \in p.size .. QWords - 1
        PROVE  CopyIn(m, w, p)[Advance(w, k)] = m[Advance(w, k)]
    BY <1>2, <2>2, <2>3, QWordsAssumption DEF Positions, Advance
  <2> QED BY <2>5, <2>6, <2>7
<1> QED BY <1>1, <1>2

(* CopyOut returns the n words from r on. *)
LEMMA CopyOutFacts ==
    ASSUME NEW m, NEW r \in Positions, NEW n \in Nat, n <= QWords
    PROVE  CopyOut(m, r, n) = [k \in 0 .. n - 1 |-> m[Advance(r, k)]]
<1>1. CASE r + n < QWords
  BY <1>1, QWordsAssumption DEF CopyOut, Positions, Advance
<1>2. CASE ~(r + n < QWords)
  BY <1>2, QWordsAssumption DEF CopyOut, Positions, Advance
<1> QED BY <1>1, <1>2

(* The unread words are out of reach of a packet that fits. *)
LEMMA UnreadBeforeFree ==
    ASSUME NEW r \in Positions, NEW w \in Positions,
           NEW i \in 0 .. Used(r, w) - 1
    PROVE  /\ QWords - Used(r, w) + i \in 0 .. QWords - 1
           /\ Advance(w, QWords - Used(r, w) + i) = Advance(r, i)
BY QWordsAssumption DEF Positions, Used, Advance

-----------------------------------------------------------------------------
(* The contents of the queue. *)

(* Types of the unread words. *)
LEMMA UnreadType ==
    ASSUME TypeOK
    PROVE  /\ NumUnread \in 0 .. QWords - 1
           /\ NumUnread = 0 <=> read_idx = write_idx
           /\ \A i \in 0 .. QWords - 1 :
                /\ Unread(i) \in Word
                /\ Unread(i).pkt \in Packet
                /\ Unread(i).off \in Nat
                /\ Unread(i).pkt.size \in Nat
                /\ Unread(i).pkt.id \in Nat
<1>1. NumUnread \in 0 .. QWords - 1 /\ (NumUnread = 0 <=> read_idx = write_idx)
  BY UsedFacts DEF NumUnread, TypeOK
<1>2. ASSUME NEW i \in 0 .. QWords - 1
      PROVE  Unread(i) \in Word
  <2>1. Advance(read_idx, i) \in Positions
    BY AdvanceType, QWordsAssumption DEF TypeOK
  <2> QED BY <2>1 DEF TypeOK, Unread
<1> QED BY <1>1, <1>2 DEF Word, Packet

(* The packet at the head of a queue that is not empty. *)
LEMMA HeadPacket ==
    ASSUME TypeOK, QueueIntact, read_idx # write_idx
    PROVE  LET p == Unread(0).pkt
           IN  /\ mem[read_idx] = Unread(0)
               /\ p \in Packet
               /\ p.size \in 1 .. NumUnread
               /\ p.id = consumed + 1
               /\ \A k \in 0 .. p.size - 1 : Unread(k) = WordOf(p, k)
               /\ p.size < NumUnread =>
                    /\ Unread(p.size).off = 0
                    /\ Unread(p.size).pkt.id = p.id + 1
               /\ p.size = NumUnread => p.id = sent
<1> DEFINE p == Unread(0).pkt
<1>1. /\ NumUnread \in 1 .. QWords - 1
      /\ \A i \in 0 .. NumUnread - 1 :
           /\ Unread(i).pkt \in Packet /\ Unread(i).off \in Nat
           /\ Unread(i).pkt.size \in Nat /\ Unread(i).pkt.id \in Nat
  BY UnreadType, QWordsAssumption
<1>2. mem[read_idx] = Unread(0)
  BY AdvanceType, QWordsAssumption DEF Unread, TypeOK
<1>3. WholePacketAt(0) /\ p.id = consumed + 1
  BY <1>1 DEF QueueIntact
<1>4. Unread(0).off = 0 /\ p.size \in 1 .. NumUnread
  BY <1>1, <1>3 DEF WholePacketAt
<1>5. \A k \in 0 .. p.size - 1 : Unread(k) = WordOf(p, k)
  BY <1>1, <1>3, <1>4 DEF WholePacketAt
<1>6. p.size \in Nat /\ p.size > 0 /\ p.size <= NumUnread
  BY <1>1, <1>4
<1>7. Unread(p.size - 1) = WordOf(p, p.size - 1)
  BY <1>5, <1>6
<1>8. Unread(p.size - 1).pkt = p
  BY <1>7 DEF WordOf
<1>9. ASSUME p.size < NumUnread
      PROVE  Unread(p.size).off = 0 /\ Unread(p.size).pkt.id = p.id + 1
  <2> DEFINE q == Unread(p.size).pkt
             off == Unread(p.size).off
             start == p.size - off
  <2>1. off \in Nat /\ q.size \in Nat /\ q \in Packet
    BY <1>1, <1>6, <1>9
  <2>2. /\ start >= 0 /\ off < q.size
        /\ \A k \in 0 .. q.size - 1 : Unread(start + k) = WordOf(q, k)
    BY <1>1, <1>6, <1>9 DEF QueueIntact, WholePacketAt
  <2>3. Unread(start) = WordOf(q, 0)
    <3>1. 0 \in 0 .. q.size - 1
      BY <2>1, <2>2
    <3>2. start + 0 = start
      BY <2>1, <1>6
    <3> QED BY <2>2, <3>1, <3>2
  <2>4. off = 0
    <3> SUFFICES ASSUME off # 0 PROVE FALSE
      OBVIOUS
    <3>1. start \in 0 .. p.size - 1
      BY <2>1, <2>2, <1>6
    <3>2. Unread(start) = WordOf(p, start)
      BY <1>5, <3>1
    <3>3. q = p /\ start = 0
      BY <2>3, <3>2 DEF WordOf
    <3> QED BY <3>3, <2>1, <2>2, <1>6
  <2>5. p.size > 0 /\ p.size \in 0 .. NumUnread - 1
    BY <1>1, <1>6, <1>9
  <2>6. Unread(p.size).pkt.id = Unread(p.size - 1).pkt.id + 1
    BY <2>4, <2>5 DEF QueueIntact
  <2> QED BY <2>4, <2>6, <1>8
<1>10. ASSUME p.size = NumUnread PROVE p.id = sent
  <2>1. NumUnread - 1 \in 0 .. NumUnread - 1
    BY <1>1
  <2>2. Unread(NumUnread - 1).pkt.id = sent
    BY <2>1 DEF QueueIntact
  <2> QED BY <2>2, <1>8, <1>10
<1> QED BY <1>1, <1>2, <1>3, <1>4, <1>5, <1>9, <1>10

(* Moving the read index over n words, up to the start of a packet, leaves *)
(* the rest of the queue intact.                                           *)
LEMMA ConsumeIntact ==
    ASSUME TypeOK, QueueIntact, NEW n \in 0 .. NumUnread, NEW c \in Nat,
           n < NumUnread => Unread(n).off = 0 /\ Unread(n).pkt.id = c + 1,
           read_idx' = Advance(read_idx, n), consumed' = c,
           UNCHANGED <<mem, write_idx, sent>>
    PROVE  /\ QueueIntact' /\ NumUnread' = NumUnread - n
           /\ \A i \in 0 .. NumUnread' - 1 :
                Unread(i)' = Unread(n + i) /\ n + i \in 0 .. NumUnread - 1
<1>1. /\ NumUnread \in 0 .. QWords - 1 /\ n \in Nat
      /\ \A i \in 0 .. NumUnread - 1 :
           /\ Unread(i).off \in Nat
           /\ Unread(i).pkt.size \in Nat /\ Unread(i).pkt.id \in Nat
  BY UnreadType, QWordsAssumption
<1>2. NumUnread' = NumUnread - n
  BY <1>1, UsedConsume DEF NumUnread, TypeOK
<1>3. ASSUME NEW i \in 0 .. NumUnread' - 1
      PROVE  Unread(i)' = Unread(n + i) /\ n + i \in 0 .. NumUnread - 1
  <2>1. i \in Nat /\ n + i <= QWords /\ n + i \in 0 .. NumUnread - 1
    BY <1>1, <1>2, QWordsAssumption
  <2>2. Advance(Advance(read_idx, n), i) = Advance(read_idx, n + i)
    BY <1>1, <2>1, AdvanceAdd DEF TypeOK
  <2> QED BY <2>1, <2>2 DEF Unread
<1>4. ASSUME NEW i \in 0 .. NumUnread' - 1
      PROVE  WholePacketAt(i)'
  <2>0. PICK p, off : p = Unread(n + i).pkt /\ off = Unread(n + i).off
    OBVIOUS
  <2> DEFINE start == n + i - off
  <2>1. /\ Unread(i)' = Unread(n + i) /\ n + i \in 0 .. NumUnread - 1
        /\ off \in Nat /\ p.size \in Nat
    BY <1>1, <1>3, <2>0
  <2>2. /\ start >= 0 /\ off < p.size /\ start + p.size <= NumUnread
        /\ \A k \in 0 .. p.size - 1 : Unread(start + k) = WordOf(p, k)
    BY <2>0, <2>1 DEF QueueIntact, WholePacketAt
  <2>3. start >= n
    <3> SUFFICES ASSUME start < n PROVE FALSE
      BY <1>1, <1>2, <2>1
    <3>1. n - start \in 0 .. p.size - 1 /\ n - start > 0 /\ start + (n - start) = n
      BY <1>1, <1>2, <2>1, <2>2
    <3>2. Unread(n) = WordOf(p, n - start)
      BY <2>2, <3>1
    <3>3. Unread(n).off = n - start
      BY <3>2 DEF WordOf
    <3>4. n < NumUnread
      BY <1>1, <1>2
    <3> QED BY <3>1, <3>3, <3>4
  <2> DEFINE s2 == i - off
  <2>4. s2 = start - n /\ s2 >= 0 /\ s2 + p.size <= NumUnread'
    BY <1>1, <1>2, <2>1, <2>2, <2>3
  <2>5. ASSUME NEW k \in 0 .. p.size - 1
        PROVE  Unread(s2 + k)' = WordOf(p, k)
    <3>1. s2 + k \in 0 .. NumUnread' - 1 /\ n + (s2 + k) = start + k
      BY <1>1, <1>2, <2>1, <2>2, <2>4
    <3>2. Unread(s2 + k)' = Unread(start + k)
      BY <1>3, <3>1
    <3> QED BY <2>2, <3>2
  <2> QED BY <2>0, <2>1, <2>2, <2>4, <2>5 DEF WholePacketAt
<1>5. ASSUME NEW i \in 0 .. NumUnread' - 1, NEW j \in i .. NumUnread' - 1
      PROVE  (Unread(i).pkt.id <= Unread(j).pkt.id)'
  <2>1. /\ Unread(i)' = Unread(n + i) /\ Unread(j)' = Unread(n + j)
        /\ n + i \in 0 .. NumUnread - 1 /\ n + j \in n + i .. NumUnread - 1
    BY <1>1, <1>2, <1>3
  <2> QED BY <2>1 DEF QueueIntact
<1>6. ASSUME NEW i \in 0 .. NumUnread' - 1
      PROVE  /\ i = 0 => (Unread(i).pkt.id = consumed + 1)'
             /\ i > 0 /\ Unread(i)'.off = 0
                  => Unread(i)'.pkt.id = Unread(i - 1)'.pkt.id + 1
             /\ i = NumUnread' - 1 => (Unread(i).pkt.id = sent)'
  <2>1. Unread(i)' = Unread(n + i) /\ n + i \in 0 .. NumUnread - 1
    BY <1>3
  <2>2. ASSUME i = 0 PROVE (Unread(i).pkt.id = consumed + 1)'
    BY <1>1, <1>2, <2>1, <2>2
  <2>3. ASSUME i > 0, Unread(i)'.off = 0
        PROVE  Unread(i)'.pkt.id = Unread(i - 1)'.pkt.id + 1
    <3>1. Unread(i - 1)' = Unread(n + (i - 1)) /\ n + (i - 1) = (n + i) - 1
      BY <1>1, <1>2, <1>3, <2>3
    <3>2. n + i > 0 /\ Unread(n + i).off = 0
      BY <1>1, <2>1, <2>3
    <3>3. Unread(n + i).pkt.id = Unread((n + i) - 1).pkt.id + 1
      BY <2>1, <3>2 DEF QueueIntact
    <3> QED BY <2>1, <3>1, <3>3
  <2>4. ASSUME i = NumUnread' - 1 PROVE (Unread(i).pkt.id = sent)'
    <3>1. n + i = NumUnread - 1
      BY <1>1, <1>2, <2>4
    <3> QED BY <2>1, <3>1 DEF QueueIntact
  <2> QED BY <2>2, <2>3, <2>4
<1> QED BY <1>2, <1>3, <1>4, <1>5, <1>6 DEF QueueIntact

(* Publishing the packet that was copied into free words. *)
LEMMA PublishIntact ==
    ASSUME TypeOK, QueueIntact, WriterOK, EmptyOK, WritePublish
    PROVE  /\ QueueIntact'
           /\ NumUnread' = NumUnread + wpkt.size
           /\ \A i \in 0 .. QWords - 1 : Unread(i)' = Unread(i)
           /\ \A i \in NumUnread .. NumUnread' - 1 : Unread(i).pkt = wpkt
<1> DEFINE n == wpkt.size
<1>1. /\ wpkt \in Packet /\ n \in Nat /\ n > 0 /\ wpkt.id = sent + 1
      /\ NumUnread + n < QWords /\ wnew = Advance(write_idx, n)
      /\ \A k \in 0 .. n - 1 : mem[Advance(write_idx, k)] = WordOf(wpkt, k)
      /\ write_idx' = wnew /\ sent' = sent + 1
      /\ UNCHANGED <<mem, read_idx, consumed>>
      /\ sent \in Nat /\ consumed \in Nat
  BY DEF WriterOK, WritePublish, TypeOK, Packet, readerVars
<1>2. /\ NumUnread \in 0 .. QWords - 1
      /\ NumUnread = 0 <=> read_idx = write_idx
      /\ \A i \in 0 .. NumUnread - 1 :
           /\ Unread(i).off \in Nat
           /\ Unread(i).pkt.size \in Nat /\ Unread(i).pkt.id \in Nat
  BY UnreadType, QWordsAssumption
<1>3. NumUnread' = NumUnread + n
  BY <1>1, UsedPublish DEF NumUnread, TypeOK
<1>4. \A i : Unread(i)' = Unread(i)
  BY <1>1 DEF Unread
<1>5. ASSUME NEW i \in NumUnread .. NumUnread' - 1
      PROVE  Unread(i) = WordOf(wpkt, i - NumUnread)
  <2>1. Advance(read_idx, NumUnread) = write_idx
    BY UsedFacts DEF NumUnread, TypeOK
  <2>2. /\ NumUnread \in Nat /\ i - NumUnread \in 0 .. n - 1
        /\ i - NumUnread \in Nat /\ NumUnread + (i - NumUnread) = i
        /\ i <= QWords
    BY <1>1, <1>2, <1>3, QWordsAssumption
  <2>3. Advance(Advance(read_idx, NumUnread), i - NumUnread) = Advance(read_idx, i)
    BY <2>2, AdvanceAdd DEF TypeOK
  <2> QED BY <1>1, <2>1, <2>2, <2>3 DEF Unread
<1>6. ASSUME NEW i \in NumUnread .. NumUnread' - 1
      PROVE  Unread(i).pkt = wpkt /\ Unread(i).off = i - NumUnread
  BY <1>5 DEF WordOf
<1>7. ASSUME NEW i \in 0 .. NumUnread' - 1
      PROVE  WholePacketAt(i)'
  <2>1. CASE i < NumUnread
    <3>1. WholePacketAt(i) /\ Unread(i).pkt.size \in Nat
      BY <1>2, <2>1 DEF QueueIntact
    <3>2. PICK p, off : p = Unread(i).pkt /\ off = Unread(i).off
      OBVIOUS
    <3>3. /\ i - off >= 0 /\ off < p.size /\ i - off + p.size <= NumUnread
          /\ \A k \in 0 .. p.size - 1 : Unread(i - off + k) = WordOf(p, k)
          /\ p.size \in Nat /\ off \in Nat
      BY <1>2, <2>1, <3>1, <3>2 DEF WholePacketAt
    <3>4. i - off + p.size <= NumUnread'
      BY <1>1, <1>2, <1>3, <3>3
    <3>5. \A k \in 0 .. p.size - 1 : Unread(i - off + k)' = WordOf(p, k)
      BY <1>4, <3>3
    <3>6. Unread(i)'.pkt = p /\ Unread(i)'.off = off
      BY <1>4, <3>2
    <3> QED BY <3>3, <3>4, <3>5, <3>6 DEF WholePacketAt
  <2>2. CASE ~(i < NumUnread)
    <3>1. i \in NumUnread .. NumUnread' - 1
      BY <1>1, <1>2, <1>3, <2>2
    <3>2. PICK s, p : s = NumUnread /\ p = wpkt
      OBVIOUS
    <3>3. Unread(i)'.pkt = p /\ Unread(i)'.off = i - s
      BY <1>4, <1>6, <3>1, <3>2
    <3>4. /\ s \in Nat /\ i - (i - s) = s /\ i - s < p.size
          /\ p.size \in Nat /\ NumUnread' = s + p.size
      BY <1>1, <1>2, <1>3, <3>1, <3>2
    <3>5. \A k \in 0 .. p.size - 1 : Unread(s + k)' = WordOf(p, k)
      <4> SUFFICES ASSUME NEW k \in 0 .. p.size - 1
                   PROVE  Unread(s + k)' = WordOf(p, k)
        OBVIOUS
      <4>1. s + k \in NumUnread .. NumUnread' - 1 /\ (s + k) - s = k
        BY <3>2, <3>4
      <4>2. Unread(s + k) = WordOf(p, (s + k) - s)
        BY <1>5, <3>2, <4>1
      <4> QED BY <1>4, <4>1, <4>2
    <3> QED BY <3>3, <3>4, <3>5 DEF WholePacketAt
  <2> QED BY <2>1, <2>2
<1>8. \A i \in 0 .. NumUnread - 1 : Unread(i).pkt.id <= sent
  <2> SUFFICES ASSUME NEW i \in 0 .. NumUnread - 1
               PROVE  Unread(i).pkt.id <= sent
    OBVIOUS
  <2>1. NumUnread - 1 \in i .. NumUnread - 1 /\ NumUnread - 1 \in 0 .. NumUnread - 1
    BY <1>2
  <2> QED BY <2>1 DEF QueueIntact
<1>9. ASSUME NEW i \in 0 .. NumUnread' - 1, NEW j \in i .. NumUnread' - 1
      PROVE  (Unread(i).pkt.id <= Unread(j).pkt.id)'
  <2>1. CASE j < NumUnread
    <3>1. i \in 0 .. NumUnread - 1 /\ j \in i .. NumUnread - 1
      BY <1>1, <1>2, <1>3, <2>1
    <3> QED BY <1>4, <3>1 DEF QueueIntact
  <2>2. CASE ~(j < NumUnread)
    <3>1. Unread(j).pkt.id = sent + 1
      BY <1>1, <1>2, <1>3, <1>6, <2>2
    <3>2. Unread(i).pkt.id <= sent \/ Unread(i).pkt.id = sent + 1
      BY <1>1, <1>2, <1>3, <1>6, <1>8
    <3>3. i < NumUnread => Unread(i).pkt.id \in Nat
      BY <1>1, <1>2, <1>3
    <3>4. CASE i < NumUnread
      BY <1>1, <1>2, <1>3, <1>4, <1>8, <3>1, <3>3, <3>4
    <3>5. CASE ~(i < NumUnread)
      BY <1>1, <1>2, <1>3, <1>4, <1>6, <3>1, <3>5
    <3> QED BY <3>4, <3>5
  <2> QED BY <2>1, <2>2
<1>10. ASSUME NEW i \in 0 .. NumUnread' - 1
      PROVE  /\ i = 0 => (Unread(i).pkt.id = consumed + 1)'
             /\ i > 0 /\ Unread(i)'.off = 0
                  => Unread(i)'.pkt.id = Unread(i - 1)'.pkt.id + 1
             /\ i = NumUnread' - 1 => (Unread(i).pkt.id = sent)'
  <2>1. CASE i < NumUnread
    <3>1. i \in 0 .. NumUnread - 1 /\ i # NumUnread' - 1
      BY <1>1, <1>2, <1>3, <2>1
    <3> QED BY <1>1, <1>4, <3>1 DEF QueueIntact
  <2>2. CASE ~(i < NumUnread)
    <3>1. Unread(i)'.pkt = wpkt /\ Unread(i)'.off = i - NumUnread
      BY <1>1, <1>2, <1>3, <1>4, <1>6, <2>2
    <3>2. i = 0 => consumed = sent
      BY <1>1, <1>2, <1>3, <2>2 DEF EmptyOK
    <3>3. ASSUME i > 0, Unread(i)'.off = 0
          PROVE  Unread(i - 1).pkt.id = sent
      <4>1. i = NumUnread /\ NumUnread - 1 \in 0 .. NumUnread - 1
        BY <1>1, <1>2, <1>3, <3>1, <3>3
      <4> QED BY <4>1 DEF QueueIntact
    <3> QED BY <1>1, <1>4, <3>1, <3>2, <3>3
  <2> QED BY <2>1, <2>2
<1>11. QueueIntact'
  BY <1>7, <1>9, <1>10 DEF QueueIntact
<1> QED BY <1>1, <1>3, <1>4, <1>6, <1>11

(* Copying a packet that fits into the ring touches no unread word. *)
LEMMA CopyKeepsUnread ==
    ASSUME TypeOK, NEW n \in Sizes, NEW kind \in Kinds, WriteCopy(n, kind)
    PROVE  /\ wpkt' \in Packet /\ wpkt'.id = sent + 1 /\ wpkt'.size = n
           /\ wpkt'.kind = kind
           /\ n \in Nat \ {0} /\ NumUnread + n < QWords
           /\ mem' \in [Positions -> Word]
           /\ NumUnread' = NumUnread
           /\ \A i \in 0 .. NumUnread - 1 : Unread(i)' = Unread(i)
           /\ \A k \in 0 .. n - 1 :
                 mem'[Advance(write_idx, k)] = WordOf(wpkt', k)
<1> DEFINE p == [id |-> sent + 1, size |-> n, kind |-> kind]
<1>1. n \in Nat \ {0} /\ kind \in {"resp", "skip", "syserr"}
  BY SizesAssumption, KindsAssumption
<1>2. p \in Packet /\ wpkt' = p /\ mem' = CopyIn(mem, write_idx, p)
  BY <1>1 DEF WriteCopy, Packet, TypeOK
<1>3. /\ EmptySpace(read_idx, write_idx) > n
      /\ read_idx' = read_idx /\ write_idx' = write_idx
  BY DEF WriteCopy
<1>4. NumUnread \in 0 .. QWords - 1 /\ NumUnread + n < QWords /\ n < QWords
  <2>1. /\ NumUnread \in 0 .. QWords - 1
        /\ EmptySpace(read_idx, write_idx) = QWords - NumUnread
    BY UsedFacts DEF NumUnread, TypeOK
  <2> QED BY <1>1, <1>3, <2>1, QWordsAssumption
<1>5. /\ mem' \in [Positions -> Word]
      /\ \A k \in 0 .. n - 1 : mem'[Advance(write_idx, k)] = WordOf(p, k)
      /\ \A k \in n .. QWords - 1 :
            mem'[Advance(write_idx, k)] = mem[Advance(write_idx, k)]
  <2>1. p.size = n
    OBVIOUS
  <2>2. mem \in [Positions -> Word] /\ write_idx \in Positions
    BY DEF TypeOK
  <2> HIDE DEF p
  <2> QED BY <1>2, <1>4, <2>1, <2>2, CopyInFacts
<1>6. NumUnread' = NumUnread
  BY <1>3 DEF NumUnread
<1>7. ASSUME NEW i \in 0 .. NumUnread - 1
      PROVE  Unread(i)' = Unread(i)
  <2>1. /\ QWords - NumUnread + i \in 0 .. QWords - 1
        /\ Advance(write_idx, QWords - NumUnread + i) = Advance(read_idx, i)
    BY UnreadBeforeFree DEF TypeOK, NumUnread
  <2>2. QWords - NumUnread + i \in n .. QWords - 1
    BY <1>1, <1>4, <2>1, QWordsAssumption
  <2>3. mem'[Advance(read_idx, i)] = mem[Advance(read_idx, i)]
    BY <1>5, <2>1, <2>2
  <2> QED BY <1>3, <2>3 DEF Unread
<1> QED BY <1>1, <1>2, <1>4, <1>5, <1>6, <1>7

(* Nothing an action does is visible in the queue if it leaves the unread  *)
(* words, the indices and the counts alone.                                *)
LEMMA SameQueue ==
    ASSUME TypeOK, QueueIntact, UNCHANGED <<read_idx, write_idx, consumed, sent>>,
           \A i \in 0 .. NumUnread - 1 : Unread(i)' = Unread(i)
    PROVE  /\ QueueIntact'
           /\ NumUnread' = NumUnread
           /\ EmptyOK => EmptyOK'
           /\ SampleOK /\ UNCHANGED <<l_r, l_w, l_sent>> => SampleOK'
<1>1. /\ NumUnread \in 0 .. QWords - 1
      /\ \A i \in 0 .. NumUnread - 1 :
           Unread(i).off \in Nat /\ Unread(i).pkt.size \in Nat
  BY UnreadType, QWordsAssumption
<1>2. NumUnread' = NumUnread
  BY DEF NumUnread
<1>3. ASSUME NEW i \in 0 .. NumUnread - 1 PROVE WholePacketAt(i)'
  <2>1. PICK p, off : p = Unread(i).pkt /\ off = Unread(i).off
    OBVIOUS
  <2>2. /\ i - off >= 0 /\ off < p.size /\ i - off + p.size <= NumUnread
        /\ \A k \in 0 .. p.size - 1 : Unread(i - off + k) = WordOf(p, k)
    BY <2>1 DEF QueueIntact, WholePacketAt
  <2>3. \A k \in 0 .. p.size - 1 : i - off + k \in 0 .. NumUnread - 1
    BY <1>1, <2>1, <2>2
  <2>4. \A k \in 0 .. p.size - 1 : Unread(i - off + k)' = WordOf(p, k)
    BY <2>2, <2>3
  <2>5. Unread(i)'.pkt = p /\ Unread(i)'.off = off
    BY <2>1
  <2> QED BY <1>2, <2>2, <2>4, <2>5 DEF WholePacketAt
<1>4. ASSUME NEW i \in 0 .. NumUnread - 1
      PROVE  /\ \A j \in i .. NumUnread - 1 :
                   Unread(i)'.pkt.id <= Unread(j)'.pkt.id
             /\ i = 0 => (Unread(i).pkt.id = consumed + 1)'
             /\ i > 0 /\ Unread(i)'.off = 0
                  => Unread(i)'.pkt.id = Unread(i - 1)'.pkt.id + 1
             /\ i = NumUnread - 1 => (Unread(i).pkt.id = sent)'
  <2>1. i > 0 => i - 1 \in 0 .. NumUnread - 1
    BY <1>1
  <2>2. \A j \in i .. NumUnread - 1 : j \in 0 .. NumUnread - 1
    BY <1>1
  <2> QED BY <2>1, <2>2 DEF QueueIntact
<1>5. QueueIntact'
  BY <1>2, <1>3, <1>4 DEF QueueIntact
<1>6. EmptyOK => EmptyOK'
  BY DEF EmptyOK
<1>7. ASSUME SampleOK, UNCHANGED <<l_r, l_w, l_sent>> PROVE SampleOK'
  BY <1>2, <1>7 DEF SampleOK
<1> QED BY <1>2, <1>5, <1>6, <1>7


-----------------------------------------------------------------------------
(* The inductive invariant holds initially and is preserved. *)

(* The queue as __hfi_queue_init leaves it satisfies the inductive         *)
(* invariant.                                                              *)
LEMMA InitIInv == Init => IInv
<1> SUFFICES ASSUME Init PROVE IInv
  OBVIOUS
<1>1. TypeOK
  <2>1. ZeroPacket \in Packet /\ ZeroWord \in Word
    BY DEF ZeroPacket, ZeroWord, Packet, Word
  <2>2. 0 \in Positions
    BY QWordsAssumption DEF Positions
  <2> QED BY <2>1, <2>2 DEF Init, TypeOK
<1>2. NumUnread = 0
  BY DEF Init, NumUnread, Used
<1>3. QueueIntact
  BY <1>2 DEF QueueIntact
<1> QED BY <1>1, <1>3, MaxPacketsAssumption
        DEF Init, IInv, LocalsOK, WriterOK, WakeOK, EmptyOK, PassOK

(* Steps of the writer. *)

(* __write_queue finding no room preserves the inductive invariant. *)
LEMMA WriteFullStep ==
    ASSUME IInv, NEW n \in Sizes, WriteFull(n)
    PROVE  IInv'
<1>1. UNCHANGED <<memVars, bellVars, wpkt, wnew, sent, readerVars>> /\ wpc' = "full"
      /\ wpc = "idle"
  BY DEF WriteFull
<1>2. TypeOK'
  BY <1>1 DEF IInv, TypeOK, memVars, bellVars, readerVars, localVars, passVars
<1>3. QueueIntact' /\ EmptyOK' /\ (SampleOK => SampleOK')
  BY <1>1, SameQueue DEF IInv, memVars, readerVars, localVars, Unread
<1>4. LocalsOK' /\ WriterOK' /\ WakeOK' /\ PassOK'
  BY <1>1, <1>3 DEF IInv, LocalsOK, WriterOK, WakeOK, PassOK, WakeupOnItsWay,
                    memVars, bellVars, readerVars, localVars, passVars, Unread
<1> QED BY <1>2, <1>3, <1>4 DEF IInv

(* Setting qhdr_tx_req preserves the inductive invariant. *)
LEMMA WriteRejectStep == IInv /\ WriteReject => IInv'
<1> SUFFICES ASSUME IInv, WriteReject PROVE IInv'
  OBVIOUS
<1>1. /\ UNCHANGED <<mem, read_idx, write_idx, rx_req, bellVars, wpkt, wnew,
                     sent, readerVars>>
      /\ tx_req' = 1 /\ wpc' = "idle" /\ wpc = "full"
  BY DEF WriteReject
<1>2. TypeOK'
  BY <1>1 DEF IInv, TypeOK, bellVars, readerVars, localVars, passVars
<1>3. QueueIntact' /\ EmptyOK' /\ (SampleOK => SampleOK')
  BY <1>1, SameQueue DEF IInv, readerVars, localVars, Unread
<1>4. LocalsOK' /\ WriterOK' /\ WakeOK' /\ PassOK'
  BY <1>1, <1>3 DEF IInv, LocalsOK, WriterOK, WakeOK, PassOK, WakeupOnItsWay,
                    bellVars, readerVars, localVars, passVars, Unread
<1> QED BY <1>2, <1>3, <1>4 DEF IInv

(* The memcpys of __write_queue preserve the inductive invariant: they     *)
(* touch free words only, and leave the packet whole behind write_idx.     *)
LEMMA WriteCopyStep ==
    ASSUME IInv, NEW n \in Sizes, NEW kind \in Kinds, WriteCopy(n, kind)
    PROVE  IInv'
<1>1. /\ UNCHANGED <<read_idx, write_idx, rx_req, bellVars, sent, readerVars>>
      /\ tx_req' = 0 /\ wpc' = "publish" /\ wpc = "idle"
      /\ wnew' = Advance(write_idx, n)
  BY DEF WriteCopy
<1>2. /\ wpkt' \in Packet /\ wpkt'.id = sent + 1 /\ wpkt'.size = n
      /\ wpkt'.kind = kind
      /\ n \in Nat \ {0} /\ NumUnread + n < QWords
      /\ mem' \in [Positions -> Word]
      /\ NumUnread' = NumUnread
      /\ \A i \in 0 .. NumUnread - 1 : Unread(i)' = Unread(i)
      /\ \A k \in 0 .. n - 1 :
            mem'[Advance(write_idx, k)] = WordOf(wpkt', k)
  BY CopyKeepsUnread DEF IInv
<1>3. wnew' \in Positions
  <2>1. NumUnread \in Nat
    BY UnreadType, QWordsAssumption DEF IInv
  <2>2. n \in 0 .. QWords
    BY <1>2, <2>1, QWordsAssumption
  <2> QED BY <1>1, <2>2, AdvanceType DEF IInv, TypeOK
<1>4. TypeOK'
  BY <1>1, <1>2, <1>3 DEF IInv, TypeOK, bellVars, readerVars, localVars, passVars
<1>5. QueueIntact' /\ EmptyOK' /\ (SampleOK => SampleOK')
  BY <1>1, <1>2, SameQueue DEF IInv, readerVars, localVars
<1>6. read_idx # write_idx => Unread(0)' = Unread(0)
  <2>1. read_idx # write_idx => 0 \in 0 .. NumUnread - 1
    BY UnreadType, QWordsAssumption DEF IInv
  <2> QED BY <1>2, <2>1
<1>7. LocalsOK'
  BY <1>1, <1>5, <1>6 DEF IInv, LocalsOK, readerVars, localVars, passVars
<1>8. WriterOK'
  <2>1. \A k \in 0 .. n - 1 : (mem[Advance(write_idx, k)] = WordOf(wpkt, k))'
    BY <1>1, <1>2
  <2> QED BY <1>1, <1>2, <2>1 DEF WriterOK
<1>9. WakeOK' /\ PassOK'
  BY <1>1 DEF IInv, WakeOK, PassOK, WakeupOnItsWay, bellVars, readerVars, passVars
<1> QED BY <1>4, <1>5, <1>7, <1>8, <1>9 DEF IInv

(* Storing qhdr_write_idx preserves the inductive invariant: the packet    *)
(* that was copied becomes the last unread one.                            *)
LEMMA WritePublishStep == IInv /\ WritePublish => IInv'
<1> SUFFICES ASSUME IInv, WritePublish PROVE IInv'
  OBVIOUS
<1>1. /\ UNCHANGED <<mem, read_idx, rx_req, tx_req, bellVars, wpkt, wnew, readerVars>>
      /\ write_idx' = wnew /\ sent' = sent + 1
      /\ wpc' = "rxreq" /\ wpc = "publish"
  BY DEF WritePublish
<1>2. /\ QueueIntact'
      /\ NumUnread' = NumUnread + wpkt.size
      /\ \A i \in 0 .. QWords - 1 : Unread(i)' = Unread(i)
      /\ \A i \in NumUnread .. NumUnread' - 1 : Unread(i).pkt.id = sent + 1
  BY <1>1, PublishIntact DEF IInv, WriterOK
<1>3. TypeOK'
  BY <1>1 DEF IInv, TypeOK, bellVars, readerVars, localVars, passVars
<1>4. /\ wpkt.size \in Nat /\ wpkt.size > 0 /\ NumUnread \in Nat
      /\ NumUnread + wpkt.size < QWords /\ NumUnread' \in 0 .. QWords - 1
      /\ sent \in Nat
  <2>1. NumUnread \in Nat
    BY UnreadType, QWordsAssumption DEF IInv
  <2> QED BY <1>1, <1>2, <2>1, QWordsAssumption
          DEF IInv, TypeOK, WriterOK, Packet
<1>5. read_idx' # write_idx'
  <2>1. read_idx' \in Positions /\ write_idx' \in Positions
    BY <1>3 DEF TypeOK
  <2>2. Used(read_idx', write_idx') = 0 <=> read_idx' = write_idx'
    BY <2>1, UsedFacts
  <2>3. NumUnread' = Used(read_idx', write_idx')
    BY DEF NumUnread
  <2> QED BY <1>2, <1>4, <2>2, <2>3
<1>6. SampleOK /\ rpc \in {"fetch", "compare", "store"} => SampleOK'
  <2> SUFFICES ASSUME SampleOK PROVE SampleOK'
    OBVIOUS
  <2>0. UNCHANGED <<l_r, l_w, l_sent, consumed>>
    BY <1>1 DEF readerVars, localVars
  <2> DEFINE d == Used(read_idx, l_w)
  <2>1. d' = d /\ d \in 0 .. QWords - 1 /\ d <= NumUnread /\ l_sent \in Nat
        /\ l_sent <= sent
    BY <1>1, <2>0, UsedFacts DEF SampleOK, IInv, TypeOK
  <2>2. ASSUME NEW i \in 0 .. NumUnread' - 1
        PROVE  (i < d' <=> Unread(i)'.pkt.id <= l_sent)
    <3>1. Unread(i)' = Unread(i)
      BY <1>2, <1>4, QWordsAssumption
    <3>2. CASE i < NumUnread
      BY <1>4, <2>1, <3>1, <3>2 DEF SampleOK
    <3>3. CASE ~(i < NumUnread)
      <4>1. Unread(i).pkt.id = sent + 1
        BY <1>2, <1>4, <3>3
      <4> QED BY <1>4, <2>1, <3>1, <3>3, <4>1
    <3> QED BY <3>2, <3>3
  <2> HIDE DEF d
  <2>3. d <= NumUnread' /\ l_sent <= sent'
    BY <1>1, <1>2, <1>4, <2>1
  <2>4. d = 0 => l_sent = consumed
    BY DEF SampleOK, d
  <2> QED BY <1>1, <2>0, <2>1, <2>2, <2>3, <2>4 DEF SampleOK, d
<1>7. LocalsOK'
  <2>1. Unread(0)' = Unread(0)
    BY <1>2, QWordsAssumption
  <2> QED BY <1>1, <1>5, <1>6, <2>1
          DEF IInv, LocalsOK, readerVars, localVars, passVars
<1>8. WriterOK' /\ EmptyOK'
  BY <1>1, <1>5 DEF WriterOK, EmptyOK
<1>9. WakeOK' /\ PassOK'
  BY <1>1 DEF IInv, WakeOK, PassOK, WakeupOnItsWay, bellVars, readerVars, passVars
<1> QED BY <1>2, <1>3, <1>7, <1>8, <1>9 DEF IInv

(* Sampling qhdr_rx_req and raising the interrupt preserve the inductive   *)
(* invariant.                                                              *)
LEMMA WriteRingStep == IInv /\ (WriteLoadRxReq \/ WriteRing) => IInv'
<1> SUFFICES ASSUME IInv, WriteLoadRxReq \/ WriteRing PROVE IInv'
  OBVIOUS
<1>1. /\ UNCHANGED <<memVars, wpkt, wnew, sent, readerVars>>
      /\ wpc' \in {"ring", "idle"}
      /\ bell' \in {bell, 1} /\ txbell' = txbell
      /\ WakeupOnItsWay /\ rx_req = 1 => WakeupOnItsWay'
  BY DEF WriteLoadRxReq, WriteRing, bellVars, memVars, WakeupOnItsWay
<1>2. TypeOK'
  BY <1>1 DEF IInv, TypeOK, memVars, readerVars, localVars, passVars
<1>3. QueueIntact' /\ EmptyOK' /\ (SampleOK => SampleOK')
  BY <1>1, SameQueue DEF IInv, memVars, readerVars, localVars, Unread
<1>4. LocalsOK' /\ WriterOK' /\ PassOK'
  BY <1>1, <1>3 DEF IInv, LocalsOK, WriterOK, PassOK,
                    memVars, readerVars, localVars, passVars, Unread
<1>5. WakeOK'
  BY <1>1 DEF IInv, WakeOK, memVars, readerVars, passVars
<1> QED BY <1>2, <1>3, <1>4, <1>5 DEF IInv

(* Steps of the reader. *)

(* Clearing the interrupt before the queue is looked at preserves the      *)
(* inductive invariant.                                                    *)
LEMMA ReadStartStep == IInv /\ ReadStart => IInv'
<1> SUFFICES ASSUME IInv, ReadStart PROVE IInv'
  OBVIOUS
<1>1. /\ UNCHANGED <<memVars, txbell, writerVars, localVars, consumed>>
      /\ bell' = 0 /\ packets' = <<>> /\ cut' = "none" /\ rpc' = "load"
  BY DEF ReadStart
<1>2. TypeOK'
  BY <1>1 DEF IInv, TypeOK, memVars, writerVars, localVars
<1>3. QueueIntact' /\ EmptyOK'
  BY <1>1, SameQueue DEF IInv, memVars, writerVars, Unread
<1>4. LocalsOK' /\ WriterOK' /\ WakeOK' /\ PassOK'
  BY <1>1, MaxPacketsAssumption
     DEF IInv, LocalsOK, WriterOK, WakeOK, PassOK, memVars, writerVars, NumUnread
<1> QED BY <1>2, <1>3, <1>4 DEF IInv

(* Loading both indices in __read_queue preserves the inductive invariant. *)
LEMMA ReadLoadStep == IInv /\ ReadLoad => IInv'
<1> SUFFICES ASSUME IInv, ReadLoad PROVE IInv'
  OBVIOUS
<1>1. /\ UNCHANGED <<memVars, bellVars, writerVars, new_r, want, pkt, drop,
                     consumed, passVars>>
      /\ rpc = "load"
      /\ l_r' = read_idx /\ l_w' = write_idx /\ l_sent' = sent
      /\ rpc' = IF read_idx = write_idx THEN "arm" ELSE "fetch"
  BY DEF ReadLoad
<1>2. TypeOK'
  BY <1>1 DEF IInv, TypeOK, memVars, bellVars, writerVars, passVars
<1>3. QueueIntact' /\ EmptyOK' /\ NumUnread' = NumUnread
  BY <1>1, SameQueue DEF IInv, memVars, writerVars, Unread
<1>4. \A i \in 0 .. NumUnread - 1 : Unread(i).pkt.id <= sent
  <2> SUFFICES ASSUME NEW i \in 0 .. NumUnread - 1
               PROVE  Unread(i).pkt.id <= sent
    OBVIOUS
  <2>1. NumUnread - 1 \in i .. NumUnread - 1 /\ NumUnread - 1 \in 0 .. NumUnread - 1
    BY UnreadType, QWordsAssumption DEF IInv
  <2> QED BY <2>1 DEF IInv, QueueIntact
<1>5. read_idx # write_idx => SampleOK'
  <2>1. Used(read_idx', l_w') = NumUnread /\ NumUnread \in Nat
    BY <1>1, UnreadType, QWordsAssumption DEF memVars, NumUnread, IInv
  <2>2. NumUnread = 0 <=> read_idx = write_idx
    BY UnreadType DEF IInv
  <2>3. \A i : Unread(i)' = Unread(i)
    BY <1>1 DEF Unread, memVars
  <2> QED BY <1>1, <1>3, <1>4, <2>1, <2>2, <2>3
          DEF SampleOK, memVars, writerVars, IInv, TypeOK
<1>6. LocalsOK'
  BY <1>1, <1>5 DEF IInv, LocalsOK, EmptyOK, memVars
<1>7. WriterOK' /\ WakeOK' /\ PassOK'
  BY <1>1 DEF IInv, WriterOK, WakeOK, PassOK, memVars, writerVars, passVars,
              NumUnread
<1> QED BY <1>2, <1>3, <1>6, <1>7 DEF IInv

(* Setting qhdr_rx_req on an empty queue preserves the inductive           *)
(* invariant.                                                              *)
LEMMA ReadArmStep == IInv /\ ReadArm => IInv'
<1> SUFFICES ASSUME IInv, ReadArm PROVE IInv'
  OBVIOUS
<1>1. /\ UNCHANGED <<mem, read_idx, write_idx, tx_req, bellVars, writerVars,
                     localVars, consumed, passVars>>
      /\ rpc = "arm" /\ rx_req' = 1 /\ rpc' = "recheck"
  BY DEF ReadArm
<1>2. TypeOK'
  BY <1>1 DEF IInv, TypeOK, bellVars, writerVars, localVars, passVars
<1>3. QueueIntact' /\ EmptyOK'
  BY <1>1, SameQueue DEF IInv, writerVars, Unread
<1>4. LocalsOK' /\ WriterOK' /\ WakeOK' /\ PassOK'
  BY <1>1 DEF IInv, LocalsOK, WriterOK, WakeOK, PassOK, writerVars, localVars,
              passVars, NumUnread
<1> QED BY <1>2, <1>3, <1>4 DEF IInv

(* Looking at qhdr_write_idx again preserves the inductive invariant: the  *)
(* handler sleeps only if a wakeup is sure to come.                        *)
LEMMA ReadRecheckStep == IInv /\ ReadRecheck => IInv'
<1> SUFFICES ASSUME IInv, ReadRecheck PROVE IInv'
  OBVIOUS
<1>1. /\ UNCHANGED <<mem, read_idx, write_idx, tx_req, bellVars, writerVars,
                     localVars, consumed, passVars>>
      /\ rpc = "recheck"
      /\ l_r = read_idx /\ l_w = read_idx /\ l_sent = consumed /\ rx_req = 1
      /\ IF l_w # write_idx
         THEN rx_req' = 0 /\ rpc' = "fetch"
         ELSE rx_req' = rx_req /\ rpc' = "callback"
  BY DEF ReadRecheck, IInv, LocalsOK, WakeOK
<1>2. TypeOK'
  BY <1>1 DEF IInv, TypeOK, bellVars, writerVars, localVars, passVars
<1>3. QueueIntact' /\ EmptyOK' /\ NumUnread' = NumUnread
  BY <1>1, SameQueue DEF IInv, writerVars, Unread
<1>4. read_idx # write_idx => SampleOK
  <2>1. Used(read_idx, l_w) = 0
    BY <1>1, UsedFacts DEF IInv, TypeOK
  <2>2. \A i \in 0 .. NumUnread - 1 : Unread(i).pkt.id > consumed
    <3> SUFFICES ASSUME NEW i \in 0 .. NumUnread - 1
                 PROVE  Unread(i).pkt.id > consumed
      OBVIOUS
    <3>0. NumUnread \in 0 .. QWords - 1
      BY UnreadType DEF IInv
    <3>1. 0 \in 0 .. NumUnread - 1 /\ i \in 0 .. NumUnread - 1
          /\ Unread(i).pkt.id \in Nat /\ consumed \in Nat
      <4>1. i \in 0 .. QWords - 1 /\ 0 \in 0 .. NumUnread - 1
        BY <3>0, QWordsAssumption
      <4> QED BY <4>1, UnreadType DEF IInv, TypeOK
    <3>2. Unread(0).pkt.id <= Unread(i).pkt.id /\ Unread(0).pkt.id = consumed + 1
      BY <3>1 DEF IInv, QueueIntact
    <3> QED BY <3>1, <3>2
  <2>3. consumed <= sent \/ read_idx = write_idx
    <3> SUFFICES ASSUME read_idx # write_idx PROVE consumed <= sent
      OBVIOUS
    <3>1. /\ 0 \in 0 .. NumUnread - 1 /\ NumUnread - 1 \in 0 .. NumUnread - 1
          /\ consumed \in Nat /\ sent \in Nat
      BY UnreadType, QWordsAssumption DEF IInv, TypeOK
    <3>2. Unread(0).pkt.id = consumed + 1 /\ Unread(NumUnread - 1).pkt.id = sent
          /\ Unread(0).pkt.id <= Unread(NumUnread - 1).pkt.id
      BY <3>1 DEF IInv, QueueIntact
    <3> QED BY <3>1, <3>2
  <2>4. \A i \in 0 .. NumUnread - 1 :
           Unread(i).pkt.id \in Nat /\ consumed \in Nat /\ NumUnread \in Nat
    BY UnreadType, QWordsAssumption DEF IInv, TypeOK
  <2>5. NumUnread \in Nat
    BY UnreadType, QWordsAssumption DEF IInv
  <2> QED BY <1>1, <2>1, <2>2, <2>3, <2>4, <2>5 DEF SampleOK
<1>5. read_idx # write_idx => SampleOK'
  BY <1>1, <1>4, SameQueue DEF IInv, writerVars, localVars, Unread
<1>6. LocalsOK' /\ WriterOK' /\ WakeOK' /\ PassOK'
  BY <1>1, <1>5 DEF IInv, LocalsOK, WriterOK, WakeOK, PassOK, writerVars,
                    localVars, passVars, NumUnread
<1> QED BY <1>2, <1>3, <1>6 DEF IInv

(* The memcpys of __read_queue preserve the inductive invariant: they      *)
(* deliver the packet at the head of the queue.                            *)
LEMMA ReadFetchStep == IInv /\ ReadFetch => IInv'
<1> SUFFICES ASSUME IInv, ReadFetch PROVE IInv'
  OBVIOUS
<1> DEFINE p == Unread(0).pkt
<1>1. /\ UNCHANGED <<memVars, bellVars, writerVars, l_r, l_w, l_sent, want,
                     consumed, passVars>>
      /\ rpc = "fetch" /\ rpc' = "compare"
      /\ l_r = read_idx /\ read_idx # write_idx /\ SampleOK
  BY DEF ReadFetch, IInv, LocalsOK, SampleOK
<1>2. /\ mem[read_idx] = Unread(0) /\ p \in Packet
      /\ p.size \in 1 .. NumUnread /\ p.size \in Nat /\ NumUnread \in 0 .. QWords - 1
      /\ \A k \in 0 .. p.size - 1 : Unread(k) = WordOf(p, k)
  BY <1>1, HeadPacket, UnreadType DEF IInv, Packet
<1>3. IF p.size <= HugeWords
      THEN /\ pkt' = CopyOut(mem, read_idx, p.size)
           /\ new_r' = Advance(read_idx, p.size) /\ drop' = FALSE
      ELSE pkt' = <<>> /\ new_r' = l_w /\ drop' = TRUE
  BY <1>1, <1>2 DEF ReadFetch
<1>4. CopyOut(mem, read_idx, p.size) = [k \in 0 .. p.size - 1 |-> WordOf(p, k)]
  <2>1. p.size <= QWords
    BY <1>2, QWordsAssumption
  <2>2. CopyOut(mem, read_idx, p.size)
          = [k \in 0 .. p.size - 1 |-> mem[Advance(read_idx, k)]]
    BY <1>2, <2>1, CopyOutFacts DEF IInv, TypeOK
  <2> QED BY <1>2, <2>2 DEF Unread
<1>5. Advance(read_idx, p.size) \in Positions
  <2>1. p.size \in 0 .. QWords
    BY <1>2, QWordsAssumption
  <2> QED BY <2>1, AdvanceType DEF IInv, TypeOK
<1>6. TypeOK'
  BY <1>1, <1>3, <1>5 DEF IInv, TypeOK, memVars, bellVars, writerVars, passVars
<1>7. QueueIntact' /\ EmptyOK' /\ SampleOK'
  BY <1>1, SameQueue DEF IInv, memVars, writerVars, Unread
<1>8. LocalsOK'
  <2>1. Unread(0)' = Unread(0)
    BY <1>1 DEF Unread, memVars
  <2>2. CASE p.size <= HugeWords
    <3>1. pkt' = [k \in 0 .. p.size - 1 |-> WordOf(p, k)]
      BY <1>3, <1>4, <2>2
    <3>2. pkt'[0].pkt = p
      <4>1. 0 \in 0 .. p.size - 1
        BY <1>2
      <4> QED BY <3>1, <4>1 DEF WordOf
    <3>3. read_idx' # write_idx' /\ new_r' = Advance(read_idx', p.size) /\ drop' = FALSE
      BY <1>1, <1>3, <2>2 DEF memVars
    <3> QED BY <1>1, <1>7, <2>1, <2>2, <3>1, <3>2, <3>3 DEF LocalsOK
  <2>3. CASE ~(p.size <= HugeWords)
    <3>1. p.size > HugeWords
      BY <1>2, <2>3, HugeAssumption
    <3> QED BY <1>1, <1>3, <1>7, <2>1, <2>3, <3>1 DEF LocalsOK, memVars
  <2> QED BY <2>2, <2>3
<1>9. WriterOK' /\ WakeOK' /\ PassOK'
  BY <1>1 DEF IInv, WriterOK, WakeOK, PassOK, memVars, writerVars, passVars,
              NumUnread
<1> QED BY <1>6, <1>7, <1>8, <1>9 DEF IInv

(* Comparing new_read_idx with qhdr_write_idx preserves the inductive      *)
(* invariant.                                                              *)
LEMMA ReadCompareStep == IInv /\ ReadCompare => IInv'
<1> SUFFICES ASSUME IInv, ReadCompare PROVE IInv'
  OBVIOUS
<1>1. /\ UNCHANGED <<memVars, bellVars, writerVars, l_r, l_w, l_sent, new_r,
                     pkt, drop, consumed, passVars>>
      /\ rpc = "compare" /\ rpc' = "store" /\ want' \in {0, 1}
  BY DEF ReadCompare
<1>2. TypeOK'
  BY <1>1 DEF IInv, TypeOK, memVars, bellVars, writerVars, passVars
<1>3. QueueIntact' /\ EmptyOK' /\ SampleOK'
  BY <1>1, SameQueue DEF IInv, LocalsOK, memVars, writerVars, Unread
<1>4. LocalsOK' /\ WriterOK' /\ WakeOK' /\ PassOK'
  BY <1>1, <1>3 DEF IInv, LocalsOK, WriterOK, WakeOK, PassOK, memVars,
                    writerVars, passVars, NumUnread, Unread
<1> QED BY <1>2, <1>3, <1>4 DEF IInv

(* What a store of qhdr_read_idx takes out of the queue: n words, the      *)
(* packet at the head or the packets dropped with it.                      *)
LEMMA StoreConsumes ==
    ASSUME IInv, ReadStore
    PROVE  \E n \in 0 .. NumUnread, c \in Nat :
             /\ read_idx' = Advance(read_idx, n) /\ consumed' = c
             /\ n < NumUnread => Unread(n).off = 0 /\ Unread(n).pkt.id = c + 1
             /\ n = NumUnread => c = sent
<1> DEFINE p == Unread(0).pkt
           d == Used(read_idx, l_w)
<1>1. /\ UNCHANGED <<mem, write_idx, tx_req, bellVars, writerVars, localVars,
                     passVars>>
      /\ rpc = "store" /\ rpc' = "txreq"
      /\ rx_req' = want /\ read_idx' = new_r
      /\ consumed' = IF drop THEN l_sent ELSE consumed + 1
      /\ read_idx # write_idx /\ SampleOK
      /\ drop => new_r = l_w
      /\ ~drop => /\ new_r = Advance(read_idx, p.size)
                  /\ pkt[0].pkt = p
  BY DEF ReadStore, IInv, LocalsOK
<1>2. /\ p \in Packet /\ p.size \in 1 .. NumUnread /\ p.id = consumed + 1
      /\ p.size < NumUnread =>
           Unread(p.size).off = 0 /\ Unread(p.size).pkt.id = p.id + 1
      /\ p.size = NumUnread => p.id = sent
  BY <1>1, HeadPacket DEF IInv
<1>3. /\ NumUnread \in 1 .. QWords - 1
      /\ consumed \in Nat /\ sent \in Nat /\ l_sent \in Nat
      /\ drop \in BOOLEAN /\ read_idx \in Positions /\ l_w \in Positions
  BY <1>1, UnreadType, QWordsAssumption DEF IInv, TypeOK
<1> QED
  <2>1. CASE ~drop
    <3>1. p.size \in 0 .. NumUnread /\ consumed + 1 \in Nat
      BY <1>2, <1>3
    <3>2. read_idx' = Advance(read_idx, p.size) /\ consumed' = consumed + 1
      BY <1>1, <2>1
    <3> QED BY <1>2, <3>1, <3>2
  <2>2. CASE drop
    <3>1. d \in 0 .. NumUnread /\ Advance(read_idx, d) = l_w
      BY <1>1, <1>3, UsedFacts DEF SampleOK
    <3>2. read_idx' = Advance(read_idx, d) /\ consumed' = l_sent
      BY <1>1, <2>2, <3>1
    <3>3. \A i \in 0 .. NumUnread - 1 :
             /\ i < d <=> Unread(i).pkt.id <= l_sent
             /\ Unread(i).pkt.id \in Nat /\ Unread(i).off \in Nat
             /\ Unread(i).pkt.size \in Nat
      <4>1. \A i \in 0 .. NumUnread - 1 : i \in 0 .. QWords - 1
        BY <1>3, QWordsAssumption
      <4>2. \A i \in 0 .. NumUnread - 1 : i < d <=> Unread(i).pkt.id <= l_sent
        BY <1>1 DEF SampleOK
      <4> QED BY <4>1, <4>2, UnreadType DEF IInv
    <3>4. ASSUME d < NumUnread
          PROVE  Unread(d).off = 0 /\ Unread(d).pkt.id = l_sent + 1
      <4> DEFINE q == Unread(d).pkt
                 start == d - Unread(d).off
      <4>1. d \in 0 .. NumUnread - 1
        BY <1>3, <3>1, <3>4
      <4>2. q.id \in Nat /\ q.id > l_sent /\ Unread(d).off \in Nat
            /\ q.size \in Nat
        BY <1>3, <3>3, <4>1
      <4>3. /\ start >= 0 /\ Unread(d).off < q.size
            /\ \A k \in 0 .. q.size - 1 : Unread(start + k) = WordOf(q, k)
        BY <4>1 DEF IInv, QueueIntact, WholePacketAt
      <4>4. Unread(start) = WordOf(q, 0)
        <5>1. 0 \in 0 .. q.size - 1 /\ start + 0 = start
          BY <4>1, <4>2, <4>3
        <5> QED BY <4>3, <5>1
      <4>5. Unread(d).off = 0
        <5> SUFFICES ASSUME Unread(d).off # 0 PROVE FALSE
          OBVIOUS
        <5>1. start \in 0 .. NumUnread - 1 /\ start < d
          BY <1>3, <4>1, <4>2, <4>3
        <5>2. Unread(start).pkt.id <= l_sent
          BY <3>3, <5>1
        <5>3. Unread(start).pkt = q
          BY <4>4 DEF WordOf
        <5> QED BY <1>3, <4>2, <5>2, <5>3
      <4>6. CASE d = 0
        BY <1>1, <1>2, <4>5, <4>6 DEF SampleOK
      <4>7. CASE d # 0
        <5>1. d > 0 /\ d - 1 \in 0 .. NumUnread - 1 /\ d - 1 < d
          BY <1>3, <4>1, <4>7
        <5>2. q.id = Unread(d - 1).pkt.id + 1
          BY <4>1, <4>5, <5>1 DEF IInv, QueueIntact
        <5>3. Unread(d - 1).pkt.id <= l_sent /\ Unread(d - 1).pkt.id \in Nat
          BY <3>3, <5>1
        <5> QED BY <1>3, <4>2, <4>5, <5>2, <5>3
      <4> QED BY <4>6, <4>7
    <3>5. ASSUME d = NumUnread PROVE l_sent = sent
      <4>1. NumUnread - 1 \in 0 .. NumUnread - 1 /\ NumUnread - 1 < d
        BY <1>3, <3>5
      <4>2. Unread(NumUnread - 1).pkt.id = sent
        BY <4>1 DEF IInv, QueueIntact
      <4>3. sent <= l_sent
        BY <3>3, <4>1, <4>2
      <4> QED BY <1>1, <1>3, <4>3 DEF SampleOK
    <3> HIDE DEF d
    <3> QED BY <1>3, <3>1, <3>2, <3>4, <3>5
  <2> QED BY <1>3, <2>1, <2>2

(* Storing qhdr_rx_req and qhdr_read_idx preserves the inductive           *)
(* invariant: exactly the packet at the head, or the packets dropped with  *)
(* it, leave the queue.                                                    *)
LEMMA ReadStoreStep == IInv /\ ReadStore => IInv'
<1> SUFFICES ASSUME IInv, ReadStore PROVE IInv'
  OBVIOUS
<1> DEFINE p == Unread(0).pkt
           d == Used(read_idx, l_w)
<1>1. /\ UNCHANGED <<mem, write_idx, tx_req, bellVars, writerVars, localVars,
                     passVars>>
      /\ rpc = "store" /\ rpc' = "txreq"
      /\ rx_req' = want /\ read_idx' = new_r
      /\ consumed' = IF drop THEN l_sent ELSE consumed + 1
      /\ read_idx # write_idx /\ SampleOK
      /\ drop => new_r = l_w
      /\ ~drop => /\ new_r = Advance(read_idx, p.size)
                  /\ pkt[0].pkt = p
  BY DEF ReadStore, IInv, LocalsOK
<1>2. /\ p \in Packet /\ p.size \in 1 .. NumUnread /\ p.id = consumed + 1
      /\ p.size < NumUnread =>
           Unread(p.size).off = 0 /\ Unread(p.size).pkt.id = p.id + 1
      /\ p.size = NumUnread => p.id = sent
  BY <1>1, HeadPacket DEF IInv
<1>3. /\ NumUnread \in 1 .. QWords - 1
      /\ consumed \in Nat /\ sent \in Nat /\ l_sent \in Nat
      /\ drop \in BOOLEAN /\ read_idx \in Positions /\ l_w \in Positions
  BY <1>1, UnreadType, QWordsAssumption DEF IInv, TypeOK
<1>4. TypeOK'
  BY <1>1, <1>3 DEF IInv, TypeOK, bellVars, writerVars, localVars, passVars
<1>5. PICK n \in 0 .. NumUnread, c \in Nat :
        /\ read_idx' = Advance(read_idx, n) /\ consumed' = c
        /\ n < NumUnread => Unread(n).off = 0 /\ Unread(n).pkt.id = c + 1
        /\ n = NumUnread => c = sent
  BY StoreConsumes
<1>6. QueueIntact' /\ NumUnread' = NumUnread - n
  BY <1>1, <1>5, ConsumeIntact DEF IInv, writerVars
<1>7. EmptyOK'
  <2>1. NumUnread' = 0 <=> read_idx' = write_idx'
    <3>1. read_idx' \in Positions /\ write_idx' \in Positions
      BY <1>4 DEF TypeOK
    <3> QED BY <3>1, UsedFacts DEF NumUnread
  <2>2. sent' = sent
    BY <1>1 DEF writerVars
  <2> QED BY <1>3, <1>5, <1>6, <2>1, <2>2 DEF EmptyOK
<1>8. LocalsOK'
  BY <1>1, <1>2 DEF LocalsOK, localVars
<1>9. WriterOK'
  <2>1. UNCHANGED <<wpc, wpkt, wnew, sent, write_idx, mem>>
    BY <1>1 DEF writerVars
  <2>2. wpc = "publish" => NumUnread' + wpkt.size < QWords
    BY <1>3, <1>5, <1>6, QWordsAssumption DEF IInv, WriterOK, TypeOK, Packet
  <2> QED BY <2>1, <2>2 DEF IInv, WriterOK
<1>10. WakeOK' /\ PassOK'
  BY <1>1 DEF IInv, WakeOK, PassOK, passVars
<1> QED BY <1>4, <1>6, <1>7, <1>8, <1>9, <1>10 DEF IInv

(* Ending a pass of __response_handler preserves the inductive invariant. *)
LEMMA ReadDroppedStep == IInv /\ (ReadDropped \/ ReadCallbacks) => IInv'
<1> SUFFICES ASSUME IInv, ReadDropped \/ ReadCallbacks PROVE IInv'
  OBVIOUS
<1>1. /\ UNCHANGED <<memVars, bellVars, writerVars, localVars, consumed, packets>>
      /\ rpc' \in {"callback", "idle"} /\ cut' \in {cut, "drop"}
      /\ cut' # "drop" => rpc = "callback"
      /\ rpc = "callback" => cut' = cut
  BY DEF ReadDropped, ReadCallbacks, passVars
<1>2. TypeOK'
  BY <1>1 DEF IInv, TypeOK, memVars, bellVars, writerVars, localVars
<1>3. QueueIntact' /\ EmptyOK'
  BY <1>1, SameQueue DEF IInv, memVars, writerVars, Unread
<1>4. LocalsOK' /\ WriterOK' /\ PassOK'
  BY <1>1 DEF IInv, LocalsOK, WriterOK, PassOK, memVars, writerVars, NumUnread
<1>5. WakeOK'
  BY <1>1 DEF IInv, WakeOK, WakeupOnItsWay, memVars, bellVars, writerVars
<1> QED BY <1>2, <1>3, <1>4, <1>5 DEF IInv

(* Keeping or skipping a packet in response_pkt preserves the inductive    *)
(* invariant.                                                              *)
LEMMA ReadProcessStep == IInv /\ ReadProcess => IInv'
<1> SUFFICES ASSUME IInv, ReadProcess PROVE IInv'
  OBVIOUS
<1> DEFINE kept == Append(packets, pkt[0].pkt.id)
<1>1. /\ UNCHANGED <<memVars, bell, writerVars, localVars, consumed>>
      /\ rpc = "txreq" /\ ~drop /\ txbell' \in {txbell, 1}
      /\ cut = "none" /\ Len(packets) < MaxPackets
      /\ pkt[0].pkt \in Packet
  BY DEF ReadProcess, IInv, LocalsOK, WakeOK, PassOK
<1>2. \/ UNCHANGED passVars /\ rpc' = "load"
      \/ /\ packets' = kept
         /\ cut' \in {"none", "limit", "syserr"}
         /\ cut' = "none" => Len(kept) < MaxPackets
         /\ rpc' = IF cut' = "none" THEN "load" ELSE "callback"
  <2>1. kept \in Seq(Nat) /\ Len(kept) \in Nat
    BY <1>1 DEF Packet, IInv, TypeOK
  <2> HIDE DEF kept
  <2>2. \/ UNCHANGED passVars /\ rpc' = "load"
        \/ /\ packets' = kept
           /\ cut' = CASE Len(kept) >= MaxPackets -> "limit"
                       [] Len(kept) < MaxPackets /\ pkt[0].pkt.kind = "syserr" -> "syserr"
                       [] OTHER -> cut
           /\ rpc' = IF cut' = "none" THEN "load" ELSE "callback"
    BY DEF ReadProcess, kept
  <2> QED BY <1>1, <2>1, <2>2, MaxPacketsAssumption
<1>3. packets' \in Seq(Nat) /\ cut' \in {"none", "limit", "syserr", "drop"}
      /\ rpc' \in {"load", "callback"}
  <2>1. kept \in Seq(Nat)
    BY <1>1 DEF Packet, IInv, TypeOK
  <2> HIDE DEF kept
  <2> QED BY <1>1, <1>2, <2>1 DEF passVars, IInv, TypeOK
<1>4. TypeOK'
  BY <1>1, <1>3 DEF IInv, TypeOK, memVars, writerVars, localVars
<1>5. QueueIntact' /\ EmptyOK'
  BY <1>1, SameQueue DEF IInv, memVars, writerVars, Unread
<1>6. LocalsOK' /\ WriterOK'
  BY <1>1, <1>3 DEF IInv, LocalsOK, WriterOK, memVars, writerVars, NumUnread
<1>7. WakeOK' /\ PassOK'
  <2> HIDE DEF kept
  <2> QED BY <1>1, <1>2 DEF WakeOK, PassOK, passVars
<1> QED BY <1>4, <1>5, <1>6, <1>7 DEF IInv

-----------------------------------------------------------------------------
(* The theorems. *)

(* IInv is an invariant of every HFI queue. *)
THEOREM IInvInvariant == Spec => []IInv
<1>1. IInv /\ [Next]_vars => IInv'
  <2> SUFFICES ASSUME IInv, [Next]_vars PROVE IInv'
    OBVIOUS
  <2>1. CASE Writer
    BY <2>1, WriteFullStep, WriteRejectStep, WriteCopyStep, WritePublishStep,
       WriteRingStep DEF Writer
  <2>2. CASE Reader
    BY <2>2, ReadStartStep, ReadLoadStep, ReadArmStep, ReadRecheckStep,
       ReadFetchStep, ReadCompareStep, ReadStoreStep, ReadDroppedStep,
       ReadProcessStep DEF Reader
  <2>3. CASE UNCHANGED vars
    <3>1. UNCHANGED <<memVars, bellVars, writerVars, readerVars>>
      BY <2>3 DEF vars
    <3>2. TypeOK'
      BY <3>1 DEF IInv, TypeOK, memVars, bellVars, writerVars, readerVars,
                  localVars, passVars
    <3>3. QueueIntact' /\ EmptyOK' /\ (SampleOK => SampleOK')
      BY <3>1, SameQueue DEF IInv, memVars, writerVars, readerVars, localVars, Unread
    <3>4. LocalsOK' /\ WriterOK' /\ WakeOK' /\ PassOK'
      BY <3>1, <3>3 DEF IInv, LocalsOK, WriterOK, WakeOK, PassOK, WakeupOnItsWay,
         memVars, bellVars, writerVars, readerVars, localVars, passVars, NumUnread,
         Unread
    <3> QED BY <3>2, <3>3, <3>4 DEF IInv
  <2> QED BY <2>1, <2>2, <2>3 DEF Next
<1> QED BY <1>1, InitIInv, PTL DEF Spec

(* The variables keep their types; in particular both indices stay inside  *)
(* the ring, so the pointer checks of __write_queue and __read_queue never *)
(* fail.                                                                   *)
THEOREM TypeCorrect == Spec => []TypeOK
BY IInvInvariant, PTL DEF IInv

(* Whatever the ring size, the packet sizes and the interleaving, unread   *)
(* packets are whole, in order and never overwritten.                      *)
THEOREM UnreadPacketsIntact == Spec => []QueueIntact
BY IInvInvariant, PTL DEF IInv

(* __read_queue returns exactly the next packet. *)
THEOREM ReadReturnsNextPacket == Spec => []PacketIntact
<1>1. IInv => PacketIntact
  <2> SUFFICES ASSUME IInv, rpc \in {"compare", "store"}, ~drop
               PROVE  /\ pkt = [k \in 0 .. pkt[0].pkt.size - 1 |->
                                   WordOf(pkt[0].pkt, k)]
                      /\ pkt[0].pkt.id = consumed + 1
    BY DEF PacketIntact
  <2>1. /\ read_idx # write_idx /\ pkt[0].pkt = Unread(0).pkt
        /\ pkt = [k \in 0 .. Unread(0).pkt.size - 1 |->
                      WordOf(Unread(0).pkt, k)]
    BY DEF IInv, LocalsOK
  <2>2. Unread(0).pkt.id = consumed + 1
    BY <2>1, HeadPacket DEF IInv
  <2> QED BY <2>1, <2>2
<1> QED BY <1>1, IInvInvariant, PTL

(* A handler that saw an empty queue is always woken for what comes next. *)
THEOREM WakeupNeverLost == Spec => []NoLostWakeup
<1>1. IInv => NoLostWakeup
  BY DEF IInv, WakeOK, NoLostWakeup
<1> QED BY <1>1, IInvInvariant, PTL

(* The response handler never stores past the end of response_pkt. *)
THEOREM ResponsesFit == Spec => []ResponsePktInBounds
<1>1. IInv => ResponsePktInBounds
  BY DEF IInv, PassOK, ResponsePktInBounds
<1> QED BY <1>1, IInvInvariant, PTL

-----------------------------------------------------------------------------
(* The refinement of HfiFifo. *)

(* Induction over the naturals, for a set instead of a predicate. *)
LEMMA SetInduction ==
    ASSUME NEW S, 0 \in S, \A n \in Nat : n \in S => n + 1 \in S
    PROVE  Nat \subseteq S
<1> DEFINE R == OpToRel(<, Nat)
           T == Nat \ S
<1>1. IsWellFoundedOn(R, Nat)
  BY NatLessThanWellFounded
<1> SUFFICES ASSUME T # {} PROVE FALSE
  OBVIOUS
<1>2. T \subseteq Nat
  OBVIOUS
<1>3. PICK x \in T : \A y \in T : ~(<<y, x>> \in R)
  <2> HIDE DEF R, T
  <2> QED BY <1>1, <1>2, WFMin
<1>4. \A x1, y1 \in Nat : x1 < y1 => <<x1, y1>> \in R
  BY DEF OpToRel
<1>5. x \in Nat /\ x \notin S /\ x # 0
  OBVIOUS
<1>6. x - 1 \in Nat /\ x - 1 < x /\ (x - 1) + 1 = x
  BY <1>5
<1>7. x - 1 \notin T
  <2> HIDE DEF R
  <2> QED BY <1>3, <1>4, <1>5, <1>6
<1> QED BY <1>5, <1>6, <1>7

(* The words of a sequence of packets are the last of its partial sums. *)
LEMMA WordsSum ==
    ASSUME NEW q, Len(q) \in Nat
    PROVE  \E f : /\ f[0] = 0
                  /\ \A i \in 1 .. Len(q) : f[i] = f[i - 1] + q[i].size
                  /\ Fifo!Words(q) = f[Len(q)]
<1> DEFINE Eq(f, n) == f = [i \in 0 .. n |-> IF i = 0 THEN 0 ELSE f[i - 1] + q[i].size]
           N == Len(q)
           S == {n \in Nat : \E f : Eq(f, n)}
<1>1. 0 \in S
  <2>1. Eq([i \in 0 .. 0 |-> 0], 0)
    OBVIOUS
  <2> HIDE DEF Eq
  <2> QED BY <2>1
<1>2. ASSUME NEW n \in Nat, n \in S PROVE n + 1 \in S
  <2>1. PICK f : Eq(f, n)
    BY <1>2
  <2> DEFINE g == [i \in 0 .. n + 1 |->
                     IF i = n + 1 THEN f[n] + q[n + 1].size ELSE f[i]]
  <2>2. Eq(g, n + 1)
    BY <2>1
  <2> HIDE DEF Eq, g
  <2> QED BY <2>2
<1>3. N \in S
  <2> HIDE DEF S, N
  <2> QED BY <1>1, <1>2, SetInduction DEF N
<1> DEFINE F == CHOOSE f : Eq(f, N)
<1>4. Eq(F, N)
  BY <1>3
<1>5. Fifo!Words(q) = F[N]
  BY DEF Fifo!Words
<1>6. F[0] = 0 /\ \A i \in 1 .. N : F[i] = F[i - 1] + q[i].size
  <2> HIDE DEF F, N
  <2> QED BY <1>4 DEF N
<1> HIDE DEF F
<1> QED BY <1>5, <1>6

(* Unread words of one id are of one packet. *)
LEMMA SamePacket ==
    ASSUME TypeOK, QueueIntact, NEW i \in 0 .. NumUnread - 1,
           NEW j \in i .. NumUnread - 1, Unread(i).pkt.id = Unread(j).pkt.id
    PROVE  Unread(i).pkt = Unread(j).pkt
<1>1. /\ NumUnread \in 0 .. QWords - 1
      /\ \A k \in 0 .. NumUnread - 1 :
           /\ Unread(k).off \in Nat
           /\ Unread(k).pkt.size \in Nat /\ Unread(k).pkt.id \in Nat
  BY UnreadType, QWordsAssumption
<1>2. PICK p, off : p = Unread(j).pkt /\ off = Unread(j).off
  OBVIOUS
<1> DEFINE start == j - off
<1>3. /\ j \in 0 .. NumUnread - 1 /\ off \in Nat /\ p.size \in Nat /\ p.id \in Nat
      /\ start >= 0 /\ off < p.size
      /\ \A k \in 0 .. p.size - 1 : Unread(start + k) = WordOf(p, k)
  <2>1. j \in 0 .. NumUnread - 1
    BY <1>1
  <2> QED BY <1>1, <1>2, <2>1 DEF QueueIntact, WholePacketAt
<1>4. start <= i
  <2> SUFFICES ASSUME start > i PROVE FALSE
    BY <1>1, <1>3
  <2>1. /\ start \in 0 .. NumUnread - 1 /\ start > 0 /\ start - 1 \in i .. NumUnread - 1
        /\ start + 0 = start /\ 0 \in 0 .. p.size - 1 /\ start - 1 \in 0 .. NumUnread - 1
    BY <1>1, <1>3
  <2>2. Unread(start).pkt = p /\ Unread(start).off = 0
    <3>1. Unread(start) = WordOf(p, 0)
      BY <1>3, <2>1
    <3> QED BY <3>1 DEF WordOf
  <2>3. p.id = Unread(start - 1).pkt.id + 1
    BY <2>1, <2>2 DEF QueueIntact
  <2>4. Unread(i).pkt.id <= Unread(start - 1).pkt.id
    BY <2>1 DEF QueueIntact
  <2> QED BY <1>1, <1>2, <1>3, <2>1, <2>3, <2>4
<1>5. i - start \in 0 .. p.size - 1 /\ start + (i - start) = i
  BY <1>1, <1>3, <1>4
<1>6. Unread(i) = WordOf(p, i - start)
  BY <1>3, <1>5
<1> QED BY <1>2, <1>6 DEF WordOf

(* The id of an unread word leads to its packet. *)
LEMMA InRingFound ==
    ASSUME TypeOK, QueueIntact, NEW i \in 0 .. NumUnread - 1
    PROVE  InRing(Unread(i).pkt.id) = Unread(i).pkt
<1> DEFINE id == Unread(i).pkt.id
           found == {p \in {Unread(j).pkt : j \in 0 .. NumUnread - 1} : p.id = id}
<1>1. NumUnread \in Nat
  BY UnreadType, QWordsAssumption
<1>2. Unread(i).pkt \in found
  OBVIOUS
<1>3. ASSUME NEW p \in found PROVE p = Unread(i).pkt
  <2>1. PICK j \in 0 .. NumUnread - 1 : p = Unread(j).pkt /\ p.id = id
    OBVIOUS
  <2>2. i \in j .. NumUnread - 1 \/ j \in i .. NumUnread - 1
    BY <1>1
  <2> QED BY <2>1, <2>2, SamePacket
<1>4. InRing(id) = IF found = {} THEN ZeroPacket ELSE CHOOSE p \in found : TRUE
  BY DEF InRing
<1> HIDE DEF found
<1> QED BY <1>2, <1>3, <1>4

(* Behind a packet comes the next one, or the end of the queue. *)
LEMMA NextPacket ==
    ASSUME TypeOK, QueueIntact, NEW i \in 0 .. NumUnread - 1, Unread(i).off = 0
    PROVE  LET p == Unread(i).pkt
           IN  /\ p \in Packet /\ p.size \in Nat
               /\ p.size > 0 /\ i + p.size <= NumUnread
               /\ i + p.size < NumUnread =>
                    /\ Unread(i + p.size).off = 0
                    /\ Unread(i + p.size).pkt.id = p.id + 1
               /\ i + p.size = NumUnread => p.id = sent
<1>1. /\ NumUnread \in 0 .. QWords - 1
      /\ \A k \in 0 .. NumUnread - 1 :
           /\ Unread(k).off \in Nat /\ Unread(k).pkt \in Packet
           /\ Unread(k).pkt.size \in Nat /\ Unread(k).pkt.id \in Nat
  BY UnreadType, QWordsAssumption
<1>2. PICK p : p = Unread(i).pkt
  OBVIOUS
<1>3. /\ p.size \in Nat /\ p.size > 0 /\ i + p.size <= NumUnread
      /\ \A k \in 0 .. p.size - 1 : Unread(i + k) = WordOf(p, k)
  <2>1. WholePacketAt(i) /\ i - Unread(i).off = i
    BY DEF QueueIntact
  <2> QED BY <1>1, <1>2, <2>1 DEF WholePacketAt
<1> DEFINE e == i + p.size
<1>4. /\ e - 1 \in 0 .. NumUnread - 1 /\ p.size - 1 \in 0 .. p.size - 1
      /\ i + (p.size - 1) = e - 1 /\ e > 0
  BY <1>1, <1>3
<1>5. Unread(e - 1) = WordOf(p, p.size - 1)
  BY <1>3, <1>4
<1>6. Unread(e - 1).pkt = p /\ Unread(e - 1).off = p.size - 1
  BY <1>5 DEF WordOf
<1>7. ASSUME e < NumUnread
      PROVE  Unread(e).off = 0 /\ Unread(e).pkt.id = p.id + 1
  <2>0. PICK q, off : q = Unread(e).pkt /\ off = Unread(e).off
    OBVIOUS
  <2> DEFINE start == e - off
  <2>1. e \in 0 .. NumUnread - 1
    BY <1>1, <1>3, <1>7
  <2>2. /\ off \in Nat /\ q.size \in Nat /\ start >= 0 /\ off < q.size
        /\ \A k \in 0 .. q.size - 1 : Unread(start + k) = WordOf(q, k)
    BY <1>1, <2>0, <2>1 DEF QueueIntact, WholePacketAt
  <2>3. off = 0
    <3> SUFFICES ASSUME off # 0 PROVE FALSE
      OBVIOUS
    <3>1. off - 1 \in 0 .. q.size - 1 /\ start + (off - 1) = e - 1
      BY <1>1, <1>3, <2>2
    <3>2. Unread(e - 1) = WordOf(q, off - 1)
      BY <2>2, <3>1
    <3>3. q = p /\ off - 1 = p.size - 1
      BY <1>6, <3>2 DEF WordOf
    <3> QED BY <1>3, <2>2, <3>3
  <2>4. Unread(e).pkt.id = Unread(e - 1).pkt.id + 1
    BY <1>4, <2>0, <2>1, <2>3 DEF QueueIntact
  <2> QED BY <1>6, <2>0, <2>3, <2>4
<1>8. ASSUME e = NumUnread PROVE p.id = sent
  BY <1>4, <1>6, <1>8 DEF QueueIntact
<1> QED BY <1>1, <1>2, <1>3, <1>7, <1>8

(* The queue holds the packets after the last one consumed, each where one *)
(* of its words is unread, and their words are the unread ones.            *)
RingOK ==
    /\ consumed <= sent
    /\ PacketsInRing \in Seq(Packet) /\ Len(PacketsInRing) = sent - consumed
    /\ \A k \in 1 .. sent - consumed :
         \E i \in 0 .. NumUnread - 1 :
           /\ Unread(i).pkt.id = consumed + k
           /\ PacketsInRing[k] = Unread(i).pkt
    /\ \A i \in 0 .. NumUnread - 1 : InRing(Unread(i).pkt.id) = Unread(i).pkt
    /\ Fifo!Words(PacketsInRing) = NumUnread

(* The inductive invariant implies it. *)
LEMMA RingIsOK ==
    ASSUME IInv
    PROVE  RingOK
<1>0. TypeOK /\ QueueIntact /\ EmptyOK
  BY DEF IInv
<1> DEFINE n == sent - consumed
           q == PacketsInRing
<1>1. /\ NumUnread \in 0 .. QWords - 1
      /\ NumUnread = 0 <=> read_idx = write_idx
      /\ sent \in Nat /\ consumed \in Nat
      /\ \A k \in 0 .. NumUnread - 1 :
           /\ Unread(k).pkt \in Packet /\ Unread(k).off \in Nat
           /\ Unread(k).pkt.size \in Nat /\ Unread(k).pkt.id \in Nat
  BY <1>0, UnreadType, QWordsAssumption DEF TypeOK
<1>2. \A k \in 0 .. NumUnread - 1 : Unread(k).pkt.id <= sent
  <2> SUFFICES ASSUME NEW k \in 0 .. NumUnread - 1 PROVE Unread(k).pkt.id <= sent
    OBVIOUS
  <2>1. NumUnread - 1 \in k .. NumUnread - 1 /\ NumUnread - 1 \in 0 .. NumUnread - 1
    BY <1>1
  <2> QED BY <1>0, <2>1 DEF QueueIntact
<1>3. NumUnread > 0 => Unread(0).off = 0 /\ Unread(0).pkt.id = consumed + 1
  <2> SUFFICES ASSUME NumUnread > 0
               PROVE  Unread(0).off = 0 /\ Unread(0).pkt.id = consumed + 1
    OBVIOUS
  <2>1. 0 \in 0 .. NumUnread - 1
    BY <1>1
  <2>2. WholePacketAt(0) /\ Unread(0).pkt.id = consumed + 1
    BY <1>0, <2>1 DEF QueueIntact
  <2> QED BY <1>1, <2>1, <2>2 DEF WholePacketAt
<1>4. n \in Nat /\ (NumUnread = 0 <=> n = 0)
  <2>1. CASE NumUnread = 0
    BY <1>0, <1>1, <2>1 DEF EmptyOK
  <2>2. CASE NumUnread # 0
    <3>1. 0 \in 0 .. NumUnread - 1
      BY <1>1, <2>2
    <3>2. consumed + 1 <= sent
      BY <1>1, <1>2, <1>3, <3>1
    <3> QED BY <1>1, <2>2, <3>2
  <2> QED BY <2>1, <2>2
<1>5. q = [k \in 1 .. n |-> InRing(consumed + k)]
  BY DEF PacketsInRing
<1>6. Len(q) = n /\ \A k \in 1 .. n : q[k] = InRing(consumed + k)
  <2> HIDE DEF n, q
  <2> QED BY <1>4, <1>5
<1>7. PICK f : /\ f[0] = 0
               /\ \A k \in 1 .. n : f[k] = f[k - 1] + q[k].size
               /\ Fifo!Words(q) = f[n]
  <2> HIDE DEF n, q
  <2> QED BY <1>4, <1>6, WordsSum
<1> HIDE DEF q
<1> DEFINE At(k) == /\ f[k] \in 0 .. NumUnread
                    /\ f[k] < NumUnread =>
                         Unread(f[k]).off = 0 /\ Unread(f[k]).pkt.id = consumed + k + 1
                    /\ f[k] = NumUnread => k = n
           T == {k \in Nat : k <= n => At(k)}
<1>8. 0 \in T
  <2>1. At(0)
    BY <1>1, <1>3, <1>4, <1>7
  <2> QED BY <2>1
<1>9. ASSUME NEW k \in Nat, At(k), k < n
      PROVE  /\ f[k] \in 0 .. NumUnread - 1
             /\ q[k + 1] = Unread(f[k]).pkt /\ Unread(f[k]).pkt.id = consumed + (k + 1)
  <2>1. f[k] \in 0 .. NumUnread - 1 /\ f[k] < NumUnread
    BY <1>1, <1>4, <1>9
  <2>2. Unread(f[k]).pkt.id = consumed + (k + 1)
    BY <1>1, <1>9, <2>1
  <2>3. InRing(consumed + (k + 1)) = Unread(f[k]).pkt
    BY <2>1, <2>2, <1>0, InRingFound
  <2>4. k + 1 \in 1 .. n
    BY <1>4, <1>9
  <2> QED BY <1>6, <2>1, <2>2, <2>3, <2>4
<1>10. ASSUME NEW k \in Nat, k \in T PROVE k + 1 \in T
  <2> SUFFICES ASSUME k + 1 <= n PROVE At(k + 1)
    OBVIOUS
  <2>1. At(k) /\ k < n /\ k + 1 \in 1 .. n /\ (k + 1) - 1 = k
    BY <1>4, <1>10
  <2>2. PICK i : i = f[k]
    OBVIOUS
  <2>3. PICK p : p = Unread(i).pkt
    OBVIOUS
  <2>4. /\ i \in 0 .. NumUnread - 1 /\ q[k + 1] = p /\ p.id = consumed + (k + 1)
        /\ Unread(i).off = 0
    <3>1. i \in 0 .. NumUnread - 1 /\ q[k + 1] = p /\ p.id = consumed + (k + 1)
      <4> HIDE DEF At
      <4> QED BY <1>9, <2>1, <2>2, <2>3
    <3> QED BY <1>1, <2>1, <2>2, <3>1
  <2>5. f[k + 1] = i + p.size
    BY <1>7, <2>1, <2>2, <2>4
  <2>6. /\ p.size \in Nat /\ p.size > 0 /\ i + p.size <= NumUnread
        /\ i + p.size < NumUnread =>
             Unread(i + p.size).off = 0 /\ Unread(i + p.size).pkt.id = p.id + 1
        /\ i + p.size = NumUnread => p.id = sent
    BY <2>3, <2>4, <1>0, NextPacket
  <2>7. p.id + 1 = consumed + (k + 1) + 1 /\ (p.id = sent => k + 1 = n)
    BY <1>1, <2>4
  <2>8. i + p.size \in 0 .. NumUnread
    BY <1>1, <2>4, <2>6
  <2> QED BY <2>5, <2>6, <2>7, <2>8
<1>11. \A k \in 0 .. n : At(k)
  <2>1. Nat \subseteq T
    <3> HIDE DEF T
    <3> QED BY <1>8, <1>10, SetInduction
  <2> QED BY <1>4, <2>1
<1>12. f[n] = NumUnread
  <2> SUFFICES ASSUME f[n] # NumUnread PROVE FALSE
    OBVIOUS
  <2>1. At(n)
    <3> HIDE DEF At
    <3> QED BY <1>4, <1>11
  <2>2. f[n] \in 0 .. NumUnread - 1 /\ Unread(f[n]).pkt.id = sent + 1
    BY <1>1, <1>4, <2>1
  <2> QED BY <1>1, <1>2, <2>2
<1>13. ASSUME NEW k \in 1 .. n
       PROVE  \E i \in 0 .. NumUnread - 1 :
                Unread(i).pkt.id = consumed + k /\ q[k] = Unread(i).pkt
  <2>1. k - 1 \in Nat /\ k - 1 \in 0 .. n /\ k - 1 < n /\ (k - 1) + 1 = k
    BY <1>4
  <2>2. At(k - 1)
    <3> HIDE DEF At
    <3> QED BY <1>11, <2>1
  <2> HIDE DEF At
  <2> QED BY <1>9, <2>1, <2>2
<1>14. q \in Seq(Packet)
  <2>1. \A k \in 1 .. n : q[k] \in Packet
    BY <1>1, <1>13
  <2>2. q = [k \in 1 .. n |-> q[k]]
    BY <1>5, <1>6
  <2> HIDE DEF n
  <2> QED BY <1>4, <2>1, <2>2
<1>15. \A i \in 0 .. NumUnread - 1 : InRing(Unread(i).pkt.id) = Unread(i).pkt
  BY <1>0, InRingFound
<1>16. consumed <= sent
  BY <1>1, <1>4
<1>17. Len(q) = n /\ Fifo!Words(q) = NumUnread
  BY <1>6, <1>7, <1>12
<1> QED BY <1>13, <1>14, <1>15, <1>16, <1>17 DEF q, RingOK

(* A step that leaves the unread words and the counts alone is not seen. *)
LEMMA RingUnseen ==
    ASSUME TypeOK, UNCHANGED <<read_idx, write_idx, consumed, sent>>,
           \A i \in 0 .. NumUnread - 1 : Unread(i)' = Unread(i)
    PROVE  PacketsInRing' = PacketsInRing
<1>1. NumUnread' = NumUnread
  BY DEF NumUnread
<1>2. ASSUME NEW id PROVE InRing(id)' = InRing(id)
  <2> DEFINE found == {p \in {Unread(i).pkt : i \in 0 .. NumUnread - 1} : p.id = id}
  <2>1. found' = found
    BY <1>1
  <2>2. /\ InRing(id) = IF found = {} THEN ZeroPacket ELSE CHOOSE p \in found : TRUE
        /\ InRing(id)' = IF found' = {} THEN ZeroPacket ELSE CHOOSE p \in found' : TRUE
    BY DEF InRing, ZeroPacket
  <2> HIDE DEF found
  <2> QED BY <2>1, <2>2
<1> QED BY <1>2 DEF PacketsInRing

(* A sequence is a function on its indices. *)
LEMMA SeqAsFunction ==
    ASSUME NEW S, NEW s \in Seq(S)
    PROVE  s = [k \in 1 .. Len(s) |-> s[k]]
OBVIOUS

(* Storing qhdr_write_idx puts the packet into the abstract queue. *)
LEMMA PublishPuts ==
    ASSUME IInv, RingOK, RingOK', WritePublish
    PROVE  Fifo!Put
<1> DEFINE n == sent - consumed
           q == PacketsInRing
<1>1. /\ UNCHANGED <<mem, read_idx, consumed, wpkt>> /\ sent' = sent + 1
      /\ wpc = "publish" /\ wpkt \in Packet /\ wpkt.id = sent + 1
      /\ wpkt.size > 0 /\ wpkt.size \in Nat /\ NumUnread + wpkt.size < QWords
      /\ wpkt.kind \in {"resp", "skip", "syserr"}
      /\ sent \in Nat /\ consumed \in Nat
  BY KindsAssumption DEF WritePublish, readerVars, IInv, TypeOK, WriterOK, Packet
<1>2. /\ NumUnread' = NumUnread + wpkt.size
      /\ \A i \in 0 .. QWords - 1 : Unread(i)' = Unread(i)
      /\ \A i \in NumUnread .. NumUnread' - 1 : Unread(i).pkt = wpkt
  BY PublishIntact DEF IInv
<1>3. /\ n \in Nat /\ q \in Seq(Packet) /\ Len(q) = n
      /\ \A k \in 1 .. n : \E i \in 0 .. NumUnread - 1 :
           Unread(i).pkt.id = consumed + k /\ q[k] = Unread(i).pkt
  BY <1>1 DEF RingOK
<1>4. NumUnread \in 0 .. QWords - 1
  BY UnreadType DEF IInv
<1>5. ASSUME NEW i \in 0 .. NumUnread' - 1
      PROVE  InRing(Unread(i).pkt.id)' = Unread(i).pkt /\ Unread(i)' = Unread(i)
  <2>1. Unread(i)' = Unread(i)
    BY <1>1, <1>2, <1>4, QWordsAssumption
  <2>2. InRing(Unread(i).pkt.id)' = Unread(i)'.pkt
    BY DEF RingOK
  <2> QED BY <2>1, <2>2
<1>6. ASSUME NEW k \in 1 .. n PROVE InRing(consumed + k)' = q[k]
  <2>1. PICK i \in 0 .. NumUnread - 1 :
          Unread(i).pkt.id = consumed + k /\ q[k] = Unread(i).pkt
    BY <1>3
  <2>2. i \in 0 .. NumUnread' - 1
    BY <1>1, <1>2, <1>4
  <2>3. InRing(Unread(i).pkt.id)' = q[k] /\ Unread(i)'.pkt.id = consumed + k
    BY <1>5, <2>1, <2>2
  <2> QED BY <1>1, <2>1, <2>3
<1>7. ASSUME NEW k, k = n + 1 PROVE InRing(consumed + k)' = wpkt
  <2>1. NumUnread \in 0 .. NumUnread' - 1 /\ NumUnread \in NumUnread .. NumUnread' - 1
    BY <1>1, <1>2, <1>4
  <2>2. PICK i : i = NumUnread
    OBVIOUS
  <2>3. i \in 0 .. NumUnread' - 1 /\ Unread(i).pkt = wpkt
    BY <1>2, <2>1, <2>2
  <2>4. InRing(Unread(i).pkt.id)' = wpkt /\ Unread(i)'.pkt.id = sent + 1
    BY <1>1, <1>5, <2>3
  <2>5. consumed + k = sent + 1
    BY <1>1, <1>7
  <2> QED BY <1>1, <2>3, <2>4, <2>5
<1>8. q' = Append(q, wpkt)
  <2>1. q' = [k \in 1 .. n + 1 |-> InRing(consumed + k)']
    <3>1. sent' - consumed' = n + 1
      BY <1>1
    <3> QED BY <1>1, <3>1 DEF PacketsInRing
  <2>2. ASSUME NEW k \in 1 .. n + 1
        PROVE  InRing(consumed + k)' = Append(q, wpkt)[k]
    <3>1. CASE k = n + 1
      <4>1. Append(q, wpkt)[k] = wpkt
        <5> HIDE DEF q, n
        <5> QED BY <1>3, <3>1
      <4> QED BY <1>7, <3>1, <4>1
    <3>2. CASE k # n + 1
      <4>1. k \in 1 .. n
        BY <1>3, <3>2
      <4>2. Append(q, wpkt)[k] = q[k]
        <5> HIDE DEF q, n
        <5> QED BY <1>3, <4>1
      <4> QED BY <1>6, <4>1, <4>2
    <3> QED BY <3>1, <3>2
  <2>3. q' = [k \in 1 .. n + 1 |-> Append(q, wpkt)[k]]
    BY <2>1, <2>2
  <2> HIDE DEF q, n
  <2>4. Append(q, wpkt) \in Seq(Packet) /\ Len(Append(q, wpkt)) = n + 1
    BY <1>1, <1>3
  <2>5. PICK r : r = Append(q, wpkt)
    OBVIOUS
  <2>6. r = [k \in 1 .. n + 1 |-> r[k]]
    <3>1. r \in Seq(Packet) /\ Len(r) = n + 1
      BY <2>4, <2>5
    <3> QED BY <3>1, SeqAsFunction
  <2> QED BY <2>3, <2>5, <2>6
<1>9. Fifo!Words(q') <= QWords - 1
  <2>1. Fifo!Words(q') = NumUnread'
    BY DEF RingOK
  <2> QED BY <1>1, <1>2, <1>4, <2>1, QWordsAssumption
<1>10. wpkt = [id |-> consumed + Len(q) + 1, size |-> wpkt.size, kind |-> wpkt.kind]
  <2>1. consumed + Len(q) + 1 = wpkt.id
    BY <1>1, <1>3
  <2> QED BY <1>1, <2>1 DEF Packet
<1>11. wpkt.size \in 1 .. QWords - 1
  BY <1>1, <1>4, QWordsAssumption
<1> HIDE DEF q
<1> QED BY <1>1, <1>8, <1>9, <1>10, <1>11 DEF Fifo!Put, q

(* Storing qhdr_read_idx takes the first packet out of the abstract queue, *)
(* or drops it with packets behind it, or drops none.                      *)
LEMMA StoreTakes ==
    ASSUME IInv, RingOK, RingOK', ReadStore
    PROVE  Fifo!Take \/ Fifo!Discard \/ UNCHANGED <<PacketsInRing, consumed>>
<1> DEFINE n == sent - consumed
           q == PacketsInRing
<1>1. /\ UNCHANGED <<mem, write_idx, sent>>
      /\ read_idx # write_idx /\ SampleOK
      /\ consumed' = IF drop THEN l_sent ELSE consumed + 1
      /\ sent \in Nat /\ consumed \in Nat /\ l_sent \in Nat /\ consumed' \in Nat
      /\ drop \in BOOLEAN
  BY DEF ReadStore, writerVars, IInv, LocalsOK, TypeOK
<1>2. IF drop THEN Unread(0).pkt.size > HugeWords ELSE Unread(0).pkt.size <= HugeWords
  BY DEF ReadStore, IInv, LocalsOK
<1>3. PICK m \in 0 .. NumUnread, c \in Nat :
        /\ read_idx' = Advance(read_idx, m) /\ consumed' = c
        /\ m < NumUnread => Unread(m).off = 0 /\ Unread(m).pkt.id = c + 1
        /\ m = NumUnread => c = sent
  BY StoreConsumes
<1>4. \A i \in 0 .. NumUnread' - 1 :
        Unread(i)' = Unread(m + i) /\ m + i \in 0 .. NumUnread - 1
  BY <1>1, <1>3, ConsumeIntact DEF IInv
<1>5. /\ n \in Nat /\ q \in Seq(Packet) /\ Len(q) = n
      /\ \A k \in 1 .. n : q[k] = InRing(consumed + k)
      /\ \A i \in 0 .. NumUnread - 1 : InRing(Unread(i).pkt.id) = Unread(i).pkt
  BY <1>1 DEF RingOK, PacketsInRing
<1>6. /\ sent - consumed' \in Nat /\ q' \in Seq(Packet) /\ Len(q') = sent - consumed'
      /\ \A k \in 1 .. sent - consumed' : \E i \in 0 .. NumUnread' - 1 :
           Unread(i)'.pkt.id = consumed' + k /\ q'[k] = Unread(i)'.pkt
  BY <1>1 DEF RingOK
<1>7. Unread(0).pkt.id = consumed + 1 /\ NumUnread \in 1 .. QWords - 1
  BY <1>1, HeadPacket, UnreadType, QWordsAssumption DEF IInv
<1>8. PICK j : j = consumed' - consumed
  OBVIOUS
<1>9. j \in 0 .. n /\ (drop \/ j = 1)
  <2>1. CASE ~drop
    BY <1>1, <1>5, <1>6, <1>8, <2>1
  <2>2. CASE drop
    <3>1. l_sent >= consumed
      <4>1. CASE Used(read_idx, l_w) = 0
        BY <1>1, <4>1 DEF SampleOK
      <4>2. CASE Used(read_idx, l_w) # 0
        <5>0. Used(read_idx, l_w) \in 0 .. QWords - 1
          BY UsedFacts DEF IInv, TypeOK
        <5>1. 0 \in 0 .. NumUnread - 1 /\ 0 < Used(read_idx, l_w)
          BY <1>7, <4>2, <5>0, QWordsAssumption
        <5>2. Unread(0).pkt.id <= l_sent
          BY <1>1, <5>1 DEF SampleOK
        <5> QED BY <1>1, <1>7, <5>2
      <4> QED BY <4>1, <4>2
    <3> QED BY <1>1, <1>5, <1>6, <1>8, <2>2, <3>1
  <2> QED BY <1>1, <2>1, <2>2
<1>10. /\ Len(q') = n - j
       /\ \A k \in 1 .. n - j : q'[k] = q[j + k]
  <2>1. sent - consumed' = n - j
    BY <1>1, <1>8
  <2>2. ASSUME NEW k \in 1 .. n - j PROVE q'[k] = q[j + k]
    <3>1. PICK i \in 0 .. NumUnread' - 1 :
            Unread(i)'.pkt.id = consumed' + k /\ q'[k] = Unread(i)'.pkt
      BY <1>6, <2>1
    <3>2. Unread(i)' = Unread(m + i) /\ m + i \in 0 .. NumUnread - 1
      BY <1>4
    <3>3. InRing(Unread(m + i).pkt.id) = Unread(m + i).pkt
      BY <1>5, <3>2
    <3>4. j \in Int /\ n \in Nat /\ k \in Int /\ j >= 0 /\ j + k <= n /\ k >= 1
      BY <1>5, <1>9
    <3>5. consumed' + k = consumed + (j + k) /\ j + k \in 1 .. n
      BY <1>1, <1>8, <3>4
    <3> QED BY <1>5, <3>1, <3>2, <3>3, <3>5
  <2> QED BY <1>6, <2>1, <2>2
<1>11. q' = SubSeq(q, j + 1, Len(q))
  <2> HIDE DEF q, n
  <2>1. /\ SubSeq(q, j + 1, Len(q)) \in Seq(Packet)
        /\ Len(SubSeq(q, j + 1, Len(q))) = n - j
        /\ \A k \in 1 .. n - j : SubSeq(q, j + 1, Len(q))[k] = q[j + k]
    BY <1>5, <1>9
  <2> QED BY <1>6, <1>10, <2>1
<1>12. CASE j = 0
  <2> HIDE DEF q, n
  <2>1. q' = q
    BY <1>5, <1>6, <1>10, <1>12
  <2> QED BY <1>1, <1>8, <1>12, <2>1 DEF q
<1>13. CASE j # 0
  <2>1. j \in 1 .. n /\ n > 0 /\ 1 \in 1 .. n
    BY <1>5, <1>9, <1>13
  <2>2. q[1] = Unread(0).pkt /\ Head(q) = q[1] /\ q # <<>>
    <3>1. 0 \in 0 .. NumUnread - 1
      BY <1>7
    <3>2. q[1] = Unread(0).pkt
      BY <1>5, <1>7, <2>1, <3>1
    <3> HIDE DEF q, n
    <3> QED BY <1>5, <2>1, <3>2
  <2>3. q[j].id = consumed'
    <3>1. PICK i \in 0 .. NumUnread - 1 :
            Unread(i).pkt.id = consumed + j /\ q[j] = Unread(i).pkt
      BY <2>1 DEF RingOK
    <3> QED BY <1>1, <1>8, <3>1
  <2>4. CASE drop
    <3>1. Head(q).size > HugeWords
      BY <1>2, <2>2, <2>4
    <3> HIDE DEF q, n
    <3>2. Fifo!Discard
      BY <1>5, <1>11, <2>1, <2>2, <2>3, <3>1 DEF Fifo!Discard, q
    <3> QED BY <3>2
  <2>5. CASE ~drop
    <3>1. Head(q).size <= HugeWords /\ j = 1
      BY <1>2, <1>9, <2>2, <2>5
    <3> HIDE DEF q, n
    <3>2. q' = Tail(q) /\ consumed' = Head(q).id
      BY <1>5, <1>6, <1>10, <2>1, <2>2, <2>3, <3>1
    <3>3. Fifo!Take
      BY <2>2, <3>1, <3>2 DEF Fifo!Take, q
    <3> QED BY <3>3
  <2> QED BY <1>1, <2>4, <2>5
<1> QED BY <1>12, <1>13

(* Every other step is not seen in the abstract queue. *)
LEMMA OthersUnseen ==
    ASSUME IInv, [Next]_vars, ~WritePublish, ~ReadStore
    PROVE  UNCHANGED <<PacketsInRing, consumed>>
<1>1. CASE \E n \in Sizes, kind \in Kinds : WriteCopy(n, kind)
  <2>1. PICK n \in Sizes, kind \in Kinds : WriteCopy(n, kind)
    BY <1>1
  <2>2. UNCHANGED <<read_idx, write_idx, consumed, sent>>
    BY <2>1 DEF WriteCopy, readerVars
  <2>3. \A i \in 0 .. NumUnread - 1 : Unread(i)' = Unread(i)
    BY <2>1, CopyKeepsUnread DEF IInv
  <2> QED BY <2>2, <2>3, RingUnseen DEF IInv
<1>2. CASE ~\E n \in Sizes, kind \in Kinds : WriteCopy(n, kind)
  <2>1. UNCHANGED <<mem, read_idx, write_idx, consumed, sent>>
    BY <1>2 DEF Next, Writer, Reader, WriteFull, WriteReject, WriteLoadRxReq, WriteRing,
                ReadStart, ReadLoad, ReadArm, ReadRecheck, ReadFetch, ReadCompare,
                ReadDropped, ReadProcess, ReadCallbacks, vars, memVars, writerVars,
                readerVars
  <2>2. \A i \in 0 .. NumUnread - 1 : Unread(i)' = Unread(i)
    BY <2>1 DEF Unread
  <2> QED BY <2>1, <2>2, RingUnseen DEF IInv
<1> QED BY <1>1, <1>2

(* The ring with its two indices, written and read without a common lock,  *)
(* implements the bounded first-in first-out queue, for every ring size    *)
(* and all packets: __write_queue appends a packet when it stores the      *)
(* write index, __read_queue removes the first one when it stores the      *)
(* read index, and no other step changes what is in the queue.             *)
THEOREM QueueImplementsFifo == Spec => ImplementsFifo
<1>1. Init => Fifo!Init
  <2> SUFFICES ASSUME Init PROVE Fifo!Init
    OBVIOUS
  <2>1. sent - consumed = 0 /\ consumed = 0
    BY DEF Init
  <2>2. PacketsInRing = [k \in 1 .. 0 |-> InRing(consumed + k)]
    BY <2>1 DEF PacketsInRing
  <2>3. PacketsInRing = <<>>
    BY <2>2
  <2> QED BY <2>1, <2>3 DEF Fifo!Init
<1>2. IInv /\ RingOK /\ RingOK' /\ [Next]_vars
        => [Fifo!Next]_<<PacketsInRing, consumed>>
  <2> SUFFICES ASSUME IInv, RingOK, RingOK', [Next]_vars
               PROVE  Fifo!Next \/ UNCHANGED <<PacketsInRing, consumed>>
    OBVIOUS
  <2>1. CASE WritePublish
    BY <2>1, PublishPuts DEF Fifo!Next
  <2>2. CASE ReadStore
    BY <2>2, StoreTakes DEF Fifo!Next
  <2>3. CASE ~WritePublish /\ ~ReadStore
    BY <2>3, OthersUnseen
  <2> QED BY <2>1, <2>2, <2>3
<1>3. IInv => RingOK
  BY RingIsOK
<1> QED BY <1>1, <1>2, <1>3, IInvInvariant, PTL DEF Spec, ImplementsFifo, Fifo!Spec

=============================================================================
