---------------------------- MODULE SfifoProofs ----------------------------
(***************************************************************************)
(* Proofs about Sfifo for every word set and every depth: the registers    *)
(* keep their types, the pointers never drift further apart than the       *)
(* memory is long, and the circuit implements the bounded queue.           *)
(***************************************************************************)
EXTENDS Sfifo, SequenceTheorems, TLAPS

(* Arithmetic of the pointers: counting modulo 2 * Depth and addressing    *)
(* modulo Depth, without the remainder.                                    *)
LEMMA SuccIs ==
  ASSUME NEW p \in Pointer
  PROVE  /\ Succ(p) = IF p = 2 * Depth - 1 THEN 0 ELSE p + 1
         /\ Succ(p) \in Pointer
BY DepthAssumption DEF Succ, Pointer

LEMMA FillIs ==
  ASSUME NEW w \in Pointer, NEW r \in Pointer
  PROVE  (w - r) % (2 * Depth) = IF w >= r THEN w - r ELSE w - r + 2 * Depth
BY DepthAssumption DEF Pointer

LEMMA SlotIs ==
  ASSUME NEW p \in 0 .. 3 * Depth - 1
  PROVE  /\ Slot(p) = IF p < Depth THEN p
                      ELSE IF p < 2 * Depth THEN p - Depth ELSE p - 2 * Depth
         /\ Slot(p) \in Addresses
BY DepthAssumption DEF Slot, Addresses

(* The words from pointer r on are a sequence of words.                    *)
LEMMA WordsIsSeq ==
  ASSUME NEW m \in [Addresses -> Data], NEW r \in Pointer, NEW n \in 0 .. Depth
  PROVE  /\ Words(m, r, n) \in Seq(Data)
         /\ Len(Words(m, r, n)) = n
         /\ \A k \in 1 .. n : Words(m, r, n)[k] = m[Slot(r + (k - 1))]
<1>1. \A k \in 1 .. n : r + (k - 1) \in 0 .. 3 * Depth - 1
  BY DepthAssumption DEF Pointer
<1>2. \A k \in 1 .. n : m[Slot(r + (k - 1))] \in Data
  BY <1>1, SlotIs
<1>3. Words(m, r, n) \in [1 .. n -> Data]
  BY <1>2 DEF Words
<1>4. n \in Nat
  BY DepthAssumption
<1> QED
  BY <1>3, <1>4, SeqDef DEF Words

(* Writing behind the n stored words appends to them.                      *)
LEMMA WriteAppends ==
  ASSUME NEW m \in [Addresses -> Data], NEW w \in Pointer, NEW r \in Pointer,
         NEW d \in Data,
         NEW n \in 0 .. Depth - 1, n = (w - r) % (2 * Depth)
  PROVE  Words([m EXCEPT ![Slot(w)] = d], r, n + 1)
           = Append(Words(m, r, n), d)
<1> DEFINE mm == [m EXCEPT ![Slot(w)] = d]
<1>1. w \in 0 .. 3 * Depth - 1 /\ Slot(w) \in Addresses /\ n \in 0 .. Depth
      /\ n + 1 \in 0 .. Depth
  BY SlotIs, DepthAssumption DEF Pointer
<1>2. mm \in [Addresses -> Data]
  BY <1>1
<1>3. Slot(r + n) = Slot(w) /\ r + n \in 0 .. 3 * Depth - 1
  <2>1. r + n \in 0 .. 3 * Depth - 1
    BY DepthAssumption DEF Pointer
  <2>2. r + n = w \/ r + n = w + 2 * Depth
    <3>1. n = IF w >= r THEN w - r ELSE w - r + 2 * Depth
      BY FillIs
    <3> QED
      BY <3>1, DepthAssumption DEF Pointer
  <2> QED
    BY <2>1, <2>2, <1>1, SlotIs, DepthAssumption DEF Pointer
<1>4. \A k \in 1 .. n : Slot(r + (k - 1)) # Slot(r + n)
                        /\ Slot(r + (k - 1)) \in Addresses
  <2> TAKE k \in 1 .. n
  <2>1. r + (k - 1) \in 0 .. 3 * Depth - 1
    BY DepthAssumption DEF Pointer
  <2> QED
    BY <2>1, <1>3, SlotIs, DepthAssumption DEF Pointer
<1>5. \A k \in 1 .. n + 1 :
        mm[Slot(r + (k - 1))] = IF k = n + 1 THEN d ELSE m[Slot(r + (k - 1))]
  <2> TAKE k \in 1 .. n + 1
  <2>1. CASE k = n + 1
    <3>1. k - 1 = n
      BY <2>1, <1>1
    <3> QED
      BY <2>1, <3>1, <1>1, <1>3
  <2>2. CASE k # n + 1
    <3>1. k \in 1 .. n
      BY <2>2, <1>1
    <3> QED
      BY <2>2, <3>1, <1>3, <1>4
  <2> QED
    BY <2>1, <2>2
<1>6. /\ Words(mm, r, n + 1) \in Seq(Data) /\ Len(Words(mm, r, n + 1)) = n + 1
      /\ \A k \in 1 .. n + 1 : Words(mm, r, n + 1)[k] = mm[Slot(r + (k - 1))]
  BY <1>1, <1>2, WordsIsSeq
<1>7. /\ Words(m, r, n) \in Seq(Data) /\ Len(Words(m, r, n)) = n
      /\ \A k \in 1 .. n : Words(m, r, n)[k] = m[Slot(r + (k - 1))]
  BY <1>1, WordsIsSeq
<1>8. /\ Append(Words(m, r, n), d) \in Seq(Data)
      /\ Len(Append(Words(m, r, n), d)) = n + 1
      /\ \A k \in 1 .. n : Append(Words(m, r, n), d)[k] = Words(m, r, n)[k]
      /\ Append(Words(m, r, n), d)[n + 1] = d
  BY <1>7, AppendProperties
<1>9. \A k \in 1 .. n + 1 :
        Words(mm, r, n + 1)[k] = Append(Words(m, r, n), d)[k]
  <2> TAKE k \in 1 .. n + 1
  <2>1. CASE k = n + 1
    BY <2>1, <1>5, <1>6, <1>8
  <2>2. CASE k # n + 1
    <3>1. k \in 1 .. n
      BY <2>2, <1>1
    <3> QED
      BY <2>2, <3>1, <1>5, <1>6, <1>7, <1>8
  <2> QED
    BY <2>1, <2>2
<1> QED
  BY <1>6, <1>8, <1>9, SeqEqual

(* Moving the read pointer drops the oldest word and no other.             *)
LEMMA ReadDrops ==
  ASSUME NEW m \in [Addresses -> Data], NEW r \in Pointer, NEW n \in 1 .. Depth
  PROVE  /\ Words(m, r, n) # <<>>
         /\ Head(Words(m, r, n)) = m[Slot(r)]
         /\ Words(m, Succ(r), n - 1) = Tail(Words(m, r, n))
<1> DEFINE q == Words(m, r, n)
           t == Words(m, Succ(r), n - 1)
<1>1. n \in 0 .. Depth /\ n - 1 \in 0 .. Depth /\ Succ(r) \in Pointer /\ 1 \in 1 .. n
  BY SuccIs, DepthAssumption
<1>2. /\ q \in Seq(Data) /\ Len(q) = n
      /\ \A k \in 1 .. n : q[k] = m[Slot(r + (k - 1))]
  BY <1>1, WordsIsSeq
<1>3. /\ t \in Seq(Data) /\ Len(t) = n - 1
      /\ \A k \in 1 .. n - 1 : t[k] = m[Slot(Succ(r) + (k - 1))]
  BY <1>1, WordsIsSeq
<1> HIDE DEF q, t
<1>4. q # <<>>
  BY <1>1, <1>2, EmptySeq
<1>5. Head(q) = q[1] /\ r + (1 - 1) = r
  BY <1>2, <1>4 DEF Pointer
<1>6. /\ Tail(q) \in Seq(Data) /\ Len(Tail(q)) = n - 1
      /\ \A k \in 1 .. n - 1 : Tail(q)[k] = q[k + 1]
  BY <1>2, <1>4, HeadTailProperties
<1>7. \A k \in 1 .. n - 1 : t[k] = Tail(q)[k]
  <2> TAKE k \in 1 .. n - 1
  <2>1. k + 1 \in 1 .. n /\ (k + 1) - 1 = k /\ k \in 1 .. n - 1
    BY <1>1
  <2>2. Slot(Succ(r) + (k - 1)) = Slot(r + k)
    <3>1. r + k \in 0 .. 3 * Depth - 1 /\ Succ(r) + (k - 1) \in 0 .. 3 * Depth - 1
      BY <1>1, DepthAssumption DEF Pointer
    <3> QED
      BY <3>1, SlotIs, SuccIs, DepthAssumption DEF Pointer
  <2>3. t[k] = m[Slot(Succ(r) + (k - 1))] /\ Tail(q)[k] = q[k + 1]
    BY <1>3, <1>6
  <2>4. q[k + 1] = m[Slot(r + ((k + 1) - 1))]
    BY <2>1, <1>2
  <2> QED
    BY <2>1, <2>2, <2>3, <2>4
<1>8. t = Tail(q)
  BY <1>3, <1>6, <1>7, SeqEqual
<1> QED
  BY <1>1, <1>2, <1>4, <1>5, <1>8 DEF q, t

-----------------------------------------------------------------------------
(* The two facts the runs check together are inductive.                    *)
IInv == TypeOK /\ FillInRange

LEMMA InitIInv == Init => IInv
<1> SUFFICES ASSUME Init PROVE IInv
  OBVIOUS
<1>1. wr_addr = 0 /\ rd_addr = 0 /\ 0 \in Pointer
  BY DepthAssumption DEF Init, PowerUp, Pointer
<1>2. o_fill = 0
  BY <1>1, FillIs DEF o_fill
<1>3. TypeOK
  <2>1. i_rst \in BOOLEAN /\ i_wr \in BOOLEAN /\ i_rd \in BOOLEAN
    BY Zenon DEF Init
  <2> QED
    BY <1>1, <2>1 DEF Init, PowerUp, TypeOK
<1>4. FillInRange
  BY <1>2, DepthAssumption DEF FillInRange
<1> QED
  BY <1>3, <1>4 DEF IInv

LEMMA NextIInv == IInv /\ [Next]_vars => IInv'
<1> SUFFICES ASSUME IInv, [Next]_vars PROVE IInv'
  OBVIOUS
<1> USE DEF IInv, TypeOK
<1>0. CASE UNCHANGED vars
  BY <1>0 DEF vars, FillInRange, o_fill
<1>1. CASE Next
  <2>1. /\ i_rst' \in BOOLEAN /\ i_wr' \in BOOLEAN /\ i_rd' \in BOOLEAN
        /\ i_data' \in Data
    BY <1>1 DEF Next
  <2>2. fifo_mem' \in [Addresses -> Data] /\ o_data' \in Data
    <3>1. Slot(wr_addr) \in Addresses /\ Slot(rd_addr) \in Addresses
      BY SlotIs, DepthAssumption DEF Pointer
    <3>2. MemRead \/ MemWrite \/ MemIdle
      BY <1>1 DEF Next, Clock
    <3> QED
      BY <3>1, <3>2 DEF MemRead, MemWrite, MemIdle
  <2>3. wr_addr' \in Pointer /\ rd_addr' \in Pointer /\ o_fill' \in 0 .. Depth
    <3>0. ClearPointers \/ AdvanceWrite \/ AdvanceRead \/ HoldPointers
      BY <1>1 DEF Next, Clock
    <3>f. /\ o_fill \in 0 .. Depth
          /\ o_fill = IF wr_addr >= rd_addr THEN wr_addr - rd_addr
                      ELSE wr_addr - rd_addr + 2 * Depth
      BY FillIs DEF FillInRange, o_fill
    <3>1. CASE ClearPointers
      <4>1. wr_addr' = 0 /\ rd_addr' = 0 /\ 0 \in Pointer
        BY <3>1, DepthAssumption DEF ClearPointers, Pointer
      <4>2. o_fill' = 0
        BY <4>1, FillIs DEF o_fill
      <4> QED
        BY <4>1, <4>2, DepthAssumption
    <3>2. CASE AdvanceWrite
      <4>1. wr_addr' = Succ(wr_addr) /\ rd_addr' = rd_addr /\ o_fill # Depth
        BY <3>2 DEF AdvanceWrite, w_wr, o_full
      <4>2. wr_addr' \in Pointer /\ rd_addr' \in Pointer
        BY <4>1, SuccIs
      <4>3. o_fill' = IF wr_addr' >= rd_addr' THEN wr_addr' - rd_addr'
                      ELSE wr_addr' - rd_addr' + 2 * Depth
        BY <4>2, FillIs DEF o_fill
      <4> QED
        BY <3>f, <4>1, <4>2, <4>3, SuccIs, DepthAssumption DEF Pointer
    <3>3. CASE AdvanceRead
      <4>1. wr_addr' = wr_addr /\ rd_addr' = Succ(rd_addr) /\ o_fill # 0
        BY <3>3 DEF AdvanceRead, w_rd, o_empty
      <4>2. wr_addr' \in Pointer /\ rd_addr' \in Pointer
        BY <4>1, SuccIs
      <4>3. o_fill' = IF wr_addr' >= rd_addr' THEN wr_addr' - rd_addr'
                      ELSE wr_addr' - rd_addr' + 2 * Depth
        BY <4>2, FillIs DEF o_fill
      <4> QED
        BY <3>f, <4>1, <4>2, <4>3, SuccIs, DepthAssumption DEF Pointer
    <3>4. CASE HoldPointers
      BY <3>4, <3>f DEF HoldPointers, o_fill
    <3> QED
      BY <3>0, <3>1, <3>2, <3>3, <3>4
  <2> QED
    BY <2>1, <2>2, <2>3 DEF FillInRange
<1> QED
  BY <1>0, <1>1

(* The registers of sfifo.v and its memory keep their types: the pointers  *)
(* stay within their bits for every depth.                                 *)
THEOREM TypeCorrect == Spec => []TypeOK
<1>1. IInv => TypeOK
  BY DEF IInv
<1> QED
  BY <1>1, InitIInv, NextIInv, PTL DEF Spec

(* The pointer that follows never loses the one it follows: o_fill, the    *)
(* difference of the free-running pointers, stays in 0 .. Depth, so that   *)
(* the equality tests behind o_full and o_empty are enough.                *)
THEOREM FillStaysInRange == Spec => []FillInRange
<1>1. IInv => FillInRange
  BY DEF IInv
<1> QED
  BY <1>1, InitIInv, NextIInv, PTL DEF Spec

-----------------------------------------------------------------------------
(* The refinement, one lemma per kind of step.                             *)
LEMMA ContentsIsSeq ==
  ASSUME IInv
  PROVE  /\ Contents \in Seq(Data) /\ Len(Contents) = o_fill
         /\ Contents = <<>> <=> o_fill = 0
<1>1. fifo_mem \in [Addresses -> Data] /\ rd_addr \in Pointer /\ o_fill \in 0 .. Depth
  BY DEF IInv, TypeOK, FillInRange
<1>2. Contents \in Seq(Data) /\ Len(Contents) = o_fill
  BY <1>1, WordsIsSeq DEF Contents
<1> HIDE DEF Contents
<1> QED
  BY <1>1, <1>2, EmptySeq, DepthAssumption

LEMMA QueueInit == Init => Queue!Init
<1> SUFFICES ASSUME Init PROVE Contents = <<>> /\ o_data \in Data
  BY DEF Queue!Init
<1>1. wr_addr = 0 /\ rd_addr = 0 /\ 0 \in Pointer /\ o_data \in Data
  BY DepthAssumption DEF Init, PowerUp, Pointer
<1>2. o_fill = 0
  BY <1>1, FillIs DEF o_fill
<1>3. IInv
  BY InitIInv
<1> QED
  BY <1>1, <1>2, <1>3, ContentsIsSeq

LEMMA ReadPortStep == IInv /\ Next => Queue!ReadPort
<1> SUFFICES ASSUME IInv, Next PROVE Queue!ReadPort
  OBVIOUS
<1>1. MemRead \/ MemWrite \/ MemIdle
  BY DEF Next, Clock
<1>2. CASE MemRead
  <2>1. /\ fifo_mem \in [Addresses -> Data] /\ rd_addr \in Pointer
        /\ o_fill \in 0 .. Depth
    BY DEF IInv, TypeOK, FillInRange
  <2>2. i_rd /\ o_data' = fifo_mem[Slot(rd_addr)]
    BY <1>2 DEF MemRead
  <2>3. o_data' \in Data
    <3>1. Slot(rd_addr) \in Addresses
      BY <2>1, SlotIs, DepthAssumption DEF Pointer
    <3> QED
      BY <2>1, <2>2, <3>1
  <2>4. ASSUME Contents # <<>> PROVE o_data' = Head(Contents)
    <3>1. o_fill \in 1 .. Depth
      BY <2>1, <2>4, ContentsIsSeq, DepthAssumption
    <3> QED
      BY <2>1, <2>2, <3>1, ReadDrops DEF Contents
  <2> QED
    BY <2>2, <2>3, <2>4 DEF Queue!ReadPort
<1>3. CASE MemWrite
  BY <1>3 DEF MemWrite, Queue!ReadPort
<1>4. CASE MemIdle
  BY <1>4 DEF MemIdle, Queue!ReadPort
<1> QED
  BY <1>1, <1>2, <1>3, <1>4

LEMMA ClearStep ==
  IInv' /\ ClearPointers => Queue!Flush
<1> SUFFICES ASSUME IInv', ClearPointers PROVE Queue!Flush
  OBVIOUS
<1>1. InReset /\ wr_addr' = 0 /\ rd_addr' = 0 /\ 0 \in Pointer
  BY DepthAssumption DEF ClearPointers, Pointer
<1>2. o_fill' = 0
  BY <1>1, FillIs DEF o_fill
<1>3. /\ fifo_mem' \in [Addresses -> Data] /\ rd_addr' \in Pointer
      /\ o_fill' \in 0 .. Depth
  BY DEF IInv, TypeOK, FillInRange
<1>4. Contents' \in Seq(Data) /\ Len(Contents') = 0
  BY <1>2, <1>3, WordsIsSeq DEF Contents
<1>5. Contents' = <<>>
  BY <1>4, EmptySeq
<1> QED
  BY <1>1, <1>5 DEF Queue!Flush, Queue!InReset, InReset

LEMMA WriteStep ==
  IInv /\ IInv' /\ AdvanceWrite /\ (MemRead \/ MemWrite \/ MemIdle)
     => Queue!Offer
<1> SUFFICES ASSUME IInv, IInv', AdvanceWrite, MemRead \/ MemWrite \/ MemIdle
             PROVE  Queue!Offer
  OBVIOUS
<1>1. /\ fifo_mem \in [Addresses -> Data] /\ rd_addr \in Pointer
      /\ wr_addr \in Pointer /\ o_fill \in 0 .. Depth /\ i_data \in Data
      /\ rd_addr' \in Pointer /\ wr_addr' \in Pointer /\ o_fill' \in 0 .. Depth
  BY DEF IInv, TypeOK, FillInRange
<1>2. /\ ~InReset /\ ~i_rd /\ i_wr /\ o_fill # Depth
      /\ wr_addr' = Succ(wr_addr) /\ rd_addr' = rd_addr
  BY DEF AdvanceWrite, w_wr, o_full
<1>3. fifo_mem' = [fifo_mem EXCEPT ![Slot(wr_addr)] = i_data]
  BY <1>2 DEF MemRead, MemWrite, MemIdle, AdvanceWrite
<1>4. o_fill' = o_fill + 1 /\ o_fill \in 0 .. Depth - 1
  <2>1. /\ o_fill = IF wr_addr >= rd_addr THEN wr_addr - rd_addr
                    ELSE wr_addr - rd_addr + 2 * Depth
        /\ o_fill' = IF wr_addr' >= rd_addr' THEN wr_addr' - rd_addr'
                     ELSE wr_addr' - rd_addr' + 2 * Depth
    BY <1>1, FillIs DEF o_fill
  <2> QED
    BY <2>1, <1>1, <1>2, SuccIs, DepthAssumption DEF Pointer
<1>5. Contents' = Append(Contents, i_data)
  <2>1. Words(fifo_mem', rd_addr, o_fill + 1)
          = Append(Words(fifo_mem, rd_addr, o_fill), i_data)
    BY <1>1, <1>3, <1>4, WriteAppends DEF o_fill
  <2> QED
    BY <2>1, <1>2, <1>4 DEF Contents
<1>6. Len(Contents) < Depth
  BY <1>4, ContentsIsSeq, DepthAssumption
<1> QED
  BY <1>2, <1>5, <1>6 DEF Queue!Offer, Queue!InReset, InReset

LEMMA ReadStep ==
  IInv /\ IInv' /\ AdvanceRead /\ (MemRead \/ MemWrite \/ MemIdle)
     => Queue!Take
<1> SUFFICES ASSUME IInv, IInv', AdvanceRead, MemRead \/ MemWrite \/ MemIdle
             PROVE  Queue!Take
  OBVIOUS
<1>1. /\ fifo_mem \in [Addresses -> Data] /\ rd_addr \in Pointer
      /\ wr_addr \in Pointer /\ o_fill \in 0 .. Depth
      /\ rd_addr' \in Pointer /\ wr_addr' \in Pointer
  BY DEF IInv, TypeOK, FillInRange
<1>2. /\ ~InReset /\ i_rd /\ o_fill # 0
      /\ rd_addr' = Succ(rd_addr) /\ wr_addr' = wr_addr
  BY DEF AdvanceRead, w_rd, o_empty
<1>3. fifo_mem' = fifo_mem
  BY <1>2 DEF MemRead, MemWrite, MemIdle
<1>4. o_fill' = o_fill - 1 /\ o_fill \in 1 .. Depth
  <2>1. /\ o_fill = IF wr_addr >= rd_addr THEN wr_addr - rd_addr
                    ELSE wr_addr - rd_addr + 2 * Depth
        /\ o_fill' = IF wr_addr' >= rd_addr' THEN wr_addr' - rd_addr'
                     ELSE wr_addr' - rd_addr' + 2 * Depth
    BY <1>1, FillIs DEF o_fill
  <2> QED
    BY <2>1, <1>1, <1>2, SuccIs, DepthAssumption DEF Pointer
<1>5. Contents # <<>> /\ Contents' = Tail(Contents)
  <2>1. /\ Words(fifo_mem, rd_addr, o_fill) # <<>>
        /\ Words(fifo_mem, Succ(rd_addr), o_fill - 1)
             = Tail(Words(fifo_mem, rd_addr, o_fill))
    BY <1>1, <1>4, ReadDrops
  <2> QED
    BY <2>1, <1>2, <1>3, <1>4 DEF Contents
<1> QED
  BY <1>2, <1>5 DEF Queue!Take, Queue!InReset, InReset

LEMMA HoldStep ==
  IInv /\ HoldPointers /\ (MemRead \/ MemWrite \/ MemIdle)
     => Queue!Refuse
<1> SUFFICES ASSUME IInv, HoldPointers, MemRead \/ MemWrite \/ MemIdle
             PROVE  Queue!Refuse
  OBVIOUS
<1>1. /\ ~InReset /\ ~(i_rd /\ o_fill # 0)
      /\ ~(~i_rd /\ i_wr /\ o_fill # Depth)
      /\ wr_addr' = wr_addr /\ rd_addr' = rd_addr
  BY DEF HoldPointers, w_wr, w_rd, o_empty, o_full
<1>2. fifo_mem' = fifo_mem
  BY <1>1 DEF MemRead, MemWrite, MemIdle, w_wr, o_full
<1>3. UNCHANGED Contents
  BY <1>1, <1>2 DEF Contents, o_fill
<1>4. /\ Contents = <<>> <=> o_fill = 0
      /\ Len(Contents) = o_fill
  BY ContentsIsSeq
<1>5. o_fill = Depth => Len(Contents) >= Depth
  BY <1>4, DepthAssumption
<1> HIDE DEF Contents
<1> QED
  BY <1>1, <1>3, <1>4, <1>5, Zenon DEF Queue!Refuse, Queue!InReset, InReset

LEMMA QueueNext == IInv /\ IInv' /\ [Next]_vars => [Queue!Next]_Queue!vars
<1> SUFFICES ASSUME IInv, IInv', [Next]_vars PROVE [Queue!Next]_Queue!vars
  OBVIOUS
<1>1. CASE Next
  <2>1. ClearPointers \/ AdvanceWrite \/ AdvanceRead \/ HoldPointers
    BY <1>1 DEF Next, Clock
  <2>2. MemRead \/ MemWrite \/ MemIdle
    BY <1>1 DEF Next, Clock
  <2>3. Queue!Flush \/ Queue!Take \/ Queue!Offer \/ Queue!Refuse
    BY <2>1, <2>2, ClearStep, WriteStep, ReadStep, HoldStep
  <2>4. Queue!ReadPort
    BY <1>1, ReadPortStep
  <2> QED
    BY <2>3, <2>4 DEF Queue!Next
<1>2. CASE UNCHANGED vars
  BY <1>2 DEF vars, Queue!vars, Contents, o_fill
<1> QED
  BY <1>1, <1>2

(* sfifo.v over its single-ported memory is the bounded queue: words leave *)
(* in the order in which they were accepted, each exactly once, and a word *)
(* is refused only by a full queue or by a read of the same clock.         *)
THEOREM Implementation == Spec => ImplementsQueue
<1>1. Spec => []IInv
  BY InitIInv, NextIInv, PTL DEF Spec
<1> QED
  BY <1>1, QueueInit, QueueNext, PTL DEF Spec, ImplementsQueue, Queue!Spec
=============================================================================
