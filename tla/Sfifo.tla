------------------------------- MODULE Sfifo -------------------------------
(***************************************************************************)
(* The FIFO between the decimator and the I2S master: audio/sfifo.v and    *)
(* the single-ported memory it instantiates, {fpga,sg13g2}/sfifo_mem.v.    *)
(*                                                                         *)
(* A state is the circuit just before a rising clock edge: the levels of   *)
(* the input ports and the contents of the registers.  Clock is what the   *)
(* edge does to the registers and reads the ports only, so that a module   *)
(* that instantiates this one can wire the ports to its own nets; Next     *)
(* closes the module with an environment that drives the ports at will.    *)
(***************************************************************************)
EXTENDS Integers, Sequences

CONSTANTS
  Data,    \* the words that are stored (BW bits each)
  Depth    \* number of words, 1 << LGFLEN

(* A memory has at least one word.  That Depth is a power of two is not    *)
(* needed: what matters is that the pointers count modulo 2 * Depth.       *)
ASSUME DepthAssumption == Depth \in Nat \ {0}

VARIABLES
  i_rst, i_wr, i_data, i_rd,   \* input ports
  wr_addr, rd_addr,            \* pointers, one bit wider than an address
  fifo_mem,                    \* sfifo_mem: the memory array
  o_data                       \* sfifo_mem: the registered read port

ports == <<i_rst, i_wr, i_data, i_rd>>
regs == <<wr_addr, rd_addr, fifo_mem, o_data>>
vars == <<i_rst, i_wr, i_data, i_rd, wr_addr, rd_addr, fifo_mem, o_data>>

Pointer == 0 .. 2 * Depth - 1
Addresses == 0 .. Depth - 1

(* Faulty variant of Succ: the pointer does not wrap.                      *)
SuccNoWrap(p) == p + 1

Succ(p) == (p + 1) % (2 * Depth)
Slot(p) == p % Depth            \* the low LGFLEN bits of a pointer

o_fill == (wr_addr - rd_addr) % (2 * Depth)
o_full == o_fill = Depth
o_empty == o_fill = 0
o_ready == ~i_rd

w_wr == i_wr /\ ~o_full
w_rd == i_rd /\ ~o_empty

(* posedge i_rst: the pointers are cleared when reset rises, not at the    *)
(* next edge, and are held until an edge sees it low.                      *)
InReset == i_rst \/ i_rst'

ClearPointers == InReset /\ wr_addr' = 0 /\ rd_addr' = 0

(* Faulty variant of AdvanceWrite: the pointer advances although the read  *)
(* has taken the memory port, as in a FIFO with a dual-ported memory.      *)
AdvanceWriteDuringRead == /\ ~InReset /\ w_wr
                          /\ wr_addr' = Succ(wr_addr)
                          /\ UNCHANGED rd_addr

AdvanceWrite == /\ ~InReset /\ ~i_rd /\ w_wr
                /\ wr_addr' = Succ(wr_addr)
                /\ UNCHANGED rd_addr

AdvanceRead == /\ ~InReset /\ w_rd
               /\ rd_addr' = Succ(rd_addr)
               /\ UNCHANGED wr_addr

HoldPointers == /\ ~InReset /\ ~w_rd /\ ~(~i_rd /\ w_wr)
                /\ UNCHANGED <<wr_addr, rd_addr>>

(* sfifo_mem has one port.  It is not told about the reset, and it is read *)
(* at every i_rd, whether or not the FIFO is empty.                        *)
MemRead == /\ i_rd
           /\ o_data' = fifo_mem[Slot(rd_addr)]
           /\ UNCHANGED fifo_mem

MemWrite == /\ ~i_rd /\ w_wr
            /\ fifo_mem' = [fifo_mem EXCEPT ![Slot(wr_addr)] = i_data]
            /\ UNCHANGED o_data

MemIdle == ~i_rd /\ ~w_wr /\ UNCHANGED <<fifo_mem, o_data>>

Clock == /\ ClearPointers \/ AdvanceWrite \/ AdvanceRead \/ HoldPointers
         /\ MemRead \/ MemWrite \/ MemIdle

(* The registers after a reset; the memory and its read port are never     *)
(* reset and hold anything.                                                *)
PowerUp == /\ wr_addr = 0 /\ rd_addr = 0
           /\ fifo_mem \in [Addresses -> Data]
           /\ o_data \in Data

Init == /\ PowerUp
        /\ i_rst = TRUE /\ i_wr = FALSE /\ i_rd = FALSE /\ i_data \in Data

Next == /\ i_rst' \in BOOLEAN /\ i_wr' \in BOOLEAN /\ i_rd' \in BOOLEAN
        /\ i_data' \in Data
        /\ Clock

Spec == Init /\ [][Next]_vars

-----------------------------------------------------------------------------
(* Types of the ports and registers of sfifo.v; the pointers stay within   *)
(* their LGFLEN + 1 bits.                                                  *)
TypeOK == /\ i_rst \in BOOLEAN /\ i_wr \in BOOLEAN /\ i_rd \in BOOLEAN
          /\ i_data \in Data
          /\ wr_addr \in Pointer /\ rd_addr \in Pointer
          /\ fifo_mem \in [Addresses -> Data]
          /\ o_data \in Data

(* The distance between the two free-running pointers, computed modulo     *)
(* 2 * Depth, never leaves 0 .. Depth: o_full is an equality test, so a    *)
(* pointer that overtook the other would never be caught again.            *)
FillInRange == o_fill \in 0 .. Depth

(* The words between the pointers, oldest first, across the wrap.          *)
Words(mem, first, n) == [k \in 1 .. n |-> mem[Slot(first + (k - 1))]]
Contents == Words(fifo_mem, rd_addr, o_fill)

Queue == INSTANCE SampleQueue
           WITH Capacity <- Depth, queue <- Contents, out <- o_data

(* The pointers and the single-ported memory implement the bounded queue:  *)
(* words come out in the order they were accepted, each once; a word is    *)
(* refused only when the queue is full or a read takes the port; the read  *)
(* port keeps its word until the next read.                                *)
ImplementsQueue == Queue!Spec
=============================================================================
