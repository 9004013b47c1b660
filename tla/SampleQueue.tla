---------------------------- MODULE SampleQueue ----------------------------
(***************************************************************************)
(* What sfifo.v promises to the logic around it, with no pointers and no   *)
(* memory: a bounded queue with one access per clock, where a read wins    *)
(* over a write of the same clock.  The state is the one just before a     *)
(* rising clock edge; i_rst .. i_data are the levels of the input ports at *)
(* that edge, chosen by the environment.  `out` is the registered read     *)
(* port: it changes only at a read, and a read of an empty queue leaves    *)
(* anything in it.                                                         *)
(***************************************************************************)
EXTENDS Naturals, Sequences

CONSTANTS
  Data,      \* the words the queue stores
  Capacity   \* how many of them it holds

VARIABLES i_rst, i_wr, i_data, i_rd, queue, out

vars == <<i_rst, i_wr, i_data, i_rd, queue, out>>

Init == queue = <<>> /\ out \in Data

(* The queue is emptied as soon as the asynchronous reset is raised and    *)
(* stays empty up to the edge at which it is seen low.                     *)
InReset == i_rst \/ i_rst'

Flush == InReset /\ queue' = <<>>

Take == /\ ~InReset /\ i_rd /\ queue # <<>>
        /\ queue' = Tail(queue)

Offer == /\ ~InReset /\ ~i_rd /\ i_wr /\ Len(queue) < Capacity
         /\ queue' = Append(queue, i_data)

(* Nothing is asked for, or it cannot be granted.                          *)
Refuse == /\ ~InReset
          /\ i_rd => queue = <<>>
          /\ i_wr /\ ~i_rd => Len(queue) >= Capacity
          /\ UNCHANGED queue

ReadPort == \/ /\ i_rd
               /\ out' \in Data
               /\ queue # <<>> => out' = Head(queue)
            \/ ~i_rd /\ UNCHANGED out

Next == (Flush \/ Take \/ Offer \/ Refuse) /\ ReadPort

Spec == Init /\ [][Next]_vars
=============================================================================
