-------------------------------- MODULE Xbus --------------------------------
(***************************************************************************)
(* The external bus gateway of the CPU, neorv32_xbus.vhd, in the           *)
(* configuration of neorv32_wrap.vhd: no register stage, no atomic         *)
(* accesses, xbus_err_i tied low.  pending is the upper bit of the code's  *)
(* two; the lower one is set by atomic accesses only.                      *)
(***************************************************************************)
EXTENDS Naturals

CONSTANT TIMEOUT_VAL

VARIABLES
  rst,                      \* inverse of rstn_i
  bus_req_stb, xbus_ack_i,  \* ports
  pending, timecnt, timeout

regs == <<pending, timecnt, timeout>>

(* The counter has index_size_f(TIMEOUT_VAL) + 1 bits and is cleared after *)
(* at most TIMEOUT_VAL + 2 clocks: it never wraps.                         *)
Width == 2 * (TIMEOUT_VAL + 1)

InReset == rst \/ rst'

Cleared == InReset /\ pending' = FALSE /\ timecnt' = 0 /\ timeout' = FALSE

(* Faulty variant of Idle: the counter is not restarted for the next access. *)
IdleKeepsCount == /\ ~InReset /\ ~pending
                  /\ UNCHANGED timecnt
                  /\ pending' = bus_req_stb
                  /\ timeout' = (timecnt = TIMEOUT_VAL)

Idle == /\ ~InReset /\ ~pending
        /\ timecnt' = 0
        /\ pending' = bus_req_stb
        /\ timeout' = (timecnt = TIMEOUT_VAL)

(* Faulty variant of Access: the counter stands still.                     *)
AccessWithoutCount == /\ ~InReset /\ pending
                      /\ UNCHANGED timecnt
                      /\ pending' = ~(xbus_ack_i \/ timeout)
                      /\ timeout' = (timecnt = TIMEOUT_VAL)

Access == /\ ~InReset /\ pending
          /\ timecnt' = (timecnt + 1) % Width
          /\ pending' = ~(xbus_ack_i \/ timeout)
          /\ timeout' = (timecnt = TIMEOUT_VAL)

Clock == Cleared \/ Idle \/ Access

PowerUp == pending = FALSE /\ timecnt = 0 /\ timeout = FALSE

(* Faulty variant of xbus_stb: the strobe is held until the answer.        *)
xbus_stbHeld == bus_req_stb \/ pending

xbus_stb == bus_req_stb
xbus_cyc == bus_req_stb \/ pending

(* Faulty variant of bus_rsp_ack: not gated by pending.                    *)
bus_rsp_ackUngated == xbus_ack_i

bus_rsp_ack == pending /\ xbus_ack_i
bus_rsp_err == pending /\ timeout
=============================================================================
