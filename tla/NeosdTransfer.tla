---------------------------- MODULE NeosdTransfer ----------------------------
(***************************************************************************)
(* A program that uses the SD controller, the controller, and a card.  The *)
(* program calls neosd_cmd_commit with neosd_cmd_wait_res, and with        *)
(* neosd_wait_idle (a busy response), neosd_app_read_block, and at last    *)
(* neosd_write_block of example/hello_sd/main.cpp; it may pause before     *)
(* every access.  The card is the environment: it moves on the rising edge *)
(* of its clock, and answers a command within the times that the SD        *)
(* specification allows, or not at all.                                    *)
(***************************************************************************)
EXTENDS Neosd

CONSTANTS
  Operations,      \* what the program does, of the six below
  Divs,            \* values of CTRL_CLK_DIV
  MaxRespDelay,    \* bound: clocks from a command to its response
  MaxDataDelay,    \* bound: clocks from a command to its data
  MaxBusy          \* bound: clocks for which the card is busy

ASSUME ProgramAssumption ==
  /\ Operations \subseteq {"silent", "command", "long", "busy", "read", "write"}
  /\ Divs \subseteq 0 .. 15
  /\ MaxRespDelay \in Nat /\ MaxDataDelay \in Nat /\ MaxBusy \in Nat

VARIABLES
  op, at, todo, old, fetched,              \* the program
  bits, answers, resp, data, held,         \* the card
  got, words, taken                        \* history: words of the response
                                           \* and of data that the program has
                                           \* moved, data bits the card has got

program_vars == <<op, at, todo, old, fetched, answers, got, words>>
vars == <<neosd_vars, program_vars, bits, resp, data, held, taken>>

-----------------------------------------------------------------------------
(* The card.  resp and data count up to 0 while an answer is to come; a    *)
(* positive number is the bit of the answer that is on the line.           *)

cmd_line == IF resp > 0 THEN resp ELSE High
dat_line == IF held > 0 THEN Low ELSE IF data > 0 THEN data ELSE High

RespWords == CASE CMD.RMODE = "NONE" -> 0 [] CMD.RMODE = "SHORT" -> ShortWords
               [] CMD.RMODE = "LONG" -> LongWords
LastRespBit == FirstBits(CMD.RMODE) + (RespWords - 1) * RespBits
LastDataBit == Start + BlockWords * WordBits + CrcBits

CommandEnds == cmd_fsm.cmd_oe /\ bits + 1 = CmdBits /\ answers
Receives == dat_fsm.dat_oe /\ dat_fsm.omux = "data"
BlockEnds == dat_fsm.dat_oe /\ dat_fsm.state = "WRITE_STOP"

CardCommand ==
  /\ bits' = IF cmd_fsm.cmd_oe THEN (bits + 1) % CmdBits ELSE bits
  /\ \/ CommandEnds /\ \E d \in 2 .. MaxRespDelay : resp' = -d
     \/ /\ ~CommandEnds
        /\ resp' = IF resp < -1 THEN resp + 1
                   ELSE IF resp = -1 THEN 1
                   ELSE IF resp \in {0, LastRespBit} THEN 0 ELSE resp + 1

(* A busy card takes the line low at most two clocks after its response; a *)
(* written block is followed by its CRC status, a high end bit, and busy.  *)
CardData ==
  \/ op = "read" /\ CommandEnds /\ \E d \in 2 .. MaxDataDelay : data' = -d /\ held' = 0
  \/ op = "busy" /\ resp' = LastRespBit /\ \E d \in 1 .. 2 : data' = -d /\ held' = 0
  \/ BlockEnds /\ data' = -(TokenBits + 1) /\ held' = 0
  \/ /\ ~(op = "read" /\ CommandEnds) /\ ~(op = "busy" /\ resp' = LastRespBit)
     /\ ~BlockEnds
     /\ \/ data < -1 /\ data' = data + 1 /\ UNCHANGED held
        \/ data = -1 /\ op = "read" /\ data' = Start /\ UNCHANGED held
        \/ data = -1 /\ op # "read" /\ data' = 0 /\ held' \in 0 .. MaxBusy
        \/ /\ data >= 0
           /\ data' = IF data \in {0, LastDataBit} THEN 0 ELSE data + 1
           /\ held' = IF held = 0 THEN 0 ELSE held - 1

(* Bits that come in any other order than theirs do not count.             *)
CardTakes == taken' = IF Receives THEN IF dat_reg = taken THEN taken + 1 ELSE taken
                      ELSE taken

Card == \/ ~sd_clk_o /\ sd_clk_o' /\ CardCommand /\ CardData /\ CardTakes
        \/ ~(~sd_clk_o /\ sd_clk_o') /\ UNCHANGED <<bits, resp, data, held, taken>>

-----------------------------------------------------------------------------
(* The program.  at is the access to come; those named after a flag serve  *)
(* that flag, and todo are the flags of this turn of the loop still to be  *)
(* served.  A modification of CTRL is a read, into old, and a write.       *)

Modifications == {"CMD_DONE", "BLK_DONE", "DAT_DONE", "begin_reset", "clear_flags",
                  "end_reset"}

Polled == IF op \in {"read", "write"}
          THEN {"CMD_RESP", "CMD_DONE", "DAT_DATA", "BLK_DONE", "DAT_DONE"}
          ELSE {"CMD_RESP", "CMD_DONE"}

(* Flags are served in the order of the code.                              *)
First(flags) == IF "CMD_RESP" \in flags THEN "CMD_RESP"
                ELSE IF "CMD_DONE" \in flags THEN "CMD_DONE"
                ELSE IF "DAT_DATA" \in flags THEN "DAT_DATA"
                ELSE IF "BLK_DONE" \in flags THEN "BLK_DONE"
                ELSE IF "DAT_DONE" \in flags THEN "DAT_DONE" ELSE "poll"

Continue(flags) == todo' = flags /\ at' = First(flags)
Go(place) == at' = place /\ todo' = {}

Do(bus) ==
  \E crc \in BOOLEAN : Clock(bus, cmd_line, dat_line, crc) /\ Card

Return == op' = "none" /\ Go(IF op = "write" THEN "end" ELSE "call")

Pause == Do(Quiet) /\ UNCHANGED program_vars

(* Except at half the clock of the controller for a write: see CallFast.   *)
Call ==
  /\ at = "call"
  /\ op' \in {o \in Operations : o = "write" => ~(sd_clkhs_i /\ sd_clkdiv_i = 0)}
  /\ answers' \in (IF op' \in {"command", "long"} THEN BOOLEAN ELSE {op' # "silent"})
  /\ Go("commit") /\ got' = 0 /\ words' = 0
  /\ Do(Quiet) /\ UNCHANGED <<old, fetched>>

Mode == CASE op = "read" -> "R" [] op = "write" -> "W" [] op = "busy" -> "BUSY"
          [] OTHER -> "NONE"
Response == CASE op = "silent" -> "NONE" [] op = "long" -> "LONG" [] OTHER -> "SHORT"

(* neosd_write_block at half the clock of the controller, for              *)
(* NeosdFastWrite.cfg only: the run neosd_transfer does without it.        *)
CallFast ==
  /\ at = "call" /\ sd_clkhs_i /\ sd_clkdiv_i = 0
  /\ "write" \in Operations /\ op' = "write" /\ answers' = TRUE
  /\ Go("commit") /\ got' = 0 /\ words' = 0
  /\ Do(Quiet) /\ UNCHANGED <<old, fetched>>

(* neosd_cmd_commit *)
Commit ==
  /\ at = "commit" /\ Go("poll")
  /\ Do(Writes("CMD", [COMMIT |-> TRUE, ABRT_DAT |-> FALSE, DMODE |-> Mode,
                       RMODE |-> Response]))
  /\ UNCHANGED <<op, old, fetched, answers, got, words>>

Poll ==
  /\ at = "poll" /\ Continue(Status \cap Polled)
  /\ Do(Reads("CTRL"))
  /\ UNCHANGED <<op, old, fetched, answers, got, words>>

(* The timeout is much longer than any answer takes.                       *)
Timeout ==
  /\ at = "poll" /\ op \notin {"read", "write"}
  /\ ~answers /\ cmd_fsm.state = "WAIT_RESP"
  /\ Go("begin_reset") /\ Do(Quiet)
  /\ UNCHANGED <<op, old, fetched, answers, got, words>>

ReadResp ==
  /\ at = "CMD_RESP" /\ Continue(todo \ {"CMD_RESP"})
  /\ Do(Reads("RESP"))
  /\ got' = got + 1
  /\ UNCHANGED <<op, old, fetched, answers, words>>

ReadData ==
  /\ at = "DAT_DATA" /\ op = "read" /\ Continue(todo \ {"DAT_DATA"})
  /\ Do(Reads("DATA"))
  /\ words' = words + 1
  /\ UNCHANGED <<op, old, fetched, answers, got>>

(* neosd_write_block has 128 words to write, and then ignores the flag.    *)
WriteWord ==
  /\ at = "DAT_DATA" /\ op = "write" /\ Continue(todo \ {"DAT_DATA"})
  /\ IF words < BlockWords
     THEN Do(Writes("DATA", words * WordBits)) /\ words' = words + 1
     ELSE Do(Quiet) /\ UNCHANGED words
  /\ UNCHANGED <<op, old, fetched, answers, got>>

(* The first half of every modification.                                   *)
Fetch ==
  /\ at \in Modifications /\ ~fetched
  /\ Do(Reads("CTRL")) /\ old' = CTRL /\ fetched' = TRUE
  /\ UNCHANGED <<op, at, todo, answers, got, words>>

Stored == CASE at = "begin_reset" -> old \cup {"RST"}
            [] at = "clear_flags" -> old \ {"CMD_DONE", "DAT_DONE", "BLK_DONE", "CRCERR"}
            [] at = "end_reset" -> old \ {"RST"}
            [] at = "CMD_DONE" /\ op = "write" -> old      \* clears CMD_RESP, read-only
            [] at = "BLK_DONE" /\ op = "write" -> old \ {"BLK_DONE", "CRCERR"}
            [] OTHER -> old \ {at}

Store ==
  /\ at \in Modifications /\ fetched
  /\ Do(Writes("CTRL", Stored))
  /\ fetched' = FALSE /\ old' = {}
  /\ CASE at = "CMD_DONE" /\ op \in {"read", "write"} ->
            Continue(todo \ {"CMD_DONE"}) /\ UNCHANGED op
       [] at = "CMD_DONE" /\ op = "busy" -> Go("wait_idle") /\ UNCHANGED op
       [] at = "BLK_DONE" -> at' = "abort" /\ UNCHANGED <<op, todo>>
       [] at = "begin_reset" -> Go("resetting") /\ UNCHANGED op
       [] at = "clear_flags" -> Go("end_reset") /\ UNCHANGED op
       [] OTHER -> Return
  /\ UNCHANGED <<answers, got, words>>

Abort ==
  /\ at = "abort" /\ Continue(todo \ {"BLK_DONE"})
  /\ Do(Writes("CMD", [COMMIT |-> FALSE, ABRT_DAT |-> TRUE, DMODE |-> "NONE",
                       RMODE |-> "NONE"]))
  /\ UNCHANGED <<op, old, fetched, answers, got, words>>

(* neosd_busy, in neosd_wait_idle and in neosd_reset.                      *)
WaitIdle ==
  /\ at \in {"wait_idle", "resetting"} /\ Do(Reads("CTRL"))
  /\ Go(IF Status \cap {"CMD_BUSY", "DAT_BUSY"} # {} THEN at
        ELSE IF at = "wait_idle" THEN "DAT_DONE" ELSE "drop_resp")
  /\ UNCHANGED <<op, old, fetched, answers, got, words>>

(* neosd_reset drops what the flags may announce.                          *)
DropResp == /\ at = "drop_resp" /\ Go("drop_data") /\ Do(Reads("RESP"))
            /\ UNCHANGED <<op, old, fetched, answers, got, words>>
DropData == /\ at = "drop_data" /\ Go("clear_flags") /\ Do(Reads("DATA"))
            /\ UNCHANGED <<op, old, fetched, answers, got, words>>

Access == \/ Call \/ Commit \/ Poll \/ Timeout
          \/ ReadResp \/ ReadData \/ WriteWord \/ Fetch
          \/ Store \/ Abort \/ WaitIdle
          \/ DropResp \/ DropData

Init == /\ NeosdInit(Divs)
        /\ op = "none" /\ at = "call" /\ todo = {} /\ old = {} /\ fetched = FALSE
        /\ bits = 0 /\ answers = FALSE /\ resp = 0 /\ data = 0 /\ held = 0
        /\ got = 0 /\ words = 0 /\ taken = 0

Next == Pause \/ Access

SpecFast == Init /\ [][Next \/ CallFast]_vars

(* The prescaler ticks again and again, the program goes on, and the time  *)
(* for an answer runs out.                                                 *)
Spec == /\ Init /\ [][Next]_vars
        /\ WF_vars(Next /\ (sd_clkhs_i \/ clkgen_i \/ clkgen_i'))
        /\ WF_vars(Access) /\ WF_vars(Timeout)

-----------------------------------------------------------------------------
(* Types of the controller and of the program.                             *)
TypeOK ==
  /\ NeosdTypeOK
  /\ op \in Operations \cup {"none"} /\ todo \subseteq Polled
  /\ old \subseteq CtrlBits /\ fetched \in BOOLEAN /\ answers \in BOOLEAN
  /\ got \in 0 .. LongWords /\ words \in 0 .. BlockWords
  /\ taken \in 0 .. BlockWords * WordBits

(* Every word of data that the program reads is the next word of the       *)
(* block, whole: no bit of it is missed or taken twice, whatever stops the *)
(* card's clock, and however late the word is read.                        *)
DataInOrder == [][op = "read" /\ words' > words => dat_reg = words' * WordBits]_vars

(* The same for the words of a response.                                   *)
ResponseInOrder ==
  [][got' > got => resp_reg = FirstBits(CMD.RMODE) + (got' - 1) * RespBits]_vars

(* The driver clears flags by reading and writing CTRL, which the hardware *)
(* changes too.  A write never takes away a flag that the program polls,   *)
(* or a CRC error, when the read before it has not shown it.  (DAT_DONE of *)
(* a busy response can go that way: neosd_wait_idle does not look at it.)  *)
NoFlagLost ==
  [][op # "write" /\ fetched /\ ~fetched' =>
       (CTRL \cup Raised) \cap (Polled \cup {"CRCERR"}) \subseteq old]_vars

(* An operation returns only when both state machines are idle, with every *)
(* flag served and nothing committed or aborted any more, after a timeout  *)
(* and its reset as well as after a block: the next command is not ignored *)
(* ("FIXME: Wait for controller IDLE", neosd_app.cpp:276), and is answered *)
(* by its own flags only.                                                  *)
CleanBetween ==
  at = "call" =>
    /\ cmd_idle /\ dat_idle /\ ~CMD.COMMIT /\ resp <= 0
    /\ Status \subseteq {"CRCERR"} /\ Raised = {}

(* A response and a block are complete when the operation returns.         *)
AllMoved ==
  [][op # "none" /\ op' = "none" /\ at # "end_reset" =>
       /\ got = CASE Response = "NONE" -> 0 [] Response = "SHORT" -> ShortWords
                  [] Response = "LONG" -> LongWords
       /\ op \in {"read", "write"} => words = BlockWords]_vars

(* neosd_wait_idle after a command with a busy response waits for the end  *)
(* of busy: the state machine starts to look at the line when the card has *)
(* taken it low, though this "is not specified" (neosd_cmd_fsm.sv:171).    *)
BusyWaited == [][op = "busy" /\ op' = "none" => data = 0 /\ held = 0]_vars

(* Card and controller never drive a line at once, after an abort either.  *)
NoContention == /\ cmd_fsm.cmd_oe => resp <= 0
                /\ dat_fsm.dat_oe => data <= 0 /\ held = 0

(* A written block is reported as done when the card has got every bit of  *)
(* it, in order, and is not busy any more.                                 *)
BlockWritten ==
  op = "write" /\ dat_fsm.block_done => taken = BlockWords * WordBits /\ held = 0

(* Every operation but neosd_write_block returns.                          *)
Returns == op \in Operations \ {"none", "write"} ~> op = "none"
=============================================================================
