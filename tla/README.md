# A TLA+ model of the sigma-delta ADC SoC

This directory models the digital part of the sigma-delta ADC and of the
system-on-chip it sits in (`src/src/hdl`, with the SD controller and the
processor's bus gateway from `src/ext`), and the programs that meet the
hardware where it is hardest: the driver of the SD controller, and the flash
bootloader with its client. The modules are checked by TLC on
small instances; the theorems are proved by TLAPS for every value of the
constants. `PROJECT.json` lists the runs, the lines of the source that every
definition models, the faulty variants that each property must catch, the
hazards and the findings.

## 1. The system

A comparator and an RC network outside the chip turn an analogue input into a
bitstream. The bitstream is sampled (`sd_sampling.v`), decimated by a
third-order CIC filter (`cic_decimator.v`), and goes two ways: into a register
file that the CPU reads over Wishbone (`adc_wb_regfile.v`), and through a FIFO
(`sfifo.v`) to an I2S transmitter (`i2s_master.v`). The CPU (NEORV32) reaches
its slaves through a bus gateway (`neorv32_xbus.vhd`) and a crossbar
(`wb_xbar.v`): the ADC, a pad register file (`io_wb_regfile.v`) and an SD card
controller (`neosd`). `adc_standalone_top.v` is the same converter on an FPGA
board, with LEDs. The SD controller moves blocks between a driver that polls
its flags and a card that runs on the controller's clock. The processor starts
from an SPI flash with a bootloader (`bootloader_xip.c`), which a program on a
PC (`neorv_sh.py`) asks over a serial line to erase, write and read it.

| component | state | operations (one clock each) | talks to | what makes it correct |
|---|---|---|---|---|
| `sd_sampling.v` | one register | sample, reset | comparator → decimator | the bitstream is 0 in reset, else ±1 |
| `cic_decimator.v` | three integrators, a counter, a strobe, three combs, output and its valid | integrate, count, comb, reset | bitstream → register file, FIFO | exact triple moving sum although every register wraps; one output per R samples |
| `sfifo.v`, `sfifo_mem.v` | two pointers, memory, read port | accept, read, refuse, reset | decimator → transmitter | a bounded queue; order kept; never over- or underrun |
| `clock_generator.v` | counter, four enables | count, reset | → transmitter | enables in step with each other |
| `i2s_master.v` | mclk, sclk, lrclk, bit counter, shift register, request, ready, input register | toggle, load, shift, fetch, hold, reset | FIFO → codec | I2S alignment; every word once, in order |
| `adc_soc.v` (`sd_adc_top`) | the delayed read strobe | wiring | all of the above | no accepted sample lost, doubled or overtaken |
| `adc_wb_regfile.v` | sample, flag, read data, ack, control | latch a sample, read, write, soft reset | crossbar, decimator | a sample is announced until it is read, and only until then |
| `wb_xbar.v` | none | decode, gate strobe and cycle, OR the answers | gateway ↔ slaves | the addressed slave answers, and no other |
| `neorv32_xbus.vhd` | pending, timeout counter, error | strobe, wait, time out, answer | CPU ↔ crossbar | every access ends, once |
| `io_wb_regfile.v` | direction and function of the pads, read data, ack | read, write by byte lane | crossbar → pads | a write changes its own register |
| `adc_standalone_top.v` | LED register | show the value | decimator | LEDs follow the value |
| `neosd` (controller) | clock divider, command and data state machines, their shift registers and counters, flags, command register | access, strobe, shift, stall, flag, abort | crossbar ↔ card | no bit lost or taken twice, no flag lost, idle when it says so |
| `neosd_block.cpp`, `neosd_app.cpp`, `neosd_write_block` (driver) | program counter, what it read from CTRL, words moved | commit, poll, read, write, clear a flag, abort, reset | controller | an operation returns, complete, and leaves nothing behind |
| `bootloader_xip.c` | mode, command, address, length, page | stop the auto boot, take a byte, erase, program, read, boot | UART ↔ SPI flash | the flash takes every command; what is answered is done |
| `neorv_sh.py` (client) | requests to send, replies to read | poke, erase a sector, write an image, read, read the status, demo, reset, execute; give up a read after a second | user ↔ UART | one request at a time; an image arrives whole |
| SPI flash (external) | cells, write-enable latch, change under way | enable, erase, program, finish, lose power | bootloader | — |
| pad multiplexer, banks | none | wiring | pads | — |

Third-party code (NEORV32 and its generated netlists, FatFs), the build and
layout scripts, and the analogue stimuli of the testbenches are not modelled.

### What is hard

* Several state machines run in lock-step without handshakes: the decimator,
  the clock generator and the transmitter leave reset at different phases; the
  FIFO's memory has a single port and nothing arbitrates between the sample
  and the read, because `o_ready` is not connected.
* Decisions are taken on values that are a clock or two old: the transmitter
  tests the FIFO's `empty` two clocks before the read, and takes the read port
  *before* the read whose word it is to hold.
* Registers wrap by design (integrators, pointers, counters), and a comparison
  by equality (`full`) is only right as long as the pointers never drift.
* Resets come at any clock; some registers are not reset at all (combs, FIFO
  memory, read port), some asynchronously and others only at the next edge.
* On the bus, data and acknowledges of all slaves are ORed, acknowledges come
  one clock late and, for the pad registers, last one clock too long.
* A sample may arrive in the very clock in which the CPU reads the register.
* A flag is set by the hardware in a register that the driver changes by
  reading and writing it; a command commits itself away whether a state
  machine has taken it or not; either state machine can stop the card's clock
  under the other.
* Outside the chip things fail: a card may not answer, and a timeout resets the
  controller in the middle of a wait; power may fail while the flash is erased
  or programmed, and what was being changed holds anything afterwards; the
  receiver of the bootloader holds one byte, and a byte that is lost shifts the
  meaning of all that follow.

## 2. Convention: a state is the circuit before a clock edge

A variable is a register or an input port. A state gives their values just
before a rising edge. Each module has an operator `Clock`, the effect of that
edge on its own registers, written over its ports; a module that composes
others instantiates them with its nets for their ports and conjoins their
`Clock`s, since all registers move together. Alternatives of a register (the
branches of an `always` block) are actions of their own: `Fetch`, `Idle`,
`HoldFetch`, `ResetFetch`.

An asynchronous reset acts on `rst \/ rst'`: from the moment it is asserted,
which is before the next state, until the edge that sees it released. A
synchronous one acts on `rst`.

Where a module has more inputs than it is worth naming as variables (the SD
controller: the access of the bus, the card's lines, the verdict of the CRC
check), they are parameters of its `Clock`. The two `struct`s of the state
machines are records with the field names of the code.

The programs are the other way round: an action is one access of the program
to the hardware, named after the function or the flag it serves, and the
hardware makes as many clocks (`Pause`) between two accesses as it likes. In
`FlashSession`, where nothing depends on clocks, actions interleave: a byte
sent, a byte arriving, a byte taken, a transaction with the flash.

Definitions called *faulty variant of X* are not part of a specification. Each
stands before the `X` it would replace, and each property is known to fail
when the variant takes its place.

## 3. Modules

| module | models | remarks |
|---|---|---|
| `SampleQueue` | what the FIFO promises: a bounded queue with an output register | abstract specification |
| `Sfifo` | `audio/sfifo.v`, `{fpga,sg13g2}/sfifo_mem.v` | `Contents` is the refinement mapping; `ImplementsQueue` instantiates `SampleQueue` with it |
| `SfifoProofs` | — | theorems about `Sfifo` |
| `CicDecimator` | `adc/cic_decimator.v` | `Wrap` is a signed register of finite width |
| `CicIdeal` | the same filter on unbounded integers, in lock-step | reference for the arithmetic |
| `CicProofs`, `MCCic` | — | theorems; the bitstream as history and the triple moving sum that the output must be |
| `ClockGenerator`, `I2sMaster` | `audio/clock_generator.v`, `audio/i2s_master.v` | the 64-bit shift register is the word it was loaded with and the number of shifts since |
| `I2sStream`, `I2sProofs` | both, and the source of `tb_i2s_master.v`; theorems | environment: a source that may have no word for any time |
| `SdAdcTop` | the sample path of `adc/adc_soc.v` | composes decimator timing, `Sfifo`, `ClockGenerator`, `I2sMaster` |
| `SdAdcProofs` | — | theorems about `SdAdcTop` |
| `AdcWbRegfile` | `audio/adc_wb_regfile.v` | words are sets of bits, so that OR is union |
| `AdcPolling`, `AdcPollingProofs` | the register file under the programs of `tb_sigma_delta.v` and `tb_wb.v`, and under any software | a program reads at the addresses its code gives; masters that strobe for 3, 2 or 1 clocks; theorems |
| `IoWbRegfile`, `WbXbar`, `Xbus` | `io/io_wb_regfile.v`, `wb_xbar.v`, `neorv32_xbus.vhd` | |
| `SocBus`, `MCSocBus`, `SocBusProofs` | the bus of `soc_top.v` | composes gateway, crossbar, ADC, pads, and the SD controller's INFO register; theorems |
| `StandaloneTop` | `adc/adc_standalone_top.v`, `sd_sampling.v` | the value and the LEDs |
| `NeosdClk` | `neosd_clk.sv`, `neosd_clken.v` | strobe, and the clock of the card, which can be stopped |
| `NeosdCmdFsm`, `NeosdDatFsm` | `neosd_cmd_fsm.sv`, `neosd_cmd_reg.sv`; `neosd_dat_fsm.sv`, `neosd_dat_block.sv`, `neosd_dat_reg.sv` | one action per state of the state machine; a shift register is the number of the bit last shifted |
| `Neosd` | `neosd_top.sv` | composes the three; registers and flags |
| `NeosdTransfer` | `neosd_cmd_commit`, `neosd_cmd_wait_res`, `neosd_wait_idle`, `neosd_reset`, `neosd_app_read_block`, `neosd_write_block` | program, controller, and a card as the environment |
| `NeosdProofs` | — | theorems about `NeosdTransfer` |
| `SpiFlash` | — (external, from its use) | latch, busy time, pages that wrap around, power loss |
| `XipBootloader` | `bootloader_xip.c` (and the tiny version, which is its auto boot) | one transaction with the flash is one step; a receiver of one byte |
| `FlashSession`, `FlashProofs` | `neorv_sh.py`; theorems | client, user, line, bootloader, flash and power |

Data is abstract wherever no property looks into it. Samples and words are
numbers given in the order of acceptance, counted modulo `Labels`; `Labels` is
larger than the number of words that can be under way, so equal numbers are
the same sample. A bus word is the set of its 1-bits. Only the decimator
computes, and there the width is the point.

The registers of the SD controller follow the same idea. A line carries the
number of the bit that is on it, a shift register holds the number of the bit
that was shifted last, and a word is right if its last bit is the last bit of
that word. A bit that is missed, taken twice or taken from an idle line shows
as a wrong number, with no bits to enumerate. The bits that matter to a state
machine keep their level (the start bit, low while busy); every other bit of
data and of a response is either. The verdict of a CRC check is an input.

In `FlashSession` the bytes are numbers, because that is what makes the
protocol hard: a byte of an image can be read as a command if the two sides
lose step. One byte stands for the four of an address and of a length.

Two things in `adc_soc.v` shape `SdAdcTop`. The wires `i2s_enable`,
`software_rst` and `fifo_threshold` have no driver, so they are arbitrary
constants of a behaviour; the register file's `adc_enable`, `soft_rst` and
`continuous` outputs are not connected, and therefore change nothing in the
sample path. (`tb_sd_adc_psoc.v:149-150` writes a register to switch
`i2s_enable` on; no register drives it.) And samples come every 256 clocks
while a frame takes 64 bits of 32 clocks: eight samples per frame. The FIFO
fills and stays full, and seven samples of eight are refused.

The pad register file's memory map (`io_wb_regfile.v:8-10`) speaks of bits 0
to 31; 22 pads exist and are stored, the other bits read 0. `IoWbRegfile` has
`PadBits` for it.

## 4. Runs

| run | instance | what it shows |
|---|---|---|
| `sfifo` | 4 words, two values | `TypeOK`: the pointers keep to their bits; `ImplementsQueue` |
| `cic` | R = 2, 5-bit words, 15 clocks, reset after 7 | `RegistersCongruent`: wrapping registers equal the ideal ones modulo the width; `OutputExact`; `OutputIsMovingSum`: the output is the triple moving sum, from the sixth output after a reset, and a fixed 3R + 3 clocks old; `OneOutputPerR` |
| `i2s_stream` | real sizes (divider 16, 64 bits) | `LrclkOneBitEarly`, `EveryWordSentOnce`, `SclkOnMclkEdge` |
| `sd_adc` | 8 samples per frame, 4 words | `NoSampleLostAfterAcceptance`, `ReadOnlyNonEmpty`, `StoredWhenNotFull`, `AcceptedIsSent`, `FifoStaysFull` |
| `polling` | three programs, a sample per 7 clocks, up to 8 clocks between accesses | whatever is read, and when: `ReadyMeansNew`, `LostOnlyInReadStrobe`; the loop of `tb_wb.v` answers every announcement: `ReadyIsRead`; the program of `tb_sigma_delta.v` none: `FakeCpuTakesNothing` |
| `soc_bus` | every page, reads and writes, samples, resets | `AnswerFromAddressed`, `TimeoutOnlyUnmapped`, `ReadAnswersRegisterAndLastAdcWord`, `SoftResetIsPulse`, `RequestAnswered` |
| `neosd_transfer` | every kind of command, at two dividers and the high-speed clock, a card with any delays in bounds or none at all | `TypeOK`; every word of data and of a response is read whole (`DataInOrder`, `ResponseInOrder`), all of them before the call returns (`AllMoved`); no flag is lost to a read-modify-write (`NoFlagLost`); after a call, a timeout with its reset, or an abort the controller is as new (`CleanBetween`); nobody drives against the other (`NoContention`); busy is waited for (`BusyWaited`, `BlockWritten`); every call but the write returns (`Returns`) |
| `flash_session` | every command of the client: writes of three images, erases, reads, status, pokes, demo, resets, executions; one power failure at any point | `TypeOK`; requests and replies stay in step (`RequestResponse`, `KnownAnswered`); the flash ignores nothing (`NothingRefused`); `AckedStays`, `ImageWritten`; every command ends (`Ends`) |

Four runs show a disagreement between the code and what it says of itself; TLC
finds the behaviour:

* `xbar_quiet_slaves`: `wb_xbar.v:5` assumes slaves that drive 0 when not
  read. The ADC register file keeps its last read data on the bus, so a later
  read of a pad or SD register returns the OR of both. What does hold is
  `ReadAnswersRegisterAndLastAdcWord`.
* `standalone_led`: the LED pattern is an exact match on eight small even
  values; other values switch all LEDs off.
* `neosd_late_response`: the search for the start of a response goes on while
  the clock of the card is stopped (`neosd_cmd_fsm.sv:145`; the comment below
  says it does not). If a response starts while a full word of data waits to
  be read, the state machine sees the start bit again without a clock, begins
  to count before the third bit is there, and cuts every word one bit short
  of its place. It takes a card that sends data before the response.
* `flash_double_poke`: the byte that stops the auto boot is answered but not
  taken from the receiver, and answered again by the main loop. The trace ends
  where client and bootloader are a reply apart: the client has the first
  answer and is about to send its next request, while the surplus answer is
  under way and will be taken for the reply to it. What follows, when that
  request is an erase, is a client that sends on while the bootloader polls
  the flash. The run `flash_session` has `Careful` users, who leave and start
  the client anew after that first poke: a client that starts drops what the
  line has brought.

Two more are stated by properties that hold, of what the code does instead:

* `FakeCpuTakesNothing` (run `polling`): the "Fake CPU" of `tb_sigma_delta.v`
  polls STATUS then reads DATA, says its comment (line 201); the address it
  reads (line 221) is 0, which is CTRL. The flag that it polls is never taken
  back, and from the first sample on it prints the control register. With the
  address of DATA in its place (`FakeCpuReadsData`) TLC refutes the property.
* `KnownAnswered` (run `flash_session`): `demo` is documented to copy a program
  to 0x400000 (`neorv_sh.py:102`). It sends a command that the bootloader does
  not have. No reply comes and nothing is written. Requests and replies do stay
  in step, and every other request is answered.

Five hazards are outside of what those runs assume. Each assumption has a
configuration that drops it, and TLC then finds a property of the run violated
(`tlc -config FlashSlowErase.cfg FlashSession`). They are kept out of the list
of runs, which is for what holds and for what a comment says wrongly.

* `FlashLongRead.cfg`, `KnownAnswered`: pyserial's `timeout=1` is for the whole
  `read(data_len)`. A `flash_read` of more bytes than the line brings in a
  second (11520) ends before the data does, and the client breaks down when it
  prints what is missing. `SecondBytes` is that number.
* `FlashSlowErase.cfg`, `ImageWritten`: an erase that takes longer than the
  client's second, here up to two (`EraseInTime` is `FALSE`). The client goes
  on to its next request while the bootloader polls the flash; of the bytes
  that come meanwhile one is kept. The client prints "Finished" without the
  image in the flash.
* `FlashUnaligned.cfg`, `ImageWritten`: an image at an address that is not a
  multiple of four. `flash_write` of the bootloader programs four bytes at a
  time from any address, and the flash puts the end of a chunk that crosses a
  page at the start of that page, over what is there.
* `FlashLastSector.cfg`, `ImageWritten`: an image that ends with the memory,
  which the client accepts (`neorv_sh.py:191` compares with `>`). The sector
  *behind the memory* is erased, too: the flash does not see the bit above its
  size and erases sector 0, whatever is there.
* `NeosdFastWrite.cfg`, `BlockWritten`: at the high-speed clock with divider 0
  the card's clock lags its strobe so far that the CRC status of a written
  block is sampled one strobe too early, and the block is reported as done
  (`main.cpp:466`) while the card takes its line low. The register offers that
  clock; the example does not use it, and no run writes at it.

A comment needs no run: `wb_xbar.v:65` gives 0xF0000000 as the address of the
ADC, and the next line but one compares with 0xFFD3.

One expected fault is *not* there. The FIFO drops a sample that meets a read,
and nothing in `adc_soc.v` prevents the meeting. It never happens, because the
decimator and the transmitter are released by the same reset: the first bit
starts at most one enable period later, and the read that follows a bit's fall
misses the sample by at least one clock. `StoredWhenNotFull` is checked for one
pair of ratios and proved for all (section 6). It depends on the decimation
ratio being a multiple of a bit period; `OSR_BITS` below 5 would break it.

Facts that came out of the modelling and shape the properties:

* `neosd_write_block` clears `CMD_RESP`, which is read-only, where it means
  `CMD_DONE`. So `CMD_DONE` stays up and `CTRL` is rewritten in every turn of
  the loop; `BLK_DONE` can rise between the read and the write, and the loop
  then never ends. `NoFlagLost` and `Returns` leave the write out for that
  reason; `BlockWritten`, `CleanBetween` and `NoContention` include it.
* `Call` does not write at the high-speed clock with divider 0, because of
  what `NeosdFastWrite.cfg` shows; `CallFast` is for that configuration alone.
* `DAT_DONE` of a busy response can be lost in the same way. It is harmless:
  `neosd_wait_idle` looks at the busy bits only.
* A command committed while the state machine is in its tail is dropped without
  a trace, since `COMMIT` clears itself. `CleanBetween` is why the driver never
  does it.
* An image that ends at the end of a sector has the next sector erased, too;
  `ImageWritten` allows for that sector and for no other. At the end of the
  memory there is no such sector (`FlashLastSector.cfg`); `FlashWritten`
  (section 6) has `EndsBelow` for it, and `Aligned` for `FlashUnaligned.cfg`.
* The client looks at no reply but those that it prints: that of a read and
  the status byte. It prints "Finished" whatever came. That the image is in
  the flash by then is due to the bootloader alone, and to replies that come
  within the second for which the client waits. `InTime` says so: an erase
  ends in time, and nobody reads more than the line can bring. A read gives up
  (`ReadTimeout`) when the board waits or is gone (`Silence`), when the second
  ends in the middle of a long read (`LongRead`), or of an erase (`SlowErase`).
* Nobody promises that no sample is overwritten. `tb_wb.v` reads once in a
  thousand clocks, and a sample comes every 256; the register file has no flag
  for it. `LostOnlyInReadStrobe` speaks of the newest sample.
* With `TIMEOUT_VAL` = 1 the gateway would abort the second of two accesses
  back to back; `TimeoutAssumption` asks for 2, `neorv32_wrap.vhd` has 255.
* `fifo_ready` of the transmitter is cleared only while `clk_en` is high. The
  repository never gates it while it runs, and `I2sStream` holds it high.

### Bounds, and why they are enough

* **FIFO**: depth 4 lets the pointers wrap at 8 with every fill level at every
  position; the theorems cover every depth.
* **CIC**: R = 2 has a gain of 8, which needs 5 bits with its sign: the
  smallest width for which the output is still exact. The integrators overflow
  after six clocks, so 15 clocks contain several wraps; the reset after 7 leaves
  dirty combs, and 8 clocks after it. `MaxClocks` bounds the history,
  which is why this run (and that of `StandaloneTop`) switches the
  deadlock check off. Width, ratio and length are free in the theorems.
* **Sample path**: R = 4, 8 bits, Div = 2 keep the two relations that matter,
  eight samples per frame and a whole number of bits per sample, and keep the
  margin of exactly one clock between read and sample.
* **I2S**: not reduced.
* **Bus**: the timeout is 3 clocks instead of 255; every slave answers in one
  clock, so 3 separates answering from timing out. Words have three bits: one
  that a flag uses, one that a sample uses, and one in another byte lane.
  `MCLowHalf` stands for the bits that CONFIG stores (`adc_wb_regfile.v:90`) and
  leaves one bit above them. `MCRequests` has every kind of register behind every page, one unmapped page,
  and the page wired to nothing.
* **Polling**: a sample every 7 clocks and pauses of 0 to 8 between accesses
  of 2 or 3 clocks: a program may read a sample twice, once, late, or not at
  all before the next one, and every phase between the two occurs, the clock of
  the strobe included. The run needs no relation between the two rates.
* **SD**: a command of 2 bits; responses of 2 and 3 words of 5 bits, whose
  first words have 5 and 4 (in the code 32, 16 and 8: a short first word must
  still be longer than the three bits that are in the register when counting
  begins); blocks of 4 words of 4 bits, 2 CRC bits, a token of 3, tails of 2.
  Four words are enough for a first, a last and two between, so that a word
  can become ready while the one before it is read. Counters start, end and
  reset as in the code, only earlier. Answers come at most 4 clocks after
  the command (`MaxRespDelay`, `MaxDataDelay`), which is before a first word of
  data is complete; the run with 5 is `neosd_late_response`. Dividers 0 and 1,
  any prescaler with pulses at least two clocks apart, and the high-speed bit
  cover the distances of strobes that can matter.
* **Flash**: 2 sectors of 16 bytes, pages of 4, program chunks of 2, one page
  per write request. Addresses are multiples of the chunk, which is the care of
  the user (section 4); lengths are, because `np.fromfile` with dtype 'I' cuts
  an image to a multiple of four. Images of
  4, 10 and 14 bytes at 6 are one request or several, with a rest or with an
  empty last request, inside a sector, up to its end, and across two. Erases are of a
  sector of the image, or of one by an address in its middle; a read has 10
  bytes, and a second `SecondBytes` = 14, so that `LongRead` is possible only
  in `FlashLongRead.cfg`, where it is 4.
  One power failure, at every point; it takes the serial adapter with it and
  ends the client.

## 5. Fairness

In the hardware modules the only fairness is weak fairness of `Next`: the clock
keeps ticking. Every register moves at every edge, so nothing weaker can be
assumed of the hardware, and nothing stronger is. Choices of the environment
(resets, pauses, requests, the sample stream) are not fair: liveness properties
either allow for a reset or hold whatever the environment does. That a
program of `AdcPolling` makes its next access is forced by the bound on pauses
(`MaxPause`), not by fairness: the loops of both testbenches have fixed ones.

`NeosdTransfer` adds what a program needs: the prescaler, which is free to
pause for any time, ticks again and again (`WF` of the steps in which it does);
the program makes its next access some time (`WF(Access)`); and a timeout that
runs has an end (`WF(Timeout)`). The card needs none, since its delays are
bounded and counted in clocks.

In `FlashSession` the machines go on: client, line, bootloader, and an erase or
program of the flash that is under way, as one weak fairness of their
disjunction, because they never wait for each other while another could move
for ever. The user, power failures and the end of the auto-boot time are not
fair; a command must end without them.

## 6. Proofs

All proofs are for every value of the constants, under the named assumptions
of the modules; TLC evaluates those assumptions in the runs.

**`SfifoProofs`** (assumption: the depth is a positive natural number).
`TypeCorrect` and `FillStaysInRange` follow from one inductive invariant,
`IInv == TypeOK /\ FillInRange`: neither is inductive without the other, since a
write keeps the distance in range only if it was not `Depth` exactly, and the
test for `Depth` is exact only while the pointers are in their range. The lemmas
`SuccIs`, `FillIs` and `SlotIs` replace the remainders by case distinctions.
`Implementation` shows that `Contents` maps the initial states to those of
`SampleQueue` and every step to one of its steps or to a stutter; it rests on
`WriteAppends` (writing behind the stored words appends to them) and
`ReadDrops` (moving the read pointer removes the oldest).

**`CicProofs`** (assumptions: R at least 2, positive widths; `GainAssumption`,
that a register holds R³, which the code asks for at `cic_decimator.v:16`; and
`StaleAssumption`, that what the combs hold at power-up are words).
`WrapAroundIsModular`: every register stays congruent to that of the unbounded
filter, by induction over the clocks, because sums and differences preserve
congruence and a wrap changes a value by a multiple of the width.
`OutputIsExact`: if the ideal third comb fits the word, the circuit's equals it
— two congruent members of one word range are the same. `OnePerRatio` proves
`OneOutputPerR` of the history that `MCCic` keeps, for every ratio: by
`CountInv` the number of outputs is the number of ratios in the clocks since
the reset, less the pipeline's two, and the counter is the rest.
`FilterIsMovingSum` proves `OutputIsMovingSum`, what the filter is for, of
`FilterSpec`: any bitstream, of any length, with a reset at any clock; the
specification of the run is an instance of it (`BoundedIsSampled`). The
invariant is `FilterInv`, of three parts: `CicInv` makes the output exact,
`CountInv` says when it is put out, and `SumInv` what the ideal registers hold
— the integrators the running sums `A1`, `A2`, `A3` of the bits, 0, 1 and 2
clocks late, and the combs their differences `D1`, `D2`, `D3` over R clocks,
each one output later than the comb before it, and only once the ones before it
have got rid of what the reset left. `SumInv` speaks of every stream that begins
with the bits so far, so that a clock changes what is known of a stream and
never the stream. The rest is about sums: `TotalSplit` (any term may be taken
out of a sum), `MovingIs` (a moving sum gains the new value and loses the one R
clocks old), `Cascade` (an integrator and a comb make a moving sum, and commute),
hence `StagesAreMovingSums`, and `WindowBound` and `StagesFit`, that R³ bounds
the result. These need induction over the natural numbers, which the library
states with an operator parameter; `NatBySet` is induction over a set, from the
library's fact that < is well-founded, and is all that was needed. The reference
of the property used to be the convolution with precomputed weights; it is now
the sum of the sum of the sum, which says what it means and could be reasoned
about. TLC finds the same behaviours right and the same faulty variants wrong.

**`I2sProofs`** (assumptions: an even frame of at least 4 bits, enables whose
ratios divide the period and include 4 and 16, `Silence` is no word).
`FramesAreAligned` needs `Aligned`: the shift register is one bit behind the
counter that drives `lrclk`, whenever it carries a word. `WordsInOrder` needs
`Asking`: a request is up at the first bit of every frame, and otherwise only
at the last bit after a reset, when there is no word to lose; and an
acknowledge comes with `sclk` low, so that no second request can follow it in
the next clock. `ClocksAreLocked` needs that a multiple of 16 is one of 4.

**`SdAdcProofs`** (assumption `RatioAssumption`: divider at least 2, decimation
ratio a multiple of two dividers, positive depth). `NoCollision` proves
`StoredWhenNotFull`. The property says nothing of phases, so it is far from
inductive. `IInv` adds where each strobe stands: a sample is offered when the
decimator's counter is 2; a request is up one clock after an enable, and the
read two; and `Ahead`: the decimator's count, modulo a bit, is ahead of the
transmitter's phase by the number of clocks `d < Div` between the release of
the reset and the first enable. A read has phase `Div + 2` and a sample has
time 2, so a meeting would need `d = Div`. The lemmas are about counting:
`Increment` and `TimePasses` (counting modulo R is counting modulo a bit),
`PhaseGrows`, `AheadStays`, `AheadAtRelease`.
`NeverReadsEmpty` proves `ReadOnlyNonEmpty` from the same invariant with two
more parts: `Filled` (as in `SfifoProofs`: a write never takes the pointer all
the way round to look empty) and `Provided` (from the request to the read there
is a word; no other read comes between, since a request is one clock after an
enable and a read two).
`NoSampleLost` proves `NoSampleLostAfterAcceptance`, the property the path is
there for: what was accepted is what was sent, followed by what is on its way
in the transmitter, followed by what the FIFO stores, for every depth and
frame. `OInv` joins the parts above with `Numbered` (what the FIFO stores are
consecutive samples; the oldest is the one after the last that was read),
`Asking` (in which bits a request may be up and a word is on its way) and
`InOrder`. That a write appends to the stored words and a read drops the
oldest is not proved again: the module instantiates `SfifoProofs` with its nets
and cites its lemmas. `SlotsAssumption` and `LabelsAssumption` say that the
labels outnumber the samples under way, so that equal labels are the same
sample, and that silence is no label.
`FramesGoOn` is what the liveness property `AcceptedIsSent` rests on. While the
transmitter is enabled and not reset, `ToLoad`, the clocks to the next load,
falls with every clock and starts again at a whole frame; and every load sends
the word that the transmitter holds and takes the next, if the FIFO has another
behind it. With `InOrder` this moves the words under way one place per frame,
as long as the FIFO is not empty.

**`SocBusProofs`** (assumptions: the timeout is at least 2; the slaves' words
are words). One invariant, `Inv == TypeOK /\ Access /\ Counting`, carries
`TypeCorrect`, `OnlyAddressedAnswers` and `MappedNeverTimesOut`. `Access`: a
strobe comes only between accesses, and while one is pending the acknowledges
that there are, are those of the addressed slave; the pads' surplus
acknowledge is gone by then because the gateway spends a clock without one.
`Counting`: an access that somebody answers never gets its counter beyond 0,
and the counter is never at the limit when an access begins.
`SoftResetLastsOneClock` and `ReadAnswersExactly` are step properties under it.
`AccessIsShort` is the bound behind the liveness property `RequestAnswered`:
unless it is reset, an access stays pending until it is answered, its counter
goes up by one a clock from 0, and at `TIMEOUT_VAL` + 1 there is an answer; an
existing slave answers after one clock.

**`AdcPollingProofs`** (assumption `PollingAssumption`: there are samples, and
pauses are bounded). `AnnouncedIsNew` and `LostInReadStrobe` hold for each of
the three programs at any rate of the samples. Neither is inductive: `Inv` adds
`TakenByRead`, that from the second clock of a DATA access on the flag is down,
however long the strobe. `AnnouncementIsShort` is the bound behind the liveness
property `ReadyIsRead`: `ToRead`, the clocks to the next strobe of the loop of
`tb_wb.v`, is at most `MaxPause` + 1 and falls with every clock for which the
flag stays up. For the program of `tb_sigma_delta.v` there is no bound:
`NothingTaken` proves `FakeCpuTakesNothing`.

**`FlashProofs`** (assumptions: `StartAssumption`, the bootloader starts in
the auto boot or in its main loop; `StepAssumption`, `BoundAssumption`:
positive sizes, images inside the memory). `NeverRefused` proves
`NothingRefused`: the flash is busy only while the bootloader waits for it, and
between the enable and the command the latch is set. It holds for every
client, also one that has lost step.

The other theorems have two hypotheses: `Careful` users (section 4,
`flash_double_poke`), and `InTime`, replies that take no longer than the
client's second (`FlashSlowErase.cfg`, `FlashLongRead.cfg`). The latter is needed
in one place, that a read gives up only if the board is silent; the rest
follows from the protocol.
`TypeCorrect`, `OneRequestAtATime` and `EveryRequestAnswered` prove `TypeOK`,
`RequestResponse` and `KnownAnswered` from `SInv`, which says where the two sides
stand. A client that was started while the bootloader waited for a command is
in step: it is between two requests, with nothing on the line, or it is served,
and then the request is being heard, worked on, answered by data, answered, or `Ignored`: that is demo, which the bootloader
has taken and does not answer, and the only request whose read gives up; no
late reply to another request is on its way then (`DemoNotAnswered`).
Only in the first case are bytes on their way to the bootloader, and only in
the last two can there be replies on their way back. Any other client does no
more than poke, which the bootloader may answer or not. The loss of a byte in
the receiver, from which the trouble would start, needs a byte that comes while
the bootloader works, and by that invariant there is none.

`PagesStay` proves `AckedStays` (what an answered request has programmed stays
until a later request erases it) and `FlashWritten` proves `ImageWritten` (the
image is in the flash at the end, and nothing else is changed but the sectors
that the client has erased). They rest on `WInv`, the conjunction of `Held`
(what the bootloader has taken in is what the request says), `Harmless` (a
client that does not write has no request that changes what was acknowledged;
an erase takes its sector out of that first), `Ordered`
(the requests left are the last ones of the plan: sectors first, then pages),
`Progress` (every cell is, or is about to be, what the requests so far make of
it: as it was, erased, or the byte of the image) and `Kept` (nothing under way
touches what was acknowledged). TLC found `WInv` invariant on the
instance of `flash_session` before it was proved. Two more hypotheses restrict
the user, and section 4 has what happens without them: `Aligned` (a chunk divides a
page, a request, every address and every length) and, for `FlashWritten`,
`EndsBelow` (no image ends with the memory). The instance of `flash_session`
satisfies all four. The arithmetic of pages, chunks and sectors is in lemmas of
its own: `Divides`, `Multiples`, `ChunkInPage`, `ImageErased`, `ErasedReached`.

**`NeosdProofs`** (assumptions: `ResponseAssumption`, `BlockAssumption` and
`ProgramAssumption`, that sizes are positive and fit the counters of
`neosd_cmd_fsm.sv` and `neosd_dat_fsm.sv`). One invariant, `Inv`, carries
every safety property of `neosd_transfer`: `TypeCorrect`, `CleanAlways`,
`OneDriver`, `DoneIsWritten`, `WordsInOrder`, `ResponseWhole`, `FlagsKept`,
`ReturnsComplete` and `BusyIsOver`. None of them is inductive, since nothing
connects controller and card but the clock that both count. `lead` is the key:
a bit is put on the line at an edge of the card's clock and shifted in at a
strobe, and the strobe comes before the edge, or, at the high-speed clock with
the smallest divider, together with it; `lead` is how many bits the card is
ahead, 0 or 1. With it the invariant says

* `Controller`: the counters are in the ranges of their states, the outputs are
  settled, the clock of the card stops where it must;
* `CmdPlace`, `ReadOK`, `BusyOK`, `WriteShape`: in each state of the two state
  machines, the number of the bit that the card sends or takes is that of the
  shift register, or follows from the counters, plus `lead`;
* `RespFlags`, `CmdFlags`, `DatFlags`, `ReadFlags`, `WriteFlags`: what a flag,
  in CTRL or as the program remembers it, and each place of the program say of
  the states of the two machines, and how many words have been moved;
* `Program`, `CommandOK`, `OtherOK`, `Kept`: where the program can be, what
  the command register holds there, and that what a modification of CTRL
  writes back is not older than what it clears;
* `Clean`: between operations all of this is at rest;
* `Race`: while a block is read, the data is never more than `MaxRespDelay - 2`
  bits ahead of the response.

TLC found the conjuncts of `Inv` invariant, on the instance of `neosd_transfer`
and on smaller ones with other dividers, lengths and sets of operations, before
it was proved. Hypothesis of all the theorems is `InTime`. If there
are reads, the response comes at most a word of data after it may
(`MaxRespDelay <= WordBits`), and it is over before the block is; the second is
true of any real block, of 4096 bits and more against some 120. The first is
what the code relies on without saying so, and it is tight: with one clock
more, `neosd_late_response` (section 4) shows words of the response lost. A
card may answer after 64 clocks by the SD specification, while a word is 32
clocks on one data line and 8 on four. For a program that reads no block
nothing is assumed of the card's delays.

Two things changed in the model on the way. The sizes got the named assumptions
above; before, nothing said that a counter can hold them. And `First`, the
order in which the program serves flags, was a `CASE` whose guards overlap: to
TLC that is the first of them, to the prover any of them. It is now an `IF`
for each flag, in the order of the code.

Only model-checked: all liveness (`AcceptedIsSent`, `FifoStaysFull`,
`ReadyIsRead`, `RequestAnswered`, `Returns`, `Ends`), since it needs ENABLED,
which TLAPS does not handle. Of `ReadyIsRead` and `RequestAnswered` the bounds
are proved, and what is left to TLC is that the clock ticks; of `AcceptedIsSent`
it is proved that frames go on and words move up (`FramesGoOn`), and the rest,
that the last stored word is followed by another sample, is left to TLC.
All safety properties of the passing runs are proved. No module with a theorem
uses a recursive operator.

## 7. What is left out, and the plan

Left out on purpose: the atomic accesses and register stage of
`neorv32_xbus.vhd` (configured off), the comparison with the undriven
`fifo_threshold`, the pads and serial ports of `soc_top.v`, the contents of the
left and right channel (the same sample). Of the SD controller: the CRC
generators and the rotation of the data register for four lines (data paths
without a decision in them), the interrupt masks, writes of the divider and the
bus width while it runs. Of its driver: the contents of responses and the
sequence of commands of `neosd_app_card_init`, multi-block transfers of the
example, `neosd_dbg.cpp` (printing). Of the flash tools: argument parsing,
progress output and the interactive prompt, and a reset of the processor by its
own reset line: the board restarts by the client's command (`RESET`) or by a
failure of its power, which takes the flash with it.

Not modelled: the NEORV32 core and its netlists, the NEORV32 examples and
library, and FatFs are third-party code, and make up almost all of the C of
this repository; what the system does is in Verilog, SystemVerilog, VHDL, a few
hundred lines of C and C++, and a Python client. The pad multiplexer is
combinational wiring, which has no behaviour beyond what its text says. Build
and layout scripts have none at run time.

What could follow:

1. `neosd_app_card_init` as a sequence of commands against a card that is
   absent, old, slow or of the wrong voltage, over an abstract controller that
   answers or times out; and `Neosd` shown to implement that controller.
2. Multi-block reads of the example with the abort between blocks.
3. Proofs: the refinement of item 1, with `Inv` of `NeosdProofs` as the
   invariant that carries it; theorems for programs with reads that assume
   `InTime` only of the reads, not of the commands and writes before them.
