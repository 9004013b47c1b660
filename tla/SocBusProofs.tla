---------------------------- MODULE SocBusProofs ----------------------------
(***************************************************************************)
(* Proofs about SocBus, for every timeout, every set of words and every    *)
(* set of requests.  An existing slave answers in the clock after the      *)
(* strobe, so that the counter of the gateway gets beyond 0 only when      *)
(* nobody answers; and it is never at the limit when an access begins,     *)
(* because it leaves an access at 1 or at the limit plus two.              *)
(***************************************************************************)
EXTENDS SocBus, TLAPS

LEMMA Pages == /\ Addressed("io") <=> req.page = "FFD1"
               /\ Addressed("sd") <=> req.page = "FFD2"
               /\ Addressed("adc") <=> req.page = "FFD3"
               /\ ~Addressed("i2s")
               /\ \A s \in {"io", "sd", "adc"} : Xbar!Selected(s) <=> Addressed(s)
<1>1. /\ Xbar!Page["io"] = "FFD1" /\ Xbar!Page["sd"] = "FFD2"
      /\ Xbar!Page["adc"] = "FFD3"
  BY Zenon DEF Xbar!Page, Xbar!Slaves
<1> QED
  BY <1>1 DEF Addressed, Xbar!Selected

LEMMA Acks == /\ SlaveAck["io"] = io_ack /\ SlaveAck["sd"] = sd_ack
              /\ SlaveAck["adc"] = adc_ack /\ SlaveAck["i2s"] = FALSE
              /\ DOMAIN SlaveAck = Xbar!Slaves
              /\ Xbar!Slaves = {"i2s", "io", "sd", "adc"}
BY DEF SlaveAck, Xbar!Slaves

(* The acknowledges that there are come from the slave that was asked.     *)
AnsweringSlave == /\ io_ack <=> Addressed("io")
                  /\ sd_ack <=> Addressed("sd")
                  /\ adc_ack <=> Addressed("adc")

Answer == io_ack \/ sd_ack \/ adc_ack

LEMMA AnswerIs == /\ (\E s \in DOMAIN SlaveAck : SlaveAck[s]) <=> Answer
                  /\ AnsweringSlave <=> \A s \in Xbar!Slaves : SlaveAck[s] <=> Addressed(s)
                  /\ Mapped <=> Addressed("io") \/ Addressed("sd") \/ Addressed("adc")
                  /\ rsp_ack <=> pending /\ Answer
                  /\ rsp_err <=> pending /\ timeout
<1>1. (\E s \in DOMAIN SlaveAck : SlaveAck[s]) <=> Answer
  BY Acks DEF Answer
<1>2. AnsweringSlave <=> \A s \in Xbar!Slaves : SlaveAck[s] <=> Addressed(s)
  BY Acks, Pages DEF AnsweringSlave
<1>3. Mapped <=> Addressed("io") \/ Addressed("sd") \/ Addressed("adc")
  BY Acks, Pages DEF Mapped
<1> QED
  BY <1>1, <1>2, <1>3 DEF rsp_ack, rsp_err, Gate!bus_rsp_ack, Gate!bus_rsp_err

(* What the clock count of the gateway says about the access.              *)
Counting ==
  /\ timecnt \in 0 .. TIMEOUT_VAL + 2
  /\ ~pending => timecnt # TIMEOUT_VAL
  /\ pending => timecnt <= TIMEOUT_VAL + 1
  /\ pending /\ ~timeout => timecnt <= TIMEOUT_VAL
  /\ pending /\ timeout => timecnt = TIMEOUT_VAL + 1
  /\ pending /\ Mapped => timecnt = 0

Access == /\ stb => ~pending
          /\ adc_soft_rst => ~stb
          /\ pending => AnsweringSlave

Inv == TypeOK /\ Access /\ Counting

-----------------------------------------------------------------------------
LEMMA Initially == Init => Inv
<1> SUFFICES ASSUME Init PROVE Inv
  OBVIOUS
<1> USE DEF Init, Gate!PowerUp, Adc!PowerUp, Io!PowerUp
<1>1. Adc!TypeOK
  BY WordsAssumption DEF Adc!TypeOK, Adc!Word, Adc!Stored, Adc!CONFIG
<1>2. TypeOK
  <2>1. timecnt \in 0 .. TIMEOUT_VAL + 2
    BY TimeoutAssumption
  <2> QED
    BY <1>1, <2>1 DEF TypeOK
<1>3. Access
  BY DEF Access
<1>4. Counting
  BY TimeoutAssumption DEF Counting
<1> QED
  BY <1>2, <1>3, <1>4 DEF Inv

(* The request of an access is held until its end.                         *)
LEMMA RequestHeld ==
  ASSUME Next, Waiting
  PROVE  stb' = FALSE /\ req' = req
BY DEF Next, Quiet, Rest, Ask

LEMMA Remainder ==
  ASSUME NEW n \in Nat, n < 2 * (TIMEOUT_VAL + 1)
  PROVE  n % (2 * (TIMEOUT_VAL + 1)) = n
BY TimeoutAssumption

(* The count goes on by one, and does not wrap.                            *)
LEMMA CountOne ==
  ASSUME Inv, pending
  PROVE  (timecnt + 1) % Gate!Width = timecnt + 1
<1>1. timecnt + 1 \in Nat /\ timecnt + 1 < 2 * (TIMEOUT_VAL + 1)
  BY TimeoutAssumption DEF Inv, Counting
<1> QED
  BY <1>1, Remainder DEF Gate!Width

-----------------------------------------------------------------------------
LEMMA RegisterIsWord ==
  ASSUME Adc!TypeOK, NEW a
  PROVE  Adc!Register(a) \subseteq Bits
<1>1. Adc!Register(a) \in
        {Adc!Flag(adc_enable, 0) \union Adc!Flag(continuous_mode, 1),
         Adc!Flag(data_ready, 0), data_latched, DeadBeef}
          \union {adc_file[x] : x \in Adc!Stored}
  BY Zenon DEF Adc!Register
<1>2. /\ Adc!Flag(adc_enable, 0) \subseteq Bits /\ Adc!Flag(continuous_mode, 1) \subseteq Bits
      /\ Adc!Flag(data_ready, 0) \subseteq Bits
  BY WordsAssumption DEF Adc!Flag
<1>3. data_latched \subseteq Bits /\ DeadBeef \subseteq Bits
  BY WordsAssumption DEF Adc!TypeOK, Adc!Word
<1>4. \A x \in Adc!Stored : adc_file[x] \subseteq Bits
  BY DEF Adc!TypeOK, Adc!Word
<1> QED
  BY <1>1, <1>2, <1>3, <1>4

LEMMA PadIsWord ==
  ASSUME TypeOK, NEW a
  PROVE  Io!Register(a) \subseteq Bits
<1>1. Io!Register(a) \in {gpio_oe, gpio_fn, ChipId, {}}
  BY Zenon DEF Io!Register
<1> QED
  BY <1>1, WordsAssumption DEF TypeOK

LEMMA TypeStep ==
  ASSUME TypeOK, Counting', Next
  PROVE  TypeOK'
<1> USE DEF Next
<1>1. rst' \in BOOLEAN /\ stb' \in BOOLEAN /\ req' \in Requests
  BY DEF TypeOK, Quiet, Rest, Ask
<1>2. req.dat \subseteq Bits
  BY RequestsAssumption DEF TypeOK
<1>3. adc_data' \in AdcWords /\ adc_data \subseteq Bits
  BY WordsAssumption DEF TypeOK
<1>4. pending' \in BOOLEAN /\ timeout' \in BOOLEAN /\ timecnt' \in 0 .. TIMEOUT_VAL + 2
  BY DEF TypeOK, Counting, Gate!Clock, Gate!Cleared, Gate!Idle, Gate!Access
<1>5. Adc!TypeOK'
  <2> USE DEF Adc!Clock, Adc!TypeOK, Adc!Word
  <2>1. Adc!TypeOK
    BY DEF TypeOK
  <2>2. data_latched' \subseteq Bits /\ data_ready' \in BOOLEAN
    BY <1>3, <2>1 DEF Adc!Latch
  <2>3. adc_dat' \subseteq Bits
    BY <2>1, RegisterIsWord DEF Adc!Read
  <2>4. adc_ack' \in BOOLEAN
    BY DEF Adc!Ack
  <2>5. adc_enable' \in BOOLEAN /\ continuous_mode' \in BOOLEAN /\ adc_soft_rst' \in BOOLEAN
    BY <2>1 DEF Adc!Write
  <2>6. adc_file' \in [Adc!Stored -> SUBSET Bits]
    <3>1. \A a \in Adc!Stored : adc_file[a] \subseteq Bits
      BY <2>1
    <3>2. Reset256 \subseteq Bits
      BY WordsAssumption
    <3> QED
      BY <1>2, <3>1, <3>2 DEF Adc!Write
  <2> QED
    BY <2>2, <2>3, <2>4, <2>5, <2>6
<1>6. /\ io_dat' \subseteq Bits /\ io_ack' \in BOOLEAN
      /\ gpio_oe' \subseteq PadBits /\ gpio_fn' \subseteq PadBits
  BY PadIsWord DEF TypeOK, Io!Clock, Io!Write, Io!Read, Io!Ack, Io!Merge
<1>7. sd_dat' \in {{}, SdInfo} /\ sd_ack' \in BOOLEAN
  BY DEF TypeOK, Sd
<1> QED
  BY <1>1, <1>3, <1>4, <1>5, <1>6, <1>7 DEF TypeOK

-----------------------------------------------------------------------------
(* When an access is there or goes on, its request has been held.          *)
LEMMA PendingHeld ==
  ASSUME Inv, Next, pending'
  PROVE  /\ ~rst /\ ~rst' /\ req' = req
         /\ \/ ~pending /\ stb /\ Gate!Idle
            \/ pending /\ ~stb /\ ~Answer /\ ~timeout /\ Gate!Access
<1>1. ~Gate!Cleared
  BY DEF Gate!Cleared
<1>2. CASE Gate!Idle
  <2>1. stb /\ ~pending /\ ~rst /\ ~rst'
    BY <1>2 DEF Gate!Idle, Gate!InReset
  <2>2. req' = req
    BY <2>1, RequestHeld DEF Waiting
  <2> QED
    BY <1>2, <2>1, <2>2
<1>3. CASE Gate!Access
  <2>1. pending /\ ~Answer /\ ~timeout /\ ~rst /\ ~rst'
    BY <1>3, AnswerIs DEF Gate!Access, Gate!InReset
  <2>2. ~rsp_ack /\ ~rsp_err
    BY <2>1, AnswerIs
  <2>3. req' = req
    BY <2>1, <2>2, RequestHeld DEF Waiting
  <2>4. ~stb
    BY <2>1 DEF Inv, Access
  <2> QED
    BY <1>3, <2>1, <2>3, <2>4
<1> QED
  BY <1>1, <1>2, <1>3 DEF Next, Gate!Clock

LEMMA AccessStep ==
  ASSUME Inv, Next
  PROVE  Access'
<1>1. stb' => ~pending'
  <2>1. SUFFICES ASSUME stb', pending' PROVE FALSE
    OBVIOUS
  <2>2. ~Waiting
    BY <2>1, RequestHeld
  <2>3. ~stb /\ (pending => rsp_ack \/ rsp_err)
    BY <2>2 DEF Waiting
  <2> QED
    BY <2>1, <2>3, PendingHeld, AnswerIs
<1>2. adc_soft_rst' => ~stb'
  <2>1. adc_soft_rst' => stb
    BY DEF Next, Adc!Clock, Adc!Write, Adc!Writes, Adc!wb_xfer, Xbar!Stb, Gate!xbus_stb
  <2>2. stb => stb' = FALSE
    BY RequestHeld DEF Waiting
  <2> QED
    BY <2>1, <2>2
<1>3. pending' => AnsweringSlave'
  <2>1. SUFFICES ASSUME pending' PROVE AnsweringSlave'
    OBVIOUS
  <2>2. \A s \in {"io", "sd", "adc"} : Addressed(s)' <=> Addressed(s)
    BY <2>1, PendingHeld DEF Addressed, Xbar!Selected
  <2>3. /\ io_ack' <=> (stb \/ pending) /\ Addressed("io")
        /\ sd_ack' <=> stb /\ Addressed("sd")
        /\ adc_ack' <=> stb /\ Addressed("adc")
    BY <2>1, PendingHeld, Pages
       DEF Next, Io!Clock, Io!Ack, Adc!Clock, Adc!Ack, Adc!wb_xfer, Sd, Xbar!Stb, Xbar!Cyc,
           Gate!xbus_stb, Gate!xbus_cyc
  <2>4. CASE stb
    BY <2>2, <2>3, <2>4 DEF AnsweringSlave
  <2>5. CASE ~stb
    <3>1. pending /\ ~Answer
      BY <2>1, <2>5, PendingHeld
    <3>2. ~Addressed("io") /\ ~Addressed("sd") /\ ~Addressed("adc")
      BY <3>1 DEF Inv, Access, AnsweringSlave, Answer
    <3> QED
      BY <2>2, <2>3, <2>5, <3>2 DEF AnsweringSlave
  <2> QED
    BY <2>4, <2>5
<1> QED
  BY <1>1, <1>2, <1>3 DEF Access

LEMMA CountingStep ==
  ASSUME Inv, Next
  PROVE  Counting'
<1>1. CASE pending'
  <2>1. CASE ~pending
    <3>1. timecnt' = 0 /\ timeout' = FALSE
      BY <1>1, <2>1, PendingHeld DEF Gate!Idle, Inv, Counting
    <3> QED
      BY <3>1, TimeoutAssumption DEF Counting
  <2>2. CASE pending
    <3>1. ~Answer /\ ~timeout /\ Gate!Access /\ req' = req
      BY <1>1, <2>2, PendingHeld
    <3>2. timecnt' = timecnt + 1 /\ (timeout' <=> timecnt = TIMEOUT_VAL)
      BY <2>2, <3>1, CountOne DEF Gate!Access
    <3>3. ~Mapped
      BY <2>2, <3>1, AnswerIs DEF Inv, Access, AnsweringSlave, Answer
    <3>4. ~Mapped'
      BY <3>1, <3>3 DEF Mapped, Addressed, Xbar!Selected
    <3>5. timecnt \in 0 .. TIMEOUT_VAL
      BY <2>2, <3>1, TimeoutAssumption DEF Inv, Counting
    <3>6. CASE timecnt = TIMEOUT_VAL
      BY <1>1, <3>2, <3>4, <3>6, TimeoutAssumption DEF Counting
    <3>7. CASE timecnt # TIMEOUT_VAL
      <4>1. timeout' = FALSE /\ timecnt' \in 0 .. TIMEOUT_VAL
        BY <3>2, <3>5, <3>7, TimeoutAssumption
      <4> QED
        BY <1>1, <3>4, <4>1, TimeoutAssumption DEF Counting
    <3> QED
      BY <3>6, <3>7
  <2> QED
    BY <2>1, <2>2
<1>2. CASE ~pending'
  <2>1. SUFFICES timecnt' \in 0 .. TIMEOUT_VAL + 2 /\ timecnt' # TIMEOUT_VAL
    BY <1>2 DEF Counting
  <2>2. CASE timecnt' = 0
    BY <2>2, TimeoutAssumption
  <2>3. CASE timecnt' # 0
    <3>1. Gate!Access
      BY <2>3 DEF Next, Gate!Clock, Gate!Cleared, Gate!Idle
    <3>2. pending /\ (Answer \/ timeout) /\ timecnt' = timecnt + 1
      BY <1>2, <3>1, AnswerIs, CountOne DEF Gate!Access
    <3>3. CASE Answer
      <4>1. timecnt = 0
        BY <3>2, <3>3, AnswerIs DEF Inv, Access, AnsweringSlave, Answer, Counting
      <4> QED
        BY <3>2, <4>1, TimeoutAssumption
    <3>4. CASE timeout
      <4>1. timecnt = TIMEOUT_VAL + 1
        BY <3>2, <3>4 DEF Inv, Counting
      <4> QED
        BY <3>2, <4>1, TimeoutAssumption
    <3> QED
      BY <3>2, <3>3, <3>4
  <2> QED
    BY <2>2, <2>3
<1> QED
  BY <1>1, <1>2

LEMMA Invariance == Spec => []Inv
<1>1. Inv /\ [Next]_vars => Inv'
  <2>1. SUFFICES ASSUME Inv, [Next]_vars PROVE Inv'
    OBVIOUS
  <2>2. CASE Next
    <3>1. TypeOK'
      BY <2>1, <2>2, TypeStep, CountingStep DEF Inv
    <3> QED
      BY <2>1, <2>2, <3>1, AccessStep, CountingStep DEF Inv
  <2>3. CASE UNCHANGED vars
    <3> USE <2>1, <2>3 DEF vars
    <3>1. TypeOK'
      BY DEF Inv, TypeOK, Adc!TypeOK
    <3>2. \A s : Addressed(s)' <=> Addressed(s)
      BY DEF Addressed, Xbar!Selected
    <3>3. Access'
      BY <3>2 DEF Inv, Access, AnsweringSlave
    <3>4. Counting'
      BY <3>2 DEF Inv, Counting, Mapped
    <3> QED
      BY <3>1, <3>3, <3>4 DEF Inv
  <2> QED
    BY <2>1, <2>2, <2>3
<1> QED
  BY Initially, <1>1, PTL DEF Spec

-----------------------------------------------------------------------------
(* Every register of the bus and of its slaves keeps its type; the counter *)
(* of the gateway stays within its width.                                  *)
THEOREM TypeCorrect == Spec => []TypeOK
<1>1. Inv => TypeOK
  BY DEF Inv
<1> QED
  BY Invariance, <1>1, PTL

(* An acknowledge that reaches the CPU comes from the slave it asked.      *)
THEOREM OnlyAddressedAnswers == Spec => []AnswerFromAddressed
<1>1. Inv => AnswerFromAddressed
  BY AnswerIs DEF Inv, Access, AnswerFromAddressed
<1> QED
  BY Invariance, <1>1, PTL

(* No access to an existing slave is ever ended by the timeout.            *)
THEOREM MappedNeverTimesOut == Spec => []TimeoutOnlyUnmapped
<1>1. Inv => TimeoutOnlyUnmapped
  <2>1. SUFFICES ASSUME Inv, rsp_err, Mapped PROVE FALSE
    BY DEF TimeoutOnlyUnmapped
  <2>2. pending /\ timeout
    BY <2>1, AnswerIs
  <2> QED
    BY <2>1, <2>2, TimeoutAssumption DEF Inv, Counting
<1> QED
  BY Invariance, <1>1, PTL

(* The CPU never makes the soft reset last two clocks.                     *)
THEOREM SoftResetLastsOneClock == Spec => SoftResetIsPulse
<1>1. Inv /\ [Next]_vars => [adc_soft_rst => ~adc_soft_rst']_vars
  <2>1. SUFFICES ASSUME Inv, Next, adc_soft_rst PROVE ~adc_soft_rst'
    OBVIOUS
  <2>2. ~stb
    BY <2>1 DEF Inv, Access
  <2> QED
    BY <2>1, <2>2 DEF Next, Adc!Clock, Adc!Write, Adc!Writes, Adc!wb_xfer, Xbar!Stb,
                      Gate!xbus_stb
<1> QED
  BY Invariance, <1>1, PTL DEF Spec, SoftResetIsPulse

LEMMA ContentsIs ==
  /\ Addressed("adc") => Contents = Adc!Register((req.offset \div 4) % 16)
  /\ Addressed("io") => Contents = Io!Register(req.offset)
  /\ Addressed("sd") => Contents = SdInfo
  /\ ~Mapped => Contents = {}
<1>1. /\ ~(Addressed("adc") /\ Addressed("io"))
      /\ ~(Addressed("adc") /\ Addressed("sd"))
      /\ ~(Addressed("io") /\ Addressed("sd"))
  BY Pages
<1>2. Mapped <=> Addressed("io") \/ Addressed("sd") \/ Addressed("adc")
  BY AnswerIs
<1> QED
  BY <1>1, <1>2, Zenon DEF Contents

LEMMA ReadAnswer ==
  ASSUME Inv, Next, ReadStrobed
  PROVE  rsp_data' = Contents \union (IF Addressed("adc") THEN {} ELSE adc_dat)
<1>1. stb /\ ~pending /\ ~req.we /\ ~rst /\ ~rst'
  BY DEF ReadStrobed, Inv, Access, Gate!InReset
<1>2. pending'
  BY <1>1 DEF Next, Gate!Clock, Gate!Cleared, Gate!Idle, Gate!Access, Gate!InReset
<1>3. rsp_data' = io_dat' \union sd_dat' \union adc_dat'
  <2>1. (Xbar!wb_dat_i)' = io_dat' \union sd_dat' \union adc_dat'
    <3>1. SlaveDat' = [i2s |-> {}, io |-> io_dat', sd |-> sd_dat', adc |-> adc_dat']
      BY DEF SlaveDat
    <3>2. Xbar!wb_dat_i' = UNION {SlaveDat'["i2s"], SlaveDat'["io"], SlaveDat'["sd"],
                                  SlaveDat'["adc"]}
      BY DEF Xbar!wb_dat_i, Xbar!Slaves
    <3> QED
      BY <3>1, <3>2
  <2> QED
    BY <1>2, <2>1 DEF rsp_data
<1>4. io_dat' = IF Addressed("io") THEN Io!Register(req.offset) ELSE {}
  BY <1>1, Pages DEF Next, Io!Clock, Io!Read, Xbar!Cyc, Gate!xbus_cyc
<1>5. sd_dat' = IF Addressed("sd") THEN SdInfo ELSE {}
  BY <1>1, Pages DEF Next, Sd, Xbar!Stb, Gate!xbus_stb
<1>6. adc_dat' = IF Addressed("adc") THEN Adc!Register((req.offset \div 4) % 16) ELSE adc_dat
  BY <1>1, Pages
     DEF Next, Adc!Clock, Adc!Read, Adc!wb_xfer, Xbar!Stb, Xbar!Cyc, Gate!xbus_stb,
         Gate!xbus_cyc
<1>7. CASE Addressed("adc")
  BY <1>3, <1>4, <1>5, <1>6, <1>7, Pages, ContentsIs
<1>8. CASE Addressed("io")
  BY <1>3, <1>4, <1>5, <1>6, <1>8, Pages, ContentsIs
<1>9. CASE Addressed("sd")
  BY <1>3, <1>4, <1>5, <1>6, <1>9, Pages, ContentsIs
<1>10. CASE ~Mapped
  <2>1. ~Addressed("adc") /\ ~Addressed("io") /\ ~Addressed("sd")
    BY <1>10, AnswerIs
  <2> QED
    BY <1>3, <1>4, <1>5, <1>6, <1>10, <2>1, ContentsIs
<1> QED
  BY <1>7, <1>8, <1>9, <1>10, AnswerIs

(* A read answers with the register at the strobe, and with the bits of    *)
(* the last word read from the ADC; with nothing else.                     *)
THEOREM ReadAnswersExactly == Spec => ReadAnswersRegisterAndLastAdcWord
<1>1. Inv /\ [Next]_vars =>
        [ReadStrobed => rsp_data' =
           Contents \union (IF Addressed("adc") THEN {} ELSE adc_dat)]_vars
  BY ReadAnswer
<1> QED
  BY Invariance, <1>1, PTL DEF Spec, ReadAnswersRegisterAndLastAdcWord

(* How long an access lasts: it is pending until it is answered, or reset; *)
(* its counter starts at 0, goes on by one with every clock and ends with  *)
(* an answer; a slave that exists needs none of it.  It is the bound of    *)
(* RequestAnswered, and all of it but that the clock ticks.                *)
EndIsNear == pending => /\ timecnt <= TIMEOUT_VAL + 1
                        /\ timecnt = TIMEOUT_VAL + 1 => rsp_ack \/ rsp_err
                        /\ Mapped => rsp_ack
EndComesNearer ==
  [][/\ ~Gate!InReset /\ Waiting => pending'
     /\ pending' => timecnt' = IF pending THEN timecnt + 1 ELSE 0]_vars

(* The CPU has its answer at most TIMEOUT_VAL + 2 clocks after the strobe, *)
(* and after one clock if there is a slave.                                *)
THEOREM AccessIsShort == Spec => []EndIsNear /\ EndComesNearer
<1>1. Inv => EndIsNear
  <2>1. SUFFICES ASSUME Inv, pending
                 PROVE  /\ timecnt <= TIMEOUT_VAL + 1
                        /\ timecnt = TIMEOUT_VAL + 1 => rsp_ack \/ rsp_err
                        /\ Mapped => rsp_ack
    BY DEF EndIsNear
  <2>2. timecnt <= TIMEOUT_VAL + 1
    BY <2>1 DEF Inv, Counting
  <2>3. timecnt = TIMEOUT_VAL + 1 => timeout
    BY <2>1, TimeoutAssumption DEF Inv, Counting
  <2>4. Mapped => rsp_ack
    BY <2>1, AnswerIs DEF Inv, Access, AnsweringSlave, Answer
  <2> QED
    BY <2>1, <2>2, <2>3, <2>4, AnswerIs
<1>2. Inv /\ [Next]_vars
        => [/\ ~Gate!InReset /\ Waiting => pending'
            /\ pending' => timecnt' = IF pending THEN timecnt + 1 ELSE 0]_vars
  <2>1. SUFFICES ASSUME Inv, Next
                 PROVE  /\ ~Gate!InReset /\ Waiting => pending'
                        /\ pending' => timecnt' = IF pending THEN timecnt + 1 ELSE 0
    OBVIOUS
  <2>2. ASSUME ~Gate!InReset, Waiting
        PROVE  pending'
    <3>1. CASE stb
      BY <2>1, <2>2, <3>1
         DEF Inv, Access, Next, Gate!Clock, Gate!Cleared, Gate!Idle, Gate!Access
    <3>2. CASE ~stb
      <4>1. pending /\ ~Answer /\ ~timeout
        BY <2>2, <3>2, AnswerIs DEF Waiting
      <4> QED
        BY <2>1, <2>2, <4>1, AnswerIs
           DEF Next, Gate!Clock, Gate!Cleared, Gate!Idle, Gate!Access
    <3> QED
      BY <3>1, <3>2
  <2>3. pending' => timecnt' = IF pending THEN timecnt + 1 ELSE 0
    BY <2>1, PendingHeld, CountOne DEF Gate!Idle, Gate!Access
  <2> QED
    BY <2>2, <2>3
<1> QED
  BY Invariance, <1>1, <1>2, PTL DEF Spec, EndComesNearer
=============================================================================
