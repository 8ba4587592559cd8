--------------------------- MODULE AesEngine_proofs ---------------------------
(***************************************************************************)
(* Proofs about AesEngine, for every size of block, address space and      *)
(* counter space, every latency of the cipher and every pace of the XRAM.  *)
(*                                                                         *)
(* A cycle does one of six things (CycleIsPhase): nothing, a start, a wait *)
(* for the XRAM, a byte loaded, a cycle of the cipher, a byte stored.  The *)
(* invariant is shown for each of them.                                    *)
(***************************************************************************)
EXTENDS AesEngine, TLAPS

(***************************************************************************)
(* Arithmetic of addresses and blocks.                                     *)
(***************************************************************************)
LEMMA AddType ==
  /\ \A a, b \in Addr : AddrAdd(a, b) \in Addr
  /\ \A a, b \in Ctr : CtrAdd(a, b) \in Ctr
  /\ Addr \subseteq Ctr /\ Index \subseteq Addr /\ Block \in Addr
BY SizeAssumption DEF AddrAdd, CtrAdd, Addr, Ctr, Index

\* Blocks do not overlap, and the last one ends with the address space.
LEMMA BlocksApart ==
  /\ \A a, b \in BlockStart : a < b => a + Block <= b
  /\ \A a \in BlockStart : a + Block <= AddrSpace
  /\ \A a \in BlockStart : a + Block < AddrSpace => a + Block \in BlockStart
  /\ 0 \in BlockStart
<1>1. \A m, n \in Nat : m * Block < n * Block => m * Block + Block <= n * Block
  <2> SUFFICES ASSUME NEW m \in Nat, NEW n \in Nat, m * Block < n * Block
               PROVE  m * Block + Block <= n * Block
    OBVIOUS
  <2>1. m < n
    BY SizeAssumption
  <2>2. PICK k \in Nat : n = m + 1 + k
    <3>1. n - m - 1 \in Nat /\ n = m + 1 + (n - m - 1)
      BY <2>1
    <3> QED BY <3>1
  <2>3. n * Block = m * Block + Block + k * Block /\ k * Block \in Nat
    BY <2>2, SizeAssumption
  <2>4. m * Block \in Nat
    BY SizeAssumption
  <2> QED BY <2>3, <2>4, SizeAssumption
<1>2. \A a \in BlockStart : a \in Addr /\ \E n \in Nat : a = n * Block
  BY DEF BlockStart, Addr
<1>3. PICK s \in Nat : AddrSpace = s * Block
  BY SizeAssumption
<1>4. \A a \in Addr : a < AddrSpace /\ a \in Nat
  BY SizeAssumption DEF Addr
<1>5. \A a, b \in BlockStart : a < b => a + Block <= b
  BY <1>1, <1>2
<1>6. \A a \in BlockStart : a + Block <= AddrSpace
  BY <1>1, <1>2, <1>3, <1>4
<1>7. \A a \in BlockStart : a + Block < AddrSpace => a + Block \in BlockStart
  <2> SUFFICES ASSUME NEW a \in BlockStart, a + Block < AddrSpace
               PROVE  a + Block \in BlockStart
    OBVIOUS
  <2>1. PICK n \in Nat : a = n * Block
    BY <1>2
  <2>2. a + Block \in Addr
    BY <1>2, SizeAssumption DEF Addr
  <2>3. a + Block = (n + 1) * Block
    BY <2>1, SizeAssumption
  <2>4. n + 1 \in Addr
    <3>1. (n + 1) * Block < AddrSpace
      BY <2>3
    <3>2. n + 1 <= (n + 1) * Block
      BY SizeAssumption
    <3> QED BY <3>1, <3>2, SizeAssumption DEF Addr
  <2> QED BY <2>2, <2>3, <2>4 DEF BlockStart
<1>8. 0 \in BlockStart
  BY SizeAssumption DEF BlockStart, Addr
<1> QED BY <1>5, <1>6, <1>7, <1>8

\* Different bytes of a job are at different addresses.
LEMMA ByteAddrInjective ==
  ASSUME jobAddr \in Addr,
         NEW a \in BlockStart, NEW b \in BlockStart, NEW i \in Index, NEW j \in Index,
         ByteAddr(a, i) = ByteAddr(b, j)
  PROVE  a = b /\ i = j
<1>1. a \in Nat /\ b \in Nat /\ i \in 0 .. Block - 1 /\ j \in 0 .. Block - 1
  BY SizeAssumption DEF BlockStart, Addr, Index
<1>2. a + Block <= AddrSpace /\ b + Block <= AddrSpace
  BY BlocksApart
<1>3. a + i = b + j
  BY <1>1, <1>2, SizeAssumption DEF ByteAddr, AddrAdd, Addr
<1>4. (a < b => a + Block <= b) /\ (b < a => b + Block <= a)
  BY BlocksApart
<1> QED BY <1>1, <1>3, <1>4, SizeAssumption

(***************************************************************************)
(* What a cycle does.                                                      *)
(***************************************************************************)
Held == UNCHANGED <<regs, job>> /\ start_data' = 0
Tick ==
  aes_time_counter' = IF aes_time_counter < TimeMax THEN aes_time_counter + 1
                      ELSE aes_time_counter
Shift ==
  stages' = [d \in 1 .. Latency |->
               IF d = 1 THEN <<uaes_ctr, aes_reg_key0>> ELSE stages[d - 1]]

\* At most one register is written.
OneWrite ==
  \/ UNCHANGED regs
  \/ aes_reg_opaddr' \in Addr /\ UNCHANGED <<aes_reg_oplen, aes_reg_ctr, aes_reg_key0>>
  \/ aes_reg_oplen' \in Addr /\ UNCHANGED <<aes_reg_opaddr, aes_reg_ctr, aes_reg_key0>>
  \/ aes_reg_ctr' \in Ctr /\ UNCHANGED <<aes_reg_opaddr, aes_reg_oplen, aes_reg_key0>>
  \/ aes_reg_key0' \in Keys /\ UNCHANGED <<aes_reg_opaddr, aes_reg_oplen, aes_reg_ctr>>

Idles ==
  /\ aes_reg_state = "IDLE" /\ aes_reg_state' = "IDLE"
  /\ OneWrite
  /\ UNCHANGED <<counters, uaes_ctr, data, job>>
  /\ Tick /\ Shift /\ waited' = 0 /\ start_data' = 0

Starts ==
  /\ aes_reg_state = "IDLE" /\ aes_reg_state' = "READ_DATA"
  /\ UNCHANGED <<regs, data>>
  /\ operated_bytes_count' = 0 /\ block_counter' = 0 /\ byte_counter' = 0
  /\ uaes_ctr' = aes_reg_ctr /\ aes_time_counter' = 0
  /\ Shift /\ waited' = 0
  /\ jobAddr' = aes_reg_opaddr /\ jobLen' = aes_reg_oplen
  /\ jobCtr' = aes_reg_ctr /\ jobKey' = aes_reg_key0
  /\ jobMem' = xram
  /\ start_data' \in 0 .. 255 /\ start_data' % 2 = 1
  /\ starts < MaxStarts /\ starts' = starts + 1

Waits ==
  /\ aes_reg_state \in {"READ_DATA", "WRITE_DATA"}
  /\ Held /\ UNCHANGED <<aes_reg_state, counters, uaes_ctr, data>>
  /\ Tick /\ Shift
  /\ waited' = IF waited < AckGap THEN waited + 1 ELSE waited

LastByte == byte_counter = Block - 1
NextByte == IF LastByte THEN 0 ELSE byte_counter + 1

Loads ==
  /\ aes_reg_state = "READ_DATA"
  /\ aes_reg_state' = IF LastByte THEN "OPERATE" ELSE "READ_DATA"
  /\ waited = AckGap /\ waited' = 0
  /\ byte_counter' = NextByte
  /\ mem_data_buf' = [mem_data_buf EXCEPT ![byte_counter] = xram[xram_addr]]
  /\ Held /\ UNCHANGED <<operated_bytes_count, block_counter, uaes_ctr,
                         encrypted_data_buf, xram>>
  /\ Tick /\ Shift

Operates ==
  /\ aes_reg_state = "OPERATE"
  /\ aes_reg_state' = IF aes_time_enough THEN "WRITE_DATA" ELSE "OPERATE"
  /\ encrypted_data_buf' =
       [i \in Index |-> Xor(mem_data_buf[i], Pad(stages[Latency], i))]
  /\ waited' = 0
  /\ Held /\ UNCHANGED <<counters, uaes_ctr, mem_data_buf, xram>>
  /\ Tick /\ Shift

More == LastByte /\ AddrAdd(operated_bytes_count, Block) < aes_reg_oplen

Stores ==
  /\ aes_reg_state = "WRITE_DATA"
  /\ aes_reg_state' = IF More THEN "READ_DATA"
                      ELSE IF LastByte THEN "IDLE" ELSE "WRITE_DATA"
  /\ waited = AckGap /\ waited' = 0
  /\ byte_counter' = NextByte
  /\ operated_bytes_count' = IF LastByte THEN AddrAdd(operated_bytes_count, Block)
                             ELSE operated_bytes_count
  /\ block_counter' = IF More THEN AddrAdd(block_counter, Block) ELSE block_counter
  /\ uaes_ctr' = IF More THEN CtrAdd(uaes_ctr, Block) ELSE uaes_ctr
  /\ mem_data_buf' = [mem_data_buf EXCEPT ![byte_counter] = {}]
  /\ xram' = [xram EXCEPT ![xram_addr] = encrypted_data_buf[byte_counter]]
  /\ Held /\ UNCHANGED encrypted_data_buf
  /\ (More => aes_time_counter' = 0) /\ (~More => Tick)
  /\ Shift

Phase == Idles \/ Starts \/ Waits \/ Loads \/ Operates \/ Stores

\* What the host does in a cycle.
Selects(sel, v) ==
  /\ sel \in {"none", "ADDR", "LEN", "CTR", "KEY0", "START"}
  /\ sel = "ADDR" => v \in Addr
  /\ sel = "LEN" => v \in Addr
  /\ sel = "CTR" => v \in Ctr
  /\ sel = "KEY0" => v \in Keys
  /\ sel = "START" => v \in 0 .. 255 /\ Writes

LEMMA ClockIsCycle ==
  ASSUME NEW ack \in BOOLEAN, Clock(ack)
  PROVE  \E sel, v : Selects(sel, v) /\ Cycle(sel, v, ack)
<1> USE HostAssumption DEF Selects, Addr, Ctr
<1>1. CASE NoWrite(ack)
  <2>1. Selects("none", 0) /\ Cycle("none", 0, ack)
    BY <1>1 DEF NoWrite
  <2> QED BY <2>1
<1>2. CASE WriteAddress(ack)
  <2>1. PICK v \in HostAddrs : Cycle("ADDR", v, ack)
    BY <1>2 DEF WriteAddress
  <2>2. Selects("ADDR", v)
    OBVIOUS
  <2> QED BY <2>1, <2>2
<1>3. CASE WriteLength(ack)
  <2>1. PICK v \in HostLens : Cycle("LEN", v, ack)
    BY <1>3 DEF WriteLength
  <2>2. Selects("LEN", v)
    OBVIOUS
  <2> QED BY <2>1, <2>2
<1>4. CASE WriteCounter(ack)
  <2>1. PICK v \in HostCtrs : Cycle("CTR", v, ack)
    BY <1>4 DEF WriteCounter
  <2>2. Selects("CTR", v)
    OBVIOUS
  <2> QED BY <2>1, <2>2
<1>5. CASE WriteKey(ack)
  <2>1. PICK v \in HostKeys : Cycle("KEY0", v, ack)
    BY <1>5 DEF WriteKey
  <2>2. Selects("KEY0", v)
    OBVIOUS
  <2> QED BY <2>1, <2>2
<1>6. CASE StartEncrypt(ack)
  <2>1. PICK v \in HostStarts : Writes /\ Cycle("START", v, ack)
    BY <1>6 DEF StartEncrypt
  <2>2. Selects("START", v)
    BY <2>1
  <2> QED BY <2>1, <2>2
<1> QED BY <1>1, <1>2, <1>3, <1>4, <1>5, <1>6 DEF Clock

\* While the engine is busy no write counts and no job starts.
LEMMA BusyHolds ==
  ASSUME TypeOK, Busy, NEW sel, NEW v, NEW ack \in BOOLEAN, Cycle(sel, v, ack)
  PROVE  ~start_op(sel, v) /\ Held /\ Shift
<1>1. ~wren(sel) /\ ~start_op(sel, v)
  BY DEF Busy, wren, start_op
<1>2. UNCHANGED regs
  BY <1>1 DEF Cycle, HostRegisters, regs
<1>3. UNCHANGED job /\ start_data' = 0
  BY <1>1 DEF Cycle, Job
<1> QED BY <1>1, <1>2, <1>3 DEF Held, Shift, Cycle, Cipher

LEMMA CycleIsPhase ==
  ASSUME TypeOK, NEW sel, NEW v, NEW ack \in BOOLEAN,
         Selects(sel, v), Cycle(sel, v, ack)
  PROVE  Phase
<1>1. CASE aes_reg_state = "IDLE" /\ ~start_op(sel, v)
  <2>1. ~ack /\ ~last_byte_acked(ack) /\ ~more_blocks(sel, v, ack)
    BY <1>1 DEF Cycle, Xram, xram_stb, last_byte_acked, more_blocks
  <2>2. aes_reg_state' = "IDLE"
    BY <1>1 DEF Cycle, aes_reg_state_next
  <2>3. OneWrite
    BY DEF Cycle, HostRegisters, Selects, OneWrite, regs
  <2>4. UNCHANGED counters
    BY <1>1, <2>1 DEF Cycle, Counters, operated_bytes_count_next, counters
  <2>5. UNCHANGED data /\ waited' = 0
    BY <1>1, <2>1 DEF Cycle, Buffers, Xram, data, xram_stb
  <2>6. UNCHANGED job /\ start_data' = 0
    BY <1>1 DEF Cycle, Job
  <2>7. UNCHANGED uaes_ctr /\ Tick /\ Shift
    BY <1>1, <2>1 DEF Cycle, Timer, Cipher, Tick, Shift
  <2>8. Idles
    BY <1>1, <2>2, <2>3, <2>4, <2>5, <2>6, <2>7 DEF Idles
  <2> QED BY <2>8 DEF Phase
<1>2. CASE aes_reg_state = "IDLE" /\ start_op(sel, v)
  <2>1. ~ack /\ sel = "START" /\ v % 2 = 1
    BY <1>2 DEF Cycle, Xram, xram_stb, start_op
  <2>2. aes_reg_state' = "READ_DATA"
    BY <1>2 DEF Cycle, aes_reg_state_next
  <2>3. UNCHANGED regs
    BY <2>1 DEF Cycle, HostRegisters, regs
  <2>4. operated_bytes_count' = 0 /\ block_counter' = 0 /\ byte_counter' = 0
    BY <1>2 DEF Cycle, Counters, operated_bytes_count_next
  <2>5. UNCHANGED data /\ waited' = 0
    BY <1>2, <2>1 DEF Cycle, Buffers, Xram, data, xram_stb
  <2>6. uaes_ctr' = aes_reg_ctr /\ aes_time_counter' = 0 /\ Shift
    BY <1>2 DEF Cycle, Timer, Cipher, Shift
  <2>7. starts < MaxStarts
    BY <1>2, <2>1 DEF Selects, Writes
  <2>8. /\ jobAddr' = aes_reg_opaddr /\ jobLen' = aes_reg_oplen
        /\ jobCtr' = aes_reg_ctr /\ jobKey' = aes_reg_key0
        /\ jobMem' = xram /\ starts' = starts + 1 /\ start_data' = v
    BY <1>2 DEF Cycle, Job
  <2>10. v \in 0 .. 255
    BY <2>1 DEF Selects
  <2>9. Starts
    BY <1>2, <2>1, <2>2, <2>3, <2>4, <2>5, <2>6, <2>7, <2>8, <2>10 DEF Starts
  <2> QED BY <2>9 DEF Phase
<1>3. ASSUME Busy PROVE Phase
  <2>1. ~start_op(sel, v) /\ Held /\ Shift
    BY <1>3, BusyHolds
  <2>2. CASE aes_reg_state \in {"READ_DATA", "WRITE_DATA"} /\ ~ack
    <3>1. ~last_byte_acked(ack) /\ ~more_blocks(sel, v, ack)
      BY <2>2 DEF last_byte_acked, more_blocks
    <3>2. UNCHANGED aes_reg_state
      BY <2>1, <2>2, <3>1 DEF Cycle, aes_reg_state_next
    <3>3. UNCHANGED counters
      BY <2>1, <2>2, <3>1 DEF Cycle, Counters, operated_bytes_count_next, counters
    <3>4. UNCHANGED data
      BY <2>2 DEF Cycle, Buffers, Xram, data
    <3>5. UNCHANGED uaes_ctr /\ Tick
      BY <2>1, <3>1 DEF Cycle, Timer, Cipher, Tick
    <3>6. waited' = IF waited < AckGap THEN waited + 1 ELSE waited
      BY <2>2 DEF Cycle, Xram, xram_stb
    <3>7. Waits
      BY <2>1, <2>2, <3>2, <3>3, <3>4, <3>5, <3>6 DEF Waits
    <3> QED BY <3>7 DEF Phase
  <2>3. CASE aes_reg_state = "READ_DATA" /\ ack
    <3>1. (last_byte_acked(ack) <=> LastByte) /\ ~more_blocks(sel, v, ack)
      BY <2>3 DEF last_byte_acked, more_blocks, LastByte
    <3>2. aes_reg_state' = IF LastByte THEN "OPERATE" ELSE "READ_DATA"
      BY <2>3, <3>1 DEF Cycle, aes_reg_state_next
    <3>3. /\ UNCHANGED <<operated_bytes_count, block_counter>>
          /\ byte_counter' = NextByte
      BY <2>1, <2>3, <3>1 DEF Cycle, Counters, operated_bytes_count_next, NextByte, LastByte
    <3>4. /\ mem_data_buf' = [mem_data_buf EXCEPT ![byte_counter] = xram[xram_addr]]
          /\ UNCHANGED <<encrypted_data_buf, xram>>
      BY <2>3 DEF Cycle, Buffers, Xram
    <3>5. UNCHANGED uaes_ctr /\ Tick
      BY <2>1, <3>1 DEF Cycle, Timer, Cipher, Tick
    <3>6. waited = AckGap /\ waited' = 0
      BY <2>3 DEF Cycle, Xram, xram_stb
    <3>7. Loads
      BY <2>1, <2>3, <3>2, <3>3, <3>4, <3>5, <3>6 DEF Loads
    <3> QED BY <3>7 DEF Phase
  <2>4. CASE aes_reg_state = "OPERATE"
    <3>1. ~ack /\ ~last_byte_acked(ack) /\ ~more_blocks(sel, v, ack)
      BY <2>4 DEF Cycle, Xram, xram_stb, last_byte_acked, more_blocks
    <3>2. aes_reg_state' = IF aes_time_enough THEN "WRITE_DATA" ELSE "OPERATE"
      BY <2>4 DEF Cycle, aes_reg_state_next
    <3>3. UNCHANGED counters
      BY <2>1, <3>1 DEF Cycle, Counters, operated_bytes_count_next, counters
    <3>4. /\ encrypted_data_buf' =
               [i \in Index |-> Xor(mem_data_buf[i], Pad(stages[Latency], i))]
          /\ UNCHANGED <<mem_data_buf, xram>>
      BY <2>4, <3>1 DEF Cycle, Buffers, Xram
    <3>5. UNCHANGED uaes_ctr /\ Tick
      BY <2>1, <3>1 DEF Cycle, Timer, Cipher, Tick
    <3>6. waited' = 0
      BY <2>4 DEF Cycle, Xram, xram_stb
    <3>7. Operates
      BY <2>1, <2>4, <3>2, <3>3, <3>4, <3>5, <3>6 DEF Operates
    <3> QED BY <3>7 DEF Phase
  <2>5. CASE aes_reg_state = "WRITE_DATA" /\ ack
    <3>1. /\ last_byte_acked(ack) <=> LastByte
          /\ operated_bytes_count_next(sel, v, ack) =
               IF LastByte THEN AddrAdd(operated_bytes_count, Block)
               ELSE operated_bytes_count
      BY <2>1, <2>5 DEF last_byte_acked, LastByte, operated_bytes_count_next
    <3>2. more_blocks(sel, v, ack) <=> More
      BY <2>5, <3>1 DEF more_blocks, More
    <3>3. More => LastByte
      BY DEF More
    <3>4. aes_reg_state' = IF More THEN "READ_DATA"
                           ELSE IF LastByte THEN "IDLE" ELSE "WRITE_DATA"
      BY <2>5, <3>1, <3>2, <3>3 DEF Cycle, aes_reg_state_next
    <3>5. /\ byte_counter' = NextByte
          /\ operated_bytes_count' =
               IF LastByte THEN AddrAdd(operated_bytes_count, Block)
               ELSE operated_bytes_count
          /\ block_counter' = IF More THEN AddrAdd(block_counter, Block) ELSE block_counter
      BY <2>1, <2>5, <3>1, <3>2 DEF Cycle, Counters, NextByte, LastByte
    <3>6. /\ uaes_ctr' = IF More THEN CtrAdd(uaes_ctr, Block) ELSE uaes_ctr
          /\ (More => aes_time_counter' = 0) /\ (~More => Tick)
      BY <2>1, <3>2 DEF Cycle, Timer, Cipher, Tick
    <3>7. /\ mem_data_buf' = [mem_data_buf EXCEPT ![byte_counter] = {}]
          /\ xram' = [xram EXCEPT ![xram_addr] = encrypted_data_buf[byte_counter]]
          /\ UNCHANGED encrypted_data_buf
      BY <2>5 DEF Cycle, Buffers, Xram
    <3>8. waited = AckGap /\ waited' = 0
      BY <2>5 DEF Cycle, Xram, xram_stb
    <3>9. Stores
      BY <2>1, <2>5, <3>4, <3>5, <3>6, <3>7, <3>8 DEF Stores
    <3> QED BY <3>9 DEF Phase
  <2> QED BY <1>3, <2>2, <2>3, <2>4, <2>5 DEF Busy, TypeOK
<1> QED BY <1>1, <1>2, <1>3 DEF Busy

LEMMA NextIsPhase ==
  ASSUME TypeOK, Next PROVE Phase \/ Reset
<1>1. ASSUME NEW ack \in BOOLEAN, Clock(ack) PROVE Phase
  <2>1. PICK sel, v : Selects(sel, v) /\ Cycle(sel, v, ack)
    BY <1>1, ClockIsCycle
  <2> QED BY <1>1, <2>1, CycleIsPhase
<1> QED BY <1>1 DEF Next
(***************************************************************************)
(* Types.                                                                  *)
(***************************************************************************)
LEMMA ByteType ==
  /\ \A a, b \in Byte : Xor(a, b) \in Byte
  /\ \A p \in Ctr \X Keys, i \in Index : Pad(p, i) \in Byte
  /\ {} \in Byte
  /\ \A a \in Addr : {<<a>>} \in Byte
BY DEF Xor, Pad, Byte, Symbol

LEMMA CounterType ==
  ASSUME TypeOK
  PROVE  /\ NextByte \in Index /\ xram_addr \in Addr
         /\ AddrAdd(operated_bytes_count, Block) \in Addr
         /\ AddrAdd(block_counter, Block) \in Addr
         /\ CtrAdd(uaes_ctr, Block) \in Ctr
<1>1. byte_counter \in Addr /\ Block \in Ctr
  BY AddType DEF TypeOK
<1>2. NextByte \in Index
  BY SizeAssumption DEF TypeOK, NextByte, LastByte, Index
<1> QED BY <1>1, <1>2, AddType DEF TypeOK, xram_addr

LEMMA TickType ==
  ASSUME TypeOK, Tick PROVE aes_time_counter' \in 0 .. TimeMax
BY TimeAssumption DEF TypeOK, Tick

LEMMA ShiftType ==
  ASSUME TypeOK, Shift PROVE stages' \in [1 .. Latency -> Ctr \X Keys]
<1>1. \A d \in 1 .. Latency : d # 1 => d - 1 \in 1 .. Latency
  BY TimeAssumption
<1> QED BY <1>1 DEF TypeOK, Shift

LEMMA TypeInit == Init => TypeOK
<1> SUFFICES ASSUME Init PROVE TypeOK
  OBVIOUS
<1>1. 0 \in Addr /\ 0 \in Ctr /\ 0 \in Keys /\ 0 \in Index
  BY SizeAssumption, HostAssumption DEF Addr, Ctr, Index
<1>2. 0 \in 0 .. TimeMax /\ 0 \in 0 .. AckGap /\ 0 \in 0 .. MaxStarts
  BY TimeAssumption, HostAssumption
<1>3. xram \in [Addr -> Byte]
  BY ByteType DEF Init
<1>4. /\ mem_data_buf \in [Index -> Byte]
      /\ encrypted_data_buf \in [Index -> Byte]
  BY ByteType DEF Init
<1>5. stages \in [1 .. Latency -> Ctr \X Keys]
  BY <1>1 DEF Init
<1> QED BY <1>1, <1>2, <1>3, <1>4, <1>5 DEF Init, TypeOK

LEMMA TypeStep == TypeOK /\ [Next]_vars => TypeOK'
<1> SUFFICES ASSUME TypeOK, [Next]_vars PROVE TypeOK'
  OBVIOUS
<1>1. CASE Idles
  <2>1. waited' \in 0 .. AckGap
    BY <1>1, TimeAssumption DEF Idles
  <2>2. /\ aes_reg_opaddr' \in Addr /\ aes_reg_oplen' \in Addr
        /\ aes_reg_ctr' \in Ctr /\ aes_reg_key0' \in Keys
    BY <1>1 DEF Idles, OneWrite, TypeOK, regs
  <2> QED BY <1>1, <2>1, <2>2, TickType, ShiftType DEF TypeOK, Idles, counters, data, job
<1>2. CASE Starts
  <2>1. /\ waited' \in 0 .. AckGap /\ aes_time_counter' \in 0 .. TimeMax
        /\ starts' \in 0 .. MaxStarts
    BY <1>2, TimeAssumption, HostAssumption DEF Starts, TypeOK
  <2>2. 0 \in Addr /\ 0 \in Index
    BY SizeAssumption DEF Addr, Index
  <2>3. Shift
    BY <1>2 DEF Starts
  <2> QED BY <1>2, <2>1, <2>2, <2>3, ShiftType DEF TypeOK, Starts, regs, data
<1>3. CASE Waits
  <2>1. waited' \in 0 .. AckGap
    BY <1>3, TimeAssumption DEF Waits, TypeOK
  <2> QED BY <1>3, <2>1, TickType, ShiftType
    DEF TypeOK, Waits, Held, regs, counters, data, job
<1>4. CASE Loads
  <2>1. waited' \in 0 .. AckGap
    BY <1>4, TimeAssumption DEF Loads
  <2>2. mem_data_buf' \in [Index -> Byte]
    BY <1>4, CounterType DEF Loads, TypeOK
  <2>3. byte_counter' \in Index
    BY <1>4, CounterType DEF Loads
  <2> QED BY <1>4, <2>1, <2>2, <2>3, TickType, ShiftType
    DEF TypeOK, Loads, Held, regs, job
<1>5. CASE Operates
  <2>1. waited' \in 0 .. AckGap
    BY <1>5, TimeAssumption DEF Operates
  <2>2. encrypted_data_buf' \in [Index -> Byte]
    <3>1. stages[Latency] \in Ctr \X Keys
      BY TimeAssumption DEF TypeOK
    <3>2. \A i \in Index : mem_data_buf[i] \in Byte
      BY DEF TypeOK
    <3> QED BY <1>5, <3>1, <3>2, ByteType DEF Operates
  <2> QED BY <1>5, <2>1, <2>2, TickType, ShiftType
    DEF TypeOK, Operates, Held, regs, counters, job
<1>6. CASE Stores
  <2>1. waited' \in 0 .. AckGap
    BY <1>6, TimeAssumption DEF Stores
  <2>2. mem_data_buf' \in [Index -> Byte] /\ xram' \in [Addr -> Byte]
    BY <1>6, CounterType, ByteType DEF Stores, TypeOK
  <2>3. /\ byte_counter' \in Index /\ operated_bytes_count' \in Addr
        /\ block_counter' \in Addr /\ uaes_ctr' \in Ctr
    BY <1>6, CounterType DEF Stores, TypeOK
  <2>4. aes_time_counter' \in 0 .. TimeMax
    <3>1. CASE More
      BY <1>6, <3>1, TimeAssumption DEF Stores
    <3>2. CASE ~More
      BY <1>6, <3>2, TickType DEF Stores
    <3> QED BY <3>1, <3>2
  <2>5. Shift
    BY <1>6 DEF Stores
  <2> QED BY <1>6, <2>1, <2>2, <2>3, <2>4, <2>5, ShiftType
    DEF TypeOK, Stores, Held, regs, job
<1>7. CASE Reset
  <2>1. 0 \in Addr /\ 0 \in Ctr /\ 0 \in Keys /\ 0 \in Index
    BY SizeAssumption, HostAssumption DEF Addr, Ctr, Index
  <2>2. waited' \in 0 .. AckGap /\ aes_time_counter' \in 0 .. TimeMax
    BY <1>7, TimeAssumption DEF Reset
  <2>3. Shift
    BY <1>7 DEF Reset, Shift
  <2> QED BY <1>7, <2>1, <2>2, <2>3, ShiftType DEF TypeOK, Reset, data, job
<1>8. CASE UNCHANGED vars
  BY <1>8 DEF TypeOK, vars, regs, counters, cipher, data, job
<1> QED BY <1>1, <1>2, <1>3, <1>4, <1>5, <1>6, <1>7, <1>8, NextIsPhase DEF Phase

\* Every register keeps its type, whatever the sizes.
THEOREM TypeCorrect == Spec => []TypeOK
BY TypeInit, TypeStep, PTL DEF Spec

(***************************************************************************)
(* The invariant.                                                          *)
(***************************************************************************)
\* While the engine runs the registers are those of the job.
RegInv ==
  Busy => /\ aes_reg_opaddr = jobAddr /\ aes_reg_oplen = jobLen
          /\ aes_reg_ctr = jobCtr /\ aes_reg_key0 = jobKey

\* The block in hand is one of the job, and a job ends with its last block.
CountInv ==
  /\ block_counter \in BlockStart
  /\ aes_reg_state \in {"IDLE", "OPERATE"} => byte_counter = 0
  /\ Busy => operated_bytes_count = block_counter
  /\ Bounded /\ (Busy \/ Done) => block_counter = 0 \/ block_counter < jobLen
  /\ Bounded /\ Done => jobLen <= block_counter + Block

\* The counter is that of the block, and what entered the cipher since the
\* block began is this counter and the job's key.
CipherInv ==
  /\ Busy /\ Bounded => uaes_ctr = CtrAdd(jobCtr, block_counter)
  /\ Busy => \A d \in 1 .. Latency :
               d <= aes_time_counter => stages[d] = <<uaes_ctr, jobKey>>

CoreInv == TypeOK /\ RegInv /\ CountInv /\ CipherInv
LEMMA CoreInit == Init => CoreInv
<1> SUFFICES ASSUME Init PROVE CoreInv
  OBVIOUS
<1>1. TypeOK
  BY TypeInit
<1>2. ~Busy /\ ~Done
  BY DEF Init, Busy, Done
<1> QED BY <1>1, <1>2, BlocksApart DEF Init, CoreInv, RegInv, CountInv, CipherInv

LEMMA RegStep == ASSUME TypeOK, RegInv, [Next]_vars PROVE RegInv'
<1>1. CASE Idles \/ Reset
  BY <1>1 DEF Idles, Reset, RegInv, Busy
<1>2. CASE Starts
  BY <1>2 DEF Starts, RegInv, Busy, regs
<1>3. ASSUME Held, Busy PROVE RegInv'
  BY <1>3 DEF Held, RegInv, Busy, regs, job
<1>4. CASE Waits \/ Loads \/ Operates \/ Stores
  BY <1>3, <1>4 DEF Waits, Loads, Operates, Stores, Busy
<1>5. CASE UNCHANGED vars
  BY <1>5 DEF vars, RegInv, Busy, regs, job
<1> QED BY <1>1, <1>2, <1>4, <1>5, NextIsPhase DEF Phase

\* The block after one below the length is below the end of the addresses.
LEMMA NextBlock ==
  ASSUME TypeOK, Bounded, block_counter = 0 \/ block_counter < jobLen
  PROVE  /\ AddrAdd(block_counter, Block) = block_counter + Block
         /\ block_counter + Block < AddrSpace
<1>1. block_counter + Block < AddrSpace
  BY SizeAssumption DEF TypeOK, Bounded, Addr
<1> QED BY <1>1 DEF AddrAdd

LEMMA BlockType ==
  ASSUME TypeOK, block_counter \in BlockStart
  PROVE  AddrAdd(block_counter, Block) \in BlockStart
<1>1. block_counter + Block <= AddrSpace
  BY BlocksApart
<1>2. CASE block_counter + Block < AddrSpace
  BY <1>2, BlocksApart DEF AddrAdd
<1>3. CASE block_counter + Block = AddrSpace
  <2>1. AddrAdd(block_counter, Block) = 0
    BY <1>3, SizeAssumption DEF AddrAdd, TypeOK, Addr
  <2> QED BY <2>1, BlocksApart
<1> QED BY <1>1, <1>2, <1>3, SizeAssumption DEF TypeOK, Addr

LEMMA CountStep == ASSUME TypeOK, RegInv, CountInv, [Next]_vars PROVE CountInv'
<1>1. CASE Idles
  BY <1>1 DEF Idles, CountInv, Busy, Done, Bounded, counters, job
<1>2. CASE Starts
  BY <1>2, BlocksApart DEF Starts, CountInv, Busy, Done
<1>3. CASE Waits
  BY <1>3 DEF Waits, Held, CountInv, Busy, Done, Bounded, counters, job
<1>4. CASE Loads
  BY <1>4 DEF Loads, Held, CountInv, Busy, Done, Bounded, NextByte, LastByte, job
<1>5. CASE Operates
  BY <1>5 DEF Operates, Held, CountInv, Busy, Done, Bounded, counters, job
<1>6. CASE Stores
  <2>1. /\ Busy /\ operated_bytes_count = block_counter
        /\ block_counter \in BlockStart /\ aes_reg_oplen = jobLen
        /\ Bounded => block_counter = 0 \/ block_counter < jobLen
    BY <1>6 DEF Stores, Busy, CountInv, RegInv
  <2>2. UNCHANGED <<jobLen, jobAddr>> /\ (Bounded' <=> Bounded)
    BY <1>6 DEF Stores, Held, job, Bounded
  <2>3. CASE ~LastByte
    <3>1. ~More
      BY <2>3 DEF More
    <3>2. aes_reg_state' = "WRITE_DATA" /\ UNCHANGED <<operated_bytes_count, block_counter>>
      BY <1>6, <2>3, <3>1 DEF Stores
    <3> QED BY <2>1, <2>2, <3>2 DEF CountInv, Busy, Done
  <2>4. CASE More
    <3>1. /\ aes_reg_state' = "READ_DATA"
          /\ block_counter' = AddrAdd(block_counter, Block)
          /\ operated_bytes_count' = AddrAdd(block_counter, Block)
      BY <1>6, <2>1, <2>4 DEF Stores, More
    <3>2. block_counter' < jobLen
      BY <2>1, <2>4, <3>1 DEF More
    <3>3. block_counter' \in BlockStart
      BY <2>1, <3>1, BlockType
    <3> QED BY <2>2, <3>1, <3>2, <3>3 DEF CountInv, Busy, Done
  <2>5. CASE LastByte /\ ~More
    <3>1. /\ aes_reg_state' = "IDLE" /\ UNCHANGED block_counter
          /\ operated_bytes_count' = AddrAdd(block_counter, Block)
          /\ byte_counter' = 0
      BY <1>6, <2>1, <2>5 DEF Stores, NextByte
    <3>2. ~(AddrAdd(block_counter, Block) < jobLen)
      BY <2>1, <2>5 DEF More
    <3>3. Bounded => jobLen <= block_counter + Block
      <4> SUFFICES ASSUME Bounded PROVE jobLen <= block_counter + Block
        OBVIOUS
      <4>1. AddrAdd(block_counter, Block) = block_counter + Block
        BY <2>1, NextBlock
      <4> QED BY <3>2, <4>1, SizeAssumption DEF TypeOK, Addr
    <3> QED BY <2>1, <2>2, <3>1, <3>3 DEF CountInv, Busy, Done
  <2> QED BY <2>3, <2>4, <2>5
<1>7. CASE Reset
  BY <1>7, BlocksApart DEF Reset, CountInv, Busy, Done
<1>8. CASE UNCHANGED vars
  BY <1>8 DEF vars, CountInv, Busy, Done, Bounded, counters, job
<1> QED BY <1>1, <1>2, <1>3, <1>4, <1>5, <1>6, <1>7, <1>8, NextIsPhase DEF Phase

\* One more cycle with the same counter is one more stage that holds it.
LEMMA StageStep ==
  ASSUME TypeOK, Busy, RegInv, CipherInv, Tick, Shift, UNCHANGED <<uaes_ctr, jobKey>>
  PROVE  \A d \in 1 .. Latency :
           d <= aes_time_counter' => stages'[d] = <<uaes_ctr', jobKey'>>
<1> SUFFICES ASSUME NEW d \in 1 .. Latency, d <= aes_time_counter'
             PROVE  stages'[d] = <<uaes_ctr, jobKey>>
  OBVIOUS
<1>1. CASE d = 1
  BY <1>1 DEF Shift, RegInv
<1>2. CASE d # 1
  <2>1. d - 1 \in 1 .. Latency /\ d - 1 <= aes_time_counter
    BY <1>2, TimeAssumption DEF Tick, TypeOK
  <2> QED BY <1>2, <2>1 DEF Shift, CipherInv
<1> QED BY <1>1, <1>2

\* The counter of the next block.
LEMMA NextCounter ==
  ASSUME NEW c \in Ctr, NEW b \in Addr, b + Block < AddrSpace
  PROVE  CtrAdd(CtrAdd(c, b), Block) = CtrAdd(c, b + Block)
BY SizeAssumption DEF CtrAdd, Ctr, Addr

LEMMA CipherStep ==
  ASSUME TypeOK, RegInv, CountInv, CipherInv, [Next]_vars PROVE CipherInv'
<1>1. CASE Idles \/ Reset
  BY <1>1 DEF Idles, Reset, CipherInv, Busy
<1>2. CASE Starts
  <2>1. jobCtr' \in Ctr
    BY <1>2 DEF Starts, TypeOK
  <2>2. \A c \in Ctr : CtrAdd(c, 0) = c
    BY SizeAssumption DEF CtrAdd, Ctr
  <2> QED BY <1>2, <2>1, <2>2, TimeAssumption DEF Starts, CipherInv
<1>3. ASSUME Busy, Held, Tick, Shift, UNCHANGED <<uaes_ctr, block_counter>>
      PROVE  CipherInv'
  <2>1. UNCHANGED <<jobCtr, jobKey, jobLen>>
    BY <1>3 DEF Held, job
  <2> QED BY <1>3, <2>1, StageStep DEF CipherInv, Bounded, Busy
<1>4. CASE Waits \/ Loads \/ Operates
  BY <1>3, <1>4 DEF Waits, Loads, Operates, Busy, counters
<1>5. CASE Stores /\ ~More
  BY <1>3, <1>5 DEF Stores, Busy
<1>6. CASE Stores /\ More
  <2>1. /\ Busy /\ aes_time_counter' = 0 /\ uaes_ctr' = CtrAdd(uaes_ctr, Block)
        /\ block_counter' = AddrAdd(block_counter, Block)
    BY <1>6 DEF Stores, Busy
  <2>2. UNCHANGED <<jobCtr, jobLen>>
    BY <1>6 DEF Stores, Held, job
  <2>3. ASSUME Bounded PROVE uaes_ctr' = CtrAdd(jobCtr, block_counter')
    <3>1. block_counter = 0 \/ block_counter < jobLen
      BY <2>1, <2>3 DEF CountInv
    <3>2. /\ AddrAdd(block_counter, Block) = block_counter + Block
          /\ block_counter + Block < AddrSpace
      BY <2>3, <3>1, NextBlock
    <3>3. CtrAdd(CtrAdd(jobCtr, block_counter), Block) = CtrAdd(jobCtr, block_counter + Block)
      BY <3>2, NextCounter DEF TypeOK
    <3> QED BY <2>1, <2>3, <3>2, <3>3 DEF CipherInv
  <2> QED BY <2>1, <2>2, <2>3 DEF CipherInv, Bounded
<1>7. CASE UNCHANGED vars
  BY <1>7 DEF vars, CipherInv, Busy, Bounded, counters, cipher, job
<1> QED BY <1>1, <1>2, <1>4, <1>5, <1>6, <1>7, NextIsPhase DEF Phase

\* The inputs in the cipher, the counts and the registers of a job stay in step
\* through cycles, starts and resets.
THEOREM CoreInvariant == Spec => []CoreInv
<1>1. CoreInv /\ [Next]_vars => CoreInv'
  BY TypeStep, RegStep, CountStep, CipherStep DEF CoreInv
<1> QED BY <1>1, CoreInit, PTL DEF Spec

\* The two byte counts and the counter of the block never get out of step.
THEOREM CountersAlwaysAgree == Spec => []CountersAgree
<1>1. CoreInv => CountersAgree
  BY DEF CoreInv, RegInv, CountInv, CipherInv, CountersAgree
<1> QED BY <1>1, CoreInvariant, PTL
(***************************************************************************)
(* Counter mode.  It needs that the cipher has finished when OPERATE ends: *)
(* either it is waited for, or loading a block takes the XRAM as long as   *)
(* the cipher takes.  The code waits 20 cycles for a cipher of 21 and      *)
(* relies on the XRAM, which needs 2 * 16 (run aes_fast_xram shows what    *)
(* happens otherwise).                                                     *)
(***************************************************************************)
Pace == Latency <= TimeEnough \/ Latency <= Block * (AckGap + 1)

\* Loading has taken as long as the XRAM makes it take.
TimeInv ==
  /\ aes_reg_state = "READ_DATA" =>
       \/ Latency <= aes_time_counter
       \/ byte_counter * (AckGap + 1) + waited <= aes_time_counter
  /\ aes_reg_state = "OPERATE" =>
       \/ Latency <= aes_time_counter
       \/ Block * (AckGap + 1) <= aes_time_counter

\* The buffers hold the block in hand, in plain and then in cipher.
BufferInv ==
  Bounded =>
    /\ aes_reg_state = "READ_DATA" =>
         \A i \in Index : i < byte_counter =>
           mem_data_buf[i] = jobMem[ByteAddr(block_counter, i)]
    /\ aes_reg_state = "OPERATE" =>
         \A i \in Index : mem_data_buf[i] = jobMem[ByteAddr(block_counter, i)]
    /\ aes_reg_state = "WRITE_DATA" =>
         \A i \in Index : encrypted_data_buf[i] = CipherByte(block_counter, i)

DataInv == TimeInv /\ BufferInv /\ CounterMode

LEMMA DataInit == Init => DataInv
BY DEF Init, DataInv, TimeInv, BufferInv, CounterMode, Busy, Done

LEMMA TickTime ==
  ASSUME TypeOK, Tick
  PROVE  /\ Latency <= aes_time_counter => Latency <= aes_time_counter'
         /\ \A n \in Nat : n <= aes_time_counter =>
              Latency <= aes_time_counter' \/ n + 1 <= aes_time_counter'
BY TimeAssumption DEF TypeOK, Tick

LEMMA TimeStep ==
  ASSUME CoreInv, TimeInv, [Next]_vars PROVE TimeInv'
<1> USE DEF CoreInv
<1> DEFINE G == AckGap + 1
<1>1. G \in Nat /\ byte_counter \in Nat /\ waited \in Nat /\ Block \in Nat
  BY TimeAssumption, SizeAssumption DEF TypeOK, Index
<1>2. byte_counter * G \in Nat /\ (byte_counter + 1) * G = byte_counter * G + G
  BY <1>1
<1>3. CASE Idles \/ Reset
  BY <1>3 DEF Idles, Reset, TimeInv
<1>4. CASE Starts
  <2>1. aes_reg_state' = "READ_DATA" /\ byte_counter' = 0 /\ waited' = 0 /\ aes_time_counter' = 0
    BY <1>4 DEF Starts
  <2>2. 0 * (AckGap + 1) + 0 <= 0
    BY TimeAssumption
  <2> QED BY <2>1, <2>2 DEF TimeInv
<1>5. CASE Waits
  <2>1. UNCHANGED <<aes_reg_state, byte_counter>> /\ Tick
    BY <1>5 DEF Waits, counters
  <2>2. waited' = waited \/ waited' = waited + 1
    BY <1>5 DEF Waits
  <2>3. ASSUME aes_reg_state = "READ_DATA"
        PROVE  \/ Latency <= aes_time_counter'
               \/ byte_counter * G + waited' <= aes_time_counter'
    <3>1. CASE Latency <= aes_time_counter
      BY <2>1, <3>1, TickTime
    <3>2. CASE byte_counter * G + waited <= aes_time_counter
      <4>1. \/ Latency <= aes_time_counter'
            \/ byte_counter * G + waited + 1 <= aes_time_counter'
        BY <1>1, <1>2, <2>1, <3>2, TickTime
      <4>2. aes_time_counter' \in Nat
        BY <2>1, TickType, TimeAssumption
      <4> HIDE DEF G
      <4> QED BY <1>1, <1>2, <2>2, <4>1, <4>2
    <3> QED BY <2>3, <3>1, <3>2 DEF TimeInv
  <2>4. aes_reg_state # "OPERATE"
    BY <1>5 DEF Waits
  <2> QED BY <2>1, <2>3, <2>4 DEF TimeInv
<1>6. CASE Loads
  <2>1. /\ aes_reg_state = "READ_DATA" /\ Tick /\ waited = AckGap /\ waited' = 0
        /\ byte_counter' = NextByte
        /\ aes_reg_state' = IF LastByte THEN "OPERATE" ELSE "READ_DATA"
    BY <1>6 DEF Loads
  <2>2. aes_time_counter' \in Nat
    BY <2>1, TickType, TimeAssumption
  <2>3. \/ Latency <= aes_time_counter'
        \/ (byte_counter + 1) * G <= aes_time_counter'
    <3>1. CASE Latency <= aes_time_counter
      BY <2>1, <3>1, TickTime
    <3>2. CASE byte_counter * G + waited <= aes_time_counter
      <4>1. \/ Latency <= aes_time_counter'
            \/ byte_counter * G + waited + 1 <= aes_time_counter'
        BY <1>1, <1>2, <2>1, <3>2, TickTime
      <4>2. byte_counter * G + waited + 1 = (byte_counter + 1) * G
        BY <1>1, <1>2, <2>1
      <4> QED BY <4>1, <4>2
    <3> QED BY <2>1, <3>1, <3>2 DEF TimeInv
  <2>4. CASE LastByte
    <3>1. byte_counter + 1 = Block
      BY <1>1, <2>4, SizeAssumption DEF LastByte
    <3> QED BY <2>1, <2>3, <2>4, <3>1 DEF TimeInv
  <2>5. CASE ~LastByte
    <3>1. byte_counter' = byte_counter + 1
      BY <2>1, <2>5 DEF NextByte
    <3>2. (byte_counter + 1) * G + 0 = (byte_counter + 1) * G
      BY <1>1
    <3> QED BY <2>1, <2>3, <2>5, <3>1, <3>2 DEF TimeInv
  <2> QED BY <2>4, <2>5
<1>7. CASE Operates
  <2>1. aes_reg_state = "OPERATE" /\ Tick /\ aes_reg_state' \in {"OPERATE", "WRITE_DATA"}
    BY <1>7 DEF Operates
  <2>2. Block * G \in Nat /\ aes_time_counter' \in Nat
    BY <1>1, <2>1, TickType, TimeAssumption
  <2>3. \/ Latency <= aes_time_counter'
        \/ Block * G <= aes_time_counter'
    <3>1. CASE Latency <= aes_time_counter
      BY <2>1, <3>1, TickTime
    <3>2. CASE Block * G <= aes_time_counter
      <4>1. Latency <= aes_time_counter' \/ Block * G + 1 <= aes_time_counter'
        BY <2>1, <2>2, <3>2, TickTime
      <4> HIDE DEF G
      <4> QED BY <2>2, <4>1
    <3> QED BY <2>1, <3>1, <3>2 DEF TimeInv
  <2> QED BY <2>1, <2>3 DEF TimeInv
<1>8. CASE Stores
  <2>1. /\ aes_reg_state' \in {"READ_DATA", "IDLE", "WRITE_DATA"}
        /\ aes_reg_state' = "READ_DATA" =>
             byte_counter' = 0 /\ waited' = 0 /\ aes_time_counter' = 0
    BY <1>8 DEF Stores, NextByte, More
  <2>2. 0 * (AckGap + 1) + 0 <= 0
    BY TimeAssumption
  <2> QED BY <2>1, <2>2 DEF TimeInv
<1>9. CASE UNCHANGED vars
  BY <1>9 DEF vars, TimeInv, counters, cipher
<1> QED BY <1>3, <1>4, <1>5, <1>6, <1>7, <1>8, <1>9, NextIsPhase DEF Phase

LEMMA ByteAddrType ==
  ASSUME TypeOK, NEW b \in Addr, NEW i \in Index PROVE ByteAddr(b, i) \in Addr
BY AddType DEF TypeOK, ByteAddr

\* The XRAM is asked for the next byte of the block in hand.
LEMMA XramAddr ==
  ASSUME RegInv, Busy PROVE xram_addr = ByteAddr(block_counter, byte_counter)
BY DEF RegInv, xram_addr, ByteAddr

LEMMA CipherFinished ==
  ASSUME Pace, CoreInv, TimeInv, aes_reg_state = "OPERATE", aes_time_enough
  PROVE  stages[Latency] = <<uaes_ctr, jobKey>>
<1>1. Latency <= aes_time_counter
  <2>1. Latency \in Nat /\ aes_time_counter \in Nat /\ TimeEnough \in Nat
        /\ Block * (AckGap + 1) \in Nat
    BY TimeAssumption, SizeAssumption DEF CoreInv, TypeOK
  <2>2. TimeEnough <= aes_time_counter
    BY <2>1 DEF aes_time_enough
  <2> QED BY <2>1, <2>2 DEF Pace, TimeInv
<1>2. Latency \in 1 .. Latency
  BY TimeAssumption
<1> QED BY <1>1, <1>2 DEF CoreInv, CipherInv, Busy

\* The block that OPERATE leaves.
LEMMA BlockEncrypted ==
  ASSUME Pace, CoreInv, DataInv, Operates, aes_time_enough, Bounded, NEW i \in Index
  PROVE  encrypted_data_buf'[i] = CipherByte(block_counter, i)
<1>1. aes_reg_state = "OPERATE" /\ Busy
  BY DEF Operates, Busy
<1>2. stages[Latency] = <<CtrAdd(jobCtr, block_counter), jobKey>>
  BY <1>1, CipherFinished DEF CoreInv, CipherInv, DataInv
<1>3. mem_data_buf[i] = jobMem[ByteAddr(block_counter, i)]
  BY <1>1 DEF DataInv, BufferInv
<1> QED BY <1>2, <1>3 DEF Operates, CipherByte

LEMMA BufferStep ==
  ASSUME Pace, CoreInv, DataInv, [Next]_vars PROVE BufferInv'
<1> USE DEF CoreInv, DataInv
<1>1. CASE Idles \/ Reset
  BY <1>1 DEF Idles, Reset, BufferInv
<1>2. CASE Starts
  <2>1. aes_reg_state' = "READ_DATA" /\ byte_counter' = 0
    BY <1>2 DEF Starts
  <2>2. \A i \in Index : ~(i < 0)
    BY DEF Index
  <2> QED BY <2>1, <2>2 DEF BufferInv
<1>3. CASE Waits
  BY <1>3 DEF Waits, Held, BufferInv, Bounded, ByteAddr, CipherByte, counters, data, job
<1>4. CASE Loads
  <2>1. /\ Busy /\ aes_reg_state = "READ_DATA" /\ UNCHANGED <<block_counter, jobAddr, jobMem, jobLen>>
        /\ mem_data_buf' = [mem_data_buf EXCEPT ![byte_counter] = xram[xram_addr]]
        /\ byte_counter' = NextByte
        /\ aes_reg_state' = IF LastByte THEN "OPERATE" ELSE "READ_DATA"
    BY <1>4 DEF Loads, Held, Busy, job
  <2>2. SUFFICES ASSUME Bounded, NEW i \in Index, i < byte_counter + 1
                 PROVE  mem_data_buf'[i] = jobMem[ByteAddr(block_counter, i)]
    <3>1. (\A i \in Index : ~LastByte /\ i < byte_counter' => i < byte_counter + 1)
          /\ (\A i \in Index : LastByte => i < byte_counter + 1)
      BY <2>1, SizeAssumption DEF NextByte, LastByte, Index, TypeOK
    <3> QED BY <2>1, <3>1 DEF BufferInv, Bounded, ByteAddr
  <2>3. CASE i = byte_counter
    <3>1. ~Written(block_counter, i)
      BY <2>1, SizeAssumption DEF Written, Done, TypeOK, Addr
    <3>2. xram[ByteAddr(block_counter, i)] = jobMem[ByteAddr(block_counter, i)]
      BY <2>1, <2>2, <3>1 DEF CounterMode, CountInv
    <3> QED BY <2>1, <2>3, <3>2, XramAddr DEF TypeOK
  <2>4. CASE i # byte_counter
    <3>1. i < byte_counter
      BY <2>2, <2>4, SizeAssumption DEF Index, TypeOK
    <3> QED BY <2>1, <2>2, <2>4, <3>1 DEF BufferInv, TypeOK
  <2> QED BY <2>3, <2>4
<1>5. CASE Operates
  <2>1. UNCHANGED <<block_counter, mem_data_buf, jobAddr, jobLen, jobCtr, jobKey, jobMem>>
    BY <1>5 DEF Operates, Held, counters, job
  <2>2. CASE aes_time_enough
    <3>1. aes_reg_state' = "WRITE_DATA"
      BY <1>5, <2>2 DEF Operates
    <3>2. ASSUME Bounded, NEW i \in Index
          PROVE  encrypted_data_buf'[i] = CipherByte(block_counter, i)
      BY <1>5, <2>2, <3>2, BlockEncrypted
    <3> QED BY <2>1, <3>1, <3>2 DEF BufferInv, Bounded, CipherByte, ByteAddr
  <2>3. CASE ~aes_time_enough
    <3>1. aes_reg_state' = "OPERATE" /\ aes_reg_state = "OPERATE"
      BY <1>5, <2>3 DEF Operates
    <3> QED BY <2>1, <3>1 DEF BufferInv, Bounded, ByteAddr
  <2> QED BY <2>2, <2>3
<1>6. CASE Stores
  <2>1. UNCHANGED <<encrypted_data_buf, jobAddr, jobLen, jobCtr, jobKey, jobMem>>
    BY <1>6 DEF Stores, Held, job
  <2>2. CASE aes_reg_state' = "WRITE_DATA"
    <3>1. UNCHANGED block_counter /\ aes_reg_state = "WRITE_DATA"
      BY <1>6, <2>2 DEF Stores, More
    <3> QED BY <2>1, <2>2, <3>1 DEF BufferInv, Bounded, CipherByte, ByteAddr
  <2>3. CASE aes_reg_state' = "READ_DATA"
    <3>1. byte_counter' = 0
      BY <1>6, <2>3 DEF Stores, More, NextByte
    <3>2. \A i \in Index : ~(i < 0)
      BY DEF Index
    <3> QED BY <2>3, <3>1, <3>2 DEF BufferInv
  <2>4. CASE aes_reg_state' = "IDLE"
    BY <2>4 DEF BufferInv
  <2> QED BY <1>6, <2>2, <2>3, <2>4 DEF Stores
<1>7. CASE UNCHANGED vars
  BY <1>7 DEF vars, BufferInv, Bounded, CipherByte, ByteAddr, counters, data, job
<1> QED BY <1>1, <1>2, <1>3, <1>4, <1>5, <1>6, <1>7, NextIsPhase DEF Phase
\* A store adds just the byte in hand to those written back.
LEMMA WrittenGrows ==
  ASSUME CoreInv, Stores, Bounded, NEW b \in BlockStart, NEW i \in Index
  PROVE  Written(b, i)' <=> Written(b, i) \/ (b = block_counter /\ i = byte_counter)
<1> USE DEF CoreInv
<1>1. /\ aes_reg_state = "WRITE_DATA" /\ Busy
      /\ block_counter = 0 \/ block_counter < jobLen
      /\ block_counter \in BlockStart /\ operated_bytes_count = block_counter
      /\ aes_reg_oplen = jobLen
      /\ UNCHANGED jobLen
  BY DEF Stores, Busy, CountInv, RegInv, Held, job
<1>2. /\ AddrAdd(block_counter, Block) = block_counter + Block
      /\ block_counter + Block < AddrSpace
  BY <1>1, NextBlock
<1>3. /\ b \in Nat /\ block_counter \in Nat /\ jobLen \in Nat /\ Block \in Nat \ {0}
      /\ i \in 0 .. Block - 1 /\ byte_counter \in 0 .. Block - 1
  BY SizeAssumption DEF BlockStart, Addr, Index, TypeOK
<1>4. Written(b, i) <=> b < block_counter \/ (b = block_counter /\ i < byte_counter)
  BY <1>1 DEF Written, Done, Busy
<1>5. /\ b < block_counter => b + Block <= block_counter
      /\ block_counter < b => block_counter + Block <= b
  BY <1>1, BlocksApart
<1>6. CASE ~LastByte
  <2>1. aes_reg_state' = "WRITE_DATA" /\ block_counter' = block_counter
        /\ byte_counter' = byte_counter + 1
    BY <1>6 DEF Stores, More, NextByte
  <2>2. Written(b, i)' <=> b < block_counter \/ (b = block_counter /\ i < byte_counter + 1)
    BY <2>1 DEF Written, Done, Busy
  <2> QED BY <1>3, <1>4, <2>2
<1>7. CASE More
  <2>1. LastByte /\ aes_reg_state' = "READ_DATA" /\ block_counter' = block_counter + Block
    BY <1>2, <1>7 DEF Stores, More
  <2>2. Written(b, i)' <=> b < block_counter + Block
    BY <2>1 DEF Written, Done, Busy
  <2> QED BY <1>3, <1>4, <1>5, <2>1, <2>2 DEF LastByte
<1>8. CASE LastByte /\ ~More
  <2>1. aes_reg_state' = "IDLE" /\ operated_bytes_count' = block_counter + Block
    BY <1>1, <1>2, <1>8 DEF Stores
  <2>2. ~(block_counter + Block < jobLen)
    BY <1>1, <1>2, <1>8 DEF More
  <2>3. Done'
    BY <1>3, <2>1 DEF Done
  <2>4. Written(b, i)' <=> b < jobLen \/ b = 0
    BY <1>1, <2>1, <2>3 DEF Written, Busy
  <2>5. (b < jobLen \/ b = 0) <=> b <= block_counter
    BY <1>1, <1>3, <1>5, <2>2
  <2>6. b <= block_counter <=> Written(b, i) \/ (b = block_counter /\ i = byte_counter)
    BY <1>3, <1>4, <1>8 DEF LastByte
  <2> QED BY <2>4, <2>5, <2>6
<1> QED BY <1>6, <1>7, <1>8

LEMMA ModeStep ==
  ASSUME CoreInv, DataInv, [Next]_vars PROVE CounterMode'
<1> USE DEF CoreInv, DataInv
<1>1. CASE Reset
  BY <1>1 DEF Reset, CounterMode, Busy, Done
<1>2. CASE Starts
  <2>1. \A b \in BlockStart, i \in Index :
          ~Written(b, i)' /\ ByteAddr(b, i)' \in Addr
    <3>1. aes_reg_state' = "READ_DATA" /\ block_counter' = 0
      BY <1>2 DEF Starts
    <3>2. \A b \in BlockStart : b \in Addr /\ ~(b < 0)
      BY SizeAssumption DEF BlockStart, Addr
    <3>3. jobAddr' \in Addr
      BY <1>2 DEF Starts, TypeOK
    <3> QED BY <3>1, <3>2, <3>3, AddType DEF Written, Done, ByteAddr
  <2> QED BY <1>2, <2>1 DEF Starts, CounterMode, data
<1>3. ASSUME UNCHANGED <<xram, job, counters>>,
             Busy' \/ Done' => Busy \/ Done,
             \A b \in BlockStart, i \in Index : Busy \/ Done => (Written(b, i)' <=> Written(b, i))
      PROVE  CounterMode'
  <2>1. UNCHANGED <<jobAddr, jobLen, jobCtr, jobKey, jobMem>>
    BY <1>3 DEF job
  <2> QED BY <1>3, <2>1 DEF CounterMode, Bounded, CipherByte, ByteAddr
<1>4. CASE Idles
  BY <1>3, <1>4 DEF Idles, Busy, Done, Written, counters, data, job
<1>5. CASE Waits
  BY <1>3, <1>5 DEF Waits, Held, Busy, Done, Written, counters, data, job
<1>6. CASE Loads
  <2>1. UNCHANGED <<xram, jobAddr, jobLen, jobCtr, jobKey, jobMem, block_counter>> /\ Busy
        /\ aes_reg_state = "READ_DATA" /\ aes_reg_state' \in {"READ_DATA", "OPERATE"}
    BY <1>6 DEF Loads, Held, job, Busy
  <2>2. \A b \in BlockStart, i \in Index : Written(b, i)' <=> Written(b, i)
    BY <2>1 DEF Written, Busy, Done
  <2> QED BY <2>1, <2>2 DEF CounterMode, Bounded, CipherByte, ByteAddr
<1>7. CASE Operates
  <2>1. /\ UNCHANGED <<xram, job, counters>> /\ Busy
        /\ aes_reg_state = "OPERATE" /\ aes_reg_state' \in {"OPERATE", "WRITE_DATA"}
    BY <1>7 DEF Operates, Held, Busy
  <2>2. \A i \in Index : ~(i < byte_counter)
    BY <2>1 DEF CountInv, Index
  <2>3. \A b \in BlockStart, i \in Index : Written(b, i)' <=> Written(b, i)
    BY <2>1, <2>2 DEF Written, Busy, Done, counters
  <2> QED BY <1>3, <2>1, <2>3
<1>8. CASE Stores
  <2>1. /\ Busy /\ aes_reg_state = "WRITE_DATA"
        /\ UNCHANGED <<jobAddr, jobLen, jobCtr, jobKey, jobMem>>
        /\ xram' = [xram EXCEPT ![xram_addr] = encrypted_data_buf[byte_counter]]
    BY <1>8 DEF Stores, Busy, Held, job
  <2> SUFFICES ASSUME Bounded, NEW b \in BlockStart, NEW i \in Index
               PROVE  xram'[ByteAddr(b, i)] =
                        IF Written(b, i)' THEN CipherByte(b, i) ELSE jobMem[ByteAddr(b, i)]
    BY <2>1 DEF CounterMode, Bounded, CipherByte, ByteAddr
  <2>2. xram_addr = ByteAddr(block_counter, byte_counter)
    BY <2>1, XramAddr
  <2>3. /\ block_counter \in BlockStart /\ byte_counter \in Index
        /\ ByteAddr(b, i) \in Addr /\ jobAddr \in Addr
    BY ByteAddrType DEF CountInv, TypeOK, BlockStart
  <2>4. Written(b, i)' <=> Written(b, i) \/ (b = block_counter /\ i = byte_counter)
    BY <1>8, WrittenGrows
  <2>5. CASE b = block_counter /\ i = byte_counter
    <3>1. encrypted_data_buf[i] = CipherByte(b, i)
      BY <2>1, <2>5 DEF BufferInv
    <3> QED BY <2>1, <2>2, <2>3, <2>4, <2>5, <3>1 DEF TypeOK
  <2>6. CASE ~(b = block_counter /\ i = byte_counter)
    <3>1. ByteAddr(b, i) # xram_addr
      BY <2>2, <2>3, <2>6, ByteAddrInjective
    <3> QED BY <2>1, <2>3, <2>4, <2>6, <3>1 DEF TypeOK, CounterMode
  <2> QED BY <2>5, <2>6
<1>9. CASE UNCHANGED vars
  BY <1>3, <1>9 DEF vars, Busy, Done, Written, counters, data, job
<1> QED BY <1>1, <1>2, <1>4, <1>5, <1>6, <1>7, <1>8, <1>9, NextIsPhase DEF Phase

LEMMA DataInvariant == ASSUME Pace PROVE Spec => []DataInv
<1>1. CoreInv /\ DataInv /\ [Next]_vars => DataInv'
  BY TimeStep, BufferStep, ModeStep DEF DataInv
<1> QED BY <1>1, DataInit, CoreInvariant, PTL DEF Spec

\* What is written back was encrypted with this block's counter, although
\* nobody asks the cipher whether it has finished.
THEOREM BlockAlwaysCipher == Pace => (Spec => []BlockCipher)
<1> SUFFICES ASSUME Pace PROVE Spec => []BlockCipher
  OBVIOUS
<1>1. DataInv => BlockCipher
  BY DEF DataInv, BufferInv, BlockCipher
<1> QED BY <1>1, DataInvariant, PTL

\* Every job, whatever the host writes while it runs, encrypts just its bytes.
THEOREM AlwaysCounterMode == Pace => (Spec => []CounterMode)
<1> SUFFICES ASSUME Pace PROVE Spec => []CounterMode
  OBVIOUS
<1>1. DataInv => CounterMode
  BY DEF DataInv
<1> QED BY <1>1, DataInvariant, PTL
(***************************************************************************)
(* Refinement of the instruction-level abstraction.                        *)
(***************************************************************************)
\* The encrypted block as the ILA sees it.
Encrypted ==
  IF aes_reg_state = "WRITE_DATA" THEN encrypted_data_buf ELSE [i \in Index |-> {}]

LEMMA EncryptedType == ASSUME TypeOK PROVE Encrypted \in [Index -> Byte]
BY ByteType DEF TypeOK, Encrypted

LEMMA IlaSame ==
  ASSUME UNCHANGED <<aes_reg_state, regs, xram, mem_data_buf, Encrypted,
                     byte_counter, block_counter>>
  PROVE  UNCHANGED Ila!ilaVars
BY DEF Ila!ilaVars, Ila!registers, Ila!child, Encrypted, regs

LEMMA IdleInstruction ==
  ASSUME TypeOK, Idles
  PROVE  Ila!Next \/ UNCHANGED Ila!ilaVars
<1> USE DEF Ila!is_status_idle, Ila!registers, Ila!child, Ila!Addr, Ila!Ctr, Addr, Ctr
<1>1. /\ aes_reg_state = "IDLE" /\ UNCHANGED <<aes_reg_state, xram, mem_data_buf,
                                              byte_counter, block_counter>>
      /\ Encrypted' = Encrypted
  BY DEF Idles, data, counters, Encrypted
<1>2. CASE UNCHANGED regs
  BY <1>1, <1>2, IlaSame
<1>3. CASE aes_reg_opaddr' \in Addr /\ UNCHANGED <<aes_reg_oplen, aes_reg_ctr, aes_reg_key0>>
  <2>1. Ila!WRITE_ADDRESS
    BY <1>1, <1>3 DEF Ila!WRITE_ADDRESS, Encrypted
  <2> QED BY <2>1 DEF Ila!Next
<1>4. CASE aes_reg_oplen' \in Addr /\ UNCHANGED <<aes_reg_opaddr, aes_reg_ctr, aes_reg_key0>>
  <2>1. Ila!WRITE_LENGTH
    BY <1>1, <1>4 DEF Ila!WRITE_LENGTH, Encrypted
  <2> QED BY <2>1 DEF Ila!Next
<1>5. CASE aes_reg_ctr' \in Ctr /\ UNCHANGED <<aes_reg_opaddr, aes_reg_oplen, aes_reg_key0>>
  <2>1. Ila!WRITE_COUNTER
    BY <1>1, <1>5 DEF Ila!WRITE_COUNTER, Encrypted
  <2> QED BY <2>1 DEF Ila!Next
<1>6. CASE aes_reg_key0' \in Keys /\ UNCHANGED <<aes_reg_opaddr, aes_reg_oplen, aes_reg_ctr>>
  <2>1. Ila!WRITE_KEY
    BY <1>1, <1>6 DEF Ila!WRITE_KEY, Encrypted
  <2> QED BY <2>1 DEF Ila!Next
<1> QED BY <1>2, <1>3, <1>4, <1>5, <1>6 DEF Idles, OneWrite

LEMMA StartInstruction ==
  ASSUME TypeOK, Starts PROVE OddStart \/ Ila!START_ENCRYPT
BY DEF Starts, OddStart, Ila!START_ENCRYPT, Ila!is_status_idle, Ila!registers, regs, data, Encrypted

LEMMA LoadInstruction == ASSUME TypeOK, TypeOK', Loads PROVE Ila!LOAD
<1>1. aes_reg_state = "READ_DATA" /\ UNCHANGED <<regs, xram, block_counter>>
  BY DEF Loads, Held
<1>2. byte_counter' = Ila!byte_next
  BY DEF Loads, NextByte, LastByte, Ila!byte_next, Ila!last_byte
<1>3. mem_data_buf' = [mem_data_buf EXCEPT ![byte_counter] = xram[Ila!xram_address]]
  BY DEF Loads, xram_addr, AddrAdd, Ila!xram_address, Ila!AddrAdd
<1>4. aes_reg_state' = IF Ila!last_byte THEN "OPERATE" ELSE aes_reg_state
  BY DEF Loads, LastByte, Ila!last_byte
<1>5. Encrypted' \in Ila!Buffer
  BY EncryptedType, ByteType DEF TypeOK, Encrypted, Ila!Buffer, Ila!Index, Index
<1> QED BY <1>1, <1>2, <1>3, <1>4, <1>5 DEF Ila!LOAD, Ila!registers, regs, Encrypted

LEMMA OperateInstruction ==
  ASSUME Pace, CoreInv, DataInv, Operates, aes_time_enough, Bounded
  PROVE  Ila!OPERATE
<1>1. /\ aes_reg_state = "OPERATE" /\ aes_reg_state' = "WRITE_DATA" /\ Busy
      /\ UNCHANGED <<regs, xram, mem_data_buf, byte_counter, block_counter>>
  BY DEF Operates, Held, Busy, counters
<1>2. stages[Latency] = <<CtrAdd(aes_reg_ctr, block_counter), aes_reg_key0>>
  BY <1>1, CipherFinished DEF CoreInv, CipherInv, RegInv, DataInv
<1>3. encrypted_data_buf' =
        [i \in Ila!Index |->
           Xor(mem_data_buf[i],
               Pad(<<Ila!CtrAdd(aes_reg_ctr, block_counter), aes_reg_key0>>, i))]
  BY <1>2 DEF Operates, Ila!Index, Index, Ila!CtrAdd, CtrAdd
<1> QED BY <1>1, <1>3 DEF Ila!OPERATE, Ila!registers, regs, Encrypted

LEMMA StoreInstruction == ASSUME CoreInv, TypeOK', Stores PROVE Ila!STORE
<1>1. /\ aes_reg_state = "WRITE_DATA" /\ UNCHANGED regs
      /\ operated_bytes_count = block_counter
  BY DEF Stores, Held, CoreInv, CountInv, Busy
<1>2. (LastByte <=> Ila!last_byte) /\ (More <=> Ila!last_byte /\ Ila!more)
  BY <1>1 DEF More, LastByte, AddrAdd, Ila!last_byte, Ila!more, Ila!AddrAdd
<1>3. byte_counter' = Ila!byte_next
  BY DEF Stores, NextByte, LastByte, Ila!byte_next, Ila!last_byte
<1>4. xram' = [xram EXCEPT ![Ila!xram_address] = encrypted_data_buf[byte_counter]]
  BY DEF Stores, xram_addr, AddrAdd, Ila!xram_address, Ila!AddrAdd
<1>5. block_counter' = IF Ila!last_byte /\ Ila!more
                       THEN Ila!AddrAdd(block_counter, Block) ELSE block_counter
  BY <1>2 DEF Stores, AddrAdd, Ila!AddrAdd
<1>6. aes_reg_state' = IF ~Ila!last_byte THEN aes_reg_state
                       ELSE IF Ila!more THEN "READ_DATA" ELSE "IDLE"
  BY <1>1, <1>2 DEF Stores
<1>7. Encrypted' \in Ila!Buffer /\ mem_data_buf' \in Ila!Buffer
  BY ByteType DEF TypeOK, Encrypted, Ila!Buffer, Ila!Index, Index
<1> QED BY <1>1, <1>3, <1>4, <1>5, <1>6, <1>7 DEF Ila!STORE, Ila!registers, regs, Encrypted

LEMMA RefineStep ==
  ASSUME Pace, CoreInv, TypeOK', DataInv, [Next]_vars
  PROVE  [Reset \/ OddStart \/ (Bounded' => Ila!Next)]_(Ila!ilaVars)
<1>1. CASE Idles
  BY <1>1, IdleInstruction DEF CoreInv
<1>2. CASE Starts
  BY <1>2, StartInstruction DEF CoreInv, Ila!Next
<1>3. CASE Waits
  BY <1>3, IlaSame DEF Waits, Held, counters, data, Encrypted
<1>4. CASE Loads
  BY <1>4, LoadInstruction DEF CoreInv, Ila!Next
<1>5. CASE Operates
  <2>1. CASE aes_time_enough
    <3>1. Bounded' <=> Bounded
      BY <1>5 DEF Operates, Held, job, Bounded
    <3> QED BY <1>5, <2>1, <3>1, OperateInstruction DEF Ila!Next
  <2>2. CASE ~aes_time_enough
    BY <1>5, <2>2, IlaSame DEF Operates, Held, counters, Encrypted
  <2> QED BY <2>1, <2>2
<1>6. CASE Stores
  BY <1>6, StoreInstruction DEF Ila!Next
<1>7. CASE Reset
  BY <1>7
<1>8. CASE UNCHANGED vars
  BY <1>8, IlaSame DEF vars, regs, counters, data, Encrypted
<1> QED BY <1>1, <1>2, <1>3, <1>4, <1>5, <1>6, <1>7, <1>8, NextIsPhase DEF Phase, CoreInv

\* Every cycle of the engine is an instruction of the ILA or invisible to it.
THEOREM ImplementsIla == Pace => (Spec => RefinesIla)
<1> SUFFICES ASSUME Pace PROVE Spec => RefinesIla
  OBVIOUS
<1>1. Init => Ila!Init
  <2> SUFFICES ASSUME Init PROVE Ila!Init
    OBVIOUS
  <2>1. TypeOK /\ aes_reg_state = "IDLE" /\ byte_counter = 0 /\ block_counter = 0
    BY TypeInit DEF Init
  <2>2. Encrypted \in [Index -> Byte]
    BY <2>1, EncryptedType
  <2> QED BY <2>1, <2>2
    DEF TypeOK, Ila!Init, Ila!Addr, Ila!Ctr, Ila!Buffer, Ila!Index, Addr, Ctr, Index, Encrypted
<1>2. CoreInv /\ CoreInv' /\ DataInv /\ [Next]_vars =>
        [Reset \/ OddStart \/ (Bounded' => Ila!Next)]_(Ila!ilaVars)
  BY RefineStep DEF CoreInv
<1> QED BY <1>1, <1>2, CoreInvariant, DataInvariant, PTL DEF Spec, RefinesIla

(***************************************************************************)
(* Progress: how many cycles a job still takes, those not counted in which *)
(* the XRAM could answer and does not.                                     *)
(***************************************************************************)
\* The request that is up, and those for the bytes behind it in the block.
TransferLeft == (Block - byte_counter) * (AckGap + 1) - waited
CipherLeft == IF aes_time_counter < TimeEnough THEN TimeEnough - aes_time_counter ELSE 0
InBlock ==
  CASE aes_reg_state = "READ_DATA" -> TransferLeft + TimeEnough + 1 + Block * (AckGap + 1)
    [] aes_reg_state = "OPERATE" -> CipherLeft + 1 + Block * (AckGap + 1)
    [] aes_reg_state = "WRITE_DATA" -> TransferLeft

BlockCycles == 2 * (Block * (AckGap + 1)) + TimeEnough + 1
BlocksAfter ==
  IF block_counter + Block < jobLen THEN (jobLen - block_counter - 1) \div Block ELSE 0
CyclesLeft == IF Busy THEN InBlock + BlocksAfter * BlockCycles ELSE 0

\* The XRAM may acknowledge now.
Awaited == xram_stb /\ waited = AckGap

JobCountsDown ==
  [][Busy /\ Bounded => \/ CyclesLeft' < CyclesLeft
                        \/ Awaited /\ Awaited' /\ CyclesLeft' = CyclesLeft]_vars

CyclesBounded ==
  Busy /\ Bounded => CyclesLeft \in 1 .. (BlocksAfter + 1) * BlockCycles

LEMMA Products ==
  ASSUME NEW g \in Nat, NEW b \in Int
  PROVE  b * g \in Int /\ (b - 1) * g = b * g - g /\ (b >= 1 => b * g >= g)
<1>1. b * g \in Int /\ (b - 1) * g = b * g - g
  OBVIOUS
<1>2. ASSUME b >= 1 PROVE b * g >= g
  <2>1. b - 1 \in Nat /\ (b - 1) * g >= 0
    BY <1>2
  <2> QED BY <1>1, <2>1
<1> QED BY <1>1, <1>2

LEMMA TransferRange ==
  ASSUME TypeOK
  PROVE  /\ Block * (AckGap + 1) \in Nat /\ BlockCycles \in Nat
         /\ TransferLeft \in 1 .. Block * (AckGap + 1)
         /\ CipherLeft \in 0 .. TimeEnough
<1> DEFINE G == AckGap + 1
           B == Block - byte_counter
<1>1. /\ G \in Nat /\ AckGap \in Nat /\ Block \in Nat /\ TimeEnough \in Nat
      /\ byte_counter \in Nat /\ byte_counter <= Block - 1 /\ waited \in 0 .. AckGap
      /\ aes_time_counter \in Nat
  BY TimeAssumption, SizeAssumption DEF TypeOK, Index
<1>2. B \in Int /\ B >= 1 /\ byte_counter * G >= 0 /\ byte_counter * G \in Int
  BY <1>1
<1>3. B * G \in Int /\ B * G >= G
  BY <1>1, <1>2, Products
<1>4. Block * G = B * G + byte_counter * G /\ Block * G \in Nat
  BY <1>1
<1>5. TransferLeft = B * G - waited
  BY DEF TransferLeft
<1> HIDE DEF B
<1>6. TransferLeft \in 1 .. Block * G
  BY <1>1, <1>2, <1>3, <1>4, <1>5
<1>7. CipherLeft \in 0 .. TimeEnough
  BY <1>1 DEF CipherLeft
<1>8. BlockCycles \in Nat
  BY <1>1, <1>4 DEF BlockCycles
<1> QED BY <1>4, <1>6, <1>7, <1>8

LEMMA InBlockRange ==
  ASSUME TypeOK, Busy
  PROVE  InBlock \in 1 .. BlockCycles
<1> DEFINE T == Block * (AckGap + 1)
<1>1. /\ T \in Nat /\ TransferLeft \in 1 .. T /\ CipherLeft \in 0 .. TimeEnough
      /\ TimeEnough \in Nat
  BY TransferRange, TimeAssumption
<1>2. BlockCycles = 2 * T + TimeEnough + 1
  BY DEF BlockCycles
<1>3. \/ InBlock = TransferLeft + TimeEnough + 1 + T
      \/ InBlock = CipherLeft + 1 + T
      \/ InBlock = TransferLeft
  BY DEF InBlock, Busy, TypeOK
<1> HIDE DEF T
<1> QED BY <1>1, <1>2, <1>3

\* The request of the next byte is as long a wait as that of this one.
LEMMA TransferFalls ==
  ASSUME TypeOK, Waits \/ Loads \/ Stores
  PROVE  /\ Waits /\ waited < AckGap => TransferLeft' = TransferLeft - 1
         /\ Waits /\ waited = AckGap => TransferLeft' = TransferLeft
         /\ Loads \/ Stores =>
              IF LastByte THEN TransferLeft = 1 ELSE TransferLeft' = TransferLeft - 1
<1> DEFINE G == AckGap + 1
           B == Block - byte_counter
<1>1. G \in Nat /\ AckGap \in Nat /\ Block \in Nat /\ byte_counter \in Nat /\ waited \in 0 .. AckGap
  BY TimeAssumption, SizeAssumption DEF TypeOK, Index
<1>2. B \in Int /\ B * G \in Int /\ (B - 1) * G = B * G - G
  BY <1>1, Products
<1>3. TransferLeft = B * G - waited /\ TransferLeft' = (Block - byte_counter') * G - waited'
  BY DEF TransferLeft
<1>4. ASSUME Waits
      PROVE  TransferLeft' = IF waited < AckGap THEN TransferLeft - 1 ELSE TransferLeft
  <2>1. /\ byte_counter' = byte_counter
        /\ waited' = IF waited < AckGap THEN waited + 1 ELSE waited
    BY <1>4 DEF Waits, counters
  <2>2. TransferLeft' = B * G - waited'
    BY <1>3, <2>1
  <2> HIDE DEF B, G
  <2> QED BY <1>1, <1>2, <1>3, <2>1, <2>2
<1>5. ASSUME Loads \/ Stores
      PROVE  IF LastByte THEN TransferLeft = 1 ELSE TransferLeft' = TransferLeft - 1
  <2>1. waited = AckGap /\ waited' = 0 /\ byte_counter' = NextByte
    BY <1>5 DEF Loads, Stores
  <2>2. CASE LastByte
    <3>1. B = 1
      BY <1>1, <2>2 DEF LastByte
    <3>2. B * G = G
      BY <1>1, <3>1
    <3> QED BY <1>1, <1>3, <2>1, <2>2, <3>2
  <2>3. CASE ~LastByte
    <3>1. byte_counter' = byte_counter + 1
      BY <2>1, <2>3 DEF NextByte
    <3>2. Block - byte_counter' = B - 1
      BY <1>1, <3>1
    <3>3. TransferLeft' = B * G - G
      BY <1>1, <1>2, <1>3, <2>1, <3>2
    <3> HIDE DEF B
    <3> QED BY <1>1, <1>2, <1>3, <2>1, <2>3, <3>3
  <2> QED BY <2>2, <2>3
<1> QED BY <1>1, <1>4, <1>5

\* A cycle lowers what is left of the block by at least one, unless the XRAM
\* is awaited; the last cycle of a block finds nothing left behind it.
LEMMA InBlockFalls ==
  ASSUME TypeOK, Waits \/ Loads \/ Operates \/ Stores
  PROVE  /\ Waits /\ waited < AckGap => InBlock' < InBlock
         /\ Waits /\ waited = AckGap => InBlock' = InBlock
         /\ Loads \/ Operates \/ (Stores /\ ~LastByte) => InBlock' < InBlock
         /\ Stores /\ LastByte => InBlock = 1
         /\ Stores /\ More => InBlock' = BlockCycles
<1> DEFINE T == Block * (AckGap + 1)
<1>1. /\ T \in Nat /\ TransferLeft \in 1 .. T /\ TimeEnough \in Nat
      /\ BlockCycles = 2 * T + TimeEnough + 1
      /\ aes_time_counter \in Nat /\ aes_time_counter' \in Nat
  BY TransferRange, TimeAssumption DEF BlockCycles, TypeOK, Waits, Loads, Operates, Stores, Tick
<1>2. /\ aes_reg_state = "READ_DATA" => InBlock = TransferLeft + TimeEnough + 1 + T
      /\ aes_reg_state = "OPERATE" => InBlock = CipherLeft + 1 + T
      /\ aes_reg_state = "WRITE_DATA" => InBlock = TransferLeft
  BY DEF InBlock
<1>3. /\ aes_reg_state' = "READ_DATA" => InBlock' = TransferLeft' + TimeEnough + 1 + T
      /\ aes_reg_state' = "OPERATE" => InBlock' = CipherLeft' + 1 + T
      /\ aes_reg_state' = "WRITE_DATA" => InBlock' = TransferLeft'
  BY DEF InBlock
<1> HIDE DEF T
<1>4. ASSUME Waits
      PROVE  InBlock' = IF waited < AckGap THEN InBlock - 1 ELSE InBlock
  <2>1. aes_reg_state' = aes_reg_state /\ aes_reg_state \in {"READ_DATA", "WRITE_DATA"}
    BY <1>4 DEF Waits
  <2>2. TransferLeft' = IF waited < AckGap THEN TransferLeft - 1 ELSE TransferLeft
    BY <1>4, TransferFalls, TimeAssumption DEF TypeOK
  <2> QED BY <1>1, <1>2, <1>3, <2>1, <2>2
<1>5. ASSUME Loads PROVE InBlock' < InBlock
  <2>1. aes_reg_state = "READ_DATA" /\ aes_reg_state' = IF LastByte THEN "OPERATE" ELSE "READ_DATA"
    BY <1>5 DEF Loads
  <2>2. CASE LastByte
    <3>1. \E c \in 0 .. TimeEnough : CipherLeft' = c
      <4>1. CipherLeft' = IF aes_time_counter' < TimeEnough
                          THEN TimeEnough - aes_time_counter' ELSE 0
        BY DEF CipherLeft
      <4>2. TimeEnough \in Nat /\ aes_time_counter' \in Nat
        BY <1>1
      <4>3. CASE aes_time_counter' < TimeEnough
        <5>1. \A a, b \in Nat : b < a => a - b \in 0 .. a
          OBVIOUS
        <5>2. TimeEnough - aes_time_counter' \in 0 .. TimeEnough
          BY <4>2, <4>3, <5>1
        <5> QED BY <4>1, <4>3, <5>2
      <4>4. CASE ~(aes_time_counter' < TimeEnough)
        BY <4>1, <4>2, <4>4
      <4> QED BY <4>3, <4>4
    <3>2. PICK c \in 0 .. TimeEnough : CipherLeft' = c
      BY <3>1
    <3>3. TransferLeft = 1
      BY <1>5, <2>2, TransferFalls
    <3>4. InBlock = TimeEnough + 2 + T /\ InBlock' = c + 1 + T
      BY <1>1, <1>2, <1>3, <2>1, <2>2, <3>2, <3>3
    <3> QED BY <1>1, <3>2, <3>4
  <2>3. CASE ~LastByte
    <3>1. TransferLeft' = TransferLeft - 1
      BY <1>5, <2>3, TransferFalls
    <3> QED BY <1>1, <1>2, <1>3, <2>1, <2>3, <3>1
  <2> QED BY <2>2, <2>3
<1>6. ASSUME Operates PROVE InBlock' < InBlock
  <2>1. aes_reg_state = "OPERATE" /\ aes_reg_state' = IF aes_time_enough THEN "WRITE_DATA" ELSE "OPERATE"
    BY <1>6 DEF Operates
  <2>2. CASE aes_time_enough
    <3>1. byte_counter' \in 0 .. Block - 1 /\ waited' = 0
      BY <1>6 DEF Operates, counters, TypeOK, Index
    <3>2. TransferLeft' <= T /\ TransferLeft' \in Int
      <4> DEFINE G == AckGap + 1
                 B == Block - byte_counter'
      <4>1. G \in Nat /\ Block \in Nat /\ byte_counter' \in Nat
        BY <3>1, TimeAssumption, SizeAssumption
      <4>2. B * G \in Int /\ T = B * G + byte_counter' * G /\ byte_counter' * G >= 0
        BY <4>1 DEF T
      <4>3. TransferLeft' = B * G - 0
        BY <3>1 DEF TransferLeft
      <4> HIDE DEF B, G
      <4>4. byte_counter' * G \in Int
        BY <4>1
      <4> QED BY <4>2, <4>3, <4>4
    <3>3. CipherLeft = 0
      BY <1>1, <2>2 DEF CipherLeft, aes_time_enough
    <3> QED BY <1>1, <1>2, <1>3, <2>1, <2>2, <3>2, <3>3
  <2>3. CASE ~aes_time_enough
    <3>1. aes_time_counter' = aes_time_counter + 1 /\ aes_time_counter < TimeEnough
      BY <1>1, <1>6, <2>3, TimeAssumption DEF Operates, Tick, aes_time_enough
    <3>2. CipherLeft = TimeEnough - aes_time_counter /\ CipherLeft' = CipherLeft - 1
      BY <1>1, <3>1 DEF CipherLeft
    <3> QED BY <1>1, <1>2, <1>3, <2>1, <2>3, <3>1, <3>2
  <2> QED BY <2>2, <2>3
<1>7. ASSUME Stores, ~LastByte PROVE InBlock' < InBlock
  <2>1. aes_reg_state = "WRITE_DATA" /\ aes_reg_state' = "WRITE_DATA"
    BY <1>7 DEF Stores, More
  <2>2. TransferLeft' = TransferLeft - 1
    BY <1>7, TransferFalls
  <2> QED BY <1>1, <1>2, <1>3, <2>1, <2>2
<1>8. ASSUME Stores, LastByte PROVE InBlock = 1
  BY <1>2, <1>8, TransferFalls DEF Stores
<1>9. ASSUME Stores, More PROVE InBlock' = BlockCycles
  <2>1. aes_reg_state' = "READ_DATA" /\ byte_counter' = 0 /\ waited' = 0
    BY <1>9 DEF Stores, More, NextByte
  <2>2. TransferLeft' = T
    BY <2>1, TimeAssumption, SizeAssumption DEF TransferLeft, T
  <2> QED BY <1>1, <1>3, <2>1, <2>2
<1>10. InBlock \in Int
  BY <1>4, InBlockRange DEF Waits, Loads, Operates, Stores, Busy
<1> QED BY <1>4, <1>5, <1>6, <1>7, <1>8, <1>9, <1>10, TimeAssumption DEF TypeOK

\* Without a block there is one block less to come.
LEMMA BlockTaken ==
  ASSUME NEW n \in Nat, n > 0, NEW a \in Int, a >= n
  PROVE  /\ a \div n \in Nat /\ a \div n >= 1
         /\ IF a - n >= n THEN (a - n) \div n = a \div n - 1 ELSE a \div n = 1
<1> DEFINE q == a \div n
           m == a % n
           p == (a - n) \div n
           r == (a - n) % n
<1>1. q \in Int /\ m \in 0 .. n - 1 /\ a = n * q + m
  OBVIOUS
<1>2. p \in Int /\ r \in 0 .. n - 1 /\ a - n = n * p + r
  OBVIOUS
<1> HIDE DEF q, m, p, r
<1>3. n * q + m = n * (p + 1) + r
  BY <1>1, <1>2
<1>4. ASSUME q < p + 1 PROVE FALSE
  <2>1. n * (q + 1) <= n * (p + 1)
    BY <1>1, <1>2, <1>4
  <2> QED BY <1>1, <1>2, <1>3, <2>1
<1>5. ASSUME q > p + 1 PROVE FALSE
  <2>1. n * (p + 2) <= n * q
    BY <1>1, <1>2, <1>5
  <2> QED BY <1>1, <1>2, <1>3, <2>1
<1>6. q = p + 1
  BY <1>1, <1>2, <1>4, <1>5
<1>7. ASSUME q < 1 PROVE FALSE
  <2>1. n * q <= 0
    BY <1>1, <1>7
  <2> QED BY <1>1, <2>1
<1>8. ASSUME q > 1, a - n < n PROVE FALSE
  <2>1. n * 2 <= n * q
    BY <1>1, <1>8
  <2> QED BY <1>1, <1>8, <2>1
<1>9. q >= 1 /\ (a - n < n => q = 1)
  BY <1>1, <1>7, <1>8
<1> QED BY <1>1, <1>2, <1>6, <1>9 DEF q, p

LEMMA BlocksAfterType ==
  ASSUME TypeOK
  PROVE  BlocksAfter \in Nat
<1>1. jobLen \in Nat /\ block_counter \in Nat /\ Block \in Nat /\ Block > 0
  BY SizeAssumption DEF TypeOK, Addr
<1>2. CASE block_counter + Block < jobLen
  <2>1. jobLen - block_counter - 1 \in Int /\ jobLen - block_counter - 1 >= Block
    BY <1>1, <1>2
  <2> QED BY <1>1, <1>2, <2>1, BlockTaken DEF BlocksAfter
<1>3. CASE ~(block_counter + Block < jobLen)
  BY <1>3 DEF BlocksAfter
<1> QED BY <1>2, <1>3

\* Going on to the next block takes one from the blocks to come.
LEMMA NextBlockAfter ==
  ASSUME CoreInv, Bounded, Stores, More
  PROVE  BlocksAfter > 0 /\ BlocksAfter' = BlocksAfter - 1
<1> DEFINE a == jobLen - block_counter - 1
<1>1. jobLen \in Nat /\ block_counter \in Nat /\ Block \in Nat /\ Block > 0
  BY SizeAssumption DEF CoreInv, TypeOK, Addr
<1>2. /\ Busy /\ operated_bytes_count = block_counter /\ aes_reg_oplen = jobLen
      /\ block_counter = 0 \/ block_counter < jobLen
  BY DEF CoreInv, Stores, Busy, CountInv, RegInv
<1>3. AddrAdd(block_counter, Block) = block_counter + Block
  BY <1>2, NextBlock DEF CoreInv
<1>4. block_counter + Block < jobLen
  BY <1>2, <1>3 DEF More
<1>5. block_counter' = block_counter + Block /\ jobLen' = jobLen
  BY <1>3 DEF Stores, Held, job
<1>6. BlocksAfter = a \div Block
  BY <1>4 DEF BlocksAfter
<1>7. a \in Int /\ a >= Block /\ jobLen' - block_counter' - 1 = a - Block
  BY <1>1, <1>4, <1>5
<1>8. BlocksAfter' = IF block_counter + Block + Block < jobLen THEN (a - Block) \div Block ELSE 0
  BY <1>5, <1>7 DEF BlocksAfter
<1>9. block_counter + Block + Block < jobLen <=> a - Block >= Block
  BY <1>1
<1> HIDE DEF a
<1>10. /\ a \div Block \in Nat /\ a \div Block >= 1
       /\ IF a - Block >= Block THEN (a - Block) \div Block = a \div Block - 1
          ELSE a \div Block = 1
  BY <1>1, <1>7, BlockTaken
<1> QED BY <1>6, <1>8, <1>9, <1>10

LEMMA CyclesRange ==
  ASSUME TypeOK, Busy
  PROVE  /\ CyclesLeft = InBlock + BlocksAfter * BlockCycles
         /\ CyclesLeft \in 1 .. (BlocksAfter + 1) * BlockCycles
<1> DEFINE P == BlocksAfter * BlockCycles
<1>1. InBlock \in 1 .. BlockCycles /\ BlockCycles \in Nat /\ BlocksAfter \in Nat
  BY InBlockRange, TransferRange, BlocksAfterType
<1>2. P \in Nat /\ (BlocksAfter + 1) * BlockCycles = P + BlockCycles
  BY <1>1
<1>3. CyclesLeft = InBlock + P
  BY DEF CyclesLeft
<1> HIDE DEF P
<1>4. CyclesLeft \in 1 .. P + BlockCycles
  BY <1>1, <1>2, <1>3
<1> QED BY <1>2, <1>3, <1>4 DEF P

\* What the cycles of a busy engine do to the cycles left.
LEMMA CycleCounts ==
  ASSUME CoreInv, TypeOK', Busy, Bounded, Waits \/ Loads \/ Operates \/ Stores
  PROVE  /\ Waits /\ Awaited => CyclesLeft' = CyclesLeft /\ Awaited' /\ Busy'
         /\ ~(Waits /\ Awaited) => CyclesLeft' < CyclesLeft
         /\ Loads \/ Stores => CyclesLeft' < CyclesLeft
<1> USE DEF CoreInv
<1>1. /\ CyclesLeft = InBlock + BlocksAfter * BlockCycles /\ CyclesLeft \in Int /\ CyclesLeft > 0
      /\ InBlock \in 1 .. BlockCycles /\ BlockCycles \in Nat /\ BlocksAfter \in Nat
  BY CyclesRange, InBlockRange, TransferRange, BlocksAfterType
<1>2. ASSUME Busy', UNCHANGED <<block_counter, jobLen>>
      PROVE  CyclesLeft' = InBlock' + BlocksAfter * BlockCycles
  BY <1>2 DEF CyclesLeft, BlocksAfter, BlockCycles
<1>3. Busy' => InBlock' \in Int
  <2> SUFFICES ASSUME Busy' PROVE InBlock' \in Int
    OBVIOUS
  <2>1. TransferLeft' \in Int /\ CipherLeft' \in Int
    <3>1. \A a, b, c, g \in Int : (a - b) * g - c \in Int /\ a - b \in Int
      OBVIOUS
    <3>2. /\ byte_counter' \in Int /\ waited' \in Int /\ AckGap + 1 \in Int /\ Block \in Int
          /\ aes_time_counter' \in Int /\ TimeEnough \in Int
      BY TimeAssumption, SizeAssumption DEF TypeOK, Index
    <3> QED BY <3>1, <3>2 DEF TransferLeft, CipherLeft
  <2>2. Block * (AckGap + 1) \in Int /\ TimeEnough \in Int
    BY TransferRange, TimeAssumption
  <2>3. \/ InBlock' = TransferLeft' + TimeEnough + 1 + Block * (AckGap + 1)
        \/ InBlock' = CipherLeft' + 1 + Block * (AckGap + 1)
        \/ InBlock' = TransferLeft'
    BY DEF InBlock, Busy, TypeOK
  <2> DEFINE T == Block * (AckGap + 1)
  <2> HIDE DEF T
  <2>4. T \in Int
    BY <2>2 DEF T
  <2>5. \/ InBlock' = TransferLeft' + TimeEnough + 1 + T
        \/ InBlock' = CipherLeft' + 1 + T
        \/ InBlock' = TransferLeft'
    BY <2>3 DEF T
  <2> QED BY <2>1, <2>2, <2>4, <2>5
<1> DEFINE P == BlocksAfter * BlockCycles
<1>4. P \in Nat
  BY <1>1
<1>5. ASSUME Waits
      PROVE  /\ Awaited => CyclesLeft' = CyclesLeft /\ Awaited' /\ Busy'
             /\ ~Awaited => CyclesLeft' < CyclesLeft
  <2>1. Busy' /\ UNCHANGED <<block_counter, jobLen>>
    BY <1>5 DEF Waits, Busy, counters, Held, job
  <2>2. CyclesLeft' = InBlock' + P /\ CyclesLeft = InBlock + P
    BY <1>1, <1>2, <2>1
  <2>4. xram_stb /\ xram_stb' /\ waited \in 0 .. AckGap
        /\ waited' = IF waited < AckGap THEN waited + 1 ELSE waited
    BY <1>5 DEF Waits, xram_stb, TypeOK
  <2> HIDE DEF P
  <2>5. CASE waited = AckGap
    <3>1. InBlock' = InBlock /\ waited' = AckGap
      BY <1>5, <2>4, <2>5, InBlockFalls, TimeAssumption
    <3> QED BY <1>5, <2>1, <2>2, <2>4, <2>5, <3>1 DEF Awaited
  <2>6. CASE waited < AckGap
    <3>1. InBlock' < InBlock
      BY <1>5, <2>6, InBlockFalls
    <3>2. CyclesLeft' < CyclesLeft
      BY <1>1, <1>3, <1>4, <2>1, <2>2, <3>1
    <3>3. ~Awaited
      BY <2>4, <2>6, TimeAssumption DEF Awaited
    <3> QED BY <3>2, <3>3
  <2> QED BY <2>4, <2>5, <2>6, TimeAssumption
<1>6. ASSUME Loads \/ Operates \/ Stores PROVE CyclesLeft' < CyclesLeft
  <2>1. CASE Loads \/ Operates \/ (Stores /\ ~LastByte)
    <3>1. Busy' /\ UNCHANGED <<block_counter, jobLen>>
      BY <2>1 DEF Loads, Operates, Stores, More, Busy, counters, Held, job
    <3>2. CyclesLeft' = InBlock' + P /\ CyclesLeft = InBlock + P
      BY <1>1, <1>2, <3>1
    <3>3. InBlock' < InBlock
      BY <2>1, InBlockFalls
    <3> HIDE DEF P
    <3> QED BY <1>1, <1>3, <1>4, <3>1, <3>2, <3>3
  <2>2. CASE Stores /\ LastByte /\ ~More
    <3>1. CyclesLeft' = 0
      BY <2>2 DEF Stores, Busy, CyclesLeft
    <3> QED BY <1>1, <3>1
  <2>3. CASE Stores /\ More
    <3>1. LastByte /\ Busy'
      BY <2>3 DEF Stores, More, Busy
    <3>2. BlocksAfter > 0 /\ BlocksAfter' = BlocksAfter - 1
      BY <2>3, NextBlockAfter
    <3>3. InBlock = 1 /\ InBlock' = BlockCycles
      BY <2>3, <3>1, InBlockFalls
    <3>4. CyclesLeft' = BlockCycles + (BlocksAfter - 1) * BlockCycles
      BY <3>1, <3>2, <3>3 DEF CyclesLeft, BlockCycles
    <3>5. (BlocksAfter - 1) * BlockCycles = P - BlockCycles
      BY <1>1
    <3> HIDE DEF P
    <3>6. CyclesLeft = P + 1 /\ CyclesLeft' = P
      BY <1>1, <1>4, <3>3, <3>4, <3>5 DEF P
    <3> QED BY <1>4, <3>6
  <2> QED BY <1>6, <2>1, <2>2, <2>3
<1> QED BY <1>5, <1>6

\* A cycle with an acknowledge moves a byte.
LEMMA AckMoves ==
  ASSUME TypeOK, Busy, Clock(TRUE)
  PROVE  Loads \/ Stores
<1>1. PICK sel, v : Selects(sel, v) /\ Cycle(sel, v, TRUE)
  BY ClockIsCycle
<1>2. Phase /\ ~start_op(sel, v) /\ xram_stb
  BY <1>1, CycleIsPhase, BusyHolds DEF Cycle, Xram
<1>3. byte_counter' = NextByte
  BY <1>1, <1>2 DEF Cycle, Counters, NextByte, LastByte
<1>4. aes_reg_state' = aes_reg_state => ~LastByte
  BY <1>1, <1>2 DEF Cycle, aes_reg_state_next, last_byte_acked, LastByte, xram_stb
<1>5. ~Waits
  <2> SUFFICES ASSUME Waits PROVE FALSE
    OBVIOUS
  <2>1. byte_counter' = byte_counter /\ aes_reg_state' = aes_reg_state
    BY DEF Waits, counters
  <2> QED BY <1>3, <1>4, <2>1 DEF NextByte, TypeOK, Index
<1> QED BY <1>2, <1>5 DEF Phase, Idles, Starts, Operates, Busy, xram_stb

LEMMA BusyStep ==
  ASSUME CoreInv, CoreInv', Busy, Bounded, [Next]_vars
  PROVE  /\ CyclesLeft' < CyclesLeft \/ (CyclesLeft' = CyclesLeft /\ Busy' /\ Bounded')
         /\ Busy' => Bounded'
         /\ Awaited => Awaited' \/ CyclesLeft' < CyclesLeft
         /\ ~Awaited => CyclesLeft' < CyclesLeft \/ UNCHANGED vars
         /\ Clock(TRUE) => CyclesLeft' < CyclesLeft
<1> USE DEF CoreInv
<1>1. CyclesLeft \in Int /\ CyclesLeft > 0
  <2>1. /\ CyclesLeft \in 1 .. (BlocksAfter + 1) * BlockCycles
        /\ BlockCycles \in Nat /\ BlocksAfter \in Nat
    BY CyclesRange, TransferRange, BlocksAfterType
  <2> QED BY <2>1
<1>2. CASE UNCHANGED vars
  <2>1. /\ CyclesLeft' = CyclesLeft /\ (Busy' <=> Busy) /\ (Bounded' <=> Bounded)
        /\ (Awaited' <=> Awaited)
    BY <1>2 DEF vars, counters, cipher, job, CyclesLeft, InBlock, TransferLeft, CipherLeft,
                BlocksAfter, Busy, Bounded, Awaited, xram_stb
  <2>2. ~Clock(TRUE)
    <3> SUFFICES ASSUME Clock(TRUE) PROVE FALSE
      OBVIOUS
    <3>1. Loads \/ Stores
      BY AckMoves
    <3>2. byte_counter' = NextByte /\ byte_counter' = byte_counter
      BY <1>2, <3>1 DEF Loads, Stores, vars, counters
    <3>3. ~LastByte
      BY <1>2, <3>1 DEF Loads, Stores, vars
    <3> QED BY <3>2, <3>3 DEF NextByte, TypeOK, Index
  <2> QED BY <1>2, <2>1, <2>2
<1>3. CASE Reset
  <2>1. CyclesLeft' = 0 /\ ~Busy'
    BY <1>3 DEF Reset, Busy, CyclesLeft
  <2> QED BY <1>1, <2>1
<1>4. CASE Phase
  <2>1. Waits \/ Loads \/ Operates \/ Stores
    BY <1>4 DEF Phase, Idles, Starts, Busy
  <2>2. Bounded' <=> Bounded
    BY <2>1 DEF Waits, Loads, Operates, Stores, Held, job, Bounded
  <2>3. /\ Waits /\ Awaited => CyclesLeft' = CyclesLeft /\ Awaited' /\ Busy'
        /\ ~(Waits /\ Awaited) => CyclesLeft' < CyclesLeft
    BY <2>1, CycleCounts
  <2>4. Clock(TRUE) => CyclesLeft' < CyclesLeft
    <3> SUFFICES ASSUME Clock(TRUE) PROVE CyclesLeft' < CyclesLeft
      OBVIOUS
    <3>1. Loads \/ Stores
      BY AckMoves
    <3> QED BY <3>1, CycleCounts
  <2> QED BY <2>2, <2>3, <2>4
<1> QED BY <1>2, <1>3, <1>4, NextIsPhase

(***************************************************************************)
(* A job counts down: every cycle takes it nearer to its end, except those *)
(* in which the XRAM could acknowledge and does not, and after a start it  *)
(* has at most BlockCycles cycles for each block.  A length that leaves no *)
(* room for one more block has no such bound: the counts wrap.             *)
(***************************************************************************)
THEOREM JobAlwaysCountsDown == Spec => JobCountsDown
<1>1. CoreInv /\ CoreInv' /\ [Next]_vars =>
        [Busy /\ Bounded => \/ CyclesLeft' < CyclesLeft
                            \/ Awaited /\ Awaited' /\ CyclesLeft' = CyclesLeft]_vars
  BY BusyStep
<1> QED BY <1>1, CoreInvariant, PTL DEF Spec, JobCountsDown

\* The cycles left are what the blocks left can take.
THEOREM CyclesStayBounded == Spec => []CyclesBounded
<1>1. CoreInv => CyclesBounded
  BY CyclesRange DEF CoreInv, CyclesBounded
<1> QED BY <1>1, CoreInvariant, PTL

\* What FairSpec assumes, with the guards spelled out: a busy engine is clocked,
\* and an XRAM that may acknowledge does.
ClockRuns == []<>~Busy \/ []<><<Clock(TRUE) \/ Clock(FALSE)>>_vars
XramAnswers == []<>~Awaited \/ []<><<Clock(TRUE)>>_vars

(***************************************************************************)
(* The step of JobEnds: a busy engine gets idle or has fewer cycles left.  *)
(* The cycles left are a natural number, so this happens only finitely     *)
(* often before the job has ended.                                         *)
(***************************************************************************)
THEOREM JobComesNearer ==
  ASSUME NEW n \in Nat
  PROVE  Spec /\ ClockRuns /\ XramAnswers =>
           ((Busy /\ Bounded /\ CyclesLeft = n) ~> (~Busy \/ CyclesLeft < n))
<1> DEFINE P == Busy /\ Bounded /\ CyclesLeft = n
           Q == ~Busy \/ CyclesLeft < n
           A == Awaited
           B == Busy
           C == Clock(TRUE) \/ Clock(FALSE)
           D == Clock(TRUE)
<1>1. CoreInv /\ CoreInv' /\ [Next]_vars /\ P => P' \/ Q'
  BY BusyStep
<1>2. CoreInv /\ CoreInv' /\ [Next]_vars /\ P /\ A => A' \/ Q'
  BY BusyStep
<1>3. CoreInv /\ CoreInv' /\ [Next]_vars /\ P /\ ~A => ~A' \/ Q'
  BY BusyStep DEF vars, Awaited, xram_stb
<1>4. CoreInv /\ CoreInv' /\ [Next]_vars /\ P /\ ~A /\ <<C>>_vars => Q'
  BY BusyStep
<1>5. CoreInv /\ CoreInv' /\ [Next]_vars /\ P /\ <<D>>_vars => Q'
  BY BusyStep
<1>6. P => B
  OBVIOUS
<1>7. ClockRuns <=> []<>~B \/ []<><<C>>_vars
  BY DEF ClockRuns
<1>8. XramAnswers <=> []<>~A \/ []<><<D>>_vars
  BY DEF XramAnswers
<1> HIDE DEF P, Q, A, B, C, D
<1>9. []CoreInv /\ [][Next]_vars /\ ([]<>~B \/ []<><<C>>_vars) /\ ([]<>~A \/ []<><<D>>_vars)
        => (P ~> Q)
  BY <1>1, <1>2, <1>3, <1>4, <1>5, <1>6, PTL
<1> QED BY <1>7, <1>8, <1>9, CoreInvariant, PTL DEF Spec, P, Q
====
