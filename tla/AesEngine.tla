------------------------------ MODULE AesEngine ------------------------------
(***************************************************************************)
(* The AES counter-mode engine of src/tutorials/aes/verilog/aes_top.v,     *)
(* clocked: one step of this module is one clock cycle.  In a cycle the    *)
(* host may write one of the memory-mapped registers (or ask for a start)  *)
(* and the XRAM may acknowledge the byte the engine asks for; both happen  *)
(* together, as in the circuit.                                            *)
(*                                                                         *)
(* Data is symbolic.  A byte is a set of symbols under exclusive or: the   *)
(* XRAM starts with a distinct plaintext symbol <<a>> at every address a,  *)
(* and <<c, k, i>> is byte i of AES128(c, k).  A byte written to a 16- or  *)
(* 128-bit register is abstracted to any value of that register.           *)
(*                                                                         *)
(* The history variables job... remember what the last accepted start was  *)
(* asked to do: the registers and the XRAM at that moment.  start_data is  *)
(* the data of the write that started the engine in the cycle just past.   *)
(***************************************************************************)
EXTENDS Integers

CONSTANTS
  Block,       \* bytes of a block (16)
  AddrSpace,   \* size of the address, length and byte-count space (2^16)
  CtrSpace,    \* size of the counter space (2^128)
  Latency,     \* cycles from the inputs of aes_128 to its output (21)
  TimeEnough,  \* aes_time_counter at which OPERATE may be left (20)
  TimeMax,     \* aes_time_counter stops here (31)
  AckGap,      \* least number of cycles a request waits for its acknowledge
  Keys,        \* values of the key register
  HostKeys,    \* what the host writes to the key register,
  HostAddrs,   \* the address register,
  HostLens,    \* the length register
  HostCtrs,    \* the counter register,
  HostStarts,  \* and the start register
  MaxStarts    \* bound: starts the host is given

ASSUME SizeAssumption ==
  /\ Block \in Nat \ {0}  /\ AddrSpace \in Nat  /\ CtrSpace \in Nat
  /\ Block < AddrSpace    /\ AddrSpace <= CtrSpace
  /\ \E n \in 0 .. AddrSpace : AddrSpace = n * Block

ASSUME TimeAssumption ==
  /\ Latency \in Nat \ {0} /\ TimeEnough \in Nat
  /\ TimeMax \in Nat       /\ AckGap \in Nat
  /\ TimeEnough <= TimeMax /\ Latency <= TimeMax

ASSUME HostAssumption ==
  /\ HostAddrs \subseteq 0 .. AddrSpace - 1
  /\ HostLens \subseteq 0 .. AddrSpace - 1
  /\ HostCtrs \subseteq 0 .. CtrSpace - 1
  /\ HostStarts \subseteq 0 .. 255
  /\ 0 \in Keys /\ HostKeys \subseteq Keys
  /\ MaxStarts \in Nat

Addr == 0 .. AddrSpace - 1
Ctr == 0 .. CtrSpace - 1
Index == 0 .. Block - 1

\* What a byte is made of: plaintext symbols and key stream symbols.
Symbol == {<<a>> : a \in Addr} \cup (Ctr \X Keys \X Index)
Byte == SUBSET Symbol

Xor(a, b) == (a \ b) \cup (b \ a)

\* Byte i of the cipher's output for the counter and key of p.
Pad(p, i) == {<<p[1], p[2], i>>}

VARIABLES
  aes_reg_state, aes_reg_opaddr, aes_reg_oplen, aes_reg_ctr, aes_reg_key0,
  operated_bytes_count, block_counter, byte_counter,
  uaes_ctr,              \* counter of the block being processed
  aes_time_counter,      \* cycles since the block was begun, saturating
  stages,                \* inputs of aes_128, the latest first
  mem_data_buf, encrypted_data_buf,
  xram,
  waited,                \* cycles the pending request has waited, up to AckGap
  jobAddr, jobLen, jobCtr, jobKey, jobMem,
  start_data,            \* 0 after a cycle without a start
  starts

regs == <<aes_reg_opaddr, aes_reg_oplen, aes_reg_ctr, aes_reg_key0>>
counters == <<operated_bytes_count, block_counter, byte_counter>>
cipher == <<uaes_ctr, aes_time_counter, stages>>
data == <<mem_data_buf, encrypted_data_buf, xram>>
job == <<jobAddr, jobLen, jobCtr, jobKey, jobMem, starts>>
vars == <<aes_reg_state, regs, counters, cipher, data, waited, start_data, job>>

TypeOK ==
  /\ aes_reg_state \in {"IDLE", "READ_DATA", "OPERATE", "WRITE_DATA"}
  /\ aes_reg_opaddr \in Addr /\ aes_reg_oplen \in Addr
  /\ aes_reg_ctr \in Ctr /\ aes_reg_key0 \in Keys
  /\ operated_bytes_count \in Addr /\ block_counter \in Addr
  /\ byte_counter \in Index
  /\ uaes_ctr \in Ctr
  /\ aes_time_counter \in 0 .. TimeMax
  /\ stages \in [1 .. Latency -> Ctr \X Keys]
  /\ mem_data_buf \in [Index -> Byte]
  /\ encrypted_data_buf \in [Index -> Byte]
  /\ xram \in [Addr -> Byte]
  /\ waited \in 0 .. AckGap
  /\ jobAddr \in Addr /\ jobLen \in Addr
  /\ jobCtr \in Ctr /\ jobKey \in Keys
  /\ jobMem \in [Addr -> Byte]
  /\ start_data \in 0 .. 255
  /\ starts \in 0 .. MaxStarts

(***************************************************************************)
(* Combinational logic.                                                    *)
(***************************************************************************)
\* Addition in 16 and in 128 bits.
AddrAdd(a, b) == IF a + b < AddrSpace THEN a + b ELSE a + b - AddrSpace
CtrAddWide(a, b) == a + b \* mutant: the carry is kept
CtrAdd(a, b) == IF a + b < CtrSpace THEN a + b ELSE a + b - CtrSpace

xram_addr == AddrAdd(AddrAdd(aes_reg_opaddr, block_counter), byte_counter)
xram_stb == aes_reg_state \in {"READ_DATA", "WRITE_DATA"}

\* Writes count only in the idle state; sel names the register written,
\* "none" in a cycle without a write.
wrenAlways(sel) == sel # "none" \* mutant: AllowWriteRegWhenNotIdle.patch
wren(sel) == sel # "none" /\ aes_reg_state = "IDLE"
start_op(sel, v) == sel = "START" /\ v % 2 = 1 /\ wren(sel) \* bit 0 of data_in

last_byte_past(ack) == byte_counter = Block /\ ack \* mutant: never in 4 bits
last_byte_acked(ack) == byte_counter = Block - 1 /\ ack

OperatedKept(sel, v, ack) == \* mutant: a start leaves the count of the last job
  IF last_byte_acked(ack) /\ aes_reg_state = "WRITE_DATA"
  THEN AddrAdd(operated_bytes_count, Block) ELSE operated_bytes_count
operated_bytes_count_next(sel, v, ack) ==
  IF start_op(sel, v) THEN 0
  ELSE IF last_byte_acked(ack) /\ aes_reg_state = "WRITE_DATA"
  THEN AddrAdd(operated_bytes_count, Block)
  ELSE operated_bytes_count

more_blocks(sel, v, ack) ==
  /\ last_byte_acked(ack)
  /\ aes_reg_state = "WRITE_DATA"
  /\ operated_bytes_count_next(sel, v, ack) < aes_reg_oplen

aes_time_enough == aes_time_counter >= TimeEnough

aes_reg_state_next(sel, v, ack) ==
  CASE aes_reg_state = "IDLE" ->
         IF start_op(sel, v) THEN "READ_DATA" ELSE "IDLE"
    [] aes_reg_state = "READ_DATA" ->
         IF last_byte_acked(ack) THEN "OPERATE" ELSE "READ_DATA"
    [] aes_reg_state = "OPERATE" ->
         IF aes_time_enough THEN "WRITE_DATA" ELSE "OPERATE"
    [] aes_reg_state = "WRITE_DATA" ->
         IF ~last_byte_acked(ack) THEN "WRITE_DATA"
         ELSE IF more_blocks(sel, v, ack) THEN "READ_DATA" ELSE "IDLE"

(***************************************************************************)
(* Clocked logic: what each group of registers becomes at the clock edge.  *)
(***************************************************************************)
HostRegisters(sel, v) ==
  LET written(name, reg) == IF sel = name /\ wren(sel) THEN v ELSE reg
  IN /\ aes_reg_opaddr' = written("ADDR", aes_reg_opaddr)
     /\ aes_reg_oplen' = written("LEN", aes_reg_oplen)
     /\ aes_reg_ctr' = written("CTR", aes_reg_ctr)
     /\ aes_reg_key0' = written("KEY0", aes_reg_key0)

CountersKept(sel, v, ack) == \* mutant: a start leaves the block of the last job
  /\ operated_bytes_count' = operated_bytes_count_next(sel, v, ack)
  /\ block_counter' = IF more_blocks(sel, v, ack)
                      THEN AddrAdd(block_counter, Block) ELSE block_counter
  /\ byte_counter' = IF start_op(sel, v) THEN 0
                     ELSE IF ~ack THEN byte_counter
                     ELSE IF byte_counter = Block - 1 THEN 0
                     ELSE byte_counter + 1
Counters(sel, v, ack) ==
  /\ operated_bytes_count' = operated_bytes_count_next(sel, v, ack)
  /\ block_counter' = IF start_op(sel, v) THEN 0
                      ELSE IF more_blocks(sel, v, ack)
                      THEN AddrAdd(block_counter, Block) ELSE block_counter
  /\ byte_counter' = IF start_op(sel, v) THEN 0
                     ELSE IF ~ack THEN byte_counter
                     ELSE IF byte_counter = Block - 1 THEN 0
                     ELSE byte_counter + 1

Timer(sel, v, ack) ==
  aes_time_counter' =
    IF more_blocks(sel, v, ack) \/ start_op(sel, v) THEN 0
    ELSE IF aes_time_counter < TimeMax THEN aes_time_counter + 1
    ELSE aes_time_counter

\* aes_128 takes uaes_ctr and the key register in every cycle and answers
\* Latency cycles later.
CipherSameCounter(sel, v, ack) == \* mutant: the counter stays for every block
  /\ uaes_ctr' = IF start_op(sel, v) THEN aes_reg_ctr ELSE uaes_ctr
  /\ stages' = [d \in 1 .. Latency |->
                  IF d = 1 THEN <<uaes_ctr, aes_reg_key0>> ELSE stages[d - 1]]
Cipher(sel, v, ack) ==
  /\ uaes_ctr' = IF start_op(sel, v) THEN aes_reg_ctr
                 ELSE IF more_blocks(sel, v, ack) THEN CtrAdd(uaes_ctr, Block)
                 ELSE uaes_ctr
  /\ stages' = [d \in 1 .. Latency |->
                  IF d = 1 THEN <<uaes_ctr, aes_reg_key0>> ELSE stages[d - 1]]

Buffers(ack) ==
  /\ mem_data_buf' =
       IF ack THEN [mem_data_buf EXCEPT ![byte_counter] =
                      IF aes_reg_state = "READ_DATA" THEN xram[xram_addr] ELSE {}]
       ELSE mem_data_buf
  /\ encrypted_data_buf' =
       IF aes_reg_state = "OPERATE"
       THEN [i \in Index |-> Xor(mem_data_buf[i], Pad(stages[Latency], i))]
       ELSE encrypted_data_buf

(***************************************************************************)
(* The XRAM takes a byte in the cycle in which it acknowledges a write.  It *)
(* acknowledges only what is asked for, and not before AckGap cycles.      *)
(***************************************************************************)
Xram(ack) ==
  /\ ack => xram_stb /\ waited = AckGap
  /\ waited' = IF xram_stb /\ ~ack /\ waited < AckGap THEN waited + 1
               ELSE IF xram_stb /\ ~ack THEN waited ELSE 0
  /\ xram' = IF ack /\ aes_reg_state = "WRITE_DATA"
             THEN [xram EXCEPT ![xram_addr] = encrypted_data_buf[byte_counter]]
             ELSE xram

\* History: the job is what the registers and the XRAM hold at a start.
Job(sel, v) ==
  IF start_op(sel, v)
  THEN /\ starts' = starts + 1
       /\ jobAddr' = aes_reg_opaddr /\ jobLen' = aes_reg_oplen
       /\ jobCtr' = aes_reg_ctr /\ jobKey' = aes_reg_key0
       /\ jobMem' = xram /\ start_data' = v
  ELSE UNCHANGED job /\ start_data' = 0

Cycle(sel, v, ack) ==
  /\ aes_reg_state' = aes_reg_state_next(sel, v, ack)
  /\ HostRegisters(sel, v)
  /\ Counters(sel, v, ack)
  /\ Timer(sel, v, ack)
  /\ Cipher(sel, v, ack)
  /\ Buffers(ack)
  /\ Xram(ack)
  /\ Job(sel, v)

(***************************************************************************)
(* What the host does in a cycle: nothing, or one of the ILA's writes.     *)
(* Bound: it writes no more after the last of MaxStarts jobs.              *)
(***************************************************************************)
Writes == aes_reg_state # "IDLE" \/ starts < MaxStarts

NoWrite(ack) == Cycle("none", 0, ack)
WriteAddress(ack) == Writes /\ \E v \in HostAddrs : Cycle("ADDR", v, ack)
WriteLength(ack) == Writes /\ \E v \in HostLens : Cycle("LEN", v, ack)
WriteCounter(ack) == Writes /\ \E v \in HostCtrs : Cycle("CTR", v, ack)
WriteKey(ack) == Writes /\ \E v \in HostKeys : Cycle("KEY0", v, ack)
StartEncrypt(ack) == Writes /\ \E v \in HostStarts : Cycle("START", v, ack)

Reset ==
  /\ aes_reg_state' = "IDLE"
  /\ aes_reg_opaddr' = 0 /\ aes_reg_oplen' = 0
  /\ aes_reg_ctr' = 0 /\ aes_reg_key0' = 0
  /\ operated_bytes_count' = 0 /\ block_counter' = 0 /\ byte_counter' = 0
  /\ uaes_ctr' = 0 /\ aes_time_counter' = 0
  /\ stages' = [d \in 1 .. Latency |->
                  IF d = 1 THEN <<uaes_ctr, aes_reg_key0>> ELSE stages[d - 1]]
  /\ waited' = 0 /\ start_data' = 0
  /\ UNCHANGED <<data, job>>

\* The state a reset held for Latency cycles leaves.
Init ==
  /\ aes_reg_state = "IDLE"
  /\ aes_reg_opaddr = 0 /\ aes_reg_oplen = 0
  /\ aes_reg_ctr = 0 /\ aes_reg_key0 = 0
  /\ operated_bytes_count = 0 /\ block_counter = 0 /\ byte_counter = 0
  /\ uaes_ctr = 0 /\ aes_time_counter = 0
  /\ stages = [d \in 1 .. Latency |-> <<0, 0>>]
  /\ mem_data_buf = [i \in Index |-> {}]
  /\ encrypted_data_buf = [i \in Index |-> {}]
  /\ xram = [a \in Addr |-> {<<a>>}]
  /\ waited = 0
  /\ jobAddr = 0 /\ jobLen = 0 /\ jobCtr = 0 /\ jobKey = 0
  /\ jobMem = xram /\ start_data = 0
  /\ starts = 0

Clock(ack) ==
  \/ NoWrite(ack)
  \/ WriteAddress(ack)
  \/ WriteLength(ack)
  \/ WriteCounter(ack)
  \/ WriteKey(ack)
  \/ StartEncrypt(ack)

Next == Clock(TRUE) \/ Clock(FALSE) \/ Reset

Spec == Init /\ [][Next]_vars

\* The clock does not stop, and the XRAM does not leave a request unanswered.
FairSpec ==
  Spec /\ WF_vars(Clock(TRUE) \/ Clock(FALSE)) /\ WF_vars(Clock(TRUE))

(***************************************************************************)
(* Properties.                                                             *)
(***************************************************************************)
Busy == aes_reg_state # "IDLE"

\* A job has been completed and no reset or start came after it.
Done == aes_reg_state = "IDLE" /\ operated_bytes_count # 0

\* The byte counts of the job do not wrap around: the last block starts below
\* the length, and the length leaves room for one block more.
Bounded == jobLen <= AddrSpace - Block

BlockStart == {b \in Addr : \E n \in Addr : b = n * Block}

\* The address of byte i of the block at offset b, and its ciphertext.
ByteAddr(b, i) == AddrAdd(AddrAdd(jobAddr, b), i)
CipherByte(b, i) ==
  Xor(jobMem[ByteAddr(b, i)], Pad(<<CtrAdd(jobCtr, b), jobKey>>, i))

\* Byte i of the block at offset b has been written back.
Written(b, i) ==
  \/ Done /\ (b < jobLen \/ b = 0)
  \/ Busy /\ b < block_counter
  \/ aes_reg_state = "WRITE_DATA" /\ b = block_counter /\ i < byte_counter

(***************************************************************************)
(* Counter mode, from start to end, whatever the host writes meanwhile:    *)
(* every byte of the job already written back is its plaintext at the      *)
(* start combined with the key stream of its own block, and every other    *)
(* byte of the XRAM is untouched (README of the tutorial: C[i] = P[i] XOR  *)
(* AES128(COUNTER); aes_top.v: writes count only in the idle state).       *)
(***************************************************************************)
CounterMode ==
  (Busy \/ Done) /\ Bounded =>
    \A b \in BlockStart, i \in Index :
      xram[ByteAddr(b, i)] =
        IF Written(b, i) THEN CipherByte(b, i) ELSE jobMem[ByteAddr(b, i)]

(***************************************************************************)
(* What OPERATE leaves for the write back is the cipher of this block's    *)
(* counter and the job's key (aes_child.cc: ciphertext = E(ctr) ^          *)
(* plaintext), although aes_top only counts cycles and never asks the      *)
(* cipher whether it has finished.                                         *)
(***************************************************************************)
BlockCipher ==
  aes_reg_state = "WRITE_DATA" /\ Bounded =>
    \A i \in Index : encrypted_data_buf[i] = CipherByte(block_counter, i)

(***************************************************************************)
(* The global invariants under which the engine is compared with the ILA   *)
(* (ref-rel-inst-cond-uaes.json), as far as they hold: the two byte counts *)
(* agree, the block counter is aligned, the counter of the block follows   *)
(* the block counter, and a block starts with its first byte.              *)
(***************************************************************************)
CountersAgree ==
  /\ aes_reg_state = "OPERATE" => byte_counter = 0
  /\ Busy => operated_bytes_count = block_counter
  /\ Busy /\ Bounded => uaes_ctr = CtrAdd(aes_reg_ctr, block_counter)
  /\ block_counter \in BlockStart

(***************************************************************************)
(* A job whose length leaves room for one more block ends (or is reset):   *)
(* beyond that the byte counts wrap below the length and it runs for ever. *)
(***************************************************************************)
JobEnds == (Busy /\ Bounded) ~> ~Busy

(***************************************************************************)
(* The instruction-level view of the engine (ref-rel-var-map-uaes.json).   *)
(* The encrypted block is meaningful only while it is written back: in     *)
(* OPERATE the circuit overwrites it in every cycle.                       *)
(***************************************************************************)
Ila == INSTANCE AesIla WITH
  status <- aes_reg_state,
  address <- aes_reg_opaddr, length <- aes_reg_oplen,
  key <- aes_reg_key0, counter <- aes_reg_ctr,
  rd_data <- mem_data_buf,
  enc_data <- IF aes_reg_state = "WRITE_DATA" THEN encrypted_data_buf
              ELSE [i \in Index |-> {}],
  byte_cnt <- byte_counter, blk_cnt <- block_counter,
  cmddata <- start_data

\* The engine starts on bit 0 of the data, the ILA on the whole of it being 1.
\* A start by any other odd byte is no instruction of the ILA.
OddStart == start_data' # 1 /\ start_data' % 2 = 1

(***************************************************************************)
(* Every cycle is an instruction of the ILA or changes nothing it sees     *)
(* (RunAll.sh checks this instruction by instruction), with three          *)
(* exceptions.  A reset is not an instruction.  Beyond Bounded the ILA's   *)
(* counter wraps with the block counter while uaes_ctr goes on.  And a     *)
(* start by 3, 5, ... matches no decode: without OddStart the property is  *)
(* violated.  The job such a start begins is the ILA's again.              *)
(***************************************************************************)
RefinesIla ==
  Ila!Init /\ [][Reset \/ OddStart \/ (Bounded' => Ila!Next)]_(Ila!ilaVars)
==============================================================================
