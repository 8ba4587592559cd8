-------------------------------- MODULE AesIla --------------------------------
(***************************************************************************)
(* The instruction-level abstraction of the AES engine: the commands of    *)
(* src/tutorials/aes/src/aes_ila.cc that change state, and the child       *)
(* instructions LOAD, OPERATE and STORE of aes_child.cc that carry out     *)
(* START_ENCRYPT.                                                          *)
(*                                                                         *)
(* The ILA allows any change of a state an instruction gives no update     *)
(* for, and any status or counter after a command in a busy state.  This   *)
(* module allows less: the status, the registers and the XRAM change only  *)
(* as an update says, and a command in a busy state changes nothing (the   *)
(* tighter guarantee aes_ila.cc offers in its comments).  So what          *)
(* implements this module implements the ILA.  The child's buffers stay    *)
(* open where the ILA leaves them open.  A byte slice of a register is     *)
(* abstracted to a write of the whole register, and of the command itself  *)
(* only the data is kept, which START_ENCRYPT decodes: cmddata' is the     *)
(* data of the command a step carries out.                                 *)
(***************************************************************************)
EXTENDS Integers

CONSTANTS
  Block, AddrSpace, CtrSpace,  \* 16, 2^16, 2^128
  Keys, Byte,
  Xor(_, _),                   \* of two bytes
  Pad(_, _)                    \* byte i of aes128(counter, key)

VARIABLES
  status, address, length, key, counter, xram,
  rd_data, enc_data, byte_cnt, blk_cnt,      \* states of the child
  cmddata                                    \* input: the data of a command

registers == <<address, length, key, counter>>
child == <<rd_data, enc_data, byte_cnt, blk_cnt>>
ilaVars == <<status, registers, xram, child>>

Addr == 0 .. AddrSpace - 1
Ctr == 0 .. CtrSpace - 1
Index == 0 .. Block - 1
Buffer == [Index -> Byte]

AddrAdd(a, b) == IF a + b < AddrSpace THEN a + b ELSE a + b - AddrSpace
CtrAdd(a, b) == IF a + b < CtrSpace THEN a + b ELSE a + b - CtrSpace

Init ==
  /\ status = "IDLE"
  /\ address \in Addr /\ length \in Addr /\ key \in Keys /\ counter \in Ctr
  /\ rd_data \in Buffer /\ enc_data \in Buffer
  /\ byte_cnt = 0 /\ blk_cnt = 0

is_status_idle == status = "IDLE"

WRITE_ADDRESS ==
  /\ is_status_idle
  /\ address' \in Addr
  /\ UNCHANGED <<status, length, key, counter, xram, child>>

WRITE_LENGTH ==
  /\ is_status_idle
  /\ length' \in Addr
  /\ UNCHANGED <<status, address, key, counter, xram, child>>

WRITE_KEY ==
  /\ is_status_idle
  /\ key' \in Keys
  /\ UNCHANGED <<status, address, length, counter, xram, child>>

WRITE_COUNTER ==
  /\ is_status_idle
  /\ counter' \in Ctr
  /\ UNCHANGED <<status, address, length, key, xram, child>>

\* The decode asks for 1, of all eight bits of the data of this command.  The
\* child's initial values are exported as an update of the start.
START_ENCRYPT ==
  /\ cmddata' = 1
  /\ is_status_idle
  /\ status' = "READ_DATA"
  /\ byte_cnt' = 0 /\ blk_cnt' = 0
  /\ UNCHANGED <<registers, xram, rd_data, enc_data>>

last_byte == byte_cnt = Block - 1
byte_next == IF last_byte THEN 0 ELSE byte_cnt + 1
xram_address == AddrAdd(AddrAdd(address, blk_cnt), byte_cnt)
more == AddrAdd(blk_cnt, Block) < length

LOAD ==
  /\ status = "READ_DATA"
  /\ byte_cnt' = byte_next
  /\ rd_data' = [rd_data EXCEPT ![byte_cnt] = xram[xram_address]]
  /\ status' = IF last_byte THEN "OPERATE" ELSE status
  /\ enc_data' \in Buffer
  /\ UNCHANGED <<registers, xram, blk_cnt>>

OPERATE ==
  /\ status = "OPERATE"
  /\ enc_data' = [i \in Index |->
                    Xor(rd_data[i], Pad(<<CtrAdd(counter, blk_cnt), key>>, i))]
  /\ status' = "WRITE_DATA"
  /\ UNCHANGED <<registers, xram, rd_data, byte_cnt, blk_cnt>>

STORE ==
  /\ status = "WRITE_DATA"
  /\ byte_cnt' = byte_next
  /\ xram' = [xram EXCEPT ![xram_address] = enc_data[byte_cnt]]
  /\ blk_cnt' = IF last_byte /\ more THEN AddrAdd(blk_cnt, Block) ELSE blk_cnt
  /\ status' = IF ~last_byte THEN status
               ELSE IF more THEN "READ_DATA" ELSE "IDLE"
  /\ rd_data' \in Buffer /\ enc_data' \in Buffer
  /\ UNCHANGED registers

Next ==
  \/ WRITE_ADDRESS \/ WRITE_LENGTH \/ WRITE_KEY \/ WRITE_COUNTER
  \/ START_ENCRYPT
  \/ LOAD \/ OPERATE \/ STORE
==============================================================================
