------------------------------ MODULE SimplePipe ------------------------------
(***************************************************************************)
(* The pipeline of src/examples/Simple-Pipe/verilog/simple_pipe.v, clocked *)
(* (ID, EX and WB work in the same cycle), and its relation to SimpleIsa.  *)
(* A register's two scoreboard bits are the set of the stages an           *)
(* instruction writing it is in: EX is bit 1, WB is bit 0.                 *)
(***************************************************************************)
CONSTANTS Reg, Value, Result,  \* as in SimpleIsa
          Zero,                \* contents of a register after reset
          Undef                \* 8'bxxxxxxxx

ASSUME PipeAssumption ==
  /\ Result \in [{"ADD", "SUB", "AND"} -> [Value \X Value -> Value]]
  /\ Zero \in Value /\ Undef \notin Value

VARIABLES
  registers,
  reg_w_stage,                                   \* scoreboard
  id_ex_op, id_ex_rd, id_ex_reg_wen,             \* from ID to EX
  id_ex_rs1_val, id_ex_rs2_val,
  ex_wb_val, ex_wb_rd, ex_wb_reg_wen             \* from EX to WB

id_ex == <<id_ex_op, id_ex_rd, id_ex_reg_wen, id_ex_rs1_val, id_ex_rs2_val>>
ex_wb == <<ex_wb_val, ex_wb_rd, ex_wb_reg_wen>>
vars == <<registers, reg_w_stage, id_ex, ex_wb>>

Ops == {"NOP", "ADD", "SUB", "AND"}
Inst == [op : Ops, rs1 : Reg, rs2 : Reg, rd : Reg]

TypeOK ==
  /\ registers \in [Reg -> Value]
  /\ reg_w_stage \in [Reg -> SUBSET {"EX", "WB"}]
  /\ id_ex_op \in Ops /\ id_ex_rd \in Reg /\ id_ex_reg_wen \in BOOLEAN
  /\ id_ex_rs1_val \in Value /\ id_ex_rs2_val \in Value
  /\ ex_wb_val \in Value \cup {Undef} /\ ex_wb_rd \in Reg
  /\ ex_wb_reg_wen \in BOOLEAN

ex_alu_result ==
  IF id_ex_op = "NOP" THEN Undef
  ELSE Result[id_ex_op][<<id_ex_rs1_val, id_ex_rs2_val>>]

\* Where the latest value of register r is.
ForwardWbFirst(r) == \* mutant: the older of two writers wins
  IF reg_w_stage[r] = {} THEN registers[r]
  ELSE IF "WB" \in reg_w_stage[r] THEN ex_wb_val
  ELSE ex_alu_result
Forward(r) ==
  IF reg_w_stage[r] = {} THEN registers[r]
  ELSE IF reg_w_stage[r] = {"WB"} THEN ex_wb_val
  ELSE ex_alu_result

ForwardByFirst(rs1, rs2) == Forward(rs1) \* mutant: simple_pipe_wrong.v
SecondOperand(rs1, rs2) == Forward(rs2)

ShiftedKept(r) == reg_w_stage[r] \* mutant: nothing leaves the scoreboard
Shifted(r) == IF "EX" \in reg_w_stage[r] THEN {"WB"} ELSE {}

Scoreboard(inst) ==
  reg_w_stage' = [r \in Reg |->
    IF inst.op # "NOP" /\ inst.rd = r THEN Shifted(r) \cup {"EX"}
    ELSE Shifted(r)]

Decode(inst) ==
  /\ id_ex_op' = inst.op
  /\ id_ex_reg_wen' = (inst.op # "NOP")
  /\ id_ex_rd' = inst.rd
  /\ id_ex_rs1_val' = Forward(inst.rs1)
  /\ id_ex_rs2_val' = SecondOperand(inst.rs1, inst.rs2)

ExecuteStage ==
  /\ ex_wb_reg_wen' = id_ex_reg_wen
  /\ ex_wb_val' = ex_alu_result
  /\ ex_wb_rd' = id_ex_rd

WriteBackAlways == \* mutant: the write enable is not looked at
  registers' = [registers EXCEPT ![ex_wb_rd] = ex_wb_val]
WriteBack ==
  registers' = IF ex_wb_reg_wen
               THEN [registers EXCEPT ![ex_wb_rd] = ex_wb_val]
               ELSE registers

Cycle(inst) ==
  Decode(inst) /\ Scoreboard(inst) /\ ExecuteStage /\ WriteBack

Reset ==
  /\ registers' = [r \in Reg |-> Zero]
  /\ reg_w_stage' = [r \in Reg |-> {}]
  /\ id_ex_reg_wen' = FALSE /\ ex_wb_reg_wen' = FALSE
  /\ UNCHANGED <<id_ex_op, id_ex_rd, id_ex_rs1_val, id_ex_rs2_val,
                 ex_wb_val, ex_wb_rd>>

(***************************************************************************)
(* The pipeline is empty and the registers hold anything: the states in    *)
(* which vlg-verif.py starts an instruction (it leaves rst low).  After a  *)
(* reset all registers are zero, and ADD, SUB and AND keep them zero.      *)
(***************************************************************************)
Init ==
  /\ registers \in [Reg -> Value]
  /\ reg_w_stage = [r \in Reg |-> {}]
  /\ id_ex_op = "NOP" /\ id_ex_rd \in Reg /\ id_ex_reg_wen = FALSE
  /\ id_ex_rs1_val = Zero /\ id_ex_rs2_val = Zero
  /\ ex_wb_val = Undef /\ ex_wb_rd \in Reg /\ ex_wb_reg_wen = FALSE

\* The instruction-level view (ref-rel-var-map.json): the latest values.
View == [r \in Reg |-> Forward(r)]
Arch == INSTANCE SimpleIsa WITH rf <- View

Next == Reset \/ \E inst \in Inst : Cycle(inst)
Spec == Init /\ [][Next]_vars

(***************************************************************************)
(* The scoreboard records exactly the writes in flight (the global         *)
(* invariants of ref-rel-verilog.json): what the forwarding network relies *)
(* on, kept up by other logic than the pipeline registers it describes.    *)
(***************************************************************************)
ScoreboardTracks ==
  \A r \in Reg :
    /\ ("EX" \in reg_w_stage[r]) <=> (id_ex_reg_wen /\ id_ex_rd = r)
    /\ ("WB" \in reg_w_stage[r]) <=> (ex_wb_reg_wen /\ ex_wb_rd = r)

(***************************************************************************)
(* If the pipeline is drained now, the registers become what forwarding    *)
(* gives an instruction decoded now: the writes in flight are applied in   *)
(* program order, and none is lost or done twice.                          *)
(***************************************************************************)
FlushAgrees ==
  LET afterWb == IF ex_wb_reg_wen
                 THEN [registers EXCEPT ![ex_wb_rd] = ex_wb_val]
                 ELSE registers
      afterEx == IF id_ex_reg_wen
                 THEN [afterWb EXCEPT ![id_ex_rd] = ex_alu_result]
                 ELSE afterWb
  IN afterEx = View

(***************************************************************************)
(* Every cycle executes, on the instruction-level view, just the           *)
(* instruction that was decoded in it (README of the example: the pipeline *)
(* is behaviourally equivalent to the ILA).                                *)
(***************************************************************************)
RefinesIsa ==
  Arch!Init /\ [][\A inst \in Inst : Cycle(inst) => Arch!Execute(inst)]_vars
==============================================================================
