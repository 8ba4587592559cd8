-------------------------- MODULE SimplePipe_proofs --------------------------
(***************************************************************************)
(* Proofs about SimplePipe, for every register set, every set of values    *)
(* and whatever ADD, SUB and AND compute.                                  *)
(***************************************************************************)
EXTENDS SimplePipe, TLAPS

\* A write enable is only raised for an instruction with a result.
WritesHaveValue ==
  /\ id_ex_reg_wen => id_ex_op # "NOP"
  /\ ex_wb_reg_wen => ex_wb_val \in Value

PipeInv == TypeOK /\ ScoreboardTracks /\ WritesHaveValue

\* The ALU's output is a value unless a NOP is in EX.
LEMMA AluType ==
  ASSUME TypeOK
  PROVE  /\ ex_alu_result \in Value \cup {Undef}
         /\ id_ex_op # "NOP" => ex_alu_result \in Value
<1>1. CASE id_ex_op = "NOP"
  BY <1>1 DEF ex_alu_result
<1>2. CASE id_ex_op # "NOP"
  <2>1. id_ex_op \in {"ADD", "SUB", "AND"}
    BY <1>2 DEF TypeOK, Ops
  <2>2. <<id_ex_rs1_val, id_ex_rs2_val>> \in Value \X Value
    BY DEF TypeOK
  <2>3. Result[id_ex_op] \in [Value \X Value -> Value]
    BY <2>1, PipeAssumption
  <2>4. Result[id_ex_op][<<id_ex_rs1_val, id_ex_rs2_val>>] \in Value
    BY <2>2, <2>3
  <2>. QED
    BY <1>2, <2>4 DEF ex_alu_result
<1>. QED
  BY <1>1, <1>2

\* Forwarding never delivers the output of a NOP.
LEMMA ForwardType ==
  ASSUME PipeInv, NEW r \in Reg
  PROVE  Forward(r) \in Value
<1>1. reg_w_stage[r] \in SUBSET {"EX", "WB"} /\ registers[r] \in Value
  BY DEF PipeInv, TypeOK
<1>2. CASE reg_w_stage[r] = {}
  BY <1>1, <1>2 DEF Forward
<1>3. CASE reg_w_stage[r] = {"WB"}
  <2>1. ex_wb_reg_wen
    BY <1>3 DEF PipeInv, ScoreboardTracks
  <2>. QED
    BY <1>3, <2>1 DEF Forward, PipeInv, WritesHaveValue
<1>4. CASE reg_w_stage[r] # {} /\ reg_w_stage[r] # {"WB"}
  <2>1. "EX" \in reg_w_stage[r]
    BY <1>1, <1>4
  <2>2. id_ex_reg_wen
    BY <2>1 DEF PipeInv, ScoreboardTracks
  <2>3. ex_alu_result \in Value
    BY <2>2, AluType DEF PipeInv, WritesHaveValue
  <2>. QED
    BY <1>4, <2>3 DEF Forward
<1>. QED
  BY <1>2, <1>3, <1>4

LEMMA InitPipeInv == Init => PipeInv
BY PipeAssumption
   DEF Init, PipeInv, TypeOK, Ops, ScoreboardTracks, WritesHaveValue

LEMMA CyclePipeInv ==
  ASSUME PipeInv, NEW inst \in Inst, Cycle(inst)
  PROVE  PipeInv'
<1>1. /\ inst.op \in Ops /\ inst.rs1 \in Reg
      /\ inst.rs2 \in Reg /\ inst.rd \in Reg
  BY DEF Inst
<1>2. TypeOK'
  <2>1. /\ id_ex_rs1_val' \in Value
        /\ id_ex_rs2_val' \in Value
    BY <1>1, ForwardType DEF Cycle, Decode, SecondOperand
  <2>2. registers' \in [Reg -> Value]
    BY DEF Cycle, WriteBack, PipeInv, TypeOK, WritesHaveValue
  <2>3. reg_w_stage' \in [Reg -> SUBSET {"EX", "WB"}]
    BY DEF Cycle, Scoreboard, Shifted
  <2>4. /\ id_ex_op' \in Ops /\ id_ex_rd' \in Reg /\ id_ex_reg_wen' \in BOOLEAN
    BY <1>1 DEF Cycle, Decode
  <2>5. /\ ex_wb_val' \in Value \cup {Undef} /\ ex_wb_rd' \in Reg
        /\ ex_wb_reg_wen' \in BOOLEAN
    BY AluType DEF Cycle, ExecuteStage, PipeInv, TypeOK
  <2>. QED
    BY <2>1, <2>2, <2>3, <2>4, <2>5 DEF TypeOK
<1>3. ScoreboardTracks'
  <2>. SUFFICES ASSUME NEW r \in Reg
                PROVE  /\ ("EX" \in reg_w_stage'[r])
                             <=> (id_ex_reg_wen' /\ id_ex_rd' = r)
                       /\ ("WB" \in reg_w_stage'[r])
                             <=> (ex_wb_reg_wen' /\ ex_wb_rd' = r)
    BY DEF ScoreboardTracks
  <2>1. ("EX" \in reg_w_stage'[r]) <=> (inst.op # "NOP" /\ inst.rd = r)
    BY DEF Cycle, Scoreboard, Shifted
  <2>2. ("WB" \in reg_w_stage'[r]) <=> ("EX" \in reg_w_stage[r])
    BY DEF Cycle, Scoreboard, Shifted
  <2>3. (id_ex_reg_wen' <=> inst.op # "NOP") /\ id_ex_rd' = inst.rd
    BY DEF Cycle, Decode
  <2>4. (ex_wb_reg_wen' <=> id_ex_reg_wen) /\ ex_wb_rd' = id_ex_rd
    BY DEF Cycle, ExecuteStage
  <2>5. ("EX" \in reg_w_stage[r]) <=> (id_ex_reg_wen /\ id_ex_rd = r)
    BY DEF PipeInv, ScoreboardTracks
  <2>. QED
    BY <2>1, <2>2, <2>3, <2>4, <2>5
<1>4. WritesHaveValue'
  <2>1. id_ex_reg_wen' => id_ex_op' # "NOP"
    BY DEF Cycle, Decode
  <2>2. ex_wb_reg_wen' => ex_wb_val' \in Value
    BY AluType DEF Cycle, ExecuteStage, PipeInv, WritesHaveValue
  <2>. QED
    BY <2>1, <2>2 DEF WritesHaveValue
<1>. QED
  BY <1>2, <1>3, <1>4 DEF PipeInv

LEMMA ResetPipeInv ==
  ASSUME PipeInv, Reset
  PROVE  PipeInv'
BY PipeAssumption
   DEF Reset, PipeInv, TypeOK, ScoreboardTracks, WritesHaveValue

LEMMA StutterPipeInv ==
  ASSUME PipeInv, UNCHANGED vars
  PROVE  PipeInv'
BY DEF vars, id_ex, ex_wb, PipeInv, TypeOK, ScoreboardTracks, WritesHaveValue

(***************************************************************************)
(* The invariant that relates the scoreboard and the pipeline registers.   *)
(***************************************************************************)
THEOREM PipeInvariant == Spec => []PipeInv
<1>1. Init => PipeInv
  BY InitPipeInv
<1>2. PipeInv /\ [Next]_vars => PipeInv'
  BY CyclePipeInv, ResetPipeInv, StutterPipeInv DEF Next
<1>. QED
  BY <1>1, <1>2, PTL DEF Spec

(***************************************************************************)
(* Every register keeps its type: the undefined output that the ALU gives  *)
(* for a NOP never reaches the register file or an operand.                *)
(***************************************************************************)
THEOREM TypeCorrect == Spec => []TypeOK
<1>1. PipeInv => TypeOK
  BY DEF PipeInv
<1>. QED
  BY <1>1, PipeInvariant, PTL

(***************************************************************************)
(* The scoreboard of simple_pipe.v records exactly the writes in flight.   *)
(***************************************************************************)
THEOREM ScoreboardAlwaysTracks == Spec => []ScoreboardTracks
<1>1. PipeInv => ScoreboardTracks
  BY DEF PipeInv
<1>. QED
  BY <1>1, PipeInvariant, PTL

(***************************************************************************)
(* Draining the pipeline gives each register its forwarded value.          *)
(***************************************************************************)
LEMMA DrainedIsView == PipeInv => FlushAgrees
<1>. SUFFICES ASSUME PipeInv PROVE FlushAgrees
  OBVIOUS
<1>. DEFINE afterWb == IF ex_wb_reg_wen
                       THEN [registers EXCEPT ![ex_wb_rd] = ex_wb_val]
                       ELSE registers
            afterEx == IF id_ex_reg_wen
                       THEN [afterWb EXCEPT ![id_ex_rd] = ex_alu_result]
                       ELSE afterWb
<1>1. /\ registers \in [Reg -> Value]
      /\ id_ex_rd \in Reg /\ ex_wb_rd \in Reg
      /\ reg_w_stage \in [Reg -> SUBSET {"EX", "WB"}]
  BY DEF PipeInv, TypeOK
<1>2. /\ afterWb = [r \in Reg |-> afterWb[r]]
      /\ afterEx = [r \in Reg |-> afterEx[r]]
  BY <1>1
<1>3. ASSUME NEW r \in Reg
      PROVE  afterEx[r] = Forward(r)
  <2>1. afterWb[r] = IF ex_wb_reg_wen /\ ex_wb_rd = r
                     THEN ex_wb_val ELSE registers[r]
    BY <1>1
  <2>2. afterEx[r] = IF id_ex_reg_wen /\ id_ex_rd = r
                     THEN ex_alu_result ELSE afterWb[r]
    BY <1>1
  <2>3. /\ ("EX" \in reg_w_stage[r]) <=> (id_ex_reg_wen /\ id_ex_rd = r)
        /\ ("WB" \in reg_w_stage[r]) <=> (ex_wb_reg_wen /\ ex_wb_rd = r)
        /\ reg_w_stage[r] \in SUBSET {"EX", "WB"}
    BY <1>1 DEF PipeInv, ScoreboardTracks
  <2>4. Forward(r) = IF "EX" \in reg_w_stage[r] THEN ex_alu_result
                     ELSE IF "WB" \in reg_w_stage[r] THEN ex_wb_val
                     ELSE registers[r]
    BY <2>3 DEF Forward
  <2>. HIDE DEF afterWb, afterEx
  <2>. QED
    BY <2>1, <2>2, <2>3, <2>4
<1>. HIDE DEF afterEx
<1>4. afterEx = [r \in Reg |-> Forward(r)]
  BY <1>2, <1>3
<1>. QED
  BY <1>4 DEF FlushAgrees, View, afterEx

(***************************************************************************)
(* Writes in flight are applied in program order, none lost or repeated:   *)
(* the drained register file always is what forwarding shows.              *)
(***************************************************************************)
THEOREM FlushAlwaysAgrees == Spec => []FlushAgrees
BY DrainedIsView, PipeInvariant, PTL

(***************************************************************************)
(* One cycle is, on the view, the instruction decoded in it.               *)
(***************************************************************************)
LEMMA CycleForward ==
  ASSUME PipeInv, NEW inst \in Inst, Cycle(inst), NEW r \in Reg
  PROVE  Forward(r)' = IF inst.op # "NOP" /\ inst.rd = r
                       THEN Result[inst.op][<<Forward(inst.rs1),
                                              Forward(inst.rs2)>>]
                       ELSE Forward(r)
<1>1. reg_w_stage'[r] = IF inst.op # "NOP" /\ inst.rd = r
                        THEN Shifted(r) \cup {"EX"} ELSE Shifted(r)
  BY DEF Cycle, Scoreboard
<1>2. CASE inst.op # "NOP" /\ inst.rd = r
  <2>1. reg_w_stage'[r] # {} /\ reg_w_stage'[r] # {"WB"}
    BY <1>1, <1>2
  <2>2. Forward(r)' = ex_alu_result'
    BY <2>1 DEF Forward
  <2>3. /\ id_ex_op' = inst.op
        /\ id_ex_rs1_val' = Forward(inst.rs1)
        /\ id_ex_rs2_val' = Forward(inst.rs2)
    BY DEF Cycle, Decode, SecondOperand
  <2>. QED
    BY <1>2, <2>2, <2>3 DEF ex_alu_result
<1>3. CASE ~(inst.op # "NOP" /\ inst.rd = r)
  <2>1. reg_w_stage'[r] = IF "EX" \in reg_w_stage[r] THEN {"WB"} ELSE {}
    BY <1>1, <1>3 DEF Shifted
  <2>2. reg_w_stage[r] \in SUBSET {"EX", "WB"}
    BY DEF PipeInv, TypeOK
  <2>3. CASE "EX" \in reg_w_stage[r]
    <3>1. Forward(r)' = ex_wb_val'
      BY <2>1, <2>3 DEF Forward
    <3>2. ex_wb_val' = ex_alu_result
      BY DEF Cycle, ExecuteStage
    <3>3. Forward(r) = ex_alu_result
      BY <2>2, <2>3 DEF Forward
    <3>. QED
      BY <1>3, <3>1, <3>2, <3>3
  <2>4. CASE "EX" \notin reg_w_stage[r]
    <3>1. Forward(r)' = registers'[r]
      BY <2>1, <2>4 DEF Forward
    <3>2. registers'[r] = IF ex_wb_reg_wen /\ ex_wb_rd = r
                          THEN ex_wb_val ELSE registers[r]
      BY DEF Cycle, WriteBack, PipeInv, TypeOK
    <3>3. ("WB" \in reg_w_stage[r]) <=> (ex_wb_reg_wen /\ ex_wb_rd = r)
      BY DEF PipeInv, ScoreboardTracks
    <3>4. Forward(r) = IF "WB" \in reg_w_stage[r]
                       THEN ex_wb_val ELSE registers[r]
      BY <2>2, <2>4 DEF Forward
    <3>. QED
      BY <1>3, <3>1, <3>2, <3>3, <3>4
  <2>. QED
    BY <2>3, <2>4
<1>. QED
  BY <1>2, <1>3

LEMMA CycleExecutes ==
  PipeInv => \A inst \in Inst : Cycle(inst) => Arch!Execute(inst)
<1>. SUFFICES ASSUME PipeInv, NEW inst \in Inst, Cycle(inst)
              PROVE  Arch!Execute(inst)
  OBVIOUS
<1>. DEFINE res == Result[inst.op][<<Forward(inst.rs1), Forward(inst.rs2)>>]
<1>1. inst.rs1 \in Reg /\ inst.rs2 \in Reg /\ inst.rd \in Reg
  BY DEF Inst
<1>2. View' = [r \in Reg |-> Forward(r)']
  BY DEF View
<1>3. CASE inst.op = "NOP"
  <2>1. \A r \in Reg : Forward(r)' = Forward(r)
    BY <1>3, CycleForward
  <2>2. View' = View
    BY <1>2, <2>1 DEF View
  <2>. QED
    BY <1>3, <2>2 DEF Arch!Execute, Arch!NOP
<1>4. CASE inst.op # "NOP"
  <2>1. \A r \in Reg : Forward(r)' = IF inst.rd = r THEN res ELSE Forward(r)
    BY <1>4, CycleForward
  <2>. HIDE DEF res
  <2>2. View' = [View EXCEPT ![inst.rd] = res]
    BY <1>1, <1>2, <2>1 DEF View
  <2>3. res = Result[inst.op][<<View[inst.rs1], View[inst.rs2]>>]
    BY <1>1 DEF View, res
  <2>4. View' = [View EXCEPT ![inst.rd] =
                   Result[inst.op][<<View[inst.rs1], View[inst.rs2]>>]]
    BY <2>2, <2>3
  <2>. QED
    BY <1>4, <2>4 DEF Arch!Execute, Arch!Compute
<1>. QED
  BY <1>3, <1>4

(***************************************************************************)
(* The pipeline with its forwarding network behaves as the instruction     *)
(* set: every cycle is its instruction, as if there were no pipeline.      *)
(***************************************************************************)
THEOREM ImplementsIsa == Spec => RefinesIsa
<1>1. Init => Arch!Init
  <2>. SUFFICES ASSUME Init PROVE Arch!Init
    OBVIOUS
  <2>1. \A r \in Reg : Forward(r) \in Value
    BY InitPipeInv, ForwardType
  <2>. QED
    BY <2>1 DEF Arch!Init, View
<1>2. PipeInv /\ [Next]_vars
        => [\A inst \in Inst : Cycle(inst) => Arch!Execute(inst)]_vars
  BY CycleExecutes
<1>. QED
  BY <1>1, <1>2, PipeInvariant, PTL DEF Spec, RefinesIsa
==============================================================================
