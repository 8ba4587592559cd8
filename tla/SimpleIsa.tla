------------------------------ MODULE SimpleIsa ------------------------------
(***************************************************************************)
(* The instruction set of src/examples/Simple-Pipe/ila/main.cc: a register *)
(* file, one instruction per step, no pipeline.  What ADD, SUB and AND     *)
(* compute is a parameter, the registers are a set.                        *)
(***************************************************************************)
CONSTANTS
  Reg,    \* r0 .. r3
  Value,  \* contents of a register
  Result  \* Result[op][<<a, b>>]: what ADD, SUB and AND compute

VARIABLE rf

Init == rf \in [Reg -> Value]

NOP(inst) == inst.op = "NOP" /\ UNCHANGED rf

\* ADD, SUB and AND.
Compute(inst) ==
  /\ inst.op # "NOP"
  /\ rf' = [rf EXCEPT ![inst.rd] =
              Result[inst.op][<<rf[inst.rs1], rf[inst.rs2]>>]]

Execute(inst) == NOP(inst) \/ Compute(inst)
==============================================================================
