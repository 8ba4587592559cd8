------------------------------- MODULE InOrder -------------------------------
(***************************************************************************)
(* The instruction set of src/examples/Spec-Pipe/src/main.cc, one          *)
(* instruction after another, as the pipeline carries it out: there is no  *)
(* forwarding, so the condition of a branch is read as it was before the   *)
(* instruction that precedes the branch.  That is what main.cc:176 does,   *)
(* not what main.cc:71-74 says of its program: there a branch right behind *)
(* the move that sets its condition is taken.  See LoadNotReached in       *)
(* MCSpecPipe.                                                             *)
(***************************************************************************)
EXTENDS Integers

CONSTANTS
  Size,    \* values of a word: addresses, immediates, registers (2^8)
  RegNum   \* REG_NUM; an index at or above it names no register

VARIABLES
  ir, memory,        \* the program and the data, which nothing changes
  pc, regs,
  lastRegs           \* the registers before the last instruction

isaVars == <<ir, memory, pc, regs, lastRegs>>

Inc(w) == (w + 1) % Size
Written(i, v) == [r \in 0 .. RegNum - 1 |-> IF r = i THEN v ELSE regs[r]]
Holds(file, i) == i \in 0 .. RegNum - 1 /\ file[i] = 1

Init ==
  /\ pc = 0
  /\ regs = [r \in 0 .. RegNum - 1 |-> 0]
  /\ lastRegs = regs

Instruction(op, next, file) ==
  /\ ir[pc].op = op
  /\ pc' = next
  /\ regs' = file
  /\ lastRegs' = regs
  /\ UNCHANGED <<ir, memory>>

NOP == Instruction("NOP", Inc(pc), regs)
BR == Instruction("BR", IF Holds(lastRegs, ir[pc].idx) THEN ir[pc].imm
                        ELSE Inc(pc), regs)
LD == Instruction("LD", Inc(pc), Written(ir[pc].idx, memory[ir[pc].imm]))
MV == Instruction("MV", Inc(pc), Written(ir[pc].idx, ir[pc].imm))

Next == NOP \/ BR \/ LD \/ MV
==============================================================================
