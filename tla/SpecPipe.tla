------------------------------- MODULE SpecPipe -------------------------------
(***************************************************************************)
(* The pipeline of src/examples/Spec-Pipe/src/main.cc, which executes what *)
(* follows a branch before it knows whether the branch is taken.           *)
(*                                                                         *)
(* The ILA's top instructions update vpc and the execution registers, its  *)
(* child instructions named ...Exec the cache and the commit opcode, those *)
(* named ...Comm the architectural state and f_flush.  Just one of each    *)
(* group decodes in every state, no state is updated by two groups, and    *)
(* all read the state before the step: a step is one of each group.        *)
(***************************************************************************)
EXTENDS Integers

CONSTANTS
  Size, RegNum,  \* as in InOrder
  IdxNum,        \* register indices of an instruction (2^4)
  Programs,      \* contents of the instruction memory
  Memories       \* initial contents of the data memory

Word == 0 .. Size - 1
Regs == 0 .. RegNum - 1
Ops == {"NOP", "BR", "LD", "MV"}
Instr == [op : Ops, idx : 0 .. IdxNum - 1, imm : Word]

\* Other opcodes than these belong to no instruction.
ASSUME ProgramAssumption ==
  /\ Size \in Nat \ {0, 1} /\ RegNum \in Nat \ {0} /\ IdxNum \in Nat \ {0}
  /\ Programs \subseteq [Word -> Instr]
  /\ Memories \subseteq [Word -> Word]

VARIABLES
  ir, memory, cache,
  pc, vpc, f_flush, regs,
  op_exec, idx_exec, imm_exec, op_comm,
  br_addr, br_take, ld_data, ld_idx, mv_data, mv_idx,
  lastRegs   \* history: regs before the last commit

arch == <<pc, regs, f_flush, lastRegs>>
exec == <<op_exec, idx_exec, imm_exec>>
br == <<br_addr, br_take>>
ld == <<ld_data, ld_idx>>
mv == <<mv_data, mv_idx>>
vars == <<ir, memory, cache, arch, vpc, exec, op_comm, br, ld, mv>>

TypeOK ==
  /\ ir \in Programs /\ memory \in Memories
  /\ cache \in [Word -> Word \cup {-1}]
  /\ pc \in Word /\ vpc \in Word /\ f_flush \in BOOLEAN
  /\ regs \in [Regs -> Word] /\ lastRegs \in [Regs -> Word]
  /\ op_exec \in Ops \cup {"FLUSH"} /\ op_comm \in Ops \cup {"FLUSH"}
  /\ idx_exec \in 0 .. IdxNum - 1 /\ imm_exec \in Word
  /\ br_addr \in Word /\ br_take \in BOOLEAN
  /\ ld_data \in Word /\ ld_idx \in 0 .. IdxNum - 1
  /\ mv_data \in Word /\ mv_idx \in 0 .. IdxNum - 1

IncWide(w) == w + 1 \* mutant: a ninth bit
Inc(w) == (w + 1) % Size

\* The initial cache is not constrained but at the secret; -1 is what is there.
Init ==
  /\ ir \in Programs /\ memory \in Memories
  /\ cache = [a \in Word |-> -1]
  /\ pc = 0 /\ vpc = 0 /\ f_flush = FALSE
  /\ op_exec = "FLUSH" /\ op_comm = "FLUSH"
  /\ idx_exec = 0 /\ imm_exec = 0
  /\ regs = [r \in Regs |-> 0] /\ lastRegs = regs
  /\ br_addr = 0 /\ br_take = FALSE
  /\ ld_data = 0 /\ ld_idx = 0 /\ mv_data = 0 /\ mv_idx = 0

(***************************************************************************)
(* Fetch: the top instructions.                                            *)
(***************************************************************************)
instr_w == ir[vpc]

Fetch(op) ==
  /\ instr_w.op = op /\ ~f_flush
  /\ vpc' = Inc(vpc)
  /\ op_exec' = op
PassDown == idx_exec' = instr_w.idx /\ imm_exec' = instr_w.imm

Branch == Fetch("BR") /\ PassDown
Load == Fetch("LD") /\ PassDown
Move == Fetch("MV") /\ PassDown
Nop == Fetch("NOP") /\ UNCHANGED <<idx_exec, imm_exec>>
FlushResumes == \* mutant: fetching goes on where it was
  /\ f_flush
  /\ vpc' = vpc
  /\ op_exec' = "FLUSH"
  /\ UNCHANGED <<idx_exec, imm_exec>>
Flush ==
  /\ f_flush
  /\ vpc' = pc
  /\ op_exec' = "FLUSH"
  /\ UNCHANGED <<idx_exec, imm_exec>>

(***************************************************************************)
(* Execute: a branch decides, a load reads memory and fills the cache.     *)
(***************************************************************************)
Exec(op) == op_exec = op /\ ~f_flush /\ op_comm' = op

BranchExec ==
  /\ Exec("BR")
  /\ br_take' = (idx_exec \in Regs /\ regs[idx_exec] = 1)
  /\ br_addr' = imm_exec
  /\ UNCHANGED <<cache, ld, mv>>
LoadExecNext == \* mutant: the cache gets the word at the next address
  /\ Exec("LD")
  /\ ld_idx' = idx_exec
  /\ ld_data' = memory[imm_exec]
  /\ cache' = [cache EXCEPT ![Inc(imm_exec)] = memory[imm_exec]]
  /\ UNCHANGED <<br, mv>>
LoadExec ==
  /\ Exec("LD")
  /\ ld_idx' = idx_exec
  /\ ld_data' = memory[imm_exec]
  /\ cache' = [cache EXCEPT ![imm_exec] = memory[imm_exec]]
  /\ UNCHANGED <<br, mv>>
MoveExec ==
  /\ Exec("MV")
  /\ mv_idx' = idx_exec
  /\ mv_data' = imm_exec
  /\ UNCHANGED <<cache, br, ld>>
NopExec == Exec("NOP") /\ UNCHANGED <<cache, br, ld, mv>>
FlushExecPasses == \* mutant: what was executed behind the branch goes on
  /\ f_flush \/ op_exec = "FLUSH"
  /\ op_comm' = op_exec
  /\ UNCHANGED <<cache, br, ld, mv>>
FlushExec ==
  /\ f_flush \/ op_exec = "FLUSH"
  /\ op_comm' = "FLUSH"
  /\ UNCHANGED <<cache, br, ld, mv>>

(***************************************************************************)
(* Commit: the only changes of the architectural state.                    *)
(***************************************************************************)
Comm(op, flush) ==
  op_comm = op /\ ~f_flush /\ f_flush' = flush /\ lastRegs' = regs
SetReg(i, v) == regs' = [r \in Regs |-> IF r = i THEN v ELSE regs[r]]

BranchComm ==
  /\ Comm("BR", br_take)
  /\ pc' = IF br_take THEN br_addr ELSE Inc(pc)
  /\ UNCHANGED regs
LoadComm == Comm("LD", FALSE) /\ pc' = Inc(pc) /\ SetReg(ld_idx, ld_data)
MoveComm == Comm("MV", FALSE) /\ pc' = Inc(pc) /\ SetReg(mv_idx, mv_data)
NopComm == Comm("NOP", FALSE) /\ pc' = Inc(pc) /\ UNCHANGED regs
FlushCommKeeps == \* mutant: the flag stays up
  /\ f_flush \/ op_comm = "FLUSH"
  /\ UNCHANGED arch
FlushComm ==
  /\ f_flush \/ op_comm = "FLUSH"
  /\ f_flush' = FALSE
  /\ UNCHANGED <<pc, regs, lastRegs>>

FetchStage == Branch \/ Load \/ Move \/ Nop \/ Flush
ExecStage == BranchExec \/ LoadExec \/ MoveExec \/ NopExec \/ FlushExec
CommStage == BranchComm \/ LoadComm \/ MoveComm \/ NopComm \/ FlushComm

Next == FetchStage /\ ExecStage /\ CommStage /\ UNCHANGED <<ir, memory>>

Spec == Init /\ [][Next]_vars

\* The clock does not stop.
FairSpec == Spec /\ WF_vars(Next)

(***************************************************************************)
(* Properties.                                                             *)
(***************************************************************************)
\* The condition of the branch at address a.
Taken(file, a) == ir[a].idx \in Regs /\ file[ir[a].idx] = 1

\* What the commit stage holds is the result of the instruction at address a.
Executed(a) ==
  /\ op_comm = ir[a].op
  /\ op_comm = "BR" => br_addr = ir[a].imm /\ br_take = Taken(lastRegs, a)
  /\ op_comm = "LD" => ld_idx = ir[a].idx /\ ld_data = memory[ir[a].imm]
  /\ op_comm = "MV" => mv_idx = ir[a].idx /\ mv_data = ir[a].imm

Fetched(a) ==
  /\ op_exec = ir[a].op
  /\ op_exec # "NOP" => idx_exec = ir[a].idx /\ imm_exec = ir[a].imm

\* The address of the instruction behind the one about to commit.
Following == IF op_comm = "FLUSH" THEN pc ELSE Inc(pc)

(***************************************************************************)
(* Unless it is being flushed, the pipeline holds the instructions at pc   *)
(* and behind it, without gap or repetition, whatever was fetched,         *)
(* executed and dropped before (main.cc: vpc is the "virtual" program      *)
(* counter, pc the "actual" one).                                          *)
(***************************************************************************)
InFlight ==
  ~f_flush =>
    /\ op_comm # "FLUSH" => Executed(pc)
    /\ op_exec # "FLUSH" => Fetched(Following)
    /\ vpc = IF op_exec = "FLUSH" THEN Following ELSE Inc(Following)

(***************************************************************************)
(* A cached word is the memory's, also when it was loaded behind a branch  *)
(* and the load was dropped; and a load about to commit is in the cache.   *)
(***************************************************************************)
CacheIsMemory ==
  /\ \A a \in Word : cache[a] \in {-1, memory[a]}
  /\ op_comm = "LD" /\ ~f_flush => cache[ir[pc].imm] = memory[ir[pc].imm]

(***************************************************************************)
(* What commits is the program in order: nothing executed behind a taken   *)
(* branch is seen in pc or the registers.  A branch sees its condition as  *)
(* it was before the instruction in front of it, which commits in the same *)
(* cycle in which the branch decides.  InOrder has that from the code      *)
(* (main.cc:176): this says that nothing but the delay of the branch tells *)
(* the pipeline from a machine without one.                                *)
(***************************************************************************)
Committed == INSTANCE InOrder
RefinesInOrder ==
  Committed!Init /\ [][Committed!Next]_(Committed!isaVars)

(***************************************************************************)
(* However many branches are taken, the pipeline goes on to commit.        *)
(***************************************************************************)
Progress == []<>(op_comm # "FLUSH" /\ ~f_flush)
==============================================================================
