--------------------------- MODULE SpecPipe_proofs ---------------------------
(***************************************************************************)
(* Proofs about SpecPipe, for every program, data memory, word size and    *)
(* number of registers.                                                    *)
(***************************************************************************)
EXTENDS SpecPipe, TLAPS

\* A bubble in front of the execute stage is followed by one behind it, and
\* behind a bubble or a taken branch the registers are those before it.
BubbleInv ==
  /\ op_exec = "FLUSH" /\ ~f_flush => op_comm = "FLUSH"
  /\ op_comm = "FLUSH" \/ f_flush => lastRegs = regs

SpecInv == TypeOK /\ InFlight /\ CacheIsMemory /\ BubbleInv

LEMMA IncType == \A w \in Word : Inc(w) \in Word
BY ProgramAssumption DEF Word, Inc

LEMMA InstrType ==
  ASSUME TypeOK, NEW a \in Word
  PROVE  /\ ir[a].op \in Ops /\ ir[a].op # "FLUSH"
         /\ ir[a].idx \in 0 .. IdxNum - 1 /\ ir[a].imm \in Word
         /\ memory[a] \in Word
<1>1. ir[a] \in Instr /\ memory[a] \in Word
  BY ProgramAssumption DEF TypeOK
<1>. QED
  BY <1>1 DEF Instr, Ops

LEMMA InitSpecInv == Init => SpecInv
<1>. SUFFICES ASSUME Init PROVE SpecInv
  OBVIOUS
<1>1. 0 \in Word /\ 0 \in 0 .. IdxNum - 1
  BY ProgramAssumption DEF Word
<1>2. TypeOK
  BY <1>1 DEF Init, TypeOK, Ops
<1>3. InFlight /\ CacheIsMemory /\ BubbleInv
  BY DEF Init, InFlight, Following, CacheIsMemory, BubbleInv
<1>. QED
  BY <1>2, <1>3 DEF SpecInv

(***************************************************************************)
(* What a step does, stage by stage, when nothing is being flushed.        *)
(***************************************************************************)
LEMMA FlushStep ==
  ASSUME Next, f_flush
  PROVE  /\ vpc' = pc /\ op_exec' = "FLUSH" /\ op_comm' = "FLUSH"
         /\ f_flush' = FALSE /\ UNCHANGED <<pc, regs, lastRegs, ir, memory>>
         /\ UNCHANGED <<idx_exec, imm_exec, cache, br, ld, mv>>
<1>1. Flush
  BY DEF Next, FetchStage, Branch, Load, Move, Nop, Fetch
<1>2. FlushExec
  BY DEF Next, ExecStage, BranchExec, LoadExec, MoveExec, NopExec, Exec
<1>3. FlushComm
  BY DEF Next, CommStage, BranchComm, LoadComm, MoveComm, NopComm, Comm
<1>. QED
  BY <1>1, <1>2, <1>3 DEF Next, Flush, FlushExec, FlushComm

LEMMA FetchStep ==
  ASSUME Next, ~f_flush
  PROVE  /\ vpc' = Inc(vpc) /\ op_exec' = ir[vpc].op
         /\ ir[vpc].op # "NOP" =>
              idx_exec' = ir[vpc].idx /\ imm_exec' = ir[vpc].imm
         /\ ir[vpc].op = "NOP" => UNCHANGED <<idx_exec, imm_exec>>
<1>1. FetchStage
  BY DEF Next
<1>2. CASE Nop
  BY <1>2 DEF Nop, Fetch, instr_w
<1>3. CASE Branch \/ Load \/ Move
  BY <1>3 DEF Branch, Load, Move, Fetch, PassDown, instr_w
<1>. QED
  BY <1>1, <1>2, <1>3 DEF FetchStage, Flush

LEMMA ExecStep ==
  ASSUME Next, ~f_flush
  PROVE  /\ op_comm' = op_exec
         /\ IF op_exec = "BR"
            THEN /\ br_take' = (idx_exec \in Regs /\ regs[idx_exec] = 1)
                 /\ br_addr' = imm_exec
            ELSE UNCHANGED br
         /\ IF op_exec = "LD"
            THEN /\ ld_idx' = idx_exec /\ ld_data' = memory[imm_exec]
                 /\ cache' = [cache EXCEPT ![imm_exec] = memory[imm_exec]]
            ELSE UNCHANGED <<cache, ld>>
         /\ IF op_exec = "MV"
            THEN mv_idx' = idx_exec /\ mv_data' = imm_exec
            ELSE UNCHANGED mv
<1>1. ExecStage
  BY DEF Next
<1>2. CASE BranchExec
  BY <1>2 DEF BranchExec, Exec
<1>3. CASE LoadExec
  BY <1>3 DEF LoadExec, Exec
<1>4. CASE MoveExec
  BY <1>4 DEF MoveExec, Exec
<1>5. CASE NopExec
  BY <1>5 DEF NopExec, Exec
<1>6. CASE FlushExec
  BY <1>6 DEF FlushExec
<1>. QED
  BY <1>1, <1>2, <1>3, <1>4, <1>5, <1>6 DEF ExecStage

LEMMA CommStep ==
  ASSUME Next, ~f_flush
  PROVE  /\ UNCHANGED <<ir, memory>>
         /\ op_comm = "FLUSH" => UNCHANGED <<pc, regs, lastRegs>>
         /\ op_comm # "FLUSH" => lastRegs' = regs
         /\ f_flush' <=> op_comm = "BR" /\ br_take
         /\ f_flush' \in {FALSE, br_take}
         /\ op_comm = "BR" => pc' = IF br_take THEN br_addr ELSE Inc(pc)
         /\ op_comm \notin {"BR", "FLUSH"} => pc' = Inc(pc)
         /\ regs' = IF op_comm = "LD"
                    THEN [r \in Regs |-> IF r = ld_idx THEN ld_data ELSE regs[r]]
                    ELSE IF op_comm = "MV"
                    THEN [r \in Regs |-> IF r = mv_idx THEN mv_data ELSE regs[r]]
                    ELSE regs
<1>1. CommStage /\ UNCHANGED <<ir, memory>>
  BY DEF Next
<1>2. CASE BranchComm
  BY <1>1, <1>2 DEF BranchComm, Comm
<1>3. CASE LoadComm
  BY <1>1, <1>3 DEF LoadComm, Comm, SetReg
<1>4. CASE MoveComm
  BY <1>1, <1>4 DEF MoveComm, Comm, SetReg
<1>5. CASE NopComm
  BY <1>1, <1>5 DEF NopComm, Comm
<1>6. CASE FlushComm
  BY <1>1, <1>6 DEF FlushComm
<1>. QED
  BY <1>1, <1>2, <1>3, <1>4, <1>5, <1>6 DEF CommStage

(***************************************************************************)
(* The invariant is kept.                                                  *)
(***************************************************************************)
LEMMA FlushKeepsInv ==
  ASSUME SpecInv, Next, f_flush
  PROVE  SpecInv'
<1>1. TypeOK'
  BY FlushStep DEF SpecInv, TypeOK, br, ld, mv
<1>2. InFlight'
  BY FlushStep DEF InFlight, Following
<1>3. CacheIsMemory'
  BY FlushStep DEF SpecInv, CacheIsMemory
<1>4. BubbleInv'
  BY FlushStep DEF SpecInv, BubbleInv
<1>. QED
  BY <1>1, <1>2, <1>3, <1>4 DEF SpecInv

LEMMA CycleType ==
  ASSUME SpecInv, Next, ~f_flush
  PROVE  TypeOK'
<1>. USE DEF SpecInv
<1>1. /\ vpc \in Word /\ pc \in Word /\ imm_exec \in Word
      /\ idx_exec \in 0 .. IdxNum - 1 /\ br_addr \in Word
      /\ memory \in [Word -> Word]
  BY ProgramAssumption DEF TypeOK
<1>2. ir' \in Programs /\ memory' \in Memories
  BY CommStep DEF TypeOK
<1>3. /\ vpc' \in Word /\ op_exec' \in Ops \cup {"FLUSH"}
      /\ idx_exec' \in 0 .. IdxNum - 1 /\ imm_exec' \in Word
  BY <1>1, FetchStep, InstrType, IncType
<1>4. /\ op_comm' \in Ops \cup {"FLUSH"}
      /\ br_addr' \in Word /\ br_take' \in BOOLEAN
  BY <1>1, ExecStep DEF TypeOK, br
<1>5. /\ ld_data' \in Word /\ ld_idx' \in 0 .. IdxNum - 1
      /\ mv_data' \in Word /\ mv_idx' \in 0 .. IdxNum - 1
  BY <1>1, ExecStep DEF TypeOK, ld, mv
<1>6. cache' \in [Word -> Word \cup {-1}]
  BY <1>1, ExecStep DEF TypeOK
<1>7. pc' \in Word
  BY <1>1, CommStep, IncType DEF TypeOK
<1>8. regs' \in [Regs -> Word] /\ lastRegs' \in [Regs -> Word]
  BY CommStep DEF TypeOK
<1>9. f_flush' \in BOOLEAN
  BY CommStep DEF TypeOK
<1>. QED
  BY <1>2, <1>3, <1>4, <1>5, <1>6, <1>7, <1>8, <1>9 DEF TypeOK

\* Unless a branch is taken, pc goes on to the next instruction in flight.
LEMMA Advances ==
  ASSUME SpecInv, Next, ~f_flush, ~f_flush'
  PROVE  pc' = Following /\ pc' \in Word
<1>1. pc \in Word
  BY DEF SpecInv, TypeOK
<1>2. CASE op_comm = "FLUSH"
  BY <1>1, <1>2, CommStep DEF Following
<1>3. CASE op_comm # "FLUSH"
  BY <1>1, <1>3, CommStep, IncType DEF Following
<1>. QED
  BY <1>2, <1>3

LEMMA CycleInFlight ==
  ASSUME SpecInv, Next, ~f_flush
  PROVE  InFlight'
<1>. SUFFICES ASSUME ~f_flush' PROVE InFlight'
  BY DEF InFlight
<1>1. pc' = Following /\ ir' = ir /\ memory' = memory
  BY Advances, CommStep
<1>2. op_comm' = op_exec
  BY ExecStep
<1>3. /\ op_exec # "FLUSH" => Fetched(Following)
      /\ vpc = IF op_exec = "FLUSH" THEN Following ELSE Inc(Following)
  BY DEF SpecInv, InFlight
<1>4. lastRegs' = regs
  BY CommStep DEF SpecInv, BubbleInv
<1>5. op_comm' # "FLUSH" => Executed(pc)'
  <2>. SUFFICES ASSUME op_exec # "FLUSH" PROVE Executed(pc)'
    BY <1>2
  <2>1. op_comm' = ir'[pc'].op
    BY <1>1, <1>2, <1>3 DEF Fetched
  <2>2. op_exec # "NOP" => idx_exec = ir'[pc'].idx /\ imm_exec = ir'[pc'].imm
    BY <1>1, <1>3 DEF Fetched
  <2>3. op_comm' = "BR" =>
          br_addr' = ir'[pc'].imm /\ br_take' = Taken(lastRegs, pc)'
    BY <1>2, <1>4, <2>2, ExecStep DEF Taken
  <2>4. op_comm' = "LD" =>
          ld_idx' = ir'[pc'].idx /\ ld_data' = memory'[ir'[pc'].imm]
    BY <1>1, <1>2, <2>2, ExecStep
  <2>5. op_comm' = "MV" => mv_idx' = ir'[pc'].idx /\ mv_data' = ir'[pc'].imm
    BY <1>2, <2>2, ExecStep
  <2>. QED
    BY <2>1, <2>3, <2>4, <2>5 DEF Executed
<1>6. Following' = vpc
  BY <1>1, <1>2, <1>3 DEF Following
<1>7. Fetched(Following)'
  BY <1>1, <1>6, FetchStep DEF Fetched
<1>8. op_exec' # "FLUSH" /\ vpc' = Inc(Following)'
  <2>1. op_exec' # "FLUSH"
    BY FetchStep, InstrType DEF SpecInv, TypeOK
  <2>2. vpc' = Inc(vpc)
    BY FetchStep
  <2>. QED
    BY <1>6, <2>1, <2>2 DEF Inc
<1>. QED
  BY <1>5, <1>7, <1>8 DEF InFlight

LEMMA CycleCache ==
  ASSUME SpecInv, Next, ~f_flush
  PROVE  CacheIsMemory'
<1>1. memory' = memory /\ ir' = ir
  BY CommStep
<1>2. /\ imm_exec \in Word /\ cache \in [Word -> Word \cup {-1}]
  BY DEF SpecInv, TypeOK
<1>3. \A a \in Word : cache'[a] \in {-1, memory'[a]}
  BY <1>1, <1>2, ExecStep DEF SpecInv, CacheIsMemory
<1>4. ASSUME op_comm' = "LD", ~f_flush'
      PROVE  cache'[ir'[pc'].imm] = memory'[ir'[pc'].imm]
  <2>1. op_exec = "LD"
    BY <1>4, ExecStep
  <2>2. imm_exec = ir[pc'].imm
    BY <1>4, <2>1, Advances DEF SpecInv, InFlight, Fetched
  <2>3. cache'[imm_exec] = memory[imm_exec]
    BY <1>2, <2>1, ExecStep
  <2>. QED
    BY <1>1, <2>2, <2>3
<1>. QED
  BY <1>3, <1>4 DEF CacheIsMemory

LEMMA CycleBubble ==
  ASSUME SpecInv, Next, ~f_flush
  PROVE  BubbleInv'
<1>1. op_exec' # "FLUSH"
  BY FetchStep, InstrType DEF SpecInv, TypeOK
<1>2. ASSUME op_comm' = "FLUSH"
      PROVE  lastRegs' = regs'
  <2>1. op_comm = "FLUSH"
    BY <1>2, ExecStep DEF SpecInv, BubbleInv
  <2>. QED
    BY <2>1, CommStep DEF SpecInv, BubbleInv
<1>3. ASSUME f_flush'
      PROVE  lastRegs' = regs'
  BY <1>3, CommStep
<1>. QED
  BY <1>1, <1>2, <1>3 DEF BubbleInv

LEMMA StutterSpecInv ==
  ASSUME SpecInv, UNCHANGED vars
  PROVE  SpecInv'
<1>. USE DEF vars, arch, exec, br, ld, mv
<1>1. TypeOK'
  BY DEF SpecInv, TypeOK
<1>2. InFlight'
  BY DEF SpecInv, InFlight, Following, Executed, Fetched, Taken
<1>3. CacheIsMemory' /\ BubbleInv'
  BY DEF SpecInv, CacheIsMemory, BubbleInv
<1>. QED
  BY <1>1, <1>2, <1>3 DEF SpecInv

(***************************************************************************)
(* The invariant of the pipeline.                                          *)
(***************************************************************************)
THEOREM PipelineInvariant == Spec => []SpecInv
<1>1. Init => SpecInv
  BY InitSpecInv
<1>2. ASSUME SpecInv, [Next]_vars
      PROVE  SpecInv'
  <2>1. CASE Next /\ f_flush
    BY <1>2, <2>1, FlushKeepsInv
  <2>2. CASE Next /\ ~f_flush
    BY <1>2, <2>2, CycleType, CycleInFlight, CycleCache, CycleBubble DEF SpecInv
  <2>3. CASE UNCHANGED vars
    BY <1>2, <2>3, StutterSpecInv
  <2>. QED
    BY <1>2, <2>1, <2>2, <2>3
<1>. QED
  BY <1>1, <1>2, PTL DEF Spec

(***************************************************************************)
(* Every state keeps its type; the program counters stay within a word.    *)
(***************************************************************************)
THEOREM TypeCorrect == Spec => []TypeOK
<1>1. SpecInv => TypeOK
  BY DEF SpecInv
<1>. QED
  BY <1>1, PipelineInvariant, PTL

(***************************************************************************)
(* The pipeline holds the instructions at pc and behind it.                *)
(***************************************************************************)
THEOREM InFlightAlways == Spec => []InFlight
<1>1. SpecInv => InFlight
  BY DEF SpecInv
<1>. QED
  BY <1>1, PipelineInvariant, PTL

(***************************************************************************)
(* Loads that are dropped leave nothing but words of the memory behind.    *)
(***************************************************************************)
THEOREM CacheAlwaysMemory == Spec => []CacheIsMemory
<1>1. SpecInv => CacheIsMemory
  BY DEF SpecInv
<1>. QED
  BY <1>1, PipelineInvariant, PTL

(***************************************************************************)
(* A step commits the instruction at pc, or nothing.                       *)
(***************************************************************************)
LEMMA CommitsInOrder ==
  ASSUME SpecInv, Next, ~f_flush, op_comm # "FLUSH"
  PROVE  Committed!Next
<1>. USE DEF Committed!Instruction, Committed!Inc, Inc
<1>1. Executed(pc)
  BY DEF SpecInv, InFlight
<1>2. op_comm \in Ops
  BY DEF SpecInv, TypeOK
<1>3. UNCHANGED <<ir, memory>> /\ lastRegs' = regs
  BY CommStep
<1>4. CASE op_comm = "NOP"
  BY <1>1, <1>3, <1>4, CommStep DEF Executed, Committed!Next, Committed!NOP
<1>5. CASE op_comm = "BR"
  <2>1. br_take = Committed!Holds(lastRegs, ir[pc].idx)
    BY <1>1, <1>5 DEF Executed, Taken, Regs, Committed!Holds
  <2>2. pc' = IF Committed!Holds(lastRegs, ir[pc].idx) THEN ir[pc].imm
              ELSE Inc(pc)
    BY <1>1, <1>5, <2>1, CommStep DEF Executed
  <2>. QED
    BY <1>1, <1>3, <1>5, <2>2, CommStep DEF Executed, Committed!Next, Committed!BR
<1>6. CASE op_comm = "LD"
  BY <1>1, <1>3, <1>6, CommStep
     DEF Executed, Regs, Committed!Next, Committed!LD, Committed!Written
<1>7. CASE op_comm = "MV"
  BY <1>1, <1>3, <1>7, CommStep
     DEF Executed, Regs, Committed!Next, Committed!MV, Committed!Written
<1>. QED
  BY <1>2, <1>4, <1>5, <1>6, <1>7 DEF Ops

(***************************************************************************)
(* For every program: what the pipeline commits is the program in order,   *)
(* and nothing it executed behind a taken branch is seen.                  *)
(***************************************************************************)
THEOREM ImplementsInOrder == Spec => RefinesInOrder
<1>1. Init => Committed!Init
  BY DEF Init, Committed!Init, Regs
<1>2. ASSUME SpecInv, [Next]_vars
      PROVE  [Committed!Next]_(Committed!isaVars)
  <2>1. CASE Next /\ ~f_flush /\ op_comm # "FLUSH"
    BY <1>2, <2>1, CommitsInOrder
  <2>2. CASE Next /\ ~f_flush /\ op_comm = "FLUSH"
    BY <2>2, CommStep DEF Committed!isaVars
  <2>3. CASE Next /\ f_flush
    BY <2>3, FlushStep DEF Committed!isaVars
  <2>4. CASE UNCHANGED vars
    BY <2>4 DEF vars, arch, Committed!isaVars
  <2>. QED
    BY <1>2, <2>1, <2>2, <2>3, <2>4
<1>. QED
  BY <1>1, <1>2, PipelineInvariant, PTL DEF Spec, RefinesInOrder

(***************************************************************************)
(* Progress. How many cycles the next commit is away: a flush costs three, *)
(* an empty pipeline two, an empty commit stage one.                       *)
(***************************************************************************)
Distance == IF f_flush THEN 3
            ELSE IF op_comm # "FLUSH" THEN 0
            ELSE IF op_exec # "FLUSH" THEN 1 ELSE 2

CommitNears == [][Distance > 0 => Distance' < Distance]_vars

LEMMA DistanceFalls ==
  ASSUME TypeOK, Next
  PROVE  Distance = 0 \/ Distance' < Distance
<1>1. CASE f_flush
  BY <1>1, FlushStep DEF Distance
<1>2. CASE ~f_flush /\ op_comm = "FLUSH"
  <2>1. ir[vpc].op # "FLUSH"
    BY InstrType DEF TypeOK
  <2>2. op_exec' = ir[vpc].op /\ op_comm' = op_exec /\ ~f_flush'
    BY <1>2, FetchStep, ExecStep, CommStep
  <2>. QED
    BY <1>2, <2>1, <2>2 DEF Distance
<1>3. CASE ~f_flush /\ op_comm # "FLUSH"
  BY <1>3 DEF Distance
<1>. QED
  BY <1>1, <1>2, <1>3

(***************************************************************************)
(* Every cycle without a commit brings the next commit nearer: there are   *)
(* never more than three of them in a row, however the branches go.        *)
(***************************************************************************)
THEOREM CommitIsNear == Spec => CommitNears
<1>1. SpecInv /\ [Next]_vars => [Distance > 0 => Distance' < Distance]_vars
  BY DistanceFalls DEF SpecInv
<1>. QED
  BY <1>1, PipelineInvariant, PTL DEF Spec, CommitNears

\* WF_vars(Next) for a clock that can always tick.
ClockTicks == []<><<Next>>_vars

(***************************************************************************)
(* While the clock goes on, the pipeline goes on to commit.                *)
(***************************************************************************)
THEOREM ClockMakesProgress == Spec /\ ClockTicks => Progress
<1>. DEFINE Commits == op_comm # "FLUSH" /\ ~f_flush
            One == Distance = 1
            Two == Distance = 2
            Three == Distance = 3
<1>1. TypeOK => Commits \/ One \/ Two \/ Three
  BY DEF Distance
<1>2. TypeOK /\ <<Next>>_vars /\ One => Commits'
  BY DistanceFalls DEF Distance
<1>3. TypeOK /\ <<Next>>_vars /\ Two => (Commits \/ One)'
  BY DistanceFalls DEF Distance
<1>4. TypeOK /\ <<Next>>_vars /\ Three => (Commits \/ One \/ Two)'
  BY DistanceFalls DEF Distance
<1>5. TypeOK /\ UNCHANGED vars =>
        (One => One') /\ (Two => Two') /\ (Three => Three')
  BY DEF Distance, vars, arch, exec
<1>. HIDE DEF Commits, One, Two, Three
<1>6. []TypeOK /\ [][Next]_vars /\ []<><<Next>>_vars => []<>Commits
  BY <1>1, <1>2, <1>3, <1>4, <1>5, PTL
<1>. QED
  BY <1>6, TypeCorrect, PTL DEF Spec, ClockTicks, Progress, Commits
==============================================================================
