------------------------------ MODULE MCSpecPipe ------------------------------
(* All programs of Size instructions out of a few, the program of the       *)
(* repository, and one data memory.                                         *)
EXTENDS SpecPipe

I(op, idx, imm) == [op |-> op, idx |-> idx, imm |-> imm]

\* Loads bring 1 and the last word; index 2 is no register.
Few == {I("NOP", 0, 0), I("BR", 0, 0), I("BR", 0, 3), I("BR", 1, 2),
        I("BR", 2, 3), I("LD", 0, 1), I("LD", 1, 3), I("MV", 0, 0),
        I("MV", 0, 1), I("MV", 1, 1), I("MV", 2, 1)}
SmallPrograms == [Word -> Few]
OneMemory == {[a \in Word |-> a]}

\* IrInitVal: the address of the load, 0xff, is the last one.
MainProgram ==
  {[a \in Word |->
      CASE a = 0 -> I("MV", 0, 1) [] a = 1 -> I("BR", 0, 4)
        [] a = 2 -> I("LD", 2, Size - 1) [] OTHER -> I("NOP", 0, 0)]}

(***************************************************************************)
(* "ld %2 0xff  // load secret to register 2 (should not be reached)"      *)
(* (main.cc:73), for "br %0 4 // taken" in front of it: the load of the    *)
(* repository's program does not commit.                                   *)
(***************************************************************************)
LoadNotReached == ~(op_comm = "LD" /\ ~f_flush)
==============================================================================
