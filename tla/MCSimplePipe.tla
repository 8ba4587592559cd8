----------------------------- MODULE MCSimplePipe -----------------------------
(* SimplePipe with words of a few bits.                                     *)
EXTENDS SimplePipe, Integers

CONSTANT Width

Words == 0 .. 2^Width - 1
Bits(v) == {k \in 0 .. Width - 1 : (v \div 2^k) % 2 = 1}

Table ==
  [ADD |-> [p \in Words \X Words |-> (p[1] + p[2]) % 2^Width],
   SUB |-> [p \in Words \X Words |-> (p[1] - p[2]) % 2^Width],
   AND |-> [p \in Words \X Words |->
              CHOOSE v \in Words : Bits(v) = Bits(p[1]) \cap Bits(p[2])]]
==============================================================================
