----------------------------- MODULE RbmWeights -----------------------------
(***************************************************************************)
(* How train_rbm of accls/RBM/SystemC/rbm.cpp changes the weights: for     *)
(* each user it activates the hidden units, stores the positive            *)
(* association, reconstructs the visible units, stores the negative        *)
(* association and moves each weight by a fixed step. The activations are  *)
(* random draws, so any outcome is possible. Weights are fixed-point       *)
(* numbers with a step of LEARN_RATE that wrap around.                     *)
(***************************************************************************)
EXTENDS Integers

CONSTANTS NumVisible, NumHidden, \* num_visible and num_hidden
          EdgeMax,               \* largest DATA_edge in steps: 127
          MaxTrained             \* bound of the users trained on

(* What the theorems suppose of the constants.                             *)
Sizes ==
  /\ NumVisible \in Nat /\ NumHidden \in Nat
  /\ EdgeMax \in Nat /\ MaxTrained \in Nat

VARIABLES phase,
          data,         \* ratings of the current user: 0, 1, or 2 for none
          hidden_unit, visible_unit, pos, neg, edges,
          trained       \* history: users trained on so far
vars == <<phase, data, hidden_unit, visible_unit, pos, neg, edges, trained>>

(* The last unit of each kind is the bias, which is always on.             *)
V == 0..NumVisible
H == 0..NumHidden
Ratings == {d \in [V -> 0..2] : d[NumVisible] = 1}
HiddenUnits  == {u \in [H -> BOOLEAN] : u[NumHidden]}
VisibleUnits == {u \in [V -> BOOLEAN] : u[NumVisible]}
Association  == [V -> [H -> BOOLEAN]]

EdgeMin == -EdgeMax - 1
Wrap(x) == ((x - EdgeMin) % (2 * EdgeMax + 2)) + EdgeMin

(* edges is reset, pos and neg are not: they hold anything at first.       *)
Init ==
  /\ phase = "hidden" /\ trained = 0
  /\ data = [v \in V |-> 1]
  /\ hidden_unit = [h \in H |-> TRUE] /\ visible_unit = [v \in V |-> TRUE]
  /\ pos \in Association /\ neg \in Association
  /\ edges = [v \in V |-> [h \in H |-> 0]]

(* load has put the next user's ratings in place.                          *)
ActivateHidden ==
  /\ phase = "hidden" /\ trained < MaxTrained
  /\ data' \in Ratings
  /\ hidden_unit' \in HiddenUnits
  /\ phase' = "positive"
  /\ UNCHANGED <<visible_unit, pos, neg, edges, trained>>

UpdatePos ==
  /\ phase = "positive"
  /\ pos' = [v \in V |-> IF data[v] = 2 THEN pos[v]
                         ELSE [h \in H |-> data[v] # 0 /\ hidden_unit[h]]]
  /\ phase' = "visible"
  /\ UNCHANGED <<data, hidden_unit, visible_unit, neg, edges, trained>>

ActivateVisible ==
  /\ phase = "visible"
  /\ visible_unit' \in VisibleUnits
  /\ phase' = "negative"
  /\ UNCHANGED <<data, hidden_unit, pos, neg, edges, trained>>

FreshNeg == [v \in V |-> [h \in H |-> hidden_unit[h] /\ visible_unit[v]]]
Negative == [v \in V |-> IF data[v] = 2 THEN neg[v] ELSE FreshNeg[v]]

Step(p, n) == IF p /\ ~n THEN 1 ELSE IF ~p /\ n THEN -1 ELSE 0

UpdateNeg ==
  /\ phase = "negative"
  /\ neg' = Negative
  /\ edges' = [v \in V |-> [h \in H |-> Wrap(edges[v][h] + Step(pos[v][h], neg'[v][h]))]]
  /\ trained' = trained + 1
  /\ phase' = "hidden"
  /\ UNCHANGED <<data, hidden_unit, visible_unit, pos>>

Next == ActivateHidden \/ UpdatePos \/ ActivateVisible \/ UpdateNeg
Spec == Init /\ [][Next]_vars

------------------------------------------------------------------------------
TypeOK ==
  /\ phase \in {"hidden", "positive", "visible", "negative"}
  /\ data \in Ratings
  /\ hidden_unit \in HiddenUnits /\ visible_unit \in VisibleUnits
  /\ pos \in Association /\ neg \in Association
  /\ edges \in [V -> [H -> EdgeMin..EdgeMax]]
  /\ trained \in Nat

Updates == phase = "negative" /\ phase' = "hidden"
(* The weight after an update according to the ILA (rbm_template.py:414    *)
(* and 426-431): positive and negative association of this user only.      *)
IlaEdge(v, h) ==
  LET p == data[v] # 0 /\ hidden_unit[h]
      n == hidden_unit[h] /\ visible_unit[v]
  IN  Wrap(IF p = n THEN edges[v][h] ELSE IF p THEN edges[v][h] + 1 ELSE edges[v][h] - 1)

(* Every weight of a movie the user rated moves as the ILA says.           *)
RatedMoveAsIla ==
  [][Updates => \A v \in V, h \in H : data[v] # 2 => edges'[v][h] = IlaEdge(v, h)]_vars

(* The ILA makes no exception for movies that were not rated.              *)
AllMoveAsIla == [][Updates => \A v \in V, h \in H : edges'[v][h] = IlaEdge(v, h)]_vars

(* No weight drifts further than one step per user trained on, so none     *)
(* wraps around before EdgeMax users.                                      *)
DriftBounded ==
  trained <= EdgeMax => \A v \in V, h \in H : edges[v][h] \in -trained..trained

=============================================================================
