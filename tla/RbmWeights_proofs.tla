-------------------------- MODULE RbmWeights_proofs --------------------------
(***************************************************************************)
(* Proofs about RbmWeights, for every number of units and users and every  *)
(* width of the weights.                                                   *)
(***************************************************************************)
EXTENDS RbmWeights, TLAPS

(* Wrapping keeps a weight in its range ...                                *)
LEMMA WrapType == ASSUME Sizes, NEW x \in Int PROVE Wrap(x) \in EdgeMin..EdgeMax
BY DEF Sizes, Wrap, EdgeMin

(* ... and changes nothing that is in range already.                       *)
LEMMA WrapInRange == ASSUME Sizes, NEW x \in EdgeMin..EdgeMax PROVE Wrap(x) = x
<1>1. x - EdgeMin \in 0..2 * EdgeMax + 1
  BY DEF Sizes, EdgeMin
<1>2. \A a \in Nat, n \in Nat : a < n => a % n = a
  OBVIOUS
<1> QED BY <1>1, <1>2 DEF Sizes, Wrap, EdgeMin

(* Every variable keeps its type.                                          *)
THEOREM TypeCorrect == Sizes => (Spec => []TypeOK)
<1> SUFFICES ASSUME Sizes PROVE Spec => []TypeOK
  OBVIOUS
<1> USE DEF Sizes
<1>1. Init => TypeOK
  BY DEF Init, TypeOK, Ratings, HiddenUnits, VisibleUnits, EdgeMin, V, H
<1>2. TypeOK /\ [Next]_vars => TypeOK'
  <2> SUFFICES ASSUME TypeOK, [Next]_vars PROVE TypeOK'
    OBVIOUS
  <2>1. CASE ActivateHidden
    BY <2>1 DEF ActivateHidden, TypeOK
  <2>2. CASE UpdatePos
    BY <2>2 DEF UpdatePos, TypeOK, Association, Ratings, HiddenUnits
  <2>3. CASE ActivateVisible
    BY <2>3 DEF ActivateVisible, TypeOK
  <2>4. CASE UpdateNeg
    <3>1. neg' \in Association
      BY <2>4 DEF UpdateNeg, TypeOK, Association, Negative, FreshNeg, Ratings, HiddenUnits, VisibleUnits
    <3>2. edges' \in [V -> [H -> EdgeMin..EdgeMax]]
      <4> SUFFICES ASSUME NEW v \in V, NEW h \in H
                   PROVE  Wrap(edges[v][h] + Step(pos[v][h], neg'[v][h])) \in EdgeMin..EdgeMax
        BY <2>4 DEF UpdateNeg
      <4>1. edges[v][h] \in Int
        BY DEF TypeOK, EdgeMin
      <4>2. Step(pos[v][h], neg'[v][h]) \in Int
        BY DEF Step
      <4> QED BY <4>1, <4>2, WrapType
    <3>3. trained' \in Nat
      BY <2>4 DEF UpdateNeg, TypeOK
    <3> QED BY <2>4, <3>1, <3>2, <3>3 DEF UpdateNeg, TypeOK
  <2>5. CASE UNCHANGED vars
    BY <2>5 DEF vars, TypeOK
  <2> QED BY <2>1, <2>2, <2>3, <2>4, <2>5 DEF Next
<1> QED BY <1>1, <1>2, PTL DEF Spec

(* Once stored, the positive association of every rated movie is the       *)
(* current user's.                                                         *)
PosIsFresh ==
  phase \in {"visible", "negative"} =>
    \A v \in V : data[v] # 2 => pos[v] = [h \in H |-> data[v] # 0 /\ hidden_unit[h]]

LEMMA PosFresh == Spec => []PosIsFresh
<1>1. Init => PosIsFresh
  BY DEF Init, PosIsFresh
<1>2. PosIsFresh /\ [Next]_vars => PosIsFresh'
  <2> SUFFICES ASSUME PosIsFresh, [Next]_vars PROVE PosIsFresh'
    OBVIOUS
  <2>1. CASE ActivateHidden
    BY <2>1 DEF ActivateHidden, PosIsFresh
  <2>2. CASE UpdatePos
    BY <2>2 DEF UpdatePos, PosIsFresh
  <2>3. CASE ActivateVisible
    BY <2>3 DEF ActivateVisible, PosIsFresh
  <2>4. CASE UpdateNeg
    BY <2>4 DEF UpdateNeg, PosIsFresh
  <2>5. CASE UNCHANGED vars
    BY <2>5 DEF vars, PosIsFresh
  <2> QED BY <2>1, <2>2, <2>3, <2>4, <2>5 DEF Next
<1> QED BY <1>1, <1>2, PTL DEF Spec

(* Weights of rated movies move as the ILA says, whatever pos and neg held *)
(* at power-up.                                                            *)
THEOREM RatedMove == Sizes => (Spec => RatedMoveAsIla)
<1> SUFFICES ASSUME Sizes PROVE Spec => RatedMoveAsIla
  OBVIOUS
<1> USE DEF Sizes
<1>1. TypeOK /\ PosIsFresh /\ [Next]_vars =>
        [Updates => \A v \in V, h \in H : data[v] # 2 => edges'[v][h] = IlaEdge(v, h)]_vars
  <2> SUFFICES ASSUME TypeOK, PosIsFresh, Next, Updates,
                      NEW v \in V, NEW h \in H, data[v] # 2
               PROVE  edges'[v][h] = IlaEdge(v, h)
    OBVIOUS
  <2>1. UpdateNeg
    BY DEF Next, Updates, ActivateHidden, UpdatePos, ActivateVisible
  <2>2. pos[v][h] = (data[v] # 0 /\ hidden_unit[h])
    <3>1. pos[v] = [g \in H |-> data[v] # 0 /\ hidden_unit[g]]
      BY DEF PosIsFresh, Updates
    <3> QED BY <3>1
  <2>3. neg'[v][h] = (hidden_unit[h] /\ visible_unit[v])
    BY <2>1 DEF UpdateNeg, Negative, FreshNeg
  <2>4. edges'[v][h] = Wrap(edges[v][h] + Step(pos[v][h], neg'[v][h]))
    BY <2>1 DEF UpdateNeg
  <2>5. edges[v][h] \in Int
    BY DEF TypeOK, EdgeMin
  <2>6. hidden_unit[h] \in BOOLEAN /\ visible_unit[v] \in BOOLEAN
    BY DEF TypeOK, HiddenUnits, VisibleUnits
  <2> DEFINE p == data[v] # 0 /\ hidden_unit[h]
             n == hidden_unit[h] /\ visible_unit[v]
  <2>7. edges[v][h] + Step(p, n) =
          IF p = n THEN edges[v][h] ELSE IF p THEN edges[v][h] + 1 ELSE edges[v][h] - 1
    <3>1. CASE p /\ n
      BY <3>1, <2>5 DEF Step
    <3>2. CASE p /\ ~n
      BY <3>2, <2>5 DEF Step
    <3>3. CASE ~p /\ n
      BY <3>3, <2>5 DEF Step
    <3>4. CASE ~p /\ ~n
      BY <3>4, <2>5 DEF Step
    <3> QED BY <3>1, <3>2, <3>3, <3>4
  <2> QED BY <2>2, <2>3, <2>4, <2>7 DEF IlaEdge
<1> QED BY <1>1, TypeCorrect, PosFresh, PTL DEF Spec, RatedMoveAsIla

(* No weight has moved by more steps than users were trained on.           *)
THEOREM Drift == Sizes => (Spec => []DriftBounded)
<1> SUFFICES ASSUME Sizes PROVE Spec => []DriftBounded
  OBVIOUS
<1> USE DEF Sizes
<1>1. Init => DriftBounded
  BY DEF Init, DriftBounded
<1>2. TypeOK /\ DriftBounded /\ [Next]_vars => DriftBounded'
  <2> SUFFICES ASSUME TypeOK, DriftBounded, [Next]_vars PROVE DriftBounded'
    OBVIOUS
  <2>1. CASE UpdateNeg
    <3> SUFFICES ASSUME trained' <= EdgeMax, NEW v \in V, NEW h \in H
                 PROVE  edges'[v][h] \in -trained'..trained'
      BY DEF DriftBounded
    <3> DEFINE x == edges[v][h] + Step(pos[v][h], neg'[v][h])
    <3>1. trained \in Nat /\ trained' = trained + 1
      BY <2>1 DEF UpdateNeg, TypeOK
    <3>2. edges[v][h] \in -trained..trained
      BY <3>1 DEF DriftBounded
    <3>3. Step(pos[v][h], neg'[v][h]) \in -1..1
      BY DEF Step
    <3>4. x \in -trained'..trained'
      BY <3>1, <3>2, <3>3
    <3>5. x \in EdgeMin..EdgeMax
      BY <3>1, <3>4 DEF EdgeMin
    <3>6. edges'[v][h] = Wrap(x)
      BY <2>1 DEF UpdateNeg
    <3>7. Wrap(x) = x
      <4> HIDE DEF x
      <4> QED BY <3>5, WrapInRange
    <3> QED BY <3>4, <3>6, <3>7
  <2>2. CASE UNCHANGED <<edges, trained>>
    BY <2>2 DEF DriftBounded
  <2> QED BY <2>1, <2>2 DEF Next, vars, ActivateHidden, UpdatePos, ActivateVisible
<1> QED BY <1>1, <1>2, TypeCorrect, PTL DEF Spec
=============================================================================
