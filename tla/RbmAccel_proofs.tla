-------------------------- MODULE RbmAccel_proofs --------------------------
(***************************************************************************)
(* Proofs about RbmAccel, for every bound on the configurations and on the *)
(* number of resets. A clock edge is one step of every thread, so each     *)
(* part of the invariant is shown from the steps of the threads whose      *)
(* state it relates.                                                       *)
(***************************************************************************)
EXTENDS RbmAccelInv, SequenceTheorems, TLAPS

(* The ping-pong buffer has two halves.                                    *)
LEMMA PingpongType ==
  ASSUME ConfigType, NEW l \in Nat, NEW u \in Nat PROVE Pingpong(l, u) \in 0..1
<1>1. conf.users \in Nat
  BY DEF ConfigType
<1>2. l * conf.users + u \in Nat
  BY <1>1
<1> QED BY <1>2 DEF Pingpong

(* Each thread keeps the types of its variables.                           *)
LEMMA ConfigKeepsType == ASSUME ConfigType, Config PROVE ConfigType'
<1>1. Configs \subseteq [users : Nat, loops : Nat, tests : Nat]
  BY BoundAssumption DEF Configs
<1> QED BY <1>1 DEF Config, Configure, ConfigType, configVars

LEMMA LoadKeepsType == ASSUME ConfigType, DmaType, LoadType, Load PROVE LoadType'
<1>1. CASE LoadStart
  BY <1>1 DEF LoadStart, Fetch, LoadType
<1>2. CASE LoadTrained
  BY <1>2 DEF LoadTrained, LoadType
<1>3. CASE LoadGranted
  BY <1>3 DEF LoadGranted, LoadType
<1>4. CASE LoadWord
  BY <1>4 DEF LoadWord, LoadType
<1>5. CASE LoadLastWord
  BY <1>5 DEF LoadLastWord, LoadType, DmaType
<1>6. CASE LoadTaken
  BY <1>6 DEF LoadTaken, LoadType
<1>7. CASE LoadNext
  <2>1. \A i, l \in Nat : Address(i, l) \in Nat
    BY DEF Address, ConfigType
  <2>2. index' \in Nat /\ loop_count' \in Nat
    BY <1>7 DEF LoadNext, LoadType
  <2>3. rd_index' \in Nat
    BY <1>7, <2>1, <2>2 DEF LoadNext, Fetch, LoadType
  <2> QED BY <1>7, <2>2, <2>3 DEF LoadNext, Fetch, LoadType
<1>8. CASE LoadWaits
  BY <1>8 DEF LoadWaits, loadVars, LoadType
<1> QED BY <1>1, <1>2, <1>3, <1>4, <1>5, <1>6, <1>7, <1>8 DEF Load

LEMMA TrainKeepsType == ASSUME ConfigType, LoadType, TrainType, Train PROVE TrainType'
<1> DEFINE d == data[Pingpong(current_loop, user)]
<1>0. d \in Nat \cup {Torn}
  BY PingpongType DEF LoadType, TrainType
<1> HIDE DEF d
<1>1. CASE TrainStart
  <2>1. <<>> \in Seq(Nat \cup {Torn})
    BY EmptySeq
  <2> QED BY <1>1, <2>1 DEF TrainStart, TrainUser, TrainType
<1>2. CASE TrainAccept
  BY <1>2 DEF TrainAccept, TrainType
<1>3. CASE TrainReleased
  BY <1>3 DEF TrainReleased, TrainType
<1>4. CASE TrainPositive
  BY <1>4, <1>0 DEF TrainPositive, TrainType, d
<1>5. CASE TrainNegative
  <2>1. edges' \in Seq(Nat \cup {Torn})
    BY <1>5, <1>0, AppendProperties DEF TrainNegative, TrainType, d
  <2>2. user + 1 \in Nat /\ current_loop + 1 \in Nat /\ 0 \in Nat
    BY DEF TrainType
  <2> QED BY <1>5, <2>1, <2>2 DEF TrainNegative, TrainUser, TrainType
<1>6. CASE TrainWaits
  BY <1>6 DEF TrainWaits, trainVars, TrainType
<1> QED BY <1>1, <1>2, <1>3, <1>4, <1>5, <1>6 DEF Train

LEMMA PredictKeepsType ==
  ASSUME ConfigType, LoadType, TrainType, PredictType, Predict PROVE PredictType'
<1>0. TornResult \in Result
  BY DEF TornResult, Result, Torn
<1>1. CASE PredictStart
  BY <1>1 DEF PredictStart, PredictUser, PredictType
<1>2. CASE PredictAccept
  BY <1>2 DEF PredictAccept, PredictType
<1>3. CASE PredictReleased
  BY <1>3 DEF PredictReleased, PredictType
<1>4. CASE PredictOutputDone
  BY <1>4 DEF PredictOutputDone, PredictType
<1>5. CASE PredictHidden
  <2>1. data[Pingpong(conf.loops, puser)] \in Nat \cup {Torn}
    BY PingpongType DEF LoadType, PredictType, ConfigType
  <2>2. hidden' \in Result
    BY <1>5, <2>1 DEF PredictHidden, Result, TrainType
  <2> QED BY <1>5, <2>2 DEF PredictHidden, PredictType
<1>6. CASE PredictVisible
  BY <1>6, <1>0 DEF PredictVisible, PredictType
<1>7. CASE PredictRate
  BY <1>7, <1>0 DEF PredictRate, PredictType
<1>8. CASE PredictRated
  BY <1>8 DEF PredictRated, PredictType
<1>9. CASE PredictTaken
  BY <1>9 DEF PredictTaken, PredictType
<1>10. CASE PredictNext
  BY <1>10 DEF PredictNext, PredictUser, PredictType
<1>11. CASE PredictWaits
  BY <1>11 DEF PredictWaits, predictVars, PredictType
<1> QED BY <1>1, <1>2, <1>3, <1>4, <1>5, <1>6, <1>7, <1>8, <1>9, <1>10, <1>11 DEF Predict

LEMMA StoreKeepsType == ASSUME PredictType, DmaType, StoreType, Store PROVE StoreType'
<1>1. CASE StoreStart
  BY <1>1 DEF StoreStart, StoreUser, StoreType
<1>2. CASE StoreAccept
  BY <1>2 DEF StoreAccept, StoreType
<1>3. CASE StoreReleased
  <2>1. sindex' \in Nat
    BY <1>3 DEF StoreReleased, StoreType
  <2> QED BY <1>3, <2>1 DEF StoreReleased, StoreType
<1>4. CASE StoreGranted
  BY <1>4 DEF StoreGranted, StoreType, PredictType
<1>5. CASE StoreLastPut
  <2> DEFINE what == IF predict_result = reading THEN reading ELSE TornResult
  <2>1. [at |-> wr_to, what |-> what] \in [at : Nat, what : Result]
    BY DEF TornResult, Result, Torn, StoreType, DmaType
  <2>2. written' \in Seq([at : Nat, what : Result])
    BY <1>5, <2>1 DEF StoreLastPut, StoreType
  <2> QED BY <1>5, <2>2 DEF StoreLastPut, StoreUser, StoreType
<1>6. CASE StoreWaits
  BY <1>6 DEF StoreWaits, storeVars, StoreType
<1> QED BY <1>1, <1>2, <1>3, <1>4, <1>5, <1>6 DEF Store

LEMMA DmaKeepsType == ASSUME LoadType, StoreType, DmaType, Dma PROVE DmaType'
BY DEF Dma, Grants, LoadType, StoreType, DmaType

(* Every variable keeps its type.                                          *)
LEMMA TypeStep == ASSUME TypeOK, [Next]_vars PROVE TypeOK'
<1>1. CASE Clock
  BY <1>1, ConfigKeepsType, LoadKeepsType, TrainKeepsType, PredictKeepsType, StoreKeepsType,
     DmaKeepsType DEF Clock, TypeOK
<1>2. CASE Reset
  <2>1. ConfigType' /\ LoadType' /\ TrainType'
    BY <1>2 DEF Reset, TypeOK, ConfigType, LoadType, TrainType
  <2>2. PredictType'
    BY <1>2 DEF Reset, TypeOK, PredictType
  <2>4. StoreType'
    <3>1. <<>> \in Seq([at : Nat, what : Result])
      BY EmptySeq
    <3> QED BY <1>2, <3>1 DEF Reset, TypeOK, StoreType
  <2>3. DmaType'
    BY <1>2 DEF Reset, TypeOK, DmaType
  <2>5. resets' \in Nat
    BY <1>2 DEF Reset, TypeOK
  <2> QED BY <2>1, <2>2, <2>3, <2>4, <2>5 DEF TypeOK
<1>3. CASE UNCHANGED vars
  BY <1>3 DEF vars, configVars, loadVars, trainVars, predictVars, storeVars, dmaVars,
     TypeOK, ConfigType, LoadType, TrainType, PredictType, StoreType, DmaType
<1> QED BY <1>1, <1>2, <1>3 DEF Next

LEMMA TypeInit == Init => TypeOK
<1> SUFFICES ASSUME Init PROVE TypeOK
  OBVIOUS
<1>1. TornResult \in Result
  BY DEF TornResult, Result, Torn
<1>2. ConfigType /\ LoadType /\ TrainType /\ DmaType
  BY DEF Init, ConfigType, LoadType, TrainType, DmaType
<1>3. PredictType /\ StoreType
  BY <1>1 DEF Init, PredictType, StoreType
<1> QED BY <1>2, <1>3 DEF TypeOK, Init

(* Every signal, counter and buffer of the five threads keeps its type,    *)
(* through every clock edge and reset.                                     *)
THEOREM TypeCorrect == Spec => []TypeOK
BY TypeInit, TypeStep, PTL DEF Spec

------------------------------------------------------------------------------
(* Each thread leaves its reset section at the clock edge that sees        *)
(* init_done, and none returns to it.                                      *)
LEMMA LoadLeaves ==
  ASSUME LoadType, Load
  PROVE  /\ (loadPc' = "init" <=> loadPc = "init" /\ ~init_done)
         /\ loadPc' = "init" => index' = index /\ loop_count' = loop_count
BY DEF Load, LoadStart, LoadTrained, LoadGranted, LoadWord, LoadLastWord, LoadTaken, LoadNext,
       LoadWaits, Fetch, LoadType, loadVars

LEMMA TrainLeaves ==
  ASSUME TrainType, Train
  PROVE  /\ (trainPc' = "init" <=> trainPc = "init" /\ ~init_done)
         /\ trainPc' = "init" => user' = user /\ current_loop' = current_loop
BY DEF Train, TrainStart, TrainAccept, TrainReleased, TrainPositive, TrainNegative, TrainWaits,
       TrainUser, TrainType, trainVars

LEMMA PredictLeaves ==
  ASSUME PredictType, Predict
  PROVE  /\ (predictPc' = "init" <=> predictPc = "init" /\ ~init_done)
         /\ predictPc' = "init" => puser' = puser
BY DEF Predict, PredictStart, PredictAccept, PredictReleased, PredictOutputDone, PredictHidden,
       PredictVisible, PredictRate, PredictRated, PredictTaken, PredictNext, PredictWaits,
       PredictUser, PredictType, predictVars

LEMMA StoreLeaves ==
  ASSUME StoreType, Store
  PROVE  /\ (storePc' = "init" <=> storePc = "init" /\ ~init_done)
         /\ storePc' = "init" => sindex' = sindex /\ written' = written
BY DEF Store, StoreStart, StoreAccept, StoreReleased, StoreGranted, StoreLastPut, StoreWaits,
       StoreUser, StoreType, storeVars

LEMMA ConfigOnce ==
  ASSUME Config
  PROVE  /\ init_done => init_done' /\ conf' = conf
         /\ init_done' => (init_done /\ conf' = conf) \/ conf' \in Configs
BY DEF Config, Configure, configVars

(* One clock edge keeps each part of the invariant that relates signals    *)
(* and steps.                                                              *)
LEMMA StartStep == ASSUME TypeOK, StartInv, Clock PROVE StartInv'
BY LoadLeaves, TrainLeaves, PredictLeaves, StoreLeaves, ConfigOnce
   DEF StartInv, Running, Clock, TypeOK

(* Once the threads run the configuration does not change.                 *)
LEMMA ConfHeld ==
  ASSUME TypeOK, StartInv, Clock, Running'
  PROVE  conf' = conf /\ init_done /\ conf \in Configs
BY LoadLeaves, ConfigOnce DEF StartInv, Running, Clock, TypeOK

------------------------------------------------------------------------------
(* A handshake signal is up exactly at the step that keeps it up.          *)
LEMMA LoadSignalStep ==
  ASSUME TypeOK, StartInv, LoadSignals, Clock PROVE LoadSignals'
<1> USE DEF TypeOK, LoadType, LoadSignals
<1>1. Load /\ (loadPc' # "init" => conf' = conf)
  BY ConfHeld DEF Clock, Running
<1>2. CASE LoadStart
  BY <1>1, <1>2 DEF LoadStart, Fetch
<1>3. CASE LoadTrained
  BY <1>1, <1>3 DEF LoadTrained
<1>4. CASE LoadGranted
  BY <1>1, <1>4 DEF LoadGranted
<1>5. CASE LoadWord
  BY <1>1, <1>5 DEF LoadWord
<1>6. CASE LoadLastWord
  BY <1>1, <1>6 DEF LoadLastWord
<1>7. CASE LoadTaken
  BY <1>1, <1>7 DEF LoadTaken
<1>8. CASE LoadNext
  BY <1>1, <1>8 DEF LoadNext, Fetch
<1>9. CASE LoadWaits
  BY <1>1, <1>9 DEF LoadWaits, loadVars
<1> QED BY <1>1, <1>2, <1>3, <1>4, <1>5, <1>6, <1>7, <1>8, <1>9 DEF Load

LEMMA TrainSignalStep ==
  ASSUME TypeOK, TrainSignals, Clock PROVE TrainSignals'
BY DEF Clock, TypeOK, TrainType, TrainSignals, Train, TrainStart, TrainAccept, TrainReleased,
       TrainPositive, TrainNegative, TrainWaits, TrainUser, trainVars

LEMMA PredictSignalStep ==
  ASSUME TypeOK, PredictSignals, Clock PROVE PredictSignals'
BY DEF Clock, TypeOK, PredictType, PredictSignals, Predict, PredictStart, PredictAccept,
       PredictReleased, PredictOutputDone, PredictHidden, PredictVisible, PredictRate,
       PredictRated, PredictTaken, PredictNext, PredictWaits, PredictUser, predictVars

LEMMA StoreSignalStep ==
  ASSUME TypeOK, StoreSignals, Clock PROVE StoreSignals'
BY DEF Clock, TypeOK, StoreType, StoreSignals, Store, StoreStart, StoreAccept, StoreReleased,
       StoreGranted, StoreLastPut, StoreWaits, StoreUser, storeVars

LEMMA GrantStep ==
  ASSUME TypeOK, LoadSignals, StoreSignals, GrantInv, Clock PROVE GrantInv'
<1>1. rd_grant' => rd_request
  BY DEF Clock, Dma, Grants, TypeOK, DmaType
<1>2. loadPc = "grant" => loadPc' \in {"grant", "fill"}
  BY DEF Clock, Load, LoadStart, LoadTrained, LoadGranted, LoadWord, LoadLastWord, LoadTaken,
         LoadNext, LoadWaits, loadVars
<1>3. wr_grant' => wr_request
  BY DEF Clock, Dma, Grants, TypeOK, DmaType
<1>4. storePc = "grant" => storePc' \in {"grant", "put"}
  BY DEF Clock, Store, StoreStart, StoreAccept, StoreReleased, StoreGranted, StoreLastPut,
         StoreWaits, storeVars
<1> QED BY <1>1, <1>2, <1>3, <1>4 DEF LoadSignals, StoreSignals, GrantInv

LEMMA SignalStep == ASSUME TypeOK, StartInv, SignalInv, Clock PROVE SignalInv'
BY LoadSignalStep, TrainSignalStep, PredictSignalStep, StoreSignalStep, GrantStep DEF SignalInv

------------------------------------------------------------------------------
(* Pairs of threads.                                                       *)
LEMMA ConfigBounds ==
  ASSUME conf \in Configs
  PROVE  conf.users \in Nat /\ conf.users > 0 /\ conf.loops \in Nat /\ conf.tests \in Nat
BY BoundAssumption DEF Configs

LEMMA LoadTrainStep ==
  ASSUME TypeOK, StartInv, SignalInv, LoadTrainInv, LoadPredictInv, Clock PROVE LoadTrainInv'
<1> SUFFICES ASSUME Running' PROVE LoadTrainInv'
  BY DEF LoadTrainInv
<1> USE DEF TypeOK, LoadType, TrainType, SignalInv, LoadSignals, TrainSignals, SameUser, NextUser,
            LoadTrainInv
<1>1. conf' = conf /\ conf.users \in Nat /\ conf.users > 0 /\ conf.loops \in Nat /\ init_done
  BY ConfHeld, ConfigBounds
<1>2. Load /\ Train
  BY DEF Clock
<1>3. CASE ~Running
  <2>1. LoadStart /\ TrainStart
    BY <1>1, <1>2, <1>3 DEF StartInv, Running, Load, LoadTrained, LoadGranted, LoadWord, LoadLastWord,
       LoadTaken, LoadNext, LoadWaits, Train, TrainAccept, TrainReleased, TrainPositive,
       TrainNegative, TrainWaits
  <2> QED BY <1>1, <1>3, <2>1 DEF StartInv, LoadStart, TrainStart, TrainUser, Fetch
<1>4. CASE Running
  <2> USE <1>1, <1>4 DEF Train, TrainStart, TrainAccept, TrainReleased, TrainPositive, TrainNegative,
          TrainWaits, TrainUser, trainVars, Running
  <2>1. CASE LoadStart
    BY <2>1 DEF LoadStart
  <2>2. CASE LoadTrained
    BY <1>2, <2>2 DEF LoadTrained
  <2>3. CASE LoadGranted
    BY <1>2, <2>3 DEF LoadGranted
  <2>4. CASE LoadWord
    BY <1>2, <2>4 DEF LoadWord
  <2>5. CASE LoadLastWord
    BY <1>2, <2>5 DEF LoadLastWord
  <2>6. CASE LoadTaken
    BY <1>2, <2>6 DEF LoadTaken, UserStarted
  <2>7. CASE LoadNext
    BY <1>2, <2>7 DEF LoadNext, UserStarted, Fetch
  <2>8. CASE LoadWaits
    BY <1>2, <2>8 DEF LoadWaits, UserStarted, loadVars
  <2> QED BY <1>2, <2>1, <2>2, <2>3, <2>4, <2>5, <2>6, <2>7, <2>8 DEF Load
<1> QED BY <1>3, <1>4

LEMMA LoadPredictStep ==
  ASSUME TypeOK, StartInv, SignalInv, LoadPredictInv, Clock PROVE LoadPredictInv'
<1> SUFFICES ASSUME Running' PROVE LoadPredictInv'
  BY DEF LoadPredictInv
<1> USE DEF TypeOK, LoadType, PredictType, SignalInv, LoadSignals, PredictSignals, LoadPredictInv
<1>1. conf' = conf /\ conf.users \in Nat /\ conf.loops \in Nat /\ conf.tests \in Nat /\ init_done
  BY ConfHeld, ConfigBounds
<1>2. Load /\ Predict
  BY DEF Clock
<1>3. CASE ~Running
  <2>1. LoadStart /\ PredictStart
    BY <1>1, <1>2, <1>3 DEF StartInv, Running, Load, LoadTrained, LoadGranted, LoadWord, LoadLastWord,
       LoadTaken, LoadNext, LoadWaits, Predict, PredictAccept, PredictReleased, PredictOutputDone,
       PredictHidden, PredictVisible, PredictRate, PredictRated, PredictTaken, PredictNext, PredictWaits
  <2> QED BY <1>1, <1>3, <2>1 DEF StartInv, LoadStart, PredictStart, PredictUser, Fetch
<1>4. CASE Running
  <2> USE <1>1, <1>4 DEF Running
  <2>0. \/ puser' = puser /\ predictPc' = predictPc
        \/ puser' = puser /\ predictPc = "input" /\ predict_input_done /\ predictPc' = "release"
        \/ puser' = puser /\ predictPc = "release" /\ ~predict_input_done /\ predictPc' = "output"
        \/ /\ puser' = puser /\ predictPc \in {"output", "hidden", "visible", "rate", "offer"}
           /\ predictPc' \in {"hidden", "visible", "rate", "offer", "taken"}
        \/ /\ puser' = puser + 1 /\ predictPc = "taken"
           /\ predictPc' = IF puser' = conf.tests THEN "idle" ELSE "input"
    <3>1. predictPc # "init"
      BY DEF StartInv
    <3> QED BY <1>2, <3>1 DEF Predict, PredictStart, PredictAccept, PredictReleased,
          PredictOutputDone, PredictHidden, PredictVisible, PredictRate, PredictRated, PredictTaken,
          PredictNext, PredictWaits, PredictUser, predictVars
  <2>1. CASE LoadStart
    BY <2>1 DEF LoadStart
  <2>2. CASE LoadTrained
    BY <2>0, <2>2 DEF LoadTrained
  <2>3. CASE LoadGranted
    BY <2>0, <2>3 DEF LoadGranted
  <2>4. CASE LoadWord
    BY <2>0, <2>4 DEF LoadWord
  <2>5. CASE LoadLastWord
    BY <2>0, <2>5 DEF LoadLastWord
  <2>6. CASE LoadTaken
    BY <2>0, <2>6 DEF LoadTaken, UserStarted
  <2>7. CASE LoadNext
    BY <2>0, <2>7 DEF LoadNext, UserStarted, Fetch
  <2>8. CASE LoadWaits
    BY <2>0, <2>8 DEF LoadWaits, UserStarted, loadVars
  <2> QED BY <1>2, <2>1, <2>2, <2>3, <2>4, <2>5, <2>6, <2>7, <2>8 DEF Load
<1> QED BY <1>3, <1>4

LEMMA PredictStoreStep ==
  ASSUME TypeOK, StartInv, SignalInv, LoadPredictInv, PredictStoreInv, Clock PROVE PredictStoreInv'
<1> SUFFICES ASSUME Running' PROVE PredictStoreInv'
  BY DEF PredictStoreInv
<1> USE DEF TypeOK, PredictType, StoreType, SignalInv, PredictSignals, StoreSignals, GrantInv
<1>1. conf' = conf /\ conf.tests \in Nat /\ init_done
  BY ConfHeld, ConfigBounds
<1>2. Predict /\ Store
  BY DEF Clock
<1>3. CASE ~Running
  <2>1. PredictStart /\ StoreStart
    BY <1>1, <1>2, <1>3 DEF StartInv, Running, Predict, PredictAccept, PredictReleased,
       PredictOutputDone, PredictHidden, PredictVisible, PredictRate, PredictRated, PredictTaken,
       PredictNext, PredictWaits, Store, StoreAccept, StoreReleased, StoreGranted, StoreLastPut,
       StoreWaits
  <2> QED BY <1>1, <1>3, <2>1 DEF StartInv, PredictStart, PredictUser, StoreStart, StoreUser, PredictStoreInv
<1>4. CASE Running
  <2> USE <1>1, <1>4 DEF Running
  <2>0. \/ sindex' = sindex /\ storePc' = storePc
        \/ sindex' = sindex /\ storePc = "result" /\ predict_done /\ storePc' = "release"
        \/ sindex' = sindex + 1 /\ storePc = "release" /\ ~predict_done /\ storePc' = "grant"
        \/ sindex' = sindex /\ storePc = "grant" /\ wr_grant /\ storePc' = "put"
        \/ /\ sindex' = sindex /\ storePc = "put"
           /\ storePc' = IF sindex = conf.tests THEN "done" ELSE "result"
    <3>1. storePc # "init"
      BY DEF StartInv
    <3> QED BY <1>2, <3>1 DEF Store, StoreStart, StoreAccept, StoreReleased, StoreGranted,
          StoreLastPut, StoreWaits, StoreUser, storeVars
  <2>9. wr_grant' => storePc = "grant"
    BY DEF Clock, Dma, Grants, DmaType
  <2>10. puser <= conf.tests /\ (predictPc = "idle" <=> puser = conf.tests)
    BY DEF LoadPredictInv
  <2> USE <2>0, <2>9, <2>10 DEF PredictStoreInv
  <2>1. CASE PredictStart
    BY <2>1 DEF PredictStart, StartInv
  <2>2. CASE PredictAccept
    BY <2>2 DEF PredictAccept
  <2>3. CASE PredictReleased
    BY <2>3 DEF PredictReleased
  <2>4. CASE PredictOutputDone
    BY <2>4 DEF PredictOutputDone
  <2>5. CASE PredictHidden \/ PredictVisible \/ PredictRate \/ PredictRated
    BY <2>5 DEF PredictHidden, PredictVisible, PredictRate, PredictRated
  <2>6. CASE PredictTaken
    BY <2>6 DEF PredictTaken
  <2>7. CASE PredictNext
    BY <2>7 DEF PredictNext, PredictUser
  <2>8. CASE PredictWaits
    BY <2>8 DEF PredictWaits, predictVars
  <2> QED BY <1>2, <2>1, <2>2, <2>3, <2>4, <2>5, <2>6, <2>7, <2>8 DEF Predict
<1> QED BY <1>3, <1>4

------------------------------------------------------------------------------
(* Buffers.                                                                *)

LEMMA NextMultiple ==
  ASSUME NEW a \in Nat, NEW b \in Nat PROVE (a + 1) * b = a * b + b
OBVIOUS

(* Successive users alternate between the halves of the buffer.            *)
LEMMA PingpongAlternates ==
  ASSUME ConfigType, NEW l \in Nat, NEW u \in Nat
  PROVE  /\ Pingpong(l, u + 1) # Pingpong(l, u)
         /\ u + 1 = conf.users => Pingpong(l + 1, 0) # Pingpong(l, u)
<1>1. conf.users \in Nat
  BY DEF ConfigType
<1> DEFINE n == l * conf.users + u
<1>2. n \in Nat
  BY <1>1
<1>3. (n + 1) % 2 # n % 2
  <2> HIDE DEF n
  <2> QED BY <1>2
<1>4. l * conf.users + (u + 1) = n + 1
  BY <1>1
<1>5. ASSUME u + 1 = conf.users PROVE (l + 1) * conf.users + 0 = n + 1
  <2>1. (l + 1) * conf.users = l * conf.users + conf.users
    BY <1>1, NextMultiple
  <2> DEFINE m == l * conf.users
  <2>2. m \in Nat /\ (l + 1) * conf.users = m + conf.users /\ n = m + u
    BY <1>1, <2>1
  <2> HIDE DEF m, n
  <2> QED BY <1>1, <1>2, <1>5, <2>2
<1> QED BY <1>3, <1>4, <1>5 DEF Pingpong

(* load writes only the half of the record it is fetching.                 *)
LEMMA OtherHalfKept ==
  ASSUME LoadType, Load, NEW q \in 0..1,
         loadPc = "fill" => Pingpong(loop_count, index) # q
  PROVE  data'[q] = data[q]
BY DEF Load, LoadStart, LoadTrained, LoadGranted, LoadWord, LoadLastWord, LoadTaken, LoadNext,
       LoadWaits, LoadType, loadVars

(* predict_rbm takes no record before training is done.                    *)
LEMMA TrainedFirst ==
  ASSUME TypeOK, LoadTrainInv, LoadPredictInv, Running,
         predictPc \notin {"input", "idle"} \/ puser > 0
  PROVE  loop_count = conf.loops /\ trainPc = "done"
BY DEF TypeOK, LoadType, TrainType, PredictType, ConfigType, LoadTrainInv, LoadPredictInv

LEMMA FetchStep ==
  ASSUME TypeOK, StartInv, SignalInv, DataInv, Clock, Running'
  PROVE  /\ loadPc' \in {"await_train", "grant", "fill"} => rd_index' = Record(index, loop_count)'
         /\ rd_grant' \/ loadPc' = "fill" => rd_from' = Record(index, loop_count)'
         /\ loadPc' \in {"offer", "release"} =>
              data'[Pingpong(loop_count, index)'] = Record(index, loop_count)'
<1> USE DEF TypeOK, LoadType, DmaType, SignalInv, LoadSignals, GrantInv
<1>1. conf' = conf /\ conf.users \in Nat /\ conf.loops \in Nat /\ init_done
  BY ConfHeld, ConfigBounds
<1>2. Load /\ Dma
  BY DEF Clock
<1>3. Pingpong(loop_count, index) \in 0..1
  BY PingpongType
<1>4. /\ rd_grant' => rd_request
      /\ rd_grant' /\ ~rd_grant => rd_from' = rd_index
      /\ ~(rd_grant' /\ ~rd_grant) => rd_from' = rd_from
  BY <1>2 DEF Dma, Grants
<1>5. CASE ~Running
  <2>1. LoadStart
    BY <1>1, <1>2, <1>5 DEF StartInv, Running, Load, LoadTrained, LoadGranted, LoadWord, LoadLastWord,
       LoadTaken, LoadNext, LoadWaits
  <2> QED BY <1>1, <1>4, <1>5, <2>1 DEF StartInv, Running, LoadStart, Fetch, Record, TestRecord, Address
<1>6. CASE Running
  <2> USE <1>1, <1>4, <1>6 DEF Running, DataInv
  <2>1. CASE LoadStart
    BY <2>1 DEF LoadStart
  <2>2. CASE LoadTrained
    BY <2>2 DEF LoadTrained, Record, TestRecord
  <2>3. CASE LoadGranted
    BY <2>3 DEF LoadGranted, Record, TestRecord
  <2>4. CASE LoadWord
    BY <2>4 DEF LoadWord, Record, TestRecord
  <2>5. CASE LoadLastWord
    <3>1. Pingpong(loop_count, index)' = Pingpong(loop_count, index)
      BY <2>5 DEF LoadLastWord, Pingpong
    <3> QED BY <1>3, <2>5, <3>1 DEF LoadLastWord, Record, TestRecord
  <2>6. CASE LoadTaken
    <3>1. Pingpong(loop_count, index)' = Pingpong(loop_count, index)
      BY <2>6 DEF LoadTaken, Pingpong
    <3> QED BY <2>6, <3>1 DEF LoadTaken, Record, TestRecord
  <2>7. CASE LoadNext
    BY <2>7 DEF LoadNext, Fetch, Record, TestRecord, Address
  <2>8. CASE LoadWaits
    <3>1. Pingpong(loop_count, index)' = Pingpong(loop_count, index)
      BY <2>8 DEF LoadWaits, loadVars, Pingpong
    <3> QED BY <2>8, <3>1 DEF LoadWaits, loadVars, Record, TestRecord
  <2> QED BY <1>2, <2>1, <2>2, <2>3, <2>4, <2>5, <2>6, <2>7, <2>8 DEF Load
<1> QED BY <1>5, <1>6
LEMMA TrainDataStep ==
  ASSUME TypeOK, StartInv, SignalInv, LoadTrainInv, DataInv, Clock, Running'
  PROVE  /\ trainPc' \in {"positive", "negative"} => data'[Pingpong(current_loop, user)'] = user'
         /\ trainPc' = "negative" => seen' = user'
<1> SUFFICES ASSUME trainPc' \in {"positive", "negative"}
             PROVE  data'[Pingpong(current_loop, user)'] = user' /\ (trainPc' = "negative" => seen' = user')
  OBVIOUS
<1> DEFINE q == Pingpong(current_loop, user)
<1>1. conf' = conf /\ Load /\ Train
  BY ConfHeld DEF Clock
<1>2. user' = user /\ current_loop' = current_loop /\ trainPc \in {"release", "positive", "negative"}
      /\ (trainPc = "release" => ~train_input_done /\ trainPc' = "positive")
      /\ (trainPc = "positive" /\ trainPc' = "negative" => seen' = data[q])
      /\ (trainPc = "negative" => seen' = seen)
  BY <1>1 DEF Train, TrainStart, TrainAccept, TrainReleased, TrainPositive, TrainNegative, TrainWaits,
     TrainUser, trainVars, TypeOK, TrainType
<1>3. Running
  BY <1>2 DEF StartInv, Running
<1>4. q \in 0..1 /\ Pingpong(current_loop, user)' = q
  <2>1. q \in 0..1
    BY PingpongType DEF TypeOK, TrainType
  <2> QED BY <1>1, <1>2, <2>1 DEF Pingpong
<1>5. conf.users \in Nat /\ conf.loops \in Nat /\ loop_count \in Nat /\ index \in Nat
      /\ current_loop \in Nat /\ user \in Nat
  BY DEF TypeOK, ConfigType, LoadType, TrainType
<1>6. loadPc = "fill" => Pingpong(loop_count, index) # q
  <2> SUFFICES ASSUME loadPc = "fill" PROVE Pingpong(loop_count, index) # q
    OBVIOUS
  <2>1. NextUser
    BY <1>2, <1>3, <1>5 DEF LoadTrainInv
  <2>2. user + 1 >= conf.users => user + 1 = conf.users
    BY <1>3, <1>5 DEF LoadTrainInv
  <2> QED BY <1>5, <2>1, <2>2, PingpongAlternates DEF NextUser, TypeOK
<1>7. data'[q] = data[q]
  BY <1>1, <1>4, <1>6, OtherHalfKept DEF TypeOK
<1>8. data[q] = user
  <2>1. CASE trainPc = "release"
    <3>1. loop_count < conf.loops /\ SameUser /\ loadPc \in {"offer", "release"}
      BY <1>3, <1>5, <2>1 DEF LoadTrainInv
    <3> QED BY <1>3, <1>5, <3>1 DEF SameUser, DataInv, Record
  <2> QED BY <1>2, <1>3, <2>1 DEF DataInv
<1>9. trainPc' = "negative" => seen' = user
  BY <1>2, <1>3, <1>8 DEF DataInv
<1> QED BY <1>2, <1>4, <1>7, <1>8, <1>9

LEMMA PredictDataStep ==
  ASSUME TypeOK, StartInv, SignalInv, LoadTrainInv, LoadPredictInv, DataInv, Clock, Running'
  PROVE  predictPc' \in {"output", "hidden"} =>
           data'[Pingpong(conf.loops, puser)'] = TestRecord(puser)'
<1> SUFFICES ASSUME predictPc' \in {"output", "hidden"}
             PROVE  data'[Pingpong(conf.loops, puser)'] = TestRecord(puser)'
  OBVIOUS
<1> DEFINE q == Pingpong(conf.loops, puser)
<1>1. conf' = conf /\ Load /\ Predict
  BY ConfHeld DEF Clock
<1>2. puser' = puser /\ predictPc \in {"release", "output", "hidden"}
      /\ (predictPc = "release" => ~predict_input_done)
  BY <1>1 DEF Predict, PredictStart, PredictAccept, PredictReleased, PredictOutputDone, PredictHidden,
     PredictVisible, PredictRate, PredictRated, PredictTaken, PredictNext, PredictWaits, PredictUser,
     predictVars, TypeOK, PredictType
<1>3. Running
  BY <1>2 DEF StartInv, Running
<1>5. conf.users \in Nat /\ conf.loops \in Nat /\ conf.tests \in Nat /\ loop_count \in Nat
      /\ index \in Nat /\ puser \in Nat
  BY DEF TypeOK, ConfigType, LoadType, PredictType
<1>4. q \in 0..1 /\ Pingpong(conf.loops, puser)' = q
  <2>1. q \in 0..1
    BY <1>5, PingpongType DEF TypeOK
  <2> QED BY <1>1, <1>2, <2>1 DEF Pingpong
<1>6. loop_count = conf.loops
  BY <1>2, <1>3, TrainedFirst
<1>7. \/ index = puser /\ loadPc \in {"offer", "release"}
      \/ index = puser + 1 /\ predictPc # "release"
  BY <1>2, <1>3, <1>6 DEF LoadPredictInv
<1>8. loadPc = "fill" => Pingpong(loop_count, index) # q
  BY <1>5, <1>6, <1>7, PingpongAlternates DEF TypeOK
<1>9. data'[q] = data[q]
  BY <1>1, <1>4, <1>8, OtherHalfKept DEF TypeOK
<1>10. data[q] = TestRecord(puser)
  <2>1. CASE predictPc = "release"
    BY <1>3, <1>5, <1>6, <1>7, <2>1 DEF DataInv, Record
  <2> QED BY <1>2, <1>3, <2>1 DEF DataInv
<1> QED BY <1>1, <1>2, <1>4, <1>9, <1>10 DEF TestRecord

LEMMA DataStep ==
  ASSUME TypeOK, StartInv, SignalInv, LoadTrainInv, LoadPredictInv, DataInv, Clock
  PROVE  DataInv'
<1> SUFFICES ASSUME Running' PROVE DataInv'
  BY DEF DataInv
<1> QED BY FetchStep, TrainDataStep, PredictDataStep DEF DataInv

------------------------------------------------------------------------------
(* The weights.                                                            *)
LEMMA UserOf ==
  ASSUME NEW l \in Nat, NEW n \in Nat, NEW u \in Nat, u < n
  PROVE  (l * n + u) % n = u
<1> DEFINE s == l * n + u
           d == s \div n
           m == s % n
<1>1. s \in Nat
  OBVIOUS
<1> HIDE DEF s
<1>2. d \in Int /\ m \in 0..n-1 /\ s = n * d + m
  BY <1>1
<1> HIDE DEF d, m
<1>3. \A a, b \in Int : a <= b => n * a <= n * b
  OBVIOUS
<1>4. l * n = n * l /\ n * (l + 1) = n * l + n /\ n * (l - 1) = n * l - n
  OBVIOUS
<1>5. n * l \in Nat
  OBVIOUS
<1>6. s = n * l + u
  BY <1>4 DEF s
<1>7. ~ (d >= l + 1)
  <2> SUFFICES ASSUME d >= l + 1 PROVE FALSE
    OBVIOUS
  <2>1. n * (l + 1) <= n * d
    BY <1>2, <1>3
  <2>2. n * d \in Int
    BY <1>2
  <2> QED BY <1>2, <1>4, <1>5, <1>6, <2>1, <2>2
<1>8. ~ (d <= l - 1)
  <2> SUFFICES ASSUME d <= l - 1 PROVE FALSE
    OBVIOUS
  <2>1. n * d <= n * (l - 1)
    BY <1>2, <1>3
  <2>2. n * d \in Int
    BY <1>2
  <2> QED BY <1>2, <1>4, <1>5, <1>6, <2>1, <2>2
<1>9. d = l
  BY <1>2, <1>7, <1>8
<1> QED BY <1>2, <1>5, <1>6, <1>9 DEF m, s
LEMMA LearntNext ==
  ASSUME NEW n \in Nat, conf.users \in Nat, conf.users > 0
  PROVE  Append(Learnt(n), n % conf.users) = Learnt(n + 1)
<1>1. \A k \in 1..n+1 : (k - 1) % conf.users \in Nat
  OBVIOUS
<1>2. Learnt(n) \in Seq(Nat) /\ Len(Learnt(n)) = n
  BY <1>1 DEF Learnt
<1>3. Learnt(n + 1) \in Seq(Nat) /\ Len(Learnt(n + 1)) = n + 1
  BY <1>1 DEF Learnt
<1> DEFINE a == Append(Learnt(n), n % conf.users)
<1>4. n % conf.users \in Nat
  OBVIOUS
<1>5. a \in Seq(Nat) /\ Len(a) = n + 1 /\ a[n + 1] = n % conf.users
      /\ \A k \in 1..n : a[k] = Learnt(n)[k]
  BY <1>2, <1>4, AppendProperties
<1>6. \A k \in 1..n+1 : a[k] = Learnt(n + 1)[k]
  BY <1>5 DEF Learnt
<1> HIDE DEF a
<1> QED BY <1>3, <1>5, <1>6, SeqEqual DEF a

LEMMA EdgesStep ==
  ASSUME TypeOK, StartInv, LoadTrainInv, DataInv, EdgesInv, Clock, Running' PROVE EdgesInv'
<1> DEFINE n == current_loop * conf.users + user
<1>1. conf' = conf /\ conf.users \in Nat /\ conf.users > 0 /\ Train
  BY ConfHeld, ConfigBounds DEF Clock
<1>2. current_loop \in Nat /\ user \in Nat
  BY DEF TypeOK, TrainType
<1>3. n \in Nat
  BY <1>1, <1>2
<1>4. CASE TrainStart
  <2>1. user' = 0 /\ current_loop' = 0 /\ edges' = <<>>
    BY <1>4 DEF TrainStart, TrainUser
  <2>2. Learnt(0)' = <<>>
    BY <1>1 DEF Learnt
  <2> QED BY <1>1, <2>1, <2>2 DEF EdgesInv
<1>5. CASE TrainNegative
  <2>1. Running
    BY <1>5 DEF TrainNegative, StartInv, Running
  <2>2. user < conf.users
    BY <2>1 DEF LoadTrainInv
  <2>3. edges' = Append(edges, user)
    BY <1>5, <2>1 DEF TrainNegative, DataInv
  <2>4. n % conf.users = user
    BY <1>1, <1>2, <2>2, UserOf
  <2>5. edges' = Learnt(n + 1)
    BY <1>1, <1>3, <2>1, <2>3, <2>4, LearntNext DEF EdgesInv
  <2>6. current_loop' * conf.users + user' = n + 1
    <3>1. (current_loop + 1) * conf.users = current_loop * conf.users + conf.users
      BY <1>1, <1>2, NextMultiple
    <3>2. CASE user + 1 < conf.users
      BY <1>1, <1>2, <1>5, <3>2 DEF TrainNegative, TrainUser
    <3>3. CASE ~ (user + 1 < conf.users)
      <4>1. current_loop' = current_loop + 1 /\ user' = 0 /\ user + 1 = conf.users
        BY <1>1, <1>2, <1>5, <2>2, <3>3 DEF TrainNegative, TrainUser
      <4> DEFINE m == current_loop * conf.users
                 p == current_loop' * conf.users
      <4>2. m \in Nat /\ p = m + conf.users /\ n = m + user
        BY <1>1, <1>2, <3>1, <4>1
      <4> HIDE DEF m, n, p
      <4>3. p + user' = n + 1
        BY <1>1, <1>2, <1>3, <4>1, <4>2
      <4> QED BY <4>3 DEF p
    <3> QED BY <3>2, <3>3
  <2>7. edges' = [k \in 1..n+1 |-> (k - 1) % conf.users]
    BY <2>5 DEF Learnt
  <2> QED BY <1>1, <2>6, <2>7 DEF EdgesInv, Learnt
<1>6. CASE ~TrainStart /\ ~TrainNegative
  <2>1. user' = user /\ current_loop' = current_loop /\ edges' = edges /\ Running
    BY <1>1, <1>6, ConfHeld DEF Train, TrainAccept, TrainReleased, TrainPositive, TrainWaits, trainVars,
       StartInv, Running
  <2> QED BY <1>1, <2>1 DEF EdgesInv, Learnt
<1> QED BY <1>4, <1>5, <1>6

------------------------------------------------------------------------------
(* The results.                                                            *)

(* Once train_rbm has finished the weights stay as they are.               *)
LEMMA EdgesFrozen ==
  ASSUME TypeOK, Clock, StartInv, trainPc = "done"
  PROVE  edges' = edges /\ trainPc' = "done"
BY DEF Clock, Train, TrainStart, TrainAccept, TrainReleased, TrainPositive, TrainNegative, TrainWaits,
       trainVars

LEMMA HiddenStep ==
  ASSUME TypeOK, StartInv, LoadTrainInv, LoadPredictInv, DataInv, ResultInv, Clock, Running',
         predictPc' \in {"visible", "rate"}
  PROVE  hidden' = ResultOf(puser)'
<1>1. conf' = conf /\ Predict
  BY ConfHeld DEF Clock
<1>2. /\ predictPc \in {"hidden", "visible", "rate"} /\ puser' = puser
      /\ \/ predictPc = "hidden" /\ hidden' = [rec |-> data[Pingpong(conf.loops, puser)], edges |-> edges]
         \/ predictPc = "visible" /\ hidden' = IF hidden.edges = edges THEN hidden ELSE TornResult
         \/ predictPc # "hidden" /\ hidden' = hidden
  BY <1>1 DEF Predict, PredictStart, PredictAccept, PredictReleased, PredictOutputDone, PredictHidden,
     PredictVisible, PredictRate, PredictRated, PredictTaken, PredictNext, PredictWaits, PredictUser,
     predictVars, TypeOK, PredictType
<1>3. Running
  BY <1>2 DEF StartInv, Running
<1>4. edges' = edges
  BY <1>2, <1>3, TrainedFirst, EdgesFrozen
<1>5. hidden' = ResultOf(puser)
  <2>1. predictPc = "hidden" => data[Pingpong(conf.loops, puser)] = TestRecord(puser)
    BY <1>3 DEF DataInv
  <2>2. predictPc # "hidden" => hidden = ResultOf(puser)
    BY <1>2, <1>3 DEF ResultInv
  <2>3. ResultOf(puser).edges = edges
    BY DEF ResultOf, TestRecord
  <2> QED BY <1>2, <2>1, <2>2, <2>3 DEF ResultOf, TestRecord
<1> QED BY <1>1, <1>2, <1>4, <1>5 DEF ResultOf, TestRecord

LEMMA OfferedStep ==
  ASSUME TypeOK, StartInv, LoadTrainInv, LoadPredictInv, ResultInv, Clock, Running',
         predictPc' \in {"offer", "taken"}
  PROVE  predict_result' = ResultOf(puser)'
<1>1. conf' = conf /\ Predict
  BY ConfHeld DEF Clock
<1>2. /\ predictPc \in {"rate", "offer", "taken"} /\ puser' = puser
      /\ \/ predictPc = "rate" /\ predict_result' = hidden
         \/ predictPc # "rate" /\ predict_result' = predict_result
  BY <1>1 DEF Predict, PredictStart, PredictAccept, PredictReleased, PredictOutputDone, PredictHidden,
     PredictVisible, PredictRate, PredictRated, PredictTaken, PredictNext, PredictWaits, PredictUser,
     predictVars, TypeOK, PredictType
<1>3. Running
  BY <1>2 DEF StartInv, Running
<1>4. edges' = edges
  BY <1>2, <1>3, TrainedFirst, EdgesFrozen
<1>5. predict_result' = ResultOf(puser)
  BY <1>2, <1>3 DEF ResultInv
<1> QED BY <1>1, <1>2, <1>4, <1>5 DEF ResultOf, TestRecord

(* While store writes a result out, predict_rbm leaves its buffer alone    *)
(* and train_rbm the weights.                                              *)
LEMMA OutputKept ==
  ASSUME TypeOK, StartInv, SignalInv, LoadTrainInv, LoadPredictInv, PredictStoreInv, Clock, Running,
         storePc \in {"grant", "put"} \/ (storePc = "release" /\ ~predict_done)
  PROVE  predict_result' = predict_result /\ edges' = edges /\ trainPc = "done"
<1>1. predictPc \in {"input", "release", "output", "idle", "taken"}
  BY DEF PredictStoreInv, SignalInv, PredictSignals
<1>2. predictPc \notin {"input", "idle"} \/ puser > 0
  BY DEF PredictStoreInv, TypeOK, PredictType, StoreType
<1>3. trainPc = "done"
  BY <1>2, TrainedFirst
<1>4. predict_result' = predict_result
  BY <1>1 DEF Clock, Predict, PredictStart, PredictAccept, PredictReleased, PredictOutputDone,
     PredictHidden, PredictVisible, PredictRate, PredictRated, PredictTaken, PredictNext, PredictWaits,
     predictVars
<1> QED BY <1>3, <1>4, EdgesFrozen

(* What a step of store does to the result on its way.                     *)
LEMMA StoreMoves ==
  ASSUME TypeOK, StartInv, Clock, Running
  PROVE  \/ sindex' = sindex /\ storePc' = storePc /\ wr_index' = wr_index /\ reading' = reading
            /\ written' = written
         \/ storePc = "result" /\ storePc' = "release" /\ sindex' = sindex /\ written' = written
         \/ storePc = "release" /\ ~predict_done /\ storePc' = "grant" /\ sindex' = sindex + 1
            /\ wr_index' = sindex /\ written' = written
         \/ storePc = "grant" /\ wr_grant /\ storePc' = "put" /\ sindex' = sindex
            /\ wr_index' = wr_index /\ reading' = predict_result /\ written' = written
         \/ storePc = "put" /\ storePc' \in {"result", "done"} /\ sindex' = sindex /\ StoreLastPut
<1>1. storePc # "init" /\ Store
  BY DEF StartInv, Clock
<1> QED BY <1>1 DEF Store, StoreStart, StoreAccept, StoreReleased, StoreGranted, StoreLastPut,
      StoreWaits, StoreUser, storeVars

LEMMA OutputStep ==
  ASSUME TypeOK, StartInv, SignalInv, LoadTrainInv, LoadPredictInv, PredictStoreInv, ResultInv,
         Clock, Running, Running'
  PROVE  /\ storePc' \in {"grant", "put"} =>
              predict_result' = ResultOf(sindex - 1)' /\ wr_index' = sindex' - 1
         /\ wr_grant' \/ storePc' = "put" => wr_to' = sindex' - 1
         /\ storePc' = "put" => reading' = predict_result'
<1>1. conf' = conf /\ Dma
  BY ConfHeld DEF Clock
<1>2. /\ wr_grant' => storePc = "grant"
      /\ wr_grant' /\ ~wr_grant => wr_to' = wr_index
      /\ ~(wr_grant' /\ ~wr_grant) => wr_to' = wr_to
  BY <1>1 DEF Dma, Grants, SignalInv, StoreSignals
<1>3. sindex \in Nat /\ (storePc \in {"grant", "put"} => sindex > 0)
  BY DEF TypeOK, StoreType, PredictStoreInv
<1>4. ASSUME storePc \in {"grant", "put"}
      PROVE  predict_result = ResultOf(sindex - 1) /\ wr_index = sindex - 1
             /\ (wr_grant \/ storePc = "put" => wr_to = sindex - 1)
             /\ (storePc = "put" => reading = predict_result)
  BY <1>4 DEF ResultInv
<1>5. CASE storePc' \in {"grant", "put"} /\ storePc' = storePc /\ sindex' = sindex
           /\ wr_index' = wr_index /\ reading' = reading
  <2>1. predict_result' = predict_result /\ edges' = edges
    <3>1. storePc \in {"grant", "put"}
      BY <1>5
    <3> QED BY <3>1, OutputKept
  <2>2. ResultOf(sindex - 1)' = ResultOf(sindex - 1)
    BY <1>1, <1>5, <2>1 DEF ResultOf, TestRecord
  <2>3. wr_grant' \/ storePc' = "put" => wr_to' = sindex - 1
    BY <1>2, <1>4, <1>5
  <2> QED BY <1>4, <1>5, <2>1, <2>2, <2>3
<1>6. CASE storePc = "release" /\ ~predict_done /\ storePc' = "grant" /\ sindex' = sindex + 1
           /\ wr_index' = sindex
  <2>1. predict_result' = predict_result /\ edges' = edges
    BY <1>6, OutputKept
  <2>2. predictPc = "taken" /\ sindex = puser
    BY <1>6 DEF PredictStoreInv, SignalInv, PredictSignals
  <2>3. predict_result = ResultOf(sindex)
    BY <2>2 DEF ResultInv
  <2>4. sindex' - 1 = sindex
    BY <1>3, <1>6
  <2>5. ResultOf(sindex - 1)' = ResultOf(sindex)
    BY <1>1, <2>1, <2>4 DEF ResultOf, TestRecord
  <2> QED BY <1>2, <1>6, <2>1, <2>3, <2>4, <2>5
<1>7. CASE storePc = "grant" /\ wr_grant /\ storePc' = "put" /\ sindex' = sindex
           /\ wr_index' = wr_index /\ reading' = predict_result
  <2>1. predict_result' = predict_result /\ edges' = edges
    <3>1. storePc \in {"grant", "put"}
      BY <1>7
    <3> QED BY <3>1, OutputKept
  <2>2. ResultOf(sindex - 1)' = ResultOf(sindex - 1)
    BY <1>1, <1>7, <2>1 DEF ResultOf, TestRecord
  <2>3. wr_to' = sindex - 1
    BY <1>2, <1>4, <1>7
  <2> QED BY <1>4, <1>7, <2>1, <2>2, <2>3
<1>8. CASE storePc' \notin {"grant", "put"}
  <2>1. storePc # "grant"
    BY <1>8, StoreMoves
  <2> QED BY <1>2, <1>8, <2>1
<1> QED BY <1>5, <1>6, <1>7, <1>8, StoreMoves

LEMMA ResultStep ==
  ASSUME TypeOK, StartInv, SignalInv, LoadTrainInv, LoadPredictInv, PredictStoreInv, DataInv, ResultInv,
         Clock
  PROVE  ResultInv'
<1> SUFFICES ASSUME Running' PROVE ResultInv'
  BY DEF ResultInv
<1>1. CASE Running
  BY <1>1, HiddenStep, OfferedStep, OutputStep DEF ResultInv
<1>2. CASE ~Running
  <2>1. PredictStart /\ StoreStart /\ ~wr_request /\ Dma
    BY <1>2, ConfHeld DEF StartInv, Running, Clock, SignalInv, StoreSignals, Predict, PredictAccept,
       PredictReleased, PredictOutputDone, PredictHidden, PredictVisible, PredictRate, PredictRated,
       PredictTaken, PredictNext, PredictWaits, Store, StoreAccept, StoreReleased, StoreGranted,
       StoreLastPut, StoreWaits
  <2>2. predictPc' \in {"input", "idle"} /\ storePc' \in {"result", "done"} /\ ~wr_grant'
    BY <2>1 DEF PredictStart, PredictUser, StoreStart, StoreUser, Dma, Grants
  <2> QED BY <2>2 DEF ResultInv
<1> QED BY <1>1, <1>2

LEMMA WrittenStep ==
  ASSUME TypeOK, StartInv, SignalInv, LoadTrainInv, LoadPredictInv, PredictStoreInv, ResultInv,
         WrittenInv, Clock
  PROVE  WrittenInv'
<1> SUFFICES ASSUME Running' PROVE WrittenInv'
  BY DEF WrittenInv
<1> DEFINE W(n, e) == [k \in 1..n |-> [at |-> k - 1, what |-> [rec |-> TestRecord(k - 1), edges |-> e]]]
<1>1. conf' = conf /\ sindex \in Nat /\ (storePc \in {"grant", "put"} => sindex > 0 /\ Running)
  BY ConfHeld DEF TypeOK, StoreType, PredictStoreInv, StartInv, Running
<1>2. CASE ~Running
  <2>1. StoreStart
    BY <1>2, ConfHeld DEF StartInv, Running, Clock, Store, StoreAccept, StoreReleased, StoreGranted,
       StoreLastPut, StoreWaits
  <2>2. sindex' = 0 /\ written' = <<>> /\ storePc' \in {"result", "done"}
    BY <1>2, <2>1 DEF StoreStart, StoreUser, StartInv
  <2>3. Stored' = 0
    BY <2>2 DEF Stored
  <2> QED BY <1>1, <2>2, <2>3 DEF WrittenInv
<1>3. CASE Running
  <2>1. sindex > 0 => trainPc = "done" /\ trainPc' = "done" /\ edges' = edges
    BY <1>3, EdgesFrozen DEF WrittenInv
  <2>2. written = W(Stored, edges) /\ Stored \in Nat /\ (sindex = 0 => Stored = 0)
    BY <1>1, <1>3 DEF WrittenInv, ResultOf, TestRecord, Stored
  <2>3. sindex' > 0 => trainPc' = "done"
    <3>1. storePc = "release" /\ ~predict_done => trainPc' = "done"
      BY <1>3, OutputKept, EdgesFrozen
    <3> QED BY <1>1, <1>3, <2>1, <3>1, StoreMoves
  <2>4. W(Stored, edges') = W(Stored, edges)
    <3>1. CASE sindex > 0
      BY <2>1, <3>1
    <3>2. CASE sindex = 0
      BY <2>2, <3>2
    <3> QED BY <1>1, <3>1, <3>2
  <2>5. CASE storePc # "put" \/ storePc' = "put"
    <3>1. Stored' = Stored /\ written' = written
      BY <1>1, <1>3, <2>5, StoreMoves DEF Stored
    <3>2. written' = W(Stored', edges')
      BY <2>2, <2>4, <3>1
    <3> QED BY <1>1, <2>3, <3>2 DEF WrittenInv, ResultOf, TestRecord
  <2>6. CASE storePc = "put" /\ storePc' # "put"
    <3>1. sindex' = sindex /\ storePc' \in {"result", "done"} /\ StoreLastPut
      BY <1>3, <2>6, StoreMoves
    <3>2. Stored = sindex - 1 /\ Stored' = sindex
      BY <2>6, <3>1 DEF Stored
    <3> DEFINE w == [at |-> sindex - 1, what |-> ResultOf(sindex - 1)]
    <3>3. written' = Append(written, w)
      BY <1>3, <2>6, <3>1 DEF StoreLastPut, ResultInv
    <3>4. \A k \in 1..sindex-1 : W(sindex, edges)[k] = W(sindex - 1, edges)[k]
      BY <1>1
    <3>5. W(sindex, edges)[sindex] = w
      BY <1>1, <2>6 DEF ResultOf, TestRecord
    <3>6. W(sindex, edges) = Append(W(sindex - 1, edges), w)
      <4> DEFINE T == Nat \cup {Torn}
                 E == [at : Nat, what : [rec : Nat, edges : Seq(T)]]
                 a == W(sindex - 1, edges)
                 b == W(sindex, edges)
      <4>1. edges \in Seq(T) /\ (\A j \in Nat : TestRecord(j) \in Nat)
        BY DEF TypeOK, TrainType, ConfigType, TestRecord
      <4>2. a \in Seq(E) /\ Len(a) = sindex - 1 /\ b \in Seq(E) /\ Len(b) = sindex
        BY <1>1, <2>6, <4>1
      <4>3. w \in E
        BY <1>1, <2>6, <4>1 DEF ResultOf
      <4> HIDE DEF E, a, b, w
      <4>4. Append(a, w) \in Seq(E) /\ Len(Append(a, w)) = sindex /\ Append(a, w)[sindex] = w
            /\ \A k \in 1..sindex-1 : Append(a, w)[k] = a[k]
        BY <1>1, <2>6, <4>2, <4>3, AppendProperties
      <4>5. \A k \in 1..sindex : Append(a, w)[k] = b[k]
        BY <1>1, <2>6, <3>4, <3>5, <4>4 DEF a, b
      <4> QED BY <4>2, <4>4, <4>5, SeqEqual DEF a, b
    <3>7. written' = W(Stored', edges')
      BY <1>1, <2>1, <2>2, <2>6, <3>2, <3>3, <3>6
    <3> QED BY <1>1, <2>3, <3>7 DEF WrittenInv, ResultOf, TestRecord
  <2> QED BY <2>5, <2>6
<1> QED BY <1>2, <1>3

------------------------------------------------------------------------------
(* The invariant. ThreadInv is its part about the threads' control, which  *)
(* is inductive by itself.                                                 *)
ThreadInv ==
  TypeOK /\ StartInv /\ SignalInv /\ LoadTrainInv /\ LoadPredictInv /\ PredictStoreInv

(* The invariant holds after reset and is kept by every step.              *)
LEMMA InvInit == Init => ThreadInv /\ IInv
<1> SUFFICES ASSUME Init PROVE ThreadInv /\ IInv
  OBVIOUS
<1>1. TypeOK
  BY TypeInit
<1>2. StartInv /\ SignalInv /\ ~Running
  BY DEF Init, StartInv, Running, SignalInv, LoadSignals, TrainSignals, PredictSignals, StoreSignals, GrantInv
<1> QED BY <1>1, <1>2 DEF ThreadInv, IInv, LoadTrainInv, LoadPredictInv, PredictStoreInv, DataInv, EdgesInv,
      ResultInv, WrittenInv

LEMMA ResetStep ==
  ASSUME TypeOK, Reset PROVE StartInv' /\ SignalInv' /\ ~Running'
BY DEF Reset, StartInv, Running, SignalInv, LoadSignals, TrainSignals, PredictSignals, StoreSignals, GrantInv

LEMMA StutterStep ==
  ASSUME UNCHANGED vars PROVE (ThreadInv => ThreadInv') /\ (IInv => IInv')
BY DEF vars, configVars, loadVars, trainVars, predictVars, storeVars, dmaVars, ThreadInv, IInv, TypeOK,
   ConfigType, LoadType, TrainType, PredictType, StoreType, DmaType, StartInv, Running, SignalInv,
   LoadSignals, TrainSignals, PredictSignals, StoreSignals, GrantInv, LoadTrainInv, SameUser, NextUser,
   LoadPredictInv, PredictStoreInv, DataInv, Address, Pingpong, EdgesInv, Learnt, ResultInv, ResultOf,
   WrittenInv, Stored, Record, TestRecord

LEMMA ThreadStep == ASSUME ThreadInv, [Next]_vars PROVE ThreadInv'
<1>1. CASE Clock
  BY <1>1, TypeStep, StartStep, SignalStep, LoadTrainStep, LoadPredictStep, PredictStoreStep DEF ThreadInv, Next
<1>2. CASE Reset
  BY <1>2, TypeStep, ResetStep DEF ThreadInv, Next, LoadTrainInv, LoadPredictInv, PredictStoreInv
<1> QED BY <1>1, <1>2, StutterStep DEF Next

LEMMA InvStep == ASSUME IInv, [Next]_vars PROVE IInv'
<1>0. ThreadInv /\ ThreadInv'
  BY ThreadStep DEF IInv, ThreadInv
<1>1. CASE Clock
  <2>1. DataInv' /\ ResultInv' /\ WrittenInv'
    BY <1>1, DataStep, ResultStep, WrittenStep DEF IInv
  <2>2. EdgesInv'
    <3>1. CASE Running'
      BY <1>1, <3>1, EdgesStep DEF IInv
    <3> QED BY <3>1 DEF EdgesInv
  <2> QED BY <1>0, <2>1, <2>2 DEF IInv, ThreadInv
<1>2. CASE Reset
  BY <1>0, <1>2, ResetStep DEF IInv, ThreadInv, DataInv, EdgesInv, ResultInv, WrittenInv
<1> QED BY <1>1, <1>2, StutterStep DEF Next

(* The steps any two threads are in, and their counters, always fit.       *)
THEOREM ThreadsInStep == Spec => []ThreadInv
BY InvInit, ThreadStep, PTL DEF Spec

(* Signals, steps, counters, buffers, weights and results always relate as *)
(* IInv says.                                                              *)
THEOREM Invariant == Spec => []IInv
BY InvInit, InvStep, PTL DEF Spec

------------------------------------------------------------------------------
(* load is at most one user ahead of the thread that works.                *)
LEMMA LeadOfInv == ThreadInv => LoadLead
<1> DEFINE started == IF trainPc # "done" THEN current_loop * conf.users + user
                      ELSE conf.loops * conf.users + puser
           a == loop_count * conf.users
           c == current_loop * conf.users
           t == conf.loops * conf.users
<1> SUFFICES ASSUME ThreadInv, {loadPc, trainPc, predictPc} \cap {"init"} = {}
             PROVE  (a + index) - started \in 0..1
  BY Zenon DEF LoadLead
<1>0. Running
  BY DEF Running
<1>1. conf.users \in Nat /\ conf.loops \in Nat /\ conf.tests \in Nat /\ loop_count \in Nat /\ index \in Nat
      /\ current_loop \in Nat /\ user \in Nat /\ puser \in Nat
  BY DEF ThreadInv, TypeOK, ConfigType, LoadType, TrainType, PredictType
<1>2. (current_loop + 1) * conf.users = current_loop * conf.users + conf.users
  BY <1>1, NextMultiple
<1>3. a \in Nat /\ c \in Nat /\ t \in Nat
  BY <1>1
<1>4. CASE trainPc # "done"
  <2>0. started = c + user
    BY <1>4
  <2> HIDE DEF started
  <2>1. user < conf.users /\ (SameUser \/ NextUser)
    BY <1>0, <1>1, <1>4 DEF ThreadInv, LoadTrainInv
  <2>2. CASE SameUser
    <3>1. a = c
      BY <2>2 DEF SameUser
    <3> HIDE DEF a, c
    <3>2. a + index - (c + user) \in 0..1
      BY <1>1, <1>3, <2>2, <3>1 DEF SameUser
    <3> QED BY <1>1, <1>3, <2>0, <3>2
  <2>3. CASE NextUser
    <3>1. \/ a = c /\ index = user + 1
          \/ a = c + conf.users /\ index = 0 /\ user + 1 = conf.users
      <4>1. CASE user + 1 < conf.users
        BY <2>3, <4>1 DEF NextUser
      <4>2. CASE ~ (user + 1 < conf.users)
        <5>1. loop_count = current_loop + 1 /\ index = 0
          BY <2>3, <4>2 DEF NextUser
        <5>2. user + 1 = conf.users
          BY <1>1, <2>1, <4>2
        <5>3. a = c + conf.users
          BY <1>2, <5>1
        <5> QED BY <5>1, <5>2, <5>3
      <4> QED BY <4>1, <4>2
    <3> HIDE DEF a, c
    <3>2. a + index - (c + user) \in 0..1
      BY <1>1, <1>3, <3>1
    <3> QED BY <1>1, <1>3, <2>0, <3>2
  <2> QED BY <2>1, <2>2, <2>3
<1>5. CASE trainPc = "done"
  <2>0. started = t + puser
    BY <1>5
  <2> HIDE DEF started
  <2>1. loop_count = conf.loops /\ (index = puser \/ index = puser + 1)
    BY <1>0, <1>1, <1>5 DEF ThreadInv, LoadTrainInv, LoadPredictInv, SameUser, NextUser
  <2>2. a = t
    BY <2>1
  <2> HIDE DEF a, t
  <2>3. a + index - (t + puser) \in 0..1
    BY <1>1, <1>3, <2>1, <2>2
  <2> QED BY <1>1, <1>3, <2>0, <2>3
<1> QED BY <1>4, <1>5

(* load is never behind the thread that works and at most one user ahead   *)
(* of it (the counters of lines 560-660 of rbm.cpp run on their own).      *)
THEOREM LoadNeverFarAhead == Spec => []LoadLead
BY ThreadsInStep, LeadOfInv, PTL

(* Each record is whole and in place while a thread computes with it.      *)
LEMMA HeldOfInv == IInv => RecordHeld
<1> SUFFICES ASSUME IInv PROVE RecordHeld
  OBVIOUS
<1>1. conf.users \in Nat /\ conf.loops \in Nat /\ loop_count \in Nat /\ index \in Nat
      /\ current_loop \in Nat /\ user \in Nat /\ puser \in Nat /\ ConfigType
  BY DEF IInv, TypeOK, ConfigType, LoadType, TrainType, PredictType
<1>2. trainPc \in {"positive", "negative"} \/ predictPc \in {"output", "hidden"} => Running
  BY DEF IInv, StartInv, Running
<1>3. /\ trainPc \in {"positive", "negative"} => data[Pingpong(current_loop, user)] = user
      /\ predictPc = "hidden" => data[Pingpong(conf.loops, puser)] = TestRecord(puser)
  BY <1>2 DEF IInv, DataInv
<1>4. ASSUME loadPc = "fill", trainPc \in {"positive", "negative"}
      PROVE  Pingpong(loop_count, index) # Pingpong(current_loop, user)
  <2>1. NextUser
    BY <1>1, <1>2, <1>4 DEF IInv, LoadTrainInv
  <2>2. user + 1 >= conf.users => user + 1 = conf.users
    BY <1>1, <1>2, <1>4 DEF IInv, LoadTrainInv
  <2> QED BY <1>1, <2>1, <2>2, PingpongAlternates DEF NextUser
<1>5. ASSUME loadPc = "fill", predictPc \in {"output", "hidden"}
      PROVE  Pingpong(loop_count, index) # Pingpong(conf.loops, puser)
  <2>1. loop_count = conf.loops
    BY <1>2, <1>5, TrainedFirst DEF IInv
  <2>2. index = puser + 1
    BY <1>2, <1>5, <2>1 DEF IInv, LoadPredictInv
  <2> QED BY <1>1, <2>1, <2>2, PingpongAlternates
<1> QED BY <1>3, <1>4, <1>5 DEF RecordHeld

(* No half of the ping-pong buffer changes while train_rbm or predict_rbm  *)
(* computes with the record in it.                                         *)
THEOREM RecordsHeld == Spec => []RecordHeld
BY Invariant, HeldOfInv, PTL

(* Predictions use the weights training ended with.                        *)
LEMMA SettledOfInv == IInv => WeightsSettled
<1> SUFFICES ASSUME IInv, predictPc \in {"hidden", "visible", "rate", "offer"}
             PROVE  train_done /\ edges = [k \in 1..conf.users * conf.loops |-> (k - 1) % conf.users]
  BY DEF WeightsSettled
<1>1. Running
  BY DEF IInv, StartInv, Running
<1>2. trainPc = "done"
  BY <1>1, TrainedFirst DEF IInv
<1>3. current_loop = conf.loops /\ user = 0
  BY <1>1, <1>2 DEF IInv, LoadTrainInv
<1>4. current_loop * conf.users + user = conf.users * conf.loops
  BY <1>3 DEF IInv, TypeOK, ConfigType
<1>5. train_done
  BY <1>2 DEF IInv, SignalInv, TrainSignals
<1> QED BY <1>1, <1>4, <1>5 DEF IInv, EdgesInv, Learnt

(* Every prediction uses the weights this job's training, and nothing      *)
(* else, ended with.                                                       *)
THEOREM PredictsWithSettledWeights == Spec => []WeightsSettled
BY Invariant, SettledOfInv, PTL

(* store reads out the result it was handed.                               *)
LEMMA ResultOfInv == IInv => ResultHeld
<1> SUFFICES ASSUME IInv PROVE ResultHeld
  OBVIOUS
<1>1. ASSUME storePc \in {"grant", "put"}
      PROVE  predict_result.rec = TestRecord(sindex - 1) /\ (storePc = "put" => reading = predict_result)
             /\ predictPc \in {"taken", "input", "release", "output", "idle"}
  <2>1. Running /\ conf.users \in Nat /\ sindex \in Nat
    BY <1>1 DEF IInv, StartInv, Running, TypeOK, ConfigType, StoreType
  <2>2. predict_result = ResultOf(sindex - 1) /\ (storePc = "put" => reading = predict_result)
    BY <1>1, <2>1 DEF IInv, ResultInv
  <2>3. predictPc \in {"taken", "input", "release", "output", "idle"}
    BY <1>1, <2>1 DEF IInv, PredictStoreInv
  <2> QED BY <2>2, <2>3 DEF ResultOf
<1>2. ASSUME predictPc \in {"rate", "hidden", "visible"}
      PROVE  output_done /\ storePc = "result"
  <2>1. Running
    BY <1>2 DEF IInv, StartInv, Running
  <2>2. storePc = "result"
    BY <1>2, <2>1 DEF IInv, PredictStoreInv
  <2> QED BY <2>2 DEF IInv, SignalInv, StoreSignals
<1> QED BY <1>1, <1>2 DEF ResultHeld

(* predict_rbm leaves the result buffer as it handed it over until store   *)
(* has read the last rating.                                               *)
THEOREM ResultsHeld == Spec => []ResultHeld
BY Invariant, ResultOfInv, PTL

(* done is up only when all results are in memory.                         *)
LEMMA DoneOfInv == IInv => DoneIsComplete
<1> SUFFICES ASSUME IInv, done PROVE Len(written) = conf.tests
  BY DEF DoneIsComplete
<1>1. storePc = "done" /\ Running
  BY DEF IInv, SignalInv, StoreSignals, StartInv, Running
<1>2. sindex = conf.tests /\ Stored = sindex /\ sindex \in Nat
  BY <1>1 DEF IInv, PredictStoreInv, Stored, TypeOK, StoreType
<1> QED BY <1>1, <1>2 DEF IInv, WrittenInv

(* store raises done only when every result of the job is in memory.       *)
THEOREM DoneWhenComplete == Spec => []DoneIsComplete
BY Invariant, DoneOfInv, PTL

------------------------------------------------------------------------------
(* The accelerator does jobs: each of its steps is a step of RbmJob or     *)
(* leaves the job, the weights and the results as they are.                *)
LEMMA NoJobInConfigs ==
  ASSUME NEW c \in Configs PROVE c # Idle
<1>1. c.tests \in Nat
  BY DEF Configs
<1> QED BY <1>1 DEF Idle

LEMMA Views ==
  ASSUME IInv, Clock, Running, conf.loops > 0
  PROVE  /\ conf' = conf /\ conf \in {c \in Configs : c.loops > 0} /\ conf # Idle
         /\ JobView = conf /\ WeightsView = edges /\ ResultsView = written
         /\ JobView' = conf /\ WeightsView' = edges' /\ ResultsView' = written'
<1>1. init_done /\ conf \in Configs /\ trainPc # "init"
  BY DEF IInv, StartInv
<1>2. init_done' /\ conf' = conf
  BY <1>1, ConfigOnce DEF Clock
<1>3. trainPc' # "init"
  BY <1>1, TrainLeaves DEF IInv, TypeOK, Clock
<1>4. conf # Idle
  BY <1>1, NoJobInConfigs
<1> QED BY <1>1, <1>2, <1>3, <1>4 DEF JobView, WeightsView, ResultsView

(* At the last update of the weights of a user the job is not trained yet. *)
LEMMA TrainRefines ==
  ASSUME IInv, Clock, Running, TrainNegative PROVE Job!TrainOne
<1> DEFINE n == current_loop * conf.users + user
<1>1. conf' = conf /\ init_done /\ init_done' /\ conf \in Configs /\ trainPc = "negative" /\ trainPc' # "init"
  <2>1. trainPc = "negative" /\ trainPc' # "init"
    BY DEF TrainNegative, TrainUser, IInv, TypeOK, TrainType
  <2>2. init_done /\ conf \in Configs
    BY DEF IInv, StartInv
  <2> QED BY <2>1, <2>2, ConfigOnce DEF Clock
<1>2. conf.users \in Nat /\ conf.users > 0 /\ conf.loops \in Nat /\ current_loop \in Nat /\ user \in Nat
  BY <1>1, ConfigBounds DEF IInv, TypeOK, TrainType
<1>3. user < conf.users /\ current_loop < conf.loops
  BY <1>1, <1>2 DEF IInv, LoadTrainInv
<1>4. n \in Nat /\ n % conf.users = user
  <2>1. n \in Nat
    BY <1>2
  <2>2. n % conf.users = user
    BY <1>2, <1>3, UserOf
  <2> QED BY <2>1, <2>2
<1>5. n < conf.users * conf.loops
  <2> DEFINE m == current_loop * conf.users
             t == conf.users * conf.loops
  <2>1. m + conf.users <= t
    <3>1. \A a, b, c \in Nat : a <= b => a * c <= b * c
      OBVIOUS
    <3>2. (current_loop + 1) * conf.users <= conf.loops * conf.users
      BY <1>2, <1>3, <3>1
    <3>3. (current_loop + 1) * conf.users = m + conf.users
      BY <1>2, NextMultiple
    <3>4. \A a, b \in Nat : a * b = b * a
      OBVIOUS
    <3>5. conf.loops * conf.users = t
      BY <1>2, <3>4
    <3> QED BY <3>2, <3>3, <3>5
  <2>2. m \in Nat /\ t \in Nat /\ n = m + user
    BY <1>2
  <2> HIDE DEF m, t, n
  <2>3. n < t
    BY <1>2, <1>3, <2>1, <2>2
  <2> QED BY <2>3 DEF t
<1>6. edges = Learnt(n)
  BY DEF IInv, EdgesInv
<1>7. Len(edges) = n
  BY <1>4, <1>6 DEF Learnt
<1>8. edges' = Append(edges, user)
  BY DEF TrainNegative, IInv, DataInv
<1>9. written' = written
  <2>1. storePc # "put"
    BY <1>1, OutputKept DEF IInv
  <2> QED BY <2>1, StoreMoves DEF IInv
<1> HIDE DEF n
<1>10. conf.loops > 0
  BY <1>2, <1>3
<1>11. JobView # Idle /\ ~Job!Trained
  BY <1>5, <1>7, <1>10, Views DEF Job!Trained
<1>12. WeightsView' = Append(WeightsView, Len(WeightsView) % JobView.users)
  BY <1>4, <1>7, <1>8, <1>10, Views
<1>13. JobView' = JobView /\ ResultsView' = ResultsView
  BY <1>9, <1>10, Views
<1> QED BY <1>11, <1>12, <1>13 DEF Job!TrainOne

LEMMA StoreRefines ==
  ASSUME IInv, Clock, Running, conf.loops > 0, storePc = "put", StoreLastPut PROVE Job!PredictOne
<1>1. conf' = conf /\ init_done /\ init_done' /\ conf \in Configs
  <2>1. init_done /\ conf \in Configs
    BY DEF IInv, StartInv
  <2> QED BY <2>1, ConfigOnce DEF Clock
<1>2. trainPc = "done" /\ trainPc' = "done" /\ edges' = edges
  BY OutputKept, EdgesFrozen DEF IInv
<1>3. conf.users \in Nat /\ conf.loops \in Nat /\ conf.tests \in Nat /\ sindex \in Nat /\ sindex > 0
  BY <1>1, ConfigBounds DEF IInv, TypeOK, StoreType, PredictStoreInv
<1>4. sindex <= conf.tests
  BY DEF IInv, PredictStoreInv, LoadPredictInv
<1>5. Len(edges) = conf.users * conf.loops
  <2>1. current_loop = conf.loops /\ user = 0
    BY <1>2 DEF IInv, LoadTrainInv
  <2> DEFINE n == conf.users * conf.loops
  <2>2. current_loop * conf.users + user = n /\ n \in Nat
    BY <1>3, <2>1
  <2> HIDE DEF n
  <2>3. Len(edges) = n
    BY <2>2 DEF IInv, EdgesInv, Learnt
  <2> QED BY <2>3 DEF n
<1>6. Len(written) = sindex - 1
  BY <1>3 DEF IInv, WrittenInv, Stored
<1>7. written' = Append(written, [at |-> sindex - 1, what |-> ResultOf(sindex - 1)])
  BY DEF StoreLastPut, IInv, ResultInv
<1>8. JobView # Idle /\ Job!Trained
  BY <1>5, Views DEF Job!Trained
<1>9. sindex - 1 < conf.tests
  BY <1>3, <1>4
<1>10. ResultOf(sindex - 1) = [rec |-> conf.users + (sindex - 1), edges |-> edges]
  BY <1>3 DEF ResultOf, TestRecord
<1>11. JobView' = JobView /\ WeightsView' = WeightsView
  BY <1>2, Views
<1>12. Len(ResultsView) < JobView.tests
  BY <1>6, <1>9, Views
<1>13. ResultsView' = Append(ResultsView, [at |-> Len(ResultsView),
         what |-> [rec |-> TestPlace(JobView, Len(ResultsView)), edges |-> WeightsView]])
  BY <1>6, <1>7, <1>10, Views DEF TestPlace
<1> QED BY <1>8, <1>11, <1>12, <1>13 DEF Job!PredictOne

LEMMA OtherStepsRefine ==
  ASSUME IInv, Clock, init_done, ~TrainNegative \/ ~Running, storePc # "put" \/ ~StoreLastPut
  PROVE  UNCHANGED <<JobView, WeightsView, ResultsView>>
<1>1. init_done' /\ conf' = conf /\ Train /\ Store
  BY ConfigOnce DEF Clock
<1>2. (trainPc = "init" <=> ~Running) /\ (storePc = "init" <=> ~Running)
  BY DEF IInv, StartInv
<1>3. written' = written
  BY <1>1 DEF Store, StoreStart, StoreAccept, StoreReleased, StoreGranted, StoreLastPut, StoreWaits, storeVars
<1>4. JobView' = JobView /\ ResultsView' = ResultsView
  BY <1>1, <1>3 DEF JobView, ResultsView
<1>5. WeightsView' = WeightsView
  <2>1. CASE TrainStart
    BY <2>1 DEF TrainStart, TrainUser, WeightsView
  <2>2. CASE ~TrainStart
    <3>1. ~TrainNegative
      BY <1>2 DEF TrainNegative
    <3>2. edges' = edges /\ (trainPc' = "init" <=> trainPc = "init")
      BY <1>1, <2>2, <3>1 DEF Train, TrainAccept, TrainReleased, TrainPositive, TrainWaits, trainVars
    <3> QED BY <1>4, <3>2 DEF WeightsView
  <2> QED BY <2>1, <2>2
<1> QED BY <1>4, <1>5

(* A job without training loops shows nothing.                             *)
LEMMA NoLoopsRefine ==
  ASSUME Clock, init_done, ~ (conf.loops > 0)
  PROVE  UNCHANGED <<JobView, WeightsView, ResultsView>>
<1>1. init_done' /\ conf' = conf
  BY ConfigOnce DEF Clock
<1>2. JobView = Idle /\ JobView' = Idle
  BY <1>1 DEF JobView
<1> QED BY <1>2 DEF WeightsView, ResultsView

LEMMA ClockRefines == ASSUME IInv, Clock PROVE [Job!JNext]_(Job!jvars)
<1>1. CASE ~init_done
  <2>1. ~Running /\ written = <<>> /\ trainPc = "init" /\ storePc = "init"
    BY <1>1 DEF IInv, StartInv
  <2>2. Train /\ Store /\ TrainType /\ StoreType /\ Config
    BY DEF Clock, IInv, TypeOK
  <2>3. trainPc' = "init" /\ written' = <<>>
    BY <1>1, <2>1, <2>2, TrainLeaves, StoreLeaves
  <2>4. /\ JobView = Idle /\ WeightsView = <<>> /\ ResultsView = <<>>
        /\ WeightsView' = <<>> /\ ResultsView' = <<>>
    BY <1>1, <2>1, <2>3 DEF JobView, WeightsView, ResultsView
  <2>5. CASE Configure
    <3>1. JobView' = Idle \/ JobView' \in {c \in Configs : c.loops > 0}
      BY <2>5 DEF Configure, JobView
    <3> QED BY <2>4, <3>1 DEF Job!JNext, Job!Begin, Job!jvars
  <2>6. CASE UNCHANGED configVars
    <3>1. JobView' = JobView
      BY <2>6 DEF configVars, JobView
    <3> QED BY <2>4, <3>1 DEF Job!jvars
  <2> QED BY <2>2, <2>5, <2>6 DEF Config
<1>2. CASE init_done /\ ~ (conf.loops > 0)
  BY <1>2, NoLoopsRefine DEF Job!jvars
<1>3. CASE init_done /\ conf.loops > 0 /\ Running /\ TrainNegative
  BY <1>3, TrainRefines DEF Job!JNext
<1>4. CASE init_done /\ conf.loops > 0 /\ storePc = "put" /\ StoreLastPut
  <2>1. Running
    BY <1>4 DEF IInv, StartInv
  <2> QED BY <1>4, <2>1, StoreRefines DEF Job!JNext
<1>5. CASE init_done /\ (~TrainNegative \/ ~Running) /\ (storePc # "put" \/ ~StoreLastPut)
  BY <1>5, OtherStepsRefine DEF Job!jvars
<1> QED BY <1>1, <1>2, <1>3, <1>4, <1>5

LEMMA StepRefines == ASSUME IInv, [Next]_vars PROVE [Job!JNext]_(Job!jvars)
<1>1. CASE Reset
  BY <1>1 DEF Reset, Job!JNext, Job!Abandon, JobView, WeightsView, ResultsView
<1>2. CASE UNCHANGED vars
  BY <1>2 DEF vars, configVars, trainVars, storeVars, Job!jvars, JobView, WeightsView, ResultsView
<1> QED BY <1>1, <1>2, ClockRefines DEF Next

(* No job has begun after reset.                                           *)
LEMMA InitRefines == Init => Job!JInit
BY DEF Init, Job!JInit, JobView, WeightsView, ResultsView

(* Every behaviour of the accelerator trains on each record and predicts   *)
(* with each test record as a job promises, in order and with the weights  *)
(* training ended with, and writes each result once to its place.          *)
THEOREM ImplementsJob == Spec => Job!JSpec
BY Invariant, InitRefines, StepRefines, PTL DEF Spec, Job!JSpec

------------------------------------------------------------------------------
(* Progress: the handshakes between the five threads and the DMA never     *)
(* block one another before the job is done, and no step of a thread is    *)
(* ever taken back.                                                        *)

JobHasWork == conf.loops + conf.tests > 0
Finished == done /\ loadPc = "done" /\ trainPc = "done" /\ predictPc = "idle"

(* The wait of some thread is over, or the threads may start.              *)
LoadReady ==
  \/ loadPc = "await_train" /\ train_done
  \/ loadPc = "grant" /\ rd_grant
  \/ loadPc = "offer" /\ UserStarted
  \/ loadPc = "release" /\ ~UserStarted
TrainReady ==
  \/ trainPc = "input" /\ train_input_done
  \/ trainPc = "release" /\ ~train_input_done
PredictReady ==
  \/ predictPc = "input" /\ predict_input_done
  \/ predictPc = "release" /\ ~predict_input_done
  \/ predictPc = "output" /\ output_done
  \/ predictPc = "offer" /\ output_start
  \/ predictPc = "taken" /\ ~output_start
StoreReady ==
  \/ storePc = "result" /\ predict_done
  \/ storePc = "release" /\ ~predict_done
  \/ storePc = "grant" /\ wr_grant
HandshakeOver ==
  \/ loadPc = "init" /\ init_done
  \/ LoadReady \/ TrainReady \/ PredictReady \/ StoreReady

(* A thread moves words or computes, or the DMA owes it a grant.           *)
Training   == trainPc \in {"positive", "negative"}
Predicting == predictPc \in {"hidden", "visible", "rate"}
NeverStuck ==
  init_done /\ JobHasWork /\ ~Finished =>
    \/ HandshakeOver
    \/ loadPc = "fill" \/ storePc = "put" \/ Training \/ Predicting
    \/ (rd_request /\ ~rd_grant)
    \/ (wr_request /\ ~wr_grant)

(* load asks for no record behind the last one.                            *)
LoadStops ==
  Running /\ JobHasWork /\ loop_count = conf.loops /\ index = conf.tests => loadPc = "done"

(* How far each thread has come: the user it is at, and its place there.   *)
LoadPlace == loop_count * conf.users + index
LoadRank ==
  CASE loadPc = "grant"   -> IF rd_grant THEN 2 ELSE 1
    [] loadPc = "fill"    -> 3
    [] loadPc = "offer"   -> 4
    [] loadPc = "release" -> 5
    [] OTHER -> 0
TrainPlace == current_loop * conf.users + user
TrainRank ==
  CASE trainPc = "release"  -> 1
    [] trainPc = "positive" -> 2
    [] trainPc = "negative" -> 3
    [] OTHER -> 0
PredictRank ==
  CASE predictPc = "release" -> 1
    [] predictPc = "output"  -> 2
    [] predictPc = "hidden"  -> 3
    [] predictPc = "visible" -> 4
    [] predictPc = "rate"    -> 5
    [] predictPc = "offer"   -> 6
    [] predictPc = "taken"   -> 7
    [] OTHER -> 0
StoreRank ==
  CASE storePc = "release" -> 1
    [] storePc = "grant"   -> IF wr_grant THEN 3 ELSE 2
    [] storePc = "put"     -> 4
    [] OTHER -> 0
LoadPos    == 6 * LoadPlace + LoadRank
TrainPos   == 4 * TrainPlace + TrainRank
PredictPos == 8 * puser + PredictRank
StorePos   == 5 * Stored + StoreRank

(* The work done for the job, and how much there can be.                   *)
Work == IF Running THEN 1 + LoadPos + TrainPos + PredictPos + StorePos ELSE 0
WorkLimit == 10 * (conf.loops * conf.users) + 19 * conf.tests + 20
WorkBounded == init_done => Work <= WorkLimit
WorkKept == [][Clock => Work' >= Work]_vars

(* What the clock, the DMA controller and the computations owe a job: the  *)
(* fairness of FairSpec, with the condition under which each step can be   *)
(* taken.                                                                  *)
StepsTaken ==
  /\ []<>~HandshakeOver \/ []<><<Clock>>_vars
  /\ []<>~(rd_request # rd_grant) \/ []<><<Clock /\ rd_grant' # rd_grant>>_vars
  /\ []<>~(wr_request # wr_grant) \/ []<><<Clock /\ wr_grant' # wr_grant>>_vars
  /\ []<>~(loadPc = "fill") \/ []<><<Clock /\ LoadLastWord>>_vars
  /\ []<>~Training \/ []<><<Clock /\ (TrainPositive \/ TrainNegative)>>_vars
  /\ []<>~Predicting \/ []<><<Clock /\ (PredictHidden \/ PredictVisible \/ PredictRated)>>_vars
  /\ []<>~(storePc = "put") \/ []<><<Clock /\ StoreLastPut>>_vars

(* A clock edge of a running job leaves the configuration as it is.        *)
LEMMA ConfKept ==
  ASSUME TypeOK, StartInv, Clock, init_done
  PROVE  conf' = conf /\ init_done' /\ conf \in Configs
BY ConfigOnce DEF StartInv, Clock

LEMMA LoadStopsStep ==
  ASSUME TypeOK, StartInv, LoadTrainInv, LoadPredictInv, LoadStops, Clock PROVE LoadStops'
<1> SUFFICES ASSUME (Running /\ JobHasWork /\ loop_count = conf.loops /\ index = conf.tests)'
             PROVE  loadPc' = "done"
  BY DEF LoadStops
<1>1. conf' = conf /\ conf.loops \in Nat /\ conf.tests \in Nat /\ JobHasWork
  BY ConfHeld, ConfigBounds DEF JobHasWork
<1>2. loop_count' = conf.loops /\ index' = conf.tests
  BY <1>1
<1>3. CASE ~Running
  <2>1. loop_count = 0 /\ index = 0 /\ loadPc = "init"
    BY <1>3 DEF StartInv, Running
  <2>2. loop_count' = 0 /\ index' = 0
    BY <2>1 DEF Clock, Load, LoadStart, LoadTrained, LoadGranted, LoadWord, LoadLastWord, LoadTaken,
       LoadNext, LoadWaits, loadVars
  <2> QED BY <1>1, <1>2, <2>2 DEF JobHasWork
<1>4. CASE Running
  <2>1. CASE LoadNext
    BY <1>1, <1>2, <2>1 DEF LoadNext, Fetch, TypeOK, LoadType
  <2>2. CASE ~LoadNext
    <3>1. loop_count' = loop_count /\ index' = index /\ (loadPc = "done" => loadPc' = "done")
      BY <2>2 DEF Clock, Load, LoadStart, LoadTrained, LoadGranted, LoadWord, LoadLastWord,
         LoadTaken, LoadWaits, loadVars
    <3> QED BY <1>1, <1>2, <1>4, <3>1 DEF LoadStops
  <2> QED BY <2>1, <2>2
<1> QED BY <1>3, <1>4

(* Counting places of k ranks each.                                        *)
LEMMA Counting ==
  ASSUME NEW k \in Nat, k > 0, NEW p \in Nat, NEW r \in Nat, r < k, NEW s \in Nat, s < k,
         NEW q, q \in {p, p + 1}, NEW a, NEW b, a = k * p + r, b = k * q + s
  PROVE  /\ a \in Nat /\ b \in Nat
         /\ q = p + 1 => b > a
         /\ q = p => (b > a <=> s > r) /\ (b >= a <=> s >= r) /\ (b = a <=> s = r)
<1> DEFINE m == k * p
<1>1. m \in Nat /\ k * (p + 1) = m + k
  OBVIOUS
<1> HIDE DEF m
<1>2. a = m + r /\ b = IF q = p THEN m + s ELSE m + k + s
  BY <1>1 DEF m
<1> QED BY <1>1, <1>2

(* A thread's count only grows, and stands still only while the thread     *)
(* stays where it is.                                                      *)
LEMMA LoadAdvances ==
  ASSUME TypeOK, StartInv, SignalInv, Clock, Running
  PROVE  /\ LoadPos \in Nat /\ LoadPos' \in Nat /\ LoadPos' >= LoadPos
         /\ LoadReady \/ LoadLastWord => LoadPos' > LoadPos
         /\ rd_grant' /\ ~rd_grant => LoadPos' > LoadPos
         /\ LoadPos' = LoadPos => loadPc' = loadPc
<1>1. conf' = conf /\ conf.users \in Nat /\ loop_count \in Nat /\ index \in Nat
  BY ConfKept, ConfigBounds DEF StartInv, TypeOK, LoadType
<1>2. LoadPlace \in Nat
  BY <1>1 DEF LoadPlace
<1>3. LoadRank \in Nat /\ LoadRank < 6
  BY DEF LoadRank
<1>4. LoadPos = 6 * LoadPlace + LoadRank /\ LoadPos' = 6 * LoadPlace' + LoadRank'
  BY DEF LoadPos
<1>5. rd_grant' => rd_request
  BY DEF Clock, Dma, Grants, TypeOK, DmaType
<1>6. CASE LoadNext
  <2>1. LoadPlace' = LoadPlace + 1
    <3>1. CASE index + 1 = conf.users /\ loop_count # conf.loops
      <4>1. loop_count' = loop_count + 1 /\ index' = 0
        BY <1>6, <3>1 DEF LoadNext
      <4>2. (loop_count + 1) * conf.users = loop_count * conf.users + conf.users
        BY <1>1, NextMultiple
      <4> DEFINE m == loop_count * conf.users
      <4>3. m \in Nat /\ LoadPlace = m + index /\ LoadPlace' = m + conf.users
        BY <1>1, <4>1, <4>2 DEF LoadPlace
      <4> HIDE DEF m
      <4> QED BY <1>1, <3>1, <4>3
    <3>2. CASE ~(index + 1 = conf.users /\ loop_count # conf.loops)
      <4>1. loop_count' = loop_count /\ index' = index + 1
        BY <1>6, <3>2 DEF LoadNext
      <4> DEFINE m == loop_count * conf.users
      <4>2. m \in Nat /\ LoadPlace = m + index /\ LoadPlace' = m + (index + 1)
        BY <1>1, <4>1 DEF LoadPlace
      <4> HIDE DEF m
      <4> QED BY <1>1, <4>2
    <3> QED BY <3>1, <3>2
  <2>2. LoadRank' \in Nat /\ LoadRank' < 6
    BY DEF LoadRank
  <2>3. LoadPos \in Nat /\ LoadPos' \in Nat /\ LoadPos' > LoadPos
    <3> DEFINE q == LoadPlace'
               s == LoadRank'
               b == LoadPos'
    <3>1. q = LoadPlace + 1 /\ s \in Nat /\ s < 6 /\ b = 6 * q + s
      BY <1>4, <2>1, <2>2
    <3> HIDE DEF q, s, b
    <3>2. LoadPos \in Nat /\ b \in Nat /\ b > LoadPos
      BY <1>2, <1>3, <1>4, <3>1, Counting
    <3> QED BY <3>2 DEF b
  <2> QED BY <2>3
<1>7. CASE ~LoadNext
  <2>1. loop_count' = loop_count /\ index' = index
    BY <1>7 DEF Clock, Load, LoadStart, LoadTrained, LoadGranted, LoadWord, LoadLastWord, LoadTaken,
       LoadWaits, loadVars
  <2>2. LoadPlace' = LoadPlace
    BY <1>1, <2>1 DEF LoadPlace
  <2>3. /\ LoadRank' \in Nat /\ LoadRank' < 6 /\ LoadRank' >= LoadRank
        /\ LoadReady \/ LoadLastWord => LoadRank' > LoadRank
        /\ rd_grant' /\ ~rd_grant => LoadRank' > LoadRank
        /\ LoadRank' = LoadRank => loadPc' = loadPc
    <3> USE DEF SignalInv, LoadSignals, TypeOK, LoadType, DmaType
    <3>0. Load /\ loadPc # "init" /\ (rd_grant /\ rd_request => rd_grant')
      BY DEF Running, Clock, Dma, Grants
    <3>1. CASE LoadTrained
      BY <1>5, <3>0, <3>1 DEF LoadTrained, LoadRank, LoadReady, LoadLastWord
    <3>2. CASE LoadGranted
      BY <1>5, <3>0, <3>2 DEF LoadGranted, LoadRank, LoadReady, LoadLastWord
    <3>3. CASE LoadWord
      BY <1>5, <3>0, <3>3 DEF LoadWord, LoadRank, LoadReady, LoadLastWord
    <3>4. CASE LoadLastWord
      BY <1>5, <3>0, <3>4 DEF LoadRank, LoadReady, LoadLastWord
    <3>5. CASE LoadTaken
      BY <1>5, <3>0, <3>5 DEF LoadTaken, LoadRank, LoadReady, LoadLastWord
    <3>6. CASE LoadWaits
      BY <1>5, <3>0, <3>6 DEF LoadWaits, loadVars, LoadRank, LoadReady, LoadLastWord
    <3> QED BY <1>7, <3>0, <3>1, <3>2, <3>3, <3>4, <3>5, <3>6 DEF Load, LoadStart
  <2>4. /\ LoadPos \in Nat /\ LoadPos' \in Nat /\ LoadPos' >= LoadPos
        /\ LoadPos' > LoadPos <=> LoadRank' > LoadRank
        /\ LoadPos' = LoadPos <=> LoadRank' = LoadRank
    <3> DEFINE q == LoadPlace'
               s == LoadRank'
               b == LoadPos'
    <3>1. q = LoadPlace /\ s \in Nat /\ s < 6 /\ s >= LoadRank /\ b = 6 * q + s
      BY <1>4, <2>2, <2>3
    <3> HIDE DEF q, s, b
    <3>2. /\ LoadPos \in Nat /\ b \in Nat /\ b >= LoadPos
          /\ b > LoadPos <=> s > LoadRank
          /\ b = LoadPos <=> s = LoadRank
      BY <1>2, <1>3, <1>4, <3>1, Counting
    <3> QED BY <3>2 DEF b, s
  <2> QED BY <2>3, <2>4
<1> QED BY <1>6, <1>7

LEMMA TrainAdvances ==
  ASSUME TypeOK, StartInv, SignalInv, LoadTrainInv, Clock, Running
  PROVE  /\ TrainPos \in Nat /\ TrainPos' \in Nat /\ TrainPos' >= TrainPos
         /\ TrainReady \/ TrainPositive \/ TrainNegative => TrainPos' > TrainPos
         /\ TrainPos' = TrainPos => trainPc' = trainPc
<1>1. /\ conf' = conf /\ conf.users \in Nat /\ current_loop \in Nat /\ user \in Nat
      /\ user < conf.users
  BY ConfKept, ConfigBounds DEF StartInv, TypeOK, TrainType, LoadTrainInv
<1>2. TrainPlace \in Nat
  BY <1>1 DEF TrainPlace
<1>3. TrainRank \in Nat /\ TrainRank < 4
  BY DEF TrainRank
<1>4. TrainPos = 4 * TrainPlace + TrainRank /\ TrainPos' = 4 * TrainPlace' + TrainRank'
  BY DEF TrainPos
<1>5. CASE TrainNegative
  <2>1. TrainPlace' = TrainPlace + 1
    <3> DEFINE m == current_loop * conf.users
    <3>1. CASE user + 1 < conf.users
      <4>1. current_loop' = current_loop /\ user' = user + 1
        BY <1>5, <3>1 DEF TrainNegative, TrainUser
      <4>2. m \in Nat /\ TrainPlace = m + user /\ TrainPlace' = m + (user + 1)
        BY <1>1, <4>1 DEF TrainPlace
      <4> HIDE DEF m
      <4> QED BY <1>1, <4>2
    <3>2. CASE ~(user + 1 < conf.users)
      <4>1. current_loop' = current_loop + 1 /\ user' = 0
        BY <1>5, <3>2 DEF TrainNegative, TrainUser
      <4>2. (current_loop + 1) * conf.users = current_loop * conf.users + conf.users
        BY <1>1, NextMultiple
      <4>3. m \in Nat /\ TrainPlace = m + user /\ TrainPlace' = m + conf.users
        BY <1>1, <4>1, <4>2 DEF TrainPlace
      <4> HIDE DEF m
      <4> QED BY <1>1, <3>2, <4>3
    <3> QED BY <3>1, <3>2
  <2>2. TrainRank' \in Nat /\ TrainRank' < 4
    BY DEF TrainRank
  <2>3. TrainPos \in Nat /\ TrainPos' \in Nat /\ TrainPos' > TrainPos
    <3> DEFINE q == TrainPlace'
               s == TrainRank'
               b == TrainPos'
    <3>1. q = TrainPlace + 1 /\ s \in Nat /\ s < 4 /\ b = 4 * q + s
      BY <1>4, <2>1, <2>2
    <3> HIDE DEF q, s, b
    <3>2. TrainPos \in Nat /\ b \in Nat /\ b > TrainPos
      BY <1>2, <1>3, <1>4, <3>1, Counting
    <3> QED BY <3>2 DEF b
  <2> QED BY <2>3
<1>6. CASE ~TrainNegative
  <2> USE DEF TypeOK, TrainType
  <2>1. Train /\ trainPc # "init"
    BY DEF Running, StartInv, Clock
  <2>2. current_loop' = current_loop /\ user' = user
    BY <1>6, <2>1 DEF Train, TrainStart, TrainAccept, TrainReleased, TrainPositive, TrainWaits, trainVars
  <2>3. TrainPlace' = TrainPlace
    BY <1>1, <2>2 DEF TrainPlace
  <2>4. /\ TrainRank' \in Nat /\ TrainRank' < 4 /\ TrainRank' >= TrainRank
        /\ TrainReady \/ TrainPositive => TrainRank' > TrainRank
        /\ TrainRank' = TrainRank => trainPc' = trainPc
    BY <1>6, <2>1 DEF Train, TrainStart, TrainAccept, TrainReleased, TrainPositive, TrainWaits,
       trainVars, TrainRank, TrainReady
  <2>5. /\ TrainPos \in Nat /\ TrainPos' \in Nat /\ TrainPos' >= TrainPos
        /\ TrainPos' > TrainPos <=> TrainRank' > TrainRank
        /\ TrainPos' = TrainPos <=> TrainRank' = TrainRank
    <3> DEFINE q == TrainPlace'
               s == TrainRank'
               b == TrainPos'
    <3>1. q = TrainPlace /\ s \in Nat /\ s < 4 /\ s >= TrainRank /\ b = 4 * q + s
      BY <1>4, <2>3, <2>4
    <3> HIDE DEF q, s, b
    <3>2. /\ TrainPos \in Nat /\ b \in Nat /\ b >= TrainPos
          /\ b > TrainPos <=> s > TrainRank
          /\ b = TrainPos <=> s = TrainRank
      BY <1>2, <1>3, <1>4, <3>1, Counting
    <3> QED BY <3>2 DEF b, s
  <2> QED BY <1>6, <2>4, <2>5
<1> QED BY <1>5, <1>6

LEMMA PredictAdvances ==
  ASSUME TypeOK, StartInv, Clock, Running
  PROVE  /\ PredictPos \in Nat /\ PredictPos' \in Nat /\ PredictPos' >= PredictPos
         /\ PredictReady \/ PredictHidden \/ PredictVisible \/ PredictRated => PredictPos' > PredictPos
         /\ PredictPos' = PredictPos => predictPc' = predictPc
<1> USE DEF TypeOK, PredictType
<1>1. Predict /\ predictPc # "init" /\ puser \in Nat
  BY DEF Running, StartInv, Clock
<1>2. PredictRank \in Nat /\ PredictRank < 8 /\ PredictRank' \in Nat /\ PredictRank' < 8
  BY DEF PredictRank
<1> DEFINE s == PredictRank'
           b == PredictPos'
<1>3. PredictPos = 8 * puser + PredictRank /\ b = 8 * puser' + s /\ s \in Nat /\ s < 8
  BY <1>2 DEF PredictPos
<1>4. CASE PredictNext
  <2>1. puser' = puser + 1
    BY <1>4 DEF PredictNext, PredictUser
  <2> HIDE DEF s, b
  <2>2. PredictPos \in Nat /\ b \in Nat /\ b > PredictPos
    BY <1>1, <1>2, <1>3, <2>1, Counting
  <2> QED BY <2>2 DEF b
<1>5. CASE ~PredictNext
  <2>1. puser' = puser
    BY <1>1, <1>5 DEF Predict, PredictStart, PredictAccept, PredictReleased, PredictOutputDone,
       PredictHidden, PredictVisible, PredictRate, PredictRated, PredictTaken, PredictWaits, predictVars
  <2>2. /\ s >= PredictRank
        /\ PredictReady \/ PredictHidden \/ PredictVisible \/ PredictRated => s > PredictRank
        /\ s = PredictRank => predictPc' = predictPc
    BY <1>1, <1>5 DEF Predict, PredictStart, PredictAccept, PredictReleased, PredictOutputDone,
       PredictHidden, PredictVisible, PredictRate, PredictRated, PredictTaken, PredictWaits, predictVars,
       PredictRank, PredictReady
  <2> HIDE DEF s, b
  <2>3. /\ PredictPos \in Nat /\ b \in Nat
        /\ b > PredictPos <=> s > PredictRank
        /\ b >= PredictPos <=> s >= PredictRank
        /\ b = PredictPos <=> s = PredictRank
    BY <1>1, <1>2, <1>3, <2>1, Counting
  <2>4. /\ b \in Nat /\ b >= PredictPos
        /\ PredictReady \/ PredictHidden \/ PredictVisible \/ PredictRated => b > PredictPos
        /\ b = PredictPos => predictPc' = predictPc
    BY <2>2, <2>3
  <2> QED BY <2>3, <2>4 DEF b
<1> QED BY <1>4, <1>5

LEMMA StoreAdvances ==
  ASSUME TypeOK, StartInv, SignalInv, PredictStoreInv, Clock, Running
  PROVE  /\ StorePos \in Nat /\ StorePos' \in Nat /\ StorePos' >= StorePos
         /\ StoreReady \/ StoreLastPut => StorePos' > StorePos
         /\ wr_grant' /\ ~wr_grant => StorePos' > StorePos
         /\ StorePos' = StorePos => storePc' = storePc
<1> USE DEF TypeOK, StoreType, DmaType
<1>1. /\ Store /\ storePc # "init" /\ sindex \in Nat /\ (storePc \in {"grant", "put"} => sindex > 0)
      /\ wr_grant' => storePc = "grant"
      /\ wr_grant /\ storePc = "grant" => wr_grant'
  BY DEF Running, StartInv, PredictStoreInv, Clock, Dma, Grants, SignalInv, StoreSignals
<1>2. StoreRank \in Nat /\ StoreRank < 5 /\ StoreRank' \in Nat /\ StoreRank' < 5
  BY DEF StoreRank
<1> DEFINE p == Stored
           q == Stored'
           s == StoreRank'
           b == StorePos'
<1>3. StorePos = 5 * p + StoreRank /\ b = 5 * q + s /\ s \in Nat /\ s < 5
  BY <1>2 DEF StorePos
<1>4. p \in Nat
  BY <1>1 DEF Stored
<1>5. CASE StoreLastPut
  <2>1. q = p + 1
    BY <1>1, <1>5 DEF StoreLastPut, StoreUser, Stored
  <2> HIDE DEF p, q, s, b
  <2>2. StorePos \in Nat /\ b \in Nat /\ b > StorePos
    BY <1>2, <1>3, <1>4, <2>1, Counting
  <2> QED BY <2>2 DEF b
<1>6. CASE ~StoreLastPut
  <2>1. q = p
    BY <1>1, <1>6 DEF Store, StoreStart, StoreAccept, StoreReleased, StoreGranted, StoreWaits,
       storeVars, Stored
  <2>2. /\ s >= StoreRank
        /\ StoreReady => s > StoreRank
        /\ wr_grant' /\ ~wr_grant => s > StoreRank
        /\ s = StoreRank => storePc' = storePc
    BY <1>1, <1>6 DEF Store, StoreStart, StoreAccept, StoreReleased, StoreGranted, StoreWaits,
       storeVars, StoreRank, StoreReady
  <2> HIDE DEF p, q, s, b
  <2>3. /\ StorePos \in Nat /\ b \in Nat
        /\ b > StorePos <=> s > StoreRank
        /\ b >= StorePos <=> s >= StoreRank
        /\ b = StorePos <=> s = StoreRank
    BY <1>2, <1>3, <1>4, <2>1, Counting
  <2>4. /\ b \in Nat /\ b >= StorePos
        /\ StoreReady => b > StorePos
        /\ wr_grant' /\ ~wr_grant => b > StorePos
        /\ b = StorePos => storePc' = storePc
    BY <2>2, <2>3
  <2> QED BY <1>6, <2>3, <2>4 DEF b
<1> QED BY <1>5, <1>6

(* If no thread can act, load has nothing more to fetch: then train_rbm,   *)
(* predict_rbm and store have each taken what was offered, to the last.    *)
LEMMA NeverStuckOfInv == ThreadInv /\ LoadStops => NeverStuck
<1> SUFFICES ASSUME ThreadInv, LoadStops, init_done, JobHasWork,
                    ~HandshakeOver, loadPc # "fill", storePc # "put", ~Training, ~Predicting,
                    rd_request => rd_grant, wr_request => wr_grant
             PROVE  Finished
  BY DEF NeverStuck
<1> USE DEF ThreadInv, TypeOK, LoadType, TrainType, PredictType, StoreType
<1>1. /\ Running /\ conf.users \in Nat /\ conf.loops \in Nat /\ conf.tests \in Nat
      /\ LoadSignals /\ TrainSignals /\ PredictSignals /\ StoreSignals
      /\ loadPc # "init" /\ trainPc # "init" /\ predictPc # "init" /\ storePc # "init"
  BY ConfigBounds DEF HandshakeOver, Running, StartInv, SignalInv
<1>2. loadPc # "grant" /\ storePc # "grant"
  BY <1>1 DEF LoadSignals, StoreSignals, HandshakeOver, LoadReady, StoreReady
<1>3. predictPc \in {"input", "release", "idle"}
  BY <1>1, <1>2 DEF Predicting, HandshakeOver, PredictReady, StoreReady, PredictStoreInv,
     PredictSignals, StoreSignals
<1>4. trainPc \in {"input", "done"}
  BY <1>1 DEF Training, HandshakeOver, TrainReady, LoadReady, UserStarted, LoadSignals, TrainSignals
<1>5. predictPc \in {"input", "idle"}
  BY <1>1, <1>3 DEF HandshakeOver, PredictReady, LoadReady, UserStarted, LoadSignals, PredictSignals
<1>6. loop_count = conf.loops /\ trainPc = "done"
  <2>1. ASSUME loop_count < conf.loops PROVE FALSE
    <3>1. loadPc = "offer" /\ trainPc = "input"
      BY <1>1, <1>2, <1>4, <2>1 DEF LoadTrainInv
    <3>2. train_input_done
      BY <1>1, <2>1, <3>1 DEF LoadSignals
    <3> QED BY <3>1, <3>2 DEF HandshakeOver, TrainReady
  <2>2. loop_count \in Nat /\ loop_count <= conf.loops
    BY <1>1 DEF LoadTrainInv
  <2>3. loop_count = conf.loops
    BY <1>1, <2>1, <2>2
  <2> QED BY <1>1, <1>4, <2>3 DEF LoadTrainInv
<1>7. loadPc # "await_train"
  BY <1>1, <1>6 DEF HandshakeOver, LoadReady, TrainSignals
<1>8. loadPc # "release"
  BY <1>1, <1>5, <1>6 DEF HandshakeOver, LoadReady, UserStarted, PredictSignals
<1>9. loadPc # "offer"
  <2> SUFFICES ASSUME loadPc = "offer" PROVE FALSE
    OBVIOUS
  <2>1. predict_input_done
    BY <1>1, <1>6 DEF LoadSignals
  <2>2. predictPc = "idle"
    BY <1>5, <2>1 DEF HandshakeOver, PredictReady
  <2>3. index = conf.tests
    BY <1>1, <1>6, <2>2 DEF LoadPredictInv
  <2> QED BY <1>1, <1>6, <2>3 DEF LoadStops
<1>10. loadPc = "done"
  BY <1>1, <1>2, <1>7, <1>8, <1>9
<1>11. predictPc = "idle"
  BY <1>1, <1>5, <1>6, <1>10 DEF LoadPredictInv
<1>12. storePc = "done"
  BY <1>1, <1>2, <1>11 DEF PredictStoreInv
<1> QED BY <1>1, <1>6, <1>10, <1>11, <1>12 DEF Finished, StoreSignals

(* The counts of a job are natural numbers and have an end.                *)
LEMMA WorkType ==
  ThreadInv => Work \in Nat /\ (Running => Work > 0) /\ WorkBounded
<1> SUFFICES ASSUME ThreadInv PROVE Work \in Nat /\ (Running => Work > 0) /\ WorkBounded
  OBVIOUS
<1> USE DEF ThreadInv
<1>1. CASE ~Running
  <2>1. Work = 0
    BY <1>1 DEF Work
  <2>2. init_done => WorkLimit \in Nat
    <3>1. ASSUME NEW a \in Nat, NEW b \in Nat, NEW c \in Nat PROVE 10 * (a * b) + 19 * c + 20 \in Nat
      BY <3>1
    <3> QED BY <3>1, ConfigBounds DEF StartInv, WorkLimit
  <2> QED BY <1>1, <2>1, <2>2 DEF WorkBounded
<1>2. CASE Running
  <2> DEFINE U == conf.users
             L == conf.loops
             T == conf.tests
             lu == L * U
  <2>1. U \in Nat /\ U > 0 /\ L \in Nat /\ T \in Nat /\ lu \in Nat
    <3>1. ASSUME NEW a \in Nat, NEW b \in Nat PROVE a * b \in Nat
      BY <3>1
    <3> QED BY <1>2, <3>1, ConfigBounds DEF StartInv
  <2>2. ASSUME NEW l \in Nat, NEW i \in Nat, l <= L, l < L => i <= U, l = L => i <= T
        PROVE  l * U + i \in Nat /\ l * U + i <= lu + T
    <3> HIDE DEF U, L, T, lu
    <3>1. l * U \in Nat
      BY <2>1, <2>2
    <3>2. CASE l = L
      BY <2>1, <2>2, <3>1, <3>2 DEF lu
    <3>3. CASE l < L
      <4>1. (L - l) \in Nat /\ L - l >= 1
        BY <2>1, <2>2, <3>3
      <4>2. lu = l * U + (L - l) * U /\ (L - l) * U >= U
        <5>1. ASSUME NEW e \in Nat, e >= 1 PROVE (l + e) * U = l * U + e * U /\ e * U >= U
          BY <2>1, <2>2, <5>1
        <5>2. l + (L - l) = L
          BY <2>1, <2>2
        <5> QED BY <4>1, <5>1, <5>2 DEF lu
      <4> DEFINE x == l * U
                 y == (L - l) * U
      <4>3. x \in Nat /\ y \in Nat /\ lu = x + y /\ y >= U /\ i <= U
        BY <2>1, <2>2, <3>1, <3>3, <4>1, <4>2
      <4> HIDE DEF x, y
      <4>4. x + i <= lu + T /\ x + i \in Nat
        BY <2>1, <2>2, <4>3
      <4> QED BY <4>4 DEF x
    <3> QED BY <2>1, <2>2, <3>2, <3>3
  <2>3. LoadPlace \in Nat /\ LoadPlace <= lu + T
    <3>1. /\ loop_count \in Nat /\ index \in Nat /\ loop_count <= L
          /\ loop_count < L => index <= U
          /\ loop_count = L => index <= T
      BY <1>2, <2>1 DEF LoadTrainInv, LoadPredictInv, TypeOK, LoadType
    <3> HIDE DEF U, L, T, lu
    <3>2. loop_count * U + index \in Nat /\ loop_count * U + index <= lu + T
      BY <2>2, <3>1
    <3> QED BY <3>2 DEF LoadPlace, U
  <2>4. TrainPlace \in Nat /\ TrainPlace <= lu
    <3>1. /\ current_loop \in Nat /\ user \in Nat /\ current_loop <= L
          /\ user < U
          /\ current_loop = L => user = 0
      BY <1>2, <2>1 DEF LoadTrainInv, TypeOK, TrainType
    <3> DEFINE m == current_loop * U
    <3> HIDE DEF U, L, T, lu
    <3>2. m \in Nat
      BY <2>1, <3>1
    <3>3. CASE current_loop = L
      <4>1. m + user = lu
        BY <2>1, <3>1, <3>2, <3>3 DEF lu
      <4> QED BY <2>1, <4>1 DEF TrainPlace, U
    <3>4. CASE current_loop < L
      <4>1. L >= current_loop + 1 /\ (current_loop + 1) * U = m + U
        BY <2>1, <3>1, <3>4, NextMultiple
      <4>2. ASSUME NEW a \in Nat, NEW b \in Nat, a <= b PROVE a * U <= b * U
        <5>1. b - a \in Nat /\ (b - a) * U \in Nat /\ (a + (b - a)) * U = a * U + (b - a) * U
          BY <2>1, <4>2
        <5>2. a + (b - a) = b /\ a * U \in Nat
          BY <2>1, <4>2
        <5> QED BY <5>1, <5>2
      <4>3. m + U <= lu
        BY <2>1, <3>1, <4>1, <4>2 DEF lu
      <4> HIDE DEF m
      <4>4. m + user \in Nat /\ m + user <= lu
        BY <2>1, <3>1, <3>2, <4>3
      <4> QED BY <4>4 DEF TrainPlace, m, U
    <3> QED BY <2>1, <3>1, <3>3, <3>4
  <2>5. puser \in Nat /\ puser <= T
    BY <1>2 DEF LoadPredictInv, TypeOK, PredictType
  <2>6. Stored \in Nat /\ Stored <= T
    BY <1>2, <2>1 DEF LoadPredictInv, PredictStoreInv, TypeOK, PredictType, StoreType, Stored
  <2>7. /\ LoadRank \in Nat /\ LoadRank <= 5 /\ TrainRank \in Nat /\ TrainRank <= 3
        /\ PredictRank \in Nat /\ PredictRank <= 7 /\ StoreRank \in Nat /\ StoreRank <= 4
    BY DEF LoadRank, TrainRank, PredictRank, StoreRank
  <2>8. /\ Work = 1 + (6 * LoadPlace + LoadRank) + (4 * TrainPlace + TrainRank)
                  + (8 * puser + PredictRank) + (5 * Stored + StoreRank)
        /\ WorkLimit = 10 * lu + 19 * T + 20
    BY <1>2 DEF Work, LoadPos, TrainPos, PredictPos, StorePos, WorkLimit
  <2> HIDE DEF U, L, T, lu
  <2>9. Work \in Nat /\ Work > 0 /\ Work <= WorkLimit
    BY <2>1, <2>3, <2>4, <2>5, <2>6, <2>7, <2>8
  <2> QED BY <2>9 DEF WorkBounded
<1> QED BY <1>1, <1>2

LEMMA WorkTypeNext == (ThreadInv => Work \in Nat /\ (Running => Work > 0) /\ WorkBounded)'
  BY WorkType, PTL

(* A clock edge never takes work back, and adds to it if a wait is over or *)
(* a transfer, a computation or a grant comes to its end.                  *)
LEMMA WorkGrows ==
  ASSUME ThreadInv, Clock
  PROVE  /\ Work \in Nat /\ Work' \in Nat /\ Work' >= Work
         /\ HandshakeOver => Work' > Work
         /\ LoadLastWord \/ StoreLastPut => Work' > Work
         /\ TrainPositive \/ TrainNegative => Work' > Work
         /\ PredictHidden \/ PredictVisible \/ PredictRated => Work' > Work
         /\ rd_grant' /\ ~rd_grant => Work' > Work
         /\ wr_grant' /\ ~wr_grant => Work' > Work
         /\ Work' = Work =>
              /\ loadPc' = loadPc /\ trainPc' = trainPc
              /\ predictPc' = predictPc /\ storePc' = storePc
<1> USE DEF ThreadInv
<1> DEFINE a == LoadPos'
           b == TrainPos'
           c == PredictPos'
           d == StorePos'
           w == Work'
<1>1. CASE Running
  <2>1. Running'
    BY <1>1, LoadLeaves DEF Running, Clock, TypeOK
  <2>2. Work = 1 + LoadPos + TrainPos + PredictPos + StorePos /\ w = 1 + a + b + c + d
    BY <1>1, <2>1 DEF Work
  <2>3. /\ LoadPos \in Nat /\ a \in Nat /\ a >= LoadPos
        /\ LoadReady \/ LoadLastWord => a > LoadPos
        /\ rd_grant' /\ ~rd_grant => a > LoadPos
        /\ a = LoadPos => loadPc' = loadPc
    BY <1>1, LoadAdvances
  <2>4. /\ TrainPos \in Nat /\ b \in Nat /\ b >= TrainPos
        /\ TrainReady \/ TrainPositive \/ TrainNegative => b > TrainPos
        /\ b = TrainPos => trainPc' = trainPc
    BY <1>1, TrainAdvances
  <2>5. /\ PredictPos \in Nat /\ c \in Nat /\ c >= PredictPos
        /\ PredictReady \/ PredictHidden \/ PredictVisible \/ PredictRated => c > PredictPos
        /\ c = PredictPos => predictPc' = predictPc
    BY <1>1, PredictAdvances
  <2>6. /\ StorePos \in Nat /\ d \in Nat /\ d >= StorePos
        /\ StoreReady \/ StoreLastPut => d > StorePos
        /\ wr_grant' /\ ~wr_grant => d > StorePos
        /\ d = StorePos => storePc' = storePc
    BY <1>1, StoreAdvances
  <2> HIDE DEF a, b, c, d, w
  <2>7. /\ Work \in Nat /\ w \in Nat /\ w >= Work
        /\ a > LoadPos \/ b > TrainPos \/ c > PredictPos \/ d > StorePos => w > Work
        /\ w = Work => a = LoadPos /\ b = TrainPos /\ c = PredictPos /\ d = StorePos
    BY <2>2, <2>3, <2>4, <2>5, <2>6
  <2>8. HandshakeOver => LoadReady \/ TrainReady \/ PredictReady \/ StoreReady
    BY <1>1 DEF HandshakeOver, Running
  <2> QED BY <2>3, <2>4, <2>5, <2>6, <2>7, <2>8 DEF w
<1>2. CASE ~Running
  <2>1. loadPc = "init" /\ trainPc = "init" /\ predictPc = "init" /\ storePc = "init" /\ Work = 0
        /\ ~rd_grant /\ ~wr_grant
    BY <1>2 DEF StartInv, Running, Work, SignalInv, GrantInv
  <2>2. /\ ~rd_grant' /\ ~wr_grant'
    BY <2>1 DEF Clock, Dma, Grants, SignalInv, LoadSignals, StoreSignals, TypeOK, LoadType, StoreType
  <2>3. CASE Running'
    <3>1. ThreadInv'
      BY ThreadStep DEF Next
    <3>2. w > 0 /\ w \in Nat
      BY <2>3, <3>1, WorkTypeNext
    <3> HIDE DEF w
    <3>3. Work \in Nat /\ w \in Nat /\ w > Work
      BY <2>1, <3>2
    <3> QED BY <3>3 DEF w
  <2>4. CASE ~Running'
    <3>1. Work' = 0
      BY <2>4 DEF Work
    <3>2. /\ loadPc' = "init" /\ ~init_done
      BY <2>4, LoadLeaves, <2>1 DEF Running, Clock, TypeOK
    <3>3. /\ trainPc' = "init" /\ predictPc' = "init" /\ storePc' = "init"
      BY <2>1, <3>2, TrainLeaves, PredictLeaves, StoreLeaves DEF Clock, TypeOK
    <3>4. /\ ~HandshakeOver
      BY <2>1, <3>2 DEF HandshakeOver, LoadReady, TrainReady, PredictReady, StoreReady
    <3>5. ~(LoadLastWord \/ StoreLastPut \/ TrainPositive \/ TrainNegative \/ PredictHidden
            \/ PredictVisible \/ PredictRated)
      BY <2>1 DEF LoadLastWord, StoreLastPut, TrainPositive, TrainNegative, PredictHidden, PredictVisible,
         PredictRated
    <3> QED BY <2>1, <2>2, <3>1, <3>2, <3>3, <3>4, <3>5
  <2> QED BY <2>3, <2>4
<1> QED BY <1>1, <1>2

(* What a step does to a job that is not done: the job is reset, finished  *)
(* or further on, or no thread has moved.                                  *)
Pending(n) == ThreadInv /\ LoadStops /\ init_done /\ JobHasWork /\ ~Finished /\ Work = n
Further(n) == ~init_done \/ Finished \/ Work > n
LEMMA PendingStep ==
  ASSUME NEW n \in Nat, Pending(n), [Next]_vars
  PROVE  \/ Further(n)'
         \/ /\ Pending(n)' /\ ~Clock /\ UNCHANGED vars
         \/ /\ Pending(n)' /\ Clock /\ Work' = Work
            /\ UNCHANGED <<loadPc, trainPc, predictPc, storePc>>
<1>1. CASE Clock
  <2>1. conf' = conf /\ init_done' /\ JobHasWork'
    BY <1>1, ConfKept DEF Pending, ThreadInv, JobHasWork
  <2>2. ThreadInv' /\ LoadStops'
    BY <1>1, ThreadStep, LoadStopsStep DEF Pending, Next, ThreadInv
  <2> DEFINE w == Work'
  <2>3. /\ Work = n /\ w \in Nat /\ w >= Work
        /\ w = Work => UNCHANGED <<loadPc, trainPc, predictPc, storePc>>
    BY <1>1, WorkGrows DEF Pending
  <2> HIDE DEF w
  <2>4. CASE w > n
    <3>1. (Work > n)'
      BY <2>4 DEF w
    <3> QED BY <3>1 DEF Further
  <2>5. CASE w = n
    <3>1. Work' = Work /\ (Work = n)'
      BY <2>3, <2>5 DEF w
    <3>2. Finished' \/ Pending(n)'
      BY <2>1, <2>2, <3>1 DEF Pending
    <3>3. w = Work
      BY <2>3, <2>5
    <3> QED BY <1>1, <2>3, <3>1, <3>2, <3>3 DEF Further
  <2>6. w > n \/ w = n
    BY <2>3
  <2> QED BY <2>4, <2>5, <2>6
<1>2. CASE Reset
  BY <1>2 DEF Reset, Further
<1>3. CASE UNCHANGED vars
  <2>1. CASE Clock
    BY <1>1, <2>1
  <2>2. CASE ~Clock
    <3>1. ThreadInv'
      BY <1>3, StutterStep DEF Pending
    <3>2. /\ LoadStops' = LoadStops /\ init_done' = init_done /\ JobHasWork' = JobHasWork
          /\ Finished' = Finished /\ Work' = Work
      BY <1>3 DEF LoadStops, JobHasWork, Finished, Work, Running, LoadPos, TrainPos, PredictPos,
         StorePos, LoadPlace, TrainPlace, LoadRank, TrainRank, PredictRank, StoreRank, Stored,
         vars, configVars, loadVars, trainVars, predictVars, storeVars, dmaVars
    <3> QED BY <1>3, <2>2, <3>1, <3>2 DEF Pending
  <2> QED BY <2>1, <2>2
<1> QED BY <1>1, <1>2, <1>3 DEF Next

LEMMA ProgressInvariant == Spec => [](ThreadInv /\ LoadStops)
<1>1. Init => ThreadInv /\ LoadStops
  BY InvInit DEF Init, LoadStops, Running
<1>2. ThreadInv /\ LoadStops /\ [Next]_vars => (ThreadInv /\ LoadStops)'
  <2> SUFFICES ASSUME ThreadInv, LoadStops, [Next]_vars PROVE ThreadInv' /\ LoadStops'
    OBVIOUS
  <2>1. CASE Clock
    BY <2>1, ThreadStep, LoadStopsStep DEF ThreadInv
  <2>2. CASE Reset
    BY <2>2, ThreadStep, ResetStep DEF LoadStops, ThreadInv
  <2>3. CASE UNCHANGED vars
    BY <2>3, ThreadStep DEF LoadStops, Running, JobHasWork, vars, configVars, loadVars
  <2> QED BY <2>1, <2>2, <2>3 DEF Next
<1> QED BY <1>1, <1>2, PTL DEF Spec

(* The five threads and the DMA never wait for one another all at once: a  *)
(* job that has work and is not finished always has a thread whose wait is *)
(* over, a transfer or computation under way, or a request the DMA may     *)
(* grant.                                                                  *)
THEOREM HandshakesNeverBlock == Spec => []NeverStuck
<1>1. ThreadInv /\ LoadStops => NeverStuck
  BY NeverStuckOfInv
<1> QED BY <1>1, ProgressInvariant, PTL

(* No clock edge takes back what the threads have done for a job, and the  *)
(* work of a job is bounded: no thread ever goes round in circles.         *)
THEOREM WorkStaysBounded == Spec => []WorkBounded /\ WorkKept
<1>1. ThreadInv /\ [Next]_vars => [Clock => Work' >= Work]_vars
  BY WorkGrows
<1>2. ThreadInv => WorkBounded
  BY WorkType
<1> QED BY <1>1, <1>2, ThreadsInStep, PTL DEF Spec, WorkKept

(* With the fairness of FairSpec, a job that is not done and not reset is  *)
(* taken further: with WorkStaysBounded, which lets this happen only       *)
(* WorkLimit times, it is finished in the end (the step of JobEnds).       *)
THEOREM JobComesNearer ==
  ASSUME NEW n \in Nat
  PROVE  Spec /\ StepsTaken =>
           ((init_done /\ JobHasWork /\ ~Finished /\ Work = n)
              ~> (~init_done \/ Finished \/ Work > n))
<1> DEFINE P == Pending(n)
           Q == Further(n)
           R == rd_request /\ ~rd_grant
           S == wr_request /\ ~wr_grant
           fill == loadPc = "fill"
           put == storePc = "put"
<1>1. P /\ [Next]_vars => P' \/ Q'
  BY PendingStep
<1>2. P => HandshakeOver \/ R \/ S \/ fill \/ put \/ Training \/ Predicting
  BY NeverStuckOfInv DEF Pending, NeverStuck
<1>3. /\ P /\ HandshakeOver /\ [Next]_vars => HandshakeOver' \/ Q'
      /\ P /\ HandshakeOver /\ <<Clock>>_vars => Q'
  <2>1. P /\ HandshakeOver /\ Clock => Q'
    BY WorkGrows DEF Pending, Further
  <2>2. HandshakeOver /\ UNCHANGED vars => HandshakeOver'
    BY DEF HandshakeOver, LoadReady, TrainReady, PredictReady, StoreReady, UserStarted,
       vars, configVars, loadVars, trainVars, predictVars, storeVars, dmaVars
  <2> QED BY <2>1, <2>2, PendingStep
<1>4. /\ P /\ R /\ [Next]_vars => R' \/ Q'
      /\ P /\ R /\ <<Clock /\ rd_grant' # rd_grant>>_vars => Q'
      /\ P /\ R => rd_request # rd_grant
  <2>1. P /\ R /\ Clock /\ rd_grant' => Q'
    BY WorkGrows DEF Pending, Further
  <2>2. P => (rd_request <=> loadPc = "grant") /\ rd_request \in BOOLEAN /\ rd_grant \in BOOLEAN
    BY DEF Pending, ThreadInv, SignalInv, LoadSignals, TypeOK, LoadType, DmaType
  <2>3. P' => (rd_request' <=> loadPc' = "grant") /\ rd_grant' \in BOOLEAN
    BY DEF Pending, ThreadInv, SignalInv, LoadSignals, TypeOK, LoadType, DmaType
  <2>4. P /\ R /\ [Next]_vars => R' \/ Q'
    <3>1. P /\ [Next]_vars => \/ Q'
                              \/ P' /\ UNCHANGED <<rd_request, rd_grant>>
                              \/ P' /\ Clock /\ UNCHANGED loadPc
      BY PendingStep DEF vars, loadVars, dmaVars
    <3> QED BY <2>1, <2>2, <2>3, <3>1
  <2>5. P /\ R /\ Clock /\ rd_grant' # rd_grant => Q'
    <3>1. Clock => rd_grant' \in BOOLEAN \/ rd_grant' = (rd_grant /\ rd_request)
      BY DEF Clock, Dma, Grants
    <3> QED BY <2>1, <2>2, <3>1
  <2>6. ASSUME P, R PROVE rd_request # rd_grant
    <3>1. rd_request = TRUE
      BY <2>2, <2>6
    <3>2. rd_grant = FALSE
      BY <2>2, <2>6
    <3> QED BY <3>1, <3>2
  <2> QED BY <2>4, <2>5, <2>6
<1>5. /\ P /\ S /\ [Next]_vars => S' \/ Q'
      /\ P /\ S /\ <<Clock /\ wr_grant' # wr_grant>>_vars => Q'
      /\ P /\ S => wr_request # wr_grant
  <2>1. P /\ S /\ Clock /\ wr_grant' => Q'
    BY WorkGrows DEF Pending, Further
  <2>2. P => (wr_request <=> storePc = "grant") /\ wr_request \in BOOLEAN /\ wr_grant \in BOOLEAN
    BY DEF Pending, ThreadInv, SignalInv, StoreSignals, TypeOK, StoreType, DmaType
  <2>3. P' => (wr_request' <=> storePc' = "grant") /\ wr_grant' \in BOOLEAN
    BY DEF Pending, ThreadInv, SignalInv, StoreSignals, TypeOK, StoreType, DmaType
  <2>4. P /\ S /\ [Next]_vars => S' \/ Q'
    <3>1. P /\ [Next]_vars => \/ Q'
                              \/ P' /\ UNCHANGED <<wr_request, wr_grant>>
                              \/ P' /\ Clock /\ UNCHANGED storePc
      BY PendingStep DEF vars, storeVars, dmaVars
    <3> QED BY <2>1, <2>2, <2>3, <3>1
  <2>5. P /\ S /\ Clock /\ wr_grant' # wr_grant => Q'
    <3>1. Clock => wr_grant' \in BOOLEAN \/ wr_grant' = (wr_grant /\ wr_request)
      BY DEF Clock, Dma, Grants
    <3> QED BY <2>1, <2>2, <3>1
  <2>6. ASSUME P, S PROVE wr_request # wr_grant
    <3>1. wr_request = TRUE
      BY <2>2, <2>6
    <3>2. wr_grant = FALSE
      BY <2>2, <2>6
    <3> QED BY <3>1, <3>2
  <2> QED BY <2>4, <2>5, <2>6
<1>6. /\ P /\ fill /\ [Next]_vars => fill' \/ Q'
      /\ P /\ put /\ [Next]_vars => put' \/ Q'
      /\ P /\ Training /\ [Next]_vars => Training' \/ Q'
      /\ P /\ Predicting /\ [Next]_vars => Predicting' \/ Q'
  BY PendingStep DEF Training, Predicting, vars, loadVars, trainVars, predictVars, storeVars
<1>7. /\ P /\ <<Clock /\ LoadLastWord>>_vars => Q'
      /\ P /\ <<Clock /\ StoreLastPut>>_vars => Q'
      /\ P /\ <<Clock /\ (TrainPositive \/ TrainNegative)>>_vars => Q'
      /\ P /\ <<Clock /\ (PredictHidden \/ PredictVisible \/ PredictRated)>>_vars => Q'
  BY WorkGrows DEF Pending, Further
<1>8. ThreadInv /\ LoadStops /\ init_done /\ JobHasWork /\ ~Finished /\ Work = n => P
  BY DEF Pending
<1>9. Q <=> ~init_done \/ Finished \/ Work > n
  BY DEF Further
<1> HIDE DEF P, Q
<1> QED BY <1>1, <1>2, <1>3, <1>4, <1>5, <1>6, <1>7, <1>8, <1>9, ProgressInvariant, PTL
     DEF Spec, StepsTaken
=============================================================================
