---------------------------- MODULE RbmAccelInv ----------------------------
(***************************************************************************)
(* The inductive invariant behind the safety properties of RbmAccel, one   *)
(* part per signal group, pair of threads, or buffer.                      *)
(***************************************************************************)
EXTENDS RbmAccel

Running == loadPc # "init"

(* The threads start together, at the clock edge after init_done, ...      *)
StartInv ==
  /\ Running => init_done
  /\ (Running <=> trainPc # "init")
  /\ (Running <=> predictPc # "init")
  /\ (Running <=> storePc # "init")
  /\ ~Running => index = 0 /\ loop_count = 0 /\ user = 0 /\ current_loop = 0
                 /\ puser = 0 /\ sindex = 0 /\ written = <<>>
  /\ init_done => conf \in Configs

(* ... and a handshake signal is up exactly while its writer is at the     *)
(* step that keeps it up.                                                  *)
LoadSignals ==
  /\ train_input_done <=> (loadPc = "offer" /\ loop_count # conf.loops)
  /\ predict_input_done <=> (loadPc = "offer" /\ loop_count = conf.loops)
  /\ rd_request <=> loadPc = "grant"
TrainSignals ==
  /\ train_start <=> trainPc = "release"
  /\ train_done <=> trainPc = "done"
PredictSignals ==
  /\ predict_start <=> predictPc = "release"
  /\ predict_done <=> predictPc = "offer"
StoreSignals ==
  /\ output_start <=> storePc = "release"
  /\ output_done <=> storePc \notin {"grant", "put"}
  /\ done <=> storePc = "done"
  /\ wr_request <=> storePc = "grant"
GrantInv ==
  /\ rd_grant => loadPc \in {"grant", "fill"}
  /\ wr_grant => storePc \in {"grant", "put"}
SignalInv == LoadSignals /\ TrainSignals /\ PredictSignals /\ StoreSignals /\ GrantInv

(* load and train_rbm are at the same user during a handshake; while       *)
(* train_rbm computes load is at the next one.                             *)
SameUser == loop_count = current_loop /\ index = user
NextUser ==
  IF user + 1 < conf.users THEN loop_count = current_loop /\ index = user + 1
                           ELSE loop_count = current_loop + 1 /\ index = 0
LoadTrainInv ==
  Running =>
    /\ current_loop <= conf.loops /\ loop_count <= conf.loops /\ user < conf.users
    /\ (trainPc = "done" <=> current_loop = conf.loops)
    /\ trainPc = "done" => user = 0
    /\ loop_count < conf.loops =>
         /\ index < conf.users
         /\ \/ SameUser /\ \/ loadPc \in {"grant", "fill"} /\ trainPc = "input"
                           \/ loadPc = "offer" /\ trainPc \in {"input", "release"}
                           \/ loadPc = "release" /\ trainPc \in {"release", "positive"}
            \/ NextUser /\ loadPc \in {"grant", "fill", "offer"} /\ trainPc \in {"positive", "negative"}
    /\ loop_count = conf.loops /\ trainPc # "done" =>
         /\ index = 0 /\ loadPc \in {"await_train", "done"}
         /\ NextUser /\ trainPc \in {"positive", "negative"}

(* Likewise load and predict_rbm, except that predict_rbm may first wait   *)
(* for store.                                                              *)
LoadPredictInv ==
  Running =>
    /\ puser <= conf.tests
    /\ (predictPc = "idle" <=> puser = conf.tests)
    /\ loop_count < conf.loops => puser = 0 /\ predictPc \in {"input", "idle"} /\ loadPc # "await_train"
    /\ loadPc = "done" => loop_count = conf.loops /\ index = conf.tests
    /\ loop_count = conf.loops =>
         /\ index <= conf.tests
         /\ \/ /\ index = puser /\ predictPc \in {"input", "idle"}
               /\ loadPc \in {"await_train", "grant", "fill", "offer", "done"}
            \/ index = puser /\ predictPc = "release" /\ loadPc \in {"offer", "release"}
            \/ index = puser /\ predictPc = "output" /\ loadPc = "release"
            \/ /\ index = puser + 1 /\ predictPc \in {"output", "hidden", "visible", "rate", "offer", "taken"}
               /\ loadPc \in {"await_train", "grant", "fill", "offer", "done"}

(* store is at predict_rbm's user, and predict_rbm goes on with the next   *)
(* one only as far as the wait for output_done.                            *)
PredictStoreInv ==
  Running =>
    /\ storePc = "result" => sindex < conf.tests
    /\ storePc = "done" => sindex = conf.tests
    /\ \/ predictPc \in {"input", "release", "output"} /\ storePc \in {"result", "grant", "put"} /\ sindex = puser
       \/ predictPc = "idle" /\ storePc \in {"grant", "put", "done"} /\ sindex = puser
       \/ predictPc \in {"hidden", "visible", "rate"} /\ storePc = "result" /\ sindex = puser
       \/ predictPc = "offer" /\ storePc \in {"result", "release"} /\ sindex = puser
       \/ predictPc = "taken" /\ storePc = "release" /\ sindex = puser
       \/ predictPc = "taken" /\ storePc = "grant" /\ sindex = puser + 1 /\ ~wr_grant
    /\ storePc \in {"grant", "put"} => sindex > 0

(* A record is in its half of the buffer from the end of its transfer      *)
(* until its user is done with it.                                         *)
Record(i, loop) == IF loop = conf.loops THEN TestRecord(i) ELSE i
DataInv ==
  Running =>
    /\ loadPc \in {"await_train", "grant", "fill"} => rd_index = Record(index, loop_count)
    /\ rd_grant \/ loadPc = "fill" => rd_from = Record(index, loop_count)
    /\ loadPc \in {"offer", "release"} =>
         data[Pingpong(loop_count, index)] = Record(index, loop_count)
    /\ trainPc \in {"positive", "negative"} => data[Pingpong(current_loop, user)] = user
    /\ trainPc = "negative" => seen = user
    /\ predictPc \in {"output", "hidden"} =>
         data[Pingpong(conf.loops, puser)] = TestRecord(puser)

(* The weights have learnt from every record trained on so far.            *)
Learnt(n) == [k \in 1..n |-> (k - 1) % conf.users]
EdgesInv == Running => edges = Learnt(current_loop * conf.users + user)

(* The result on its way to memory, and those that are there.              *)
ResultOf(j) == [rec |-> TestRecord(j), edges |-> edges]
ResultInv ==
  Running =>
    /\ predictPc \in {"visible", "rate"} => hidden = ResultOf(puser)
    /\ predictPc \in {"offer", "taken"} => predict_result = ResultOf(puser)
    /\ storePc \in {"grant", "put"} =>
         predict_result = ResultOf(sindex - 1) /\ wr_index = sindex - 1
    /\ wr_grant \/ storePc = "put" => wr_to = sindex - 1
    /\ storePc = "put" => reading = predict_result

Stored == IF storePc \in {"grant", "put"} THEN sindex - 1 ELSE sindex
WrittenInv ==
  Running =>
    /\ sindex > 0 => trainPc = "done"
    /\ written = [k \in 1..Stored |-> [at |-> k - 1, what |-> ResultOf(k - 1)]]

IInv ==
  /\ TypeOK /\ StartInv /\ SignalInv
  /\ LoadTrainInv /\ LoadPredictInv /\ PredictStoreInv
  /\ DataInv /\ EdgesInv /\ ResultInv /\ WrittenInv
=============================================================================
