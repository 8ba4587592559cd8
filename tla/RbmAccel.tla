------------------------------ MODULE RbmAccel ------------------------------
(***************************************************************************)
(* The RBM accelerator of accls/RBM/SystemC/rbm.cpp: five clocked threads  *)
(* (config, load, train_rbm, predict_rbm, store), the four-phase           *)
(* handshakes between them, the two halves of the input buffer and the     *)
(* result buffer, with the DMA controller as environment. All threads run  *)
(* at each clock edge on the signal values before it, so a clock edge is   *)
(* the conjunction of one step of each. A thread suspended in a            *)
(* "do wait() while" loop goes on only when the signal it sees allows it;  *)
(* computations and DMA transfers take any number of cycles.               *)
(***************************************************************************)
EXTENDS Integers, Sequences

CONSTANTS
  MaxUsers, MaxLoops, MaxTests, \* bounds of the configurations
  MaxResets                     \* times rst is pulled after power-up

ASSUME BoundAssumption ==
  MaxUsers \in Nat /\ MaxLoops \in Nat /\ MaxTests \in Nat /\ MaxResets \in Nat

(* num_users, num_loops and num_testusers; records are 5 * num_movies      *)
(* ratings long. No configuration without training users is started.       *)
Configs == [users : 1..MaxUsers, loops : 0..MaxLoops, tests : 0..MaxTests]

VARIABLES
  conf, init_done,                                       \* config
  loadPc, index, loop_count, rd_index, rd_request,       \* load
  train_input_done, predict_input_done,
  trainPc, user, current_loop, train_start, train_done,  \* train_rbm
  predictPc, puser, predict_start, predict_done,         \* predict_rbm
  storePc, sindex, wr_index, wr_request, output_start, output_done, done, \* store
  data,           \* load's ping-pong buffer: the record each half holds
  edges,          \* the records the weights were trained on, in order
  seen,           \* data train_rbm used for the positive association
  hidden,         \* what predict_rbm computed: record and weights it used
  predict_result, \* predict_rbm's buffer, read by store
  reading,        \* predict_result as store began to read it
  rd_grant, rd_from, wr_grant, wr_to, \* DMA: grants and the latched addresses
  written,        \* history: what the DMA wrote to memory, in order
  resets

configVars  == <<conf, init_done>>
loadVars    == <<loadPc, index, loop_count, rd_index, rd_request,
                 train_input_done, predict_input_done, data>>
trainVars   == <<trainPc, user, current_loop, train_start, train_done, edges, seen>>
predictVars == <<predictPc, puser, predict_start, predict_done, hidden, predict_result>>
storeVars   == <<storePc, sindex, wr_index, wr_request, output_start, output_done, done,
                 reading, written>>
dmaVars     == <<rd_grant, rd_from, wr_grant, wr_to>>
vars == <<configVars, loadVars, trainVars, predictVars, storeVars, dmaVars, resets>>

Torn == -1 \* a buffer that mixes two records, or was never filled
TornResult == [rec |-> Torn, edges |-> <<>>]

(* The code truncates the sum to 16 bits, which keeps its parity.          *)
PingpongPerLoop(loop, u) == u % 2 \* mutant: forgets the loops already done
Pingpong(loop, u) == (loop * conf.users + u) % 2

Init ==
  /\ conf = [users |-> 0, loops |-> 0, tests |-> 0] /\ init_done = FALSE
  /\ loadPc = "init" /\ index = 0 /\ loop_count = 0 /\ rd_index = 0 /\ rd_request = FALSE
  /\ train_input_done = FALSE /\ predict_input_done = FALSE
  /\ data = [p \in 0..1 |-> Torn]
  /\ trainPc = "init" /\ user = 0 /\ current_loop = 0
  /\ train_start = FALSE /\ train_done = FALSE
  /\ edges = <<>> /\ seen = Torn
  /\ predictPc = "init" /\ puser = 0 /\ predict_start = FALSE /\ predict_done = FALSE
  /\ hidden = TornResult /\ predict_result = TornResult
  /\ storePc = "init" /\ sindex = 0 /\ wr_index = 0 /\ wr_request = FALSE
  /\ output_start = FALSE /\ output_done = TRUE /\ done = FALSE
  /\ reading = TornResult /\ written = <<>>
  /\ rd_grant = FALSE /\ rd_from = 0 /\ wr_grant = FALSE /\ wr_to = 0
  /\ resets = 0

------------------------------------------------------------------------------
(* config: latch the configuration when conf_done is seen.                 *)

Configure ==
  /\ ~init_done
  /\ conf' \in Configs
  /\ init_done' = TRUE

Config == Configure \/ UNCHANGED configVars

------------------------------------------------------------------------------
(* load: fetch the records by DMA, training users first, loop by loop,     *)
(* then test users, one buffer half ahead of the thread that uses them.    *)

(* Where the DMA finds a record, in records from the base address.         *)
AddressNoOffset(i, loop) == i \* mutant: test records are read from the training records
AddressBehind(i, loop) == IF loop = conf.loops THEN conf.users + i ELSE i - 1 \* mutant
Address(i, loop) == IF loop = conf.loops THEN conf.users + i ELSE i

(* Test records are only asked for once training is done.                  *)
Fetch(addr, loop) ==
  /\ rd_index' = addr
  /\ IF loop = conf.loops
     THEN loadPc' = "await_train" /\ UNCHANGED rd_request
     ELSE loadPc' = "grant" /\ rd_request' = TRUE

(* The first request of all is sent for index itself.                      *)
LoadStart ==
  /\ loadPc = "init" /\ init_done
  /\ Fetch(index, loop_count)
  /\ UNCHANGED <<index, loop_count, train_input_done, predict_input_done, data>>

LoadTrained ==
  /\ loadPc = "await_train" /\ train_done
  /\ loadPc' = "grant" /\ rd_request' = TRUE
  /\ UNCHANGED <<index, loop_count, rd_index, train_input_done, predict_input_done, data>>

LoadGranted ==
  /\ loadPc = "grant" /\ rd_grant
  /\ loadPc' = "fill" /\ rd_request' = FALSE
  /\ UNCHANGED <<index, loop_count, rd_index, train_input_done, predict_input_done, data>>

LoadWord ==
  /\ loadPc = "fill"
  /\ data' = [data EXCEPT ![Pingpong(loop_count, index)] = Torn]
  /\ UNCHANGED <<loadPc, index, loop_count, rd_index, rd_request, train_input_done, predict_input_done>>

LoadLastWord ==
  /\ loadPc = "fill"
  /\ data' = [data EXCEPT ![Pingpong(loop_count, index)] = rd_from]
  /\ loadPc' = "offer"
  /\ train_input_done' = (loop_count # conf.loops)
  /\ predict_input_done' = (loop_count = conf.loops)
  /\ UNCHANGED <<index, loop_count, rd_index, rd_request>>

UserStarted == IF loop_count # conf.loops THEN train_start ELSE predict_start

LoadTakenEarly == \* mutant: does not wait for the user's thread to start
  /\ loadPc = "offer"
  /\ loadPc' = "release"
  /\ train_input_done' = FALSE /\ predict_input_done' = FALSE
  /\ UNCHANGED <<index, loop_count, rd_index, rd_request, data>>

LoadTaken ==
  /\ loadPc = "offer" /\ UserStarted
  /\ loadPc' = "release"
  /\ train_input_done' = FALSE /\ predict_input_done' = FALSE
  /\ UNCHANGED <<index, loop_count, rd_index, rd_request, data>>

LoadNext ==
  /\ loadPc = "release" /\ ~UserStarted
  /\ LET last == index + 1 = conf.users /\ loop_count # conf.loops
         i    == IF last THEN 0 ELSE index + 1
         loop == IF last THEN loop_count + 1 ELSE loop_count
     IN  /\ index' = i /\ loop_count' = loop
         /\ IF i = conf.tests /\ loop = conf.loops
            THEN loadPc' = "done" /\ UNCHANGED <<rd_index, rd_request>>
            ELSE Fetch(Address(i, loop), loop)
  /\ UNCHANGED <<train_input_done, predict_input_done, data>>

LoadWaits ==
  /\ \/ loadPc = "init" /\ ~init_done
     \/ loadPc = "await_train" /\ ~train_done
     \/ loadPc = "grant" /\ ~rd_grant
     \/ loadPc = "fill" \* data_in.get() has no word yet
     \/ loadPc = "offer" /\ ~UserStarted
     \/ loadPc = "release" /\ UserStarted
     \/ loadPc = "done"
  /\ UNCHANGED loadVars

Load == \/ LoadStart \/ LoadTrained \/ LoadGranted \/ LoadWord \/ LoadLastWord
        \/ LoadTaken \/ LoadNext \/ LoadWaits

------------------------------------------------------------------------------
(* train_rbm: take each training record from load and update the weights.  *)

TrainUserLonger(u, loop) == \* mutant: one loop too many
  /\ user' = u /\ current_loop' = loop
  /\ IF loop = conf.loops + 1
     THEN trainPc' = "done" /\ train_done' = TRUE
     ELSE trainPc' = "input" /\ UNCHANGED train_done

TrainUser(u, loop) ==
  /\ user' = u /\ current_loop' = loop
  /\ IF loop = conf.loops
     THEN trainPc' = "done" /\ train_done' = TRUE
     ELSE trainPc' = "input" /\ UNCHANGED train_done

TrainStartStale == \* mutant: the weights are not reset
  /\ trainPc = "init" /\ init_done
  /\ TrainUser(0, 0)
  /\ UNCHANGED <<train_start, edges, seen>>

TrainStart ==
  /\ trainPc = "init" /\ init_done
  /\ edges' = <<>>
  /\ TrainUser(0, 0)
  /\ UNCHANGED <<train_start, seen>>

TrainAccept ==
  /\ trainPc = "input" /\ train_input_done
  /\ trainPc' = "release" /\ train_start' = TRUE
  /\ UNCHANGED <<user, current_loop, train_done, edges, seen>>

TrainReleased ==
  /\ trainPc = "release" /\ ~train_input_done
  /\ trainPc' = "positive" /\ train_start' = FALSE
  /\ UNCHANGED <<user, current_loop, train_done, edges, seen>>

(* activateHiddenUnits_train and the positive association read data ...    *)
TrainPositive ==
  /\ trainPc = "positive"
  /\ seen' = data[Pingpong(current_loop, user)]
  /\ trainPc' = "negative"
  /\ UNCHANGED <<user, current_loop, train_start, train_done, edges>>

(* ... and so does the negative one, which updates the weights.            *)
TrainNegative ==
  /\ trainPc = "negative"
  /\ edges' = Append(edges, IF data[Pingpong(current_loop, user)] = seen THEN seen ELSE Torn)
  /\ IF user + 1 < conf.users
     THEN TrainUser(user + 1, current_loop)
     ELSE TrainUser(0, current_loop + 1)
  /\ UNCHANGED <<train_start, seen>>

TrainWaits ==
  /\ \/ trainPc = "init" /\ ~init_done
     \/ trainPc = "input" /\ ~train_input_done
     \/ trainPc = "release" /\ train_input_done
     \/ trainPc \in {"positive", "negative"} \* still computing
     \/ trainPc = "done"
  /\ UNCHANGED trainVars

Train == \/ TrainStart \/ TrainAccept \/ TrainReleased
         \/ TrainPositive \/ TrainNegative \/ TrainWaits

------------------------------------------------------------------------------
(* predict_rbm: take each test record from load, wait until the previous   *)
(* result has left, compute the ratings and offer them to store.           *)

PredictUser(u) ==
  /\ puser' = u
  /\ predictPc' = IF u = conf.tests THEN "idle" ELSE "input"

PredictStart ==
  /\ predictPc = "init" /\ init_done
  /\ PredictUser(0)
  /\ UNCHANGED <<predict_start, predict_done, hidden, predict_result>>

PredictAccept ==
  /\ predictPc = "input" /\ predict_input_done
  /\ predictPc' = "release" /\ predict_start' = TRUE
  /\ UNCHANGED <<puser, predict_done, hidden, predict_result>>

PredictReleased ==
  /\ predictPc = "release" /\ ~predict_input_done
  /\ predictPc' = "output" /\ predict_start' = FALSE
  /\ UNCHANGED <<puser, predict_done, hidden, predict_result>>

PredictOutputDone ==
  /\ predictPc = "output" /\ output_done
  /\ predictPc' = "hidden"
  /\ UNCHANGED <<puser, predict_start, predict_done, hidden, predict_result>>

(* activateHiddenUnits_predict reads the record and the weights ...        *)
PredictHidden ==
  /\ predictPc = "hidden"
  /\ hidden' = [rec |-> data[Pingpong(conf.loops, puser)], edges |-> edges]
  /\ predictPc' = "visible"
  /\ UNCHANGED <<puser, predict_start, predict_done, predict_result>>

(* ... and activateVisibleUnits_predict the weights again.                 *)
PredictVisible ==
  /\ predictPc = "visible"
  /\ hidden' = IF hidden.edges = edges THEN hidden ELSE TornResult
  /\ predictPc' = "rate"
  /\ UNCHANGED <<puser, predict_start, predict_done, predict_result>>

PredictRate ==
  /\ predictPc = "rate"
  /\ predict_result' = TornResult
  /\ UNCHANGED <<predictPc, puser, predict_start, predict_done, hidden>>

PredictRated ==
  /\ predictPc = "rate"
  /\ predict_result' = hidden
  /\ predictPc' = "offer" /\ predict_done' = TRUE
  /\ UNCHANGED <<puser, predict_start, hidden>>

PredictTakenKept == \* mutant: predict_done stays up
  /\ predictPc = "offer" /\ output_start
  /\ predictPc' = "taken"
  /\ UNCHANGED <<puser, predict_start, predict_done, hidden, predict_result>>

PredictTaken ==
  /\ predictPc = "offer" /\ output_start
  /\ predictPc' = "taken" /\ predict_done' = FALSE
  /\ UNCHANGED <<puser, predict_start, hidden, predict_result>>

PredictNext ==
  /\ predictPc = "taken" /\ ~output_start
  /\ PredictUser(puser + 1)
  /\ UNCHANGED <<predict_start, predict_done, hidden, predict_result>>

PredictWaits ==
  /\ \/ predictPc = "init" /\ ~init_done
     \/ predictPc = "input" /\ ~predict_input_done
     \/ predictPc = "release" /\ predict_input_done
     \/ predictPc = "output" /\ ~output_done
     \/ predictPc \in {"hidden", "visible", "rate"} \* still computing
     \/ predictPc = "offer" /\ ~output_start
     \/ predictPc = "taken" /\ output_start
     \/ predictPc = "idle"
  /\ UNCHANGED predictVars

Predict == \/ PredictStart \/ PredictAccept \/ PredictReleased \/ PredictOutputDone
           \/ PredictHidden \/ PredictVisible \/ PredictRate \/ PredictRated
           \/ PredictTaken \/ PredictNext \/ PredictWaits

------------------------------------------------------------------------------
(* store: take each result from predict_rbm and write it out by DMA.       *)

StoreUserShort(j) == \* mutant: done one result too early
  IF j + 1 >= conf.tests
  THEN storePc' = "done" /\ done' = TRUE
  ELSE storePc' = "result" /\ UNCHANGED done

StoreUser(j) ==
  IF j = conf.tests
  THEN storePc' = "done" /\ done' = TRUE
  ELSE storePc' = "result" /\ UNCHANGED done

StoreStart ==
  /\ storePc = "init" /\ init_done
  /\ StoreUser(0)
  /\ UNCHANGED <<sindex, wr_index, wr_request, output_start, output_done, reading, written>>

StoreAccept ==
  /\ storePc = "result" /\ predict_done
  /\ storePc' = "release" /\ output_start' = TRUE
  /\ UNCHANGED <<sindex, wr_index, wr_request, output_done, done, reading, written>>

StoreReleasedLate == \* mutant: output_done is not lowered with output_start
  /\ storePc = "release" /\ ~predict_done
  /\ output_start' = FALSE
  /\ wr_index' = sindex /\ wr_request' = TRUE
  /\ sindex' = sindex + 1
  /\ storePc' = "grant"
  /\ UNCHANGED <<output_done, done, reading, written>>

StoreReleased ==
  /\ storePc = "release" /\ ~predict_done
  /\ output_start' = FALSE /\ output_done' = FALSE
  /\ wr_index' = sindex /\ wr_request' = TRUE
  /\ sindex' = sindex + 1
  /\ storePc' = "grant"
  /\ UNCHANGED <<done, reading, written>>

(* The first rating is read in the cycle the grant is seen.                *)
StoreGranted ==
  /\ storePc = "grant" /\ wr_grant
  /\ wr_request' = FALSE
  /\ reading' = predict_result
  /\ storePc' = "put"
  /\ UNCHANGED <<sindex, wr_index, output_start, output_done, done, written>>

StoreLastPut ==
  /\ storePc = "put"
  /\ written' = Append(written, [at |-> wr_to,
                                 what |-> IF predict_result = reading THEN reading ELSE TornResult])
  /\ output_done' = TRUE
  /\ StoreUser(sindex)
  /\ UNCHANGED <<sindex, wr_index, wr_request, output_start, reading>>

StoreWaits ==
  /\ \/ storePc = "init" /\ ~init_done
     \/ storePc = "result" /\ ~predict_done
     \/ storePc = "release" /\ predict_done
     \/ storePc = "grant" /\ ~wr_grant
     \/ storePc = "put" \* ratings left, or data_out.put() blocks
     \/ storePc = "done"
  /\ UNCHANGED storeVars

Store == \/ StoreStart \/ StoreAccept \/ StoreReleased \/ StoreGranted
         \/ StoreLastPut \/ StoreWaits

------------------------------------------------------------------------------
(* The DMA controller: it latches the address with the grant, and takes    *)
(* the grant back once it sees the request gone.                           *)

Grants(request, grant) == IF request /\ ~grant THEN BOOLEAN ELSE {grant /\ request}

Dma ==
  /\ rd_grant' \in Grants(rd_request, rd_grant)
  /\ rd_from' = IF rd_grant' /\ ~rd_grant THEN rd_index ELSE rd_from
  /\ wr_grant' \in Grants(wr_request, wr_grant)
  /\ wr_to' = IF wr_grant' /\ ~wr_grant THEN wr_index ELSE wr_to

------------------------------------------------------------------------------
Clock == Config /\ Load /\ Train /\ Predict /\ Store /\ Dma /\ UNCHANGED resets

(* rst: every thread starts again and sets its signals. num_testusers, the *)
(* buffers and the weights keep what they held.                            *)
Reset ==
  /\ resets < MaxResets /\ resets' = resets + 1
  /\ conf' = [conf EXCEPT !.users = 0, !.loops = 0] /\ init_done' = FALSE
  /\ loadPc' = "init" /\ index' = 0 /\ loop_count' = 0 /\ rd_index' = 0 /\ rd_request' = FALSE
  /\ train_input_done' = FALSE /\ predict_input_done' = FALSE
  /\ trainPc' = "init" /\ user' = 0 /\ current_loop' = 0
  /\ train_start' = FALSE /\ train_done' = FALSE
  /\ predictPc' = "init" /\ puser' = 0 /\ predict_start' = FALSE /\ predict_done' = FALSE
  /\ storePc' = "init" /\ sindex' = 0 /\ wr_index' = 0 /\ wr_request' = FALSE
  /\ output_start' = FALSE /\ output_done' = TRUE /\ done' = FALSE
  /\ rd_grant' = FALSE /\ wr_grant' = FALSE /\ written' = <<>>
  /\ UNCHANGED <<data, edges, seen, hidden, predict_result, reading, rd_from, wr_to>>

Next == Clock \/ Reset

Spec == Init /\ [][Next]_vars

(* The host configures, the DMA grants and moves words, and computations   *)
(* end; the clock itself never stops.                                      *)
FairSpec ==
  /\ Spec
  /\ WF_vars(Clock)
  /\ WF_vars(Clock /\ Configure)
  /\ WF_vars(Clock /\ rd_grant' # rd_grant)
  /\ WF_vars(Clock /\ wr_grant' # wr_grant)
  /\ WF_vars(Clock /\ LoadLastWord)
  /\ WF_vars(Clock /\ (TrainPositive \/ TrainNegative))
  /\ WF_vars(Clock /\ (PredictHidden \/ PredictVisible \/ PredictRated))
  /\ WF_vars(Clock /\ StoreLastPut)

------------------------------------------------------------------------------
(* Every signal and buffer holds a value of its kind.                      *)
Result == [rec : Nat \cup {Torn}, edges : Seq(Nat \cup {Torn})]
ConfigType == conf \in [users : Nat, loops : Nat, tests : Nat] /\ init_done \in BOOLEAN
LoadType ==
  /\ loadPc \in {"init", "await_train", "grant", "fill", "offer", "release", "done"}
  /\ index \in Nat /\ loop_count \in Nat /\ rd_index \in Nat
  /\ rd_request \in BOOLEAN /\ train_input_done \in BOOLEAN /\ predict_input_done \in BOOLEAN
  /\ data \in [0..1 -> Nat \cup {Torn}]
TrainType ==
  /\ trainPc \in {"init", "input", "release", "positive", "negative", "done"}
  /\ user \in Nat /\ current_loop \in Nat
  /\ train_start \in BOOLEAN /\ train_done \in BOOLEAN
  /\ edges \in Seq(Nat \cup {Torn}) /\ seen \in Nat \cup {Torn}
PredictType ==
  /\ predictPc \in {"init", "input", "release", "output", "hidden", "visible", "rate",
                    "offer", "taken", "idle"}
  /\ puser \in Nat
  /\ predict_start \in BOOLEAN /\ predict_done \in BOOLEAN
  /\ hidden \in Result /\ predict_result \in Result
StoreType ==
  /\ storePc \in {"init", "result", "release", "grant", "put", "done"}
  /\ sindex \in Nat /\ wr_index \in Nat
  /\ wr_request \in BOOLEAN /\ output_start \in BOOLEAN /\ output_done \in BOOLEAN /\ done \in BOOLEAN
  /\ reading \in Result /\ written \in Seq([at : Nat, what : Result])
DmaType ==
  /\ rd_grant \in BOOLEAN /\ rd_from \in Nat
  /\ wr_grant \in BOOLEAN /\ wr_to \in Nat
TypeOK ==
  ConfigType /\ LoadType /\ TrainType /\ PredictType /\ StoreType /\ DmaType /\ resets \in Nat

(* Where test record j is fetched from: behind the training records. Only  *)
(* the first of a job without training loops is not: the first request of  *)
(* all is sent for index 0 (rbm.cpp:565). This says what the code does,    *)
(* not what it should do.                                                  *)
TestRecord(j) == IF conf.loops = 0 /\ j = 0 THEN 0 ELSE conf.users + j

(* A user's record stays whole in its half of the buffer from the moment   *)
(* load offers it until the last thread that reads it is done: the other   *)
(* half is what load fills meanwhile. (rbm.cpp:585, 659, 770, 796.)        *)
RecordHeld ==
  /\ trainPc \in {"positive", "negative"} => data[Pingpong(current_loop, user)] = user
  /\ predictPc = "hidden" => data[Pingpong(conf.loops, puser)] = TestRecord(puser)
  /\ loadPc = "fill" =>
       /\ trainPc \in {"positive", "negative"} =>
            Pingpong(loop_count, index) # Pingpong(current_loop, user)
       /\ predictPc \in {"output", "hidden"} =>
            Pingpong(loop_count, index) # Pingpong(conf.loops, puser)

(* load is never more than one user ahead of the thread that works, so two *)
(* halves of the buffer are enough, and it never falls behind.             *)
LoadLead ==
  LET loaded  == loop_count * conf.users + index
      started == IF trainPc # "done" THEN current_loop * conf.users + user
                 ELSE conf.loops * conf.users + puser
  IN  init_done /\ {loadPc, trainPc, predictPc} \cap {"init"} = {}
        => loaded - started \in 0..1

(* Whatever predict_rbm computes it computes from weights that training    *)
(* has finished with, and from this job's training only: nothing of the    *)
(* job before a reset is left in them.                                     *)
WeightsSettled ==
  predictPc \in {"hidden", "visible", "rate", "offer"} =>
    /\ train_done
    /\ edges = [k \in 1..conf.users * conf.loops |-> (k - 1) % conf.users]

(* From the handshake until store has read the last rating, predict_rbm    *)
(* leaves the result buffer alone, although it goes on to the next user.   *)
ResultHeld ==
  /\ storePc \in {"grant", "put"} =>
       /\ predict_result.rec = TestRecord(sindex - 1)
       /\ predictPc \in {"taken", "input", "release", "output", "idle"}
       /\ storePc = "put" => reading = predict_result
  /\ predictPc \in {"rate", "hidden", "visible"} => output_done /\ storePc = "result"

(* done is raised when every result of the job is in memory, not earlier.  *)
DoneIsComplete == done => Len(written) = conf.tests

(* A job that is configured and not reset comes to rest with every thread  *)
(* finished. (With no loops and no tests at all load still fetches a       *)
(* record and offers it to predict_rbm, which takes none.)                 *)
JobEnds ==
  init_done /\ conf.loops + conf.tests > 0
    ~> \/ ~init_done
       \/ done /\ loadPc = "done" /\ trainPc = "done" /\ predictPc = "idle"

(* The accelerator does what a job promises, and nothing else: each record *)
(* trained on and predicted with once per loop, in order, and each result  *)
(* written once to its place. Nothing is promised of a job that has no     *)
(* training loops: see TestRecord.                                         *)
(*                                                                         *)
(* The test records are taken to lie where rbm.cpp:639 asks for them. The  *)
(* ILA reads record j of the prediction at j itself, where the training    *)
(* records start (rbm_template.py:196), and the comparison of the two      *)
(* asserts equal places (verifyExample.cpp:166). Under that layout, with   *)
(* TestPlace(c, j) == j, JobDone is violated.                              *)
Idle == [users |-> 0, loops |-> 0, tests |-> -1]
TestPlace(c, j) == c.users + j
JobView == IF init_done /\ conf.loops > 0 THEN conf ELSE Idle
WeightsView == IF JobView = Idle \/ trainPc = "init" THEN <<>> ELSE edges
ResultsView == IF JobView = Idle THEN <<>> ELSE written
Job == INSTANCE RbmJob WITH
  Configs <- {c \in Configs : c.loops > 0}, NoJob <- Idle,
  job <- JobView, weights <- WeightsView, results <- ResultsView
JobDone == Job!JFairSpec
=============================================================================
