--------------------------- MODULE FwSystem_proofs ---------------------------
(***************************************************************************)
(* Theorems about FwSystem for every set of builds and every value of      *)
(* MaxSramSize and SlvBuffSize.                                            *)
(***************************************************************************)
EXTENDS FwSystem, TLAPS

(* TypeOK alone is not inductive: intHdl counts its calls down,            *)
(* and the master writes data only for the message that has some.          *)
HandlerHasCall == pc["hdl"] # "done" => calls > 0
MstHasData     == pc["mst"] = "M_dat" => mst.msg = 2
TypeInv == TypeOK /\ HandlerHasCall /\ MstHasData

(* Packing and unpacking a doorbell stay within the natural numbers, and   *)
(* an unpacked size fits eight bits.                                       *)
LEMMA DoorbellType ==
  /\ \A c, z \in Nat : Doorbell(c, z) \in Nat
  /\ \A x \in Nat : DbCmd(x) \in Nat /\ DbSize(x) \in Byte
  BY DEF Doorbell, DbCmd, DbSize, Byte

(* What a receiver latched is a message.                                   *)
LEMMA LatchedType ==
  ASSUME NEW c \in Nat, NEW z \in Byte, NEW d0 \in Nat, NEW d1 \in Nat
  PROVE  Latched(c, z, d0, d1) \in Msg
  BY DEF Latched, Msg

(* Entering and leaving the section keeps the type of mode.                *)
LEMMA ModeType ==
  ASSUME TypeOK, NEW t \in Thread,
         \/ Inside(t) \/ Outside(t) \/ Leave(t) \/ SwitchRead(t) \/ SwitchWrite(t)
         \/ DataRead(t) \/ DataWrite(t)
  PROVE  mode' \in [Thread -> {"in", "out", "want"}]
  BY DEF TypeOK, Inside, Outside, Leave, SwitchRead, SwitchWrite, DataRead, DataWrite

(* A jump changes the place of one thread only.                            *)
LEMMA GotoType ==
  ASSUME TypeOK, NEW t \in Thread, NEW l \in Label, Goto(t, l)
  PROVE  /\ pc' \in [Thread -> Label]
         /\ pc'[t] = l
         /\ \A u \in Thread \ {t} : pc'[u] = pc[u]
  BY DEF TypeOK, Goto

(* A doorbell write keeps the types of everything it writes.               *)
LEMMA WriteDoorbellType ==
  ASSUME TypeOK, NEW t \in Thread, NEW d \in Dir, NEW val \in Nat,
         NEW next \in Label, WriteDoorbell(t, d, val, next)
  PROVE  /\ pc' \in [Thread -> Label]
         /\ mode' \in [Thread -> {"in", "out", "want"}]
         /\ part' \in [Thread -> 1..3]
         /\ db' \in [Dir -> Nat] /\ dbm' \in [Dir -> Nat]
         /\ dat0' = dat0 /\ dat1' = dat1
         /\ slvInt' \in {0, 1}
         /\ failed' \subseteq {"fabric", "handleCmd"}
<1>1. (SwitchWrite(t) /\ Goto(t, next)) \/ (Outside(t) /\ UNCHANGED pc)
  BY DEF WriteDoorbell, StoreDoorbell
<1>2. mode' \in [Thread -> {"in", "out", "want"}]
  BY <1>1, ModeType
<1>3. pc' \in [Thread -> Label]
  BY <1>1 DEF Goto, TypeOK
<1>4. part' \in [Thread -> 1..3]
  <2> DEFINE len == Len(Stores(d))
             step == IF FabLock \/ part[t] >= len THEN 1 ELSE part[t] + 1
  <2>1. part' = [part EXCEPT ![t] = step]
    BY DEF WriteDoorbell, StoreDoorbell
  <2>2. len \in 2..3
    BY DEF Stores
  <2>3. part \in [Thread -> 1..3]
    BY DEF TypeOK
  <2>4. step \in 1..3
    <3> HIDE DEF len
    <3> QED BY <2>2, <2>3
  <2>5. QED
    BY <2>1, <2>3, <2>4
<1>5. db' \in [Dir -> Nat] /\ dbm' \in [Dir -> Nat] /\ dat0' = dat0 /\ dat1' = dat1
  BY DEF WriteDoorbell, StoreDoorbell, TypeOK
<1>6. slvInt' \in {0, 1} /\ failed' \subseteq {"fabric", "handleCmd"}
  BY DEF WriteDoorbell, StoreDoorbell, TypeOK
<1>7. QED
  BY <1>2, <1>3, <1>4, <1>5, <1>6

(* Recording a message in a history gives a history.                       *)
LEMMA RecordType ==
  ASSUME NEW t, NEW hist \in [Dir -> Seq(Msg)], NEW d \in Dir, NEW x \in Msg
  PROVE  Record(t, hist, d, x) \in [Dir -> Seq(Msg)]
  BY DEF Record

(* The messages the two sides mean to send are messages.                   *)
LEMMA IntendedType ==
  ASSUME TypeOK
  PROVE  MstMsg \in Msg /\ Len(MstMsg.data) \in 0..1 /\ \A t : SlvMsg(t) \in Msg
  BY SizeAssumption DEF MstMsg, SlvMsg, Msg, TypeOK, STATUS_REQUEST, STATUS_REPLY,
     IMAGE_READY, IMAGE_DONE

------------------------------------------------------------------------------

LEMMA InitTypeInv == Init => TypeInv
  BY DEF Init, TypeInv, TypeOK, HandlerHasCall, MstHasData, Thread, Dir, Label, Byte

(* Every step of the master keeps the types.                               *)
LEMMA MstType ==
  ASSUME TypeOK, MstHasData, MstStep, build' = build
  PROVE  TypeOK'
<1> USE DEF regs, fab
<1>m. "mst" \in Thread /\ "mst2slv" \in Dir /\ "slv2mst" \in Dir
  BY DEF Thread, Dir
<1>1. CASE MstAwaitFree
  <2>1. mode' \in [Thread -> {"in", "out", "want"}]
    BY <1>1, <1>m, ModeType DEF MstAwaitFree
  <2>2. \E l \in Label : Goto("mst", l)
    BY <1>1 DEF MstAwaitFree, Label
  <2>3. TypeOK'
    BY <1>1, <1>m, <2>1, <2>2, GotoType DEF MstAwaitFree, TypeOK
  <2>4. QED
    BY <2>3
<1>2. CASE MstWriteData
  <2>1. mode' \in [Thread -> {"in", "out", "want"}]
    BY <1>2, <1>m, ModeType DEF MstWriteData
  <2>2. "M_int" \in Label /\ Goto("mst", "M_int")
    BY <1>2 DEF MstWriteData, Label
  <2>3. MstMsg.data[1] \in Nat
    BY <1>2 DEF MstWriteData, MstMsg, TypeOK, MstHasData
  <2>4. QED
    BY <1>2, <1>m, <2>1, <2>2, <2>3, GotoType DEF MstWriteData, TypeOK
<1>3. CASE MstAwaitNoInt
  <2>1. mode' \in [Thread -> {"in", "out", "want"}]
    BY <1>3, <1>m, ModeType DEF MstAwaitNoInt
  <2>2. \E l \in Label : Goto("mst", l)
    BY <1>3 DEF MstAwaitNoInt, Label
  <2>3. TypeOK'
    BY <1>3, <1>m, <2>1, <2>2, GotoType DEF MstAwaitNoInt, TypeOK
  <2>4. QED
    BY <2>3
<1>4. CASE MstRing
  <2>1. Doorbell(MstMsg.cmd, Len(MstMsg.data)) \in Nat
    BY IntendedType, DoorbellType DEF Msg
  <2>2. WriteDoorbell("mst", "mst2slv", Doorbell(MstMsg.cmd, Len(MstMsg.data)), "M_poll") /\ "M_poll" \in Label
    BY <1>4 DEF MstRing, Label
  <2>3. sent' \in [Dir -> Seq(Msg)]
    BY <1>4, <1>m, RecordType, IntendedType DEF MstRing, TypeOK
  <2>4. QED
    BY <1>4, <1>m, <2>1, <2>2, <2>3, WriteDoorbellType DEF MstRing, TypeOK
<1>5. CASE MstPoll
  <2>1. mode' \in [Thread -> {"in", "out", "want"}]
    BY <1>5, <1>m, ModeType DEF MstPoll
  <2>2. \E l \in Label : Goto("mst", l)
    BY <1>5 DEF MstPoll, Label
  <2>3. TypeOK'
    BY <1>5, <1>m, <2>1, <2>2, GotoType DEF MstPoll, TypeOK
  <2>4. QED
    BY <2>3
<1>6. CASE MstReadDoorbell
  <2>1. mode' \in [Thread -> {"in", "out", "want"}]
    BY <1>6, <1>m, ModeType DEF MstReadDoorbell
  <2>2. \E l \in Label : Goto("mst", l)
    BY <1>6 DEF MstReadDoorbell, Label
  <2>3. TypeOK'
    BY <1>6, <1>m, <2>1, <2>2, GotoType, DoorbellType DEF MstReadDoorbell, TypeOK
  <2>4. QED
    BY <2>3
<1>7. CASE MstReadData
  <2>1. mode' \in [Thread -> {"in", "out", "want"}]
    BY <1>7, <1>m, ModeType DEF MstReadData
  <2>2. \E l \in Label : Goto("mst", l)
    BY <1>7 DEF MstReadData, Label
  <2>3. TypeOK'
    BY <1>7, <1>m, <2>1, <2>2, GotoType DEF MstReadData, TypeOK
  <2>4. QED
    BY <2>3
<1>8. CASE MstAck
  <2>1. 0 \in Nat
    OBVIOUS
  <2>2. WriteDoorbell("mst", "slv2mst", 0, "M_next") /\ "M_next" \in Label
    BY <1>8 DEF MstAck, Label
  <2>3. rcvd' \in [Dir -> Seq(Msg)]
    BY <1>8, <1>m, RecordType, LatchedType DEF MstAck, TypeOK
  <2>4. QED
    BY <1>8, <1>m, <2>1, <2>2, <2>3, WriteDoorbellType DEF MstAck, TypeOK
<1>9. CASE MstPrepareImage
  <2>1. mode' \in [Thread -> {"in", "out", "want"}]
    BY <1>9, <1>m, ModeType DEF MstPrepareImage
  <2>2. \E l \in Label : Goto("mst", l)
    BY <1>9 DEF MstPrepareImage, Label
  <2>3. TypeOK'
    BY <1>9, <1>m, <2>1, <2>2, GotoType, SizeAssumption DEF MstPrepareImage, TypeOK
  <2>4. QED
    BY <2>3
<1>10. CASE MstReturn
  <2>1. mode' \in [Thread -> {"in", "out", "want"}]
    BY <1>10, <1>m, ModeType DEF MstReturn
  <2>2. \E l \in Label : Goto("mst", l)
    BY <1>10 DEF MstReturn, Label
  <2>3. TypeOK'
    BY <1>10, <1>m, <2>1, <2>2, GotoType DEF MstReturn, TypeOK
  <2>4. QED
    BY <2>3
<1>11. QED
  BY <1>1, <1>2, <1>3, <1>4, <1>5, <1>6, <1>7, <1>8, <1>9, <1>10 DEF MstStep

(* Every step of sendMsgSlv2Mst keeps the types.                           *)
LEMMA SendType ==
  ASSUME TypeOK, NEW t \in Sender, Send(t), build' = build
  PROVE  TypeOK'
<1> USE DEF regs, fab
<1>m. t \in Thread /\ "mst2slv" \in Dir /\ "slv2mst" \in Dir
  BY DEF Sender, Thread, Dir
<1>1. CASE SendAwaitIdle(t)
  <2>1. mode' \in [Thread -> {"in", "out", "want"}]
    BY <1>1, <1>m, ModeType DEF SendAwaitIdle
  <2>2. \E l \in Label : Goto(t, l)
    BY <1>1 DEF SendAwaitIdle, Label
  <2>3. TypeOK'
    BY <1>1, <1>m, <2>1, <2>2, GotoType DEF SendAwaitIdle, TypeOK
  <2>4. QED
    BY <2>3
<1>2. CASE SendCopy(t)
  <2>1. mode' \in [Thread -> {"in", "out", "want"}]
    BY <1>2, <1>m, ModeType DEF SendCopy
  <2>2. \E l \in Label : Goto(t, l)
    BY <1>2 DEF SendCopy, Label
  <2>3. TypeOK'
    BY <1>2, <1>m, <2>1, <2>2, GotoType DEF SendCopy, TypeOK
  <2>4. QED
    BY <2>3
<1>3. CASE SendSetBusy(t)
  <2>1. mode' \in [Thread -> {"in", "out", "want"}]
    BY <1>3, <1>m, ModeType DEF SendSetBusy
  <2>2. \E l \in Label : Goto(t, l)
    BY <1>3 DEF SendSetBusy, Label
  <2>3. TypeOK'
    BY <1>3, <1>m, <2>1, <2>2, GotoType DEF SendSetBusy, TypeOK
  <2>4. QED
    BY <2>3
<1>4. CASE SendSetCmd(t)
  <2>1. mode' \in [Thread -> {"in", "out", "want"}]
    BY <1>4, <1>m, ModeType DEF SendSetCmd
  <2>2. \E l \in Label : Goto(t, l)
    BY <1>4 DEF SendSetCmd, Label
  <2>3. TypeOK'
    BY <1>4, <1>m, <2>1, <2>2, GotoType DEF SendSetCmd, TypeOK
  <2>4. QED
    BY <2>3
<1>5. CASE SendAwaitFree(t)
  <2>1. mode' \in [Thread -> {"in", "out", "want"}]
    BY <1>5, <1>m, ModeType DEF SendAwaitFree
  <2>2. \E l \in Label : Goto(t, l)
    BY <1>5 DEF SendAwaitFree, Label
  <2>3. TypeOK'
    BY <1>5, <1>m, <2>1, <2>2, GotoType DEF SendAwaitFree, TypeOK
  <2>4. QED
    BY <2>3
<1>6. CASE SendWriteData(t)
  <2>1. mode' \in [Thread -> {"in", "out", "want"}]
    BY <1>6, <1>m, ModeType DEF SendWriteData
  <2>2. \E l \in Label : Goto(t, l)
    BY <1>6 DEF SendWriteData, Label
  <2>3. TypeOK'
    BY <1>6, <1>m, <2>1, <2>2, GotoType DEF SendWriteData, TypeOK
  <2>4. QED
    BY <2>3
<1>7. CASE SendRing(t)
  <2>0. mb.S_CMD \in Nat /\ mb.S_SIZE \in Byte
    BY DEF TypeOK
  <2>m. mb.S_SIZE \in Nat
    BY <2>0 DEF Byte
  <2>1. Doorbell(mb.S_CMD, mb.S_SIZE) \in Nat
    BY <2>0, <2>m, DoorbellType
  <2>2. WriteDoorbell(t, "slv2mst", Doorbell(mb.S_CMD, mb.S_SIZE), "X_idle") /\ "X_idle" \in Label
    BY <1>7 DEF SendRing, Label
  <2>3. sent' \in [Dir -> Seq(Msg)]
    BY <1>7, <1>m, RecordType, IntendedType DEF SendRing, TypeOK
  <2>4. QED
    BY <1>7, <1>m, <2>1, <2>2, <2>3, WriteDoorbellType DEF SendRing, TypeOK
<1>8. CASE SendClearBusy(t)
  <2>1. mode' \in [Thread -> {"in", "out", "want"}]
    BY <1>8, <1>m, ModeType DEF SendClearBusy
  <2>2. \E l \in Label : Goto(t, l)
    BY <1>8 DEF SendClearBusy, Label, AfterSend
  <2>3. TypeOK'
    BY <1>8, <1>m, <2>1, <2>2, GotoType DEF SendClearBusy, TypeOK
  <2>4. QED
    BY <2>3
<1>9. QED
  BY <1>1, <1>2, <1>3, <1>4, <1>5, <1>6, <1>7, <1>8 DEF Send

(* Every step of the slave firmware keeps the types.                       *)
LEMMA SlvType ==
  ASSUME TypeOK, SlvStep, build' = build
  PROVE  TypeOK'
<1> USE DEF regs, fab
<1>m. "slv" \in Thread
  BY DEF Thread
<1>1. CASE SlvAwaitImage
  <2>1. mode' \in [Thread -> {"in", "out", "want"}]
    BY <1>1, <1>m, ModeType DEF SlvAwaitImage
  <2>2. \E l \in Label : Goto("slv", l)
    BY <1>1 DEF SlvAwaitImage, Label
  <2>3. TypeOK'
    BY <1>1, <1>m, <2>1, <2>2, GotoType DEF SlvAwaitImage, TypeOK
  <2>4. QED
    BY <2>3
<1>2. CASE SlvPrepareDone
  <2>1. mode' \in [Thread -> {"in", "out", "want"}]
    BY <1>2, <1>m, ModeType DEF SlvPrepareDone
  <2>2. \E l \in Label : Goto("slv", l)
    BY <1>2 DEF SlvPrepareDone, Label
  <2>3. IMAGE_DONE \in Nat /\ 0 \in Byte
    BY DEF IMAGE_DONE, Byte
  <2>4. gMb' \in [R_CMD : Nat, R_SIZE : Byte, R_DAT0 : Nat, R_DAT1 : Nat,
              S_CMD : Nat, S_SIZE : Byte, S_DAT0 : Nat, S_DAT1 : Nat]
    BY <1>2, <2>3 DEF SlvPrepareDone, TypeOK
  <2>5. QED
    BY <1>2, <1>m, <2>1, <2>2, <2>4, GotoType DEF SlvPrepareDone, TypeOK
<1>3. CASE SlvReturn
  <2>1. mode' \in [Thread -> {"in", "out", "want"}]
    BY <1>3, <1>m, ModeType DEF SlvReturn
  <2>2. \E l \in Label : Goto("slv", l)
    BY <1>3 DEF SlvReturn, Label
  <2>3. TypeOK'
    BY <1>3, <1>m, <2>1, <2>2, GotoType DEF SlvReturn, TypeOK
  <2>4. QED
    BY <2>3
<1>4. CASE Send("slv")
  BY <1>4, SendType DEF Sender
<1>5. QED
  BY <1>1, <1>2, <1>3, <1>4 DEF SlvStep

(* Every step of the interrupt handler keeps the types.                    *)
LEMMA HdlType ==
  ASSUME TypeOK, HandlerHasCall, HdlStep, build' = build
  PROVE  TypeOK'
<1> USE DEF regs, fab
<1>m. "hdl" \in Thread /\ "mst2slv" \in Dir
  BY DEF Thread, Dir
<1>1. CASE HdlAwaitInt
  <2>1. "H_chk" \in Label /\ Goto("hdl", "H_chk")
    BY <1>1 DEF HdlAwaitInt, Label
  <2>2. mode' \in [Thread -> {"in", "out", "want"}]
    BY <1>1, <1>m, ModeType DEF HdlAwaitInt
  <2>3. QED
    BY <1>1, <1>m, <2>1, <2>2, GotoType DEF HdlAwaitInt, TypeOK
<1>2. CASE HdlCheckInt
  <2>1. \E l \in Label : Goto("hdl", l)
    BY <1>2 DEF HdlCheckInt, AfterCall, Label
  <2>0. calls \in 1..2
    BY <1>2 DEF HdlCheckInt, HandlerHasCall, TypeOK
  <2>2. calls' \in 0..2
    BY <1>2, <2>0 DEF HdlCheckInt
  <2>3. mode' \in [Thread -> {"in", "out", "want"}]
    BY <1>2 DEF HdlCheckInt, TypeOK
  <2>4. QED
    BY <1>2, <1>m, <2>1, <2>2, <2>3, GotoType DEF HdlCheckInt, TypeOK
<1>3. CASE HdlReadDoorbell
  <2>1. mode' \in [Thread -> {"in", "out", "want"}]
    BY <1>3, <1>m, ModeType DEF HdlReadDoorbell
  <2>2. \E l \in Label : Goto("hdl", l)
    BY <1>3 DEF HdlReadDoorbell, Label
  <2>3. TypeOK'
    BY <1>3, <1>m, <2>1, <2>2, GotoType, DoorbellType DEF HdlReadDoorbell, TypeOK
  <2>4. QED
    BY <2>3
<1>4. CASE HdlReadData
  <2>1. mode' \in [Thread -> {"in", "out", "want"}]
    BY <1>4, <1>m, ModeType DEF HdlReadData
  <2>2. \E l \in Label : Goto("hdl", l)
    BY <1>4 DEF HdlReadData, Label
  <2>3. TypeOK'
    BY <1>4, <1>m, <2>1, <2>2, GotoType DEF HdlReadData, TypeOK
  <2>4. QED
    BY <2>3
<1>5. CASE HdlGetMbCtx
  <2>1. mode' \in [Thread -> {"in", "out", "want"}]
    BY <1>5, <1>m, ModeType DEF HdlGetMbCtx
  <2>2. \E l \in Label : Goto("hdl", l)
    BY <1>5 DEF HdlGetMbCtx, Label
  <2>3. TypeOK'
    BY <1>5, <1>m, <2>1, <2>2, GotoType DEF HdlGetMbCtx, TypeOK
  <2>4. QED
    BY <2>3
<1>6. CASE HdlHandleCmd
  <2>1. mode' \in [Thread -> {"in", "out", "want"}]
    BY <1>6, <1>m, ModeType DEF HdlHandleCmd
  <2>2. \E l \in Label : Goto("hdl", l)
    BY <1>6 DEF HdlHandleCmd, Label
  <2>3. STATUS_REPLY \in Nat /\ 1 \in Byte
    BY DEF STATUS_REPLY, Byte
  <2>4. gMb' \in [R_CMD : Nat, R_SIZE : Byte, R_DAT0 : Nat, R_DAT1 : Nat,
              S_CMD : Nat, S_SIZE : Byte, S_DAT0 : Nat, S_DAT1 : Nat]
    BY <1>6, <2>3, SizeAssumption DEF HdlHandleCmd, TypeOK
  <2>5. flag' \in [RDY : {0, 1}, SIZE : Nat]
    BY <1>6 DEF HdlHandleCmd, TypeOK
  <2>6. QED
    BY <1>6, <1>m, <2>1, <2>2, <2>4, <2>5, GotoType DEF HdlHandleCmd, TypeOK
<1>7. CASE HdlSetReady
  <2>1. mode' \in [Thread -> {"in", "out", "want"}]
    BY <1>7, <1>m, ModeType DEF HdlSetReady
  <2>2. \E l \in Label : Goto("hdl", l)
    BY <1>7 DEF HdlSetReady, Label
  <2>3. TypeOK'
    BY <1>7, <1>m, <2>1, <2>2, GotoType DEF HdlSetReady, TypeOK
  <2>4. QED
    BY <2>3
<1>8. CASE HdlAck
  <2>1. 0 \in Nat
    OBVIOUS
  <2>2. WriteDoorbell("hdl", "mst2slv", 0, "H_get") /\ "H_get" \in Label
    BY <1>8 DEF HdlAck, Label
  <2>3. rcvd' \in [Dir -> Seq(Msg)]
    BY <1>8, <1>m, RecordType, LatchedType DEF HdlAck, TypeOK
  <2>4. QED
    BY <1>8, <1>m, <2>1, <2>2, <2>3, WriteDoorbellType DEF HdlAck, TypeOK
<1>9. CASE HdlClearInt
  <2>1. \E l \in Label : Goto("hdl", l)
    BY <1>9 DEF HdlClearInt, AfterCall, Label
  <2>2. calls' \in 0..2
    BY <1>9 DEF HdlClearInt, HandlerHasCall, TypeOK
  <2>3. mode' \in [Thread -> {"in", "out", "want"}]
    BY <1>9, <1>m, ModeType DEF HdlClearInt
  <2>4. QED
    BY <1>9, <1>m, <2>1, <2>2, <2>3, GotoType DEF HdlClearInt, TypeOK
<1>10. CASE Send("hdl")
  BY <1>10, SendType DEF Sender
<1>11. QED
  BY <1>1, <1>2, <1>3, <1>4, <1>5, <1>6, <1>7, <1>8, <1>9, <1>10 DEF HdlStep

(* What a step changes outside the types: calls, mst.msg and two places.   *)
LEMMA DoorbellFrame ==
  ASSUME TypeOK, NEW t \in Thread, NEW d \in Dir, NEW val, NEW next \in Label,
         WriteDoorbell(t, d, val, next)
  PROVE  /\ \A u \in Thread \ {t} : pc'[u] = pc[u]
         /\ pc'[t] \in {pc[t], next}
<1>1. Goto(t, next) \/ UNCHANGED pc
  BY DEF WriteDoorbell, StoreDoorbell
<1>2. QED
  BY <1>1 DEF Goto, TypeOK

LEMMA HandlerHasCallStep ==
  ASSUME TypeOK, HandlerHasCall, MstStep \/ SlvStep \/ HdlStep
  PROVE  HandlerHasCall'
<1> USE DEF HandlerHasCall, regs, fab
<1>1. CASE MstStep
  <2>1. UNCHANGED calls
    BY <1>1 DEF MstStep, MstAwaitFree, MstWriteData, MstAwaitNoInt, MstRing, MstPoll,
       MstReadDoorbell, MstReadData, MstAck, MstPrepareImage, MstReturn
  <2>2. pc'["hdl"] = pc["hdl"]
    <3>1. CASE MstRing \/ MstAck
      BY <3>1, DoorbellFrame DEF MstRing, MstAck, Thread, Dir, Label
    <3>2. CASE ~(MstRing \/ MstAck)
      BY <1>1, <3>2 DEF MstStep, MstAwaitFree, MstWriteData, MstAwaitNoInt, MstPoll,
         MstReadDoorbell, MstReadData, MstPrepareImage, MstReturn, Goto, TypeOK, Thread
    <3>3. QED
      BY <3>1, <3>2
  <2>3. QED
    BY <2>1, <2>2
<1>2. CASE SlvStep
  <2>1. UNCHANGED calls
    BY <1>2 DEF SlvStep, SlvAwaitImage, SlvPrepareDone, SlvReturn, Send, SendAwaitIdle,
       SendCopy, SendSetBusy, SendSetCmd, SendAwaitFree, SendWriteData, SendRing,
       SendClearBusy
  <2>2. pc'["hdl"] = pc["hdl"]
    <3>1. CASE SendRing("slv")
      BY <3>1, DoorbellFrame DEF SendRing, Thread, Dir, Label
    <3>2. CASE ~SendRing("slv")
      BY <1>2, <3>2 DEF SlvStep, SlvAwaitImage, SlvPrepareDone, SlvReturn, Send,
         SendAwaitIdle, SendCopy, SendSetBusy, SendSetCmd, SendAwaitFree, SendWriteData,
         SendClearBusy, Goto, TypeOK, Thread
    <3>3. QED
      BY <3>1, <3>2
  <2>3. QED
    BY <2>1, <2>2
<1>3. CASE HdlStep
  <2>1. CASE HdlCheckInt \/ HdlClearInt
    <3>0. calls \in 0..2 /\ pc["hdl"] # "done"
      BY <2>1 DEF HdlCheckInt, HdlClearInt, TypeOK
    <3>1. calls \in 1..2
      BY <3>0
    <3>2. \/ Goto("hdl", AfterCall(calls)) /\ calls' = calls - 1
          \/ Goto("hdl", "H_adb") /\ UNCHANGED calls
      BY <2>1 DEF HdlCheckInt, HdlClearInt
    <3>3. \/ pc'["hdl"] = AfterCall(calls) /\ calls' = calls - 1
          \/ UNCHANGED calls
      BY <3>2 DEF Goto, TypeOK, Thread
    <3>4. QED
      BY <3>1, <3>3 DEF AfterCall
  <2>2. CASE ~(HdlCheckInt \/ HdlClearInt)
    <3>1. UNCHANGED calls
      BY <1>3, <2>2 DEF HdlStep, HdlAwaitInt, HdlReadDoorbell, HdlReadData, HdlAck,
         HdlGetMbCtx, HdlHandleCmd, HdlSetReady, Send, SendAwaitIdle, SendCopy,
         SendSetBusy, SendSetCmd, SendAwaitFree, SendWriteData, SendRing, SendClearBusy
    <3>2. pc["hdl"] # "done"
      BY <1>3, <2>2 DEF HdlStep, HdlAwaitInt, HdlReadDoorbell, HdlReadData, HdlAck,
         HdlGetMbCtx, HdlHandleCmd, HdlSetReady, Send, SendAwaitIdle, SendCopy,
         SendSetBusy, SendSetCmd, SendAwaitFree, SendWriteData, SendRing, SendClearBusy
    <3>3. QED
      BY <3>1, <3>2
  <2>3. QED
    BY <2>1, <2>2
<1>4. QED
  BY <1>1, <1>2, <1>3

LEMMA MstHasDataStep ==
  ASSUME TypeOK, MstHasData, MstStep \/ SlvStep \/ HdlStep
  PROVE  MstHasData'
<1> USE DEF MstHasData, regs, fab
<1>1. CASE MstStep
  <2>1. CASE MstRing \/ MstAck
    BY <2>1, DoorbellFrame DEF MstRing, MstAck, Thread, Dir, Label
  <2>2. CASE ~(MstRing \/ MstAck)
    BY <1>1, <2>2 DEF MstStep, MstAwaitFree, MstWriteData, MstAwaitNoInt, MstPoll,
       MstReadDoorbell, MstReadData, MstPrepareImage, MstReturn, Goto, MstMsg, TypeOK,
       Thread
  <2>3. QED
    BY <2>1, <2>2
<1>2. CASE SlvStep \/ HdlStep
  <2>1. UNCHANGED mst
    BY <1>2 DEF SlvStep, SlvAwaitImage, SlvPrepareDone, SlvReturn, Send, SendAwaitIdle,
       SendCopy, SendSetBusy, SendSetCmd, SendAwaitFree, SendWriteData, SendRing,
       SendClearBusy, HdlStep, HdlAwaitInt, HdlCheckInt, HdlReadDoorbell, HdlReadData,
       HdlAck, HdlGetMbCtx, HdlHandleCmd, HdlSetReady, HdlClearInt
  <2>2. pc'["mst"] = pc["mst"]
    <3>1. CASE SendRing("slv") \/ SendRing("hdl") \/ HdlAck
      BY <3>1, DoorbellFrame DEF SendRing, HdlAck, Thread, Dir, Label
    <3>2. CASE ~(SendRing("slv") \/ SendRing("hdl") \/ HdlAck)
      BY <1>2, <3>2 DEF SlvStep, SlvAwaitImage, SlvPrepareDone, SlvReturn, Send,
         SendAwaitIdle, SendCopy, SendSetBusy, SendSetCmd, SendAwaitFree, SendWriteData,
         SendClearBusy, HdlStep, HdlAwaitInt, HdlCheckInt, HdlReadDoorbell, HdlReadData,
         HdlGetMbCtx, HdlHandleCmd, HdlSetReady, HdlClearInt, Goto, TypeOK, Thread
    <3>3. QED
      BY <3>1, <3>2
  <2>3. QED
    BY <2>1, <2>2
<1>3. QED
  BY <1>1, <1>2

------------------------------------------------------------------------------
LEMMA TypeInvStep ==
  ASSUME TypeInv, [Next]_vars
  PROVE  TypeInv'
<1>1. CASE UNCHANGED vars
  BY <1>1 DEF vars, regs, fab, TypeInv, TypeOK, HandlerHasCall, MstHasData
<1>2. ASSUME NEW t \in Thread, Lock(t) \/ Unlock(t) \/ PollFails(t), build' = build PROVE TypeInv'
  BY <1>2 DEF Lock, Unlock, PollFails, regs, fab, TypeInv, TypeOK, HandlerHasCall, MstHasData
<1>3. CASE (MstStep \/ SlvStep \/ HdlStep) /\ build' = build
  BY <1>3, MstType, SlvType, HdlType, HandlerHasCallStep, MstHasDataStep DEF TypeInv
<1>4. QED
  BY <1>1, <1>2, <1>3 DEF Next, Run

(* Every variable keeps its type in every build; in particular no size     *)
(* unpacked from a doorbell needs more than its eight bits, and intHdl is  *)
(* never called more often than entryHdl intends.                          *)
THEOREM TypeCorrect == Spec => []TypeOK
<1>1. Init => TypeInv
  BY InitTypeInv
<1>2. TypeInv /\ [Next]_vars => TypeInv'
  BY TypeInvStep
<1>3. QED
  BY <1>1, <1>2, PTL DEF Spec, TypeInv
==============================================================================
