--------------------------- MODULE FwExchange_proofs ---------------------------
(***************************************************************************)
(* The safety of the exchange of FwSystem, for every set of builds and     *)
(* every value of MaxSramSize and SlvBuffSize: its invariants, that no     *)
(* wait is missed, and that it implements ImageExchange.                   *)
(*                                                                         *)
(* The locks of the builds play no part in it: how far each thread has     *)
(* come says how often each register was rung, raised and acknowledged,    *)
(* and these counts keep the threads in step. The last section is about    *)
(* the locks: that they exclude, and that neither they nor the waits block *)
(* the threads for good.                                                   *)
(***************************************************************************)
EXTENDS FwSystem_proofs, SequenceTheorems

------------------------------------------------------------------------------
(* How often each thing has happened, by where the threads are.            *)

Count(b) == IF b THEN 1 ELSE 0

Rung    == {"M_poll", "M_rdb", "M_rd0", "M_rd1", "M_ack", "M_next", "done"}
Sending == {"X_busy", "X_d0", "X_d1", "X_sz", "X_bsy", "X_cmd", "X_dbm", "X_w0", "X_w1",
            "X_db", "X_idle"}
Acked   == {"H_get", "H_cmd", "H_rdy", "H_clr"} \cup Sending

(* The master stored its doorbell, had it raise the interrupt, stored its  *)
(* acknowledgement.                                                        *)
Rings   == mst.msg - 1 + Count(pc["mst"] \in Rung \/ (pc["mst"] = "M_db" /\ part["mst"] > 1))
Raises  == mst.msg - 1 + Count(pc["mst"] \in Rung)
Answers == mst.msg - 1 + Count(\/ pc["mst"] \in {"M_next", "done"}
                               \/ pc["mst"] = "M_ack" /\ part["mst"] > 1)

(* The handler ended a call, stored its acknowledgement.                   *)
Serves == 2 - calls
Acks   == Serves + Count(pc["hdl"] \in Acked \/ (pc["hdl"] = "H_ack" /\ part["hdl"] > 1))

(* The handler and the slave firmware stored the doorbell of their reply.  *)
Stored(t)  == (pc[t] = "X_db" /\ part[t] > 1) \/ pc[t] \in {"X_idle", AfterSend(t)}
HdlReplied == calls < 2 \/ Stored("hdl")
SlvReplied == Stored("slv") \/ pc["slv"] = "done"
Replies    == Count(HdlReplied) + Count(SlvReplied)

(* The handler has set the image-ready flag.                               *)
Ready == calls = 0 \/ (calls = 1 /\ pc["hdl"] = "H_clr")

------------------------------------------------------------------------------
(* The inductive invariant                                                 *)

(* Where a thread can be, and in which part of a doorbell write.           *)
PlaceInv ==
  /\ pc["mst"] \in {"M_send", "M_dat", "M_int", "M_db"} \cup Rung
  /\ pc["slv"] \in {"S_wait", "S_cmd", "S_size", "S_ret", "done"} \cup Sending
  /\ pc["hdl"] \in {"H_wait", "H_chk", "H_adb", "H_r0", "H_r1", "H_ack", "done"} \cup Acked
  /\ part["mst"] > 1 => pc["mst"] = "M_db" \/ (pc["mst"] = "M_ack" /\ part["mst"] = 2)
  /\ part["hdl"] > 1 => pc["hdl"] = "H_ack" \/ (pc["hdl"] = "X_db" /\ part["hdl"] = 2)
  /\ part["slv"] > 1 => pc["slv"] = "X_db" /\ part["slv"] = 2
  /\ FabLock => part["mst"] = 1 /\ part["hdl"] = 1 /\ part["slv"] = 1
  /\ pc["mst"] \in {"M_dat", "done"} => mst.msg = 2
  /\ pc["hdl"] = "done" <=> calls = 0
  /\ pc["hdl"] \in Sending => calls = 2
  /\ pc["hdl"] = "H_rdy" => calls = 1

(* The order of what happened, and the interrupt line.                     *)
OrderInv ==
  /\ Answers <= Replies /\ Replies <= Acks /\ Acks <= Raises
  /\ Rings <= Answers + 1 /\ Rings <= Serves + 1
  /\ pc["mst"] \in {"M_rdb", "M_rd0", "M_rd1", "M_ack", "M_next", "done"} => Replies >= mst.msg
  /\ pc["mst"] = "M_db" => Raises = Serves
  /\ pc["hdl"] \notin {"H_wait", "done"} => Raises > Serves
  /\ slvInt = Raises - Serves

(* The slave firmware runs on when the flag is set, not before.            *)
FlagInv ==
  /\ flag.RDY = Count(Ready)
  /\ pc["slv"] # "S_wait" => Ready
  /\ Ready \/ pc["hdl"] = "H_rdy" => flag.SIZE = mst.imgSize

(* The k-th request and the k-th reply.                                    *)
ImgSize    == IF SlvBuffSize <= MaxSramSize THEN SlvBuffSize ELSE MaxSramSize
ReqCmd(k)  == IF k = 1 THEN STATUS_REQUEST ELSE IMAGE_READY
ReqSize(k) == IF k = 1 THEN 0 ELSE 1
RepCmd(k)  == IF k = 1 THEN STATUS_REPLY ELSE IMAGE_DONE
RepSize(k) == IF k = 1 THEN 1 ELSE 0

(* A doorbell holds the message that is on its way.                        *)
DoorbellInv ==
  /\ db["mst2slv"] = IF Rings > Acks THEN Doorbell(ReqCmd(Rings), ReqSize(Rings)) ELSE 0
  /\ db["slv2mst"] = IF Replies > Answers THEN Doorbell(RepCmd(Replies), RepSize(Replies)) ELSE 0

(* What the handler has read of a request is the request.                  *)
RequestInv ==
  /\ mst.msg = 2 => mst.imgSize = ImgSize
  /\ mst.msg = 2 /\ pc["mst"] \notin {"M_send", "M_dat"} => dat0["mst2slv"] = mst.imgSize
  /\ pc["hdl"] \in {"H_r0", "H_r1", "H_ack", "H_get"} =>
       mb.R_CMD = ReqCmd(Serves + 1) /\ mb.R_SIZE = ReqSize(Serves + 1)
  /\ pc["hdl"] \in {"H_r1", "H_ack", "H_get"} /\ calls = 1 => mb.R_DAT0 = mst.imgSize
  /\ pc["hdl"] = "H_cmd" =>
       gMb.R_CMD = ReqCmd(Serves + 1) /\ gMb.R_SIZE = ReqSize(Serves + 1)
  /\ pc["hdl"] = "H_cmd" /\ calls = 1 => gMb.R_DAT0 = mst.imgSize

(* What a sender has put in the message buffer is its reply.               *)
SendInv(t, cmd, size) ==
  /\ pc[t] \in Sending => gMb.S_CMD = cmd /\ gMb.S_SIZE = size
  /\ pc[t] \in {"X_bsy", "X_cmd", "X_dbm", "X_w0", "X_w1", "X_db"} => mb.S_SIZE = size
  /\ pc[t] \in {"X_dbm", "X_w0", "X_w1", "X_db"} => mb.S_CMD = cmd

(* What the master has read of a reply is the reply.                       *)
ReplyInv ==
  /\ SendInv("hdl", STATUS_REPLY, 1) /\ SendInv("slv", IMAGE_DONE, 0)
  /\ pc["slv"] = "S_size" => gMb.S_CMD = IMAGE_DONE
  /\ pc["hdl"] \in Sending => gMb.S_DAT0 = SlvBuffSize
  /\ pc["hdl"] \in Sending \ {"X_busy", "X_d0"} => mb.S_DAT0 = SlvBuffSize
  /\ pc["hdl"] \in {"X_w1", "X_db"} \/ (Replies = 1 /\ Answers = 0) =>
       dat0["slv2mst"] = SlvBuffSize
  /\ pc["mst"] \in {"M_rd0", "M_rd1", "M_ack", "M_next"} =>
       mst.cmd = RepCmd(mst.msg) /\ mst.size = RepSize(mst.msg)
  /\ pc["mst"] \in {"M_rd1", "M_ack", "M_next"} /\ mst.msg = 1 => mst.dat0 = SlvBuffSize

(* The first n of two messages.                                            *)
First(n, s) == IF n = 0 THEN <<>> ELSE IF n = 1 THEN <<s[1]>> ELSE <<s[1], s[2]>>
Requests == <<[cmd |-> STATUS_REQUEST, data |-> <<>>],
              [cmd |-> IMAGE_READY, data |-> <<ImgSize>>]>>
TheReplies == <<[cmd |-> STATUS_REPLY, data |-> <<SlvBuffSize>>],
                [cmd |-> IMAGE_DONE, data |-> <<>>]>>

(* The histories hold the messages in order, as many as were sent and      *)
(* acknowledged.                                                           *)
HistInv ==
  /\ sent["mst2slv"] = First(Rings, Requests)
  /\ rcvd["mst2slv"] = First(Acks, Requests)
  /\ sent["slv2mst"] = First(Replies, TheReplies)
  /\ rcvd["slv2mst"] = First(Answers, TheReplies)

Core == PlaceInv /\ OrderInv
Data == FlagInv /\ DoorbellInv /\ RequestInv /\ ReplyInv /\ HistInv /\ failed = {}
ExchangeInv == TypeInv /\ Core /\ Data

------------------------------------------------------------------------------
(* What steps do                                                           *)

(* The types that the steps below rest on.                                 *)
LEMMA Basics ==
  ASSUME TypeOK
  PROVE  /\ pc \in [Thread -> Label] /\ part \in [Thread -> 1..3]
         /\ mst.msg \in {1, 2} /\ calls \in {0, 1, 2} /\ slvInt \in {0, 1}
         /\ part["mst"] \in {1, 2, 3} /\ part["slv"] \in {1, 2, 3} /\ part["hdl"] \in {1, 2, 3}
  BY DEF TypeOK, Thread

(* The counts are small numbers.                                           *)
LEMMA CountType ==
  ASSUME TypeOK
  PROVE  /\ Rings \in {0, 1, 2} /\ Raises \in {0, 1, 2} /\ Answers \in {0, 1, 2}
         /\ Serves \in {0, 1, 2} /\ Acks \in {0, 1, 2, 3} /\ Replies \in {0, 1, 2}
  BY Basics DEF Rings, Raises, Answers, Serves, Acks, Replies, Count

(* Every thread but one stays where it is.                                 *)
MstStays == UNCHANGED <<pc["mst"], part["mst"], mst>>
SlvStays == UNCHANGED <<pc["slv"], part["slv"]>>
HdlStays == UNCHANGED <<pc["hdl"], part["hdl"], calls>>

LEMMA MstCountsStay ==
  ASSUME MstStays PROVE UNCHANGED <<Rings, Raises, Answers>>
  BY DEF MstStays, Rings, Raises, Answers

LEMMA HdlCountsStay ==
  ASSUME HdlStays PROVE UNCHANGED <<Serves, Acks, Count(HdlReplied), Ready>>
  BY DEF HdlStays, Serves, Acks, HdlReplied, Stored, Ready

LEMMA SlvCountsStay ==
  ASSUME SlvStays PROVE UNCHANGED Count(SlvReplied)
  BY DEF SlvStays, SlvReplied, Stored

(* A jump of one thread.                                                   *)
LEMMA GotoEffect ==
  ASSUME TypeOK, NEW t \in Thread, NEW l, Goto(t, l)
  PROVE  pc'[t] = l /\ \A u \in Thread \ {t} : pc'[u] = pc[u]
  BY Basics DEF Goto

(* A store of a doorbell write to the slave: the doorbell is first, the    *)
(* interrupt last.                                                         *)
LEMMA RingEffect ==
  ASSUME TypeOK, NEW t \in Thread, NEW val, NEW next \in Label, FabLock => part[t] = 1,
         WriteDoorbell(t, "mst2slv", val, next)
  PROVE  /\ \A u \in Thread \ {t} : UNCHANGED <<pc[u], part[u]>>
         /\ UNCHANGED <<db["slv2mst"], dat0, dat1>>
         /\ db'["mst2slv"] = IF part[t] = 1 THEN val ELSE db["mst2slv"]
         /\ failed' = IF val # 0 /\ part[t] = 1 /\ slvInt # 0 THEN failed \cup {"fabric"}
                                                            ELSE failed
         /\ \/ /\ FabLock \/ part[t] = 3
               /\ pc'[t] = next /\ part'[t] = 1 /\ slvInt' = 1
            \/ /\ ~FabLock /\ part[t] < 3
               /\ pc'[t] = pc[t] /\ part'[t] = part[t] + 1 /\ slvInt' = slvInt
<1>s. Stores("mst2slv") = <<"db", "dbm", "int">> /\ Len(Stores("mst2slv")) = 3
  BY DEF Stores
<1>p. part[t] \in {1, 2, 3} /\ "mst2slv" \in Dir /\ "slv2mst" \in Dir /\ db \in [Dir -> Nat]
  BY Basics DEF Dir, TypeOK
<1> DEFINE atomic == FabLock
           done == atomic \/ part[t] >= 3
           now  == IF atomic THEN {"db", "dbm", "int"} ELSE {Stores("mst2slv")[part[t]]}
<1>0. /\ IF done THEN SwitchWrite(t) /\ Goto(t, next) ELSE Outside(t) /\ UNCHANGED pc
      /\ part' = [part EXCEPT ![t] = IF done THEN 1 ELSE @ + 1]
      /\ db' = IF "db" \in now THEN [db EXCEPT !["mst2slv"] = val] ELSE db
      /\ UNCHANGED <<dat0, dat1>>
      /\ slvInt' = IF "int" \in now THEN 1 ELSE slvInt
      /\ failed' = IF val # 0 /\ "db" \in now /\ slvInt # 0 THEN failed \cup {"fabric"} ELSE failed
  BY <1>s DEF WriteDoorbell, StoreDoorbell
<1>1. ("db" \in now <=> part[t] = 1) /\ ("int" \in now <=> FabLock \/ part[t] = 3)
  BY <1>s, <1>p
<1> HIDE DEF now
<1>2. \A u \in Thread \ {t} : UNCHANGED <<pc[u], part[u]>>
  BY <1>0, GotoEffect, Basics
<1>3. db'["slv2mst"] = db["slv2mst"] /\ db'["mst2slv"] = IF part[t] = 1 THEN val ELSE db["mst2slv"]
  BY <1>0, <1>1, <1>p
<1>4. failed' = IF val # 0 /\ part[t] = 1 /\ slvInt # 0 THEN failed \cup {"fabric"} ELSE failed
  BY <1>0, <1>1
<1>5. UNCHANGED <<dat0, dat1>>
  BY <1>0
<1>6. CASE done
  <2>1. pc'[t] = next /\ part'[t] = 1
    BY <1>0, <1>6, GotoEffect, Basics
  <2>2. slvInt' = 1
    BY <1>0, <1>1, <1>6, <1>p
  <2>3. QED
    BY <1>2, <1>3, <1>4, <1>6, <1>5, <1>p, <2>1, <2>2
<1>7. CASE ~done
  <2>1. pc'[t] = pc[t] /\ part'[t] = part[t] + 1
    BY <1>0, <1>7, Basics
  <2>2. slvInt' = slvInt
    BY <1>0, <1>1, <1>7, <1>p
  <2>3. QED
    BY <1>2, <1>3, <1>4, <1>7, <1>5, <1>p, <2>1, <2>2
<1>8. QED
  BY <1>6, <1>7

(* A store of a doorbell write to the master: no interrupt.                *)
LEMMA ReplyEffect ==
  ASSUME TypeOK, NEW t \in Thread, NEW val, NEW next \in Label,
         FabLock => part[t] = 1, part[t] \in {1, 2},
         WriteDoorbell(t, "slv2mst", val, next)
  PROVE  /\ \A u \in Thread \ {t} : UNCHANGED <<pc[u], part[u]>>
         /\ UNCHANGED <<db["mst2slv"], dat0, dat1, slvInt, failed>>
         /\ db'["slv2mst"] = IF part[t] = 1 THEN val ELSE db["slv2mst"]
         /\ \/ /\ FabLock \/ part[t] = 2
               /\ pc'[t] = next /\ part'[t] = 1
            \/ /\ ~FabLock /\ part[t] = 1
               /\ pc'[t] = pc[t] /\ part'[t] = 2
<1>s. Stores("slv2mst") = <<"db", "dbm">> /\ Len(Stores("slv2mst")) = 2
  BY DEF Stores
<1>p. part[t] \in {1, 2} /\ "mst2slv" \in Dir /\ "slv2mst" \in Dir /\ db \in [Dir -> Nat]
  BY Basics DEF Dir, TypeOK
<1> DEFINE atomic == FabLock
           done == atomic \/ part[t] >= 2
           now  == IF atomic THEN {"db", "dbm", "int"} ELSE {Stores("slv2mst")[part[t]]}
<1>0. /\ IF done THEN SwitchWrite(t) /\ Goto(t, next) ELSE Outside(t) /\ UNCHANGED pc
      /\ part' = [part EXCEPT ![t] = IF done THEN 1 ELSE @ + 1]
      /\ db' = IF "db" \in now THEN [db EXCEPT !["slv2mst"] = val] ELSE db
      /\ UNCHANGED <<dat0, dat1, slvInt, failed>>
  BY <1>s DEF WriteDoorbell, StoreDoorbell
<1>1. "db" \in now <=> part[t] = 1
  BY <1>s, <1>p
<1> HIDE DEF now
<1>2. \A u \in Thread \ {t} : UNCHANGED <<pc[u], part[u]>>
  BY <1>0, GotoEffect, Basics
<1>3. db'["mst2slv"] = db["mst2slv"] /\ db'["slv2mst"] = IF part[t] = 1 THEN val ELSE db["slv2mst"]
  BY <1>0, <1>1, <1>p
<1>5. CASE done
  <2>1. pc'[t] = next /\ part'[t] = 1
    BY <1>0, <1>5, GotoEffect, Basics
  <2>2. QED
    BY <1>0, <1>2, <1>3, <1>5, <1>p, <2>1
<1>6. CASE ~done
  <2>1. pc'[t] = pc[t] /\ part'[t] = part[t] + 1
    BY <1>0, <1>6, Basics
  <2>2. QED
    BY <1>0, <1>2, <1>3, <1>6, <1>p, <2>1
<1>7. QED
  BY <1>5, <1>6

(* Packing loses nothing: a doorbell is not 0 and gives back the message.  *)
LEMMA DoorbellCarries ==
  /\ \A k \in {1, 2} : /\ Doorbell(ReqCmd(k), ReqSize(k)) # 0
                       /\ DbCmd(Doorbell(ReqCmd(k), ReqSize(k))) = ReqCmd(k)
                       /\ DbSize(Doorbell(ReqCmd(k), ReqSize(k))) = ReqSize(k)
  /\ \A k \in {1, 2} : /\ Doorbell(RepCmd(k), RepSize(k)) # 0
                       /\ DbCmd(Doorbell(RepCmd(k), RepSize(k))) = RepCmd(k)
                       /\ DbSize(Doorbell(RepCmd(k), RepSize(k))) = RepSize(k)
  BY DEF Doorbell, DbCmd, DbSize, ReqCmd, ReqSize, RepCmd, RepSize, STATUS_REQUEST,
     STATUS_REPLY, IMAGE_READY, IMAGE_DONE

(* As long as nothing is counted, doorbells and histories are as before.   *)
Quiet == UNCHANGED <<Rings, Answers, Acks, Replies, db, failed, sent, rcvd>>

(* A step counts at most one thing.                                        *)
CountStep ==
  \/ UNCHANGED <<Rings, Acks, Replies, Answers>>
  \/ Rings' = Rings + 1     /\ UNCHANGED <<Acks, Replies, Answers>>
  \/ Acks' = Acks + 1       /\ UNCHANGED <<Rings, Replies, Answers>>
  \/ Replies' = Replies + 1 /\ UNCHANGED <<Rings, Acks, Answers>>
  \/ Answers' = Answers + 1 /\ UNCHANGED <<Rings, Acks, Replies>>

LEMMA QuietData ==
  ASSUME DoorbellInv, HistInv, failed = {}, Quiet
  PROVE  (DoorbellInv /\ HistInv /\ failed = {})' /\ CountStep
<1>1. DoorbellInv'
  BY DEF Quiet, DoorbellInv
<1>2. HistInv'
  BY DEF Quiet, HistInv
<1>3. QED
  BY <1>1, <1>2 DEF Quiet, CountStep

------------------------------------------------------------------------------
(* The master's steps that count nothing.                                  *)

MstMove(from, to) == pc["mst"] = from /\ pc'["mst"] = to
MstKeeps == UNCHANGED <<mst.msg, mst.imgSize>>

LEMMA MstTable ==
  ASSUME TypeInv,
         \/ MstAwaitFree \/ MstWriteData \/ MstAwaitNoInt \/ MstPoll \/ MstReadDoorbell
         \/ MstReadData \/ MstPrepareImage \/ MstReturn
  PROVE  /\ SlvStays /\ HdlStays /\ part'["mst"] = part["mst"]
         /\ UNCHANGED <<db, slvInt, mb, gMb, flag, failed, sent, rcvd, dat0["slv2mst"]>>
         /\ \/ MstMove("M_send", "M_int") /\ mst.msg = 1 /\ UNCHANGED <<mst, dat0>>
            \/ MstMove("M_send", "M_dat") /\ mst.msg = 2 /\ UNCHANGED <<mst, dat0>>
            \/ MstMove("M_dat", "M_int") /\ UNCHANGED mst /\ dat0'["mst2slv"] = mst.imgSize
            \/ MstMove("M_int", "M_db") /\ slvInt = 0 /\ UNCHANGED <<mst, dat0>>
            \/ MstMove("M_poll", "M_rdb") /\ db["slv2mst"] # 0 /\ UNCHANGED <<mst, dat0>>
            \/ /\ MstMove("M_rdb", "M_rd0") /\ MstKeeps /\ UNCHANGED dat0
               /\ mst'.cmd = DbCmd(db["slv2mst"]) /\ mst'.size = DbSize(db["slv2mst"])
            \/ /\ MstMove("M_rd0", "M_rd1") /\ MstKeeps /\ UNCHANGED <<dat0, mst.cmd, mst.size>>
               /\ mst'.dat0 = dat0["slv2mst"]
            \/ /\ MstMove("M_rd1", "M_ack") /\ MstKeeps
               /\ UNCHANGED <<dat0, mst.cmd, mst.size, mst.dat0>>
            \/ /\ MstMove("M_next", "M_send") /\ mst.msg = 1 /\ mst'.msg = 2 /\ UNCHANGED dat0
               /\ mst'.imgSize = IF mst.size >= 1 /\ mst.dat0 <= MaxSramSize
                                 THEN mst.dat0 ELSE MaxSramSize
            \/ MstMove("M_next", "done") /\ mst.msg = 2 /\ UNCHANGED <<mst, dat0>>
<1> USE Basics DEF TypeInv, SlvStays, HdlStays, MstMove, MstKeeps, fab, regs
<1>t. "mst" \in Thread /\ Thread = {"mst", "slv", "hdl"} /\ "mst2slv" \in Dir /\ "slv2mst" \in Dir
  BY DEF Thread, Dir
<1>d. dat0 \in [Dir -> Nat]
  BY DEF TypeOK
<1>m. mst \in [msg : {1, 2}, cmd : Nat, size : Byte, dat0 : Nat, dat1 : Nat, imgSize : Nat]
  BY DEF TypeOK
<1>1. CASE MstAwaitFree
  BY <1>1, <1>t, GotoEffect DEF MstAwaitFree, MstMsg
<1>2. CASE MstWriteData
  BY <1>2, <1>t, <1>d, GotoEffect DEF MstWriteData, MstMsg, MstHasData
<1>3. CASE MstAwaitNoInt
  BY <1>3, <1>t, GotoEffect DEF MstAwaitNoInt
<1>4. CASE MstPoll
  BY <1>4, <1>t, GotoEffect DEF MstPoll
<1>5. CASE MstReadDoorbell
  BY <1>5, <1>t, <1>m, GotoEffect DEF MstReadDoorbell
<1>6. CASE MstReadData
  BY <1>6, <1>t, <1>m, GotoEffect DEF MstReadData
<1>7. CASE MstPrepareImage
  BY <1>7, <1>t, <1>m, GotoEffect DEF MstPrepareImage
<1>8. CASE MstReturn
  BY <1>8, <1>t, GotoEffect DEF MstReturn
<1>9. QED
  BY <1>1, <1>2, <1>3, <1>4, <1>5, <1>6, <1>7, <1>8

(* What the counts say of a master at a given place.                       *)
LEMMA MstPlace ==
  ASSUME TypeOK, Core
  PROVE  /\ mst.msg = 1 => ~Ready /\ pc["hdl"] # "H_rdy" /\ (calls = 1 => pc["hdl"] = "H_wait")
         /\ pc["mst"] \in {"M_poll", "M_rdb", "M_rd0", "M_rd1"} \/ (pc["mst"] = "M_ack" /\ part["mst"] = 1) =>
              Answers = mst.msg - 1 /\ Raises = mst.msg
         /\ pc["mst"] \in {"M_rdb", "M_rd0", "M_rd1"} \/ (pc["mst"] = "M_ack" /\ part["mst"] = 1) =>
              Replies = mst.msg
<1> USE Basics, CountType DEF Core
<1>1. mst.msg = 1 => Raises <= 1
  BY DEF Raises, Count
<1>2. mst.msg = 1 => ~Ready /\ pc["hdl"] # "H_rdy" /\ (calls = 1 => pc["hdl"] = "H_wait")
  BY <1>1 DEF OrderInv, PlaceInv, Ready, Serves
<1>3. pc["mst"] \in {"M_poll", "M_rdb", "M_rd0", "M_rd1"} \/ (pc["mst"] = "M_ack" /\ part["mst"] = 1) =>
        Answers = mst.msg - 1 /\ Raises = mst.msg
  BY DEF Answers, Raises, Count, Rung
<1>4. pc["mst"] \in {"M_rdb", "M_rd0", "M_rd1"} \/ (pc["mst"] = "M_ack" /\ part["mst"] = 1) =>
        Replies = mst.msg
  BY <1>3 DEF OrderInv
<1>5. QED
  BY <1>2, <1>3, <1>4

LEMMA MstQuiet ==
  ASSUME ExchangeInv, build' = build,
         \/ MstAwaitFree \/ MstWriteData \/ MstAwaitNoInt \/ MstPoll \/ MstReadDoorbell
         \/ MstReadData \/ MstPrepareImage \/ MstReturn
  PROVE  (Core /\ Data)' /\ CountStep
<1> USE DEF ExchangeInv, TypeInv, Core, Data
<1>1. UNCHANGED <<Serves, Acks, Count(HdlReplied), Ready, Count(SlvReplied), Replies>>
  BY MstTable, HdlCountsStay, SlvCountsStay DEF Replies
<1>2. UNCHANGED <<Rings, Raises, Answers>>
  BY MstTable, Basics DEF MstMove, MstKeeps, Rings, Raises, Answers, Rung, PlaceInv, Count
<1>3. Quiet
  BY <1>1, <1>2, MstTable DEF Quiet
<1>4. PlaceInv'
  BY MstTable, Basics DEF PlaceInv, MstMove, MstKeeps, SlvStays, HdlStays, Rung, FabLock
<1>5. OrderInv'
  <2>1. MstMove("M_poll", "M_rdb") /\ db["slv2mst"] # 0 => Replies >= mst.msg
    BY MstPlace, Basics, CountType DEF MstMove, DoorbellInv
  <2>2. MstMove("M_int", "M_db") /\ slvInt = 0 => Raises = Serves
    BY CountType DEF OrderInv
  <2>3. QED
    BY <1>1, <1>2, <2>1, <2>2, MstTable, Basics, CountType
       DEF OrderInv, MstMove, MstKeeps, HdlStays
<1>6. FlagInv'
  BY <1>1, MstTable, MstPlace, Basics
     DEF FlagInv, MstMove, MstKeeps, SlvStays, HdlStays, Ready, Count
<1>7. RequestInv'
  <2>1. MstMove("M_next", "M_send") /\ mst.msg = 1 => mst.size = 1 /\ mst.dat0 = SlvBuffSize
    BY DEF ReplyInv, MstMove, RepSize
  <2>2. QED
    BY <1>1, <2>1, MstTable, MstPlace, Basics, SizeAssumption
       DEF RequestInv, MstMove, MstKeeps, HdlStays, ImgSize
<1>8. ReplyInv'
  <2>1. MstMove("M_rdb", "M_rd0") => /\ DbCmd(db["slv2mst"]) = RepCmd(mst.msg)
                                     /\ DbSize(db["slv2mst"]) = RepSize(mst.msg)
    BY MstPlace, Basics, DoorbellCarries DEF MstMove, DoorbellInv
  <2>2. MstMove("M_rd0", "M_rd1") /\ mst.msg = 1 => dat0["slv2mst"] = SlvBuffSize
    BY MstPlace DEF MstMove, ReplyInv
  <2>3. (SendInv("hdl", STATUS_REPLY, 1) /\ SendInv("slv", IMAGE_DONE, 0))'
    BY MstTable DEF ReplyInv, SendInv, SlvStays, HdlStays
  <2>4. QED
    BY <1>1, <1>2, <2>1, <2>2, <2>3, MstTable, Basics
       DEF ReplyInv, MstMove, MstKeeps, SlvStays, HdlStays
<1>9. QED
  BY <1>3, <1>4, <1>5, <1>6, <1>7, <1>8, QuietData

------------------------------------------------------------------------------
(* Histories                                                               *)

(* One more message makes the first n messages the first n + 1.            *)
LEMMA FirstGrows ==
  ASSUME NEW s, NEW k \in {1, 2}
  PROVE  Append(First(k - 1, s), s[k]) = First(k, s)
<1>1. CASE k = 1
  BY <1>1 DEF First
<1>2. CASE k = 2
  <2>1. \A a, b : Append(<<a>>, b) = <<a, b>>
    <3> SUFFICES ASSUME NEW a, NEW b PROVE Append(<<a>>, b) = <<a, b>>
      OBVIOUS
    <3>1. <<a>> \in Seq({a, b}) /\ <<a, b>> \in Seq({a, b}) /\ b \in {a, b}
      OBVIOUS
    <3>2. /\ Append(<<a>>, b) \in Seq({a, b}) /\ Len(Append(<<a>>, b)) = 2
          /\ Append(<<a>>, b)[1] = a /\ Append(<<a>>, b)[2] = b
      BY <3>1, AppendProperties
    <3>3. /\ Len(<<a, b>>) = 2 /\ <<a, b>>[1] = a /\ <<a, b>>[2] = b
          /\ \A i \in 1..2 : i = 1 \/ i = 2
      OBVIOUS
    <3>4. \A i \in 1..Len(Append(<<a>>, b)) : Append(<<a>>, b)[i] = <<a, b>>[i]
      BY <3>2, <3>3
    <3>5. QED
      BY <3>1, <3>2, <3>3, <3>4, SeqEqual
  <2>2. QED
    BY <1>2, <2>1 DEF First
<1>3. QED
  BY <1>1, <1>2

(* The messages the two sides mean to send, and what the receivers make of *)
(* a message of these sizes.                                               *)
LEMMA Messages ==
  /\ Requests[1] = [cmd |-> STATUS_REQUEST, data |-> <<>>]
  /\ Requests[2] = [cmd |-> IMAGE_READY, data |-> <<ImgSize>>]
  /\ TheReplies[1] = SlvMsg("hdl") /\ TheReplies[2] = SlvMsg("slv")
  /\ \A d0, d1 : /\ Latched(ReqCmd(1), ReqSize(1), d0, d1) = Requests[1]
                 /\ d0 = ImgSize => Latched(ReqCmd(2), ReqSize(2), d0, d1) = Requests[2]
                 /\ d0 = SlvBuffSize => Latched(RepCmd(1), RepSize(1), d0, d1) = TheReplies[1]
                 /\ Latched(RepCmd(2), RepSize(2), d0, d1) = TheReplies[2]
  BY DEF Requests, TheReplies, SlvMsg, Latched, ReqCmd, ReqSize, RepCmd, RepSize

------------------------------------------------------------------------------
(* The master rings and acknowledges.                                      *)

LEMMA MstRingKeeps ==
  ASSUME ExchangeInv, MstRing, build' = build
  PROVE  (Core /\ Data)' /\ CountStep
<1> USE DEF ExchangeInv, TypeInv, Core, Data
<1> DEFINE k == mst.msg
<1>t. "mst" \in Thread /\ Thread = {"mst", "slv", "hdl"} /\ Dir = {"mst2slv", "slv2mst"}
      /\ "M_poll" \in Label
  BY DEF Thread, Dir, Label
<1>p. pc["mst"] = "M_db" /\ k \in {1, 2}
  BY Basics DEF MstRing
<1>1. MstMsg = Requests[k] /\ Doorbell(MstMsg.cmd, Len(MstMsg.data)) = Doorbell(ReqCmd(k), ReqSize(k))
  BY <1>p, Messages DEF RequestInv, MstMsg, ReqCmd, ReqSize
<1>2. Raises = k - 1 /\ Answers = k - 1 /\ Serves = k - 1 /\ slvInt = 0
      /\ Rings = k - 1 + Count(part["mst"] > 1)
  BY <1>p, Basics, CountType DEF OrderInv, Raises, Answers, Rings, Rung, Count
<1>3. pc["hdl"] \in {"H_wait", "done"} /\ Acks = k - 1
  <2>1. pc["hdl"] \in {"H_wait", "done"}
    BY <1>2, <1>p, CountType DEF OrderInv
  <2>2. QED
    BY <1>2, <1>p, <2>1, Basics, CountType DEF PlaceInv, Acks, Acked, Sending, Count
<1>4. /\ UNCHANGED <<pc["slv"], part["slv"], pc["hdl"], part["hdl"]>>
      /\ UNCHANGED <<db["slv2mst"], dat0, dat1, failed>>
      /\ db'["mst2slv"] = IF part["mst"] = 1 THEN Doorbell(ReqCmd(k), ReqSize(k)) ELSE db["mst2slv"]
      /\ \/ /\ FabLock \/ part["mst"] = 3
            /\ pc'["mst"] = "M_poll" /\ part'["mst"] = 1 /\ slvInt' = 1
         \/ /\ ~FabLock /\ part["mst"] < 3
            /\ pc'["mst"] = pc["mst"] /\ part'["mst"] = part["mst"] + 1 /\ slvInt' = slvInt
  <2>1. WriteDoorbell("mst", "mst2slv", Doorbell(ReqCmd(k), ReqSize(k)), "M_poll")
    BY <1>1 DEF MstRing
  <2>2. FabLock => part["mst"] = 1
    BY DEF PlaceInv
  <2>3. QED
    BY <1>t, <1>2, <2>1, <2>2, RingEffect
<1>5. UNCHANGED <<mb, gMb, flag, mst, calls, rcvd>>
  BY DEF MstRing
<1>6. UNCHANGED <<Serves, Acks, Count(HdlReplied), Ready, Count(SlvReplied), Replies>>
      /\ SlvStays /\ HdlStays
  BY <1>4, <1>5, HdlCountsStay, SlvCountsStay DEF Replies, SlvStays, HdlStays
<1>7. /\ Answers' = Answers
      /\ Rings' = k
      /\ Raises' = k - 1 + Count(FabLock \/ part["mst"] = 3)
      /\ slvInt' = Count(FabLock \/ part["mst"] = 3)
  <2>1. part["mst"] \in {1, 2, 3} /\ (FabLock => part["mst"] = 1)
    BY Basics DEF PlaceInv
  <2>2. QED
    BY <1>2, <1>4, <1>5, <1>p, <2>1 DEF Rings, Raises, Answers, Rung, Count
<1>8. PlaceInv'
  BY <1>4, <1>5, <1>p, Basics DEF PlaceInv, Rung, FabLock
<1>9. OrderInv'
  <2>0. pc'["hdl"] = pc["hdl"] /\ Replies' <= Acks' /\ Answers <= Replies /\ slvInt = 0
    BY <1>2, <1>4, <1>6 DEF OrderInv
  <2>1. CASE FabLock \/ part["mst"] = 3
    <3>1. Raises' = k /\ slvInt' = 1 /\ pc'["mst"] = "M_poll"
      BY <1>4, <1>7, <1>p, <2>1 DEF Count, PlaceInv
    <3>2. QED
      <4>1. (Answers <= Replies /\ Replies <= Acks /\ Acks <= Raises)'
        BY <1>2, <1>3, <1>6, <1>7, <1>p, <2>0, <3>1, CountType
      <4>2. (Rings <= Answers + 1 /\ Rings <= Serves + 1)' /\ (slvInt = Raises - Serves)'
        <5>1. Answers' = k - 1 /\ Serves' = k - 1 /\ Rings' = k
          BY <1>2, <1>6, <1>7
        <5>2. QED
          BY <1>p, <3>1, <5>1
      <4>3. (pc["hdl"] \notin {"H_wait", "done"} => Raises > Serves)'
        BY <1>3, <2>0
      <4>4. (pc["mst"] = "M_db" => Raises = Serves)'
        BY <1>2, <1>6, <3>1
      <4>5. QED
        BY <3>1, <4>1, <4>2, <4>3, <4>4 DEF OrderInv
  <2>2. CASE ~(FabLock \/ part["mst"] = 3)
    <3>1. Raises' = k - 1 /\ slvInt' = 0 /\ pc'["mst"] = "M_db"
      BY <1>2, <1>4, <1>7, <1>p, <2>2 DEF Count
    <3>2. QED
      <4>1. (Answers <= Replies /\ Replies <= Acks /\ Acks <= Raises)'
        BY <1>2, <1>3, <1>6, <1>7, <1>p, <2>0, <3>1, CountType
      <4>2. (Rings <= Answers + 1 /\ Rings <= Serves + 1)' /\ (slvInt = Raises - Serves)'
        <5>1. Answers' = k - 1 /\ Serves' = k - 1 /\ Rings' = k
          BY <1>2, <1>6, <1>7
        <5>2. QED
          BY <1>p, <3>1, <5>1
      <4>3. (pc["hdl"] \notin {"H_wait", "done"} => Raises > Serves)'
        BY <1>3, <2>0
      <4>4. (pc["mst"] = "M_db" => Raises = Serves)'
        BY <1>2, <1>6, <3>1
      <4>5. QED
        BY <3>1, <4>1, <4>2, <4>3, <4>4 DEF OrderInv
  <2>3. QED
    BY <2>1, <2>2
<1>10. FlagInv'
  BY <1>4, <1>5, <1>6 DEF FlagInv, Count
<1>11. DoorbellInv'
  <2>1. part["mst"] # 1 => Rings > Acks
    BY <1>2, <1>3, Basics DEF Count
  <2>2. QED
    BY <1>2, <1>3, <1>4, <1>6, <1>7, <2>1, <1>p, Basics DEF DoorbellInv, Count
<1>12. RequestInv'
  BY <1>4, <1>5, <1>6, <1>p DEF RequestInv
<1>13. ReplyInv'
  <2>1. (SendInv("hdl", STATUS_REPLY, 1) /\ SendInv("slv", IMAGE_DONE, 0))'
    BY <1>4, <1>5 DEF ReplyInv, SendInv
  <2>2. QED
    BY <1>4, <1>5, <1>6, <1>7, <1>p, <2>1 DEF ReplyInv
<1>14. HistInv'
  <2>0. sent \in [Dir -> Seq(Msg)] /\ sent' = Record("mst", sent, "mst2slv", MstMsg)
    BY DEF MstRing, TypeOK
  <2>1. sent'["slv2mst"] = sent["slv2mst"] /\ rcvd' = rcvd
    BY <1>t, <1>5, <2>0 DEF Record
  <2>2. sent'["mst2slv"] = IF part["mst"] = 1 THEN Append(sent["mst2slv"], MstMsg) ELSE sent["mst2slv"]
    BY <1>t, <2>0 DEF Record
  <2>3. CASE part["mst"] = 1
    <3>1. Rings = k - 1
      BY <1>2, <1>p, <2>3 DEF Count
    <3>2. sent'["mst2slv"] = First(k, Requests)
      BY <1>1, <1>p, <2>2, <2>3, <3>1, FirstGrows DEF HistInv
    <3>3. QED
      BY <1>6, <1>7, <2>1, <3>2 DEF HistInv
  <2>4. CASE part["mst"] # 1
    <3>1. Rings = k
      BY <1>2, <1>p, <2>4, Basics DEF Count
    <3>2. QED
      BY <1>6, <1>7, <2>1, <2>2, <2>4, <3>1 DEF HistInv
  <2>5. QED
    BY <2>3, <2>4
<1>15. CountStep
  <2>1. CASE part["mst"] = 1
    <3>1. Rings = k - 1
      BY <1>2, <1>p, <2>1 DEF Count
    <3>2. QED
      BY <1>6, <1>7, <1>p, <3>1 DEF CountStep
  <2>2. CASE part["mst"] # 1
    <3>1. Rings = k
      BY <1>2, <1>p, <2>2, Basics DEF Count
    <3>2. QED
      BY <1>2, <1>6, <1>7, <3>1 DEF CountStep
  <2>3. QED
    BY <2>1, <2>2
<1>16. QED
  BY <1>4, <1>8, <1>9, <1>10, <1>11, <1>12, <1>13, <1>14, <1>15

LEMMA MstAckKeeps ==
  ASSUME ExchangeInv, MstAck, build' = build
  PROVE  (Core /\ Data)' /\ CountStep
<1> USE DEF ExchangeInv, TypeInv, Core, Data
<1> DEFINE k == mst.msg
<1>t. "mst" \in Thread /\ Thread = {"mst", "slv", "hdl"} /\ Dir = {"mst2slv", "slv2mst"}
      /\ "M_next" \in Label
  BY DEF Thread, Dir, Label
<1>p. pc["mst"] = "M_ack" /\ k \in {1, 2} /\ part["mst"] \in {1, 2} /\ (FabLock => part["mst"] = 1)
  BY Basics DEF MstAck, PlaceInv
<1>1. Latched(mst.cmd, mst.size, mst.dat0, mst.dat1) = TheReplies[k]
  BY <1>p, Messages DEF ReplyInv
<1>2. Raises = k /\ Rings = k /\ Answers = k - 1 + Count(part["mst"] > 1) /\ Replies = k
  BY <1>p, Basics, CountType DEF OrderInv, Raises, Answers, Rings, Rung, Count
<1>4. /\ UNCHANGED <<pc["slv"], part["slv"], pc["hdl"], part["hdl"]>>
      /\ UNCHANGED <<db["mst2slv"], dat0, dat1, slvInt, failed>>
      /\ db'["slv2mst"] = IF part["mst"] = 1 THEN 0 ELSE db["slv2mst"]
      /\ \/ pc'["mst"] = "M_next" /\ part'["mst"] = 1
         \/ ~FabLock /\ part["mst"] = 1 /\ pc'["mst"] = pc["mst"] /\ part'["mst"] = 2
  <2>1. WriteDoorbell("mst", "slv2mst", 0, "M_next")
    BY DEF MstAck
  <2>2. QED
    BY <1>t, <1>p, <2>1, ReplyEffect
<1>5. UNCHANGED <<mb, gMb, flag, mst, calls, sent>>
  BY DEF MstAck
<1>6. UNCHANGED <<Serves, Acks, Count(HdlReplied), Ready, Count(SlvReplied), Replies>>
      /\ SlvStays /\ HdlStays
  BY <1>4, <1>5, HdlCountsStay, SlvCountsStay DEF Replies, SlvStays, HdlStays
<1>7. Answers' = k /\ Rings' = k /\ Raises' = k
  BY <1>4, <1>5, <1>p DEF Rings, Raises, Answers, Rung, Count
<1>8. PlaceInv'
  BY <1>4, <1>5, <1>p, Basics DEF PlaceInv, Rung, FabLock
<1>9. OrderInv'
  BY <1>2, <1>4, <1>5, <1>6, <1>7, <1>p, CountType, Basics DEF OrderInv, Count
<1>10. FlagInv'
  BY <1>4, <1>5, <1>6 DEF FlagInv, Count
<1>11. DoorbellInv'
  BY <1>2, <1>4, <1>6, <1>7, <1>p DEF DoorbellInv, Count
<1>12. RequestInv'
  BY <1>4, <1>5, <1>6, <1>p DEF RequestInv
<1>13. ReplyInv'
  <2>1. (SendInv("hdl", STATUS_REPLY, 1) /\ SendInv("slv", IMAGE_DONE, 0))'
    BY <1>4, <1>5 DEF ReplyInv, SendInv
  <2>2. QED
    BY <1>4, <1>5, <1>6, <1>7, <1>p, <2>1 DEF ReplyInv
<1>14. HistInv'
  <2>0. rcvd \in [Dir -> Seq(Msg)] /\ rcvd' = Record("mst", rcvd, "slv2mst", TheReplies[k])
    BY <1>1 DEF MstAck, TypeOK
  <2>1. rcvd'["mst2slv"] = rcvd["mst2slv"] /\ sent' = sent
    BY <1>t, <1>5, <2>0 DEF Record
  <2>2. rcvd'["slv2mst"] = IF part["mst"] = 1 THEN Append(rcvd["slv2mst"], TheReplies[k]) ELSE rcvd["slv2mst"]
    BY <1>t, <2>0 DEF Record
  <2>3. CASE part["mst"] = 1
    <3>1. Answers = k - 1
      BY <1>2, <1>p, <2>3 DEF Count
    <3>2. rcvd'["slv2mst"] = First(k, TheReplies)
      BY <1>p, <2>2, <2>3, <3>1, FirstGrows DEF HistInv
    <3>3. QED
      BY <1>2, <1>6, <1>7, <2>1, <3>2 DEF HistInv
  <2>4. CASE part["mst"] # 1
    <3>1. Answers = k
      BY <1>2, <1>p, <2>4 DEF Count
    <3>2. QED
      BY <1>2, <1>6, <1>7, <2>1, <2>2, <2>4, <3>1 DEF HistInv
  <2>5. QED
    BY <2>3, <2>4
<1>15. CountStep
  <2>1. CASE part["mst"] = 1
    <3>1. Answers = k - 1
      BY <1>2, <1>p, <2>1 DEF Count
    <3>2. QED
      BY <1>2, <1>6, <1>7, <1>p, <3>1 DEF CountStep
  <2>2. CASE part["mst"] # 1
    <3>1. Answers = k
      BY <1>2, <1>p, <2>2, Basics DEF Count
    <3>2. QED
      BY <1>2, <1>6, <1>7, <3>1 DEF CountStep
  <2>3. QED
    BY <2>1, <2>2
<1>16. QED
  BY <1>4, <1>8, <1>9, <1>10, <1>11, <1>12, <1>13, <1>14, <1>15

------------------------------------------------------------------------------
(* The handler's own steps                                                 *)

(* What the counts say of a handler that is serving a request.             *)
LEMMA HdlPlace ==
  ASSUME TypeOK, Core
  PROVE  /\ pc["hdl"] \notin {"H_wait", "done"} =>
              Raises = Serves + 1 /\ Rings = Serves + 1 /\ slvInt = 1 /\ pc["mst"] # "M_db"
         /\ pc["hdl"] \notin {"H_wait", "done"} /\ calls = 1 =>
              mst.msg = 2 /\ pc["mst"] \in Rung
         /\ pc["hdl"] \in {"H_adb", "H_r0", "H_r1"} \/ (pc["hdl"] = "H_ack" /\ part["hdl"] = 1) =>
              Acks = Serves
<1> USE Basics, CountType DEF Core
<1>1. Raises <= Rings
  BY DEF Raises, Rings, Count
<1>2. pc["hdl"] \notin {"H_wait", "done"} =>
        Raises = Serves + 1 /\ Rings = Serves + 1 /\ slvInt = 1 /\ pc["mst"] # "M_db"
  BY <1>1 DEF OrderInv
<1>3. pc["hdl"] \notin {"H_wait", "done"} /\ calls = 1 => Raises = 2
  BY <1>2 DEF Serves
<1>4. Raises = 2 => mst.msg = 2 /\ pc["mst"] \in Rung
  BY DEF Raises, Count
<1>5. pc["hdl"] \in {"H_adb", "H_r0", "H_r1"} \/ (pc["hdl"] = "H_ack" /\ part["hdl"] = 1) =>
        Acks = Serves
  BY DEF Acks, Count, Acked, Sending
<1>6. QED
  BY <1>2, <1>3, <1>4, <1>5

(* Until the flag is set the slave firmware waits; once it is, the handler *)
(* has acknowledged both requests and the master has one reply.            *)
LEMMA SlvPlace ==
  ASSUME TypeOK, Core, FlagInv
  PROVE  /\ pc["slv"] # "S_wait" => Ready
         /\ Ready => /\ pc["hdl"] \in {"H_clr", "done"} /\ calls < 2
                     /\ mst.msg = 2 /\ Answers >= 1 /\ Acks = 2
<1> USE Basics, CountType DEF Core
<1>1. Ready => pc["hdl"] \in {"H_clr", "done"} /\ calls < 2
  BY DEF Ready, PlaceInv
<1>2. Ready => Acks = 2
  BY <1>1 DEF Ready, Acks, Serves, Count, PlaceInv, Acked, Sending
<1>3. Ready => Raises = 2
  BY <1>2 DEF OrderInv
<1>4. Raises = 2 => mst.msg = 2 /\ Answers >= 1
  BY DEF Raises, Answers, Count
<1>5. QED
  BY <1>1, <1>2, <1>3, <1>4 DEF FlagInv

HdlMove(from, to) == pc["hdl"] = from /\ pc'["hdl"] = to
SKeeps == UNCHANGED <<mb.S_CMD, mb.S_SIZE, mb.S_DAT0>>
RKeeps == UNCHANGED <<mb.R_CMD, mb.R_SIZE, mb.R_DAT0>>

LEMMA HdlTable ==
  ASSUME ExchangeInv,
         \/ HdlAwaitInt \/ HdlCheckInt \/ HdlReadDoorbell \/ HdlReadData
         \/ HdlGetMbCtx \/ HdlHandleCmd \/ HdlSetReady
  PROVE  /\ MstStays /\ SlvStays /\ part'["hdl"] = part["hdl"]
         /\ UNCHANGED <<db, dat0, slvInt, mst, calls, failed, sent, rcvd>>
         /\ \/ HdlMove("H_wait", "H_chk") /\ slvInt # 0 /\ UNCHANGED <<mb, gMb, flag>>
            \/ HdlMove("H_chk", "H_adb") /\ UNCHANGED <<mb, gMb, flag>>
            \/ /\ HdlMove("H_adb", "H_r0") /\ SKeeps /\ UNCHANGED <<gMb, flag>>
               /\ mb'.R_CMD = DbCmd(db["mst2slv"]) /\ mb'.R_SIZE = DbSize(db["mst2slv"])
            \/ /\ HdlMove("H_r0", "H_r1") /\ SKeeps /\ UNCHANGED <<gMb, flag, mb.R_CMD, mb.R_SIZE>>
               /\ mb'.R_DAT0 = dat0["mst2slv"]
            \/ HdlMove("H_r1", "H_ack") /\ SKeeps /\ RKeeps /\ UNCHANGED <<gMb, flag>>
            \/ /\ HdlMove("H_get", "H_cmd") /\ UNCHANGED <<mb, flag>>
               /\ UNCHANGED <<gMb.S_CMD, gMb.S_SIZE, gMb.S_DAT0>>
               /\ gMb'.R_CMD = mb.R_CMD /\ gMb'.R_SIZE = mb.R_SIZE /\ gMb'.R_DAT0 = mb.R_DAT0
            \/ /\ HdlMove("H_cmd", "X_busy") /\ calls = 2 /\ UNCHANGED <<mb, flag>>
               /\ gMb'.S_CMD = STATUS_REPLY /\ gMb'.S_SIZE = 1 /\ gMb'.S_DAT0 = SlvBuffSize
            \/ /\ HdlMove("H_cmd", "H_rdy") /\ calls = 1 /\ UNCHANGED <<mb, gMb, flag.RDY>>
               /\ flag'.SIZE = gMb.R_DAT0
            \/ /\ HdlMove("H_rdy", "H_clr") /\ UNCHANGED <<mb, gMb, flag.SIZE>>
               /\ flag'.RDY = 1
<1> USE Basics DEF ExchangeInv, TypeInv, Core, Data, MstStays, SlvStays, HdlMove, SKeeps, RKeeps,
        fab, regs
<1>t. "hdl" \in Thread /\ Thread = {"mst", "slv", "hdl"}
  BY DEF Thread
<1>m. mb \in [busy : {0, 1}, R_CMD : Nat, R_SIZE : Byte, R_DAT0 : Nat, R_DAT1 : Nat,
                             S_CMD : Nat, S_SIZE : Byte, S_DAT0 : Nat, S_DAT1 : Nat]
  BY DEF TypeOK
<1>g. gMb \in [R_CMD : Nat, R_SIZE : Byte, R_DAT0 : Nat, R_DAT1 : Nat,
               S_CMD : Nat, S_SIZE : Byte, S_DAT0 : Nat, S_DAT1 : Nat]
  BY DEF TypeOK
<1>f. flag \in [RDY : {0, 1}, SIZE : Nat]
  BY DEF TypeOK
<1>1. CASE HdlAwaitInt
  BY <1>1, <1>t, GotoEffect DEF HdlAwaitInt
<1>2. CASE HdlCheckInt
  <2>1. slvInt = 1
    BY <1>2, HdlPlace DEF HdlCheckInt
  <2>2. Goto("hdl", "H_adb") /\ UNCHANGED calls /\ pc["hdl"] = "H_chk"
    BY <1>2, <2>1 DEF HdlCheckInt
  <2>3. UNCHANGED <<db, dat0, slvInt, mb, gMb, flag, mst, part, failed, sent, rcvd>>
    BY <1>2 DEF HdlCheckInt
  <2>4. QED
    BY <1>t, <2>2, <2>3, GotoEffect
<1>3. CASE HdlReadDoorbell
  BY <1>3, <1>t, <1>m, GotoEffect DEF HdlReadDoorbell
<1>4. CASE HdlReadData
  BY <1>4, <1>t, <1>m, GotoEffect DEF HdlReadData
<1>5. CASE HdlGetMbCtx
  BY <1>5, <1>t, <1>g, GotoEffect DEF HdlGetMbCtx
<1>6. CASE HdlHandleCmd
  <2>1. pc["hdl"] = "H_cmd" /\ gMb.R_CMD = ReqCmd(Serves + 1) /\ calls \in {1, 2}
    BY <1>6 DEF HdlHandleCmd, RequestInv, PlaceInv
  <2>2. CASE calls = 2
    <3>1. gMb.R_CMD = STATUS_REQUEST
      BY <2>1, <2>2 DEF ReqCmd, Serves
    <3>2. /\ gMb' = [gMb EXCEPT !.S_CMD = STATUS_REPLY, !.S_SIZE = 1, !.S_DAT0 = SlvBuffSize]
          /\ flag' = flag /\ failed' = failed /\ Goto("hdl", "X_busy")
      BY <1>6, <3>1 DEF HdlHandleCmd, STATUS_REQUEST, IMAGE_READY
    <3>3. UNCHANGED <<db, dat0, slvInt, mb, mst, calls, part, sent, rcvd>>
      BY <1>6 DEF HdlHandleCmd
    <3>4. QED
      BY <1>t, <1>g, <2>1, <2>2, <3>2, <3>3, GotoEffect
  <2>3. CASE calls = 1
    <3>1. gMb.R_CMD = IMAGE_READY
      BY <2>1, <2>3 DEF ReqCmd, Serves
    <3>2. /\ gMb' = gMb /\ flag' = [flag EXCEPT !.SIZE = gMb.R_DAT0] /\ failed' = failed
          /\ Goto("hdl", "H_rdy")
      BY <1>6, <3>1 DEF HdlHandleCmd, STATUS_REQUEST, IMAGE_READY
    <3>3. UNCHANGED <<db, dat0, slvInt, mb, mst, calls, part, sent, rcvd>>
      BY <1>6 DEF HdlHandleCmd
    <3>4. QED
      BY <1>t, <1>f, <2>1, <2>3, <3>2, <3>3, GotoEffect
  <2>4. QED
    BY <2>1, <2>2, <2>3
<1>7. CASE HdlSetReady
  BY <1>7, <1>t, <1>f, GotoEffect DEF HdlSetReady
<1>8. QED
  BY <1>1, <1>2, <1>3, <1>4, <1>5, <1>6, <1>7

LEMMA HdlQuiet ==
  ASSUME ExchangeInv, build' = build,
         \/ HdlAwaitInt \/ HdlCheckInt \/ HdlReadDoorbell \/ HdlReadData
         \/ HdlGetMbCtx \/ HdlHandleCmd \/ HdlSetReady
  PROVE  (Core /\ Data)' /\ CountStep
<1> USE DEF ExchangeInv, TypeInv, Core, Data
<1>1. UNCHANGED <<Rings, Raises, Answers, Count(SlvReplied), Serves>>
  BY HdlTable, MstCountsStay, SlvCountsStay DEF Serves
<1>2. UNCHANGED <<Acks, HdlReplied>>
  BY HdlTable, Basics DEF HdlMove, Acks, Serves, HdlReplied, Stored, AfterSend, PlaceInv, Acked, Sending, Count
<1>3. Replies' = Replies
  BY <1>1, <1>2 DEF Replies
<1>4. Quiet
  BY <1>1, <1>2, <1>3, HdlTable DEF Quiet
<1>5. PlaceInv'
  BY HdlTable, Basics DEF PlaceInv, HdlMove, SlvStays, MstStays, Acked, Sending, FabLock
<1>6. OrderInv'
  <2>1. slvInt # 0 => Raises > Serves
    BY CountType, Basics DEF OrderInv
  <2>2. QED
    BY <1>1, <1>2, <1>3, <2>1, HdlTable DEF OrderInv, HdlMove, MstStays
<1>7. FlagInv'
  <2>1. HdlMove("H_rdy", "H_clr") => Ready' /\ ~Ready
    BY HdlTable, Basics DEF HdlMove, Ready, PlaceInv
  <2>2. ~HdlMove("H_rdy", "H_clr") => Ready' = Ready
    BY HdlTable, Basics DEF HdlMove, Ready
  <2>3. CASE HdlMove("H_rdy", "H_clr")
    BY <2>1, <2>3, HdlTable DEF FlagInv, HdlMove, SlvStays, Count
  <2>4. CASE ~HdlMove("H_rdy", "H_clr")
    <3>1. HdlMove("H_cmd", "H_rdy") => gMb.R_DAT0 = mst.imgSize \/ calls # 1
      BY DEF RequestInv, HdlMove
    <3>2. flag'.RDY = flag.RDY
      BY <2>4, HdlTable
    <3>3. (flag.RDY = Count(Ready))' /\ (pc["slv"] # "S_wait" => Ready)'
      BY <2>2, <2>4, <3>2, HdlTable DEF FlagInv, SlvStays, Count
    <3>4. (Ready \/ pc["hdl"] = "H_rdy" => flag.SIZE = mst.imgSize)'
      BY <2>2, <2>4, <3>1, HdlTable, SlvPlace DEF FlagInv, HdlMove
    <3>5. QED
      BY <3>3, <3>4 DEF FlagInv
  <2>5. QED
    BY <2>3, <2>4
<1>8. RequestInv'
  <2>1. HdlMove("H_adb", "H_r0") => /\ DbCmd(db["mst2slv"]) = ReqCmd(Serves + 1)
                                    /\ DbSize(db["mst2slv"]) = ReqSize(Serves + 1)
    <3>1. HdlMove("H_adb", "H_r0") => Rings = Serves + 1 /\ Rings > Acks /\ Rings \in {1, 2}
      BY HdlPlace, CountType DEF HdlMove
    <3>2. QED
      BY <3>1, DoorbellCarries DEF DoorbellInv
  <2>2. HdlMove("H_r0", "H_r1") /\ calls = 1 => dat0["mst2slv"] = mst.imgSize
    BY HdlPlace DEF RequestInv, HdlMove, Rung
  <2>3. QED
    BY <1>1, <2>1, <2>2, HdlTable DEF RequestInv, HdlMove, RKeeps, MstStays
<1>9. ReplyInv'
  <2>1. pc["hdl"] \notin {"H_clr", "done"} => pc["slv"] = "S_wait"
    BY SlvPlace
  <2>2. SendInv("slv", IMAGE_DONE, 0)'
    BY <2>1, HdlTable DEF ReplyInv, SendInv, SlvStays, HdlMove, SKeeps, Sending
  <2>3. SendInv("hdl", STATUS_REPLY, 1)'
    BY HdlTable DEF ReplyInv, SendInv, HdlMove, Sending
  <2>4. QED
    BY <1>1, <1>3, <2>1, <2>2, <2>3, HdlTable DEF ReplyInv, HdlMove, SlvStays, MstStays, Sending
<1>10. QED
  BY <1>4, <1>5, <1>6, <1>7, <1>8, <1>9, QuietData

------------------------------------------------------------------------------
(* The handler acknowledges and ends its call.                             *)

LEMMA HdlAckKeeps ==
  ASSUME ExchangeInv, HdlAck, build' = build
  PROVE  (Core /\ Data)' /\ CountStep
<1> USE DEF ExchangeInv, TypeInv, Core, Data
<1> DEFINE k == Serves + 1
<1>t. "hdl" \in Thread /\ Thread = {"mst", "slv", "hdl"} /\ Dir = {"mst2slv", "slv2mst"}
      /\ "H_get" \in Label
  BY DEF Thread, Dir, Label
<1>p. pc["hdl"] = "H_ack" /\ calls \in {1, 2} /\ k \in {1, 2} /\ k = 3 - calls
      /\ (FabLock => part["hdl"] = 1)
  BY Basics DEF HdlAck, PlaceInv, Serves
<1>1. Latched(mb.R_CMD, mb.R_SIZE, mb.R_DAT0, mb.R_DAT1) = Requests[k]
  <2>1. mb.R_CMD = ReqCmd(k) /\ mb.R_SIZE = ReqSize(k)
    BY <1>p DEF RequestInv
  <2>2. k = 2 => mb.R_DAT0 = ImgSize
    BY <1>p, HdlPlace DEF RequestInv
  <2>3. QED
    BY <1>p, <2>1, <2>2, Messages
<1>2. Raises = k /\ Rings = k /\ slvInt = 1 /\ Acks = k - 1 + Count(part["hdl"] > 1)
  BY <1>p, HdlPlace, CountType DEF Acks, Acked, Sending, Count
<1>4. /\ UNCHANGED <<pc["slv"], part["slv"], pc["mst"], part["mst"]>>
      /\ UNCHANGED <<db["slv2mst"], dat0, dat1, slvInt, failed>>
      /\ db'["mst2slv"] = IF part["hdl"] = 1 THEN 0 ELSE db["mst2slv"]
      /\ \/ pc'["hdl"] = "H_get" /\ part'["hdl"] = 1
         \/ ~FabLock /\ pc'["hdl"] = pc["hdl"] /\ part'["hdl"] \in {2, 3}
  <2>1. WriteDoorbell("hdl", "mst2slv", 0, "H_get")
    BY DEF HdlAck
  <2>2. /\ UNCHANGED <<pc["slv"], part["slv"], pc["mst"], part["mst"]>>
        /\ UNCHANGED <<db["slv2mst"], dat0, dat1, failed>>
        /\ db'["mst2slv"] = IF part["hdl"] = 1 THEN 0 ELSE db["mst2slv"]
        /\ \/ pc'["hdl"] = "H_get" /\ part'["hdl"] = 1 /\ slvInt' = 1
           \/ /\ ~FabLock /\ part["hdl"] < 3 /\ pc'["hdl"] = pc["hdl"]
              /\ part'["hdl"] = part["hdl"] + 1 /\ slvInt' = slvInt
    BY <1>t, <1>p, <2>1, RingEffect
  <2>3. QED
    BY <1>2, <2>2, Basics
<1>5. UNCHANGED <<mb, gMb, flag, mst, calls, sent>>
  BY DEF HdlAck
<1>6. UNCHANGED <<Rings, Raises, Answers, Serves, Count(SlvReplied), HdlReplied, Ready, Replies>>
  <2>1. UNCHANGED <<Rings, Raises, Answers, Serves, Count(SlvReplied)>>
    BY <1>4, <1>5, MstCountsStay, SlvCountsStay DEF MstStays, SlvStays, Serves
  <2>2. UNCHANGED HdlReplied
    BY <1>4, <1>5, <1>p DEF HdlReplied, Stored, AfterSend
  <2>3. UNCHANGED Ready
    BY <1>4, <1>5, <1>p DEF Ready
  <2>4. QED
    BY <2>1, <2>2, <2>3 DEF Replies
<1>7. Acks' = k
  BY <1>4, <1>5, <1>6, <1>p, CountType DEF Acks, Acked, Sending, Count
<1>8. PlaceInv'
  BY <1>4, <1>5, <1>p, Basics DEF PlaceInv, Acked, Sending, FabLock
<1>9. OrderInv'
  <2>1. Acks \in {k - 1, k} /\ Acks <= k
    BY <1>2, <1>p DEF Count
  <2>2. (Answers <= Replies /\ Replies <= Acks /\ Acks <= Raises)'
    BY <1>2, <1>6, <1>7, <1>p, <2>1, CountType DEF OrderInv
  <2>3. pc'["hdl"] \notin {"H_wait", "done"} /\ pc["hdl"] \notin {"H_wait", "done"}
    BY <1>4, <1>p
  <2>4. QED
    BY <1>4, <1>5, <1>6, <2>2, <2>3 DEF OrderInv
<1>10. FlagInv'
  BY <1>4, <1>5, <1>6, <1>p DEF FlagInv, Count
<1>11. DoorbellInv'
  <2>1. part["hdl"] # 1 => Acks = k
    BY <1>2, <1>p, Basics DEF Count
  <2>2. QED
    BY <1>2, <1>4, <1>6, <1>7, <1>p, <2>1 DEF DoorbellInv
<1>12. RequestInv'
  BY <1>4, <1>5, <1>6, <1>p DEF RequestInv
<1>13. ReplyInv'
  <2>1. (SendInv("hdl", STATUS_REPLY, 1) /\ SendInv("slv", IMAGE_DONE, 0))'
    BY <1>4, <1>5, <1>p DEF ReplyInv, SendInv, Sending
  <2>2. QED
    BY <1>4, <1>5, <1>6, <1>p, <2>1 DEF ReplyInv, Sending
<1>14. HistInv'
  <2>0. rcvd \in [Dir -> Seq(Msg)] /\ rcvd' = Record("hdl", rcvd, "mst2slv", Requests[k])
    BY <1>1 DEF HdlAck, TypeOK
  <2>1. rcvd'["slv2mst"] = rcvd["slv2mst"] /\ sent' = sent
    BY <1>t, <1>5, <2>0 DEF Record
  <2>2. rcvd'["mst2slv"] = IF part["hdl"] = 1 THEN Append(rcvd["mst2slv"], Requests[k]) ELSE rcvd["mst2slv"]
    BY <1>t, <2>0 DEF Record
  <2>3. CASE part["hdl"] = 1
    <3>1. Acks = k - 1
      BY <1>2, <1>p, <2>3 DEF Count
    <3>2. rcvd'["mst2slv"] = First(k, Requests)
      BY <1>p, <2>2, <2>3, <3>1, FirstGrows DEF HistInv
    <3>3. QED
      BY <1>6, <1>7, <2>1, <3>2 DEF HistInv
  <2>4. CASE part["hdl"] # 1
    <3>1. Acks = k
      BY <1>2, <1>p, <2>4, Basics DEF Count
    <3>2. QED
      BY <1>6, <1>7, <2>1, <2>2, <2>4, <3>1 DEF HistInv
  <2>5. QED
    BY <2>3, <2>4
<1>15. CountStep
  <2>1. CASE part["hdl"] = 1
    <3>1. Acks = k - 1
      BY <1>2, <1>p, <2>1 DEF Count
    <3>2. QED
      BY <1>6, <1>7, <1>p, <3>1 DEF CountStep
  <2>2. CASE part["hdl"] # 1
    <3>1. Acks = k
      BY <1>2, <1>p, <2>2, Basics DEF Count
    <3>2. QED
      BY <1>2, <1>6, <1>7, <3>1 DEF CountStep
  <2>3. QED
    BY <2>1, <2>2
<1>16. QED
  BY <1>4, <1>8, <1>9, <1>10, <1>11, <1>12, <1>13, <1>14, <1>15

LEMMA HdlClearKeeps ==
  ASSUME ExchangeInv, HdlClearInt, build' = build
  PROVE  (Core /\ Data)' /\ CountStep
<1> USE DEF ExchangeInv, TypeInv, Core, Data
<1>t. "hdl" \in Thread /\ Thread = {"mst", "slv", "hdl"}
  BY DEF Thread
<1>p. pc["hdl"] = "H_clr" /\ calls \in {1, 2} /\ part["hdl"] = 1
  BY Basics DEF HdlClearInt, PlaceInv
<1>1. /\ UNCHANGED <<fab, mb, gMb, flag, mst, part, failed, sent, rcvd, pc["mst"], pc["slv"]>>
      /\ slvInt' = 0 /\ calls' = calls - 1
      /\ pc'["hdl"] = IF calls = 2 THEN "H_wait" ELSE "done"
  BY <1>t, <1>p, GotoEffect DEF HdlClearInt, AfterCall
<1>2. UNCHANGED <<Rings, Raises, Answers, Count(SlvReplied)>> /\ MstStays /\ SlvStays
  BY <1>1, MstCountsStay, SlvCountsStay DEF MstStays, SlvStays
<1>3. Raises = Serves + 1 /\ Rings = Serves + 1 /\ slvInt = 1 /\ pc["mst"] # "M_db"
  BY <1>p, HdlPlace
<1>4. Serves' = Serves + 1 /\ Acks' = Acks
  BY <1>1, <1>p DEF Serves, Acks, Acked, Sending, Count
<1>5. HdlReplied /\ HdlReplied' /\ Ready' = Ready /\ Ready = (calls = 1)
  BY <1>1, <1>p DEF HdlReplied, Stored, AfterSend, Ready
<1>6. Replies' = Replies
  BY <1>2, <1>5 DEF Replies, Count
<1>7. Quiet
  BY <1>1, <1>2, <1>4, <1>6 DEF Quiet, fab
<1>8. PlaceInv'
  BY <1>1, <1>p, Basics DEF PlaceInv, Acked, Sending, FabLock
<1>9. OrderInv'
  <2>1. (slvInt = Raises - Serves)' /\ (Rings <= Serves + 1)'
    BY <1>1, <1>2, <1>3, <1>4, CountType
  <2>2. QED
    BY <1>1, <1>2, <1>3, <1>4, <1>6, <2>1 DEF OrderInv
<1>10. FlagInv'
  BY <1>1, <1>5, <1>p DEF FlagInv, Count
<1>11. RequestInv'
  BY <1>1 DEF RequestInv, fab
<1>12. ReplyInv'
  BY <1>1, <1>2, <1>6 DEF ReplyInv, SendInv, Sending, fab
<1>13. QED
  BY <1>7, <1>8, <1>9, <1>10, <1>11, <1>12, QuietData

------------------------------------------------------------------------------
(* Sending a reply, by the handler or by the slave firmware.               *)

(* Only one of them sends at a time: the handler sends the first reply and *)
(* the slave firmware the second.                                          *)
LEMMA SenderAlone ==
  ASSUME TypeOK, Core, FlagInv
  PROVE  /\ pc["hdl"] \in Sending => pc["slv"] = "S_wait" /\ ~Ready /\ calls = 2
         /\ pc["slv"] # "S_wait" => pc["hdl"] \in {"H_clr", "done"} /\ Answers >= 1
  BY SlvPlace DEF Core, PlaceInv, Sending

SendMove(t, from, to) == pc[t] = from /\ pc'[t] = to

LEMMA SendTable ==
  ASSUME TypeOK, NEW t \in Sender,
         \/ SendAwaitIdle(t) \/ SendCopy(t) \/ SendSetBusy(t) \/ SendSetCmd(t)
         \/ SendAwaitFree(t) \/ SendWriteData(t) \/ SendClearBusy(t)
  PROVE  /\ \A u \in Thread \ {t} : pc'[u] = pc[u]
         /\ part' = part /\ RKeeps
         /\ UNCHANGED <<db, slvInt, gMb, flag, mst, calls, failed, sent, rcvd, dat0["mst2slv"]>>
         /\ \/ SendMove(t, "X_busy", "X_d0") /\ UNCHANGED <<mb, dat0>>
            \/ /\ SendMove(t, "X_d0", "X_d1") /\ UNCHANGED <<mb.S_CMD, mb.S_SIZE, dat0>>
               /\ mb'.S_DAT0 = gMb.S_DAT0
            \/ SendMove(t, "X_d1", "X_sz") /\ SKeeps /\ UNCHANGED dat0
            \/ /\ SendMove(t, "X_sz", "X_bsy") /\ UNCHANGED <<mb.S_CMD, mb.S_DAT0, dat0>>
               /\ mb'.S_SIZE = gMb.S_SIZE
            \/ SendMove(t, "X_bsy", "X_cmd") /\ SKeeps /\ UNCHANGED dat0
            \/ /\ SendMove(t, "X_cmd", "X_dbm") /\ UNCHANGED <<mb.S_SIZE, mb.S_DAT0, dat0>>
               /\ mb'.S_CMD = gMb.S_CMD
            \/ SendMove(t, "X_dbm", "X_w0") /\ UNCHANGED <<mb, dat0>>
            \/ SendMove(t, "X_w0", "X_w1") /\ UNCHANGED mb /\ dat0'["slv2mst"] = mb.S_DAT0
            \/ SendMove(t, "X_w1", "X_db") /\ UNCHANGED <<mb, dat0>>
            \/ SendMove(t, "X_idle", AfterSend(t)) /\ SKeeps /\ UNCHANGED dat0
<1> USE Basics DEF SendMove, SKeeps, RKeeps, fab, regs
<1>t. t \in Thread /\ "slv2mst" \in Dir /\ "mst2slv" \in Dir
  BY DEF Sender, Thread, Dir
<1>d. dat0 \in [Dir -> Nat]
  BY DEF TypeOK
<1>m. mb \in [busy : {0, 1}, R_CMD : Nat, R_SIZE : Byte, R_DAT0 : Nat, R_DAT1 : Nat,
                             S_CMD : Nat, S_SIZE : Byte, S_DAT0 : Nat, S_DAT1 : Nat]
  BY DEF TypeOK
<1>1. CASE SendAwaitIdle(t)
  BY <1>1, <1>t, GotoEffect DEF SendAwaitIdle
<1>2. CASE SendCopy(t)
  BY <1>2, <1>t, <1>m, GotoEffect DEF SendCopy
<1>3. CASE SendSetBusy(t)
  BY <1>3, <1>t, <1>m, GotoEffect DEF SendSetBusy
<1>4. CASE SendSetCmd(t)
  BY <1>4, <1>t, <1>m, GotoEffect DEF SendSetCmd
<1>5. CASE SendAwaitFree(t)
  BY <1>5, <1>t, GotoEffect DEF SendAwaitFree
<1>6. CASE SendWriteData(t)
  BY <1>6, <1>t, <1>d, GotoEffect DEF SendWriteData
<1>7. CASE SendClearBusy(t)
  BY <1>7, <1>t, <1>m, GotoEffect DEF SendClearBusy
<1>8. QED
  BY <1>1, <1>2, <1>3, <1>4, <1>5, <1>6, <1>7

LEMMA SendQuiet ==
  ASSUME ExchangeInv, build' = build, NEW t \in Sender,
         \/ SendAwaitIdle(t) \/ SendCopy(t) \/ SendSetBusy(t) \/ SendSetCmd(t)
         \/ SendAwaitFree(t) \/ SendWriteData(t) \/ SendClearBusy(t)
  PROVE  (Core /\ Data)' /\ CountStep
<1> USE DEF ExchangeInv, TypeInv, Core, Data
<1>t. Thread = {"mst", "slv", "hdl"} /\ t \in {"slv", "hdl"}
  BY DEF Thread, Sender
<1>1. MstStays /\ UNCHANGED <<Rings, Raises, Answers, Serves>>
  BY <1>t, SendTable, MstCountsStay DEF MstStays, Serves
<1>2. UNCHANGED <<Acks, HdlReplied, SlvReplied, Ready>>
  <2>1. CASE t = "hdl"
    <3>1. SlvStays
      BY <1>t, <2>1, SendTable DEF SlvStays
    <3>2. UNCHANGED <<pc["slv"], part["slv"]>>
      BY <3>1 DEF SlvStays
    <3>3. UNCHANGED <<Acks, HdlReplied>>
      BY <1>t, <2>1, SendTable, Basics
         DEF SendMove, Acks, HdlReplied, Stored, AfterSend, Acked, Sending, Serves, PlaceInv
    <3>4. calls = 2
      BY <2>1, SendTable DEF SendMove, PlaceInv, Sending
    <3>5. UNCHANGED Ready
      BY <3>4, SendTable DEF Ready
    <3>6. QED
      BY <3>2, <3>3, <3>5 DEF SlvReplied, Stored
  <2>2. CASE t = "slv"
    <3>1. UNCHANGED <<pc["hdl"], part["hdl"], calls>>
      BY <1>t, <2>2, SendTable
    <3>2. UNCHANGED SlvReplied
      BY <1>t, <2>2, SendTable, Basics DEF SendMove, SlvReplied, Stored, AfterSend, PlaceInv
    <3>3. QED
      BY <3>1, <3>2 DEF Acks, Serves, HdlReplied, Stored, Ready
  <2>3. QED
    BY <1>t, <2>1, <2>2
<1>3. Replies' = Replies
  BY <1>2 DEF Replies
<1>4. Quiet
  BY <1>1, <1>2, <1>3, SendTable DEF Quiet
<1>5. PlaceInv'
  <2>1. CASE t = "hdl"
    BY <1>t, <2>1, SendTable DEF PlaceInv, SendMove, AfterSend, Acked, Sending, FabLock
  <2>2. CASE t = "slv"
    BY <1>t, <2>2, SendTable DEF PlaceInv, SendMove, AfterSend, Acked, Sending, FabLock
  <2>3. QED
    BY <1>t, <2>1, <2>2
<1>6. OrderInv'
  <2>1. pc'["hdl"] \notin {"H_wait", "done"} <=> pc["hdl"] \notin {"H_wait", "done"}
    BY <1>t, SendTable DEF SendMove, AfterSend
  <2>2. QED
    BY <1>1, <1>2, <1>3, <2>1, SendTable DEF OrderInv, MstStays
<1>7. FlagInv'
  <2>1. (pc["slv"] # "S_wait" => Ready)'
    BY <1>t, <1>2, SendTable DEF FlagInv, SendMove
  <2>2. pc'["hdl"] = "H_rdy" => pc["hdl"] = "H_rdy"
    BY <1>t, SendTable DEF SendMove, AfterSend
  <2>3. QED
    BY <1>1, <1>2, <2>1, <2>2, SendTable DEF FlagInv, MstStays, Count
<1>8. RequestInv'
  <2>1. \/ UNCHANGED pc["hdl"]
        \/ pc'["hdl"] \notin {"H_r0", "H_r1", "H_ack", "H_get", "H_cmd"}
    BY <1>t, SendTable DEF SendMove, AfterSend
  <2>2. QED
    BY <1>1, <2>1, SendTable DEF RequestInv, RKeeps, MstStays
<1>9. ReplyInv'
  <2>1. CASE t = "hdl"
    <3>1. pc["slv"] = "S_wait" /\ pc'["slv"] = "S_wait"
      BY <1>t, <2>1, SendTable, SenderAlone DEF SendMove, Sending
    <3>2. SendInv("slv", IMAGE_DONE, 0)'
      BY <3>1 DEF SendInv, Sending
    <3>3. SendInv("hdl", STATUS_REPLY, 1)'
      BY <2>1, SendTable DEF ReplyInv, SendInv, SendMove, SKeeps, AfterSend, Sending
    <3>4. (/\ pc["hdl"] \in Sending => gMb.S_DAT0 = SlvBuffSize
           /\ pc["hdl"] \in Sending \ {"X_busy", "X_d0"} => mb.S_DAT0 = SlvBuffSize)'
      BY <2>1, SendTable DEF ReplyInv, SendMove, SKeeps, AfterSend, Sending
    <3>5. (pc["hdl"] \in {"X_w1", "X_db"} \/ (Replies = 1 /\ Answers = 0) =>
             dat0["slv2mst"] = SlvBuffSize)'
      BY <1>1, <1>3, <2>1, SendTable DEF ReplyInv, SendMove, AfterSend, Sending
    <3>6. QED
      BY <1>1, <3>1, <3>2, <3>3, <3>4, <3>5 DEF ReplyInv, MstStays
  <2>2. CASE t = "slv"
    <3>1. pc["hdl"] \in {"H_clr", "done"} /\ pc'["hdl"] \in {"H_clr", "done"} /\ Answers' >= 1
      BY <1>1, <1>t, <2>2, SendTable, SenderAlone DEF SendMove
    <3>2. SendInv("hdl", STATUS_REPLY, 1)'
      BY <3>1 DEF SendInv, Sending
    <3>3. SendInv("slv", IMAGE_DONE, 0)' /\ pc'["slv"] # "S_size"
      BY <2>2, SendTable DEF ReplyInv, SendInv, SendMove, SKeeps, AfterSend, Sending
    <3>4. QED
      BY <1>1, <3>1, <3>2, <3>3 DEF ReplyInv, MstStays, Sending
  <2>3. QED
    BY <1>t, <2>1, <2>2
<1>10. QED
  BY <1>4, <1>5, <1>6, <1>7, <1>8, <1>9, QuietData

LEMMA SendRingKeeps ==
  ASSUME ExchangeInv, NEW t \in Sender, SendRing(t), build' = build
  PROVE  (Core /\ Data)' /\ CountStep
<1> USE DEF ExchangeInv, TypeInv, Core, Data
<1> DEFINE k == IF t = "hdl" THEN 1 ELSE 2
<1>t. t \in Thread /\ t \in {"slv", "hdl"} /\ Thread = {"mst", "slv", "hdl"}
      /\ Dir = {"mst2slv", "slv2mst"} /\ "X_idle" \in Label /\ k \in {1, 2}
  BY DEF Thread, Dir, Label, Sender
<1>p. pc[t] = "X_db" /\ pc[t] \in Sending /\ part[t] \in {1, 2} /\ (FabLock => part[t] = 1)
  BY <1>t, Basics DEF SendRing, PlaceInv, Sending
<1>1. SlvMsg(t) = TheReplies[k] /\ Doorbell(mb.S_CMD, mb.S_SIZE) = Doorbell(RepCmd(k), RepSize(k))
  BY <1>p, <1>t, Messages DEF ReplyInv, SendInv, RepCmd, RepSize
<1>2. \/ t = "hdl" /\ pc["slv"] = "S_wait" /\ ~Ready /\ calls = 2
      \/ t = "slv" /\ pc["hdl"] \in {"H_clr", "done"} /\ calls < 2 /\ Answers >= 1 /\ Acks = 2
  BY <1>p, <1>t, SenderAlone, SlvPlace
<1>3. Replies = k - 1 + Count(part[t] > 1) /\ Acks >= k
  <2>1. CASE t = "hdl"
    BY <1>2, <1>p, <2>1, Basics
       DEF Replies, HdlReplied, SlvReplied, Stored, AfterSend, Acks, Serves, Acked, Count
  <2>2. CASE t = "slv"
    BY <1>2, <1>p, <2>2, Basics DEF Replies, HdlReplied, SlvReplied, Stored, AfterSend, Count
  <2>3. QED
    BY <1>t, <2>1, <2>2
<1>4. /\ \A u \in Thread \ {t} : UNCHANGED <<pc[u], part[u]>>
      /\ UNCHANGED <<db["mst2slv"], dat0, dat1, slvInt, failed>>
      /\ db'["slv2mst"] = IF part[t] = 1 THEN Doorbell(RepCmd(k), RepSize(k)) ELSE db["slv2mst"]
      /\ \/ pc'[t] = "X_idle" /\ part'[t] = 1
         \/ ~FabLock /\ pc'[t] = pc[t] /\ part'[t] = 2
  <2>1. WriteDoorbell(t, "slv2mst", Doorbell(RepCmd(k), RepSize(k)), "X_idle")
    BY <1>1 DEF SendRing
  <2>2. QED
    BY <1>t, <1>p, <2>1, ReplyEffect
<1>5. UNCHANGED <<mb, gMb, flag, mst, calls, rcvd>>
  BY DEF SendRing
<1>6. MstStays /\ UNCHANGED <<Rings, Raises, Answers, Serves>>
  BY <1>4, <1>5, <1>t, MstCountsStay DEF MstStays, Serves
<1>7. UNCHANGED <<Acks, Ready>> /\ Replies' = k
  <2>1. CASE t = "hdl"
    <3>1. pc'["slv"] = "S_wait" /\ part'["slv"] = part["slv"]
      BY <1>2, <1>4, <1>t, <2>1
    <3>2. UNCHANGED <<Acks, Ready>>
      BY <1>2, <1>4, <1>5, <1>6, <1>p, <2>1 DEF Acks, Acked, Sending, Ready
    <3>3. HdlReplied' /\ ~SlvReplied'
      BY <1>4, <1>p, <2>1, <3>1 DEF HdlReplied, SlvReplied, Stored, AfterSend
    <3>4. QED
      BY <2>1, <3>2, <3>3 DEF Replies, Count
  <2>2. CASE t = "slv"
    <3>1. HdlStays
      BY <1>4, <1>5, <1>t, <2>2 DEF HdlStays
    <3>2. UNCHANGED <<Acks, Ready>>
      BY <3>1, HdlCountsStay
    <3>3. HdlReplied' /\ SlvReplied'
      BY <1>2, <1>4, <1>5, <1>p, <2>2 DEF HdlReplied, SlvReplied, Stored
    <3>4. QED
      BY <2>2, <3>2, <3>3 DEF Replies, Count
  <2>3. QED
    BY <1>t, <2>1, <2>2
<1>8. PlaceInv'
  <2>1. CASE t = "hdl"
    BY <1>2, <1>4, <1>5, <1>p, <1>t, <2>1, Basics DEF PlaceInv, Acked, Sending, FabLock
  <2>2. CASE t = "slv"
    BY <1>4, <1>5, <1>p, <1>t, <2>2, Basics DEF PlaceInv, Acked, Sending, FabLock
  <2>3. QED
    BY <1>t, <2>1, <2>2
<1>9. OrderInv'
  <2>1. k - 1 <= Replies /\ Replies <= k
    BY <1>3, <1>p, <1>t DEF Count
  <2>2. (Answers <= Replies /\ Replies <= Acks /\ Acks <= Raises)'
    BY <1>3, <1>6, <1>7, <1>t, <2>1, CountType DEF OrderInv
  <2>3. (pc["mst"] \in {"M_rdb", "M_rd0", "M_rd1", "M_ack", "M_next", "done"} => Replies >= mst.msg)'
    BY <1>5, <1>6, <1>7, <1>t, <2>1, CountType, Basics DEF OrderInv, MstStays
  <2>4. pc'["hdl"] \notin {"H_wait", "done"} <=> pc["hdl"] \notin {"H_wait", "done"}
    BY <1>4, <1>p, <1>t
  <2>5. QED
    BY <1>4, <1>5, <1>6, <2>2, <2>3, <2>4 DEF OrderInv, MstStays
<1>10. FlagInv'
  <2>1. pc'["slv"] # "S_wait" => pc["slv"] # "S_wait"
    BY <1>4, <1>p, <1>t
  <2>2. pc'["hdl"] = "H_rdy" => pc["hdl"] = "H_rdy"
    BY <1>4, <1>p, <1>t
  <2>3. QED
    BY <1>5, <1>7, <2>1, <2>2 DEF FlagInv, Count
<1>11. DoorbellInv'
  <2>1. CASE part[t] = 1
    <3>1. Answers < k
      BY <1>3, <1>t, <2>1, CountType DEF OrderInv, Count
    <3>2. QED
      BY <1>4, <1>6, <1>7, <1>t, <2>1, <3>1, CountType DEF DoorbellInv
  <2>2. CASE part[t] # 1
    <3>1. Replies = k
      BY <1>3, <1>p, <1>t, <2>2 DEF Count
    <3>2. QED
      BY <1>4, <1>6, <1>7, <2>2, <3>1 DEF DoorbellInv
  <2>3. QED
    BY <2>1, <2>2
<1>12. RequestInv'
  <2>1. \/ UNCHANGED pc["hdl"]
        \/ pc'["hdl"] \notin {"H_r0", "H_r1", "H_ack", "H_get", "H_cmd"}
    BY <1>4, <1>p, <1>t
  <2>2. QED
    BY <1>4, <1>5, <1>6, <2>1 DEF RequestInv, MstStays
<1>13. ReplyInv'
  <2>1. (SendInv("hdl", STATUS_REPLY, 1) /\ SendInv("slv", IMAGE_DONE, 0))'
    BY <1>4, <1>5, <1>p, <1>t DEF ReplyInv, SendInv, Sending
  <2>2. (pc["hdl"] \in {"X_w1", "X_db"} \/ (Replies = 1 /\ Answers = 0) =>
           dat0["slv2mst"] = SlvBuffSize)'
    BY <1>2, <1>4, <1>6, <1>7, <1>p, <1>t, CountType DEF ReplyInv
  <2>3. (/\ pc["slv"] = "S_size" => gMb.S_CMD = IMAGE_DONE
         /\ pc["hdl"] \in Sending => gMb.S_DAT0 = SlvBuffSize
         /\ pc["hdl"] \in Sending \ {"X_busy", "X_d0"} => mb.S_DAT0 = SlvBuffSize)'
    BY <1>4, <1>5, <1>p, <1>t DEF ReplyInv, Sending
  <2>4. QED
    BY <1>5, <1>6, <2>1, <2>2, <2>3 DEF ReplyInv, MstStays
<1>14. HistInv'
  <2>0. sent \in [Dir -> Seq(Msg)] /\ sent' = Record(t, sent, "slv2mst", TheReplies[k])
    BY <1>1 DEF SendRing, TypeOK
  <2>1. sent'["mst2slv"] = sent["mst2slv"] /\ rcvd' = rcvd
    BY <1>t, <1>5, <2>0 DEF Record
  <2>2. sent'["slv2mst"] = IF part[t] = 1 THEN Append(sent["slv2mst"], TheReplies[k]) ELSE sent["slv2mst"]
    BY <1>t, <2>0 DEF Record
  <2>3. CASE part[t] = 1
    <3>1. Replies = k - 1
      BY <1>3, <1>t, <2>3 DEF Count
    <3>2. sent'["slv2mst"] = First(k, TheReplies)
      BY <1>t, <2>2, <2>3, <3>1, FirstGrows DEF HistInv
    <3>3. QED
      BY <1>6, <1>7, <2>1, <3>2 DEF HistInv
  <2>4. CASE part[t] # 1
    <3>1. Replies = k
      BY <1>3, <1>p, <1>t, <2>4 DEF Count
    <3>2. QED
      BY <1>6, <1>7, <2>1, <2>2, <2>4, <3>1 DEF HistInv
  <2>5. QED
    BY <2>3, <2>4
<1>15. CountStep
  <2>1. CASE part[t] = 1
    <3>1. Replies = k - 1
      BY <1>3, <1>t, <1>p, <2>1 DEF Count
    <3>2. QED
      BY <1>6, <1>7, <1>t, <3>1 DEF CountStep
  <2>2. CASE part[t] # 1
    <3>1. Replies = k
      BY <1>3, <1>t, <1>p, <2>2, Basics DEF Count
    <3>2. QED
      BY <1>2, <1>6, <1>7, <3>1 DEF CountStep
  <2>3. QED
    BY <2>1, <2>2
<1>16. QED
  BY <1>4, <1>8, <1>9, <1>10, <1>11, <1>12, <1>13, <1>14, <1>15

------------------------------------------------------------------------------
(* The slave firmware's own steps                                          *)

LEMMA SlvTable ==
  ASSUME TypeOK, SlvAwaitImage \/ SlvPrepareDone \/ SlvReturn
  PROVE  /\ MstStays /\ HdlStays /\ part'["slv"] = part["slv"]
         /\ UNCHANGED <<db, dat0, slvInt, mb, flag, failed, sent, rcvd>>
         /\ UNCHANGED <<gMb.R_CMD, gMb.R_SIZE, gMb.R_DAT0>>
         /\ \/ SendMove("slv", "S_wait", "S_cmd") /\ flag.RDY # 0 /\ UNCHANGED gMb
            \/ SendMove("slv", "S_cmd", "S_size") /\ gMb'.S_CMD = IMAGE_DONE
            \/ SendMove("slv", "S_size", "X_busy") /\ gMb'.S_SIZE = 0 /\ gMb'.S_CMD = gMb.S_CMD
            \/ SendMove("slv", "S_ret", "done") /\ UNCHANGED gMb
<1> USE Basics DEF SendMove, MstStays, HdlStays, fab, regs
<1>t. "slv" \in Thread /\ Thread = {"mst", "slv", "hdl"}
  BY DEF Thread
<1>g. gMb \in [R_CMD : Nat, R_SIZE : Byte, R_DAT0 : Nat, R_DAT1 : Nat,
               S_CMD : Nat, S_SIZE : Byte, S_DAT0 : Nat, S_DAT1 : Nat]
  BY DEF TypeOK
<1>1. CASE SlvAwaitImage
  BY <1>1, <1>t, GotoEffect DEF SlvAwaitImage
<1>2. CASE SlvPrepareDone
  BY <1>2, <1>t, <1>g, GotoEffect DEF SlvPrepareDone
<1>3. CASE SlvReturn
  BY <1>3, <1>t, GotoEffect DEF SlvReturn
<1>4. QED
  BY <1>1, <1>2, <1>3

LEMMA SlvQuiet ==
  ASSUME ExchangeInv, build' = build, SlvAwaitImage \/ SlvPrepareDone \/ SlvReturn
  PROVE  (Core /\ Data)' /\ CountStep
<1> USE DEF ExchangeInv, TypeInv, Core, Data
<1>1. UNCHANGED <<Rings, Raises, Answers, Serves, Acks, Ready, Count(HdlReplied)>>
  BY SlvTable, MstCountsStay, HdlCountsStay
<1>2. UNCHANGED SlvReplied
  BY SlvTable DEF SendMove, SlvReplied, Stored, AfterSend
<1>3. Replies' = Replies
  BY <1>1, <1>2 DEF Replies
<1>4. Quiet
  BY <1>1, <1>3, SlvTable DEF Quiet
<1>5. PlaceInv'
  BY SlvTable DEF PlaceInv, SendMove, MstStays, HdlStays, Sending, FabLock
<1>6. OrderInv'
  BY <1>1, <1>3, SlvTable DEF OrderInv, MstStays, HdlStays
<1>7. Ready
  <2>1. pc["slv"] # "S_wait" \/ flag.RDY # 0
    BY SlvTable DEF SendMove
  <2>2. QED
    BY <2>1 DEF FlagInv, Count
<1>8. FlagInv'
  BY <1>1, <1>7, SlvTable DEF FlagInv, MstStays, HdlStays, Count
<1>9. RequestInv'
  BY <1>1, SlvTable DEF RequestInv, MstStays, HdlStays
<1>10. ReplyInv'
  <2>1. pc["hdl"] \in {"H_clr", "done"} /\ pc'["hdl"] \in {"H_clr", "done"}
    BY <1>7, SlvPlace, SlvTable DEF HdlStays
  <2>2. SendInv("hdl", STATUS_REPLY, 1)'
    BY <2>1 DEF SendInv, Sending
  <2>3. SendInv("slv", IMAGE_DONE, 0)' /\ (pc["slv"] = "S_size" => gMb.S_CMD = IMAGE_DONE)'
    BY SlvTable DEF ReplyInv, SendInv, SendMove, Sending
  <2>4. QED
    BY <1>1, <1>3, <2>1, <2>2, <2>3, SlvTable DEF ReplyInv, MstStays, Sending
<1>11. QED
  BY <1>4, <1>5, <1>6, <1>8, <1>9, <1>10, QuietData

------------------------------------------------------------------------------
(* The invariant holds                                                     *)

LEMMA InitExchange == Init => ExchangeInv
<1> SUFFICES ASSUME Init PROVE ExchangeInv
  OBVIOUS
<1>1. /\ pc = [mst |-> "M_send", slv |-> "S_wait", hdl |-> "H_wait"]
      /\ part["mst"] = 1 /\ part["slv"] = 1 /\ part["hdl"] = 1
      /\ mst.msg = 1 /\ calls = 2 /\ slvInt = 0 /\ flag.RDY = 0 /\ failed = {}
      /\ db["mst2slv"] = 0 /\ db["slv2mst"] = 0
      /\ \A d \in Dir : sent[d] = <<>> /\ rcvd[d] = <<>>
      /\ "mst2slv" \in Dir /\ "slv2mst" \in Dir
  BY DEF Init, Thread, Dir
<1>2. Rings = 0 /\ Raises = 0 /\ Answers = 0 /\ Serves = 0 /\ Acks = 0
  BY <1>1 DEF Rings, Raises, Answers, Serves, Acks, Count, Rung, Acked, Sending
<1>3. ~HdlReplied /\ ~SlvReplied /\ ~Ready
  BY <1>1 DEF HdlReplied, SlvReplied, Stored, AfterSend, Ready
<1>4. Replies = 0
  BY <1>3 DEF Replies, Count
<1>5. PlaceInv
  BY <1>1 DEF PlaceInv
<1>6. OrderInv
  BY <1>1, <1>2, <1>4 DEF OrderInv
<1>7. FlagInv /\ DoorbellInv
  BY <1>1, <1>2, <1>3, <1>4 DEF FlagInv, DoorbellInv, Count
<1>8. RequestInv /\ ReplyInv
  BY <1>1, <1>2, <1>4 DEF RequestInv, ReplyInv, SendInv, Sending
<1>9. HistInv
  BY <1>1, <1>2, <1>4 DEF HistInv, First
<1>10. QED
  BY <1>1, <1>5, <1>6, <1>7, <1>8, <1>9, InitTypeInv DEF ExchangeInv, Core, Data

(* Every step of a thread keeps the invariant and counts at most one thing.*)
LEMMA ThreadKeeps ==
  ASSUME ExchangeInv, build' = build, MstStep \/ SlvStep \/ HdlStep
  PROVE  (Core /\ Data)' /\ CountStep
<1>1. ASSUME NEW t \in Sender, Send(t) PROVE (Core /\ Data)' /\ CountStep
  BY <1>1, SendQuiet, SendRingKeeps DEF Send
<1>2. CASE MstStep
  BY <1>2, MstQuiet, MstRingKeeps, MstAckKeeps DEF MstStep
<1>3. CASE SlvStep
  BY <1>1, <1>3, SlvQuiet DEF SlvStep, Sender
<1>4. CASE HdlStep
  BY <1>1, <1>4, HdlQuiet, HdlAckKeeps, HdlClearKeeps DEF HdlStep, Sender
<1>5. QED
  BY <1>2, <1>3, <1>4

(* Entering or leaving the section changes nothing the invariant is about. *)
LEMMA IdleKeeps ==
  ASSUME ExchangeInv, UNCHANGED <<build, pc, regs>>
  PROVE  (Core /\ Data)' /\ CountStep
<1> USE DEF ExchangeInv, Core, Data, regs, fab
<1>1. MstStays /\ SlvStays /\ HdlStays
  BY DEF MstStays, SlvStays, HdlStays
<1>2. UNCHANGED <<Rings, Raises, Answers, Serves, Acks, Ready, Replies>>
  BY <1>1, MstCountsStay, SlvCountsStay, HdlCountsStay DEF Replies
<1>3. Quiet
  BY <1>2 DEF Quiet
<1>4. PlaceInv' /\ OrderInv' /\ FlagInv'
  BY <1>2 DEF PlaceInv, OrderInv, FlagInv, FabLock, Count
<1>5. RequestInv' /\ ReplyInv'
  BY <1>2 DEF RequestInv, ReplyInv, SendInv
<1>6. QED
  BY <1>3, <1>4, <1>5, QuietData

LEMMA ExchangeStep ==
  ASSUME ExchangeInv, [Next]_vars
  PROVE  ExchangeInv' /\ CountStep
<1>1. (Core /\ Data)' /\ CountStep
  BY ThreadKeeps, IdleKeeps DEF Next, Run, Lock, Unlock, PollFails, vars
<1>2. TypeInv'
  BY TypeInvStep DEF ExchangeInv
<1>3. QED
  BY <1>1, <1>2 DEF ExchangeInv

(* In every reachable state of every build, how far the threads have come  *)
(* determines the registers, the interrupt line and the histories.         *)
THEOREM ExchangeInvariant == Spec => []ExchangeInv
<1>1. ExchangeInv /\ [Next]_vars => ExchangeInv'
  BY ExchangeStep
<1>2. QED
  BY InitExchange, <1>1, PTL DEF Spec

(* The fabric finds the interrupt line low when the master rings, and      *)
(* handleCmd is given a command it knows with the size it has.             *)
THEOREM NoAssertion == Spec => []NoAssertFails
<1>1. ExchangeInv => NoAssertFails
  <2> SUFFICES ASSUME ExchangeInv PROVE NoAssertFails
    OBVIOUS
  <2> USE DEF ExchangeInv, TypeInv, Core, Data
  <2>1. pc["hdl"] = "H_cmd" /\ gMb.R_CMD = IMAGE_READY => gMb.R_SIZE = 1
    BY DEF RequestInv, ReqCmd, ReqSize, STATUS_REQUEST, IMAGE_READY
  <2>2. pc["mst"] = "M_ack" => mst.size \in {0, 1}
    BY DEF ReplyInv, RepSize
  <2>3. QED
    BY <2>1, <2>2 DEF NoAssertFails
<1>2. QED
  BY <1>1, ExchangeInvariant, PTL

(* The handler composes its reply only while the slave firmware waits for  *)
(* the image.                                                              *)
THEOREM SendersAlwaysExclude == Spec => []SendersExclude
<1>1. ExchangeInv => SendersExclude
  <2> SUFFICES ASSUME ExchangeInv PROVE SendersExclude
    OBVIOUS
  <2>1. pc["hdl"] \in {"H_clr", "done"} \/ pc["slv"] = "S_wait"
    BY SlvPlace DEF ExchangeInv, TypeInv, Core, Data
  <2>2. QED
    BY <2>1 DEF SendersExclude, Composing
<1>2. QED
  BY <1>1, ExchangeInvariant, PTL

(* A request the handler has not acknowledged keeps the interrupt raised   *)
(* and has a call of intHdl left.                                          *)
THEOREM InterruptNeverLost == Spec => []NoLostInterrupt
<1>1. ExchangeInv => NoLostInterrupt
  <2> SUFFICES ASSUME ExchangeInv, db["mst2slv"] # 0, part["mst"] = 1, part["hdl"] = 1
               PROVE  slvInt = 1 /\ calls > 0
    BY DEF NoLostInterrupt
  <2> USE Basics, CountType DEF ExchangeInv, TypeInv, Core, Data
  <2>1. Rings > Acks
    BY DEF DoorbellInv
  <2>2. Rings = Raises /\ Serves <= Acks
    BY DEF Rings, Raises, Acks, Count
  <2>3. Raises > Serves
    BY <2>1, <2>2
  <2>4. slvInt = 1 /\ Serves < 2
    BY <2>3 DEF OrderInv
  <2>5. QED
    BY <2>4 DEF Serves
<1>2. QED
  BY <1>1, ExchangeInvariant, PTL

(* The slave firmware runs on with the image size the master announced,    *)
(* which fits the SRAM.                                                    *)
THEOREM AnnouncedSizeUsed == Spec => []SlaveUsesAnnouncedSize
<1>1. ExchangeInv => SlaveUsesAnnouncedSize
  <2> SUFFICES ASSUME ExchangeInv, pc["slv"] # "S_wait"
               PROVE  flag.SIZE = mst.imgSize /\ flag.SIZE <= MaxSramSize
    BY DEF SlaveUsesAnnouncedSize
  <2> USE DEF ExchangeInv, TypeInv, Core, Data
  <2>1. Ready /\ mst.msg = 2
    BY SlvPlace
  <2>2. flag.SIZE = mst.imgSize /\ mst.imgSize = ImgSize
    BY <2>1 DEF FlagInv, RequestInv
  <2>3. QED
    BY <2>2, SizeAssumption DEF ImgSize
<1>2. QED
  BY <1>1, ExchangeInvariant, PTL

------------------------------------------------------------------------------
(* Nobody misses what it waits for                                         *)

(* A doorbell write touches one mirror.                                    *)
LEMMA MirrorEffect ==
  ASSUME TypeOK, NEW t, NEW d \in Dir, NEW val, NEW next, WriteDoorbell(t, d, val, next)
  PROVE  dbm'[d] \in {dbm[d], val} /\ \A e \in Dir \ {d} : dbm'[e] = dbm[e]
  BY DEF WriteDoorbell, StoreDoorbell, TypeOK

(* What each thread can do to the things the other two wait for.           *)
LEMMA MstLeaves ==
  ASSUME ExchangeInv, MstStep
  PROVE  /\ UNCHANGED <<mb, flag, pc["slv"], pc["hdl"]>>
         /\ dbm'["slv2mst"] \in {dbm["slv2mst"], 0} /\ slvInt' \in {slvInt, 1}
<1> USE DEF ExchangeInv, TypeInv
<1>d. "mst2slv" \in Dir /\ "slv2mst" \in Dir /\ "mst2slv" # "slv2mst"
  BY DEF Dir
<1>t. Thread = {"mst", "slv", "hdl"} /\ "mst" \in Thread /\ {"M_poll", "M_next"} \subseteq Label
  BY DEF Thread, Label
<1>1. CASE MstRing
  <2>1. dbm'["slv2mst"] = dbm["slv2mst"]
    BY <1>1, <1>d, MirrorEffect DEF MstRing
  <2>2. FabLock => part["mst"] = 1
    BY DEF Core, PlaceInv
  <2>3. UNCHANGED <<pc["slv"], pc["hdl"]>> /\ slvInt' \in {slvInt, 1}
    BY <1>1, <1>t, <2>2, RingEffect DEF MstRing
  <2>4. QED
    BY <1>1, <2>1, <2>3 DEF MstRing
<1>2. CASE MstAck
  <2>1. dbm'["slv2mst"] \in {dbm["slv2mst"], 0}
    BY <1>2, <1>d, MirrorEffect DEF MstAck
  <2>2. (FabLock => part["mst"] = 1) /\ part["mst"] \in {1, 2}
    BY <1>2, Basics DEF Core, PlaceInv, MstAck
  <2>3. UNCHANGED <<pc["slv"], pc["hdl"], slvInt>>
    BY <1>2, <1>t, <2>2, ReplyEffect DEF MstAck
  <2>4. QED
    BY <1>2, <2>1, <2>3 DEF MstAck
<1>3. CASE \/ MstAwaitFree \/ MstWriteData \/ MstAwaitNoInt \/ MstPoll \/ MstReadDoorbell
           \/ MstReadData \/ MstPrepareImage \/ MstReturn
  <2>1. UNCHANGED dbm
    BY <1>3 DEF MstAwaitFree, MstWriteData, MstAwaitNoInt, MstPoll, MstReadDoorbell,
       MstReadData, MstPrepareImage, MstReturn, regs, fab
  <2>2. QED
    BY <1>3, <2>1, MstTable DEF SlvStays, HdlStays
<1>4. QED
  BY <1>1, <1>2, <1>3 DEF MstStep

LEMMA SendLeaves ==
  ASSUME ExchangeInv, NEW t \in Sender, Send(t)
  PROVE  /\ pc[t] \in Sending /\ UNCHANGED <<flag, slvInt, dbm["mst2slv"]>>
         /\ \A u \in Thread \ {t} : pc'[u] = pc[u]
         /\ db'["slv2mst"] = db["slv2mst"] \/ db'["slv2mst"] # 0
<1> USE DEF ExchangeInv, TypeInv
<1>d. "mst2slv" \in Dir /\ "slv2mst" \in Dir /\ "mst2slv" # "slv2mst"
  BY DEF Dir
<1>t. t \in Thread /\ t \in {"slv", "hdl"} /\ "X_idle" \in Label
  BY DEF Thread, Label, Sender
<1>1. CASE SendRing(t)
  <2>1. pc[t] = "X_db" /\ UNCHANGED flag
    BY <1>1 DEF SendRing
  <2>2. dbm'["mst2slv"] = dbm["mst2slv"]
    BY <1>1, <1>d, MirrorEffect DEF SendRing
  <2>3. (FabLock => part[t] = 1) /\ part[t] \in {1, 2}
    BY <1>t, <2>1, Basics DEF Core, PlaceInv
  <2>4. /\ \A u \in Thread \ {t} : pc'[u] = pc[u]
        /\ slvInt' = slvInt
        /\ db'["slv2mst"] \in {Doorbell(mb.S_CMD, mb.S_SIZE), db["slv2mst"]}
    BY <1>1, <1>t, <2>3, ReplyEffect DEF SendRing
  <2>5. Doorbell(mb.S_CMD, mb.S_SIZE) # 0
    <3>1. mb.S_CMD \in Nat /\ mb.S_SIZE \in Byte
      BY DEF TypeOK
    <3>2. QED
      BY <3>1 DEF Doorbell, Byte
  <2>6. QED
    BY <2>1, <2>2, <2>4, <2>5 DEF Sending
<1>2. CASE \/ SendAwaitIdle(t) \/ SendCopy(t) \/ SendSetBusy(t) \/ SendSetCmd(t)
           \/ SendAwaitFree(t) \/ SendWriteData(t) \/ SendClearBusy(t)
  <2>1. UNCHANGED dbm
    BY <1>2 DEF SendAwaitIdle, SendCopy, SendSetBusy, SendSetCmd, SendAwaitFree,
       SendWriteData, SendClearBusy, regs, fab
  <2>2. pc[t] \in Sending
    BY <1>2, SendTable DEF SendMove, Sending
  <2>3. QED
    BY <1>2, <2>1, <2>2, SendTable
<1>3. QED
  BY <1>1, <1>2 DEF Send

LEMMA SlvLeaves ==
  ASSUME ExchangeInv, SlvStep
  PROVE  /\ UNCHANGED <<flag, slvInt, dbm["mst2slv"], pc["mst"], pc["hdl"]>>
         /\ db'["slv2mst"] = db["slv2mst"] \/ db'["slv2mst"] # 0
         /\ pc["hdl"] \in Sending => UNCHANGED <<mb, dbm>>
<1> USE DEF ExchangeInv, TypeInv
<1>1. CASE Send("slv")
  <2>1. "slv" \in Sender /\ Thread \ {"slv"} = {"mst", "hdl"}
    BY DEF Sender, Thread
  <2>2. pc["hdl"] \notin Sending
    BY <1>1, <2>1, SendLeaves, SenderAlone DEF Data, Sending
  <2>3. QED
    BY <1>1, <2>1, <2>2, SendLeaves
<1>2. CASE SlvAwaitImage \/ SlvPrepareDone \/ SlvReturn
  <2>1. UNCHANGED dbm
    BY <1>2 DEF SlvAwaitImage, SlvPrepareDone, SlvReturn, regs, fab
  <2>2. QED
    BY <1>2, <2>1, SlvTable DEF MstStays, HdlStays
<1>3. QED
  BY <1>1, <1>2 DEF SlvStep

LEMMA HdlLeaves ==
  ASSUME ExchangeInv, HdlStep
  PROVE  /\ UNCHANGED <<pc["mst"], pc["slv"]>>
         /\ dbm'["mst2slv"] \in {dbm["mst2slv"], 0} /\ slvInt' \in {slvInt, 0}
         /\ db'["slv2mst"] = db["slv2mst"] \/ db'["slv2mst"] # 0
         /\ flag'.RDY \in {flag.RDY, 1}
         /\ pc["slv"] # "S_wait" => UNCHANGED <<mb, dbm["slv2mst"]>>
<1> USE DEF ExchangeInv, TypeInv
<1>d. "mst2slv" \in Dir /\ "slv2mst" \in Dir /\ "mst2slv" # "slv2mst"
  BY DEF Dir
<1>t. Thread = {"mst", "slv", "hdl"} /\ "hdl" \in Thread /\ "hdl" \in Sender /\ "H_get" \in Label
  BY DEF Thread, Sender, Label
<1>s. pc["slv"] # "S_wait" => pc["hdl"] \in {"H_clr", "done"}
  BY SenderAlone DEF Data
<1>1. CASE Send("hdl")
  <2>1. pc["hdl"] \in Sending /\ pc["slv"] = "S_wait"
    BY <1>1, <1>t, <1>s, SendLeaves DEF Sending
  <2>2. QED
    BY <1>1, <1>t, <2>1, SendLeaves
<1>2. CASE HdlAck
  <2>1. dbm'["mst2slv"] \in {dbm["mst2slv"], 0} /\ dbm'["slv2mst"] = dbm["slv2mst"]
    BY <1>2, <1>d, MirrorEffect DEF HdlAck
  <2>2. (FabLock => part["hdl"] = 1) /\ slvInt = 1
    BY <1>2, HdlPlace DEF Core, PlaceInv, HdlAck
  <2>3. UNCHANGED <<pc["mst"], pc["slv"], slvInt, db["slv2mst"]>>
    BY <1>2, <1>t, <2>2, RingEffect DEF HdlAck
  <2>4. QED
    BY <1>2, <2>1, <2>3 DEF HdlAck
<1>3. CASE HdlClearInt
  <2>1. UNCHANGED <<db, dbm, mb, flag>> /\ slvInt' = 0 /\ \E l : Goto("hdl", l)
    BY <1>3 DEF HdlClearInt, fab
  <2>2. QED
    BY <1>t, <2>1, GotoEffect
<1>4. CASE \/ HdlAwaitInt \/ HdlCheckInt \/ HdlReadDoorbell \/ HdlReadData
           \/ HdlGetMbCtx \/ HdlHandleCmd \/ HdlSetReady
  <2>1. UNCHANGED dbm
    BY <1>4 DEF HdlAwaitInt, HdlCheckInt, HdlReadDoorbell, HdlReadData, HdlGetMbCtx,
       HdlHandleCmd, HdlSetReady, regs, fab
  <2>2. pc["hdl"] \notin {"H_clr", "done"} /\ flag'.RDY \in {flag.RDY, 1}
    BY <1>4, HdlTable DEF HdlMove
  <2>3. QED
    BY <1>4, <1>s, <2>1, <2>2, HdlTable DEF MstStays, SlvStays
<1>5. QED
  BY <1>1, <1>2, <1>3, <1>4 DEF HdlStep

(* A thread whose wait is over and that moves goes on.                     *)
LEMMA WaiterMoves ==
  ASSUME ExchangeInv
  PROVE  /\ MstStep /\ WaitOver("mst") => pc'["mst"] # pc["mst"]
         /\ SlvStep /\ WaitOver("slv") => pc'["slv"] # pc["slv"]
         /\ HdlStep /\ WaitOver("hdl") => pc'["hdl"] # pc["hdl"]
<1> USE DEF ExchangeInv, TypeInv
<1>w. \A t \in Thread : WaitOver(t) => pc[t] \notin {"M_db", "M_ack", "X_db", "H_ack", "H_clr"}
  BY DEF WaitOver
<1>t. Thread = {"mst", "slv", "hdl"} /\ Sender = {"slv", "hdl"}
  BY DEF Thread, Sender
<1>1. ASSUME NEW t \in Sender, Send(t), WaitOver(t) PROVE pc'[t] # pc[t]
  <2>1. ~SendRing(t)
    BY <1>1, <1>w, <1>t DEF SendRing
  <2>2. QED
    BY <1>1, <2>1, SendTable DEF Send, SendMove, AfterSend
<1>2. ASSUME MstStep, WaitOver("mst") PROVE pc'["mst"] # pc["mst"]
  <2>1. ~MstRing /\ ~MstAck
    BY <1>2, <1>w, <1>t DEF MstRing, MstAck
  <2>2. QED
    BY <1>2, <2>1, MstTable DEF MstStep, MstMove
<1>3. ASSUME SlvStep, WaitOver("slv") PROVE pc'["slv"] # pc["slv"]
  BY <1>1, <1>3, <1>t, SlvTable DEF SlvStep, SendMove
<1>4. ASSUME HdlStep, WaitOver("hdl") PROVE pc'["hdl"] # pc["hdl"]
  <2>1. ~HdlAck /\ ~HdlClearInt
    BY <1>4, <1>w, <1>t DEF HdlAck, HdlClearInt
  <2>2. QED
    BY <1>1, <1>4, <1>t, <2>1, HdlTable DEF HdlStep, HdlMove
<1>5. QED
  BY <1>2, <1>3, <1>4

(* Whatever a thread spins for stays true until the thread has seen it.    *)
THEOREM WaitsStayStable == Spec => WaitsAreStable
<1> DEFINE Stable == \A t \in Thread : WaitOver(t) => WaitOver(t)' \/ pc'[t] # pc[t]
<1>1. ExchangeInv /\ [Next]_vars => [Stable]_vars
  <2> SUFFICES ASSUME ExchangeInv, Next PROVE Stable
    OBVIOUS
  <2> SUFFICES ASSUME NEW t \in Thread, WaitOver(t), pc'[t] = pc[t] PROVE WaitOver(t)'
    OBVIOUS
  <2>t. t \in {"mst", "slv", "hdl"}
    BY DEF Thread
  <2>p. PlaceInv
    BY DEF ExchangeInv, Core
  <2>1. CASE UNCHANGED <<pc, regs>>
    BY <2>1 DEF WaitOver, regs, fab
  <2>2. CASE MstStep
    BY <2>2, <2>t, <2>p, WaiterMoves, MstLeaves DEF WaitOver, PlaceInv, Sending, Acked
  <2>3. CASE SlvStep
    BY <2>3, <2>t, <2>p, WaiterMoves, SlvLeaves DEF WaitOver, PlaceInv, Sending, Rung
  <2>4. CASE HdlStep
    BY <2>4, <2>t, <2>p, WaiterMoves, HdlLeaves DEF WaitOver, PlaceInv, Sending, Rung
  <2>5. QED
    BY <2>1, <2>2, <2>3, <2>4 DEF Next, Run, Lock, Unlock, PollFails
<1>2. QED
  BY <1>1, ExchangeInvariant, PTL DEF Spec, WaitsAreStable

------------------------------------------------------------------------------
(* FwSystem implements ImageExchange                                       *)

LEMMA FirstLen ==
  ASSUME NEW s, NEW n \in {0, 1, 2}
  PROVE  /\ Len(First(n, s)) = n
         /\ \A k \in {1, 2} : k <= n => First(n, s)[k] = s[k]
  BY DEF First

LEMMA FirstAppend ==
  ASSUME NEW s, NEW n \in {0, 1}
  PROVE  Append(First(n, s), s[n + 1]) = First(n + 1, s)
<1>1. CASE n = 0
  <2>1. Append(First(1 - 1, s), s[1]) = First(1, s)
    BY FirstGrows
  <2>2. QED
    BY <1>1, <2>1
<1>2. CASE n = 1
  <2>1. Append(First(2 - 1, s), s[2]) = First(2, s)
    BY FirstGrows
  <2>2. QED
    BY <1>2, <2>1
<1>3. QED
  BY <1>1, <1>2

(* The messages of the exchange are those of the firmware.                 *)
LEMMA ExchangeMessages ==
  /\ Exchange!Reply(1) = TheReplies[1] /\ Exchange!Reply(2) = TheReplies[2]
  /\ Exchange!ImageSize(TheReplies[1]) = ImgSize
  BY DEF Exchange!Reply, TheReplies, Exchange!ImageSize, ImgSize, STATUS_REPLY, IMAGE_DONE,
     Exchange!STATUS_REPLY, Exchange!IMAGE_DONE

LEMMA StepRefines ==
  ASSUME ExchangeInv, [Next]_vars
  PROVE  [Exchange!XNext]_(Exchange!xvars)
<1> USE DEF ExchangeInv, TypeInv, Core, Data
<1>1. ExchangeInv' /\ CountStep
  BY ExchangeStep
<1>2. /\ Rings \in {0, 1, 2} /\ Acks \in {0, 1, 2} /\ Replies \in {0, 1, 2} /\ Answers \in {0, 1, 2}
      /\ Answers <= Replies /\ Replies <= Acks /\ Acks <= Rings
  <2>1. Raises <= Rings
    BY Basics DEF Raises, Rings, Count
  <2>2. QED
    BY <2>1, CountType DEF OrderInv
<1>3. Rings' <= 2 /\ Raises' <= Rings'
  <2>1. mst'.msg \in {1, 2}
    BY <1>1 DEF TypeOK
  <2>2. QED
    BY <2>1 DEF Raises, Rings, Count
<1>4. (/\ Answers <= Replies /\ Replies <= Acks /\ Acks <= Rings /\ Rings <= Answers + 1)'
  <2>1. OrderInv' /\ Raises' \in {0, 1, 2} /\ Acks' \in {0, 1, 2, 3} /\ Rings' \in {0, 1, 2}
    <3>1. mst'.msg \in {1, 2} /\ calls' \in 0..2
      BY <1>1 DEF TypeOK
    <3>2. OrderInv'
      BY <1>1
    <3>3. Rings' \in {0, 1, 2} /\ Raises' \in {0, 1, 2}
      BY <3>1 DEF Raises, Rings, Count
    <3>4. Serves' \in {0, 1, 2}
      <4> HIDE DEF ExchangeInv, TypeInv, Core, Data
      <4>1. calls' \in {0, 1, 2}
        BY <3>1
      <4>2. /\ calls' = 0 => 2 - calls' = 2
            /\ calls' = 1 => 2 - calls' = 1
            /\ calls' = 2 => 2 - calls' = 0
        OBVIOUS
      <4>3. QED
        BY <4>1, <4>2 DEF Serves
    <3>5. Acks' \in {0, 1, 2, 3}
      <4> HIDE DEF ExchangeInv, TypeInv, Core, Data
      <4> DEFINE b == pc'["hdl"] \in Acked \/ (pc'["hdl"] = "H_ack" /\ part'["hdl"] > 1)
      <4>1. Acks' = Serves' + Count(b)
        BY DEF Acks, Count
      <4>2. Count(b) \in {0, 1}
        BY DEF Count
      <4> HIDE DEF b
      <4>3. QED
        BY <3>4, <4>1, <4>2
    <3>6. QED
      BY <3>2, <3>3, <3>5
  <2>2. QED
    BY <1>3, <2>1 DEF OrderInv
<1>5. HistInv /\ HistInv'
  BY <1>1
<1>6. CASE UNCHANGED <<Rings, Acks, Replies, Answers>>
  BY <1>5, <1>6 DEF HistInv, Exchange!xvars
<1>7. CASE Rings' = Rings + 1 /\ UNCHANGED <<Acks, Replies, Answers>>
  <2>1. Answers = Rings /\ Rings \in {0, 1}
    BY <1>2, <1>3, <1>4, <1>7
  <2>2. Len(sent["mst2slv"]) = Rings /\ Len(rcvd["slv2mst"]) = Rings
    BY <1>2, <1>5, <2>1, FirstLen DEF HistInv
  <2>3. Exchange!Request(Rings + 1) = Requests[Rings + 1]
    <3>1. CASE Rings = 0
      BY <3>1, Messages DEF Exchange!Request, Exchange!STATUS_REQUEST, STATUS_REQUEST
    <3>2. CASE Rings = 1
      <4>1. rcvd["slv2mst"][1] = TheReplies[1]
        BY <1>5, <2>1, <3>2, FirstLen DEF HistInv
      <4>2. QED
        BY <3>2, <4>1, ExchangeMessages, Messages
           DEF Exchange!Request, Exchange!IMAGE_READY, IMAGE_READY
    <3>3. QED
      BY <2>1, <3>1, <3>2
  <2>4. sent'["mst2slv"] = Append(sent["mst2slv"], Requests[Rings + 1])
    <3>1. Append(First(Rings, Requests), Requests[Rings + 1]) = First(Rings + 1, Requests)
      BY <2>1, FirstAppend
    <3>2. QED
      BY <1>5, <1>7, <3>1 DEF HistInv
  <2>5. UNCHANGED <<rcvd["mst2slv"], sent["slv2mst"], rcvd["slv2mst"]>>
    BY <1>5, <1>7 DEF HistInv
  <2>6. Exchange!SendRequest
    BY <2>1, <2>2, <2>3, <2>4, <2>5 DEF Exchange!SendRequest
  <2>7. QED
    BY <2>6 DEF Exchange!XNext
<1>8. CASE Acks' = Acks + 1 /\ UNCHANGED <<Rings, Replies, Answers>>
  <2>1. Acks < Rings /\ Acks \in {0, 1}
    BY <1>2, <1>4, <1>8
  <2>2. Len(sent["mst2slv"]) = Rings /\ Len(rcvd["mst2slv"]) = Acks
    BY <1>2, <1>5, FirstLen DEF HistInv
  <2>3. sent["mst2slv"][Acks + 1] = Requests[Acks + 1]
    <3>1. Acks + 1 \in {1, 2} /\ Acks + 1 <= Rings
      BY <1>2, <2>1
    <3>2. QED
      BY <1>2, <1>5, <3>1, FirstLen DEF HistInv
  <2>4. rcvd'["mst2slv"] = Append(rcvd["mst2slv"], Requests[Acks + 1])
    <3>1. Append(First(Acks, Requests), Requests[Acks + 1]) = First(Acks + 1, Requests)
      BY <2>1, FirstAppend
    <3>2. QED
      BY <1>5, <1>8, <3>1 DEF HistInv
  <2>5. UNCHANGED <<sent["mst2slv"], sent["slv2mst"], rcvd["slv2mst"]>>
    BY <1>5, <1>8 DEF HistInv
  <2>6. Exchange!ReceiveRequest
    BY <2>1, <2>2, <2>3, <2>4, <2>5 DEF Exchange!ReceiveRequest
  <2>7. QED
    BY <2>6 DEF Exchange!XNext
<1>9. CASE Replies' = Replies + 1 /\ UNCHANGED <<Rings, Acks, Answers>>
  <2>1. Replies < Acks /\ Replies \in {0, 1}
    BY <1>2, <1>4, <1>9
  <2>2. Len(sent["slv2mst"]) = Replies /\ Len(rcvd["mst2slv"]) = Acks
    BY <1>2, <1>5, FirstLen DEF HistInv
  <2>3. Exchange!Reply(Replies + 1) = TheReplies[Replies + 1]
    BY <2>1, ExchangeMessages
  <2>4. sent'["slv2mst"] = Append(sent["slv2mst"], TheReplies[Replies + 1])
    <3>1. Append(First(Replies, TheReplies), TheReplies[Replies + 1]) = First(Replies + 1, TheReplies)
      BY <2>1, FirstAppend
    <3>2. QED
      BY <1>5, <1>9, <3>1 DEF HistInv
  <2>5. UNCHANGED <<sent["mst2slv"], rcvd["mst2slv"], rcvd["slv2mst"]>>
    BY <1>5, <1>9 DEF HistInv
  <2>6. Exchange!SendReply
    BY <2>1, <2>2, <2>3, <2>4, <2>5 DEF Exchange!SendReply
  <2>7. QED
    BY <2>6 DEF Exchange!XNext
<1>10. CASE Answers' = Answers + 1 /\ UNCHANGED <<Rings, Acks, Replies>>
  <2>1. Answers < Replies /\ Answers \in {0, 1}
    BY <1>2, <1>4, <1>10
  <2>2. Len(sent["slv2mst"]) = Replies /\ Len(rcvd["slv2mst"]) = Answers
    BY <1>2, <1>5, FirstLen DEF HistInv
  <2>3. sent["slv2mst"][Answers + 1] = TheReplies[Answers + 1]
    <3>1. Answers + 1 \in {1, 2} /\ Answers + 1 <= Replies
      BY <1>2, <2>1
    <3>2. QED
      BY <1>2, <1>5, <3>1, FirstLen DEF HistInv
  <2>4. rcvd'["slv2mst"] = Append(rcvd["slv2mst"], TheReplies[Answers + 1])
    <3>1. Append(First(Answers, TheReplies), TheReplies[Answers + 1]) = First(Answers + 1, TheReplies)
      BY <2>1, FirstAppend
    <3>2. QED
      BY <1>5, <1>10, <3>1 DEF HistInv
  <2>5. UNCHANGED <<sent["mst2slv"], rcvd["mst2slv"], sent["slv2mst"]>>
    BY <1>5, <1>10 DEF HistInv
  <2>6. Exchange!ReceiveReply
    BY <2>1, <2>2, <2>3, <2>4, <2>5 DEF Exchange!ReceiveReply
  <2>7. QED
    BY <2>6 DEF Exchange!XNext
<1>11. QED
  BY <1>1, <1>6, <1>7, <1>8, <1>9, <1>10 DEF CountStep

(* Through registers, doorbells and interrupts, in every build, the two    *)
(* firmwares carry out the exchange: every message once, intact, in order, *)
(* each request only after the answer to the one before.                   *)
THEOREM ImplementsExchange == Spec => ExchangeSafe
<1>1. Init => Exchange!XInit
  BY DEF Init, Exchange!XInit, Dir
<1>2. ExchangeInv /\ [Next]_vars => [Exchange!XNext]_(Exchange!xvars)
  BY StepRefines
<1>3. QED
  BY <1>1, <1>2, ExchangeInvariant, PTL DEF Spec, ExchangeSafe, Exchange!XSpec

------------------------------------------------------------------------------
(* Progress: with atomic doorbell writes the threads never wait for one    *)
(* another in a circle, and every run is short.                            *)

(* The loops that spin; all other places have nothing to wait for.         *)
Spins == {"M_send", "M_int", "M_poll", "S_wait", "H_wait", "X_busy", "X_dbm"}
MayGoOn(t) == pc[t] \in Spins => WaitOver(t)

(* The thread waits for nothing another thread has to do but to leave the  *)
(* section; and it can make a step, a turn of a poll included.             *)
Able(t) == pc[t] # "done" /\ MayGoOn(t)
CanStep(t) ==
  /\ pc[t] # "done"
  /\ mode[t] = "in"   => MayRun(t) /\ (pc[t] \in SwitchReads \cup SwitchWrites \/ MayGoOn(t))
  /\ mode[t] = "out"  => MayRun(t) /\ MayGoOn(t)
  /\ mode[t] = "want" => Free

Running == FabLock /\ ~AllDone /\ ~SlaveInFirst
NeverStuck ==
  Running => /\ \E t \in Thread : Able(t)
             /\ \A t \in Thread : mode[t] = "in" => CanStep(t)
             /\ Free => \A t \in Thread : Able(t) => CanStep(t)

(* An atomic doorbell write keeps the mirror in step with the doorbell.    *)
MirrorInv == FabLock => dbm = db

(* The message buffer is busy while a reply is on its way out.             *)
HasBuffer == {"X_cmd", "X_dbm", "X_w0", "X_w1", "X_db", "X_idle"}
BusyInv == mb.busy = Count(pc["slv"] \in HasBuffer \/ pc["hdl"] \in HasBuffer)

(* Where a thread has left the section, and that one at most is in it.     *)
OutsideOnly == {"M_db", "H_wait", "H_chk", "done"}
ModeInv ==
  /\ ~CtxLock => \A t \in Thread : mode[t] = "out"
  /\ CtxLock  => \A t \in Thread :
                   /\ mode[t] = "out" => pc[t] \in SwitchWrites \cup OutsideOnly
                   /\ pc[t] \in OutsideOnly => mode[t] = "out"
  /\ \A t, u \in Thread : mode[t] = "in" /\ mode[u] = "in" => t = u

LockInv == ModeInv /\ MirrorInv /\ BusyInv

(* How far a thread has come: its place, the stores of its doorbell write, *)
(* its steps in and out of the section where it does not poll. A call of   *)
(* intHdl and a message of the master start again from Place 0, 30 further *)
(* on.                                                                     *)
Place ==
  [M_send |-> 0, M_dat |-> 1, M_int |-> 2, M_db |-> 3, M_poll |-> 4, M_rdb |-> 5,
   M_rd0 |-> 6, M_rd1 |-> 7, M_ack |-> 8, M_next |-> 9,
   S_wait |-> 0, S_cmd |-> 1, S_size |-> 2, S_ret |-> 20,
   H_wait |-> 0, H_chk |-> 1, H_adb |-> 2, H_r0 |-> 3, H_r1 |-> 4, H_ack |-> 5,
   H_get |-> 6, H_cmd |-> 7, H_rdy |-> 8, H_clr |-> 20,
   X_busy |-> 8, X_d0 |-> 9, X_d1 |-> 10, X_sz |-> 11, X_bsy |-> 12, X_cmd |-> 13,
   X_dbm |-> 14, X_w0 |-> 15, X_w1 |-> 16, X_db |-> 17, X_idle |-> 18, done |-> 30]
Round(t) == IF t = "mst" THEN mst.msg - 1 ELSE IF t = "hdl" THEN Serves ELSE 0
LockRank(t) ==
  IF pc[t] \in Polls THEN 0
  ELSE IF pc[t] \in SwitchReads THEN IF mode[t] = "want" THEN 1 ELSE 0
  ELSE IF mode[t] = "want" THEN 0 ELSE IF mode[t] = "in" THEN 1 ELSE 2
Reached(t) == 30 * Round(t) + Place[pc[t]]
EffortOf(t) == 9 * Reached(t) + 3 * (part[t] - 1) + LockRank(t)
Effort == EffortOf("mst") + EffortOf("slv") + EffortOf("hdl")
EffortLimit == 9 * 180 + 3 * 8

(* A poll leaves the section, or enters it again in vain.                  *)
PollTurn(t) ==
  /\ pc[t] \in Polls /\ (Unlock(t) \/ PollFails(t))
  /\ UNCHANGED <<build, pc, regs, Effort>>

EffortGrows == [][Effort' > Effort \/ \E t \in Thread : PollTurn(t)]_vars
EffortBounded == Effort \in 0..EffortLimit

(* Strong fairness of a thread: a step it can make again and again is      *)
(* taken again and again.                                                  *)
StepTaken(t) == <>[]~CanStep(t) \/ []<><<Run(t)>>_vars
StepsTaken   == StepTaken("mst") /\ StepTaken("slv") /\ StepTaken("hdl")

(* The counters of two threads stay when the third moves.                  *)
Alone(t) ==
  /\ \A u \in Thread \ {t} : UNCHANGED <<pc[u], part[u], mode[u]>>
  /\ t # "mst" => UNCHANGED mst.msg
  /\ t # "hdl" => UNCHANGED calls

(* A thread stores the next part of its doorbell write, or gets on.        *)
StoresPart(t) == /\ UNCHANGED <<pc[t], mode[t], mst.msg, calls>>
              /\ part'[t] = part[t] + 1
Advances(t) == Reached(t)' > Reached(t)

(* What a thread may do to the lock when it goes to l.                     *)
Crosses(t, l) ==
  \/ /\ Inside(t) \/ SwitchRead(t) \/ SwitchWrite(t) \/ DataRead(t) \/ DataWrite(t)
     /\ l \notin OutsideOnly
  \/ /\ Outside(t) \/ Leave(t)
     /\ l \in SwitchWrites \cup OutsideOnly

LEMMA CrossesMode ==
  ASSUME TypeOK, NEW t \in Thread, NEW l, Crosses(t, l)
  PROVE  \A u \in Thread \ {t} : mode'[u] = mode[u]
  BY DEF Crosses, TypeOK, Inside, Outside, Leave, SwitchRead, SwitchWrite, DataRead, DataWrite

LEMMA CrossesKeeps ==
  ASSUME TypeOK, ModeInv, build' = build, NEW t \in Thread, NEW l, Goto(t, l), Crosses(t, l)
  PROVE  ModeInv'
<1>0. mode \in [Thread -> {"in", "out", "want"}] /\ UNCHANGED <<CtxLock, Mutex>>
  BY DEF TypeOK, CtxLock, Mutex
<1>s. SwitchWrites' = SwitchWrites
  BY DEF SwitchWrites, PorOpt
<1>1. pc'[t] = l /\ \A u \in Thread \ {t} : pc'[u] = pc[u] /\ mode'[u] = mode[u]
  BY GotoEffect, CrossesMode
<1>m. mode' \in [Thread -> {"in", "out", "want"}]
  BY ModeType DEF Crosses
<1>i. Inside(t) \/ SwitchRead(t) \/ SwitchWrite(t) \/ Outside(t) \/ Leave(t)
  BY DEF Crosses, DataRead, DataWrite
<1>2. CASE CtxLock
  <2>1. mode'[t] = "in" => mode[t] = "in" \/ Free
    BY <1>i, <1>0, <1>2 DEF Inside, SwitchRead, SwitchWrite, Outside, Leave
  <2>2. \A u, v \in Thread : mode'[u] = "in" /\ mode'[v] = "in" => u = v
    BY <1>1, <2>1 DEF ModeInv, Free
  <2>3. /\ mode'[t] = "out" => l \in SwitchWrites \cup OutsideOnly
        /\ l \in OutsideOnly => mode'[t] = "out"
    <3>1. CASE l \notin OutsideOnly /\ (Inside(t) \/ SwitchRead(t) \/ SwitchWrite(t))
      BY <3>1, <1>0, <1>2 DEF Inside, SwitchRead, SwitchWrite
    <3>2. CASE l \in SwitchWrites \cup OutsideOnly /\ (Outside(t) \/ Leave(t))
      BY <3>2, <1>0, <1>2 DEF Outside, Leave
    <3>3. QED
      BY <3>1, <3>2 DEF Crosses, DataRead, DataWrite
  <2>4. \A u \in Thread : /\ mode'[u] = "out" => pc'[u] \in SwitchWrites \cup OutsideOnly
                          /\ pc'[u] \in OutsideOnly => mode'[u] = "out"
    BY <1>1, <1>2, <2>3 DEF ModeInv
  <2>5. QED
    BY <1>0, <1>2, <1>s, <2>2, <2>4 DEF ModeInv
<1>3. CASE ~CtxLock
  <2>1. \A u \in Thread : mode[u] = "out"
    BY <1>3 DEF ModeInv
  <2>2. mode'[t] = "out"
    BY <1>i, <1>0, <1>3, <2>1 DEF Inside, SwitchRead, SwitchWrite, Outside, Leave
  <2>3. QED
    BY <1>0, <1>1, <1>3, <2>1, <2>2 DEF ModeInv
<1>4. QED
  BY <1>2, <1>3

(* A jump of a quiet step: it takes the thread on and keeps the lock.      *)
LEMMA JumpMoves ==
  ASSUME TypeOK, ModeInv, build' = build, NEW t \in Thread, NEW l \in Label,
         Goto(t, l), Crosses(t, l), UNCHANGED part,
         t # "mst" => UNCHANGED mst.msg, t # "hdl" => UNCHANGED calls
  PROVE  ModeInv' /\ Alone(t) /\ pc'[t] = l
  BY CrossesKeeps, CrossesMode, GotoEffect DEF Alone

(* Going on to a later place, or to the next round, is an advance.         *)
LEMMA PlaceRange == \A l \in Label : Place[l] \in 0..30
  BY DEF Label, Place

LEMMA RoundRange ==
  ASSUME TypeOK PROVE \A t \in Thread : Round(t) \in 0..2
  BY Basics DEF Round, Serves

LEMMA LaterAdvances ==
  ASSUME TypeOK, NEW t \in Thread, Round(t)' = Round(t), Place[pc'[t]] > Place[pc[t]],
         pc'[t] \in Label
  PROVE  Advances(t)
<1>1. pc[t] \in Label
  BY DEF TypeOK
<1>2. Place[pc[t]] \in 0..30 /\ Place[pc'[t]] \in 0..30
  BY <1>1, PlaceRange
<1>3. Round(t) \in 0..2
  BY RoundRange
<1> DEFINE r == Round(t)
           p == Place[pc[t]]
           q == Place[pc'[t]]
<1>4. Reached(t) = 30 * r + p /\ Reached(t)' = 30 * r + q
  BY DEF Reached
<1> HIDE DEF r, p, q
<1>5. r \in 0..2 /\ p \in 0..30 /\ q \in 0..30 /\ q > p
  BY <1>2, <1>3 DEF r, p, q
<1>6. 30 * r + q > 30 * r + p
  BY <1>5
<1>7. QED
  BY <1>4, <1>6 DEF Advances

(* A store of a doorbell write, by the thread that makes it.               *)
LEMMA RingMoves ==
  ASSUME TypeOK, ModeInv, build' = build, NEW t \in Thread, NEW d \in Dir, NEW val,
         NEW next \in Label \ OutsideOnly, FabLock => part[t] = 1,
         d = "slv2mst" => part[t] \in {1, 2},
         UNCHANGED <<mst, calls>>, WriteDoorbell(t, d, val, next)
  PROVE  /\ ModeInv' /\ Alone(t)
         /\ (pc'[t] = next \/ StoresPart(t))
<1>d. d \in {"mst2slv", "slv2mst"}
  BY DEF Dir
<1>1. (SwitchWrite(t) /\ Goto(t, next)) \/ (Outside(t) /\ UNCHANGED pc)
  BY DEF WriteDoorbell, StoreDoorbell
<1>2. /\ \A u \in Thread \ {t} : UNCHANGED <<pc[u], part[u]>>
      /\ pc'[t] = next \/ (pc'[t] = pc[t] /\ part'[t] = part[t] + 1)
  <2>1. CASE d = "mst2slv"
    BY <2>1, RingEffect
  <2>2. CASE d = "slv2mst"
    BY <2>2, ReplyEffect
  <2>3. QED
    BY <1>d, <2>1, <2>2
<1>3. CASE SwitchWrite(t) /\ Goto(t, next)
  <2>1. Crosses(t, next)
    BY <1>3 DEF Crosses
  <2>2. ModeInv' /\ \A u \in Thread \ {t} : mode'[u] = mode[u]
    BY <1>3, <2>1, CrossesKeeps, CrossesMode
  <2>3. pc'[t] = next
    BY <1>3, GotoEffect
  <2>4. QED
    BY <1>2, <2>2, <2>3 DEF Alone
<1>4. CASE Outside(t) /\ UNCHANGED pc
  <2>1. UNCHANGED <<pc, mode>>
    BY <1>4 DEF Outside
  <2>2. ModeInv'
    BY <2>1 DEF ModeInv, CtxLock, SwitchWrites, PorOpt
  <2>3. QED
    BY <1>2, <2>1, <2>2 DEF Alone, StoresPart
<1>5. QED
  BY <1>1, <1>3, <1>4

(* Every step of the master either stores a part of a doorbell write or    *)
(* takes the master on, and keeps the lock's invariant.                    *)
LEMMA MstMoves ==
  ASSUME ExchangeInv, ModeInv, build' = build, MstStep, pc' \in [Thread -> Label]
  PROVE  ModeInv' /\ Alone("mst") /\ (StoresPart("mst") \/ Advances("mst"))
<1> USE Basics DEF ExchangeInv, TypeInv
<1>t. "mst" \in Thread /\ "mst2slv" \in Dir /\ "slv2mst" \in Dir
  BY DEF Thread, Dir
<1>l. {"M_send", "M_dat", "M_int", "M_db", "M_poll", "M_rdb", "M_rd0", "M_rd1", "M_ack",
       "M_next", "done"} \subseteq Label
  BY DEF Label
<1>1. CASE MstRing
  <2>1. "M_poll" \in Label \ OutsideOnly /\ (FabLock => part["mst"] = 1)
    BY DEF Label, OutsideOnly, Core, PlaceInv
  <2>2. ModeInv' /\ Alone("mst") /\ (pc'["mst"] = "M_poll" \/ StoresPart("mst"))
    BY <1>1, <1>t, <2>1, RingMoves DEF MstRing
  <2>3. Place["M_db"] < Place["M_poll"] /\ Round("mst")' = Round("mst")
    BY <1>1 DEF Place, Round, MstRing
  <2>4. QED
    BY <1>1, <1>t, <2>2, <2>3, LaterAdvances DEF MstRing
<1>2. CASE MstAck
  <2>1. /\ "M_next" \in Label \ OutsideOnly /\ (FabLock => part["mst"] = 1)
        /\ part["mst"] \in {1, 2}
    BY <1>2 DEF Label, OutsideOnly, Core, PlaceInv, MstAck
  <2>2. ModeInv' /\ Alone("mst") /\ (pc'["mst"] = "M_next" \/ StoresPart("mst"))
    BY <1>2, <1>t, <2>1, RingMoves DEF MstAck
  <2>3. Place["M_ack"] < Place["M_next"] /\ Round("mst")' = Round("mst")
    BY <1>2 DEF Place, Round, MstAck
  <2>4. QED
    BY <1>2, <1>t, <2>2, <2>3, LaterAdvances DEF MstAck
<1>3. CASE \/ MstAwaitFree \/ MstWriteData \/ MstAwaitNoInt \/ MstPoll \/ MstReadDoorbell
           \/ MstReadData \/ MstPrepareImage \/ MstReturn
  <2>1. ModeInv' /\ Alone("mst")
    <3>1. \E l \in Label : Goto("mst", l) /\ Crosses("mst", l)
      <4>1. CASE MstAwaitFree
        BY <4>1, <1>l DEF MstAwaitFree, Crosses, OutsideOnly
      <4>2. CASE MstWriteData
        BY <4>2, <1>l DEF MstWriteData, Crosses, OutsideOnly
      <4>3. CASE MstAwaitNoInt
        BY <4>3, <1>l DEF MstAwaitNoInt, Crosses, OutsideOnly
      <4>4. CASE MstPoll
        BY <4>4, <1>l DEF MstPoll, Crosses, OutsideOnly
      <4>5. CASE MstReadDoorbell
        BY <4>5, <1>l DEF MstReadDoorbell, Crosses, OutsideOnly
      <4>6. CASE MstReadData
        BY <4>6, <1>l DEF MstReadData, Crosses, OutsideOnly
      <4>7. CASE MstPrepareImage
        BY <4>7, <1>l DEF MstPrepareImage, Crosses, OutsideOnly
      <4>8. CASE MstReturn
        BY <4>8, <1>l DEF MstReturn, Crosses, OutsideOnly
      <4>9. QED
        BY <1>3, <4>1, <4>2, <4>3, <4>4, <4>5, <4>6, <4>7, <4>8
    <3>2. UNCHANGED <<part, calls>>
      BY <1>3 DEF MstAwaitFree, MstWriteData, MstAwaitNoInt, MstPoll, MstReadDoorbell,
         MstReadData, MstPrepareImage, MstReturn, regs
    <3>3. QED
      BY <1>t, <3>1, <3>2, JumpMoves
  <2>2. CASE mst'.msg = mst.msg
    <3>1. Round("mst")' = Round("mst")
      BY <2>2 DEF Round
    <3>2. Place[pc'["mst"]] > Place[pc["mst"]]
      BY <1>3, <2>2, MstTable DEF MstMove, Place
    <3>3. QED
      BY <1>t, <2>1, <3>1, <3>2, LaterAdvances
  <2>3. CASE mst'.msg # mst.msg
    <3>1. MstMove("M_next", "M_send") /\ mst.msg = 1 /\ mst'.msg = 2
      BY <1>3, <2>3, MstTable DEF MstKeeps
    <3>2. Reached("mst") = 9 /\ Reached("mst")' = 30
      BY <3>1 DEF Reached, Round, Place, MstMove
    <3>3. QED
      BY <2>1, <3>2 DEF Advances
  <2>4. QED
    BY <2>2, <2>3
<1>4. QED
  BY <1>1, <1>2, <1>3 DEF MstStep

(* The same for a sender of a reply.                                       *)
LEMMA SendMoves ==
  ASSUME ExchangeInv, ModeInv, build' = build, NEW t \in Sender, Send(t), pc' \in [Thread -> Label]
  PROVE  ModeInv' /\ Alone(t) /\ (StoresPart(t) \/ Advances(t))
<1> USE Basics DEF ExchangeInv, TypeInv
<1>t. t \in Thread /\ t \in {"slv", "hdl"} /\ "mst2slv" \in Dir /\ "slv2mst" \in Dir
  BY DEF Thread, Dir, Sender
<1>l. Sending \cup {"S_ret", "H_clr"} \subseteq Label \ OutsideOnly
  BY DEF Label, Sending, OutsideOnly
<1>r. UNCHANGED <<mst, calls>> => Round(t)' = Round(t)
  BY DEF Round, Serves
<1>1. CASE SendRing(t)
  <2>1. /\ "X_idle" \in Label \ OutsideOnly /\ (FabLock => part[t] = 1)
        /\ part[t] \in {1, 2}
    BY <1>1, <1>t DEF Label, OutsideOnly, Core, PlaceInv, SendRing
  <2>2. ModeInv' /\ Alone(t) /\ (pc'[t] = "X_idle" \/ StoresPart(t))
    BY <1>1, <1>t, <2>1, RingMoves DEF SendRing
  <2>3. Place["X_db"] < Place["X_idle"] /\ Round(t)' = Round(t)
    BY <1>1, <1>r DEF Place, SendRing
  <2>4. QED
    BY <1>1, <1>t, <2>2, <2>3, LaterAdvances DEF SendRing
<1>2. CASE \/ SendAwaitIdle(t) \/ SendCopy(t) \/ SendSetBusy(t) \/ SendSetCmd(t)
           \/ SendAwaitFree(t) \/ SendWriteData(t) \/ SendClearBusy(t)
  <2>1. ModeInv' /\ Alone(t)
    <3> USE DEF Crosses, Sending
    <3>1. \E l \in Label : Goto(t, l) /\ Crosses(t, l)
      <4>1. CASE SendAwaitIdle(t)
        BY <4>1, <1>l DEF SendAwaitIdle
      <4>2. CASE SendCopy(t)
        BY <4>2, <1>l DEF SendCopy
      <4>3. CASE SendSetBusy(t)
        BY <4>3, <1>l DEF SendSetBusy
      <4>4. CASE SendSetCmd(t)
        BY <4>4, <1>l DEF SendSetCmd
      <4>5. CASE SendAwaitFree(t)
        BY <4>5, <1>l DEF SendAwaitFree
      <4>6. CASE SendWriteData(t)
        BY <4>6, <1>l DEF SendWriteData
      <4>7. CASE SendClearBusy(t)
        BY <4>7, <1>l DEF SendClearBusy, AfterSend
      <4>8. QED
        BY <1>2, <4>1, <4>2, <4>3, <4>4, <4>5, <4>6, <4>7
    <3>2. UNCHANGED <<part, calls, mst>>
      BY <1>2, SendTable
    <3>3. QED
      BY <1>t, <3>1, <3>2, JumpMoves
  <2>2. Round(t)' = Round(t)
    BY <1>2, <1>r, SendTable
  <2>3. Place[pc'[t]] > Place[pc[t]]
    BY <1>2, <1>t, SendTable DEF SendMove, Place, AfterSend
  <2>4. QED
    BY <1>t, <2>1, <2>2, <2>3, LaterAdvances
<1>3. QED
  BY <1>1, <1>2 DEF Send

(* The same for the slave firmware.                                        *)
LEMMA SlvMoves ==
  ASSUME ExchangeInv, ModeInv, build' = build, SlvStep, pc' \in [Thread -> Label]
  PROVE  ModeInv' /\ Alone("slv") /\ (StoresPart("slv") \/ Advances("slv"))
<1> USE Basics DEF ExchangeInv, TypeInv
<1>t. "slv" \in Thread /\ "slv" \in Sender
  BY DEF Thread, Sender
<1>l. {"S_cmd", "S_size", "X_busy", "done"} \subseteq Label
  BY DEF Label
<1>1. CASE SlvAwaitImage \/ SlvPrepareDone \/ SlvReturn
  <2>1. \E l \in Label : Goto("slv", l) /\ Crosses("slv", l)
    <3>1. CASE SlvAwaitImage
      BY <3>1, <1>l DEF SlvAwaitImage, Crosses, OutsideOnly
    <3>2. CASE SlvPrepareDone
      BY <3>2, <1>l DEF SlvPrepareDone, Crosses, OutsideOnly
    <3>3. CASE SlvReturn
      BY <3>3, <1>l DEF SlvReturn, Crosses, OutsideOnly
    <3>4. QED
      BY <1>1, <3>1, <3>2, <3>3
  <2>2. UNCHANGED <<part, calls, mst>>
    BY <1>1 DEF SlvAwaitImage, SlvPrepareDone, SlvReturn, regs
  <2>3. ModeInv' /\ Alone("slv")
    BY <1>t, <2>1, <2>2, JumpMoves
  <2>4. Round("slv")' = Round("slv") /\ Place[pc'["slv"]] > Place[pc["slv"]]
    BY <1>1, SlvTable DEF SendMove, Place, Round
  <2>5. QED
    BY <1>t, <2>3, <2>4, LaterAdvances
<1>2. QED
  BY <1>1, <1>t, SendMoves DEF SlvStep

(* The same for the interrupt handler.                                     *)
LEMMA HdlMoves ==
  ASSUME ExchangeInv, ModeInv, build' = build, HdlStep, pc' \in [Thread -> Label]
  PROVE  ModeInv' /\ Alone("hdl") /\ (StoresPart("hdl") \/ Advances("hdl"))
<1> USE Basics DEF ExchangeInv, TypeInv
<1>t. "hdl" \in Thread /\ "hdl" \in Sender /\ "mst2slv" \in Dir
  BY DEF Thread, Sender, Dir
<1>l. {"H_wait", "H_chk", "H_adb", "H_r0", "H_r1", "H_ack", "H_get", "H_cmd", "H_rdy", "H_clr",
       "X_busy", "done"} \subseteq Label
  BY DEF Label
<1>1. CASE HdlAck
  <2>1. "H_get" \in Label \ OutsideOnly /\ (FabLock => part["hdl"] = 1)
    BY DEF Label, OutsideOnly, Core, PlaceInv
  <2>2. ModeInv' /\ Alone("hdl") /\ (pc'["hdl"] = "H_get" \/ StoresPart("hdl"))
    BY <1>1, <1>t, <2>1, RingMoves DEF HdlAck
  <2>3. Place["H_ack"] < Place["H_get"] /\ Round("hdl")' = Round("hdl")
    BY <1>1 DEF Place, Round, Serves, HdlAck
  <2>4. QED
    BY <1>1, <1>t, <2>2, <2>3, LaterAdvances DEF HdlAck
<1>2. CASE \/ HdlAwaitInt \/ HdlCheckInt \/ HdlReadDoorbell \/ HdlReadData
           \/ HdlGetMbCtx \/ HdlHandleCmd \/ HdlSetReady
  <2>i. pc["hdl"] # "H_wait" /\ pc["hdl"] # "done" => slvInt = 1
    BY HdlPlace DEF Core
  <2>1. ModeInv' /\ Alone("hdl")
    <3>1. CASE HdlCheckInt
      <4>1. /\ pc["hdl"] = "H_chk" /\ Goto("hdl", "H_adb") /\ UNCHANGED <<calls, part, mst>>
            /\ MayRun("hdl") /\ mode' = IF CtxLock THEN [mode EXCEPT !["hdl"] = "want"] ELSE mode
        BY <3>1, <2>i DEF HdlCheckInt
      <4>2. mode["hdl"] = "out"
        BY <4>1, <1>t DEF ModeInv, OutsideOnly
      <4>3. SwitchWrite("hdl")
        BY <4>1, <4>2 DEF SwitchWrite
      <4>4. Crosses("hdl", "H_adb")
        BY <4>3 DEF Crosses, OutsideOnly
      <4>5. QED
        BY <1>t, <1>l, <4>1, <4>4, JumpMoves
    <3>2. CASE \/ HdlAwaitInt \/ HdlReadDoorbell \/ HdlReadData
               \/ HdlGetMbCtx \/ HdlHandleCmd \/ HdlSetReady
      <4>1. \E l \in Label : Goto("hdl", l) /\ Crosses("hdl", l)
        <5>1. CASE HdlAwaitInt
          BY <5>1, <1>l DEF HdlAwaitInt, Crosses, OutsideOnly
        <5>2. CASE HdlReadDoorbell
          BY <5>2, <1>l DEF HdlReadDoorbell, Crosses, OutsideOnly
        <5>3. CASE HdlReadData
          BY <5>3, <1>l DEF HdlReadData, Crosses, OutsideOnly
        <5>4. CASE HdlGetMbCtx
          BY <5>4, <1>l DEF HdlGetMbCtx, Crosses, OutsideOnly
        <5>5. CASE HdlHandleCmd
          BY <5>5, <1>l DEF HdlHandleCmd, Crosses, OutsideOnly
        <5>6. CASE HdlSetReady
          BY <5>6, <1>l DEF HdlSetReady, Crosses, OutsideOnly
        <5>7. QED
          BY <3>2, <5>1, <5>2, <5>3, <5>4, <5>5, <5>6
      <4>2. UNCHANGED <<part, calls, mst>>
        BY <3>2 DEF HdlAwaitInt, HdlReadDoorbell, HdlReadData, HdlGetMbCtx, HdlHandleCmd,
           HdlSetReady, regs
      <4>3. QED
        BY <1>t, <4>1, <4>2, JumpMoves
    <3>3. QED
      BY <1>2, <3>1, <3>2
  <2>2. UNCHANGED calls
    BY <1>2, HdlTable
  <2>3. Round("hdl")' = Round("hdl")
    BY <2>2 DEF Round, Serves
  <2>4. Place[pc'["hdl"]] > Place[pc["hdl"]]
    BY <1>2, HdlTable DEF HdlMove, Place
  <2>5. QED
    BY <1>t, <2>1, <2>3, <2>4, LaterAdvances
<1>3. CASE HdlClearInt
  <2>1. /\ pc["hdl"] = "H_clr" /\ Leave("hdl") /\ calls' = calls - 1
        /\ Goto("hdl", AfterCall(calls)) /\ UNCHANGED <<part, mst>>
    BY <1>3 DEF HdlClearInt
  <2>2. AfterCall(calls) \in {"H_wait", "done"} /\ calls \in {1, 2}
    BY <2>1 DEF AfterCall, Core, PlaceInv
  <2>3. Crosses("hdl", AfterCall(calls)) /\ AfterCall(calls) \in Label
    BY <1>l, <2>1, <2>2 DEF Crosses, OutsideOnly
  <2>4. ModeInv' /\ Alone("hdl") /\ pc'["hdl"] = AfterCall(calls)
    BY <1>t, <2>1, <2>3, JumpMoves
  <2>5. Reached("hdl") = 30 * (2 - calls) + 20
    BY <2>1 DEF Reached, Round, Serves, Place
  <2>6. Place[pc'["hdl"]] \in {0, 30}
    BY <2>2, <2>4 DEF Place
  <2>7. Reached("hdl")' = 30 * (2 - calls') + Place[pc'["hdl"]]
    BY DEF Reached, Round, Serves
  <2>8. Reached("hdl")' > Reached("hdl")
    BY <2>1, <2>2, <2>5, <2>6, <2>7
  <2>9. QED
    BY <2>4, <2>8 DEF Advances
<1>4. QED
  BY <1>1, <1>2, <1>3, <1>t, SendMoves DEF HdlStep

(* Going in and out of the section.                                        *)
LEMMA LockMoves ==
  ASSUME TypeOK, ModeInv, build' = build, NEW t \in Thread,
         Lock(t) \/ Unlock(t) \/ PollFails(t)
  PROVE  /\ ModeInv' /\ UNCHANGED <<pc, regs>>
         /\ \A u \in Thread \ {t} : mode'[u] = mode[u]
         /\ \/ LockRank(t)' > LockRank(t)
            \/ /\ pc[t] \in Polls /\ (Unlock(t) \/ PollFails(t))
               /\ LockRank(t)' = LockRank(t)
<1>0. mode \in [Thread -> {"in", "out", "want"}] /\ UNCHANGED <<pc, regs>>
  BY DEF TypeOK, Lock, Unlock, PollFails
<1>c. UNCHANGED <<CtxLock, SwitchReads, SwitchWrites>>
  BY DEF CtxLock, SwitchReads, SwitchWrites, PorOpt
<1>d. /\ SwitchReads \cap SwitchWrites = {} /\ "M_db" \notin SwitchReads /\ "H_wait" \notin SwitchReads
      /\ Polls \subseteq SwitchReads /\ Polls \cap OutsideOnly = {}
  BY DEF SwitchReads, SwitchWrites, DataReads, DataWrites, Polls, OutsideOnly
<1>1. mode'[t] \in {"in", "out", "want"} /\ \A u \in Thread \ {t} : mode'[u] = mode[u]
  BY <1>0 DEF Lock, Unlock, PollFails
<1>l. CtxLock
  BY DEF ModeInv, Lock, Unlock, PollFails
<1>m. CASE Lock(t)
  <2>1. mode[t] = "want" /\ mode'[t] = "in" /\ Free /\ pc[t] \notin SwitchReads
    BY <1>m, <1>0 DEF Lock
  <2>2. ModeInv'
    BY <1>0, <1>1, <1>c, <1>l, <2>1 DEF ModeInv, Free
  <2>3. LockRank(t) = 0 /\ LockRank(t)' = 1
    BY <1>0, <1>c, <1>d, <2>1 DEF LockRank
  <2>4. QED
    BY <1>0, <1>1, <2>2, <2>3
<1>u. CASE Unlock(t)
  <2>1. mode[t] = "in" /\ mode'[t] = IF pc[t] \in SwitchReads THEN "want" ELSE "out"
    BY <1>u, <1>0 DEF Unlock
  <2>2. pc[t] \in SwitchReads \cup SwitchWrites
    BY <1>u DEF Unlock
  <2>3. ModeInv'
    BY <1>0, <1>1, <1>c, <1>l, <2>1, <2>2 DEF ModeInv
  <2>4. CASE pc[t] \in Polls
    <3>1. LockRank(t)' = LockRank(t)
      BY <1>0, <2>4 DEF LockRank
    <3>2. QED
      BY <1>0, <1>1, <1>u, <2>3, <2>4, <3>1
  <2>5. CASE pc[t] \notin Polls
    <3>1. LockRank(t)' = LockRank(t) + 1 /\ LockRank(t) \in {0, 1}
      BY <1>0, <1>c, <2>1, <2>2, <2>5 DEF LockRank
    <3>2. QED
      BY <1>0, <1>1, <2>3, <3>1
  <2>6. QED
    BY <2>4, <2>5
<1>p. CASE PollFails(t)
  <2>1. mode[t] = "want" /\ mode'[t] = "in" /\ Free /\ pc[t] \in Polls
    BY <1>p, <1>0 DEF PollFails
  <2>2. ModeInv'
    BY <1>0, <1>1, <1>c, <1>d, <1>l, <2>1 DEF ModeInv, Free
  <2>3. LockRank(t)' = LockRank(t)
    BY <1>0, <2>1 DEF LockRank
  <2>4. QED
    BY <1>0, <1>1, <1>p, <2>1, <2>2, <2>3
<1>2. QED
  BY <1>m, <1>u, <1>p

LEMMA RankRange == \A t \in Thread : LockRank(t) \in 0..2
  BY DEF LockRank

LEMMA ReachedRange ==
  ASSUME TypeOK
  PROVE  /\ Reached("mst") \in 0..60 /\ Reached("slv") \in 0..30 /\ Reached("hdl") \in 0..90
<1>1. Place[pc["mst"]] \in 0..30 /\ Place[pc["slv"]] \in 0..30 /\ Place[pc["hdl"]] \in 0..30
  BY PlaceRange DEF TypeOK, Thread
<1>2. Round("mst") \in 0..1 /\ Round("slv") = 0 /\ Round("hdl") \in 0..2
  BY Basics DEF Round, Serves
<1> DEFINE p == Place[pc["mst"]]
           q == Place[pc["slv"]]
           r == Place[pc["hdl"]]
           k == Round("mst")
           n == Round("hdl")
<1>3. Reached("mst") = 30 * k + p /\ Reached("slv") = 30 * 0 + q /\ Reached("hdl") = 30 * n + r
  BY <1>2 DEF Reached
<1>4. p \in 0..30 /\ q \in 0..30 /\ r \in 0..30 /\ k \in 0..1 /\ n \in 0..2
  BY <1>1, <1>2
<1> HIDE DEF p, q, r, k, n
<1>5. QED
  BY <1>3, <1>4

LEMMA ReachedNat ==
  TypeOK => Reached("mst") \in Nat /\ Reached("slv") \in Nat /\ Reached("hdl") \in Nat
  BY ReachedRange

LEMMA EffortRange ==
  ASSUME TypeOK
  PROVE  EffortBounded /\ \A t \in Thread : EffortOf(t) \in Nat
<1> DEFINE a == Reached("mst")
           b == Reached("slv")
           c == Reached("hdl")
           x == LockRank("mst")
           y == LockRank("slv")
           z == LockRank("hdl")
<1>1. a \in 0..60 /\ b \in 0..30 /\ c \in 0..90 /\ x \in 0..2 /\ y \in 0..2 /\ z \in 0..2
  BY ReachedRange, RankRange DEF Thread
<1>2. part["mst"] \in 1..3 /\ part["slv"] \in 1..3 /\ part["hdl"] \in 1..3
  BY Basics
<1>3. /\ EffortOf("mst") = 9 * a + 3 * (part["mst"] - 1) + x
      /\ EffortOf("slv") = 9 * b + 3 * (part["slv"] - 1) + y
      /\ EffortOf("hdl") = 9 * c + 3 * (part["hdl"] - 1) + z
  BY DEF EffortOf
<1>s. \A m \in Nat : \A i \in 0..m, p \in 1..3, k \in 0..2 :
        9 * i + 3 * (p - 1) + k \in 0..(9 * m + 8)
  OBVIOUS
<1> HIDE DEF a, b, c, x, y, z
<1>4. EffortOf("mst") \in 0..548 /\ EffortOf("slv") \in 0..278 /\ EffortOf("hdl") \in 0..818
  <2>1. EffortOf("mst") \in 0..(9 * 60 + 8)
    BY <1>1, <1>2, <1>3, <1>s
  <2>2. EffortOf("slv") \in 0..(9 * 30 + 8)
    BY <1>1, <1>2, <1>3, <1>s
  <2>3. EffortOf("hdl") \in 0..(9 * 90 + 8)
    BY <1>1, <1>2, <1>3, <1>s
  <2>4. QED
    BY <2>1, <2>2, <2>3
<1>5. EffortBounded
  <2> DEFINE d == EffortOf("mst")
             e == EffortOf("slv")
             f == EffortOf("hdl")
  <2>1. Effort = d + e + f /\ EffortLimit = 1644
    BY DEF Effort, EffortLimit
  <2>2. d \in 0..548 /\ e \in 0..278 /\ f \in 0..818
    BY <1>4
  <2> HIDE DEF d, e, f
  <2>3. QED
    BY <2>1, <2>2 DEF EffortBounded
<1>6. QED
  BY <1>4, <1>5 DEF Thread

EffortsNat == \A t \in Thread : EffortOf(t) \in Nat
LEMMA EffortNat == TypeOK => EffortsNat
  BY EffortRange DEF EffortsNat

(* A thread that moves alone leaves the others where they are.             *)
LEMMA OthersRest ==
  ASSUME TypeOK, build' = build, NEW t \in Thread, Alone(t)
  PROVE  \A u \in Thread \ {t} : EffortOf(u)' = EffortOf(u)
<1> SUFFICES ASSUME NEW u \in Thread \ {t} PROVE EffortOf(u)' = EffortOf(u)
  OBVIOUS
<1>1. UNCHANGED <<pc[u], part[u], mode[u], SwitchReads>>
  BY DEF Alone, SwitchReads, PorOpt
<1>2. LockRank(u)' = LockRank(u)
  BY <1>1 DEF LockRank
<1>3. Round(u)' = Round(u)
  BY DEF Alone, Round, Serves
<1>4. QED
  BY <1>1, <1>2, <1>3 DEF EffortOf, Reached

(* The thread that moves comes further.                                    *)
LEMMA MoverGains ==
  ASSUME TypeOK, TypeOK', build' = build, NEW t \in Thread, StoresPart(t) \/ Advances(t)
  PROVE  EffortOf(t)' > EffortOf(t)
<1>t. t \in {"mst", "slv", "hdl"}
  BY DEF Thread
<1> DEFINE a == Reached(t)
           b == Reached(t)'
           x == LockRank(t)
           y == LockRank(t)'
           p == part[t]
           q == part'[t]
<1>1. a \in Nat /\ x \in 0..2 /\ p \in 1..3
  BY <1>t, ReachedRange, RankRange, Basics
<1>2. q \in 1..3
  BY DEF TypeOK
<1>3. y \in 0..2
  BY DEF LockRank
<1>4. b \in Nat
  <2>1. (TypeOK => Reached("mst") \in Nat /\ Reached("slv") \in Nat /\ Reached("hdl") \in Nat)'
    BY ReachedNat, PTL
  <2>2. QED
    BY <1>t, <2>1
<1>5. EffortOf(t) = 9 * a + 3 * (p - 1) + x /\ EffortOf(t)' = 9 * b + 3 * (q - 1) + y
  BY DEF EffortOf
<1>6. CASE Advances(t)
  <2>1. b > a
    BY <1>6 DEF Advances
  <2> HIDE DEF a, b, x, y, p, q
  <2>2. QED
    BY <1>1, <1>2, <1>3, <1>4, <1>5, <2>1
<1>7. CASE StoresPart(t)
  <2>1. b = a
    BY <1>7 DEF StoresPart, Reached, Round, Serves
  <2>2. y = x /\ q = p + 1
    BY <1>7 DEF StoresPart, LockRank, SwitchReads, PorOpt, Polls
  <2> HIDE DEF a, b, x, y, p, q
  <2>3. QED
    BY <1>1, <1>2, <1>3, <1>4, <1>5, <2>1, <2>2
<1>8. QED
  BY <1>6, <1>7

(* A step of a thread raises the effort of that thread alone, or is a turn *)
(* of a poll.                                                              *)
LEMMA ThreadGains ==
  ASSUME ExchangeInv, ModeInv, NEW t \in Thread, Run(t)
  PROVE  /\ ModeInv' /\ \A u \in Thread \ {t} : mode'[u] = mode[u]
         /\ \A u \in Thread \ {t} : EffortOf(u)' = EffortOf(u)
         /\ \/ EffortOf(t)' > EffortOf(t)
            \/ /\ pc[t] \in Polls /\ (Unlock(t) \/ PollFails(t))
               /\ UNCHANGED <<build, pc, regs>> /\ EffortOf(t)' = EffortOf(t)
<1> USE DEF ExchangeInv, TypeInv
<1>b. build' = build
  BY DEF Run
<1>T. TypeOK' /\ pc' \in [Thread -> Label]
  <2>1. ExchangeInv'
    BY ExchangeStep DEF Next
  <2>2. QED
    BY <2>1 DEF TypeOK
<1>1. CASE Lock(t) \/ Unlock(t) \/ PollFails(t)
  <2>1. /\ ModeInv' /\ UNCHANGED <<pc, regs>>
        /\ \A u \in Thread \ {t} : mode'[u] = mode[u]
        /\ \/ LockRank(t)' > LockRank(t)
           \/ /\ pc[t] \in Polls /\ (Unlock(t) \/ PollFails(t))
              /\ LockRank(t)' = LockRank(t)
    BY <1>b, <1>1, LockMoves
  <2>2. Alone(t) /\ UNCHANGED <<part[t], Reached(t)>>
    BY <2>1 DEF Alone, regs, Reached, Round, Serves
  <2>3. /\ LockRank(t)' > LockRank(t) => EffortOf(t)' > EffortOf(t)
        /\ LockRank(t)' = LockRank(t) => EffortOf(t)' = EffortOf(t)
    <3> DEFINE a == Reached(t)
               x == LockRank(t)
               y == LockRank(t)'
    <3>1. EffortOf(t) = 9 * a + 3 * (part[t] - 1) + x /\ EffortOf(t)' = 9 * a + 3 * (part[t] - 1) + y
      BY <2>2 DEF EffortOf
    <3>2. a \in Nat /\ x \in Nat /\ y \in Nat /\ part[t] \in 1..3
      BY ReachedRange, RankRange, Basics DEF Thread, LockRank
    <3> HIDE DEF a, x, y
    <3>3. (y > x => EffortOf(t)' > EffortOf(t)) /\ (y = x => EffortOf(t)' = EffortOf(t))
      BY <3>1, <3>2
    <3>4. QED
      BY <3>3 DEF x, y
  <2>4. \A u \in Thread \ {t} : EffortOf(u)' = EffortOf(u)
    BY <1>b, <2>2, OthersRest
  <2>5. QED
    BY <1>b, <2>1, <2>3, <2>4
<1>2. CASE (t = "mst" /\ MstStep) \/ (t = "slv" /\ SlvStep) \/ (t = "hdl" /\ HdlStep)
  <2>1. ModeInv' /\ Alone(t) /\ (StoresPart(t) \/ Advances(t))
    BY <1>b, <1>T, <1>2, MstMoves, SlvMoves, HdlMoves
  <2>2. EffortOf(t)' > EffortOf(t) /\ \A u \in Thread \ {t} : EffortOf(u)' = EffortOf(u)
    BY <1>b, <1>T, <2>1, MoverGains, OthersRest
  <2>3. QED
    BY <2>1, <2>2 DEF Alone
<1>3. QED
  BY <1>1, <1>2 DEF Run

(* ... and so it raises the effort of all, or is a turn of a poll.         *)
LEMMA EffortStep ==
  ASSUME ExchangeInv, ModeInv, NEW t \in Thread, Run(t)
  PROVE  /\ ModeInv' /\ \A u \in Thread \ {t} : mode'[u] = mode[u]
         /\ Effort' > Effort \/ PollTurn(t)
<1> USE DEF ExchangeInv, TypeInv
<1>T. TypeOK'
  <2>1. ExchangeInv'
    BY ExchangeStep DEF Next
  <2>2. QED
    BY <2>1 DEF TypeOK
<1>2. EffortOf("mst") \in Nat /\ EffortOf("slv") \in Nat /\ EffortOf("hdl") \in Nat
  BY EffortRange DEF Thread
<1>3. \A u \in Thread : EffortOf(u)' \in Nat
  <2>1. (TypeOK => EffortsNat)'
    BY EffortNat, PTL
  <2>2. QED
    BY <1>T, <2>1 DEF EffortsNat
<1> DEFINE a == EffortOf("mst")
           b == EffortOf("slv")
           c == EffortOf("hdl")
           d == EffortOf("mst")'
           e == EffortOf("slv")'
           f == EffortOf("hdl")'
<1>4. Effort = a + b + c /\ Effort' = d + e + f
  BY DEF Effort
<1>6. a \in Nat /\ b \in Nat /\ c \in Nat /\ d \in Nat /\ e \in Nat /\ f \in Nat
  BY <1>2, <1>3 DEF Thread
<1>7. CASE EffortOf(t)' > EffortOf(t)
  <2>1. \/ d > a /\ e = b /\ f = c
        \/ d = a /\ e > b /\ f = c
        \/ d = a /\ e = b /\ f > c
    BY <1>7, ThreadGains DEF Thread
  <2>2. d + e + f > a + b + c
    <3> HIDE DEF a, b, c, d, e, f
    <3> QED BY <1>6, <2>1
  <2>3. QED
    BY <1>4, <2>2, ThreadGains
<1>8. CASE ~(EffortOf(t)' > EffortOf(t))
  <2>1. /\ pc[t] \in Polls /\ (Unlock(t) \/ PollFails(t))
        /\ UNCHANGED <<build, pc, regs>> /\ EffortOf(t)' = EffortOf(t)
    BY <1>8, ThreadGains
  <2>2. d = a /\ e = b /\ f = c
    BY <2>1, ThreadGains DEF Thread
  <2>3. Effort' = Effort
    BY <1>4, <2>2
  <2>4. QED
    BY <2>1, <2>3, ThreadGains DEF PollTurn
<1>9. QED
  BY <1>7, <1>8

LEMMA InitMode == Init => ModeInv
  BY DEF Init, ModeInv, Thread, SwitchWrites, OutsideOnly

(* One thread at most is in the ctx_lock section, and where a build has    *)
(* one, a thread is outside of it only to access a register or to wait for *)
(* an interrupt, or when it has ended.                                     *)
THEOREM SectionIsExclusive == Spec => []ModeInv
<1>1. ExchangeInv /\ ModeInv /\ [Next]_vars => ModeInv'
  <2>1. CASE Next
    BY <2>1, EffortStep DEF Next
  <2>2. CASE UNCHANGED vars
    BY <2>2 DEF vars, ModeInv, CtxLock, SwitchWrites, PorOpt
  <2>3. QED
    BY <2>1, <2>2
<1>2. QED
  BY <1>1, InitMode, ExchangeInvariant, PTL DEF Spec

(* The three programs are short in every build, whatever the scheduler     *)
(* does: only a poll that fails, which leaves the section and enters it    *)
(* again, can be repeated. Every other step takes its thread further for   *)
(* good, and there are at most EffortLimit of them.                        *)
THEOREM OnlyPollsRepeat == Spec => EffortGrows /\ []EffortBounded
<1>1. ExchangeInv /\ ModeInv /\ [Next]_vars =>
        [Effort' > Effort \/ \E t \in Thread : PollTurn(t)]_vars
  BY EffortStep DEF Next
<1>2. ExchangeInv => EffortBounded
  BY EffortRange DEF ExchangeInv, TypeInv
<1>3. QED
  BY <1>1, <1>2, ExchangeInvariant, SectionIsExclusive, PTL DEF Spec, EffortGrows

(* Under FAB_LOCK a doorbell and its mirror change together.               *)
LEMMA MirrorTogether ==
  ASSUME TypeOK, MirrorInv, build' = build, NEW t, NEW d \in Dir, NEW val, NEW next,
         WriteDoorbell(t, d, val, next)
  PROVE  MirrorInv'
<1> SUFFICES ASSUME FabLock PROVE dbm' = db'
  BY DEF MirrorInv, FabLock
<1>1. dbm' = [dbm EXCEPT ![d] = val] /\ db' = [db EXCEPT ![d] = val]
  BY DEF WriteDoorbell, StoreDoorbell
<1>2. QED
  BY <1>1 DEF MirrorInv

LEMMA MirrorKeeps ==
  ASSUME TypeOK, MirrorInv, Next
  PROVE  MirrorInv'
<1>b. build' = build
  BY DEF Next, Run
<1>d. "mst2slv" \in Dir /\ "slv2mst" \in Dir
  BY DEF Dir
<1>u. UNCHANGED <<db, dbm>> => MirrorInv'
  BY <1>b DEF MirrorInv, FabLock
<1>1. CASE MstStep
  <2>1. CASE MstRing \/ MstAck
    BY <1>b, <1>d, <2>1, MirrorTogether DEF MstRing, MstAck
  <2>2. CASE \/ MstAwaitFree \/ MstWriteData \/ MstAwaitNoInt \/ MstPoll \/ MstReadDoorbell
             \/ MstReadData \/ MstPrepareImage \/ MstReturn
    BY <1>u, <2>2 DEF MstAwaitFree, MstWriteData, MstAwaitNoInt, MstPoll, MstReadDoorbell,
       MstReadData, MstPrepareImage, MstReturn, regs, fab
  <2>3. QED
    BY <1>1, <2>1, <2>2 DEF MstStep
<1>2. ASSUME NEW t \in Sender, Send(t) PROVE MirrorInv'
  <2>1. CASE SendRing(t)
    BY <1>b, <1>d, <2>1, MirrorTogether DEF SendRing
  <2>2. CASE \/ SendAwaitIdle(t) \/ SendCopy(t) \/ SendSetBusy(t) \/ SendSetCmd(t)
             \/ SendAwaitFree(t) \/ SendWriteData(t) \/ SendClearBusy(t)
    BY <1>u, <2>2 DEF SendAwaitIdle, SendCopy, SendSetBusy, SendSetCmd, SendAwaitFree,
       SendWriteData, SendClearBusy, regs, fab
  <2>3. QED
    BY <1>2, <2>1, <2>2 DEF Send
<1>3. CASE SlvStep
  <2>1. CASE SlvAwaitImage \/ SlvPrepareDone \/ SlvReturn
    BY <1>u, <2>1 DEF SlvAwaitImage, SlvPrepareDone, SlvReturn, regs, fab
  <2>2. QED
    BY <1>2, <1>3, <2>1 DEF SlvStep, Sender
<1>4. CASE HdlStep
  <2>1. CASE HdlAck
    BY <1>b, <1>d, <2>1, MirrorTogether DEF HdlAck
  <2>2. CASE \/ HdlAwaitInt \/ HdlCheckInt \/ HdlReadDoorbell \/ HdlReadData
             \/ HdlGetMbCtx \/ HdlHandleCmd \/ HdlSetReady \/ HdlClearInt
    BY <1>u, <2>2 DEF HdlAwaitInt, HdlCheckInt, HdlReadDoorbell, HdlReadData, HdlGetMbCtx,
       HdlHandleCmd, HdlSetReady, HdlClearInt, regs, fab
  <2>3. QED
    BY <1>2, <1>4, <2>1, <2>2 DEF HdlStep, Sender
<1>5. CASE UNCHANGED <<pc, regs>>
  BY <1>u, <1>5 DEF regs, fab
<1>6. QED
  BY <1>1, <1>3, <1>4, <1>5 DEF Next, Run, Lock, Unlock, PollFails

(* The message buffer is marked busy and free by one sender at a time.     *)
LEMMA SendBusy ==
  ASSUME ExchangeInv, BusyInv, NEW t \in Sender, Send(t)
  PROVE  BusyInv'
<1> USE Basics DEF ExchangeInv, TypeInv
<1>t. t \in Thread /\ t \in {"slv", "hdl"} /\ "X_idle" \in Label
  BY DEF Sender, Thread, Label
<1>m. mb \in [busy : {0, 1}, R_CMD : Nat, R_SIZE : Byte, R_DAT0 : Nat, R_DAT1 : Nat,
                             S_CMD : Nat, S_SIZE : Byte, S_DAT0 : Nat, S_DAT1 : Nat]
  BY DEF TypeOK
<1>o. \A u \in Thread \ {t} : pc'[u] = pc[u]
  BY SendLeaves
<1>a. \A u \in Sender \ {t} : pc[u] \notin HasBuffer
  <2>1. pc[t] \in Sending
    BY SendLeaves
  <2>2. QED
    BY <2>1, <1>t, SenderAlone DEF Data, Sender, HasBuffer, Sending
<1>p. /\ BusyInv  <=> mb.busy = Count(pc[t] \in HasBuffer)
      /\ BusyInv' <=> mb'.busy = Count(pc'[t] \in HasBuffer)
  BY <1>t, <1>o, <1>a DEF BusyInv, Sender, Count, Thread
<1>1. CASE SendRing(t)
  <2>1. pc[t] = "X_db" /\ UNCHANGED mb
    BY <1>1 DEF SendRing
  <2>2. (FabLock => part[t] = 1) /\ part[t] \in {1, 2}
    BY <1>t, <2>1 DEF Core, PlaceInv
  <2>3. pc'[t] \in {"X_db", "X_idle"}
    BY <1>1, <1>t, <2>1, <2>2, ReplyEffect DEF SendRing
  <2>4. QED
    BY <1>p, <2>1, <2>3 DEF HasBuffer
<1>2. CASE SendSetBusy(t)
  <2>1. pc'[t] = "X_cmd" /\ mb'.busy = 1
    BY <1>2, <1>t, <1>m, GotoEffect DEF SendSetBusy
  <2>2. QED
    BY <1>p, <2>1 DEF HasBuffer, Count
<1>3. CASE SendClearBusy(t)
  <2>1. pc'[t] = AfterSend(t) /\ mb'.busy = 0
    BY <1>3, <1>t, <1>m, GotoEffect DEF SendClearBusy
  <2>2. QED
    BY <1>p, <2>1 DEF HasBuffer, Count, AfterSend
<1>4. CASE SendAwaitIdle(t) \/ SendCopy(t) \/ SendSetCmd(t) \/ SendAwaitFree(t) \/ SendWriteData(t)
  <2>1. mb'.busy = mb.busy
    BY <1>4, <1>m DEF SendAwaitIdle, SendCopy, SendSetCmd, SendAwaitFree, SendWriteData, regs
  <2>2. pc'[t] \in HasBuffer <=> pc[t] \in HasBuffer
    <3>1. /\ SendAwaitIdle(t) => pc[t] = "X_busy"
          /\ SendCopy(t) => pc[t] \in {"X_d0", "X_d1", "X_sz"}
          /\ SendSetCmd(t) => pc[t] = "X_cmd"
          /\ SendAwaitFree(t) => pc[t] = "X_dbm"
          /\ SendWriteData(t) => pc[t] \in {"X_w0", "X_w1"}
      BY DEF SendAwaitIdle, SendCopy, SendSetCmd, SendAwaitFree, SendWriteData
    <3>2. QED
      BY <1>4, <3>1, SendTable DEF SendMove, HasBuffer
  <2>3. QED
    BY <1>p, <2>1, <2>2
<1>5. QED
  BY <1>1, <1>2, <1>3, <1>4 DEF Send

LEMMA BusyKeeps ==
  ASSUME ExchangeInv, BusyInv, Next
  PROVE  BusyInv'
<1> USE Basics DEF ExchangeInv, TypeInv
<1>m. mb \in [busy : {0, 1}, R_CMD : Nat, R_SIZE : Byte, R_DAT0 : Nat, R_DAT1 : Nat,
                             S_CMD : Nat, S_SIZE : Byte, S_DAT0 : Nat, S_DAT1 : Nat]
  BY DEF TypeOK
<1>u. ASSUME mb'.busy = mb.busy,
             pc'["slv"] \in HasBuffer <=> pc["slv"] \in HasBuffer,
             pc'["hdl"] \in HasBuffer <=> pc["hdl"] \in HasBuffer
      PROVE  BusyInv'
  BY <1>u DEF BusyInv, Count
<1>1. CASE MstStep
  BY <1>1, <1>u, MstLeaves
<1>2. CASE SlvStep
  <2>1. CASE SlvAwaitImage \/ SlvPrepareDone \/ SlvReturn
    BY <1>u, <2>1, SlvTable DEF SendMove, HdlStays, HasBuffer
  <2>2. QED
    BY <1>2, <2>1, SendBusy DEF SlvStep, Sender
<1>3. CASE HdlStep
  <2>0. pc'["slv"] = pc["slv"]
    BY <1>3, HdlLeaves
  <2>1. CASE HdlAck
    <3>1. (FabLock => part["hdl"] = 1) /\ "hdl" \in Thread /\ "H_get" \in Label
      BY DEF Core, PlaceInv, Thread, Label
    <3>2. pc["hdl"] = "H_ack" /\ pc'["hdl"] \in {"H_ack", "H_get"} /\ UNCHANGED mb
      BY <2>1, <3>1, RingEffect DEF HdlAck
    <3>3. QED
      BY <1>u, <2>0, <3>2 DEF HasBuffer
  <2>2. CASE HdlClearInt
    <3>1. pc["hdl"] = "H_clr" /\ pc'["hdl"] \in {"H_wait", "done"} /\ UNCHANGED mb
      BY <2>2, GotoEffect DEF HdlClearInt, AfterCall, Thread
    <3>2. QED
      BY <1>u, <2>0, <3>1 DEF HasBuffer
  <2>3. CASE \/ HdlAwaitInt \/ HdlCheckInt \/ HdlReadDoorbell \/ HdlReadData
             \/ HdlGetMbCtx \/ HdlHandleCmd \/ HdlSetReady
    <3>1. mb'.busy = mb.busy
      BY <1>m, <2>3 DEF HdlAwaitInt, HdlCheckInt, HdlReadDoorbell, HdlReadData, HdlGetMbCtx,
         HdlHandleCmd, HdlSetReady, regs
    <3>2. pc["hdl"] \notin HasBuffer /\ pc'["hdl"] \notin HasBuffer
      BY <2>3, HdlTable DEF HdlMove, HasBuffer
    <3>3. QED
      BY <1>u, <2>0, <3>1, <3>2
  <2>4. QED
    BY <1>3, <2>1, <2>2, <2>3, SendBusy DEF HdlStep, Sender
<1>4. CASE UNCHANGED <<pc, regs>>
  BY <1>4, <1>u DEF regs
<1>5. QED
  BY <1>1, <1>2, <1>3, <1>4 DEF Next, Run, Lock, Unlock, PollFails

(* The lock, the mirrors and the busy bit always tell the truth.           *)
LEMMA LockInvariant == Spec => []LockInv
<1>1. Init => MirrorInv /\ BusyInv
  BY DEF Init, MirrorInv, BusyInv, Count, HasBuffer
<1>2. ExchangeInv /\ MirrorInv /\ BusyInv /\ [Next]_vars => (MirrorInv /\ BusyInv)'
  <2>1. CASE Next
    BY <2>1, MirrorKeeps, BusyKeeps DEF ExchangeInv, TypeInv
  <2>2. CASE UNCHANGED vars
    BY <2>2 DEF vars, regs, fab, MirrorInv, BusyInv, FabLock, Count
  <2>3. QED
    BY <2>1, <2>2
<1>3. QED
  BY <1>1, <1>2, ExchangeInvariant, SectionIsExclusive, PTL DEF Spec, LockInv

(* No sender ever waits for the message buffer.                            *)
LEMMA BufferIsFree ==
  ASSUME ExchangeInv, BusyInv, NEW t \in Thread, pc[t] = "X_busy"
  PROVE  WaitOver(t)
<1>1. TypeOK /\ Core /\ FlagInv
  BY DEF ExchangeInv, TypeInv, Data
<1>2. t \in {"slv", "hdl"}
  BY <1>1 DEF Core, PlaceInv, Thread, Rung
<1>3. pc["slv"] \notin HasBuffer /\ pc["hdl"] \notin HasBuffer
  BY <1>1, <1>2, SenderAlone DEF Sending, HasBuffer
<1>4. QED
  BY <1>3 DEF BusyInv, Count, WaitOver

(* The waits of the three threads never form a circle: unless all have     *)
(* ended, one is not waiting or its wait is over.                          *)
LEMMA WaitsEnd ==
  ASSUME ExchangeInv, MirrorInv, BusyInv, FabLock, ~AllDone
  PROVE  \E t \in Thread : pc[t] # "done" /\ MayGoOn(t)
<1> USE Basics, CountType DEF ExchangeInv, TypeInv, Core, Data
<1>t. Thread = {"mst", "slv", "hdl"}
  BY DEF Thread
<1> SUFFICES ASSUME \A t \in Thread : pc[t] # "done" => pc[t] \in Spins /\ ~WaitOver(t)
             PROVE  FALSE
  BY DEF MayGoOn
<1>p. /\ part["mst"] = 1 /\ part["slv"] = 1 /\ part["hdl"] = 1
      /\ dbm = db
  BY DEF PlaceInv, MirrorInv
<1>m. pc["mst"] \in {"M_send", "M_int", "M_poll", "done"}
  BY <1>t DEF PlaceInv, Spins, Rung
<1>b. \A t \in Thread : pc[t] # "X_busy"
  BY <1>t, BufferIsFree DEF Spins
(* where a thread can still be waiting                                     *)
<1>s. pc["slv"] \in {"S_wait", "X_dbm", "done"}
  BY <1>t, <1>b DEF PlaceInv, Spins, Sending, Acked
<1>h. pc["hdl"] \in {"H_wait", "X_dbm", "done"}
  BY <1>t, <1>b DEF PlaceInv, Spins, Sending, Acked
(* what each wait that is not over says of the counts                      *)
<1>1. pc["mst"] # "M_send"
  <2>1. ASSUME pc["mst"] = "M_send" PROVE Rings = Answers
    BY <2>1 DEF Rings, Answers, Rung, Count
  <2>2. ASSUME pc["mst"] = "M_send" PROVE db["mst2slv"] = 0
    BY <2>1, <2>2 DEF OrderInv, DoorbellInv
  <2>3. QED
    BY <1>t, <1>p, <2>2 DEF WaitOver
<1>2. pc["mst"] = "M_int" => Raises = Answers /\ Raises = Serves + 1
  <2>1. ASSUME pc["mst"] = "M_int" PROVE Raises = Answers
    BY <2>1 DEF Raises, Answers, Rung, Count
  <2>2. ASSUME pc["mst"] = "M_int" PROVE slvInt = 1
    BY <1>t, <2>2 DEF WaitOver
  <2>3. QED
    BY <2>1, <2>2 DEF OrderInv
<1>3. pc["mst"] = "M_poll" => Replies = Answers /\ Raises = Answers + 1
  <2>1. ASSUME pc["mst"] = "M_poll" PROVE Raises = Answers + 1
    BY <2>1 DEF Raises, Answers, Rung, Count
  <2>2. ASSUME pc["mst"] = "M_poll" PROVE db["slv2mst"] = 0
    BY <1>t, <2>2 DEF WaitOver
  <2>3. ASSUME Replies > Answers PROVE db["slv2mst"] # 0
    BY <2>3, DoorbellCarries DEF DoorbellInv
  <2>4. QED
    BY <2>1, <2>2, <2>3 DEF OrderInv
<1>4. pc["mst"] = "done" => Answers = 2 /\ Replies = 2
  <2>1. ASSUME pc["mst"] = "done" PROVE Answers = 2
    BY <2>1 DEF Answers, Count, PlaceInv
  <2>2. QED
    BY <2>1 DEF OrderInv
<1>5. pc["hdl"] = "H_wait" => Raises = Serves /\ Acks = Serves
  <2>1. ASSUME pc["hdl"] = "H_wait" PROVE Acks = Serves
    BY <2>1 DEF Acks, Acked, Sending, Count
  <2>2. ASSUME pc["hdl"] = "H_wait" PROVE slvInt = 0
    BY <1>t, <2>2 DEF WaitOver
  <2>3. QED
    BY <2>1, <2>2 DEF OrderInv
<1>6. pc["hdl"] = "X_dbm" \/ pc["slv"] = "X_dbm" => Replies > Answers
  <2>1. ASSUME pc["hdl"] = "X_dbm" \/ pc["slv"] = "X_dbm" PROVE db["slv2mst"] # 0
    BY <1>t, <1>p, <2>1 DEF WaitOver
  <2>2. QED
    BY <2>1 DEF DoorbellInv
<1>7. pc["slv"] = "S_wait" => calls > 0
  <2>1. ASSUME pc["slv"] = "S_wait" PROVE flag.RDY = 0
    BY <1>t, <2>1 DEF WaitOver, TypeOK
  <2>2. QED
    BY <2>1 DEF FlagInv, Ready, Count
<1>8. pc["hdl"] = "done" => Serves = 2 /\ calls = 0 /\ Raises = 2
  <2>1. ASSUME pc["hdl"] = "done" PROVE calls = 0 /\ Serves = 2
    BY <2>1 DEF PlaceInv, Serves
  <2>2. ASSUME pc["hdl"] = "done" PROVE Acks = 2
    BY <2>1, <2>2 DEF Acks, Acked, Sending, Count
  <2>3. QED
    BY <2>1, <2>2 DEF OrderInv
<1>9. Serves >= 1 => HdlReplied
  BY DEF Serves, HdlReplied
<1>10. HdlReplied \/ ~HdlReplied => Replies = Count(HdlReplied) + Count(SlvReplied)
  BY DEF Replies
<1>11. CASE pc["mst"] = "M_int"
  <2>1. Replies = Answers /\ Acks = Raises
    BY <1>2, <1>11 DEF OrderInv
  <2>2. pc["hdl"] # "H_wait" /\ pc["hdl"] # "X_dbm" /\ pc["hdl"] # "done"
    BY <1>2, <1>5, <1>6, <1>8, <1>11, <2>1
  <2>3. QED
    BY <1>h, <2>2
<1>12. CASE pc["mst"] = "M_poll"
  <2>1. pc["hdl"] # "X_dbm" /\ pc["slv"] # "X_dbm"
    BY <1>3, <1>6, <1>12
  <2>2. Serves = Raises
    BY <1>5, <1>8, <1>h, <2>1
  <2>3. Serves >= 1 /\ HdlReplied
    BY <1>3, <1>9, <1>12, <2>2
  <2>4. Replies >= 1
    BY <2>3, <1>10 DEF Count
  <2>5. Serves = 2 /\ calls = 0
    BY <1>3, <1>12, <2>2, <2>4 DEF Serves
  <2>6. pc["slv"] = "done"
    BY <1>7, <1>s, <2>1, <2>5
  <2>7. Replies = 2
    BY <1>10, <2>3, <2>6 DEF SlvReplied, Count
  <2>8. QED
    BY <1>3, <1>12, <2>7
<1>13. CASE pc["mst"] = "done"
  <2>1. HdlReplied /\ SlvReplied
    BY <1>4, <1>10, <1>13 DEF Count
  <2>2. pc["slv"] = "done"
    BY <1>p, <1>s, <2>1 DEF SlvReplied, Stored, AfterSend
  <2>3. pc["hdl"] = "done"
    BY <1>h, <2>2, SenderAlone
  <2>4. QED
    BY <1>t, <1>13, <2>2, <2>3 DEF AllDone
<1>14. QED
  BY <1>m, <1>1, <1>11, <1>12, <1>13

(* A thread in the section can go on or leave it, and when nobody is in,   *)
(* a thread whose wait is over can go on or get in.                        *)
LEMMA SomeoneCanStep ==
  ASSUME ExchangeInv, LockInv
  PROVE  NeverStuck
<1> SUFFICES ASSUME Running
             PROVE  /\ \E t \in Thread : Able(t)
                    /\ \A t \in Thread : mode[t] = "in" => CanStep(t)
                    /\ Free => \A t \in Thread : Able(t) => CanStep(t)
  BY DEF NeverStuck
<1>0. TypeOK /\ Core /\ FlagInv /\ ModeInv /\ MirrorInv /\ BusyInv
  BY DEF ExchangeInv, TypeInv, Data, LockInv
<1>m. mode \in [Thread -> {"in", "out", "want"}]
  BY <1>0 DEF TypeOK
<1>1. \E t \in Thread : Able(t)
  BY <1>0, WaitsEnd DEF Able, Running
<1>2. ASSUME NEW t \in Thread, mode[t] = "in" PROVE CanStep(t)
  <2>2. MayRun(t) /\ CtxLock
    BY <1>0, <1>2 DEF MayRun, ModeInv
  <2>3. pc[t] \notin OutsideOnly
    BY <1>0, <1>2, <2>2 DEF ModeInv
  <2>4. MayGoOn(t) \/ pc[t] \in SwitchReads \cup SwitchWrites
    <3> SUFFICES ASSUME pc[t] \in Spins, pc[t] \notin SwitchReads \cup SwitchWrites
                 PROVE  WaitOver(t)
      BY DEF MayGoOn
    <3>1. pc[t] = "S_wait" \/ pc[t] = "X_busy"
      BY <2>3 DEF Spins, SwitchReads, SwitchWrites, OutsideOnly
    <3>2. CASE pc[t] = "S_wait"
      <4>1. t = "slv"
        BY <1>0, <3>2 DEF Core, PlaceInv, Thread, Rung, Acked, Sending
      <4>2. QED
        BY <1>2, <2>2, <3>2, <4>1 DEF Running, SlaveInFirst, WaitOver
    <3>3. QED
      BY <1>0, <3>1, <3>2, BufferIsFree
  <2>5. QED
    BY <1>2, <2>2, <2>3, <2>4 DEF CanStep, OutsideOnly
<1>3. ASSUME Free, NEW t \in Thread, Able(t) PROVE CanStep(t)
  <2>1. MayRun(t) /\ mode[t] # "in"
    BY <1>3 DEF MayRun, Free
  <2>2. QED
    BY <1>3, <2>1 DEF CanStep, Able
<1>4. QED
  BY <1>1, <1>2, <1>3

(* In every build with FAB_LOCK, until all three threads have ended or the *)
(* slave firmware spins inside the section on a flag that is not set, some *)
(* thread waits for nothing but the section, the thread in the section can *)
(* go on or leave it, and when it is free the one that asks gets in:       *)
(* neither the spins nor the lock deadlock.                                *)
THEOREM ThreadsNeverBlock == Spec => []NeverStuck
<1>1. ExchangeInv /\ LockInv => NeverStuck
  BY SomeoneCanStep
<1>2. QED
  BY <1>1, ExchangeInvariant, LockInvariant, PTL

(* What a thread waits for depends on where the threads are.               *)
LEMMA AbleStays ==
  ASSUME UNCHANGED <<pc, regs>>, NEW t \in Thread
  PROVE  Able(t)' <=> Able(t)
<1>1. UNCHANGED WaitOver(t)
  BY DEF regs, fab, WaitOver
<1>2. QED
  BY <1>1 DEF Able, MayGoOn

(* A step of a thread in the section that raises nothing leaves it, and a  *)
(* thread that is able raises the effort when it steps from outside.       *)
LEMMA AbleGains ==
  ASSUME ExchangeInv, ModeInv, NEW t \in Thread, Run(t), ~(Effort' > Effort)
  PROVE  \/ mode[t] = "in" /\ mode'[t] # "in"
         \/ mode[t] # "in" /\ ~Able(t)
<1>1. pc[t] \in Polls /\ (Unlock(t) \/ PollFails(t))
  BY EffortStep DEF PollTurn
<1>2. mode \in [Thread -> {"in", "out", "want"}]
  BY DEF ExchangeInv, TypeInv, TypeOK
<1>3. CASE Unlock(t)
  BY <1>2, <1>3 DEF Unlock
<1>4. CASE PollFails(t)
  BY <1>1, <1>4 DEF PollFails, Able, MayGoOn, Polls, Spins
<1>5. QED
  BY <1>1, <1>3, <1>4
(* Every step but a turn of a poll raises the effort, and with a strongly  *)
(* fair scheduler polls cannot keep the section from the others: the       *)
(* threads come nearer their end until they reach it or the slave firmware *)
(* spins inside the section; as the effort is bounded, this is the step of *)
(* Completes.                                                              *)
THEOREM ThreadsComeNearer ==
  ASSUME NEW n \in Nat
  PROVE  Spec /\ StepsTaken =>
           ((Running /\ Effort = n) ~> (Effort > n \/ ~Running))
<1> DEFINE Inv == ExchangeInv /\ LockInv
           P == Running /\ Effort = n
           Q == Effort > n \/ ~Running
           Wm == Able("mst")
           Ws == Able("slv")
           Wh == Able("hdl")
           Cm == CanStep("mst")
           Cs == CanStep("slv")
           Ch == CanStep("hdl")
           Im == mode["mst"] = "in"
           Is == mode["slv"] = "in"
           Ih == mode["hdl"] = "in"
           A == Run("mst")
           B == Run("slv")
           C == Run("hdl")
<1>t. Thread = {"mst", "slv", "hdl"}
  BY DEF Thread
<1>1. Inv /\ P => Wm \/ Ws \/ Wh
  BY <1>t, SomeoneCanStep DEF NeverStuck
<1>2. Inv /\ P => (Im => Cm) /\ (Is => Cs) /\ (Ih => Ch)
  BY <1>t, SomeoneCanStep DEF NeverStuck
<1>3. Inv /\ P /\ ~Im /\ ~Is /\ ~Ih => (Wm => Cm) /\ (Ws => Cs) /\ (Wh => Ch)
  BY <1>t, SomeoneCanStep DEF NeverStuck, Free
<1>4. Inv => ~(Im /\ Is) /\ ~(Im /\ Ih) /\ ~(Is /\ Ih)
  BY <1>t DEF LockInv, ModeInv
<1>5. Inv /\ P /\ [Next]_vars => \/ Q'
                                 \/ P' /\ (Wm' <=> Wm) /\ (Ws' <=> Ws) /\ (Wh' <=> Wh)
  <2> SUFFICES ASSUME Inv, P, [Next]_vars
               PROVE  Q' \/ (P' /\ (Wm' <=> Wm) /\ (Ws' <=> Ws) /\ (Wh' <=> Wh))
    OBVIOUS
  <2>1. CASE \E t \in Thread : Run(t) /\ Effort' > Effort
    BY <2>1
  <2>2. CASE UNCHANGED <<build, pc, regs, Effort>>
    <3>1. (Wm' <=> Wm) /\ (Ws' <=> Ws) /\ (Wh' <=> Wh)
      BY <1>t, <2>2, AbleStays
    <3>2. Effort' = n
      BY <2>2
    <3>3. QED
      BY <3>1, <3>2
  <2>3. CASE UNCHANGED vars
    <3>1. UNCHANGED Effort
      BY <2>3 DEF vars, regs, Effort, EffortOf, Reached, Round, Serves, LockRank, SwitchReads, PorOpt
    <3>2. QED
      BY <2>2, <2>3, <3>1 DEF vars
  <2>4. QED
    BY <2>1, <2>2, <2>3, EffortStep DEF Next, LockInv, PollTurn
<1>6. ASSUME Inv, P, NEW t \in Thread, Run(t), ~Q'
      PROVE  \/ mode[t] = "in" /\ ~(mode'[t] = "in")
             \/ ~(mode[t] = "in") /\ ~Able(t)
  <2>1. ~(Effort' > Effort)
    BY <1>6
  <2>2. QED
    BY <1>6, <2>1, AbleGains DEF LockInv
<1>7. /\ Inv /\ P /\ <<A>>_vars => Q' \/ (Im /\ ~Im') \/ (~Im /\ ~Wm)
      /\ Inv /\ P /\ <<B>>_vars => Q' \/ (Is /\ ~Is') \/ (~Is /\ ~Ws)
      /\ Inv /\ P /\ <<C>>_vars => Q' \/ (Ih /\ ~Ih') \/ (~Ih /\ ~Wh)
  BY <1>t, <1>6
<1>8. /\ Inv /\ <<A>>_vars => (Is' <=> Is) /\ (Ih' <=> Ih)
      /\ Inv /\ <<B>>_vars => (Im' <=> Im) /\ (Ih' <=> Ih)
      /\ Inv /\ <<C>>_vars => (Im' <=> Im) /\ (Is' <=> Is)
      /\ [Next]_vars /\ ~<<A>>_vars /\ ~<<B>>_vars /\ ~<<C>>_vars =>
           (Im' <=> Im) /\ (Is' <=> Is) /\ (Ih' <=> Ih)
  <2>1. UNCHANGED vars => UNCHANGED mode
    BY DEF vars
  <2>2. /\ Inv /\ A => UNCHANGED <<mode["slv"], mode["hdl"]>>
        /\ Inv /\ B => UNCHANGED <<mode["mst"], mode["hdl"]>>
        /\ Inv /\ C => UNCHANGED <<mode["mst"], mode["slv"]>>
    BY <1>t, EffortStep DEF LockInv
  <2>3. Next => A \/ B \/ C
    BY <1>t DEF Next
  <2> HIDE DEF A, B, C, Inv
  <2>4. QED
    BY <2>1, <2>2, <2>3
<1>9. StepsTaken => /\ <>[]~Cm \/ []<><<A>>_vars
                    /\ <>[]~Cs \/ []<><<B>>_vars
                    /\ <>[]~Ch \/ []<><<C>>_vars
  BY DEF StepsTaken, StepTaken
<1>10. Spec => []Inv /\ [][Next]_vars
  BY ExchangeInvariant, LockInvariant, PTL DEF Spec
<1> DEFINE F == ~Im /\ ~Is /\ ~Ih
(* whoever is in the section leaves it                                     *)
<1>11. Spec /\ StepsTaken => (P /\ Im ~> Q \/ F)
  <2> HIDE DEF Inv, P, Q, Wm, Ws, Wh, Cm, Cs, Ch, Im, Is, Ih, A, B, C
  <2>1. QED
    BY <1>2, <1>4, <1>5, <1>7, <1>8, <1>9, <1>10, PTL
<1>12. Spec /\ StepsTaken => (P /\ Is ~> Q \/ F)
  <2> HIDE DEF Inv, P, Q, Wm, Ws, Wh, Cm, Cs, Ch, Im, Is, Ih, A, B, C
  <2>1. QED
    BY <1>2, <1>4, <1>5, <1>7, <1>8, <1>9, <1>10, PTL
<1>13. Spec /\ StepsTaken => (P /\ Ih ~> Q \/ F)
  <2> HIDE DEF Inv, P, Q, Wm, Ws, Wh, Cm, Cs, Ch, Im, Is, Ih, A, B, C
  <2>1. QED
    BY <1>2, <1>4, <1>5, <1>7, <1>8, <1>9, <1>10, PTL
<1>14. Spec /\ StepsTaken => (P ~> Q \/ F)
  <2> HIDE DEF Inv, P, Q, Im, Is, Ih
  <2>1. QED
    BY <1>11, <1>12, <1>13, PTL
(* so the one that is able can step again and again                        *)
<1>15. Spec /\ StepsTaken => (P /\ Wm ~> Q)
  <2> HIDE DEF Inv, P, Q, F, Wm, Ws, Wh, Cm, Cs, Ch, Im, Is, Ih, A, B, C
  <2>1. F /\ P /\ Inv /\ Wm => Cm
    BY <1>3 DEF F
  <2>2. QED
    BY <2>1, <1>5, <1>7, <1>8, <1>9, <1>10, <1>14, PTL
<1>16. Spec /\ StepsTaken => (P /\ Ws ~> Q)
  <2> HIDE DEF Inv, P, Q, F, Wm, Ws, Wh, Cm, Cs, Ch, Im, Is, Ih, A, B, C
  <2>1. F /\ P /\ Inv /\ Ws => Cs
    BY <1>3 DEF F
  <2>2. QED
    BY <2>1, <1>5, <1>7, <1>8, <1>9, <1>10, <1>14, PTL
<1>17. Spec /\ StepsTaken => (P /\ Wh ~> Q)
  <2> HIDE DEF Inv, P, Q, F, Wm, Ws, Wh, Cm, Cs, Ch, Im, Is, Ih, A, B, C
  <2>1. F /\ P /\ Inv /\ Wh => Ch
    BY <1>3 DEF F
  <2>2. QED
    BY <2>1, <1>5, <1>7, <1>8, <1>9, <1>10, <1>14, PTL
<1>18. Spec /\ StepsTaken => (P ~> Q)
  <2> HIDE DEF Inv, P, Q, Wm, Ws, Wh
  <2>1. QED
    BY <1>1, <1>10, <1>15, <1>16, <1>17, PTL
<1>19. QED
  BY <1>18
==============================================================================
