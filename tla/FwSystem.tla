------------------------------ MODULE FwSystem ------------------------------
(***************************************************************************)
(* The multi-firmware demo of others/fw-verif/demo-system: the master      *)
(* firmware (mst.c), the slave firmware (slv.c), its interrupt handler,    *)
(* the slave's message buffer (mb.c) and the fabric end point (fabric.c).  *)
(* main.c runs the first three as threads; every access to a register or   *)
(* a variable two threads share is a step of its own.                      *)
(***************************************************************************)
EXTENDS Integers, Sequences

CONSTANTS
  Builds,      \* the builds to consider: each is the set of -D flags given to cc
  MaxSramSize, \* MAX_SRAM_SIZE
  SlvBuffSize  \* the size handleCmd puts in a STATUS_REPLY

ASSUME SizeAssumption == MaxSramSize \in Nat /\ SlvBuffSize \in Nat

STATUS_REQUEST == 1
STATUS_REPLY   == 2
IMAGE_READY    == 3
IMAGE_DONE     == 4

Thread == {"mst", "slv", "hdl"}
Dir    == {"mst2slv", "slv2mst"}

VARIABLES
  build,  \* the flags this program was built with
  pc,     \* where each thread is
  mode,   \* "in" the ctx_lock section, "out" of it, or wants to get in
  db,     \* reg_msg_<d>_db per direction d, and likewise ...
  dbm,    \* ... reg_msg_<d>_dbm
  dat0,   \* ... reg_msg_<d>_dat0
  dat1,   \* ... reg_msg_<d>_dat1
  slvInt, \* reg_slv_int
  mb,     \* hw_reg_MB
  gMb,    \* gMbCtx: the slave firmware's copy of the MB messages
  flag,   \* gSlvFlag
  mst,    \* locals of mainMst: message number, received message, imgSize
  calls,  \* calls of intHdl that entryHdl still has to make
  part,   \* next store of a doorbell write that is not atomic
  failed, \* assertions that have failed
  sent,   \* history: messages whose doorbell was rung, per direction
  rcvd    \* history: messages acknowledged, as the receiver latched them

fab  == <<db, dbm, dat0, dat1>>
regs == <<fab, slvInt, mb, gMb, flag, mst, calls, part, failed, sent, rcvd>>
vars == <<build, pc, mode, regs>>

CtxLock == "CTX_LOCK" \in build \* firmware is a critical section left at registers
Mutex   == "MUTEX" \in build    \* the section is a mutex, not a verifier atomic block
PorOpt  == "POR_OPT" \in build  \* data registers are not context-switch points
FabLock == "FAB_LOCK" \in build \* a doorbell write is one atomic step

(* db = (cmd << 9) | (size << 1) | 1, for a size that fits its 8 bits.     *)
Doorbell(cmd, size) == cmd * 512 + size * 2 + 1
DbCmd(v)  == v \div 512
DbSizeUnmasked(v) == v \div 2 \* mutant: the command bits leak into the size
DbSize(v) == (v \div 2) % 256

Latched(cmd, size, d0, d1) ==
  [cmd |-> cmd, data |-> IF size = 0 THEN <<>> ELSE IF size = 1 THEN <<d0>> ELSE <<d0, d1>>]

Init ==
  /\ build \in Builds
  /\ pc = [mst |-> "M_send", slv |-> "S_wait", hdl |-> "H_wait"]
  /\ mode = [t \in Thread |-> IF CtxLock /\ t # "hdl" THEN "want" ELSE "out"]
  /\ db   = [d \in Dir |-> 0]
  /\ dbm  = [d \in Dir |-> 0]
  /\ dat0 = [d \in Dir |-> 0]
  /\ dat1 = [d \in Dir |-> 0]
  /\ slvInt = 0
  /\ mb = [busy |-> 0, R_CMD |-> 0, R_SIZE |-> 0, R_DAT0 |-> 0, R_DAT1 |-> 0,
                      S_CMD |-> 0, S_SIZE |-> 0, S_DAT0 |-> 0, S_DAT1 |-> 0]
  /\ gMb = [R_CMD |-> 0, R_SIZE |-> 0, R_DAT0 |-> 0, R_DAT1 |-> 0,
            S_CMD |-> 0, S_SIZE |-> 0, S_DAT0 |-> 0, S_DAT1 |-> 0]
  /\ flag = [RDY |-> 0, SIZE |-> 0]
  /\ mst = [msg |-> 1, cmd |-> 0, size |-> 0, dat0 |-> 0, dat1 |-> 0, imgSize |-> 0]
  /\ calls = 2
  /\ part = [t \in Thread |-> 1]
  /\ failed = {}
  /\ sent = [d \in Dir |-> <<>>]
  /\ rcvd = [d \in Dir |-> <<>>]

Goto(t, l) == pc' = [pc EXCEPT ![t] = l]

------------------------------------------------------------------------------
(* The context lock. A register access at a context-switch point leaves    *)
(* the section and enters it again: a read is done after re-entering, a    *)
(* write before. A poll that fails does the same and is back where it was. *)
(* The other spin loops touch no lock, so a turn of them changes nothing   *)
(* and they are guards.                                                    *)

DataReads  == {"M_rd0", "M_rd1", "H_r0", "H_r1"}
DataWrites == {"M_dat", "X_w0", "X_w1"}
SwitchReads ==
  {"M_send", "M_poll", "M_rdb", "X_dbm", "H_adb"} \cup (IF PorOpt THEN {} ELSE DataReads)
SwitchWrites ==
  {"M_int", "M_ack", "X_db", "H_ack"} \cup (IF PorOpt THEN {} ELSE DataWrites)

Free == \A t \in Thread : mode[t] # "in"

(* A verifier atomic block stops every other thread, a mutex only those    *)
(* that ask for it.                                                        *)
MayRun(t) == Mutex \/ \A u \in Thread \ {t} : mode[u] # "in"

Lock(t) ==
  /\ mode[t] = "want" /\ Free /\ pc[t] \notin SwitchReads
  /\ mode' = [mode EXCEPT ![t] = "in"]
  /\ UNCHANGED <<pc, regs>>

Unlock(t) ==
  /\ MayRun(t) /\ mode[t] = "in" /\ pc[t] \in SwitchReads \cup SwitchWrites
  /\ mode' = [mode EXCEPT ![t] = IF pc[t] \in SwitchReads THEN "want" ELSE "out"]
  /\ UNCHANGED <<pc, regs>>

(* What the spin loop a thread is in waits for.                            *)
WaitOver(t) ==
  \/ pc[t] = "M_send" /\ dbm["mst2slv"] = 0
  \/ pc[t] = "M_int"  /\ slvInt = 0
  \/ pc[t] = "M_poll" /\ db["slv2mst"] # 0
  \/ pc[t] = "S_wait" /\ flag.RDY # 0
  \/ pc[t] = "H_wait" /\ slvInt # 0
  \/ pc[t] = "X_busy" /\ mb.busy = 0
  \/ pc[t] = "X_dbm"  /\ dbm["slv2mst"] = 0

(* The loops whose condition is a register read, which leaves the section. *)
Polls == {"M_send", "M_poll", "X_dbm"}

PollFails(t) ==
  /\ mode[t] = "want" /\ Free /\ pc[t] \in Polls /\ ~WaitOver(t)
  /\ mode' = [mode EXCEPT ![t] = "in"]
  /\ UNCHANGED <<pc, regs>>

Inside(t)  == MayRun(t) /\ (CtxLock => mode[t] = "in") /\ UNCHANGED mode
Outside(t) == MayRun(t) /\ (CtxLock => mode[t] = "out") /\ UNCHANGED mode
Leave(t)   == /\ MayRun(t) /\ (CtxLock => mode[t] = "in")
              /\ mode' = [mode EXCEPT ![t] = "out"]

SwitchRead(t) ==
  IF CtxLock THEN /\ mode[t] = "want" /\ Free
                  /\ mode' = [mode EXCEPT ![t] = "in"]
             ELSE UNCHANGED mode

SwitchWrite(t) ==
  IF CtxLock THEN /\ MayRun(t) /\ mode[t] = "out"
                  /\ mode' = [mode EXCEPT ![t] = "want"]
             ELSE UNCHANGED mode

DataRead(t)  == IF PorOpt THEN Inside(t) ELSE SwitchRead(t)
DataWrite(t) == IF PorOpt THEN Inside(t) ELSE SwitchWrite(t)

------------------------------------------------------------------------------
(* write_reg_msg_<d>_db(val): the doorbell, its mirror and, towards the    *)
(* slave, the interrupt, all at once under FAB_LOCK and one by one without.*)

Stores(d) == IF d = "mst2slv" THEN <<"db", "dbm", "int">> ELSE <<"db", "dbm">>

StoreDoorbell(t, d, val, next, atomic) ==
  LET done == atomic \/ part[t] >= Len(Stores(d))
      now  == IF atomic THEN {"db", "dbm", "int"} ELSE {Stores(d)[part[t]]}
  IN  /\ IF done THEN SwitchWrite(t) /\ Goto(t, next) ELSE Outside(t) /\ UNCHANGED pc
      /\ part' = [part EXCEPT ![t] = IF done THEN 1 ELSE @ + 1]
      /\ db' = IF "db" \in now THEN [db EXCEPT ![d] = val] ELSE db
      /\ dbm' = IF "dbm" \in now THEN [dbm EXCEPT ![d] = val] ELSE dbm
      /\ UNCHANGED <<dat0, dat1>>
      /\ slvInt' = IF d = "mst2slv" /\ "int" \in now THEN 1 ELSE slvInt
      /\ failed' = IF d = "mst2slv" /\ val # 0 /\ "db" \in now /\ slvInt # 0
                   THEN failed \cup {"fabric"} ELSE failed

(* mutant: a doorbell write is never atomic *)
WriteDoorbellSplit(t, d, val, next) == StoreDoorbell(t, d, val, next, FALSE)
WriteDoorbell(t, d, val, next) == StoreDoorbell(t, d, val, next, FabLock)

(* The history grows with the store to the doorbell register itself.       *)
Record(t, hist, d, m) ==
  IF part[t] = 1 THEN [hist EXCEPT ![d] = Append(@, m)] ELSE hist

------------------------------------------------------------------------------
(* Master firmware: mainMst, sendMsgMst2Slv, receiveMsgSlv2Mst.            *)

MstMsg == IF mst.msg = 1 THEN [cmd |-> STATUS_REQUEST, data |-> <<>>]
                         ELSE [cmd |-> IMAGE_READY, data |-> <<mst.imgSize>>]

MstAwaitFree ==
  /\ pc["mst"] = "M_send" /\ SwitchRead("mst")
  /\ dbm["mst2slv"] = 0
  /\ Goto("mst", IF MstMsg.data = <<>> THEN "M_int" ELSE "M_dat")
  /\ UNCHANGED regs

MstWriteData ==
  /\ pc["mst"] = "M_dat" /\ DataWrite("mst")
  /\ dat0' = [dat0 EXCEPT !["mst2slv"] = MstMsg.data[1]]
  /\ Goto("mst", "M_int")
  /\ UNCHANGED <<db, dbm, dat1, slvInt, mb, gMb, flag, mst, calls, part, failed, sent, rcvd>>

(* mutant: the doorbell does not wait for the interrupt line *)
MstAwaitNoIntSkipped ==
  /\ pc["mst"] = "M_int" /\ Outside("mst")
  /\ Goto("mst", "M_db")
  /\ UNCHANGED regs

MstAwaitNoInt ==
  /\ pc["mst"] = "M_int" /\ Outside("mst")
  /\ slvInt = 0
  /\ Goto("mst", "M_db")
  /\ UNCHANGED regs

MstRing ==
  /\ pc["mst"] = "M_db"
  /\ WriteDoorbell("mst", "mst2slv", Doorbell(MstMsg.cmd, Len(MstMsg.data)), "M_poll")
  /\ sent' = Record("mst", sent, "mst2slv", MstMsg)
  /\ UNCHANGED <<mb, gMb, flag, mst, calls, rcvd>>

MstPoll ==
  /\ pc["mst"] = "M_poll" /\ SwitchRead("mst")
  /\ db["slv2mst"] # 0
  /\ Goto("mst", "M_rdb")
  /\ UNCHANGED regs

MstReadDoorbell ==
  /\ pc["mst"] = "M_rdb" /\ SwitchRead("mst")
  /\ mst' = [mst EXCEPT !.cmd  = DbCmd(db["slv2mst"]),
                        !.size = DbSize(db["slv2mst"])]
  /\ Goto("mst", "M_rd0")
  /\ UNCHANGED <<fab, slvInt, mb, gMb, flag, calls, part, failed, sent, rcvd>>

MstReadData ==
  /\ pc["mst"] \in {"M_rd0", "M_rd1"} /\ DataRead("mst")
  /\ mst' = IF pc["mst"] = "M_rd0" THEN [mst EXCEPT !.dat0 = dat0["slv2mst"]]
                                   ELSE [mst EXCEPT !.dat1 = dat1["slv2mst"]]
  /\ Goto("mst", IF pc["mst"] = "M_rd0" THEN "M_rd1" ELSE "M_ack")
  /\ UNCHANGED <<fab, slvInt, mb, gMb, flag, calls, part, failed, sent, rcvd>>

MstAck ==
  /\ pc["mst"] = "M_ack"
  /\ WriteDoorbell("mst", "slv2mst", 0, "M_next")
  /\ rcvd' = Record("mst", rcvd, "slv2mst", Latched(mst.cmd, mst.size, mst.dat0, mst.dat1))
  /\ UNCHANGED <<mb, gMb, flag, mst, calls, sent>>

(* mutant: the reported size is used unchecked *)
MstPrepareImageUnchecked ==
  /\ pc["mst"] = "M_next" /\ mst.msg = 1 /\ Inside("mst")
  /\ mst' = [mst EXCEPT !.msg = 2, !.imgSize = mst.dat0]
  /\ Goto("mst", "M_send")
  /\ UNCHANGED <<fab, slvInt, mb, gMb, flag, calls, part, failed, sent, rcvd>>

(* After the status reply: choose the image size and send IMAGE_READY.     *)
MstPrepareImage ==
  /\ pc["mst"] = "M_next" /\ mst.msg = 1 /\ Inside("mst")
  /\ mst' = [mst EXCEPT !.msg = 2,
                        !.imgSize = IF mst.size >= 1 /\ mst.dat0 <= MaxSramSize
                                    THEN mst.dat0 ELSE MaxSramSize]
  /\ Goto("mst", "M_send")
  /\ UNCHANGED <<fab, slvInt, mb, gMb, flag, calls, part, failed, sent, rcvd>>

(* After IMAGE_DONE mainMst and then the thread end.                       *)
MstReturn ==
  /\ pc["mst"] = "M_next" /\ mst.msg = 2 /\ Leave("mst")
  /\ Goto("mst", "done")
  /\ UNCHANGED regs

------------------------------------------------------------------------------
(* sendMsgSlv2Mst and write_reg_MB_S_CMD, which it triggers, for the slave *)
(* firmware and for the interrupt handler.                                 *)

Sender == {"slv", "hdl"}
AfterSend(t) == IF t = "slv" THEN "S_ret" ELSE "H_clr"

SendAwaitIdle(t) ==
  /\ pc[t] = "X_busy" /\ Inside(t)
  /\ mb.busy = 0
  /\ Goto(t, "X_d0")
  /\ UNCHANGED regs

SendCopy(t) ==
  /\ pc[t] \in {"X_d0", "X_d1", "X_sz"} /\ Inside(t)
  /\ mb' = CASE pc[t] = "X_d0" -> [mb EXCEPT !.S_DAT0 = gMb.S_DAT0]
             [] pc[t] = "X_d1" -> [mb EXCEPT !.S_DAT1 = gMb.S_DAT1]
             [] pc[t] = "X_sz" -> [mb EXCEPT !.S_SIZE = gMb.S_SIZE]
  /\ Goto(t, CASE pc[t] = "X_d0" -> "X_d1"
               [] pc[t] = "X_d1" -> "X_sz"
               [] pc[t] = "X_sz" -> "X_bsy")
  /\ UNCHANGED <<fab, slvInt, gMb, flag, mst, calls, part, failed, sent, rcvd>>

SendSetBusy(t) ==
  /\ pc[t] = "X_bsy" /\ Inside(t)
  /\ mb' = [mb EXCEPT !.busy = 1]
  /\ Goto(t, "X_cmd")
  /\ UNCHANGED <<fab, slvInt, gMb, flag, mst, calls, part, failed, sent, rcvd>>

SendSetCmd(t) ==
  /\ pc[t] = "X_cmd" /\ Inside(t)
  /\ mb' = [mb EXCEPT !.S_CMD = gMb.S_CMD]
  /\ Goto(t, "X_dbm")
  /\ UNCHANGED <<fab, slvInt, gMb, flag, mst, calls, part, failed, sent, rcvd>>

SendAwaitFree(t) ==
  /\ pc[t] = "X_dbm" /\ SwitchRead(t)
  /\ dbm["slv2mst"] = 0
  /\ Goto(t, "X_w0")
  /\ UNCHANGED regs

(* mutant: the two data words change places *)
SendWriteDataSwapped(t) ==
  /\ pc[t] \in {"X_w0", "X_w1"} /\ DataWrite(t)
  /\ dat1' = IF pc[t] = "X_w0" THEN [dat1 EXCEPT !["slv2mst"] = mb.S_DAT0] ELSE dat1
  /\ dat0' = IF pc[t] = "X_w1" THEN [dat0 EXCEPT !["slv2mst"] = mb.S_DAT1] ELSE dat0
  /\ Goto(t, IF pc[t] = "X_w0" THEN "X_w1" ELSE "X_db")
  /\ UNCHANGED <<db, dbm, slvInt, mb, gMb, flag, mst, calls, part, failed, sent, rcvd>>

SendWriteData(t) ==
  /\ pc[t] \in {"X_w0", "X_w1"} /\ DataWrite(t)
  /\ dat0' = IF pc[t] = "X_w0" THEN [dat0 EXCEPT !["slv2mst"] = mb.S_DAT0] ELSE dat0
  /\ dat1' = IF pc[t] = "X_w1" THEN [dat1 EXCEPT !["slv2mst"] = mb.S_DAT1] ELSE dat1
  /\ Goto(t, IF pc[t] = "X_w0" THEN "X_w1" ELSE "X_db")
  /\ UNCHANGED <<db, dbm, slvInt, mb, gMb, flag, mst, calls, part, failed, sent, rcvd>>

(* What the caller of sendMsgSlv2Mst meant to send.                        *)
SlvMsg(t) == IF t = "hdl" THEN [cmd |-> STATUS_REPLY, data |-> <<SlvBuffSize>>]
                          ELSE [cmd |-> IMAGE_DONE, data |-> <<>>]

SendRing(t) ==
  /\ pc[t] = "X_db"
  /\ WriteDoorbell(t, "slv2mst", Doorbell(mb.S_CMD, mb.S_SIZE), "X_idle")
  /\ sent' = Record(t, sent, "slv2mst", SlvMsg(t))
  /\ UNCHANGED <<mb, gMb, flag, mst, calls, rcvd>>

SendClearBusy(t) ==
  /\ pc[t] = "X_idle" /\ Inside(t)
  /\ mb' = [mb EXCEPT !.busy = 0]
  /\ Goto(t, AfterSend(t))
  /\ UNCHANGED <<fab, slvInt, gMb, flag, mst, calls, part, failed, sent, rcvd>>

------------------------------------------------------------------------------
(* Slave firmware: mainSlv. It spins on the flag inside the section.       *)

(* mutant: the slave does not wait for the flag *)
SlvAwaitImageSkipped ==
  /\ pc["slv"] = "S_wait" /\ Inside("slv")
  /\ Goto("slv", "S_cmd")
  /\ UNCHANGED regs

SlvAwaitImage ==
  /\ pc["slv"] = "S_wait" /\ Inside("slv")
  /\ flag.RDY # 0
  /\ Goto("slv", "S_cmd")
  /\ UNCHANGED regs

SlvPrepareDone ==
  /\ pc["slv"] \in {"S_cmd", "S_size"} /\ Inside("slv")
  /\ gMb' = IF pc["slv"] = "S_cmd" THEN [gMb EXCEPT !.S_CMD = IMAGE_DONE]
                                   ELSE [gMb EXCEPT !.S_SIZE = 0]
  /\ Goto("slv", IF pc["slv"] = "S_cmd" THEN "S_size" ELSE "X_busy")
  /\ UNCHANGED <<fab, slvInt, mb, flag, mst, calls, part, failed, sent, rcvd>>

SlvReturn ==
  /\ pc["slv"] = "S_ret" /\ Leave("slv")
  /\ Goto("slv", "done")
  /\ UNCHANGED regs

------------------------------------------------------------------------------
(* Interrupt handler: entryHdl calls intHdl twice, each after waiting for  *)
(* the interrupt.                                                          *)

AfterCall(n) == IF n > 1 THEN "H_wait" ELSE "done"

HdlAwaitInt ==
  /\ pc["hdl"] = "H_wait" /\ Outside("hdl")
  /\ slvInt # 0
  /\ Goto("hdl", "H_chk")
  /\ UNCHANGED regs

(* intHdl returns at once when there is no interrupt.                      *)
HdlCheckInt ==
  /\ pc["hdl"] = "H_chk" /\ MayRun("hdl")
  /\ IF slvInt = 0
     THEN Goto("hdl", AfterCall(calls)) /\ calls' = calls - 1 /\ UNCHANGED mode
     ELSE /\ Goto("hdl", "H_adb") /\ UNCHANGED calls
          /\ mode' = IF CtxLock THEN [mode EXCEPT !["hdl"] = "want"] ELSE mode
  /\ UNCHANGED <<fab, slvInt, mb, gMb, flag, mst, part, failed, sent, rcvd>>

(* write_reg_MB_ACK: the message buffer latches the message.               *)
HdlReadDoorbell ==
  /\ pc["hdl"] = "H_adb" /\ SwitchRead("hdl")
  /\ mb' = [mb EXCEPT !.R_CMD  = DbCmd(db["mst2slv"]),
                      !.R_SIZE = DbSize(db["mst2slv"])]
  /\ Goto("hdl", "H_r0")
  /\ UNCHANGED <<fab, slvInt, gMb, flag, mst, calls, part, failed, sent, rcvd>>

HdlReadData ==
  /\ pc["hdl"] \in {"H_r0", "H_r1"} /\ DataRead("hdl")
  /\ mb' = IF pc["hdl"] = "H_r0" THEN [mb EXCEPT !.R_DAT0 = dat0["mst2slv"]]
                                 ELSE [mb EXCEPT !.R_DAT1 = dat1["mst2slv"]]
  /\ Goto("hdl", IF pc["hdl"] = "H_r0" THEN "H_r1" ELSE "H_ack")
  /\ UNCHANGED <<fab, slvInt, gMb, flag, mst, calls, part, failed, sent, rcvd>>

HdlAck ==
  /\ pc["hdl"] = "H_ack"
  /\ WriteDoorbell("hdl", "mst2slv", 0, "H_get")
  /\ rcvd' = Record("hdl", rcvd, "mst2slv", Latched(mb.R_CMD, mb.R_SIZE, mb.R_DAT0, mb.R_DAT1))
  /\ UNCHANGED <<mb, gMb, flag, mst, calls, sent>>

(* getMbCtx copies the latched message; only the handler touches it.       *)
HdlGetMbCtx ==
  /\ pc["hdl"] = "H_get" /\ Inside("hdl")
  /\ gMb' = [gMb EXCEPT !.R_CMD = mb.R_CMD, !.R_SIZE = mb.R_SIZE,
                        !.R_DAT0 = mb.R_DAT0, !.R_DAT1 = mb.R_DAT1]
  /\ Goto("hdl", "H_cmd")
  /\ UNCHANGED <<fab, slvInt, mb, flag, mst, calls, part, failed, sent, rcvd>>

(* handleCmd: reply to a status request, note the size of a ready image.   *)
(* The S_* words are written in one step: SendersExclude shows that nobody *)
(* else uses them meanwhile.                                               *)
HdlHandleCmd ==
  /\ pc["hdl"] = "H_cmd" /\ Inside("hdl")
  /\ LET cmd == gMb.R_CMD
     IN  /\ gMb' = IF cmd = STATUS_REQUEST
                   THEN [gMb EXCEPT !.S_CMD = STATUS_REPLY, !.S_SIZE = 1,
                                    !.S_DAT0 = SlvBuffSize]
                   ELSE gMb
         /\ flag' = IF cmd = IMAGE_READY THEN [flag EXCEPT !.SIZE = gMb.R_DAT0] ELSE flag
         /\ failed' = IF cmd \in {STATUS_REQUEST, IMAGE_READY} THEN failed
                      ELSE failed \cup {"handleCmd"}
         /\ Goto("hdl", IF cmd = STATUS_REQUEST THEN "X_busy"
                        ELSE IF cmd = IMAGE_READY THEN "H_rdy" ELSE "H_clr")
  /\ UNCHANGED <<fab, slvInt, mb, mst, calls, part, sent, rcvd>>

HdlSetReady ==
  /\ pc["hdl"] = "H_rdy" /\ Inside("hdl")
  /\ flag' = [flag EXCEPT !.RDY = 1]
  /\ Goto("hdl", "H_clr")
  /\ UNCHANGED <<fab, slvInt, mb, gMb, mst, calls, part, failed, sent, rcvd>>

(* mutant: the handler leaves the interrupt raised *)
HdlClearIntKept ==
  /\ pc["hdl"] = "H_clr" /\ Leave("hdl")
  /\ calls' = calls - 1
  /\ Goto("hdl", AfterCall(calls))
  /\ UNCHANGED <<fab, slvInt, mb, gMb, flag, mst, part, failed, sent, rcvd>>

HdlClearInt ==
  /\ pc["hdl"] = "H_clr" /\ Leave("hdl")
  /\ slvInt' = 0
  /\ calls' = calls - 1
  /\ Goto("hdl", AfterCall(calls))
  /\ UNCHANGED <<fab, mb, gMb, flag, mst, part, failed, sent, rcvd>>

------------------------------------------------------------------------------

Send(t) ==
  \/ SendAwaitIdle(t) \/ SendCopy(t) \/ SendSetBusy(t) \/ SendSetCmd(t)
  \/ SendAwaitFree(t) \/ SendWriteData(t) \/ SendRing(t) \/ SendClearBusy(t)

MstStep ==
  \/ MstAwaitFree \/ MstWriteData \/ MstAwaitNoInt \/ MstRing \/ MstPoll
  \/ MstReadDoorbell \/ MstReadData \/ MstAck \/ MstPrepareImage \/ MstReturn

SlvStep == SlvAwaitImage \/ SlvPrepareDone \/ Send("slv") \/ SlvReturn

HdlStep ==
  \/ HdlAwaitInt \/ HdlCheckInt \/ HdlReadDoorbell \/ HdlReadData \/ HdlAck
  \/ HdlGetMbCtx \/ HdlHandleCmd \/ HdlSetReady \/ Send("hdl") \/ HdlClearInt

Run(t) ==
  /\ \/ Lock(t) \/ Unlock(t) \/ PollFails(t)
     \/ t = "mst" /\ MstStep
     \/ t = "slv" /\ SlvStep
     \/ t = "hdl" /\ HdlStep
  /\ UNCHANGED build

Next == \E t \in Thread : Run(t)

Spec == Init /\ [][Next]_vars

(* The scheduler runs every thread again and again. In a CTX_LOCK build    *)
(* that is not enough: a thread that polls leaves the section only to ask  *)
(* for it again, so the others must get it when it is free again and       *)
(* again. Neither a POSIX mutex nor a verifier's atomic block promises     *)
(* that; the completion of the demo rests on it.                           *)
FairSpec ==
  Spec /\ \A t \in Thread : WF_vars(Run(t)) /\ SF_vars(CtxLock /\ Run(t))

------------------------------------------------------------------------------
(* Properties                                                              *)

Label ==
  {"M_send", "M_dat", "M_int", "M_db", "M_poll", "M_rdb", "M_rd0", "M_rd1", "M_ack",
   "M_next", "S_wait", "S_cmd", "S_size", "S_ret", "H_wait", "H_chk", "H_adb", "H_r0",
   "H_r1", "H_ack", "H_get", "H_cmd", "H_rdy", "H_clr", "X_busy", "X_d0", "X_d1", "X_sz",
   "X_bsy", "X_cmd", "X_dbm", "X_w0", "X_w1", "X_db", "X_idle", "done"}

Byte == 0..255
Msg == [cmd : Nat, data : Seq(Nat)]

(* Every variable keeps its type; in particular a size is what the eight   *)
(* size bits of a doorbell can carry.                                      *)
TypeOK ==
  /\ build \in Builds
  /\ pc \in [Thread -> Label]
  /\ mode \in [Thread -> {"in", "out", "want"}]
  /\ db \in [Dir -> Nat] /\ dbm \in [Dir -> Nat]
  /\ dat0 \in [Dir -> Nat] /\ dat1 \in [Dir -> Nat]
  /\ slvInt \in {0, 1}
  /\ mb \in [busy : {0, 1}, R_CMD : Nat, R_SIZE : Byte, R_DAT0 : Nat, R_DAT1 : Nat,
                           S_CMD : Nat, S_SIZE : Byte, S_DAT0 : Nat, S_DAT1 : Nat]
  /\ gMb \in [R_CMD : Nat, R_SIZE : Byte, R_DAT0 : Nat, R_DAT1 : Nat,
              S_CMD : Nat, S_SIZE : Byte, S_DAT0 : Nat, S_DAT1 : Nat]
  /\ flag \in [RDY : {0, 1}, SIZE : Nat]
  /\ mst \in [msg : {1, 2}, cmd : Nat, size : Byte, dat0 : Nat, dat1 : Nat, imgSize : Nat]
  /\ calls \in 0..2
  /\ part \in [Thread -> 1..3]
  /\ failed \subseteq {"fabric", "handleCmd"}
  /\ sent \in [Dir -> Seq(Msg)]
  /\ rcvd \in [Dir -> Seq(Msg)]

(* No assertion of the code fails: the fabric finds the interrupt line low *)
(* when the master rings (fabric.c:97), and handleCmd gets a command it    *)
(* knows (slv.c:130). Nor would those fail that are commented out at       *)
(* slv.c:124 and mst.c:95: IMAGE_READY arrives with one data word, and the *)
(* master receives at most one.                                            *)
NoAssertFails ==
  /\ failed = {}
  /\ pc["hdl"] = "H_cmd" /\ gMb.R_CMD = IMAGE_READY => gMb.R_SIZE = 1
  /\ pc["mst"] = "M_ack" => mst.size \in {0, 1}

Composing(t) ==
  pc[t] \in {"S_cmd", "S_size", "H_cmd", "X_busy", "X_d0", "X_d1", "X_sz", "X_bsy",
             "X_cmd", "X_dbm", "X_w0", "X_w1", "X_db", "X_idle"}

(* The handler and the slave firmware share gMbCtx and the S_* registers   *)
(* with no lock of their own; they never compose or send a reply at the    *)
(* same time.                                                              *)
SendersExclude == ~(Composing("slv") /\ Composing("hdl"))

(* A doorbell the slave has not answered yet keeps the interrupt raised    *)
(* and finds a call of intHdl left to serve it: clearing reg_slv_int at    *)
(* the end of intHdl never swallows the next request.                      *)
NoLostInterrupt ==
  db["mst2slv"] # 0 /\ part["mst"] = 1 /\ part["hdl"] = 1 => slvInt = 1 /\ calls > 0

(* When the slave firmware leaves its spin loop the image size it reads is *)
(* the one the master announced, and fits the SRAM (the assertion that is  *)
(* commented out at slv.c:28).                                             *)
SlaveUsesAnnouncedSize ==
  pc["slv"] # "S_wait" => flag.SIZE = mst.imgSize /\ flag.SIZE <= MaxSramSize

(* What a spin loop waits for stays true until the spinning thread has     *)
(* seen it: no thread can miss its chance or act on a stale observation.   *)
WaitsAreStable == [][\A t \in Thread : WaitOver(t) => WaitOver(t)' \/ pc'[t] # pc[t]]_vars

(* The registers, doorbells and interrupts implement the exchange of two   *)
(* requests and two replies, each delivered once and intact.               *)
Exchange ==
  INSTANCE ImageExchange WITH req <- sent["mst2slv"], got <- rcvd["mst2slv"],
                              rep <- sent["slv2mst"], ans <- rcvd["slv2mst"]
ExchangeSafe == Exchange!XSpec

(* The slave firmware has entered its section before the image-ready flag  *)
(* is set, and spins on the flag inside (slv.c:16).                        *)
SlaveInFirst == CtxLock /\ pc["slv"] = "S_wait" /\ mode["slv"] = "in" /\ flag.RDY = 0

(* A sender waits for a mirror that was left behind by stores out of turn  *)
(* (fabric.c:208-209): the doorbell is down and nobody is storing.         *)
MirrorLeft ==
  /\ ~FabLock /\ \A t \in Thread : part[t] = 1
  /\ \/ pc["mst"] = "M_send" /\ dbm["mst2slv"] # 0 /\ db["mst2slv"] = 0
     \/ \E t \in Sender : pc[t] = "X_dbm" /\ dbm["slv2mst"] # 0 /\ db["slv2mst"] = 0

(* The two ways in which the demo can come to a halt.                      *)
Blocked == SlaveInFirst \/ MirrorLeft

(* ... and carry it to its end, under a fair scheduler and a fair lock,    *)
(* unless they block in one of the two ways.                               *)
ExchangeFair == Exchange!XFair \/ <>Blocked

(* All three threads end, as main expects when it joins them, unless they  *)
(* block in one of the two ways.                                           *)
AllDone == \A t \in Thread : pc[t] = "done"
Completes == <>(AllDone \/ Blocked)

(* mst.c:15: the master receives the slave's message for image copy        *)
(* complete.                                                               *)
MasterGetsImageDone == <>(Len(rcvd["slv2mst"]) = 2)
==============================================================================
