---------------------------- MODULE ImageExchange ----------------------------
(***************************************************************************)
(* What the two firmwares of others/fw-verif/demo-system promise each      *)
(* other, without registers, doorbells, interrupts or locks: two requests, *)
(* each answered once, every message delivered once and intact.            *)
(*                                                                         *)
(*   master                          slave                                 *)
(*     STATUS_REQUEST       ------>                                        *)
(*                          <------  STATUS_REPLY (its buffer size)        *)
(*     IMAGE_READY (size)   ------>                                        *)
(*                          <------  IMAGE_DONE                            *)
(***************************************************************************)
EXTENDS Integers, Sequences

CONSTANTS
  MaxSramSize, \* MAX_SRAM_SIZE: bytes of master SRAM that hold an image
  SlvBuffSize  \* the buffer size the slave reports in its STATUS_REPLY

STATUS_REQUEST == 1
STATUS_REPLY   == 2
IMAGE_READY    == 3
IMAGE_DONE     == 4

VARIABLES
  req, \* requests the master has sent
  got, \* requests the slave has received
  rep, \* replies the slave has sent
  ans  \* replies the master has received

xvars == <<req, got, rep, ans>>

(* The size the master announces: the slave's buffer size when it is       *)
(* usable, all of its SRAM otherwise.                                      *)
ImageSize(reply) ==
  IF Len(reply.data) >= 1 /\ reply.data[1] <= MaxSramSize
  THEN reply.data[1] ELSE MaxSramSize

Request(k) ==
  IF k = 1 THEN [cmd |-> STATUS_REQUEST, data |-> <<>>]
           ELSE [cmd |-> IMAGE_READY, data |-> <<ImageSize(ans[1])>>]

Reply(k) ==
  IF k = 1 THEN [cmd |-> STATUS_REPLY, data |-> <<SlvBuffSize>>]
           ELSE [cmd |-> IMAGE_DONE, data |-> <<>>]

XInit == req = <<>> /\ got = <<>> /\ rep = <<>> /\ ans = <<>>

(* A request goes out only when every earlier one has been answered.       *)
SendRequest ==
  /\ Len(req) < 2 /\ Len(ans) = Len(req)
  /\ req' = Append(req, Request(Len(req) + 1))
  /\ UNCHANGED <<got, rep, ans>>

ReceiveRequest ==
  /\ Len(got) < Len(req)
  /\ got' = Append(got, req[Len(got) + 1])
  /\ UNCHANGED <<req, rep, ans>>

(* A reply goes out only for a request the slave has received.             *)
SendReply ==
  /\ Len(rep) < Len(got)
  /\ rep' = Append(rep, Reply(Len(rep) + 1))
  /\ UNCHANGED <<req, got, ans>>

ReceiveReply ==
  /\ Len(ans) < Len(rep)
  /\ ans' = Append(ans, rep[Len(ans) + 1])
  /\ UNCHANGED <<req, got, rep>>

XNext == SendRequest \/ ReceiveRequest \/ SendReply \/ ReceiveReply

XSpec == XInit /\ [][XNext]_xvars

(* The exchange also makes progress: both requests are answered.           *)
XFair == WF_xvars(XNext)
==============================================================================
