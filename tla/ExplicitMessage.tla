-------------------------- MODULE ExplicitMessage --------------------------
(***************************************************************************)
(* One unconnected CIP request at a time (cip/ExplicitMessage): SendRRData *)
(* and the reply that carries its sender context.                          *)
(***************************************************************************)
EXTENDS Transport

VARIABLE msg   \* the ExplicitMessage object: state_, context_, deadline_, buffers

(* sentContext_ is the context of the request in the buffers.              *)
MsgInit == msg = [state |-> "Idle", context |-> 1, timer |-> 0, io |-> NoIo]

MsgTypeOK ==
  /\ msg \in [state   : {"Idle", "Sending", "Receiving", "Done", "Failed"},
              context : 0 .. CtxMod - 1,
              timer   : Nat,
              io      : Io]
  /\ msg.state = "Done" => Len(msg.io.rx) = Frags

MsgBusy == msg.state \in {"Sending", "Receiving"}

-----------------------------------------------------------------------------
(* abort(): the buffers are dead until the next send().                    *)
MsgAbort == msg' = [msg EXCEPT !.state = "Idle", !.timer = 0, !.io = NoIo]

(* Mutant: context_ is not advanced.                                       *)
MsgSendSameContext(handle, tag, st) ==
  \/ MsgBusy /\ st = "Busy" /\ UNCHANGED msg
  \/ ~MsgBusy /\ ~Connected(tcp) /\ st = "NotReady" /\ UNCHANGED msg
  \/ /\ ~MsgBusy /\ Connected(tcp)
     /\ st = "Pending"
     /\ msg' = [state   |-> "Sending",
                context |-> msg.context,
                timer   |-> OpTimeout,
                io      |-> NewIo([command |-> "SendRRData", session |-> handle,
                                   context |-> msg.context, tag |-> tag,
                                   status |-> "ok"])]

(* send() of a request about tag on session handle.  "InvalidArg" is the   *)
(* caller's size check (cipLen > kMaxCipData); the buffers are untouched.  *)
MsgSend(handle, tag, st) ==
  \/ MsgBusy /\ st = "Busy" /\ UNCHANGED msg
  \/ ~MsgBusy /\ ~Connected(tcp) /\ st = "NotReady" /\ UNCHANGED msg
  \/ ~MsgBusy /\ Connected(tcp) /\ st = "InvalidArg" /\ UNCHANGED msg
  \/ /\ ~MsgBusy /\ Connected(tcp)
     /\ st = "Pending"
     /\ msg' = [state   |-> "Sending",
                context |-> (msg.context + 1) % CtxMod,
                timer   |-> OpTimeout,
                io      |-> NewIo([command |-> "SendRRData", session |-> handle,
                                   context |-> msg.context, tag |-> tag,
                                   status |-> "ok"])]

(* Mutant: the sender context of the reply is not compared.                *)
ParseAnyContext(req, rx) ==
  /\ Intact(rx)
  /\ rx[1].pkt.command = "SendRRData"
  /\ rx[1].pkt.status # "encapErr"

(* parseResponse(): the reply answers request req.                         *)
ParseOK(req, rx) ==
  /\ Intact(rx)
  /\ rx[1].pkt.command = "SendRRData"
  /\ rx[1].pkt.status # "encapErr"
  /\ rx[1].pkt.context = req.context

(* Failed: the buffers are dead.  (In Done, rx_ still holds the reply that  *)
(* data() points into.)                                                    *)
MsgFailed == [msg EXCEPT !.state = "Failed", !.timer = 0, !.io = NoIo]

MsgReply(m) == m.io.rx[1].pkt

(* Mutant: the deadline is never looked at.                                *)
MsgNeverExpires == FALSE

MsgExpired == msg.timer = 0

(* poll() of a request in flight.                                          *)
PollInFlight(st) ==
  \/ /\ MsgExpired
     /\ st = "Timeout"
     /\ msg' = MsgFailed
     /\ UNCHANGED <<tcp, net>>
  \/ /\ ~MsgExpired
     /\ \E o \in Transact(msg.io) :
          /\ Apply(o, FALSE)
          /\ \/ /\ o.st = "Pending"
                /\ st = "Pending"
                /\ msg' = [msg EXCEPT !.io = o.io,
                             !.state = IF Written(o) THEN "Receiving" ELSE @]
             \/ /\ o.st \in {"Closed", "Error"}
                /\ st = o.st
                /\ msg' = MsgFailed
             \/ /\ o.st = "Ok" /\ ParseOK(o.io.req, o.io.rx)
                /\ st = "Ok"
                /\ msg' = [msg EXCEPT !.state = "Done", !.timer = 0, !.io = o.io]
             \/ /\ o.st = "Ok" /\ ~ParseOK(o.io.req, o.io.rx)
                /\ st = "Error"
                /\ msg' = MsgFailed

MsgSettled == [Done |-> "Ok", Failed |-> "Error", Idle |-> "NotReady"]

(* poll() *)
MsgPoll(st) ==
  \/ MsgBusy /\ PollInFlight(st)
  \/ ~MsgBusy /\ st = MsgSettled[msg.state] /\ UNCHANGED <<tcp, net, msg>>

MsgTick == msg' = [msg EXCEPT !.timer = Dec(@)]

=============================================================================
