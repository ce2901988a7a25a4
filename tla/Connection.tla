----------------------------- MODULE Connection -----------------------------
(***************************************************************************)
(* Connected CIP messaging (cip/Connection): Forward Open, data exchanges  *)
(* by SendUnitData, Forward Close.  Forward Open and Close go through an   *)
(* ExplicitMessage of its own (fwd_, here msg); the data exchanges use     *)
(* the object's own buffers.  Both share one byte stream.                  *)
(***************************************************************************)
EXTENDS ExplicitMessage

CONSTANTS
  ConnIds,    \* connection IDs the two ends choose, none of them 0
  Requests,   \* CIP requests (service, path and data) the caller sends
  NoRequest,  \* what Forward Open and Forward Close carry in their place
  SeqMod      \* size of the sequence counter (2^16 in the code)

(* What a packet of this module is about: its service, the connection IDs  *)
(* and the sequence number it carries.                                     *)
Payload == [svc : {"ForwardOpen", "ForwardClose", "Data"},
            ot  : ConnIds \cup {0}, to : ConnIds \cup {0},
            seq : 0 .. SeqMod - 1,
            req : Requests \cup {NoRequest}]

ASSUME ConnectionAssumption ==
  /\ ConnIds \subseteq Nat \ {0}
  /\ SeqMod \in Nat \ {0, 1}
  /\ NoRequest \notin Requests
  /\ Payload \subseteq Names

VARIABLE conn   \* the Connection object

(* sentContext_ and sentSequence_ are those of the request in the buffers. *)
ConnInit == conn = [state |-> "Idle", ot |-> 0, to |-> 0, seq |-> 1,
                    context |-> 1, timer |-> 0, io |-> NoIo]

ConnTypeOK ==
  conn \in [state   : {"Idle", "Opening", "Open", "Sending", "Closing", "Closed", "Failed"},
            ot      : ConnIds \cup {0},
            to      : ConnIds \cup {0},
            seq     : 0 .. SeqMod - 1,
            context : 0 .. CtxMod - 1,
            timer   : Nat,
            io      : Io]

ConnBusy == conn.state \in {"Opening", "Sending", "Closing"}

-----------------------------------------------------------------------------
(* The bodies the object builds.  Forward Close names the connection by    *)
(* serial number and vendor, which are always the same.                    *)
OpenBody(ot)      == [svc |-> "ForwardOpen", ot |-> ot, to |-> 0, seq |-> 0, req |-> NoRequest]
CloseBody         == [svc |-> "ForwardClose", ot |-> 0, to |-> 0, seq |-> 0, req |-> NoRequest]
DataBody(ot, n, r) == [svc |-> "Data", ot |-> ot, to |-> 0, seq |-> n, req |-> r]

(* Mutant: state_ is set before the result of fwd_.send() is known.        *)
ConnOpenEarly(handle, st) ==
  \/ ConnBusy /\ st = "Busy" /\ UNCHANGED <<conn, msg>>
  \/ /\ ~ConnBusy
     /\ \E ot \in ConnIds :
          /\ MsgSend(handle, OpenBody(ot), st) /\ st # "InvalidArg"
          /\ conn' = [conn EXCEPT !.ot = ot, !.to = 0, !.state = "Opening"]

(* open() and startOpen(): a random O->T ID.  It is accepted from Open     *)
(* too, and the IDs change even if fwd_ refuses the request.  (Forward     *)
(* Open fits fwd_, so InvalidArg is only open()'s own check of the name.)  *)
ConnOpen(handle, st) ==
  \/ st = "InvalidArg" /\ UNCHANGED <<conn, msg>>
  \/ ConnBusy /\ st = "Busy" /\ UNCHANGED <<conn, msg>>
  \/ /\ ~ConnBusy
     /\ \E ot \in ConnIds :
          /\ MsgSend(handle, OpenBody(ot), st) /\ st # "InvalidArg"
          /\ conn' = [conn EXCEPT !.ot = ot, !.to = 0,
                                  !.state = IF st = "Pending" THEN "Opening" ELSE @]

(* send() and startSend(): the TCP connection is not looked at.            *)
ConnSend(handle, req, st) ==
  \/ conn.state # "Open" /\ st = "NotReady" /\ UNCHANGED conn
  \/ conn.state = "Open" /\ st = "InvalidArg" /\ UNCHANGED conn
  \/ /\ conn.state = "Open"
     /\ st = "Pending"
     /\ conn' = [conn EXCEPT !.state = "Sending",
                   !.context = (@ + 1) % CtxMod, !.seq = (@ + 1) % SeqMod,
                   !.timer = OpTimeout,
                   !.io = NewIo([command |-> "SendUnitData", session |-> handle,
                                 context |-> conn.context, status |-> "ok",
                                 tag |-> DataBody(conn.ot, conn.seq, req)])]

(* close() and startClose() *)
ConnClose(handle, st) ==
  \/ conn.state # "Open" /\ st = "NotReady" /\ UNCHANGED <<conn, msg>>
  \/ /\ conn.state = "Open"
     /\ MsgSend(handle, CloseBody, st) /\ st # "InvalidArg"
     /\ conn' = IF st = "Pending" THEN [conn EXCEPT !.state = "Closing"] ELSE conn

-----------------------------------------------------------------------------
(* The Forward Open reply p gives both IDs, ours among them.               *)
OpenReplyOK(p) ==
  /\ p.status = "ok"      \* general status 0 and at least 12 bytes of data
  /\ p.tag.ot # 0 /\ p.tag.to # 0
  /\ p.tag.ot = conn.ot

(* Mutant: the T->O ID is read from the place of the O->T ID.              *)
PollOpeningMisread(st) ==
  /\ MsgPoll(st)
  /\ conn' = CASE st = "Pending" -> conn
               [] st = "Ok" /\ OpenReplyOK(MsgReply(msg')) ->
                    [conn EXCEPT !.state = "Open", !.to = MsgReply(msg').tag.ot]
               [] OTHER -> [conn EXCEPT !.state = "Failed"]

(* pollOpening(): the status of fwd_, or an error for a reply that is not  *)
(* the expected one.                                                       *)
PollOpening(st) ==
  \E ms \in {st, "Ok"} :
    /\ MsgPoll(ms)
    /\ \/ ms = "Pending" /\ st = ms /\ UNCHANGED conn
       \/ /\ ms \notin {"Pending", "Ok"}
          /\ st = ms
          /\ conn' = [conn EXCEPT !.state = "Failed"]
       \/ /\ ms = "Ok" /\ OpenReplyOK(MsgReply(msg'))
          /\ st = "Ok"
          /\ conn' = [conn EXCEPT !.state = "Open", !.to = MsgReply(msg').tag.to]
       \/ /\ ms = "Ok" /\ ~OpenReplyOK(MsgReply(msg'))
          /\ st = "Error"
          /\ conn' = [conn EXCEPT !.state = "Failed"]

(* parseConnectedResponse(): command, status, sender context, connection   *)
(* ID and sequence number.                                                 *)
ConnectedReplyOK(io) ==
  /\ Intact(io.rx)
  /\ LET p == io.rx[1].pkt
     IN  /\ p.command = "SendUnitData"
         /\ p.status # "encapErr"
         /\ p.context = io.req.context
         /\ p.tag.to = conn.to
         /\ p.tag.seq = io.req.tag.seq

(* Mutant: the deadline is never looked at.                                *)
ConnNeverExpires == FALSE

ConnExpired == conn.timer = 0

(* Mutant: a timeout is reported, the connection stays open.               *)
PollSendingStaysOpen(st) ==
  \/ /\ ConnExpired
     /\ st = "Timeout"
     /\ conn' = [conn EXCEPT !.state = "Open", !.io = NoIo]
     /\ UNCHANGED <<tcp, net>>
  \/ /\ ~ConnExpired
     /\ \E o \in Transact(conn.io) :
          /\ Apply(o, FALSE)
          /\ \/ o.st = "Pending" /\ st = "Pending" /\ conn' = [conn EXCEPT !.io = o.io]
             \/ /\ o.st = "Ok" /\ ConnectedReplyOK(o.io)
                /\ st = "Ok"
                /\ conn' = [conn EXCEPT !.state = "Open", !.timer = 0, !.io = o.io]

(* pollSending().  In state Open, rx_ holds the reply data() points into;  *)
(* in Failed the buffers are dead.                                         *)
PollSending(st) ==
  \/ /\ ConnExpired
     /\ st = "Timeout"
     /\ conn' = [conn EXCEPT !.state = "Failed", !.io = NoIo]
     /\ UNCHANGED <<tcp, net>>
  \/ /\ ~ConnExpired
     /\ \E o \in Transact(conn.io) :
          /\ Apply(o, FALSE)
          /\ \/ o.st = "Pending" /\ st = "Pending" /\ conn' = [conn EXCEPT !.io = o.io]
             \/ /\ o.st \in {"Closed", "Error"}
                /\ st = o.st
                /\ conn' = [conn EXCEPT !.state = "Failed", !.timer = 0, !.io = NoIo]
             \/ /\ o.st = "Ok" /\ ConnectedReplyOK(o.io)
                /\ st = "Ok"
                /\ conn' = [conn EXCEPT !.state = "Open", !.timer = 0, !.io = o.io]
             \/ /\ o.st = "Ok" /\ ~ConnectedReplyOK(o.io)
                /\ st = "Error"
                /\ conn' = [conn EXCEPT !.state = "Failed", !.timer = 0, !.io = NoIo]

(* Mutant: the connection counts as closed when the exchange ends, however *)
(* it ends.                                                                *)
PollClosingAlways(st) ==
  /\ MsgPoll(st)
  /\ conn' = IF st = "Pending" THEN conn ELSE [conn EXCEPT !.state = "Closed"]

(* pollClosing(): the general status of the reply is not looked at.        *)
PollClosing(st) ==
  /\ MsgPoll(st)
  /\ conn' = CASE st = "Pending" -> conn
               [] st = "Ok"      -> [conn EXCEPT !.state = "Closed"]
               [] OTHER          -> [conn EXCEPT !.state = "Failed"]

ConnSettled == [Open |-> "Ok", Closed |-> "Closed", Failed |-> "Error", Idle |-> "NotReady"]

(* poll() *)
ConnPoll(st) ==
  \/ conn.state = "Opening" /\ PollOpening(st)
  \/ conn.state = "Sending" /\ PollSending(st) /\ UNCHANGED msg
  \/ conn.state = "Closing" /\ PollClosing(st)
  \/ ~ConnBusy /\ st = ConnSettled[conn.state] /\ UNCHANGED <<tcp, net, msg, conn>>

ConnTick == conn' = [conn EXCEPT !.timer = Dec(@)]

=============================================================================
