------------------------------ MODULE Exchange ------------------------------
(***************************************************************************)
(* ExplicitMessage by itself, on a connection with a registered session:   *)
(* requests follow one another on one byte stream, each may be given up    *)
(* (deadline or abort()) while its bytes or its reply are still on the     *)
(* way.  The caller is any code that uses the class as its header says.    *)
(***************************************************************************)
EXTENDS Plc, ExplicitMessage

CONSTANTS
  MaxOps,      \* bound: requests sent (contexts stay below it unless CtxMod wraps them)
  MaxTicks,    \* bound: ticks of the clock
  MaxAborts,   \* bound: abort() calls
  PeerCloses   \* whether the PLC may close or reset the connection

ASSUME ExchangeAssumption ==
  /\ MaxOps \in Nat /\ MaxTicks \in Nat /\ MaxAborts \in Nat
  /\ PeerCloses \in BOOLEAN

VARIABLE used   \* ticks and aborts so far

vars == <<tcp, net, srv, msg, used>>

Init ==
  /\ tcp = [fd |-> TRUE, state |-> "Ok", timer |-> 0]
  /\ net = Wire("up")
  /\ \E h \in Handles : srv = [SrvFresh EXCEPT !.reg = h]
  /\ MsgInit
  /\ used = [ticks |-> 0, aborts |-> 0]

-----------------------------------------------------------------------------
Send(handle, tag) ==
  /\ msg.context <= MaxOps
  /\ \E st \in Status : MsgSend(handle, tag, st)
  /\ UNCHANGED <<tcp, net, srv, used>>

Poll ==
  /\ \E st \in Status : MsgPoll(st)
  /\ UNCHANGED <<srv, used>>

Abort ==
  /\ used.aborts < MaxAborts
  /\ MsgAbort
  /\ used' = [used EXCEPT !.aborts = @ + 1]
  /\ UNCHANGED <<tcp, net, srv>>

Tick ==
  /\ used.ticks < MaxTicks
  /\ MsgTick
  /\ used' = [used EXCEPT !.ticks = @ + 1]
  /\ UNCHANGED <<tcp, net, srv>>

Serve == (PlcReceive \/ PlcSend) /\ UNCHANGED <<msg, used>>

Close == PeerCloses /\ PlcClose /\ UNCHANGED <<msg, used>>

SendAny == \E handle \in Handles, tag \in Names : Send(handle, tag)

Next == SendAny \/ Poll \/ Abort \/ Tick \/ Serve \/ Close

Spec == Init /\ [][Next]_vars

(* The caller polls and goes on sending, the PLC answers what it gets.     *)
FairSpec ==
  /\ Spec
  /\ WF_vars(Poll)
  /\ WF_vars(SendAny)
  /\ WF_vars(Serve)

-----------------------------------------------------------------------------
(* The counters of the bounds and every object have their types.           *)
TypeOK ==
  /\ TransportTypeOK /\ PlcTypeOK /\ MsgTypeOK
  /\ used \in [ticks : 0 .. MaxTicks, aborts : 0 .. MaxAborts]

(* parseResponse() accepts only the answer to the request that was sent:   *)
(* the reply of an exchange that timed out or was aborted, arriving late,  *)
(* is never taken for it.                                                  *)
AcceptedAnswersRequest ==
  msg.state = "Done" => MsgReply(msg).tag = msg.io.req.tag

(* A success brings client and PLC back in step: nothing of this or an     *)
(* earlier exchange is left in either stream or in the PLC, so the next    *)
(* request starts with an empty pipe.                                      *)
SuccessDrains ==
  msg.state = "Done" /\ net.sock = "up" =>
    net.c2s = << >> /\ net.s2c = << >> /\ srv.rx = << >> /\ srv.out = << >>

(* "Handles timeouts, ... stale responses" (README): after finitely many   *)
(* deadlines missed, with a PLC that answers every request, exchanges      *)
(* succeed again.                                                          *)
RecoversFromTimeout == []<>(msg.state = "Done")

=============================================================================
