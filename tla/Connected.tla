------------------------------ MODULE Connected ------------------------------
(***************************************************************************)
(* Connection by itself, on a TCP connection with a registered session.    *)
(* The caller is any code that calls open(), send(), close() and poll() in *)
(* any order; the target may drop the CIP connection, be silent or go.     *)
(***************************************************************************)
EXTENDS Target

CONSTANTS
  MaxForwards,  \* bound: Forward Open and Close requests, counted by fwd_'s context_
  MaxSends      \* bound: data exchanges, counted by context_

ASSUME ConnectedAssumption ==
  /\ MaxForwards \in Nat /\ MaxForwards < CtxMod - 1
  /\ MaxSends \in Nat /\ MaxSends < CtxMod - 1
  /\ Handles # {}

vars == <<tcp, net, srv, cip, msg, conn>>

(* The handle of the session, which the caller passes.                     *)
Handle == CHOOSE h \in Handles : TRUE

Init ==
  /\ tcp = [fd |-> TRUE, state |-> "Ok", timer |-> 0]
  /\ net = Wire("up")
  /\ srv = [SrvFresh EXCEPT !.reg = Handle]
  /\ TargetInit /\ MsgInit /\ ConnInit

-----------------------------------------------------------------------------
Open ==
  /\ msg.context <= MaxForwards
  /\ \E st \in Status : ConnOpen(Handle, st)
  /\ UNCHANGED <<tcp, net, srv, cip>>

Send ==
  /\ conn.context <= MaxSends
  /\ \E st \in Status, req \in Requests : ConnSend(Handle, req, st)
  /\ UNCHANGED <<tcp, net, srv, cip, msg>>

Close ==
  /\ msg.context <= MaxForwards
  /\ \E st \in Status : ConnClose(Handle, st)
  /\ UNCHANGED <<tcp, net, srv, cip>>

Poll ==
  /\ \E st \in Status : ConnPoll(st)
  /\ UNCHANGED <<srv, cip>>

Tick ==
  /\ MsgTick /\ ConnTick
  /\ UNCHANGED <<tcp, net, srv, cip>>

Network == TargetNext /\ UNCHANGED <<msg, conn>>

Next == Open \/ Send \/ Close \/ Poll \/ Tick \/ Network

Spec == Init /\ [][Next]_vars

(* The caller polls and time goes on; nothing is assumed of the target.    *)
FairSpec == Spec /\ WF_vars(Poll) /\ WF_vars(Tick)

-----------------------------------------------------------------------------
(* Every object is in a state of its type.                                 *)
TypeOK ==
  /\ TransportTypeOK /\ PlcTypeOK /\ TargetTypeOK /\ MsgTypeOK /\ ConnTypeOK

(* Two objects write to and read from one byte stream: fwd_ has a request  *)
(* in flight exactly while the connection is being opened or closed, never *)
(* during a data exchange.                                                 *)
OneExchange == MsgBusy <=> conn.state \in {"Opening", "Closing"}

(* "Connection IDs (valid once open)" (Connection.h:55): while the object  *)
(* is open and the target still has a connection, both use the same IDs,   *)
(* whatever opens were given up before and however late they were answered.*)
IdsAgree ==
  conn.state \in {"Open", "Sending"} /\ net.sock = "up" /\ cip # NoCip =>
    cip.ot = conn.ot /\ cip.to = conn.to

(* "Rejects stale, replayed ... data" (Connection.h:23): an open           *)
(* connection has nothing left on the way, so no reply to a request given  *)
(* up earlier can meet a later one.                                        *)
OpenIsDrained ==
  conn.state = "Open" /\ net.sock = "up" =>
    net.c2s = << >> /\ net.s2c = << >> /\ srv.rx = << >> /\ srv.out = << >>

(* "Closed" says no more than that the target was asked: the status of the *)
(* Forward Close reply is not looked at (Connection.cpp:244), and a target *)
(* that refuses keeps the connection.  But it does say that: a Forward     *)
(* Close has arrived since the connection the target keeps was opened,     *)
(* whatever exchanges were given up and answered late before.              *)
ClosedWasAsked == conn.state = "Closed" /\ net.sock = "up" => ~cip.wanted

(* Forward Open, a data exchange and Forward Close end by their deadline,  *)
(* whatever the target does.                                               *)
ExchangeEnds == ConnBusy ~> ~ConnBusy

=============================================================================
