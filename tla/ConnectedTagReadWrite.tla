----------------------- MODULE ConnectedTagReadWrite -----------------------
(***************************************************************************)
(* The sketch ConnectedTagReadWrite, a whole application on the classes    *)
(* below PlcClient: Ethernet, TCP, session and one Connection, opened,     *)
(* used for read, write and read, and closed, over and over.  One action   *)
(* per phase of loop(); the network and the clock move between two calls   *)
(* of loop().                                                              *)
(***************************************************************************)
EXTENDS Target, Session, EthClient

CONSTANTS
  Read, Write,   \* the two requests the sketch sends
  RetryDelay     \* RETRY_DELAY_MS, in ticks

ASSUME SketchAssumption ==
  /\ {Read, Write} \subseteq Requests
  /\ RetryDelay \in Nat

VARIABLE app   \* phase, step, stepStarted and the time left in RetryWait

vars == <<tcp, net, srv, cip, eth, session, msg, conn, app>>

LastStep == 4   \* 0 open, 1 read, 2 write, 3 read, 4 close

(* setup(): begin() has been called.                                       *)
Init ==
  /\ TransportInit /\ PlcInit /\ TargetInit /\ SessionInit /\ MsgInit /\ ConnInit
  /\ \E ok \in BOOLEAN :
       /\ eth = [started |-> ok, ready |-> FALSE, failed |-> ~ok]
       /\ app = [phase |-> IF ok THEN "WaitEthernet" ELSE "RetryWait",
                 step |-> 0, started |-> FALSE, timer |-> RetryDelay]

-----------------------------------------------------------------------------
Goto(phase) == app' = [app EXCEPT !.phase = phase]

(* phaseStarted only matters in RetryWait.                                 *)
GotoRetry == app' = [app EXCEPT !.phase = "RetryWait", !.timer = RetryDelay]

(* A failed interface is started again.  The result of tcp.connect() is    *)
(* printed and not looked at.                                              *)
WaitEthernet ==
  /\ app.phase = "WaitEthernet"
  /\ \/ /\ EthPoll("Ok")
        /\ \E st \in Status : TcpConnect(ConnectTimeout, st)
        /\ Goto("Connect")
     \/ /\ eth.failed
        /\ \E st \in Status : EthBegin(st)
        /\ UNCHANGED <<tcp, net, app>>
     \/ EthPoll("Pending") /\ UNCHANGED <<tcp, net, app>>
  /\ UNCHANGED <<srv, cip, session, msg, conn>>

Connect ==
  /\ app.phase = "Connect"
  /\ \E st \in Status :
       /\ TcpPoll(st)
       /\ \/ /\ st = "Ok"
             /\ \E ost \in Status : SessionOpen(tcp', ConnectTimeout, ost)
             /\ Goto("OpenSession")
          \/ st \in {"Timeout", "Error"} /\ GotoRetry /\ UNCHANGED session
          \/ st \notin {"Ok", "Timeout", "Error"} /\ UNCHANGED <<session, app>>
  /\ UNCHANGED <<srv, cip, eth, msg, conn>>

(* Mutant: the step counter goes on where the last cycle stopped.          *)
OpenSessionKeepsStep ==
  /\ app.phase = "OpenSession"
  /\ \E st \in Status :
       /\ SessionPoll(st, {})
       /\ \/ st = "Ok" /\ app' = [app EXCEPT !.phase = "ConnOps", !.started = FALSE]
          \/ st \in {"Timeout", "Error"} /\ GotoRetry
          \/ st \notin {"Ok", "Timeout", "Error"} /\ UNCHANGED app
  /\ UNCHANGED <<srv, cip, eth, msg, conn>>

OpenSession ==
  /\ app.phase = "OpenSession"
  /\ \E st \in Status :
       /\ SessionPoll(st, {})
       /\ \/ st = "Ok" /\ app' = [app EXCEPT !.phase = "ConnOps", !.step = 0, !.started = FALSE]
          \/ st \in {"Timeout", "Error"} /\ GotoRetry
          \/ st \notin {"Ok", "Timeout", "Error"} /\ UNCHANGED app
  /\ UNCHANGED <<srv, cip, eth, msg, conn>>

StepRequest == [k \in 1 .. 3 |-> IF k = 2 THEN Write ELSE Read]

(* startStep(): tried again by the next loop() unless it was accepted.     *)
(* The names and lengths are literals, so nothing is an InvalidArg.        *)
StartStep ==
  /\ app.phase = "ConnOps" /\ ~app.started
  /\ \E st \in Status \ {"InvalidArg"} :
       /\ CASE app.step = 0        -> ConnOpen(session.handle, st)
            [] app.step \in 1 .. 3 -> /\ ConnSend(session.handle, StepRequest[app.step], st)
                                      /\ UNCHANGED msg
            [] app.step = LastStep -> ConnClose(session.handle, st)
       /\ app' = [app EXCEPT !.started = (st = "Pending")]
  /\ UNCHANGED <<tcp, net, srv, cip, eth, session>>

(* Mutant: the session is closed one step early.                           *)
FinishStepEarly ==
  /\ app' = [app EXCEPT !.step = @ + 1, !.started = FALSE,
                        !.phase = IF app.step + 1 >= LastStep THEN "CloseSession" ELSE @]
  /\ IF app.step + 1 >= LastStep THEN \E st \in Status : SessionClose(st) ELSE UNCHANGED session

(* Mutant: the session is closed one step late.                            *)
FinishStepLate ==
  /\ app' = [app EXCEPT !.step = @ + 1, !.started = FALSE,
                        !.phase = IF app.step > LastStep THEN "CloseSession" ELSE @]
  /\ IF app.step > LastStep THEN \E st \in Status : SessionClose(st) ELSE UNCHANGED session

(* finishStep(): the next step, or the end of the session after the last.  *)
(* The CIP status of a reply is only printed.                              *)
FinishStep ==
  /\ app' = [app EXCEPT !.step = @ + 1, !.started = FALSE,
                        !.phase = IF app.step = LastStep THEN "CloseSession" ELSE @]
  /\ IF app.step = LastStep THEN \E st \in Status : SessionClose(st) ELSE UNCHANGED session

PollStep ==
  /\ app.phase = "ConnOps" /\ app.started
  /\ \E st \in Status :
       /\ ConnPoll(st)
       /\ \/ st = "Ok" /\ FinishStep
          \/ st \in {"Timeout", "Error"} /\ GotoRetry /\ UNCHANGED session
          \/ st \notin {"Ok", "Timeout", "Error"} /\ UNCHANGED <<session, app>>
  /\ UNCHANGED <<srv, cip, eth>>

(* session.poll() returns Timeout or Error while unregistering.            *)
UnregisterFails ==
  \/ session.state = "Failed"
  \/ session.state = "Unregistering" /\ SessionExpired
  \/ /\ session.state = "Unregistering"
     /\ \E o \in Transact(session.io) : o.st = "Error"

(* Whatever ends the session, the TCP connection is closed.                *)
CloseSession ==
  /\ app.phase = "CloseSession"
  /\ \/ SessionPoll("Ok", {"Ok"}) /\ GotoRetry
     \/ UnregisterFails /\ SessionAbort /\ TcpClose /\ GotoRetry
     \/ SessionPoll("Closed", {}) /\ UNCHANGED app
     \/ SessionPoll("Pending", {}) /\ UNCHANGED app
  /\ UNCHANGED <<srv, cip, eth, msg, conn>>

(* Mutant: the session is left as it is.                                   *)
RetryWaitKeepsSession ==
  /\ app.phase = "RetryWait"
  /\ TcpClose
  /\ IF app.timer = 0 THEN Goto("WaitEthernet") ELSE UNCHANGED app
  /\ UNCHANGED <<srv, cip, eth, session, msg, conn>>

RetryWait ==
  /\ app.phase = "RetryWait"
  /\ SessionAbort
  /\ TcpClose
  /\ IF app.timer = 0 THEN Goto("WaitEthernet") ELSE UNCHANGED app
  /\ UNCHANGED <<srv, cip, eth, msg, conn>>

Loop ==
  \/ WaitEthernet \/ Connect \/ OpenSession \/ StartStep \/ PollStep
  \/ CloseSession \/ RetryWait

Tick ==
  /\ tcp' = [tcp EXCEPT !.timer = Dec(@)]
  /\ SessionTick /\ MsgTick /\ ConnTick
  /\ app' = [app EXCEPT !.timer = Dec(@)]
  /\ UNCHANGED <<net, srv, cip, eth>>

Network == TargetNext /\ UNCHANGED <<eth, session, msg, conn, app>>

Next == Loop \/ Tick \/ Network

Spec == Init /\ [][Next]_vars

(* The Arduino core calls loop() again and again, and time goes on.        *)
FairSpec == Spec /\ WF_vars(Loop) /\ WF_vars(Tick)

-----------------------------------------------------------------------------
(* Every object is in a state of its type, and so are phase and step:      *)
(* startStep() has a case for every step that ConnOps comes to.            *)
TypeOK ==
  /\ TransportTypeOK /\ PlcTypeOK /\ TargetTypeOK /\ EthTypeOK
  /\ SessionTypeOK /\ MsgTypeOK /\ ConnTypeOK
  /\ app \in [phase   : {"WaitEthernet", "Connect", "OpenSession", "ConnOps",
                         "CloseSession", "RetryWait"},
              step    : 0 .. LastStep + 1,
              started : BOOLEAN,
              timer   : Nat]
  /\ app.phase = "ConnOps" => app.step <= LastStep

(* Every step the sketch starts is accepted by the library: the connection *)
(* object of the last cycle, however that ended, is free to be opened, and *)
(* later steps find it open on a live TCP connection.  Otherwise loop()    *)
(* would retry the same call for ever.                                     *)
StepAccepted ==
  app.phase = "ConnOps" /\ ~app.started =>
    /\ Connected(tcp)
    /\ IF app.step = 0 THEN ~ConnBusy /\ ~MsgBusy ELSE conn.state = "Open"

(* In ConnOps the sketch uses the session registered on this very TCP      *)
(* connection, never one of an earlier cycle.                              *)
RegisteredAtPeer ==
  app.phase = "ConnOps" =>
    /\ session.state = "Registered"
    /\ net.sock = "up" => srv.reg = session.handle

(* finishStep() gives the session back only after the last step: the       *)
(* target, which may still keep a connection of this or an earlier cycle,  *)
(* has been asked to close the one it keeps.  (A cycle that fails asks     *)
(* nothing and goes to RetryWait.)                                         *)
ClosedWasAsked == app.phase = "CloseSession" /\ net.sock = "up" => ~cip.wanted

(* A cycle always ends in RetryWait, whatever the target and the network   *)
(* do, except in one place: tcp.connect() failed at once, and tcp.poll()   *)
(* answers Closed, which phase Connect does not handle.                    *)
CycleEnds ==
  app.phase \in {"Connect", "OpenSession", "ConnOps", "CloseSession"}
    ~> app.phase = "RetryWait" \/ (app.phase = "Connect" /\ ~tcp.fd)

=============================================================================
