--------------------------- MODULE SessionProofs ---------------------------
(***************************************************************************)
(* What the operations of Session and Client do and keep, for whoever      *)
(* calls them: lemmas for the proofs about PlcClient and the sketch.       *)
(***************************************************************************)
EXTENDS Session, EthClient, TransportProofs

-----------------------------------------------------------------------------
(* Types.                                                                  *)

LEMMA SessionIoType ==
  ASSUME NEW c \in Command, NEW h \in Handles \cup {0}
  PROVE  NewIo(SessionPacket(c, h)) \in Io
<1>1. 1 \in 0 .. CtxMod - 1
  BY WireAssumption
<1> QED BY <1>1, PacketType DEF SessionPacket

LEMMA SessionAbortType ==
  ASSUME SessionTypeOK, SessionAbort
  PROVE  SessionTypeOK'
  BY NoIoType DEF SessionAbort, Aborted, SessionTypeOK

LEMMA SessionOpenType ==
  ASSUME SessionTypeOK, NEW conn, NEW timeout \in Nat, NEW st, SessionOpen(conn, timeout, st)
  PROVE  SessionTypeOK'
<1>1. NewIo(SessionPacket("RegisterSession", 0)) \in Io
  BY SessionIoType DEF Command
<1> QED BY <1>1 DEF SessionOpen, SessionTypeOK

LEMMA SessionCloseType ==
  ASSUME SessionTypeOK, NEW st, SessionClose(st)
  PROVE  SessionTypeOK'
<1>1. NewIo(SessionPacket("UnregisterSession", session.handle)) \in Io
  BY SessionIoType DEF Command, SessionTypeOK
<1>2. CASE SessionAbort
  BY <1>2, SessionAbortType
<1>3. CASE ~SessionAbort
  BY <1>1, <1>3 DEF SessionClose, SessionTypeOK
<1> QED BY <1>2, <1>3

LEMMA SessionPollType ==
  ASSUME TransportTypeOK, SessionTypeOK, NEW st, NEW closeOn, SessionPoll(st, closeOn)
  PROVE  TransportTypeOK' /\ SessionTypeOK'
<1>0. session.io \in Io
  BY DEF SessionTypeOK
<1>1. CASE session.state = "Registering" /\ PollRegister(st)
  <2>1. CASE SessionTimeout(st)
    BY <2>1, NoIoType DEF SessionTimeout, TransportTypeOK, SessionTypeOK
  <2>2. CASE ~SessionTimeout(st)
    <3>1. PICK o \in Transact(session.io) :
            /\ Apply(o, FALSE)
            /\ \/ session' = [session EXCEPT !.io = o.io]
               \/ session' = [session EXCEPT !.state = "Failed", !.io = NoIo]
               \/ /\ o.st = "Ok"
                  /\ session' = [session EXCEPT !.state = "Registered", !.io = NoIo,
                                                !.handle = o.io.rx[1].pkt.session]
      BY <1>1, <2>2 DEF PollRegister
    <3>2. o \in Outcomes /\ (o.st = "Ok" => Len(o.io.rx) = Frags)
      BY <1>0, TransactType
    <3>3. o.io \in Io
      BY <3>2 DEF Outcomes
    <3>4. o.st = "Ok" => o.io.rx[1].pkt.session \in Handles \cup {0}
      <4>1. o.io.rx \in Stream(Frags)
        BY <3>3 DEF Io
      <4> QED BY <3>2, <4>1, HeadPacket DEF Packet
    <3>5. TransportTypeOK'
      BY <3>1, <3>2, ApplyType
    <3>6. SessionTypeOK'
      BY <3>1, <3>3, <3>4, NoIoType DEF SessionTypeOK
    <3> QED BY <3>5, <3>6
  <2> QED BY <2>1, <2>2
<1>2. CASE session.state = "Unregistering" /\ PollUnregister(st, closeOn)
  <2>1. CASE SessionTimeout(st)
    BY <2>1, NoIoType DEF SessionTimeout, TransportTypeOK, SessionTypeOK
  <2>2. CASE ~SessionTimeout(st)
    <3>1. PICK o \in Transact(session.io) :
            /\ Apply(o, st \in closeOn)
            /\ \/ session' = [session EXCEPT !.io = o.io]
               \/ session' = [session EXCEPT !.state = "Failed", !.io = NoIo]
               \/ session' = [session EXCEPT !.state = "Closed", !.io = NoIo]
      BY <1>2, <2>2 DEF PollUnregister
    <3>2. o \in Outcomes
      BY <1>0, TransactType
    <3>3. o.io \in Io
      BY <3>2 DEF Outcomes
    <3>5. TransportTypeOK'
      BY <3>1, <3>2, ApplyType
    <3>6. SessionTypeOK'
      BY <3>1, <3>3, NoIoType DEF SessionTypeOK
    <3> QED BY <3>5, <3>6
  <2> QED BY <2>1, <2>2
<1>3. CASE UNCHANGED session /\ (TcpClose \/ UNCHANGED <<tcp, net>>)
  BY <1>3, TcpCloseType DEF TransportTypeOK, SessionTypeOK
<1> QED BY <1>1, <1>2, <1>3 DEF SessionPoll

LEMMA EthType ==
  ASSUME EthTypeOK, NEW st, EthBegin(st) \/ EthPoll(st)
  PROVE  EthTypeOK'
<1>1. CASE EthBegin(st)
  <2> DEFINE E == [started : BOOLEAN, ready : BOOLEAN, failed : BOOLEAN]
  <2>1. [started |-> FALSE, ready |-> FALSE, failed |-> TRUE] \in E
    OBVIOUS
  <2>2. [started |-> TRUE, ready |-> FALSE, failed |-> FALSE] \in E
    OBVIOUS
  <2>3. eth' \in E
    <3> HIDE DEF E
    <3> QED BY <1>1, <2>1, <2>2 DEF EthBegin
  <2> QED BY <2>3 DEF EthTypeOK
<1>2. CASE EthPoll(st)
  <2>1. CASE UNCHANGED eth
    BY <2>1 DEF EthTypeOK
  <2>2. CASE eth' = [eth EXCEPT !.ready = TRUE]
    BY <2>2 DEF EthTypeOK
  <2> QED BY <1>2, <2>1, <2>2 DEF EthPoll
<1> QED BY <1>1, <1>2

-----------------------------------------------------------------------------
(* What a poll() does.                                                     *)

(* Session::poll(): settled, expired, or a poll() of the exchange.         *)
LEMMA SessionPollCases ==
  ASSUME TransportTypeOK, SessionTypeOK, NEW st \in Status, NEW closeOn,
         SessionPoll(st, closeOn)
  PROVE  \/ /\ session.state \notin {"Registering", "Unregistering"}
            /\ st = SettledStatus[session.state]
            /\ session' = session
            /\ UNCHANGED <<tcp, net>> \/ (st \in closeOn /\ TcpClose)
         \/ /\ session.state \in {"Registering", "Unregistering"}
            /\ st = "Timeout"
            /\ session' = [session EXCEPT !.state = "Failed", !.io = NoIo]
            /\ UNCHANGED <<tcp, net>>
         \/ /\ session.state \in {"Registering", "Unregistering"}
            /\ \E o \in Transact(session.io) :
                 /\ Apply(o, FALSE) \/ (st \in closeOn /\ TcpClose)
                 /\ \/ /\ session' = [session EXCEPT !.io = o.io]
                       /\ st = "Ok" => session.state = "Unregistering"
                    \/ session' = [session EXCEPT !.state = "Failed", !.io = NoIo] /\ st # "Ok"
                    \/ /\ session.state = "Unregistering"
                       /\ session' = [session EXCEPT !.state = "Closed", !.io = NoIo]
                    \/ /\ session.state = "Registering" /\ Apply(o, FALSE) /\ st = "Ok"
                       /\ o.st = "Ok" /\ RegisterReplyOK(o.io.rx)
                       /\ session' = [session EXCEPT !.state = "Registered", !.io = NoIo,
                                                     !.handle = o.io.rx[1].pkt.session]
<1>1. CASE session.state = "Registering"
  <2>1. PollRegister(st)
    BY <1>1 DEF SessionPoll, SettledStatus
  <2>2. CASE SessionTimeout(st)
    BY <1>1, <2>2 DEF SessionTimeout
  <2>3. CASE ~SessionTimeout(st)
    <3>1. PICK o \in Transact(session.io) :
          /\ Apply(o, FALSE)
          /\ \/ /\ o.st = "Pending" \/ ~Written(o)
                /\ st = o.st
                /\ session' = [session EXCEPT !.io = o.io]
             \/ /\ o.st \in {"Closed", "Error"} /\ Written(o)
                /\ st = o.st
                /\ session' = [session EXCEPT !.state = "Failed", !.io = NoIo]
             \/ /\ o.st = "Ok" /\ RegisterReplyOK(o.io.rx)
                /\ st = "Ok"
                /\ session' = [session EXCEPT !.state = "Registered", !.io = NoIo,
                                              !.handle = o.io.rx[1].pkt.session]
             \/ /\ o.st = "Ok" /\ ~RegisterReplyOK(o.io.rx)
                /\ st = "Error"
                /\ session' = [session EXCEPT !.state = "Failed", !.io = NoIo]
      BY <2>1, <2>3 DEF PollRegister
    <3>2. o.st = "Ok" => Written(o)
      BY TransactFlow DEF Flow, Written, SessionTypeOK
    <3> QED BY <1>1, <3>1, <3>2
  <2> QED BY <2>2, <2>3
<1>2. CASE session.state = "Unregistering"
  <2>1. PollUnregister(st, closeOn)
    BY <1>2 DEF SessionPoll, SettledStatus
  <2> QED BY <1>2, <2>1 DEF PollUnregister, SessionTimeout, Apply
<1>3. CASE session.state \notin {"Registering", "Unregistering"}
  BY <1>3 DEF SessionPoll
<1> QED BY <1>1, <1>2, <1>3

(* The steps of Session and of the message in terms of the fields the      *)
(* invariants are about.                                                   *)

SessionPolled(st, closeOn) ==
  /\ Moved(session.io.req) \/ (st \in closeOn /\ TcpClose)
  /\ session'.io.req \in {session.io.req, NoIo.req}
  /\ Pkts(session'.io.rx) \subseteq Pkts(session.io.rx) \cup Pkts(net.s2c)
  /\ session'.state = "Registering" =>
       session.state = "Registering" /\ session'.io.req = session.io.req
  /\ session.state \notin {"Registering", "Unregistering"} =>
       session' = session /\ st = SettledStatus[session.state]
  /\ session.state = "Registering" => session'.state \in {"Registering", "Registered", "Failed"}
  /\ session.state = "Unregistering" => session'.state \in {"Unregistering", "Closed", "Failed"}
  /\ session.state = "Registering" => (st = "Ok" <=> session'.state = "Registered")
  /\ session.state = "Registering" /\ st = "Ok" =>
       /\ session'.handle # 0
       /\ \E p \in Pkts(session.io.rx) \cup Pkts(net.s2c) :
            p.command = "RegisterSession" /\ p.status = "ok" /\ p.session = session'.handle

LEMMA SessionPollEffect ==
  ASSUME TransportTypeOK, SessionTypeOK, NEW st \in Status, NEW closeOn,
         SessionPoll(st, closeOn)
  PROVE  SessionPolled(st, closeOn)
<1>0. /\ session.io \in Io
      /\ session.state \in {"Idle", "Registering", "Registered", "Unregistering",
                            "Closed", "Failed"}
  BY DEF SessionTypeOK
<1>1. Pkts(NoIo.rx) = {}
  BY PktsEmpty DEF NoIo, NewIo
<1>2. CASE /\ session.state \notin {"Registering", "Unregistering"}
           /\ session' = session /\ st = SettledStatus[session.state]
           /\ UNCHANGED <<tcp, net>> \/ (st \in closeOn /\ TcpClose)
  BY <1>0, <1>2, NotMoved DEF SessionPolled
<1>3. CASE /\ session.state \in {"Registering", "Unregistering"}
           /\ st = "Timeout"
           /\ session' = [session EXCEPT !.state = "Failed", !.io = NoIo]
           /\ UNCHANGED <<tcp, net>>
  <2>1. session'.state = "Failed" /\ session'.io = NoIo
    BY <1>3 DEF SessionTypeOK
  <2> QED BY <1>1, <1>3, <2>1, NotMoved DEF SessionPolled
<1>4. ASSUME NEW o \in Transact(session.io),
             session.state \in {"Registering", "Unregistering"},
             Apply(o, FALSE) \/ (st \in closeOn /\ TcpClose)
      PROVE  /\ Moved(session.io.req) \/ (st \in closeOn /\ TcpClose)
             /\ Pkts(o.io.rx) \subseteq Pkts(session.io.rx) \cup Pkts(net.s2c)
             /\ o.io.req = session.io.req
             /\ o.io \in Io /\ (o.st = "Ok" => Len(o.io.rx) = Frags)
  <2>1. o.io \in Io /\ (o.st = "Ok" => Len(o.io.rx) = Frags)
    BY <1>0, TransactType DEF Outcomes
  <2>2. o.io.req = session.io.req
    BY <1>0, TransactFlow DEF Flow
  <2>3. Pkts(o.io.rx) \subseteq Pkts(session.io.rx) \cup Pkts(net.s2c)
    BY <1>0, TransactPkts
  <2>4. Apply(o, FALSE) => Moved(session.io.req)
    BY <1>0, ApplyFlow
  <2> QED BY <1>4, <2>1, <2>2, <2>3, <2>4
<1>5. ASSUME NEW o \in Transact(session.io),
             session.state \in {"Registering", "Unregistering"},
             Apply(o, FALSE) \/ (st \in closeOn /\ TcpClose),
             session' = [session EXCEPT !.io = o.io],
             st = "Ok" => session.state = "Unregistering"
      PROVE  SessionPolled(st, closeOn)
  <2>1. session'.state = session.state /\ session'.io = o.io
    BY <1>5 DEF SessionTypeOK
  <2> QED BY <1>4, <1>5, <2>1 DEF SessionPolled
<1>6. ASSUME NEW o \in Transact(session.io),
             session.state \in {"Registering", "Unregistering"},
             Apply(o, FALSE) \/ (st \in closeOn /\ TcpClose),
             \/ session' = [session EXCEPT !.state = "Failed", !.io = NoIo] /\ st # "Ok"
             \/ /\ session.state = "Unregistering"
                /\ session' = [session EXCEPT !.state = "Closed", !.io = NoIo]
      PROVE  SessionPolled(st, closeOn)
  <2>1. /\ session'.state \in {"Closed", "Failed"} /\ session'.io = NoIo
        /\ session.state = "Registering" => st # "Ok" /\ session'.state = "Failed"
    BY <1>6 DEF SessionTypeOK
  <2> QED BY <1>1, <1>4, <1>6, <2>1 DEF SessionPolled
<1>7. ASSUME NEW o \in Transact(session.io),
             session.state = "Registering", Apply(o, FALSE), st = "Ok",
             o.st = "Ok", RegisterReplyOK(o.io.rx),
             session' = [session EXCEPT !.state = "Registered", !.io = NoIo,
                                        !.handle = o.io.rx[1].pkt.session]
      PROVE  SessionPolled(st, closeOn)
  <2>1. /\ session'.state = "Registered" /\ session'.io = NoIo
        /\ session'.handle = o.io.rx[1].pkt.session
    BY <1>7 DEF SessionTypeOK
  <2>2. o.io.rx \in Stream(Frags) /\ Len(o.io.rx) = Frags
    BY <1>4, <1>7 DEF Io
  <2>3. o.io.rx[1].pkt \in Pkts(session.io.rx) \cup Pkts(net.s2c)
    BY <1>4, <1>7, <2>2, PktsHead
  <2> QED BY <1>1, <1>4, <1>7, <2>1, <2>3 DEF SessionPolled, RegisterReplyOK
<1> QED BY <1>2, <1>3, <1>5, <1>6, <1>7, SessionPollCases

(* poll() of the message.                                                  *)
MsgPolled(st) ==
  /\ Moved(msg.io.req)
  /\ msg'.io.req \in {msg.io.req, NoIo.req}
  /\ MsgBusy' => MsgBusy /\ msg'.io.req = msg.io.req
  /\ st = "Closed" => ~(tcp'.fd /\ tcp'.state = "Ok") /\ ~MsgBusy'
  /\ ~MsgBusy => UNCHANGED <<tcp, net>>

LEMMA MsgPollEffect ==
  ASSUME TransportTypeOK, MsgTypeOK, NEW st \in Status, MsgPoll(st)
  PROVE  MsgPolled(st)
<1>0. /\ msg.io \in Io
      /\ msg.state \in {"Idle", "Sending", "Receiving", "Done", "Failed"}
  BY DEF MsgTypeOK
<1>1. CASE ~MsgBusy
  <2>1. st = MsgSettled[msg.state] /\ UNCHANGED <<tcp, net, msg>>
    BY <1>1 DEF MsgPoll
  <2>2. st # "Closed"
    BY <1>0, <1>1, <2>1 DEF MsgBusy, MsgSettled
  <2> QED BY <1>1, <2>1, <2>2, NotMoved DEF MsgPolled, MsgBusy
<1>2. CASE MsgBusy /\ MsgExpired
  <2>1. st = "Timeout" /\ msg' = MsgFailed /\ UNCHANGED <<tcp, net>>
    BY <1>2 DEF MsgPoll, PollInFlight
  <2>2. msg'.io = NoIo /\ ~MsgBusy'
    BY <2>1 DEF MsgFailed, MsgTypeOK, MsgBusy
  <2> QED BY <1>2, <2>1, <2>2, NotMoved DEF MsgPolled
<1>3. CASE MsgBusy /\ ~MsgExpired
  <2>1. PICK o \in Transact(msg.io) :
          /\ Apply(o, FALSE)
          /\ st = "Closed" => o.st = "Closed"
          /\ \/ msg' = [msg EXCEPT !.io = o.io, !.state = IF Written(o) THEN "Receiving" ELSE @]
             \/ msg' = MsgFailed
             \/ msg' = [msg EXCEPT !.state = "Done", !.timer = 0, !.io = o.io]
    BY <1>3 DEF MsgPoll, PollInFlight
  <2>2. /\ Moved(msg.io.req) /\ o.io.req = msg.io.req
        /\ o.st = "Closed" => ~(tcp'.fd /\ tcp'.state = "Ok")
    BY <1>0, <2>1, ApplyFlow
  <2>3. msg'.io = o.io \/ (msg'.io = NoIo /\ ~MsgBusy')
    BY <2>1 DEF MsgFailed, MsgTypeOK, MsgBusy
  <2>4. st = "Closed" => ~MsgBusy'
    BY <1>3, MsgPollBusy
  <2> QED BY <1>3, <2>1, <2>2, <2>3, <2>4 DEF MsgPolled
<1> QED BY <1>1, <1>2, <1>3

-----------------------------------------------------------------------------
(* Which requests the two exchanges write.                                 *)
SessionReq ==
  /\ session.io.req.command \in {"RegisterSession", "UnregisterSession"}
  /\ session.state = "Registering" => session.io.req.command = "RegisterSession"

LEMMA NoIoCommand == NoIo.req.command = "RegisterSession"
  BY DEF NoIo, NewIo

LEMMA SessionAborted ==
  ASSUME SessionTypeOK, SessionAbort
  PROVE  session'.state = "Closed" /\ session'.handle = 0 /\ session'.io = NoIo
  BY DEF SessionAbort, Aborted, SessionTypeOK

LEMMA SessionCloseEffect ==
  ASSUME SessionTypeOK, NEW st, SessionClose(st)
  PROVE  \/ session' = session
         \/ /\ session.state = "Registered" /\ session'.state = "Unregistering"
            /\ session'.io.req.command = "UnregisterSession"
         \/ session'.state = "Closed" /\ session'.io = NoIo
<1>1. CASE SessionAbort
  BY <1>1, SessionAborted
<1>2. CASE session' = [session EXCEPT !.state = "Unregistering",
                         !.io = NewIo(SessionPacket("UnregisterSession", session.handle))]
           /\ session.state = "Registered"
  BY <1>2 DEF SessionTypeOK, NewIo, SessionPacket
<1> QED BY <1>1, <1>2 DEF SessionClose

LEMMA SessionOpenEffect ==
  ASSUME SessionTypeOK, NEW conn, NEW timeout, NEW st, SessionOpen(conn, timeout, st)
  PROVE  \/ session' = session /\ st # "Pending"
         \/ /\ st = "Pending" /\ session'.state = "Registering"
            /\ session'.io.req.command = "RegisterSession" /\ session'.io.rx = << >>
<1>1. CASE st = "Pending"
  <2>1. session' = [session EXCEPT !.state = "Registering", !.timer = timeout,
                                   !.io = NewIo(SessionPacket("RegisterSession", 0))]
    BY <1>1 DEF SessionOpen
  <2> QED BY <1>1, <2>1 DEF SessionTypeOK, NewIo, SessionPacket
<1> QED BY <1>1 DEF SessionOpen

LEMMA TcpConnectState ==
  ASSUME NEW st, TcpConnect(ConnectTimeout, st)
  PROVE  tcp'.state = "Ok" => tcp.state = "Ok"
  BY DEF TcpConnect, TcpClosed

LEMMA EthEffect ==
  ASSUME EthTypeOK, NEW st, EthPoll(st)
  PROVE  /\ eth.ready => eth'.ready
         /\ eth'.ready => eth.ready \/ eth'.started
         /\ eth'.started = eth.started
         /\ st = "Ok" => eth'.ready
<1>1. CASE UNCHANGED eth /\ (st = "Ok" => eth.ready)
  BY <1>1
<1>2. CASE eth' = [eth EXCEPT !.ready = TRUE] /\ eth.started
  <2>1. eth'.ready /\ eth'.started = eth.started
    BY <1>2 DEF EthTypeOK
  <2> QED BY <1>2, <2>1
<1> QED BY <1>1, <1>2 DEF EthPoll

-----------------------------------------------------------------------------
(* Registration at the server: a reply with a handle carries the one the   *)
(* server keeps.                                                           *)
FromReg(p, reg) ==
  p.command = "RegisterSession" /\ p.status = "ok" /\ p.session # 0 => p.session = reg

(* What a server that is not asked to unregister answers: it keeps its     *)
(* session, or takes a new one for the first RegisterSession.              *)
LEMMA AnswersReg ==
  ASSUME PlcTypeOK, NEW p \in Packet, NEW a \in Answers(p), p.command # "UnregisterSession"
  PROVE  /\ a.reg = srv.reg \/ srv.reg = 0
         /\ FromReg(a.reply, a.reg)
         /\ p.command \in {"SendRRData", "SendUnitData"} => a.reg = srv.reg
<1>1. CASE p.command = "RegisterSession"
  <2>1. \/ \E h \in Handles \cup {srv.reg} :
             /\ srv.reg \in {0, h}
             /\ a = [reg |-> h, reply |-> Reply(p, h, "ok")]
        \/ a = [reg |-> srv.reg, reply |-> Reply(p, 0, "encapErr")]
    BY <1>1 DEF Answers
  <2>2. ASSUME NEW h, a = [reg |-> h, reply |-> Reply(p, h, "ok")]
        PROVE  a.reg = h /\ a.reply.session = h
    BY <2>2 DEF Reply, Packet
  <2>3. CASE a = [reg |-> srv.reg, reply |-> Reply(p, 0, "encapErr")]
    BY <1>1, <2>3 DEF Reply, Packet, FromReg
  <2> QED BY <1>1, <2>1, <2>2, <2>3 DEF FromReg
<1>2. CASE p.command \in {"SendRRData", "SendUnitData"}
  <2>1. PICK h \in Handles \cup {0}, s \in {"ok", "empty", "cipErr", "encapErr"} :
          a = [reg |-> srv.reg, reply |-> Reply(p, h, s)]
    BY <1>2 DEF Answers, Packet, PlcTypeOK
  <2>2. a.reg = srv.reg /\ a.reply = Reply(p, h, s)
    BY <2>1
  <2>3. a.reply.command = p.command
    BY <2>2 DEF Reply, Packet
  <2> QED BY <1>2, <2>2, <2>3 DEF FromReg
<1> QED BY <1>1, <1>2 DEF Packet, Command

=============================================================================
