---------------------------- MODULE SketchProofs ----------------------------
(***************************************************************************)
(* The sketch never gets stuck on a refused call, uses the session of its  *)
(* own TCP connection and gives it back only after it has asked the target *)
(* to close: proofs about ConnectedTagReadWrite for every fragmentation,   *)
(* every timeout and any number of cycles.  Sender contexts may wrap: each *)
(* cycle has a connection of its own, on which exchanges follow one        *)
(* another.                                                                *)
(***************************************************************************)
EXTENDS ConnectedTagReadWrite, SessionProofs

-----------------------------------------------------------------------------
(* Alone.  The streams q to the server and x to the client hold nothing    *)
(* but the exchange in the buffers io: what is out of its request, which   *)
(* the server has not completed, or the answer r to it, unless the server  *)
(* dropped it.                                                             *)

(* What the server keeps, session reg and connection kept, once it has     *)
(* answered req by r.                                                      *)
Effect(req, r, reg, kept) ==
  /\ req.command = "RegisterSession" => FromReg(r, reg)
  /\ req.command = "SendRRData" /\ req.tag = CloseBody /\ r.status # "encapErr" => ~kept.wanted

Asked(io, q, x) == q = SubSeq(Fragments(io.req), 1, io.sent) /\ x = << >>

Answered(io, q, x, reg, kept) ==
  /\ io.sent = Frags /\ q = << >>
  /\ x = << >> \/ \E r \in Packet : x = Fragments(r) /\ Effect(io.req, r, reg, kept)

Alone(io) ==
  \/ Asked(io, ToServer, ToClient(io))
  \/ Answered(io, ToServer, ToClient(io), srv.reg, cip)

-----------------------------------------------------------------------------
(* The inductive invariant.                                                *)

(* CIP packets are about what Connection builds.                           *)
Bodied(p) == p.command \in {"SendRRData", "SendUnitData"} => p.tag \in Payload

BodyInv ==
  \A p \in OnTheWay \cup Pkts(msg.io.rx) \cup {session.io.req, msg.io.req, conn.io.req} : Bodied(p)

(* What the buffers hold while an exchange uses them; there is room left   *)
(* for what is to be received.                                             *)
BufferInv ==
  /\ session.state = "Registering" =>
       session.io.req.command = "RegisterSession" /\ Len(session.io.rx) < Frags
  /\ session.state = "Unregistering" => session.io.req.command = "UnregisterSession"
  /\ MsgBusy => msg.io.req.command = "SendRRData" /\ Len(msg.io.rx) < Frags
  /\ conn.state = "Sending" => conn.io.req.command = "SendUnitData" /\ Len(conn.io.rx) < Frags
  /\ conn.state = "Closing" => msg.io.req.tag = CloseBody

StepState == [k \in 0 .. LastStep |->
                IF k = 0 THEN "Opening" ELSE IF k = LastStep THEN "Closing" ELSE "Sending"]

(* How far the objects are in each phase.                                  *)
PhaseInv ==
  /\ app.phase = "WaitEthernet" => tcp = TcpClosed
  /\ app.phase = "Connect" => tcp.state # "Ok"
  /\ app.phase \in {"WaitEthernet", "Connect"} =>
       session.state \notin {"Registering", "Registered"}
  /\ app.phase = "OpenSession" => session.state \in {"Registering", "Failed"}
  /\ app.phase = "ConnOps" => session.state = "Registered" /\ app.step \in 0 .. LastStep
  /\ app.phase = "CloseSession" => session.state \in {"Unregistering", "Closed", "Failed"}
  /\ app.phase \in {"OpenSession", "ConnOps", "CloseSession"} =>
       net.sock \in {"up", "fin", "reset"}

(* The Connection object in the course of the steps.                       *)
StepInv ==
  /\ MsgBusy <=> conn.state \in {"Opening", "Closing"}
  /\ app.phase # "ConnOps" => ~ConnBusy
  /\ app.phase = "ConnOps" /\ app.started => conn.state \in {"Failed", StepState[app.step]}
  /\ app.phase = "ConnOps" /\ ~app.started =>
       /\ tcp.state = "Ok"
       /\ IF app.step = 0 THEN ~ConnBusy ELSE conn.state = "Open"

Allowed == [WaitEthernet |-> Command, RetryWait |-> Command,
            Connect      |-> {},
            OpenSession  |-> {"RegisterSession"},
            ConnOps      |-> {"SendRRData", "SendUnitData"},
            CloseSession |-> {"UnregisterSession"}]

(* What is on the connection of this cycle.                                *)
WireInv ==
  /\ net.sock = "connecting" => net = Wire("connecting")
  /\ net.sock = "up" =>
    /\ \A p \in Inbound : p.command \in Allowed[app.phase]
    /\ app.phase = "Connect" => Drained
    /\ app.phase = "OpenSession" /\ session.state = "Registering" => Alone(session.io)
    /\ app.phase = "ConnOps" =>
         /\ srv.reg = session.handle
         /\ ~app.started => Drained
         /\ MsgBusy => Alone(msg.io)
         /\ conn.state = "Sending" => Alone(conn.io)
    /\ app.phase = "CloseSession" => ~cip.wanted

SketchInv ==
  /\ TypeOK /\ BodyInv /\ BufferInv /\ PhaseInv /\ StepInv /\ WireInv

-----------------------------------------------------------------------------
(* The exchange that is alone.                                             *)

(* A new exchange on drained streams.                                      *)
LEMMA AloneNew ==
  ASSUME Drained, NEW p \in Packet
  PROVE  Alone(NewIo(p))
<1>1. ToServer = << >> /\ ToClient(NewIo(p)) = << >>
  BY DEF Drained, ToServer, ToClient, NewIo
<1>2. SubSeq(Fragments(p), 1, 0) = << >>
  BY FragmentsType, SubSeqProperties
<1> QED BY <1>1, <1>2 DEF Alone, Asked, NewIo

(* A full receive buffer is what there was on the way to it, if that is    *)
(* one answer.                                                             *)
LEMMA FullBuffer ==
  ASSUME NEW rx \in Seq(Fragment), NEW y \in Seq(Fragment), Len(rx) = Frags
  PROVE  /\ rx \o y # << >>
         /\ \A r \in Packet : rx \o y = Fragments(r) => rx = Fragments(r) /\ y = << >>
<1>1. Frags \in Nat \ {0} /\ Len(y) \in Nat /\ Len(rx \o y) = Frags + Len(y)
  BY WireAssumption, LenProperties, ConcatStream
<1>2. rx \o y # << >>
  <2>1. rx # << >>
    BY <1>1, EmptySeq
  <2> QED BY <2>1, ConcatEmpty
<1>3. ASSUME NEW r \in Packet, rx \o y = Fragments(r) PROVE rx = Fragments(r) /\ y = << >>
  <2>1. Len(y) = 0
    BY <1>1, <1>3, FragmentsType
  <2>2. y = << >>
    BY <2>1, EmptySeq
  <2>3. rx \o << >> = rx
    BY ConcatEmptySeq
  <2> QED BY <1>3, <2>2, <2>3
<1> QED BY <1>2, <1>3

(* A poll() of the exchange: it stays alone; and when a whole answer is    *)
(* there, the streams are drained and the buffers hold the answer to the   *)
(* request.                                                                *)
LEMMA AlonePoll ==
  ASSUME TransportTypeOK, PlcTypeOK, NEW io \in Io, Alone(io),
         NEW o \in Transact(io), Apply(o, FALSE), UNCHANGED <<srv, cip>>, net.sock = "up"
  PROVE  /\ Alone(o.io)'
         /\ o.st = "Ok" =>
              Drained' /\ \E r \in Packet : o.io.rx = Fragments(r) /\ Effect(io.req, r, srv.reg, cip)
<1>1. PICK n \in 0 .. Frags, k \in 0 .. Frags : Flow(io, n, k, o)
  BY TransactFlow
<1>2. /\ o.io.req = io.req /\ o.io.sent = io.sent + n /\ io.sent + n <= Frags
      /\ o.st = "Ok" => Len(o.io.rx) = Frags
  BY <1>1 DEF Flow
<1>3. /\ ToServer \in Seq(Fragment) /\ io.req \in Packet /\ io.sent \in Nat /\ n \in Nat
      /\ Frags \in Nat \ {0}
  BY WayTypes
<1>4. /\ ToServer' = ToServer \o SubSeq(Fragments(io.req), io.sent + 1, io.sent + n)
      /\ ToClient(o.io)' = ToClient(io)
  BY <1>1, TransactStreams
<1>5. Fragments(io.req) \in Seq(Fragment) /\ Len(Fragments(io.req)) = Frags
  BY <1>3, FragmentsType
<1>6. ASSUME o.st = "Ok"
      PROVE  /\ ToClient(o.io)' # << >>
             /\ \A r \in Packet : ToServer' = << >> /\ ToClient(o.io)' = Fragments(r)
                                => Drained' /\ o.io.rx = Fragments(r)
  <2>1. o \in Outcomes
    BY TransactType
  <2>2. TransportTypeOK' /\ PlcTypeOK' /\ o.io \in Io
    BY <2>1, ApplyType DEF PlcTypeOK, Outcomes
  <2>3. /\ net'.s2c \in Seq(Fragment) /\ srv'.out \in Seq(Fragment)
        /\ net'.c2s \in Seq(Fragment) /\ srv'.rx \in Seq(Fragment)
        /\ o.io.rx \in Seq(Fragment) /\ Len(o.io.rx) = Frags
    BY <1>2, <1>6, <2>2, StreamType, WireAssumption DEF TransportTypeOK, PlcTypeOK, Io
  <2>4. PICK y \in Seq(Fragment) : y = net'.s2c \o srv'.out
    BY <2>3, ConcatStream
  <2>5. ToClient(o.io)' = o.io.rx \o y
    BY <2>4 DEF ToClient
  <2>6. ASSUME NEW r \in Packet, ToServer' = << >>, ToClient(o.io)' = Fragments(r)
        PROVE  Drained' /\ o.io.rx = Fragments(r)
    <3>0. PICK rx \in Seq(Fragment) : rx = o.io.rx /\ Len(rx) = Frags /\ rx \o y = Fragments(r)
      BY <2>3, <2>5, <2>6
    <3>1. o.io.rx = Fragments(r) /\ y = << >>
      BY <3>0, FullBuffer
    <3>2. net'.s2c = << >> /\ srv'.out = << >>
      BY <2>3, <2>4, <3>1, ConcatEmpty
    <3>3. net'.c2s = << >> /\ srv'.rx = << >>
      BY <2>3, <2>6, ConcatEmpty DEF ToServer
    <3> QED BY <3>1, <3>2, <3>3 DEF Drained
  <2>7. ToClient(o.io)' # << >>
    BY <2>3, <2>5, FullBuffer
  <2> QED BY <2>6, <2>7
<1>7. CASE Asked(io, ToServer, ToClient(io))
  <2> DEFINE f == Fragments(io.req)
  <2> HIDE DEF f
  <2>1. PICK a \in Nat, b \in Nat : a = io.sent /\ b = io.sent + n /\ a <= b /\ b <= Frags
    BY <1>2, <1>3
  <2>2. SubSeq(f, 1, a) \o SubSeq(f, a + 1, b) = SubSeq(f, 1, b)
    <3>1. f \in Seq(Fragment) /\ Len(f) = Frags
      BY <1>5 DEF f
    <3>2. 1 \in 1 .. Len(f) + 1 /\ a \in 1 - 1 .. Len(f) /\ b \in a .. Len(f)
      BY <1>3, <2>1, <3>1
    <3> QED BY <3>1, <3>2, ConcatAdjacentSubSeq
  <2>3. ToServer' = SubSeq(f, 1, b)
    BY <1>4, <1>7, <2>1, <2>2 DEF Asked, f
  <2>4. Asked(o.io, ToServer', ToClient(o.io)')
    BY <1>2, <1>4, <1>7, <2>1, <2>3 DEF Asked, f
  <2>5. ToClient(o.io)' = << >>
    BY <1>4, <1>7 DEF Asked
  <2>6. o.st # "Ok"
    BY <1>6, <2>5
  <2> QED BY <2>4, <2>6 DEF Alone
<1>8. CASE Answered(io, ToServer, ToClient(io), srv.reg, cip)
  <2>1. n = 0 /\ o.io.sent = Frags
    BY <1>2, <1>3, <1>8 DEF Answered
  <2>2. ToServer' = << >>
    <3>1. ToServer \o SubSeq(Fragments(io.req), io.sent + 1, io.sent + 0) = ToServer
      BY <1>2, <1>3, <1>5, NothingWritten
    <3> QED BY <1>4, <1>8, <2>1, <3>1 DEF Answered
  <2>3. Answered(o.io, ToServer', ToClient(o.io)', srv'.reg, cip')
    BY <1>2, <1>4, <1>8, <2>1, <2>2 DEF Answered
  <2>4. ASSUME o.st = "Ok"
        PROVE  Drained' /\ \E r \in Packet : o.io.rx = Fragments(r) /\ Effect(io.req, r, srv.reg, cip)
    <3>1. ToClient(o.io)' # << >>
      BY <1>6, <2>4
    <3>2. PICK r \in Packet : ToClient(o.io)' = Fragments(r) /\ Effect(io.req, r, srv.reg, cip)
      BY <1>4, <1>8, <3>1 DEF Answered
    <3> QED BY <1>6, <2>2, <2>4, <3>2
  <2> QED BY <2>3, <2>4 DEF Alone
<1> QED BY <1>7, <1>8 DEF Alone

(* What a poll() finds when there is room left for what is to be received: *)
(* a whole answer only on a connection that is open, and room is left      *)
(* unless the request is out and the poll() does not return Pending.       *)
LEMMA TransactOpen ==
  ASSUME TransportTypeOK, NEW io \in Io, Len(io.rx) < Frags, NEW o \in Transact(io)
  PROVE  /\ o.st = "Ok" => o.state = "Ok" /\ Written(o)
         /\ o.st = "Pending" \/ ~Written(o) => Len(o.io.rx) < Frags
<1>1. PICK w \in WritePending(io) : o \in (IF w.st = "Ok" THEN ReadResponse(w) ELSE {w})
  BY DEF Transact
<1>2. w \in Outcomes
  BY WritePendingType
<1>3. PICK n \in 0 .. Frags : Wrote(io, n, w)
  BY WriteFlow
<1>4. w.io.rx = io.rx /\ (w.st = "Ok" => w.io.sent = Frags)
  BY <1>3 DEF Wrote
<1>5. CASE w.st # "Ok"
  BY <1>1, <1>4, <1>5
<1>6. CASE w.st = "Ok"
  <2> DEFINE rx == w.io.rx
             n0 == Readable(rx, w.s2c)
             Result(st, k, state) ==
               Outcome(st, [req |-> w.io.req, sent |-> w.io.sent, rx |-> rx \o SubSeq(w.s2c, 1, k)],
                       state, w.c2s, SubSeq(w.s2c, k + 1, Len(w.s2c)))
  <2>1. o \in ReadResponse(w)
    BY <1>1, <1>6
  <2>2. /\ Len(rx) < Frags /\ Len(rx) \in Nat /\ rx \in Seq(Fragment)
        /\ w.s2c \in Seq(Fragment) /\ Len(w.s2c) \in Nat /\ Frags \in Nat
    BY <1>2, <1>4, StreamType, WireAssumption DEF Outcomes, Io
  <2>3. \/ \E s \in {w.state, "Closed"} : o = Result("Closed", 0, s) \/ o = Result("Closed", n0, s)
        \/ o = Result("Error", 0, w.state) \/ o = Result("Error", 1, w.state)
        \/ o = Result("Ok", n0, w.state) /\ w.state = "Ok"
        \/ o = Result("Pending", n0, w.state) /\ Len(rx) + n0 # Frags
    <3> HIDE DEF n0, Result
    <3> QED BY <2>1, <2>2 DEF ReadResponse, When, n0, Result
  <2>4. ASSUME NEW st, NEW k, NEW state, o = Result(st, k, state)
        PROVE  /\ o.st = st /\ o.state = state /\ o.io.sent = w.io.sent
               /\ o.io.rx = rx \o SubSeq(w.s2c, 1, k)
    BY <2>4 DEF Outcome
  <2>5. /\ o.st = "Ok" => o.state = "Ok"
        /\ o.io.sent = Frags /\ Written(o)
        /\ o.st = "Pending" => o.io.rx = rx \o SubSeq(w.s2c, 1, n0) /\ Len(rx) + n0 # Frags
    <3> HIDE DEF n0, rx, Result
    <3>1. CASE \E s : o = Result("Closed", 0, s) \/ o = Result("Closed", n0, s)
      BY <1>4, <1>6, <2>4, <3>1 DEF Written
    <3>2. CASE o = Result("Error", 0, w.state) \/ o = Result("Error", 1, w.state)
      BY <1>4, <1>6, <2>4, <3>2 DEF Written
    <3>3. CASE o = Result("Ok", n0, w.state) /\ w.state = "Ok"
      BY <1>4, <1>6, <2>4, <3>3 DEF Written
    <3>4. CASE o = Result("Pending", n0, w.state) /\ Len(rx) + n0 # Frags
      <4>1. o.io.sent = w.io.sent /\ o.io.rx = rx \o SubSeq(w.s2c, 1, n0)
        BY <2>4, <3>4
      <4>2. o.st = "Pending"
        BY <2>4, <3>4
      <4> QED BY <1>4, <1>6, <3>4, <4>1, <4>2 DEF Written
    <3> QED BY <2>3, <3>1, <3>2, <3>3, <3>4
  <2>6. o.st = "Pending" => Len(o.io.rx) < Frags
    <3>1. n0 \in Nat /\ n0 <= Len(w.s2c) /\ Len(rx) + n0 <= Frags
      <4>1. Frags - Len(rx) \in Nat
        BY <2>2
      <4> HIDE DEF rx
      <4> QED BY <2>2, <4>1 DEF Readable, Smaller
    <3> HIDE DEF n0
    <3>2. SubSeq(w.s2c, 1, n0) \in Seq(Fragment) /\ Len(SubSeq(w.s2c, 1, n0)) = n0
      <4>1. 1 \in Nat \ {0} /\ 1 <= n0 + 1 /\ n0 - 1 + 1 = n0
        BY <3>1
      <4> QED BY <2>2, <3>1, <4>1, SubStream
    <3>3. Len(rx \o SubSeq(w.s2c, 1, n0)) = Len(rx) + n0
      BY <2>2, <3>2, ConcatStream
    <3>4. o.st = "Pending" => Len(o.io.rx) = Len(rx) + n0 /\ Len(rx) + n0 # Frags
      BY <2>5, <3>3
    <3> HIDE DEF rx
    <3> QED BY <2>2, <3>1, <3>4
  <2> QED BY <2>5, <2>6
<1> QED BY <1>5, <1>6

-----------------------------------------------------------------------------
(* The server.                                                             *)

Ids == [ot : ConnIds \cup {0}, to : ConnIds \cup {0}, wanted : BOOLEAN]

LEMMA CipFacts ==
  ASSUME TargetTypeOK
  PROVE  /\ cip \in Ids /\ NoCip \in Ids /\ Unwanted \in Ids
         /\ ~NoCip.wanted /\ ~Unwanted.wanted
  BY DEF TargetTypeOK, Ids, NoCip, Unwanted

LEMMA SubPayload == Payload \subseteq Names
  BY ConnectionAssumption

(* Reply r to packet p, with status and body replaced.                     *)
Answer(p, status, body) == [p EXCEPT !.status = status, !.tag = body]

AnswerOK(p, a) ==
  /\ a.cip \in Ids
  /\ \/ a.out = << >>
     \/ \E r \in Packet :
          /\ a.out = Fragments(r) /\ r.command = p.command /\ r.tag \in Payload
          /\ p.tag = CloseBody /\ r.status # "encapErr" => ~a.cip.wanted

LEMMA AnswerShape ==
  ASSUME NEW p \in Packet, NEW status \in {"ok", "empty", "encapErr", "cipErr"},
         NEW body \in Payload, NEW kept \in Ids,
         p.tag = CloseBody /\ status # "encapErr" => ~kept.wanted
  PROVE  AnswerOK(p, Say(p, kept, status, body))
<1> DEFINE r == Answer(p, status, body)
<1>1. r \in Packet /\ r.command = p.command /\ r.tag \in Payload /\ r.status = status
  BY SubPayload DEF Packet, Answer
<1> HIDE DEF r
<1>2. AnswerOK(p, [cip |-> kept, out |-> Fragments(r)])
  BY <1>1 DEF AnswerOK
<1> QED BY <1>2 DEF r, Say, Answer

(* The answers to a CIP request.                                           *)
LEMMA TargetAnswers ==
  ASSUME TargetTypeOK, NEW p \in Packet, p.tag \in Payload, NEW a \in ConnAnswers(p)
  PROVE  AnswerOK(p, a)
<1>0. /\ p.tag.svc \in {"ForwardOpen", "ForwardClose", "Data"}
      /\ p.tag.ot \in ConnIds \cup {0} /\ cip \in Ids
      /\ cip.to \in ConnIds \cup {0} /\ NoCip \in Ids
      /\ p.tag = CloseBody => p.tag.svc = "ForwardClose"
  BY CipFacts DEF Payload, Ids, CloseBody
<1>1. CASE a = Silent
  BY <1>0, <1>1 DEF AnswerOK, Silent
<1>2. CASE a = Say(p, cip, "encapErr", p.tag)
  BY <1>0, <1>2, AnswerShape
<1>3. ASSUME p.tag.svc = "ForwardOpen", NEW to \in ConnIds, a = Opened(p, to)
      PROVE  AnswerOK(p, a)
  <2> DEFINE body == [p.tag EXCEPT !.to = to]
             kept == [ot |-> p.tag.ot, to |-> to, wanted |-> TRUE]
  <2>1. body \in Payload
    BY DEF Payload
  <2>2. kept \in Ids
    BY <1>0 DEF Ids
  <2>3. p.tag # CloseBody
    BY <1>0, <1>3
  <2>4. a = Say(p, kept, "ok", body)
    BY <1>3 DEF Opened
  <2> HIDE DEF body, kept
  <2> QED BY <2>1, <2>2, <2>3, <2>4, AnswerShape
<1>4. ASSUME p.tag.svc = "ForwardOpen", NEW st \in {"cipErr", "empty"}, a = Say(p, cip, st, p.tag)
      PROVE  AnswerOK(p, a)
  <2>1. st \in {"ok", "empty", "encapErr", "cipErr"} /\ p.tag # CloseBody
    BY <1>0, <1>4
  <2> QED BY <1>0, <1>4, <2>1, AnswerShape
<1>5. ASSUME NEW kept \in {NoCip, Unwanted}, NEW st \in {"ok", "cipErr"},
             a = Say(p, kept, st, p.tag)
      PROVE  AnswerOK(p, a)
  <2>1. kept \in Ids /\ ~kept.wanted
    BY CipFacts
  <2>2. st \in {"ok", "empty", "encapErr", "cipErr"}
    OBVIOUS
  <2> QED BY <1>5, <2>1, <2>2, AnswerShape
<1>6. ASSUME p.tag.svc = "Data", NEW st \in {"ok", "cipErr"},
             a = Say(p, cip, st, [p.tag EXCEPT !.ot = 0, !.to = cip.to])
      PROVE  AnswerOK(p, a)
  <2> DEFINE body == [p.tag EXCEPT !.ot = 0, !.to = cip.to]
  <2>1. body \in Payload
    BY <1>0 DEF Payload
  <2>2. st \in {"ok", "empty", "encapErr", "cipErr"} /\ p.tag # CloseBody
    BY <1>0, <1>6
  <2>3. a = Say(p, cip, st, body)
    BY <1>6
  <2> HIDE DEF body
  <2> QED BY <1>0, <2>1, <2>2, <2>3, AnswerShape
<1>7. CASE p.tag.svc = "ForwardOpen"
  <2>1. \/ a = Silent \/ a = Say(p, cip, "encapErr", p.tag)
        \/ \E to \in ConnIds : a = Opened(p, to)
        \/ \E st \in {"cipErr", "empty"} : a = Say(p, cip, st, p.tag)
    BY <1>7 DEF ConnAnswers, Served
  <2> QED BY <1>1, <1>2, <1>3, <1>4, <1>7, <2>1
<1>8. CASE p.tag.svc = "ForwardClose"
  <2>1. \/ a = Silent \/ a = Say(p, cip, "encapErr", p.tag)
        \/ \E kept \in {NoCip, Unwanted}, st \in {"ok", "cipErr"} : a = Say(p, kept, st, p.tag)
    BY <1>8 DEF ConnAnswers, Served
  <2> QED BY <1>1, <1>2, <1>5, <1>8, <2>1
<1>9. CASE p.tag.svc = "Data"
  <2>1. \/ a = Silent \/ a = Say(p, cip, "encapErr", p.tag)
        \/ \E st \in {"ok", "cipErr"} : a = Say(p, cip, st, [p.tag EXCEPT !.ot = 0, !.to = cip.to])
    BY <1>9 DEF ConnAnswers, Served
  <2> QED BY <1>1, <1>2, <1>6, <1>9, <2>1
<1> QED BY <1>0, <1>7, <1>8, <1>9

Sends == {"SendRRData", "SendUnitData"}

(* What a fragment that reaches the server does.                           *)
LEMMA ServeCases ==
  ASSUME TransportTypeOK, PlcTypeOK, TargetTypeOK, \A p \in OnTheWay : Bodied(p), TargetReceive
  PROVE  LET rx == Append(srv.rx, Head(net.c2s))
             p  == rx[1].pkt
         IN  /\ net.sock = "up" /\ net.c2s # << >> /\ srv.out = << >> /\ tcp' = tcp
             /\ net' = [net EXCEPT !.c2s = Tail(net.c2s)]
             /\ PlcTypeOK' /\ TargetTypeOK'
             /\ \/ /\ Len(rx) < Frags /\ srv'.rx = rx /\ srv'.out = << >>
                   /\ srv'.reg = srv.reg /\ cip' = cip
                \/ /\ Len(rx) = Frags /\ srv'.rx = << >> /\ p \in Inbound
                   /\ p.command \in Sends => srv'.reg = srv.reg
                   /\ p.command \notin Sends => cip' \in {cip, NoCip}
                   /\ \/ srv'.out = << >>
                      \/ \E r \in Packet :
                           /\ srv'.out = Fragments(r) /\ Bodied(r)
                           /\ p.command # "UnregisterSession" => Effect(p, r, srv'.reg, cip')
<1> DEFINE rx == Append(srv.rx, Head(net.c2s))
           p == rx[1].pkt
           request == Len(rx) = Frags /\ Intact(rx) /\ p.command \in Sends
           Full == /\ Len(rx) = Frags /\ srv'.rx = << >> /\ p \in Inbound
                   /\ p.command \in Sends => srv'.reg = srv.reg
                   /\ p.command \notin Sends => cip' \in {cip, NoCip}
                   /\ \/ srv'.out = << >>
                      \/ \E r \in Packet :
                           /\ srv'.out = Fragments(r) /\ Bodied(r)
                           /\ p.command # "UnregisterSession" => Effect(p, r, srv'.reg, cip')
<1>1. /\ net.c2s \in Seq(Fragment) /\ srv.rx \in Seq(Fragment) /\ Frags \in Nat \ {0}
      /\ cip \in Ids /\ NoCip \in Ids
  BY StreamType, WireAssumption, CipFacts DEF TransportTypeOK, PlcTypeOK
<1>3. net.sock = "up" /\ net.c2s # << >> /\ srv.out = << >> /\ tcp' = tcp
      /\ net' = [net EXCEPT !.c2s = Tail(net.c2s)]
  BY DEF TargetReceive, PlcReceive
<1>4. \/ ~request /\ PlcReceive /\ cip' = cip
      \/ /\ request
         /\ \E a \in ConnAnswers(p) :
              /\ srv' = [srv EXCEPT !.rx = << >>, !.out = a.out]
              /\ cip' = a.cip
  BY <1>3 DEF TargetReceive, Sends
<1>5. rx \in Seq(Fragment) /\ Len(rx) \in Nat
  <2>1. Head(net.c2s) \in Fragment
    BY <1>1, <1>3, HeadTailProperties
  <2> QED BY <1>1, <2>1, AppendProperties, LenProperties
<1>6. Len(rx) = Frags => p \in Inbound
  <2>1. Pkts(rx) \subseteq Inbound
    <3>1. Head(net.c2s) \in Fragment
      BY <1>1, <1>3, HeadTailProperties
    <3>2. Head(net.c2s).pkt \in Pkts(net.c2s)
      BY <1>1, <1>3, PktsTail
    <3> QED BY <1>1, <3>1, <3>2, PktsAppend DEF Inbound
  <2> HIDE DEF rx
  <2>2. Len(rx) = Frags => rx \in Stream(Frags)
    BY <1>1, <1>5 DEF Stream
  <2> QED BY <2>1, <2>2, PktsHead
<1> HIDE DEF rx
<1>7. Len(rx) = Frags => p \in Packet /\ Bodied(p)
  BY <1>6, OnTheWayType DEF OnTheWay
<1>8. << >> \in Stream(Frags) /\ \A r \in Packet : Fragments(r) \in Stream(Frags)
  BY <1>1, FragmentsType, EmptyStream DEF Stream
<1>9. CASE ~request /\ PlcReceive /\ cip' = cip
  <2>1. cip' = cip
    BY <1>9
  <2>2. TargetTypeOK'
    BY <1>1, <2>1 DEF TargetTypeOK, Ids
  <2>3. PlcTypeOK'
    BY <1>9, PlcNextType DEF PlcNext
  <2>4. \/ Len(rx) < Frags /\ srv' = [srv EXCEPT !.rx = rx]
        \/ /\ Len(rx) = Frags /\ Intact(rx)
           /\ \E a \in Answers(p) :
                srv' = [reg |-> a.reg, rx |-> << >>, out |-> Fragments(a.reply)]
        \/ Len(rx) = Frags /\ srv' = [srv EXCEPT !.rx = << >>]
        \/ /\ Len(rx) = Frags
           /\ srv' = [srv EXCEPT !.rx = << >>, !.out = Fragments(Reply(p, 0, "encapErr"))]
    BY <1>9 DEF PlcReceive, rx
  <2>5. CASE Len(rx) < Frags /\ srv' = [srv EXCEPT !.rx = rx]
    <3>1. srv'.rx = rx /\ srv'.out = << >> /\ srv'.reg = srv.reg
      BY <1>3, <2>5 DEF PlcTypeOK
    <3> QED BY <1>3, <2>1, <2>2, <2>3, <2>5, <3>1 DEF rx
  <2>7. CASE Len(rx) = Frags /\ srv' = [srv EXCEPT !.rx = << >>]
    <3>1. srv'.rx = << >> /\ srv'.out = << >> /\ srv'.reg = srv.reg
      BY <1>3, <2>7 DEF PlcTypeOK
    <3>2. Full
      BY <1>6, <2>1, <2>7, <3>1
    <3> QED BY <1>3, <2>2, <2>3, <3>2 DEF rx
  <2>8. CASE /\ Len(rx) = Frags
             /\ srv' = [srv EXCEPT !.rx = << >>, !.out = Fragments(Reply(p, 0, "encapErr"))]
    <3>1. /\ srv'.rx = << >> /\ srv'.out = Fragments(Reply(p, 0, "encapErr"))
          /\ srv'.reg = srv.reg
      BY <2>8 DEF PlcTypeOK
    <3>2. PICK r \in Packet : /\ r = Reply(p, 0, "encapErr") /\ r.status = "encapErr"
                              /\ r.command = p.command /\ r.tag = p.tag
      BY <1>7, <2>8, RefusalKeeps
    <3>3. Bodied(r) /\ Effect(p, r, srv'.reg, cip')
      BY <1>7, <2>8, <3>2 DEF Bodied, Effect, FromReg
    <3>4. Full
      BY <1>6, <2>1, <2>8, <3>1, <3>2, <3>3
    <3> QED BY <1>3, <2>2, <2>3, <3>4 DEF rx
  <2>9. ASSUME NEW a \in Answers(p), Len(rx) = Frags, Intact(rx),
               srv' = [reg |-> a.reg, rx |-> << >>, out |-> Fragments(a.reply)]
        PROVE  Full
    <3>1. srv'.rx = << >> /\ srv'.out = Fragments(a.reply) /\ srv'.reg = a.reg
      BY <2>9
    <3>2. PICK r \in Packet : r = a.reply /\ r.command = p.command /\ r.tag = p.tag
      BY <1>7, <2>9, AnswersKeep
    <3>3. Bodied(r)
      BY <1>7, <2>9, <3>2 DEF Bodied
    <3>4. p.command \notin Sends
      BY <1>9, <2>9
    <3>5. p.command # "UnregisterSession" => FromReg(r, a.reg)
      BY <1>7, <2>9, <3>2, AnswersReg
    <3>6. p.command # "UnregisterSession" => Effect(p, r, srv'.reg, cip')
      BY <3>1, <3>4, <3>5 DEF Effect, Sends
    <3> QED BY <1>6, <2>1, <2>9, <3>1, <3>2, <3>3, <3>4, <3>6
  <2> QED BY <1>3, <2>2, <2>3, <2>4, <2>5, <2>7, <2>8, <2>9 DEF rx
<1>10. ASSUME request, NEW a \in ConnAnswers(p),
              srv' = [srv EXCEPT !.rx = << >>, !.out = a.out], cip' = a.cip
       PROVE  PlcTypeOK' /\ TargetTypeOK' /\ Full
  <2>1. /\ a.cip \in Ids
        /\ \/ a.out = << >>
           \/ \E r \in Packet :
                /\ a.out = Fragments(r) /\ r.command = p.command /\ r.tag \in Payload
                /\ p.tag = CloseBody /\ r.status # "encapErr" => ~a.cip.wanted
    BY <1>7, <1>10, TargetAnswers DEF Bodied, Sends, AnswerOK
  <2>2. srv'.rx = << >> /\ srv'.out = a.out /\ srv'.reg = srv.reg
        /\ srv' = [reg |-> srv.reg, rx |-> << >>, out |-> a.out]
    BY <1>10 DEF PlcTypeOK
  <2>3. a.out \in Stream(Frags)
    BY <1>8, <2>1
  <2>4. PlcTypeOK'
    BY <1>8, <2>2, <2>3 DEF PlcTypeOK
  <2>5. TargetTypeOK'
    BY <1>10, <2>1 DEF TargetTypeOK, Ids
  <2>6. \A r \in Packet : r.tag \in Payload
                          /\ (p.tag = CloseBody /\ r.status # "encapErr" => ~a.cip.wanted)
                        => Bodied(r) /\ Effect(p, r, srv'.reg, cip')
    BY <1>10, <2>1 DEF Bodied, Effect, Sends
  <2> QED BY <1>6, <1>10, <2>1, <2>2, <2>4, <2>5, <2>6
<1>11. CASE request /\ \E a \in ConnAnswers(p) :
              /\ srv' = [srv EXCEPT !.rx = << >>, !.out = a.out]
              /\ cip' = a.cip
  BY <1>3, <1>10, <1>11 DEF rx
<1> QED BY <1>4, <1>9, <1>11


(* The streams are as they were; the server may give up its connection.    *)
LEMMA AloneKept ==
  ASSUME NEW io, Alone(io), ToServer' = ToServer, ToClient(io)' = ToClient(io),
         srv'.reg = srv.reg, cip' \in {cip, NoCip}
  PROVE  Alone(io)'
<1>1. CASE Asked(io, ToServer, ToClient(io))
  BY <1>1 DEF Alone, Asked
<1>2. CASE Answered(io, ToServer, ToClient(io), srv.reg, cip)
  <2>1. \A r : Effect(io.req, r, srv.reg, cip) => Effect(io.req, r, srv.reg, cip')
    BY DEF Effect, NoCip
  <2>2. Answered(io, ToServer, ToClient(io), srv.reg, cip')
    BY <1>2, <2>1 DEF Answered
  <2> QED BY <2>2 DEF Alone
<1> QED BY <1>1, <1>2 DEF Alone

(* A request that reaches the server whole, and nothing else, is answered  *)
(* or dropped: the exchange stays alone.                                   *)
LEMMA AloneReceive ==
  ASSUME TransportTypeOK, PlcTypeOK, TargetTypeOK, \A p \in OnTheWay : Bodied(p),
         NEW io \in Io, Alone(io), io.req.command # "UnregisterSession", TargetReceive
  PROVE  Alone(io)'
<1> DEFINE rx == Append(srv.rx, Head(net.c2s))
           rest == Tail(net.c2s)
           req == io.req
<1>1. /\ net.c2s \in Seq(Fragment) /\ net.s2c \in Seq(Fragment) /\ srv.rx \in Seq(Fragment)
      /\ srv.out \in Seq(Fragment) /\ io.rx \in Seq(Fragment)
      /\ req \in Packet /\ io.sent \in Nat /\ io.sent <= Frags /\ Frags \in Nat \ {0}
      /\ ToServer \in Seq(Fragment) /\ ToClient(io) \in Seq(Fragment)
  BY WayTypes
<1>2. /\ net.c2s # << >> /\ srv.out = << >>
      /\ net'.c2s = rest /\ net'.s2c = net.s2c
      /\ \/ Len(rx) < Frags /\ srv'.rx = rx /\ srv'.out = << >> /\ srv'.reg = srv.reg /\ cip' = cip
         \/ /\ Len(rx) = Frags /\ srv'.rx = << >>
            /\ \/ srv'.out = << >>
               \/ \E r \in Packet :
                    /\ srv'.out = Fragments(r)
                    /\ rx[1].pkt.command # "UnregisterSession" =>
                         Effect(rx[1].pkt, r, srv'.reg, cip')
  BY ServeCases DEF TransportTypeOK
<1>3. ToServer = rx \o rest /\ rx \in Seq(Fragment) /\ rest \in Seq(Fragment)
  <2>1. Head(net.c2s) \in Fragment /\ rest \in Seq(Fragment)
    BY <1>1, <1>2, HeadTailProperties
  <2>2. ToServer = rx \o rest
    BY <1>1, <1>2, MoveOne DEF ToServer
  <2> QED BY <1>1, <2>1, <2>2, AppendProperties
<1>4. rx # << >>
  <2>1. Head(net.c2s) \in Fragment
    BY <1>1, <1>2, HeadTailProperties
  <2>2. Len(rx) = Len(srv.rx) + 1 /\ Len(srv.rx) \in Nat
    BY <1>1, <2>1, AppendProperties, LenProperties
  <2>3. Len(rx) # 0
    BY <2>2
  <2> HIDE DEF rx
  <2> QED BY <2>3
<1> HIDE DEF rx, rest
<1>5. ToServer # << >>
  BY <1>3, <1>4, ConcatEmpty
<1>6. Asked(io, ToServer, ToClient(io))
  BY <1>5 DEF Alone, Answered
<1>7. CASE Len(rx) < Frags /\ srv'.rx = rx /\ srv'.out = << >> /\ srv'.reg = srv.reg /\ cip' = cip
  <2>1. ToServer' = ToServer /\ ToClient(io)' = ToClient(io)
    BY <1>2, <1>3, <1>7 DEF ToServer, ToClient
  <2> QED BY <1>7, <2>1, AloneKept
<1>8. CASE Len(rx) = Frags /\ srv'.rx = << >>
  <2>1. PICK f \in Seq(Fragment) : f = Fragments(req) /\ Len(f) = Frags /\ f[1].pkt = req
    <3>1. Fragments(req)[1].pkt = req
      BY <1>1 DEF Fragments
    <3> QED BY <1>1, <3>1, FragmentsType
  <2>2. rx \o rest = SubSeq(f, 1, io.sent)
    BY <1>3, <1>6, <2>1 DEF Asked
  <2>3. io.sent = Frags
    <3>1. Len(SubSeq(f, 1, io.sent)) = io.sent
      <4>1. 1 \in Nat \ {0} /\ 1 <= io.sent + 1 /\ io.sent - 1 + 1 = io.sent
        BY <1>1
      <4> QED BY <1>1, <2>1, <4>1, SubStream
    <3>2. PICK m \in Nat : m = Len(rest) /\ Len(rx \o rest) = Frags + m
      BY <1>3, <1>8, ConcatStream, LenProperties
    <3> QED BY <1>1, <2>2, <3>1, <3>2
  <2>4. SubSeq(f, 1, Frags) = f
    BY <2>1, SubSeqFull
  <2>5. rx = Fragments(req) /\ rest = << >>
    <3>1. rx \o rest = Fragments(req) /\ req \in Packet
      BY <1>1, <2>1, <2>2, <2>3, <2>4
    <3> HIDE DEF req
    <3> QED BY <1>3, <1>8, <3>1, FullBuffer
  <2>6. rx[1].pkt = req
    BY <2>1, <2>5
  <2>7. ToServer' = << >>
    BY <1>1, <1>2, <1>3, <1>8, <2>5, EmptyConcat DEF ToServer
  <2>8. io.rx = << >> /\ net.s2c = << >>
    <3>1. net.s2c \o << >> = net.s2c
      BY <1>1, ConcatEmptySeq
    <3>2. io.rx \o net.s2c = << >>
      BY <1>2, <1>6, <3>1 DEF Asked, ToClient
    <3> QED BY <1>1, <3>2, ConcatEmpty
  <2>9. \A t \in Seq(Fragment) : srv'.out = t => ToClient(io)' = t
    BY <1>2, <2>8, EmptyConcat DEF ToClient
  <2>10. CASE srv'.out = << >>
    <3>0. << >> \in Seq(Fragment)
      OBVIOUS
    <3>1. ToClient(io)' = << >>
      BY <2>9, <2>10, <3>0
    <3> QED BY <2>3, <2>7, <3>1 DEF Alone, Answered
  <2>11. ASSUME NEW r \in Packet, srv'.out = Fragments(r), Effect(req, r, srv'.reg, cip')
         PROVE  Alone(io)'
    <3>1. ToClient(io)' = Fragments(r)
      BY <2>9, <2>11, FragmentsType
    <3>2. Answered(io, ToServer', ToClient(io)', srv'.reg, cip')
      BY <2>3, <2>7, <2>11, <3>1 DEF Answered
    <3> QED BY <3>2 DEF Alone
  <2> QED BY <1>2, <1>8, <2>6, <2>10, <2>11
<1> QED BY <1>2, <1>7, <1>8

(* Any step of the server and the network that leaves the connection up.   *)
LEMMA AloneServe ==
  ASSUME TransportTypeOK, PlcTypeOK, TargetTypeOK, \A p \in OnTheWay : Bodied(p),
         NEW io \in Io, Alone(io), io.req.command # "UnregisterSession",
         TargetNext, net.sock = "up", net'.sock = "up"
  PROVE  Alone(io)'
<1>1. CASE TargetReceive
  BY <1>1, AloneReceive
<1>2. CASE PlcSend /\ UNCHANGED cip
  <2>1. /\ net'.s2c = Append(net.s2c, Head(srv.out)) /\ net'.c2s = net.c2s
        /\ srv'.out = Tail(srv.out) /\ srv'.rx = srv.rx /\ srv.out # << >> /\ srv'.reg = srv.reg
    BY <1>2, PlcSendPkts DEF TransportTypeOK, PlcTypeOK
  <2>2. net'.s2c \o srv'.out = net.s2c \o srv.out
    BY <2>1, WayTypes, MoveOne
  <2>3. ToServer' = ToServer /\ ToClient(io)' = ToClient(io)
    BY <2>1, <2>2 DEF ToServer, ToClient
  <2> QED BY <1>2, <2>1, <2>3, AloneKept
<1>3. CASE PlcAccept \/ PlcClose
  <2>1. CASE net' = Wire("reset")
    BY <2>1 DEF Wire
  <2>2. CASE net' = [net EXCEPT !.sock = "fin", !.c2s = << >>]
    BY <2>2 DEF TransportTypeOK
  <2> QED BY <1>3, <2>1, <2>2 DEF PlcAccept, PlcClose
<1>4. CASE TargetDrop
  <2>1. ToServer' = ToServer /\ ToClient(io)' = ToClient(io) /\ srv'.reg = srv.reg
    BY <1>4 DEF TargetDrop, ToServer, ToClient
  <2> QED BY <1>4, <2>1, AloneKept DEF TargetDrop
<1> QED BY <1>1, <1>2, <1>3, <1>4 DEF TargetNext

(* What a step of the server and the network does to the connection.       *)
LEMMA NetworkEffect ==
  ASSUME TransportTypeOK, PlcTypeOK, TargetTypeOK, \A p \in OnTheWay : Bodied(p),
         net.sock = "connecting" => net = Wire("connecting"), TargetNext
  PROVE  /\ TransportTypeOK' /\ PlcTypeOK' /\ TargetTypeOK'
         /\ tcp' = tcp
         /\ \A p \in OnTheWay' : Bodied(p)
         /\ net.sock = "connecting" => net'.sock \in {"connecting", "up", "refused"}
         /\ net'.sock = "connecting" => net'.c2s = << >> /\ net'.s2c = << >>
         /\ net'.sock # net.sock =>
              \/ net.sock = "connecting" /\ (net'.sock = "up" => Drained' /\ Inbound' = {})
              \/ net.sock = "up" /\ net'.sock \in {"fin", "reset"}
         /\ net'.sock = "up" /\ net.sock = "up" =>
              /\ Inbound' \subseteq Inbound
              /\ Drained => Drained' /\ srv'.reg = srv.reg
              /\ (\A q \in Inbound : q.command \in Sends) => srv'.reg = srv.reg
              /\ (\A q \in Inbound : q.command \notin Sends) => cip' \in {cip, NoCip}
<1>0. /\ net.c2s \in Seq(Fragment) /\ net.s2c \in Seq(Fragment)
      /\ srv.rx \in Seq(Fragment) /\ srv.out \in Seq(Fragment)
      /\ NoCip \in Ids
  BY StreamType, WireAssumption, CipFacts DEF TransportTypeOK, PlcTypeOK
<1>1. CASE TargetReceive
  <2> DEFINE rx == Append(srv.rx, Head(net.c2s))
  <2>1. /\ net.sock = "up" /\ net.c2s # << >> /\ srv.out = << >> /\ tcp' = tcp
        /\ net' = [net EXCEPT !.c2s = Tail(net.c2s)]
        /\ PlcTypeOK' /\ TargetTypeOK'
        /\ \/ /\ srv'.rx = rx /\ srv'.out = << >>
              /\ srv'.reg = srv.reg /\ cip' = cip
           \/ /\ srv'.rx = << >> /\ rx[1].pkt \in Inbound
              /\ rx[1].pkt.command \in Sends => srv'.reg = srv.reg
              /\ rx[1].pkt.command \notin Sends => cip' \in {cip, NoCip}
              /\ \/ srv'.out = << >>
                 \/ \E r \in Packet : srv'.out = Fragments(r) /\ Bodied(r)
    BY <1>1, ServeCases
  <2>2. net'.sock = net.sock /\ net'.c2s = Tail(net.c2s) /\ net'.s2c = net.s2c
    BY <2>1 DEF TransportTypeOK
  <2>3. /\ Tail(net.c2s) \in Seq(Fragment) /\ Len(Tail(net.c2s)) = Len(net.c2s) - 1
        /\ Head(net.c2s) \in Fragment
    BY <1>0, <2>1, HeadTailProperties
  <2>4. Pkts(Tail(net.c2s)) \subseteq Pkts(net.c2s) /\ Head(net.c2s).pkt \in Pkts(net.c2s)
    BY <1>0, <2>1, PktsTail
  <2>5. Pkts(rx) \subseteq Inbound
    BY <1>0, <2>3, <2>4, PktsAppend DEF Inbound
  <2> HIDE DEF rx
  <2>7. TransportTypeOK'
    <3>1. Len(net.c2s) \in Nat /\ Len(net.c2s) <= SndBuf /\ SndBuf \in Nat
      BY StreamType, WireAssumption DEF TransportTypeOK
    <3>2. Tail(net.c2s) \in Stream(SndBuf)
      BY <2>3, <3>1 DEF Stream
    <3> QED BY <2>1, <3>2 DEF TransportTypeOK
  <2>8. Inbound' \subseteq Inbound
    BY <2>1, <2>2, <2>4, <2>5, PktsEmpty DEF Inbound
  <2>9. ASSUME NEW p \in OnTheWay' PROVE Bodied(p)
    <3>1. CASE p \in OnTheWay
      BY <3>1
    <3>2. CASE p \in Pkts(srv'.out)
      <4>1. srv'.out # << >>
        BY <3>2, PktsEmpty
      <4>2. PICK r \in Packet : srv'.out = Fragments(r) /\ Bodied(r)
        BY <2>1, <4>1
      <4>3. p = r
        BY <3>2, <4>2, PktsFragments
      <4> QED BY <4>2, <4>3
    <3> QED BY <2>2, <2>8, <3>1, <3>2 DEF OnTheWay
  <2>10. ~Drained
    BY <2>1 DEF Drained
  <2> QED BY <2>1, <2>2, <2>7, <2>8, <2>9, <2>10
<1>2. CASE PlcSend /\ UNCHANGED cip
  <2>1. /\ TransportTypeOK' /\ PlcTypeOK' /\ TargetTypeOK'
    BY <1>2, PlcNextType DEF PlcNext, TargetTypeOK
  <2>2. /\ tcp' = tcp /\ net'.sock = net.sock /\ net'.c2s = net.c2s /\ srv'.rx = srv.rx
        /\ srv.out # << >> /\ net.sock = "up" /\ srv'.reg = srv.reg
        /\ Pkts(net'.s2c) \subseteq Pkts(net.s2c) \cup Pkts(srv.out)
        /\ Pkts(srv'.out) \subseteq Pkts(srv.out)
    BY <1>2, PlcSendPkts DEF TransportTypeOK, PlcTypeOK
  <2>3. Inbound' \subseteq Inbound /\ OnTheWay' \subseteq OnTheWay
    BY <2>2 DEF Inbound, OnTheWay
  <2> QED BY <1>2, <2>1, <2>2, <2>3 DEF Drained
<1>3. CASE (PlcAccept \/ PlcClose) /\ UNCHANGED cip
  <2>1. /\ TransportTypeOK' /\ PlcTypeOK' /\ TargetTypeOK'
    BY <1>0, <1>3, PlcNextType DEF PlcNext, TargetTypeOK
  <2>2. tcp' = tcp /\ srv'.rx = << >> /\ srv'.out = << >>
    BY <1>3 DEF PlcAccept, PlcClose, SrvFresh
  <2>3. \/ /\ net.sock = "connecting" /\ net'.sock \in {"up", "refused"}
           /\ net'.c2s = << >> /\ net'.s2c = << >>
        \/ /\ net.sock = "up" /\ net'.sock \in {"fin", "reset"}
           /\ net'.c2s = << >>
           /\ net'.s2c = net.s2c \/ net'.s2c = << >>
    <3>1. CASE PlcClose /\ net' = Wire("reset")
      BY <3>1 DEF Wire, PlcClose
    <3>2. CASE PlcClose /\ net' = [net EXCEPT !.sock = "fin", !.c2s = << >>]
      BY <3>2 DEF TransportTypeOK, PlcClose
    <3>3. CASE PlcAccept
      <4>1. net.sock = "connecting" /\ net.c2s = << >> /\ net.s2c = << >>
        BY <3>3 DEF PlcAccept, Wire
      <4>2. PICK s \in {"up", "refused"} : net' = [net EXCEPT !.sock = s]
        BY <3>3 DEF PlcAccept
      <4> QED BY <4>1, <4>2 DEF TransportTypeOK
    <3> QED BY <1>3, <3>1, <3>2, <3>3 DEF PlcClose
  <2>4. OnTheWay' \subseteq OnTheWay
    BY <2>2, <2>3, PktsEmpty DEF Inbound, OnTheWay
  <2>5. net.sock = "connecting" => Inbound' = {} /\ Drained'
    BY <2>2, <2>3, PktsEmpty DEF Inbound, Drained
  <2> QED BY <2>1, <2>2, <2>3, <2>4, <2>5
<1>4. CASE TargetDrop
  <2>1. TransportTypeOK' /\ PlcTypeOK' /\ TargetTypeOK'
    BY <1>0, <1>4 DEF TargetDrop, TransportTypeOK, PlcTypeOK, TargetTypeOK, Ids
  <2>2. Inbound' = Inbound /\ OnTheWay' = OnTheWay
    BY <1>4 DEF TargetDrop, Inbound, OnTheWay
  <2>3. Drained => Drained'
    BY <1>4 DEF TargetDrop, Drained
  <2> QED BY <1>4, <2>1, <2>2, <2>3 DEF TargetDrop, Wire
<1> QED BY <1>1, <1>2, <1>3, <1>4 DEF TargetNext


-----------------------------------------------------------------------------
(* The parts of the invariant that most steps leave alone.                 *)

(* Nothing on the way that no exchange has put there.                      *)
LEMMA BodyKept ==
  ASSUME BodyInv,
         OnTheWay' \subseteq OnTheWay \cup {session.io.req, msg.io.req, conn.io.req},
         Pkts(msg.io.rx)' \subseteq Pkts(msg.io.rx) \cup OnTheWay,
         Bodied(session'.io.req), Bodied(msg'.io.req), Bodied(conn'.io.req)
  PROVE  BodyInv'
<1> SUFFICES ASSUME NEW p \in (OnTheWay \cup Pkts(msg.io.rx)
                                 \cup {session.io.req, msg.io.req, conn.io.req})'
             PROVE  Bodied(p)
  BY DEF BodyInv
<1> QED BY DEF BodyInv

LEMMA NoIoBodied == Bodied(NoIo.req) /\ Pkts(NoIo.rx) = {} /\ Len(NoIo.rx) < Frags
<1>1. NoIo.rx = << >> /\ NoIo.req.command = "RegisterSession"
  BY DEF NoIo, NewIo
<1> QED BY <1>1, PktsEmpty, WireAssumption DEF Bodied

(* What is moved by a poll() of an exchange.                               *)
LEMMA MovedWay ==
  ASSUME NEW req, Moved(req), UNCHANGED srv
  PROVE  /\ net'.sock = net.sock
         /\ Inbound' \subseteq Inbound \cup {req} /\ OnTheWay' \subseteq OnTheWay \cup {req}
  BY DEF Moved, Inbound, OnTheWay

LEMMA DrainedWay ==
  ASSUME Drained
  PROVE  Inbound = {}
  BY PktsEmpty DEF Drained, Inbound

(* A connection that is closed or asked for has nothing on it.             *)
LEMMA WireWay ==
  ASSUME NEW s, net' = Wire(s), UNCHANGED srv
  PROVE  OnTheWay' \subseteq OnTheWay /\ net'.sock = s
<1>1. net'.sock = s /\ net'.c2s = << >> /\ net'.s2c = << >>
  BY DEF Wire
<1> QED BY <1>1, PktsEmpty DEF OnTheWay, Inbound

(* Only countdowns and the interface change, or nothing.                   *)
LEMMA QuietStep ==
  ASSUME SketchInv, TypeOK', UNCHANGED <<net, srv, cip>>,
         tcp'.state = tcp.state, tcp = TcpClosed => tcp' = TcpClosed,
         session'.state = session.state, session'.handle = session.handle,
         session'.io = session.io,
         msg'.state = msg.state, msg'.io = msg.io,
         conn'.state = conn.state, conn'.io = conn.io,
         app'.phase = app.phase, app'.step = app.step, app'.started = app.started
  PROVE  SketchInv'
<1>1. BodyInv'
  BY DEF SketchInv, BodyInv, OnTheWay, Inbound
<1>2. BufferInv'
  BY DEF SketchInv, BufferInv, MsgBusy
<1>3. PhaseInv'
  BY DEF SketchInv, PhaseInv
<1>4. StepInv'
  BY DEF SketchInv, StepInv, MsgBusy, ConnBusy
<1>5. Drained' <=> Drained
  BY DEF Drained
<1>6. /\ Alone(session.io)' <=> Alone(session.io)
      /\ Alone(msg.io)' <=> Alone(msg.io)
      /\ Alone(conn.io)' <=> Alone(conn.io)
  BY DEF Alone, ToServer, ToClient
<1>7. WireInv'
  BY <1>5, <1>6 DEF SketchInv, WireInv, Inbound, MsgBusy
<1> QED BY <1>1, <1>2, <1>3, <1>4, <1>7 DEF SketchInv

LEMMA StutterStep ==
  ASSUME SketchInv, UNCHANGED vars
  PROVE  SketchInv'
<1>1. TypeOK'
  BY DEF SketchInv, vars, TypeOK, TransportTypeOK, PlcTypeOK, TargetTypeOK, EthTypeOK,
         SessionTypeOK, MsgTypeOK, ConnTypeOK
<1> QED BY <1>1, QuietStep DEF vars

(* The sketch gives up: whatever is on the way stays there until the       *)
(* connection is closed.                                                   *)
LEMMA RetryStep ==
  ASSUME TypeOK', BodyInv', BufferInv', app'.phase = "RetryWait",
         ~MsgBusy', ~ConnBusy', net'.sock # "connecting"
  PROVE  SketchInv'
<1>1. PhaseInv'
  BY DEF PhaseInv
<1>2. StepInv'
  BY DEF StepInv, ConnBusy
<1>3. \A p \in Inbound' : p.command \in Command
  <2>1. net'.c2s \in Seq(Fragment) /\ srv'.rx \in Seq(Fragment)
    BY StreamType, WireAssumption DEF TypeOK, TransportTypeOK, PlcTypeOK
  <2>2. Pkts(net'.c2s) \subseteq Packet /\ Pkts(srv'.rx) \subseteq Packet
    BY <2>1, PktsType
  <2> QED BY <2>2 DEF Inbound, Packet
<1>4. WireInv'
  BY <1>3 DEF WireInv, Allowed
<1> QED BY <1>1, <1>2, <1>4 DEF SketchInv

LEMMA AppTypes ==
  ASSUME TypeOK
  PROVE  /\ app.phase \in DOMAIN Allowed /\ app.step \in 0 .. LastStep + 1
         /\ app.started \in BOOLEAN /\ app.timer \in Nat
         /\ app = [phase |-> app.phase, step |-> app.step, started |-> app.started,
                   timer |-> app.timer]
  BY DEF TypeOK, Allowed

(* TypeOK of app after GotoRetry and Goto.                                 *)
LEMMA AppGoto ==
  ASSUME TypeOK
  PROVE  /\ GotoRetry => app'.phase = "RetryWait"
         /\ \A phase : Goto(phase) => /\ app'.phase = phase
                                      /\ app'.step = app.step /\ app'.started = app.started
  BY DEF GotoRetry, Goto, TypeOK


-----------------------------------------------------------------------------
(* The phases before the session.                                          *)

LEMMA WaitEthernetStep ==
  ASSUME SketchInv, WaitEthernet
  PROVE  SketchInv'
<1>0. app.phase = "WaitEthernet" /\ UNCHANGED <<srv, cip, session, msg, conn>>
  BY DEF WaitEthernet
<1>1. PlcTypeOK' /\ TargetTypeOK' /\ SessionTypeOK' /\ MsgTypeOK' /\ ConnTypeOK'
  BY <1>0 DEF SketchInv, TypeOK, PlcTypeOK, TargetTypeOK, SessionTypeOK, MsgTypeOK, ConnTypeOK
<1>2. EthTypeOK'
  BY EthType DEF SketchInv, TypeOK, WaitEthernet
<1>3. CASE UNCHANGED <<tcp, net, app>>
  <2>1. TypeOK'
    BY <1>1, <1>2, <1>3 DEF SketchInv, TypeOK, TransportTypeOK
  <2> QED BY <1>0, <1>3, <2>1, QuietStep
<1>4. ASSUME NEW st \in Status, TcpConnect(ConnectTimeout, st), Goto("Connect")
      PROVE  SketchInv'
  <2>1. app'.phase = "Connect"
    BY <1>4, AppGoto DEF SketchInv
  <2>2. TypeOK'
    <3>1. TransportTypeOK'
      BY <1>4, TcpConnectType, TimeoutAssumption DEF SketchInv, TypeOK
    <3>2. app' = [app EXCEPT !.phase = "Connect"]
      BY <1>4 DEF Goto
    <3> QED BY <1>1, <1>2, <3>1, <3>2 DEF SketchInv, TypeOK
  <2>3. tcp'.state # "Ok" /\ (net' = Wire("connecting") \/ net' = Wire("none"))
    <3>1. tcp = TcpClosed
      BY <1>0 DEF SketchInv, PhaseInv
    <3> QED BY <1>4, <3>1 DEF TcpConnect, TcpClosed
  <2>4. OnTheWay' \subseteq OnTheWay /\ net'.sock \in {"connecting", "none"}
    BY <1>0, <2>3, WireWay
  <2>5. BodyInv'
    BY <1>0, <2>4, BodyKept DEF SketchInv, BodyInv
  <2>6. BufferInv'
    BY <1>0 DEF SketchInv, BufferInv, MsgBusy
  <2>7. PhaseInv'
    BY <1>0, <2>1, <2>3 DEF SketchInv, PhaseInv
  <2>8. StepInv'
    BY <1>0, <2>1 DEF SketchInv, StepInv, MsgBusy, ConnBusy
  <2>9. WireInv'
    BY <2>3, <2>4 DEF WireInv, Wire
  <2> QED BY <2>2, <2>5, <2>6, <2>7, <2>8, <2>9 DEF SketchInv
<1> QED BY <1>3, <1>4 DEF WaitEthernet

LEMMA ConnectStep ==
  ASSUME SketchInv, Connect
  PROVE  SketchInv'
<1>0. app.phase = "Connect" /\ UNCHANGED <<srv, cip, eth, msg, conn>>
  BY DEF Connect
<1>1. PICK st \in Status :
        /\ TcpPoll(st)
        /\ \/ /\ st = "Ok"
              /\ \E ost \in Status : SessionOpen(tcp', ConnectTimeout, ost)
              /\ Goto("OpenSession")
           \/ st \in {"Timeout", "Error"} /\ GotoRetry /\ UNCHANGED session
           \/ st \notin {"Ok", "Timeout", "Error"} /\ UNCHANGED <<session, app>>
  BY DEF Connect
<1>2. TransportTypeOK' /\ PlcTypeOK' /\ TargetTypeOK' /\ EthTypeOK' /\ MsgTypeOK' /\ ConnTypeOK'
  BY <1>0, <1>1, TcpPollType
     DEF SketchInv, TypeOK, PlcTypeOK, TargetTypeOK, EthTypeOK, MsgTypeOK, ConnTypeOK
<1>3. tcp.state # "Ok" /\ session.state \notin {"Registering", "Registered"}
      /\ ~ConnBusy /\ (net.sock = "up" => Drained)
  BY <1>0 DEF SketchInv, PhaseInv, StepInv, WireInv
<1>4. CASE st \notin {"Ok", "Timeout", "Error"} /\ UNCHANGED <<session, app>>
  <2>1. UNCHANGED <<tcp, net>>
    BY <1>1, <1>4 DEF TcpPoll
  <2> QED BY <1>0, <1>4, <2>1, StutterStep DEF vars
<1>5. CASE st \in {"Timeout", "Error"} /\ GotoRetry /\ UNCHANGED session
  <2>1. TcpClose
    BY <1>1, <1>5 DEF TcpPoll
  <2>2. OnTheWay' \subseteq OnTheWay /\ net'.sock = "none"
    BY <1>0, <2>1, WireWay DEF TcpClose
  <2>3. TypeOK'
    <3>1. app' = [app EXCEPT !.phase = "RetryWait", !.timer = RetryDelay]
      BY <1>5 DEF GotoRetry
    <3>2. SessionTypeOK'
      BY <1>5 DEF SketchInv, TypeOK, SessionTypeOK
    <3> QED BY <1>2, <3>1, <3>2, SketchAssumption DEF SketchInv, TypeOK
  <2>4. BodyInv'
    BY <1>0, <1>5, <2>2, BodyKept DEF SketchInv, BodyInv
  <2>5. BufferInv'
    BY <1>0, <1>5 DEF SketchInv, BufferInv, MsgBusy
  <2>6. app'.phase = "RetryWait" /\ ~MsgBusy' /\ ~ConnBusy'
    BY <1>0, <1>3, <1>5, AppGoto DEF SketchInv, StepInv, MsgBusy, ConnBusy
  <2> QED BY <2>2, <2>3, <2>4, <2>5, <2>6, RetryStep
<1>6. CASE /\ st = "Ok"
           /\ \E ost \in Status : SessionOpen(tcp', ConnectTimeout, ost)
           /\ Goto("OpenSession")
  <2> DEFINE req == SessionPacket("RegisterSession", 0)
  <2>1. tcp' = [tcp EXCEPT !.state = "Ok"] /\ net' = net /\ net.sock \in {"up", "fin"}
    BY <1>1, <1>3, <1>6 DEF TcpPoll
  <2>2. Connected(tcp')
    BY <2>1 DEF Connected, SketchInv, TypeOK, TransportTypeOK
  <2>3. session' = [session EXCEPT !.state = "Registering", !.timer = ConnectTimeout,
                                   !.io = NewIo(req)]
    BY <1>3, <1>6, <2>2 DEF SessionOpen
  <2>4. /\ session'.state = "Registering" /\ session'.io = NewIo(req)
        /\ session'.handle = session.handle
    BY <2>3 DEF SketchInv, TypeOK, SessionTypeOK
  <2>5. app'.phase = "OpenSession" /\ app'.step = app.step /\ app'.started = app.started
    BY <1>6, AppGoto DEF SketchInv
  <2>6. TypeOK'
    <3>1. app' = [app EXCEPT !.phase = "OpenSession"]
      BY <1>6 DEF Goto
    <3>2. SessionTypeOK'
      BY <1>6, SessionOpenType, TimeoutAssumption DEF SketchInv, TypeOK
    <3> QED BY <1>2, <3>1, <3>2 DEF SketchInv, TypeOK
  <2>7. /\ req.command = "RegisterSession" /\ req \in Packet
        /\ NewIo(req).req = req /\ NewIo(req).rx = << >>
    <3>1. NewIo(req) \in Io
      BY SessionIoType DEF Command
    <3> QED BY <3>1 DEF SessionPacket, NewIo, Io
  <2> HIDE DEF req
  <2>8. BodyInv'
    <3>1. OnTheWay' = OnTheWay
      BY <1>0, <2>1 DEF OnTheWay, Inbound
    <3>2. Bodied(session'.io.req)
      BY <2>4, <2>7 DEF Bodied
    <3> QED BY <1>0, <3>1, <3>2, BodyKept DEF SketchInv, BodyInv
  <2>9. BufferInv'
    BY <1>0, <2>4, <2>7, WireAssumption DEF SketchInv, BufferInv, MsgBusy
  <2>10. PhaseInv'
    BY <2>1, <2>4, <2>5 DEF PhaseInv
  <2>11. StepInv'
    BY <1>0, <1>3, <2>5 DEF SketchInv, StepInv, MsgBusy, ConnBusy
  <2>12. WireInv'
    <3>1. CASE net.sock = "up"
      <4>1. Drained /\ Inbound = {}
        BY <1>3, <3>1, DrainedWay
      <4>2. Alone(NewIo(req))
        BY <2>7, <4>1, AloneNew
      <4>3. Alone(session.io)' /\ Inbound' = {}
        BY <1>0, <2>1, <2>4, <4>1, <4>2 DEF Alone, ToServer, ToClient, Inbound
      <4> QED BY <2>1, <2>5, <3>1, <4>3 DEF WireInv
    <3>2. CASE net.sock # "up"
      BY <2>1, <3>2 DEF WireInv
    <3> QED BY <3>1, <3>2
  <2> QED BY <2>6, <2>8, <2>9, <2>10, <2>11, <2>12 DEF SketchInv
<1> QED BY <1>1, <1>4, <1>5, <1>6

(* The wait: session and connection are given up.                          *)
LEMMA RetryWaitStep ==
  ASSUME SketchInv, RetryWait
  PROVE  SketchInv'
<1>0. /\ app.phase = "RetryWait" /\ UNCHANGED <<srv, cip, eth, msg, conn>>
      /\ SessionAbort /\ TcpClose
      /\ app' = app \/ Goto("WaitEthernet")
  BY DEF RetryWait
<1>1. session'.state = "Closed" /\ session'.io = NoIo
  BY <1>0, SessionAborted DEF SketchInv, TypeOK
<1>2. /\ app'.phase \in {"RetryWait", "WaitEthernet"}
      /\ app'.step = app.step /\ app'.started = app.started
  BY <1>0, AppGoto DEF SketchInv
<1>3. OnTheWay' \subseteq OnTheWay /\ net'.sock = "none" /\ tcp' = TcpClosed
  BY <1>0, WireWay DEF TcpClose
<1>4. TypeOK'
  <2>1. TransportTypeOK' /\ SessionTypeOK'
    BY <1>0, TcpCloseType, SessionAbortType DEF SketchInv, TypeOK
  <2>2. app' = app \/ app' = [app EXCEPT !.phase = "WaitEthernet"]
    BY <1>0 DEF Goto
  <2>3. PlcTypeOK' /\ TargetTypeOK' /\ EthTypeOK' /\ MsgTypeOK' /\ ConnTypeOK'
    BY <1>0 DEF SketchInv, TypeOK, PlcTypeOK, TargetTypeOK, EthTypeOK, MsgTypeOK, ConnTypeOK
  <2> QED BY <2>1, <2>2, <2>3 DEF SketchInv, TypeOK
<1>5. BodyInv'
  BY <1>0, <1>1, <1>3, NoIoBodied, BodyKept DEF SketchInv, BodyInv
<1>6. BufferInv'
  BY <1>0, <1>1 DEF SketchInv, BufferInv, MsgBusy
<1>7. PhaseInv'
  BY <1>1, <1>2, <1>3 DEF PhaseInv
<1>8. StepInv'
  BY <1>0, <1>2 DEF SketchInv, StepInv, MsgBusy, ConnBusy
<1>9. WireInv'
  BY <1>3 DEF WireInv
<1> QED BY <1>4, <1>5, <1>6, <1>7, <1>8, <1>9 DEF SketchInv

LEMMA TickStep ==
  ASSUME SketchInv, Tick
  PROVE  SketchInv'
<1>0. /\ tcp' = [tcp EXCEPT !.timer = Dec(tcp.timer)]
      /\ session' = [session EXCEPT !.timer = Dec(session.timer)]
      /\ msg' = [msg EXCEPT !.timer = Dec(msg.timer)]
      /\ conn' = [conn EXCEPT !.timer = Dec(conn.timer)]
      /\ app' = [app EXCEPT !.timer = Dec(app.timer)]
      /\ UNCHANGED <<net, srv, cip, eth>>
  BY DEF Tick, SessionTick, MsgTick, ConnTick
<1>1. /\ Dec(tcp.timer) \in Nat /\ Dec(session.timer) \in Nat /\ Dec(msg.timer) \in Nat
      /\ Dec(conn.timer) \in Nat /\ Dec(app.timer) \in Nat
  BY DecType DEF SketchInv, TypeOK, TransportTypeOK, SessionTypeOK, MsgTypeOK, ConnTypeOK
<1>2. TransportTypeOK' /\ PlcTypeOK' /\ TargetTypeOK' /\ EthTypeOK'
  BY <1>0, <1>1
     DEF SketchInv, TypeOK, TransportTypeOK, PlcTypeOK, TargetTypeOK, EthTypeOK
<1>3. SessionTypeOK' /\ MsgTypeOK'
  BY <1>0, <1>1 DEF SketchInv, TypeOK, SessionTypeOK, MsgTypeOK
<1>4. ConnTypeOK'
  BY <1>0, <1>1 DEF SketchInv, TypeOK, ConnTypeOK
<1>5. TypeOK'
  BY <1>0, <1>1, <1>2, <1>3, <1>4 DEF SketchInv, TypeOK
<1>6. tcp'.state = tcp.state /\ (tcp = TcpClosed => tcp' = TcpClosed)
  <2>1. tcp'.state = tcp.state
    BY <1>0 DEF SketchInv, TypeOK, TransportTypeOK
  <2>2. tcp = TcpClosed => tcp' = TcpClosed
    <3>1. tcp = TcpClosed => Dec(tcp.timer) = 0
      BY DEF TcpClosed, Dec
    <3> QED BY <1>0, <3>1 DEF TcpClosed
  <2> QED BY <2>1, <2>2
<1>7. /\ session'.state = session.state /\ session'.handle = session.handle
      /\ session'.io = session.io
      /\ msg'.state = msg.state /\ msg'.io = msg.io
  BY <1>0 DEF SketchInv, TypeOK, SessionTypeOK, MsgTypeOK
<1>8. /\ conn'.state = conn.state /\ conn'.io = conn.io
      /\ app'.phase = app.phase /\ app'.step = app.step /\ app'.started = app.started
  BY <1>0 DEF SketchInv, TypeOK, ConnTypeOK
<1> QED BY <1>0, <1>5, <1>6, <1>7, <1>8, QuietStep


-----------------------------------------------------------------------------
(* The session: registered on a connection that holds nothing else.        *)

(* What Session::poll() makes of the registration.                         *)
LEMMA RegisterPoll ==
  ASSUME SketchInv, app.phase = "OpenSession", session.state = "Registering",
         NEW st \in Status, SessionPoll(st, {}), UNCHANGED <<srv, cip>>
  PROVE  /\ Moved(session.io.req)
         /\ \/ /\ session'.state = "Registering" /\ session'.io.req = session.io.req
               /\ Len(session'.io.rx) < Frags /\ st # "Ok"
               /\ net'.sock = "up" => Alone(session.io)'
            \/ session'.state = "Failed" /\ session'.io = NoIo /\ st # "Ok"
            \/ /\ session'.state = "Registered" /\ session'.io = NoIo /\ st = "Ok"
               /\ tcp'.state = "Ok"
               /\ net'.sock = "up" => Drained' /\ srv'.reg = session'.handle
<1>0. /\ TransportTypeOK /\ PlcTypeOK /\ SessionTypeOK /\ session.io \in Io
      /\ session.io.req.command = "RegisterSession" /\ Len(session.io.rx) < Frags
      /\ net.sock = "up" => Alone(session.io)
  BY DEF SketchInv, TypeOK, SessionTypeOK, BufferInv, WireInv
<1>1. PollRegister(st)
  BY DEF SessionPoll, SettledStatus
<1>2. CASE SessionTimeout(st)
  <2>1. session'.state = "Failed" /\ session'.io = NoIo /\ st # "Ok"
    BY <1>0, <1>2 DEF SessionTimeout, SessionTypeOK
  <2>2. Moved(session.io.req)
    BY <1>0, <1>2, NotMoved DEF SessionTimeout
  <2> QED BY <2>1, <2>2
<1>3. CASE ~SessionTimeout(st)
  <2>1. PICK o \in Transact(session.io) :
          /\ Apply(o, FALSE)
          /\ \/ /\ o.st = "Pending" \/ ~Written(o)
                /\ st = o.st
                /\ session' = [session EXCEPT !.io = o.io]
             \/ /\ o.st \in {"Closed", "Error"} /\ Written(o)
                /\ st = o.st
                /\ session' = [session EXCEPT !.state = "Failed", !.io = NoIo]
             \/ /\ o.st = "Ok" /\ RegisterReplyOK(o.io.rx)
                /\ st = "Ok"
                /\ session' = [session EXCEPT !.state = "Registered", !.io = NoIo,
                                              !.handle = o.io.rx[1].pkt.session]
             \/ /\ o.st = "Ok" /\ ~RegisterReplyOK(o.io.rx)
                /\ st = "Error"
                /\ session' = [session EXCEPT !.state = "Failed", !.io = NoIo]
    BY <1>1, <1>3 DEF PollRegister
  <2>2. Moved(session.io.req) /\ o.io.req = session.io.req
    BY <1>0, <2>1, ApplyFlow
  <2>3. /\ o.st = "Ok" => o.state = "Ok" /\ Written(o)
        /\ o.st = "Pending" \/ ~Written(o) => Len(o.io.rx) < Frags
    BY <1>0, TransactOpen
  <2>4. net.sock = "up" =>
          /\ Alone(o.io)'
          /\ o.st = "Ok" =>
               Drained' /\ \E r \in Packet : o.io.rx = Fragments(r)
                                             /\ Effect(session.io.req, r, srv.reg, cip)
    BY <1>0, <2>1, AlonePoll
  <2>5. net'.sock = net.sock
    BY <2>2 DEF Moved
  <2>6. CASE (o.st = "Pending" \/ ~Written(o)) /\ st = o.st /\ session' = [session EXCEPT !.io = o.io]
    <3>1. session'.state = "Registering" /\ session'.io = o.io
      BY <1>0, <2>6 DEF SessionTypeOK
    <3>2. net'.sock = "up" => Alone(session.io)'
      BY <2>4, <2>5, <3>1 DEF Alone, ToServer, ToClient
    <3> QED BY <2>2, <2>3, <2>6, <3>1, <3>2
  <2>7. CASE st # "Ok" /\ session' = [session EXCEPT !.state = "Failed", !.io = NoIo]
    <3>1. session'.state = "Failed" /\ session'.io = NoIo
      BY <1>0, <2>7 DEF SessionTypeOK
    <3> QED BY <2>2, <2>7, <3>1
  <2>8. CASE /\ o.st = "Ok" /\ RegisterReplyOK(o.io.rx) /\ st = "Ok"
             /\ session' = [session EXCEPT !.state = "Registered", !.io = NoIo,
                                           !.handle = o.io.rx[1].pkt.session]
    <3>1. /\ session'.state = "Registered" /\ session'.io = NoIo
          /\ session'.handle = o.io.rx[1].pkt.session
      BY <1>0, <2>8 DEF SessionTypeOK
    <3>2. tcp'.state = "Ok"
      BY <1>0, <2>1, <2>3, <2>8 DEF Apply, TransportTypeOK
    <3>3. ASSUME net.sock = "up" PROVE Drained' /\ srv.reg = session'.handle
      <4>1. PICK r \in Packet : /\ o.io.rx = Fragments(r)
                                /\ Effect(session.io.req, r, srv.reg, cip)
        BY <2>4, <2>8, <3>3
      <4>2. o.io.rx[1].pkt = r
        BY <4>1, WireAssumption DEF Fragments
      <4> QED BY <1>0, <2>4, <2>8, <3>1, <3>3, <4>1, <4>2 DEF Effect, FromReg, RegisterReplyOK
    <3> QED BY <2>2, <2>5, <2>8, <3>1, <3>2, <3>3
  <2> QED BY <2>1, <2>6, <2>7, <2>8
<1> QED BY <1>2, <1>3

(* The types after a step of the session alone.                            *)
LEMMA SessionStepTypes ==
  ASSUME TypeOK, TransportTypeOK', SessionTypeOK', UNCHANGED <<srv, cip, eth, msg, conn>>,
         GotoRetry \/ app' = app
         \/ app' = [app EXCEPT !.phase = "ConnOps", !.step = 0, !.started = FALSE]
  PROVE  TypeOK'
<1>1. PlcTypeOK' /\ TargetTypeOK' /\ EthTypeOK' /\ MsgTypeOK' /\ ConnTypeOK'
  BY DEF TypeOK, PlcTypeOK, TargetTypeOK, EthTypeOK, MsgTypeOK, ConnTypeOK
<1>2. CASE app' = [app EXCEPT !.phase = "RetryWait", !.timer = RetryDelay]
  BY <1>1, <1>2, SketchAssumption DEF TypeOK
<1>3. CASE app' = app
  BY <1>1, <1>3 DEF TypeOK
<1>4. CASE app' = [app EXCEPT !.phase = "ConnOps", !.step = 0, !.started = FALSE]
  <2>1. 0 \in 0 .. LastStep + 1 /\ 0 <= LastStep
    BY DEF LastStep
  <2> QED BY <1>1, <1>4, <2>1 DEF TypeOK
<1> QED BY <1>2, <1>3, <1>4 DEF GotoRetry

LEMMA OpenSessionStep ==
  ASSUME SketchInv, OpenSession
  PROVE  SketchInv'
<1>0. app.phase = "OpenSession" /\ UNCHANGED <<srv, cip, eth, msg, conn>>
  BY DEF OpenSession
<1>1. PICK st \in Status :
        /\ SessionPoll(st, {})
        /\ \/ st = "Ok" /\ app' = [app EXCEPT !.phase = "ConnOps", !.step = 0, !.started = FALSE]
           \/ st \in {"Timeout", "Error"} /\ GotoRetry
           \/ st \notin {"Ok", "Timeout", "Error"} /\ UNCHANGED app
  BY DEF OpenSession
<1>2. TypeOK'
  BY <1>0, <1>1, SessionPollType, SessionStepTypes DEF SketchInv, TypeOK
<1>3. /\ net.sock \in {"up", "fin", "reset"} /\ ~ConnBusy /\ ~MsgBusy
      /\ session.state \in {"Registering", "Failed"}
  BY <1>0 DEF SketchInv, PhaseInv, StepInv, ConnBusy
<1>4. /\ GotoRetry => app'.phase = "RetryWait"
      /\ st = "Ok" => app'.phase = "ConnOps" /\ app'.step = 0 /\ app'.started = FALSE
      /\ st \notin {"Ok", "Timeout", "Error"} => app' = app
  BY <1>1, <1>2, AppGoto DEF SketchInv, TypeOK
<1>5. CASE session.state = "Failed"
  <2>1. st = "Error" /\ UNCHANGED <<session, tcp, net>>
    BY <1>1, <1>5 DEF SessionPoll, SettledStatus
  <2>2. BodyInv'
    BY <1>0, <2>1 DEF SketchInv, BodyInv, OnTheWay, Inbound
  <2>3. BufferInv'
    BY <1>0, <2>1 DEF SketchInv, BufferInv, MsgBusy
  <2> QED BY <1>0, <1>1, <1>2, <1>3, <1>4, <2>1, <2>2, <2>3, RetryStep DEF MsgBusy, ConnBusy
<1>6. CASE session.state = "Registering"
  <2>1. /\ Moved(session.io.req)
        /\ \/ /\ session'.state = "Registering" /\ session'.io.req = session.io.req
              /\ Len(session'.io.rx) < Frags /\ st # "Ok"
              /\ net'.sock = "up" => Alone(session.io)'
           \/ session'.state = "Failed" /\ session'.io = NoIo /\ st # "Ok"
           \/ /\ session'.state = "Registered" /\ session'.io = NoIo /\ st = "Ok"
              /\ tcp'.state = "Ok"
              /\ net'.sock = "up" => Drained' /\ srv'.reg = session'.handle
    BY <1>0, <1>1, <1>6, RegisterPoll
  <2>2. /\ net'.sock = net.sock /\ Inbound' \subseteq Inbound \cup {session.io.req}
        /\ OnTheWay' \subseteq OnTheWay \cup {session.io.req}
    BY <1>0, <2>1, MovedWay
  <2>3. BodyInv'
    BY <1>0, <2>1, <2>2, NoIoBodied, BodyKept DEF SketchInv, BodyInv
  <2>4. BufferInv'
    BY <1>0, <1>6, <2>1 DEF SketchInv, BufferInv, MsgBusy
  <2>5. CASE st = "Ok"
    <3>1. /\ session'.state = "Registered" /\ tcp'.state = "Ok"
          /\ net'.sock = "up" => Drained' /\ srv'.reg = session'.handle
          /\ app'.phase = "ConnOps" /\ app'.step = 0 /\ app'.started = FALSE
      BY <1>4, <2>1, <2>5
    <3>2. PhaseInv'
      BY <1>3, <2>2, <3>1 DEF PhaseInv, LastStep
    <3>3. StepInv'
      BY <1>0, <1>3, <3>1 DEF StepInv, ConnBusy, MsgBusy
    <3>4. net'.sock = "up" => Inbound' = {}
      BY <3>1, PktsEmpty DEF Drained, Inbound
    <3>5. WireInv'
      BY <1>0, <1>3, <2>2, <3>1, <3>4 DEF WireInv, ConnBusy, MsgBusy
    <3> QED BY <1>2, <2>3, <2>4, <3>2, <3>3, <3>5 DEF SketchInv
  <2>6. CASE st \in {"Timeout", "Error"}
    BY <1>0, <1>1, <1>2, <1>3, <1>4, <2>2, <2>3, <2>4, <2>6, RetryStep DEF MsgBusy, ConnBusy
  <2>7. CASE st \notin {"Ok", "Timeout", "Error"}
    <3>1. app' = app /\ session'.state \in {"Registering", "Failed"}
      BY <1>4, <2>1, <2>7
    <3>2. PhaseInv'
      BY <1>0, <1>3, <2>2, <3>1 DEF PhaseInv
    <3>3. StepInv'
      BY <1>0, <3>1 DEF SketchInv, StepInv, ConnBusy, MsgBusy
    <3>4. net.sock = "up" => \A p \in Inbound' : p.command \in Allowed["OpenSession"]
      <4>1. session.io.req.command = "RegisterSession"
        BY <1>6 DEF SketchInv, BufferInv
      <4> QED BY <1>0, <2>2, <4>1 DEF SketchInv, WireInv, Allowed
    <3>5. WireInv'
      BY <1>0, <1>3, <2>1, <2>2, <2>7, <3>1, <3>4 DEF WireInv
    <3> QED BY <1>2, <2>3, <2>4, <3>2, <3>3, <3>5 DEF SketchInv
  <2> QED BY <2>5, <2>6, <2>7
<1> QED BY <1>3, <1>5, <1>6

(* The session is given back, or the connection closed.                    *)
LEMMA CloseSessionStep ==
  ASSUME SketchInv, CloseSession
  PROVE  SketchInv'
<1>0. app.phase = "CloseSession" /\ UNCHANGED <<srv, cip, eth, msg, conn>>
  BY DEF CloseSession
<1>1. /\ net.sock \in {"up", "fin", "reset"} /\ ~ConnBusy /\ ~MsgBusy
      /\ session.state \in {"Unregistering", "Closed", "Failed"}
      /\ TransportTypeOK /\ SessionTypeOK /\ session.io \in Io
  BY <1>0 DEF SketchInv, PhaseInv, StepInv, ConnBusy, TypeOK, SessionTypeOK
<1>2. CASE SessionAbort /\ TcpClose /\ GotoRetry
  <2>1. session'.state = "Closed" /\ session'.io = NoIo
    BY <1>1, <1>2, SessionAborted
  <2>2. OnTheWay' \subseteq OnTheWay /\ net'.sock = "none"
    BY <1>0, <1>2, WireWay DEF TcpClose
  <2>3. TypeOK'
    BY <1>0, <1>2, TcpCloseType, SessionAbortType, SessionStepTypes DEF SketchInv, TypeOK
  <2>4. BodyInv'
    BY <1>0, <2>1, <2>2, NoIoBodied, BodyKept DEF SketchInv, BodyInv
  <2>5. BufferInv'
    BY <1>0, <2>1 DEF SketchInv, BufferInv, MsgBusy
  <2>6. app'.phase = "RetryWait"
    BY <1>2, AppGoto DEF SketchInv
  <2> QED BY <1>0, <1>1, <2>2, <2>3, <2>4, <2>5, <2>6, RetryStep DEF MsgBusy, ConnBusy
<1>3. ASSUME NEW st \in Status, NEW closeOn, SessionPoll(st, closeOn),
             \/ st = "Ok" /\ closeOn = {"Ok"} /\ GotoRetry
             \/ closeOn = {} /\ UNCHANGED app
      PROVE  SketchInv'
  <2>1. TypeOK'
    BY <1>0, <1>1, <1>3, SessionPollType, SessionStepTypes DEF SketchInv, TypeOK
  <2>2. /\ TcpClose \/ Moved(session.io.req)
        /\ closeOn = {} => /\ Moved(session.io.req)
                           /\ session.state = "Unregistering" \/ net' = net
        /\ session'.state \in {"Unregistering", "Closed", "Failed"}
        /\ session'.state = "Unregistering" =>
             session.state = "Unregistering" /\ session'.io.req = session.io.req
        /\ session'.io.req \in {session.io.req, NoIo.req}
    <3>1. /\ Moved(session.io.req) \/ (st \in closeOn /\ TcpClose)
          /\ session'.io.req \in {session.io.req, NoIo.req}
          /\ session.state = "Unregistering" => session'.state \in {"Unregistering", "Closed", "Failed"}
          /\ session.state \notin {"Registering", "Unregistering"} => session' = session
      BY <1>1, <1>3, SessionPollEffect DEF SessionPolled
    <3>2. closeOn = {} => session.state = "Unregistering" \/ net' = net
      BY <1>1, <1>3, SessionPollCases
    <3>3. session'.state = "Unregistering" => session'.io.req = session.io.req
      <4>1. CASE session' = session
        BY <4>1
      <4>2. CASE session' = [session EXCEPT !.state = "Failed", !.io = NoIo]
                 \/ session' = [session EXCEPT !.state = "Closed", !.io = NoIo]
        BY <1>1, <4>2 DEF SessionTypeOK
      <4>3. ASSUME NEW o \in Transact(session.io), session' = [session EXCEPT !.io = o.io]
            PROVE  session'.io.req = session.io.req
        <5>1. o.io.req = session.io.req
          BY <1>1, TransactFlow DEF Flow
        <5> QED BY <1>1, <4>3, <5>1 DEF SessionTypeOK
      <4> QED BY <1>1, <1>3, <4>1, <4>2, <4>3, SessionPollCases
    <3> QED BY <1>1, <3>1, <3>2, <3>3
  <2>3. BufferInv'
    BY <1>0, <1>1, <2>2 DEF SketchInv, BufferInv, MsgBusy, PhaseInv
  <2>4. OnTheWay' \subseteq OnTheWay \cup {session.io.req}
        /\ net'.sock # "connecting"
    <3>1. CASE TcpClose
      BY <1>0, <3>1, WireWay DEF TcpClose
    <3>2. CASE Moved(session.io.req)
      BY <1>0, <1>1, <3>2, MovedWay
    <3> QED BY <2>2, <3>1, <3>2
  <2>5. BodyInv'
    BY <1>0, <2>2, <2>4, NoIoBodied, BodyKept DEF SketchInv, BodyInv
  <2>6. CASE GotoRetry
    <3>1. app'.phase = "RetryWait"
      BY <2>6, AppGoto DEF SketchInv
    <3> QED BY <1>0, <1>1, <2>1, <2>3, <2>4, <2>5, <3>1, RetryStep DEF MsgBusy, ConnBusy
  <2>7. CASE closeOn = {} /\ UNCHANGED app
    <3>1. Moved(session.io.req)
      BY <2>2, <2>7
    <3>2. net'.sock = net.sock /\ Inbound' \subseteq Inbound \cup {session.io.req}
      BY <1>0, <3>1, MovedWay
    <3>3. PhaseInv'
      BY <1>0, <1>1, <2>2, <2>7, <3>2 DEF PhaseInv
    <3>4. StepInv'
      BY <1>0, <2>7 DEF SketchInv, StepInv, ConnBusy, MsgBusy
    <3>5. net.sock = "up" => \A p \in Inbound' : p.command \in Allowed["CloseSession"]
      <4>1. net.sock = "up" => \A p \in Inbound : p.command \in Allowed["CloseSession"]
        BY <1>0 DEF SketchInv, WireInv
      <4>2. CASE session.state = "Unregistering"
        <5>1. session.io.req.command = "UnregisterSession"
          BY <4>2 DEF SketchInv, BufferInv
        <5> QED BY <3>2, <4>1, <5>1 DEF Allowed
      <4>3. CASE net' = net
        BY <1>0, <4>1, <4>3 DEF Inbound
      <4> QED BY <2>2, <2>7, <4>2, <4>3
    <3>6. WireInv'
      BY <1>0, <1>1, <2>7, <3>2, <3>5 DEF SketchInv, WireInv
    <3> QED BY <2>1, <2>3, <2>5, <3>3, <3>4, <3>6 DEF SketchInv
  <2> QED BY <1>3, <2>6, <2>7
<1>4. \/ SessionAbort /\ TcpClose /\ GotoRetry
      \/ SessionPoll("Ok", {"Ok"}) /\ GotoRetry
      \/ SessionPoll("Closed", {}) /\ UNCHANGED app
      \/ SessionPoll("Pending", {}) /\ UNCHANGED app
  BY DEF CloseSession
<1>5. {"Ok", "Closed", "Pending"} \subseteq Status
  BY DEF Status
<1> QED BY <1>2, <1>3, <1>4, <1>5


-----------------------------------------------------------------------------
(* The steps: Forward Open, three data exchanges, Forward Close.           *)

LEMMA BodyTypes ==
  ASSUME ConnTypeOK
  PROVE  /\ \A ot \in ConnIds : OpenBody(ot) \in Payload
         /\ CloseBody \in Payload
         /\ \A req \in Requests : DataBody(conn.ot, conn.seq, req) \in Payload
<1>1. 0 \in 0 .. SeqMod - 1 /\ 0 \in ConnIds \cup {0}
  BY ConnectionAssumption
<1> QED BY <1>1 DEF ConnTypeOK, OpenBody, CloseBody, DataBody, Payload

(* fwd_.send() is accepted: the message is free, the connection is up.     *)
LEMMA ForwardSend ==
  ASSUME MsgTypeOK, ~MsgBusy, tcp.state = "Ok", NEW h \in Handles \cup {0}, NEW t \in Payload,
         NEW st \in Status \ {"InvalidArg"}, MsgSend(h, t, st)
  PROVE  /\ st = "Pending" /\ MsgTypeOK' /\ MsgBusy'
         /\ \E req \in Packet : req.command = "SendRRData" /\ req.tag = t /\ msg'.io = NewIo(req)
<1> DEFINE req == [command |-> "SendRRData", session |-> h, context |-> msg.context,
                   tag |-> t, status |-> "ok"]
<1>1. /\ st = "Pending"
      /\ msg' = [state |-> "Sending", context |-> (msg.context + 1) % CtxMod,
                 timer |-> OpTimeout, io |-> NewIo(req)]
  BY DEF MsgSend, Connected
<1>2. MsgTypeOK'
  BY SubPayload, MsgSendType
<1>3. req \in Packet /\ req.command = "SendRRData" /\ req.tag = t
  BY SubPayload DEF MsgTypeOK, Packet, Command
<1> HIDE DEF req
<1>4. msg'.io = NewIo(req) /\ MsgBusy'
  BY <1>1 DEF MsgBusy
<1> QED BY <1>1, <1>2, <1>3, <1>4

(* What the state has before a step and what a new exchange makes of it.   *)
LEMMA StepStarted ==
  ASSUME SketchInv, TypeOK', app.phase = "ConnOps", ~app.started,
         UNCHANGED <<tcp, net, srv, cip, eth, session>>,
         app'.phase = app.phase, app'.step = app.step, app'.started = TRUE,
         conn'.state = StepState[app.step],
         NEW req \in Packet, req.command \in Sends, req.tag \in Payload,
         \/ /\ conn'.state \in {"Opening", "Closing"} /\ req.command = "SendRRData"
            /\ conn'.state = "Closing" => req.tag = CloseBody
            /\ MsgBusy' /\ msg'.io = NewIo(req) /\ conn'.io = conn.io
         \/ /\ conn'.state = "Sending" /\ req.command = "SendUnitData"
            /\ conn'.io = NewIo(req) /\ msg' = msg /\ ~MsgBusy
  PROVE  SketchInv'
<1>1. NewIo(req).req = req /\ NewIo(req).rx = << >> /\ Bodied(req) /\ Len(<< >>) < Frags
  BY WireAssumption DEF NewIo, Bodied
<1>2. BodyInv'
  <2>1. OnTheWay' = OnTheWay
    BY DEF OnTheWay, Inbound
  <2>2. Pkts(msg.io.rx)' \subseteq Pkts(msg.io.rx)
    BY <1>1, PktsEmpty
  <2>3. Bodied(msg'.io.req) /\ Bodied(conn'.io.req) /\ Bodied(session'.io.req)
    BY <1>1 DEF SketchInv, BodyInv
  <2> QED BY <2>1, <2>2, <2>3, BodyKept DEF SketchInv
<1>3. BufferInv'
  BY <1>1 DEF SketchInv, BufferInv, MsgBusy, Sends
<1>4. PhaseInv'
  BY DEF SketchInv, PhaseInv
<1>5. StepInv'
  BY DEF SketchInv, StepInv, StepState, MsgBusy
<1>6. WireInv'
  <2>1. CASE net.sock = "up"
    <3>1. Drained /\ Inbound' = Inbound
      BY <2>1 DEF SketchInv, WireInv, Inbound
    <3>2. Alone(NewIo(req))
      BY <3>1, AloneNew
    <3>3. /\ msg'.io = NewIo(req) => Alone(msg.io)'
          /\ conn'.io = NewIo(req) => Alone(conn.io)'
      BY <3>2 DEF Alone, ToServer, ToClient
    <3> QED BY <2>1, <3>1, <3>3 DEF SketchInv, WireInv, MsgBusy
  <2>2. CASE net.sock # "up"
    BY <2>2 DEF SketchInv, WireInv
  <2> QED BY <2>1, <2>2
<1> QED BY <1>2, <1>3, <1>4, <1>5, <1>6 DEF SketchInv

LEMMA StartStepStep ==
  ASSUME SketchInv, StartStep
  PROVE  SketchInv'
<1>0. /\ app.phase = "ConnOps" /\ ~app.started
      /\ UNCHANGED <<tcp, net, srv, cip, eth, session>>
      /\ session.handle \in Handles \cup {0}
      /\ MsgTypeOK /\ ConnTypeOK /\ SketchAssumption
  BY SketchAssumption DEF StartStep, SketchInv, TypeOK, SessionTypeOK
<1>1. PICK st \in Status \ {"InvalidArg"} :
        /\ app.step = 0 => ConnOpen(session.handle, st)
        /\ app.step \in 1 .. 3 =>
             ConnSend(session.handle, StepRequest[app.step], st) /\ UNCHANGED msg
        /\ app.step = LastStep => ConnClose(session.handle, st)
        /\ app' = [app EXCEPT !.started = (st = "Pending")]
  <2>0. 0 \notin 1 .. 3 /\ LastStep \notin 1 .. 3 /\ LastStep # 0
    BY DEF LastStep
  <2>1. PICK st \in Status \ {"InvalidArg"} :
          /\ CASE app.step = 0        -> ConnOpen(session.handle, st)
               [] app.step \in 1 .. 3 -> /\ ConnSend(session.handle, StepRequest[app.step], st)
                                         /\ UNCHANGED msg
               [] app.step = LastStep -> ConnClose(session.handle, st)
          /\ app' = [app EXCEPT !.started = (st = "Pending")]
    BY DEF StartStep
  <2>2. app.step = 0 => ConnOpen(session.handle, st)
    BY <2>0, <2>1, Zenon
  <2>3. app.step \in 1 .. 3 =>
          ConnSend(session.handle, StepRequest[app.step], st) /\ UNCHANGED msg
    BY <2>0, <2>1, Zenon
  <2>4. app.step = LastStep => ConnClose(session.handle, st)
    BY <2>0, <2>1, Zenon
  <2> QED BY <2>1, <2>2, <2>3, <2>4
<1>2. /\ app.step \in 0 .. LastStep /\ tcp.state = "Ok"
      /\ IF app.step = 0 THEN ~ConnBusy ELSE conn.state = "Open"
      /\ ~MsgBusy
  BY <1>0 DEF SketchInv, PhaseInv, StepInv, ConnBusy
<1>3. ASSUME st = "Pending", MsgTypeOK', ConnTypeOK'
      PROVE  /\ TypeOK'
             /\ app'.phase = app.phase /\ app'.step = app.step /\ app'.started = TRUE
  <2>1. TransportTypeOK' /\ PlcTypeOK' /\ TargetTypeOK' /\ EthTypeOK' /\ SessionTypeOK'
    BY <1>0
       DEF SketchInv, TypeOK, TransportTypeOK, PlcTypeOK, TargetTypeOK, EthTypeOK, SessionTypeOK
  <2>2. app' = [app EXCEPT !.started = TRUE]
    BY <1>1, <1>3
  <2> QED BY <1>3, <2>1, <2>2 DEF SketchInv, TypeOK
<1>4. CASE app.step = 0
  <2>1. PICK ot \in ConnIds :
          /\ MsgSend(session.handle, OpenBody(ot), st)
          /\ conn' = [conn EXCEPT !.ot = ot, !.to = 0,
                                  !.state = IF st = "Pending" THEN "Opening" ELSE conn.state]
    <3>1. ConnOpen(session.handle, st)
      BY <1>1, <1>4
    <3> QED BY <1>2, <1>4, <3>1 DEF ConnOpen
  <2>2. OpenBody(ot) \in Payload
    BY <1>0, BodyTypes
  <2>3. st = "Pending" /\ MsgTypeOK' /\ MsgBusy'
    BY <1>0, <1>2, <2>1, <2>2, ForwardSend
  <2>4. PICK req \in Packet : /\ req.command = "SendRRData" /\ req.tag = OpenBody(ot)
                              /\ msg'.io = NewIo(req)
    BY <1>0, <1>2, <2>1, <2>2, ForwardSend
  <2>5. ConnTypeOK' /\ conn'.state = "Opening" /\ conn'.io = conn.io
    BY <1>0, <2>1, <2>3 DEF ConnTypeOK
  <2>6. conn'.state = StepState[app.step]
    BY <1>2, <1>4, <2>5 DEF StepState
  <2> QED BY <1>0, <1>3, <2>2, <2>3, <2>4, <2>5, <2>6, StepStarted DEF Sends
<1>5. CASE app.step \in 1 .. 3
  <2> DEFINE req == [command |-> "SendUnitData", session |-> session.handle,
                     context |-> conn.context, status |-> "ok",
                     tag |-> DataBody(conn.ot, conn.seq, StepRequest[app.step])]
  <2>1. ConnSend(session.handle, StepRequest[app.step], st) /\ msg' = msg
    BY <1>1, <1>5
  <2>2. conn.state = "Open"
    BY <1>2, <1>5
  <2>3. /\ st = "Pending"
        /\ conn' = [conn EXCEPT !.state = "Sending",
                      !.context = (conn.context + 1) % CtxMod, !.seq = (conn.seq + 1) % SeqMod,
                      !.timer = OpTimeout, !.io = NewIo(req)]
    BY <1>1, <2>1, <2>2 DEF ConnSend
  <2>4. DataBody(conn.ot, conn.seq, StepRequest[app.step]) \in Payload
    <3>1. StepRequest[app.step] \in Requests
      BY <1>5, SketchAssumption DEF StepRequest
    <3> QED BY <1>0, <3>1, BodyTypes
  <2>5. req \in Packet /\ req.command = "SendUnitData" /\ req.tag \in Payload
    BY <1>0, <2>4, SubPayload DEF ConnTypeOK, Packet, Command
  <2>6. NewIo(req) \in Io
    BY <2>5, WireAssumption, EmptyStream DEF NewIo, Io
  <2> HIDE DEF req
  <2>7. ConnTypeOK' /\ conn'.state = "Sending" /\ conn'.io = NewIo(req)
    <3>1. (conn.context + 1) % CtxMod \in 0 .. CtxMod - 1 /\ (conn.seq + 1) % SeqMod \in 0 .. SeqMod - 1
      BY <1>0, WireAssumption, ConnectionAssumption DEF ConnTypeOK
    <3> QED BY <1>0, <2>3, <2>6, <3>1, TimeoutAssumption DEF ConnTypeOK
  <2>8. MsgTypeOK'
    BY <1>0, <2>1 DEF MsgTypeOK
  <2>9. conn'.state = StepState[app.step]
    BY <1>5, <2>7 DEF StepState, LastStep
  <2> QED BY <1>0, <1>2, <1>3, <2>1, <2>3, <2>5, <2>7, <2>8, <2>9, StepStarted DEF Sends
<1>6. CASE app.step = LastStep
  <2>0. conn.state = "Open" /\ ConnClose(session.handle, st)
    BY <1>1, <1>2, <1>6 DEF LastStep
  <2>1. /\ MsgSend(session.handle, CloseBody, st)
        /\ conn' = IF st = "Pending" THEN [conn EXCEPT !.state = "Closing"] ELSE conn
    BY <2>0 DEF ConnClose
  <2>2. CloseBody \in Payload
    BY <1>0, BodyTypes
  <2>3. st = "Pending" /\ MsgTypeOK' /\ MsgBusy'
    BY <1>0, <1>2, <2>1, <2>2, ForwardSend
  <2>4. PICK req \in Packet : /\ req.command = "SendRRData" /\ req.tag = CloseBody
                              /\ msg'.io = NewIo(req)
    BY <1>0, <1>2, <2>1, <2>2, ForwardSend
  <2>5. ConnTypeOK' /\ conn'.state = "Closing" /\ conn'.io = conn.io
    BY <1>0, <2>1, <2>3 DEF ConnTypeOK
  <2>6. conn'.state = StepState[app.step]
    BY <1>6, <2>5 DEF StepState, LastStep
  <2> QED BY <1>0, <1>3, <2>2, <2>3, <2>4, <2>5, <2>6, StepStarted DEF Sends
<1> QED BY <1>2, <1>4, <1>5, <1>6 DEF LastStep


-----------------------------------------------------------------------------
(* The steps: polled.                                                      *)

(* What ExplicitMessage::poll() makes of Forward Open and Forward Close.   *)
LEMMA ForwardPoll ==
  ASSUME SketchInv, app.phase = "ConnOps", MsgBusy, NEW ms, MsgPoll(ms), UNCHANGED <<srv, cip>>
  PROVE  /\ TransportTypeOK' /\ MsgTypeOK' /\ Moved(msg.io.req)
         /\ Pkts(msg.io.rx)' \subseteq Pkts(msg.io.rx) \cup Pkts(net.s2c)
         /\ Bodied(msg'.io.req)
         /\ MsgBusy' <=> ms = "Pending"
         /\ ms = "Pending" => /\ msg'.io.req = msg.io.req /\ Len(msg'.io.rx) < Frags
                              /\ net'.sock = "up" => Alone(msg.io)'
         /\ ms = "Ok" => /\ tcp'.state = "Ok" /\ MsgReply(msg').command = "SendRRData"
                         /\ MsgReply(msg') \in Pkts(msg'.io.rx)
                         /\ net'.sock = "up" =>
                              /\ Drained' /\ MsgReply(msg').status # "encapErr"
                              /\ Effect(msg.io.req, MsgReply(msg'), srv.reg, cip)
<1>0. /\ TransportTypeOK /\ PlcTypeOK /\ MsgTypeOK /\ msg.io \in Io
      /\ msg.io.req.command = "SendRRData" /\ Len(msg.io.rx) < Frags
      /\ Bodied(msg.io.req) /\ (net.sock = "up" => Alone(msg.io))
  BY DEF SketchInv, TypeOK, MsgTypeOK, BodyInv, BufferInv, WireInv
<1>1. TransportTypeOK' /\ MsgTypeOK'
  BY <1>0, MsgPollType
<1>2. MsgBusy' <=> ms = "Pending"
  BY <1>0, MsgPollBusy
<1>3. CASE msg.timer = 0
  <2>1. ms = "Timeout" /\ msg' = MsgFailed /\ UNCHANGED <<tcp, net>>
    BY <1>3 DEF MsgPoll, PollInFlight, MsgExpired
  <2>2. msg'.io = NoIo
    BY <1>0, <2>1 DEF MsgFailed, MsgTypeOK
  <2>3. Moved(msg.io.req)
    BY <1>0, <2>1, NotMoved
  <2> QED BY <1>1, <1>2, <2>1, <2>2, <2>3, NoIoBodied
<1>4. CASE msg.timer # 0
  <2>1. PICK o \in Transact(msg.io) :
          /\ Apply(o, FALSE)
          /\ \/ /\ o.st = "Pending" /\ ms = "Pending"
                /\ msg' = [msg EXCEPT !.io = o.io,
                             !.state = IF Written(o) THEN "Receiving" ELSE msg.state]
             \/ ms \notin {"Pending", "Ok"} /\ msg' = MsgFailed
             \/ /\ o.st = "Ok" /\ ParseOK(o.io.req, o.io.rx) /\ ms = "Ok"
                /\ msg' = [msg EXCEPT !.state = "Done", !.timer = 0, !.io = o.io]
    BY <1>4 DEF MsgPoll, PollInFlight, MsgExpired
  <2>2. /\ Moved(msg.io.req) /\ o.io.req = msg.io.req
        /\ Pkts(o.io.rx) \subseteq Pkts(msg.io.rx) \cup Pkts(net.s2c)
    BY <1>0, <2>1, ApplyFlow
  <2>3. /\ ms \in {"Pending", "Ok"} => msg'.io = o.io
        /\ ms \notin {"Pending", "Ok"} => msg'.io = NoIo
    BY <1>0, <2>1 DEF MsgTypeOK, MsgFailed
  <2>4. Pkts(msg'.io.rx) \subseteq Pkts(msg.io.rx) \cup Pkts(net.s2c) /\ Bodied(msg'.io.req)
    BY <1>0, <2>2, <2>3, NoIoBodied
  <2>5. /\ o.st = "Ok" => o.state = "Ok"
        /\ o.st = "Pending" => Len(o.io.rx) < Frags
    BY <1>0, TransactOpen
  <2>6. net.sock = "up" =>
          /\ Alone(o.io)'
          /\ o.st = "Ok" =>
               Drained' /\ \E r \in Packet : o.io.rx = Fragments(r)
                                             /\ Effect(msg.io.req, r, srv.reg, cip)
    BY <1>0, <2>1, AlonePoll
  <2>7. net'.sock = net.sock
    BY <2>2 DEF Moved
  <2>8. ASSUME ms = "Pending"
        PROVE  /\ msg'.io.req = msg.io.req /\ Len(msg'.io.rx) < Frags
               /\ net'.sock = "up" => Alone(msg.io)'
    <3>1. msg'.io = o.io /\ o.st = "Pending"
      BY <2>1, <2>3, <2>8
    <3>2. net'.sock = "up" => Alone(msg.io)'
      BY <2>6, <2>7, <3>1 DEF Alone, ToServer, ToClient
    <3> QED BY <2>2, <2>5, <3>1, <3>2
  <2>9. ASSUME ms = "Ok"
        PROVE  /\ tcp'.state = "Ok" /\ MsgReply(msg').command = "SendRRData"
               /\ MsgReply(msg') \in Pkts(msg'.io.rx)
               /\ net'.sock = "up" =>
                    /\ Drained' /\ MsgReply(msg').status # "encapErr"
                    /\ Effect(msg.io.req, MsgReply(msg'), srv.reg, cip)
    <3>1. o.st = "Ok" /\ ParseOK(o.io.req, o.io.rx) /\ msg'.io = o.io
      BY <2>1, <2>3, <2>9
    <3>2. MsgReply(msg') = o.io.rx[1].pkt
      BY <3>1 DEF MsgReply
    <3>3. MsgReply(msg').command = "SendRRData" /\ MsgReply(msg').status # "encapErr"
      BY <3>1, <3>2 DEF ParseOK
    <3>4. o \in Outcomes /\ Len(o.io.rx) = Frags
      BY <1>0, <3>1, TransactType
    <3>5. MsgReply(msg') \in Pkts(msg'.io.rx)
      BY <3>1, <3>2, <3>4, PktsHead DEF Outcomes, Io
    <3>6. tcp'.state = "Ok"
      BY <1>0, <2>1, <2>5, <3>1 DEF Apply, TransportTypeOK
    <3>7. ASSUME net.sock = "up"
          PROVE  Drained' /\ Effect(msg.io.req, MsgReply(msg'), srv.reg, cip)
      <4>1. PICK r \in Packet : /\ o.io.rx = Fragments(r)
                                /\ Effect(msg.io.req, r, srv.reg, cip)
        BY <2>6, <3>1, <3>7
      <4>2. o.io.rx[1].pkt = r
        BY <4>1, WireAssumption DEF Fragments
      <4> QED BY <2>6, <3>1, <3>2, <3>7, <4>1, <4>2
    <3> QED BY <2>7, <3>3, <3>5, <3>6, <3>7
  <2> QED BY <1>1, <1>2, <2>2, <2>4, <2>8, <2>9
<1> QED BY <1>3, <1>4


(* The ways a poll() of a step ends, but for the last one: the exchange    *)
(* goes on, fails, or is over and the connection is open.                  *)
LEMMA StepPolled ==
  ASSUME SketchInv, TypeOK', app.phase = "ConnOps", app.started, UNCHANGED <<srv, cip, session>>,
         NEW req, req \in {msg.io.req, conn.io.req}, req.command \in Sends, Moved(req),
         Pkts(msg.io.rx)' \subseteq Pkts(msg.io.rx) \cup Pkts(net.s2c),
         Bodied(msg'.io.req), Bodied(conn'.io.req),
         \/ /\ app' = app /\ conn'.state = conn.state
            /\ MsgBusy' = MsgBusy
            /\ MsgBusy => /\ msg'.io.req = msg.io.req /\ Len(msg'.io.rx) < Frags
                          /\ net'.sock = "up" => Alone(msg.io)'
            /\ conn.state = "Sending" => /\ conn'.io.req = conn.io.req /\ Len(conn'.io.rx) < Frags
                                         /\ net'.sock = "up" => Alone(conn.io)'
         \/ conn'.state = "Failed" /\ ~MsgBusy' /\ (app' = app \/ GotoRetry)
         \/ /\ conn'.state = "Open" /\ ~MsgBusy' /\ tcp'.state = "Ok" /\ app.step < LastStep
            /\ net'.sock = "up" => Drained'
            /\ app'.phase = "ConnOps" /\ app'.step = app.step + 1 /\ app'.started = FALSE
  PROVE  SketchInv'
<1>0. /\ session.state = "Registered" /\ app.step \in 0 .. LastStep
      /\ net.sock \in {"up", "fin", "reset"}
      /\ net.sock = "up" => /\ srv.reg = session.handle
                            /\ \A p \in Inbound : p.command \in Sends
      /\ MsgBusy <=> conn.state \in {"Opening", "Closing"}
      /\ conn.state \in {"Failed", StepState[app.step]}
  BY DEF SketchInv, PhaseInv, StepInv, WireInv, Allowed, Sends
<1>1. /\ net'.sock = net.sock /\ Inbound' \subseteq Inbound \cup {req}
      /\ OnTheWay' \subseteq OnTheWay \cup {req}
  BY MovedWay
<1>2. BodyInv'
  <2>1. OnTheWay' \subseteq OnTheWay \cup {session.io.req, msg.io.req, conn.io.req}
    BY <1>1
  <2>2. Pkts(msg.io.rx)' \subseteq Pkts(msg.io.rx) \cup OnTheWay
    BY DEF OnTheWay
  <2>3. Bodied(session'.io.req)
    BY DEF SketchInv, BodyInv
  <2> QED BY <2>1, <2>2, <2>3, BodyKept DEF SketchInv
<1>3. net'.sock = "up" => \A p \in Inbound' : p.command \in Sends
  BY <1>0, <1>1
<1>4. CASE /\ app' = app /\ conn'.state = conn.state
           /\ MsgBusy' = MsgBusy
           /\ MsgBusy => /\ msg'.io.req = msg.io.req /\ Len(msg'.io.rx) < Frags
                         /\ net'.sock = "up" => Alone(msg.io)'
           /\ conn.state = "Sending" => /\ conn'.io.req = conn.io.req /\ Len(conn'.io.rx) < Frags
                                        /\ net'.sock = "up" => Alone(conn.io)'
  <2>1. BufferInv'
    BY <1>0, <1>4 DEF SketchInv, BufferInv
  <2>2. PhaseInv'
    BY <1>0, <1>1, <1>4 DEF PhaseInv
  <2>3. StepInv'
    BY <1>0, <1>4 DEF StepInv
  <2>4. WireInv'
    BY <1>0, <1>1, <1>3, <1>4 DEF WireInv, Allowed, Sends
  <2> QED BY <1>2, <2>1, <2>2, <2>3, <2>4 DEF SketchInv
<1>5. CASE conn'.state = "Failed" /\ ~MsgBusy' /\ (app' = app \/ GotoRetry)
  <2>1. BufferInv'
    BY <1>0, <1>5 DEF BufferInv
  <2>2. CASE GotoRetry
    <3>1. app'.phase = "RetryWait"
      BY <2>2, AppGoto DEF SketchInv
    <3>2. ~ConnBusy'
      BY <1>5 DEF ConnBusy
    <3> QED BY <1>0, <1>1, <1>2, <1>5, <2>1, <3>1, <3>2, RetryStep
  <2>3. CASE app' = app
    <3>1. PhaseInv'
      BY <1>0, <1>1, <2>3 DEF PhaseInv
    <3>2. StepInv'
      BY <1>5, <2>3 DEF StepInv
    <3>3. WireInv'
      BY <1>0, <1>1, <1>3, <1>5, <2>3 DEF WireInv, Allowed, Sends
    <3> QED BY <1>2, <2>1, <3>1, <3>2, <3>3 DEF SketchInv
  <2> QED BY <1>5, <2>2, <2>3
<1>6. CASE /\ conn'.state = "Open" /\ ~MsgBusy' /\ tcp'.state = "Ok" /\ app.step < LastStep
           /\ net'.sock = "up" => Drained'
           /\ app'.phase = "ConnOps" /\ app'.step = app.step + 1 /\ app'.started = FALSE
  <2>1. BufferInv'
    BY <1>0, <1>6 DEF BufferInv
  <2>2. app'.step \in 1 .. LastStep
    BY <1>0, <1>6 DEF LastStep
  <2>3. PhaseInv'
    BY <1>0, <1>1, <1>6, <2>2 DEF PhaseInv
  <2>4. StepInv'
    BY <1>6, <2>2 DEF StepInv
  <2>5. WireInv'
    BY <1>0, <1>1, <1>3, <1>6 DEF WireInv, Allowed, Sends
  <2> QED BY <1>2, <2>1, <2>3, <2>4, <2>5 DEF SketchInv
<1> QED BY <1>4, <1>5, <1>6

(* The steps in which the connection object is busy.                       *)
LEMMA StepStates ==
  ASSUME NEW k \in 0 .. LastStep, NEW s, s = StepState[k]
  PROVE  /\ s = "Opening" => k = 0
         /\ s = "Sending" => k \in 1 .. 3
         /\ s = "Closing" => k = LastStep
         /\ s \in {"Opening", "Sending", "Closing"}
  BY DEF StepState, LastStep


(* What the phase does of the status of a step.                            *)
LEMMA StepStatus ==
  ASSUME SketchInv, PollStep
  PROVE  /\ app.phase = "ConnOps" /\ app.started /\ UNCHANGED <<srv, cip, eth>>
         /\ app.step \in 0 .. LastStep /\ conn.state \in {"Failed", StepState[app.step]}
         /\ \E st \in Status :
              /\ ConnPoll(st)
              /\ \/ st = "Ok" /\ FinishStep
                 \/ st # "Ok" /\ UNCHANGED session /\ (GotoRetry \/ app' = app)
              /\ st = "Pending" => app' = app
  BY DEF PollStep, SketchInv, PhaseInv, StepInv

(* finishStep() of a step that is not the last.                            *)
LEMMA StepFinished ==
  ASSUME TypeOK, FinishStep, app.phase = "ConnOps", app.step \in 0 .. LastStep - 1
  PROVE  /\ session' = session
         /\ app'.phase = "ConnOps" /\ app'.step = app.step + 1 /\ app'.started = FALSE
         /\ app.step < LastStep
<1>1. app.step # LastStep /\ app.step < LastStep
  BY DEF LastStep
<1> QED BY <1>1 DEF FinishStep, TypeOK

(* TypeOK after the poll() of a step.                                      *)
LEMMA StepTypes ==
  ASSUME SketchInv, app.phase = "ConnOps", app.step \in 0 .. LastStep,
         TransportTypeOK', MsgTypeOK', ConnTypeOK', UNCHANGED <<srv, cip, eth>>,
         GotoRetry \/ app' = app \/ FinishStep, UNCHANGED session \/ FinishStep
  PROVE  TypeOK'
<1>1. PlcTypeOK' /\ TargetTypeOK' /\ EthTypeOK'
  BY DEF SketchInv, TypeOK, PlcTypeOK, TargetTypeOK, EthTypeOK
<1>2. SessionTypeOK'
  <2>1. CASE UNCHANGED session
    BY <2>1 DEF SketchInv, TypeOK, SessionTypeOK
  <2>2. CASE ~UNCHANGED session
    <3>1. \E st \in Status : SessionClose(st)
      BY <2>2 DEF FinishStep
    <3> QED BY <3>1, SessionCloseType DEF SketchInv, TypeOK
  <2> QED BY <2>1, <2>2
<1>3. CASE app' = [app EXCEPT !.phase = "RetryWait", !.timer = RetryDelay]
  BY <1>1, <1>2, <1>3, SketchAssumption DEF SketchInv, TypeOK
<1>4. CASE app' = app
  BY <1>1, <1>2, <1>4 DEF SketchInv, TypeOK
<1>5. CASE FinishStep
  <2>1. /\ app.step + 1 \in 0 .. LastStep + 1
        /\ app.step # LastStep => app.step + 1 <= LastStep
    BY DEF LastStep
  <2>2. PICK p \in {"CloseSession", "ConnOps"} :
          /\ app' = [app EXCEPT !.step = app.step + 1, !.started = FALSE, !.phase = p]
          /\ p = "ConnOps" => app.step # LastStep
    BY <1>5 DEF FinishStep
  <2>3. app'.phase = p /\ app'.step = app.step + 1
    BY <2>2 DEF SketchInv, TypeOK
  <2>4. app'.phase = "ConnOps" => app'.step <= LastStep
    BY <2>1, <2>2, <2>3
  <2> QED BY <1>1, <1>2, <2>1, <2>2, <2>4 DEF SketchInv, TypeOK
<1> QED BY <1>3, <1>4, <1>5 DEF GotoRetry

LEMMA OpeningStep ==
  ASSUME SketchInv, PollStep, conn.state = "Opening"
  PROVE  SketchInv'
<1>0. /\ app.phase = "ConnOps" /\ app.started /\ UNCHANGED <<srv, cip, eth>>
      /\ app.step = 0 /\ app.step \in 0 .. LastStep /\ MsgBusy /\ ConnTypeOK /\ TypeOK
      /\ msg.io.req.command \in Sends /\ Bodied(conn.io.req)
  <2>1. app.step \in 0 .. LastStep /\ conn.state = StepState[app.step]
    BY StepStatus
  <2>2. app.step = 0
    BY <2>1, StepStates
  <2> QED BY <2>2, StepStatus DEF SketchInv, StepInv, TypeOK, BufferInv, BodyInv, Sends
<1>1. PICK st \in Status :
        /\ ConnPoll(st)
        /\ \/ st = "Ok" /\ FinishStep
           \/ st # "Ok" /\ UNCHANGED session /\ (GotoRetry \/ app' = app)
        /\ st = "Pending" => app' = app
  BY StepStatus
<1>2. PICK ms : /\ MsgPoll(ms)
                /\ \/ ms = "Pending" /\ st = ms /\ UNCHANGED conn
                   \/ /\ ms = "Ok" /\ OpenReplyOK(MsgReply(msg')) /\ st = "Ok"
                      /\ conn' = [conn EXCEPT !.state = "Open", !.to = MsgReply(msg').tag.to]
                   \/ /\ ms # "Pending" /\ st # "Ok"
                      /\ conn' = [conn EXCEPT !.state = "Failed"]
  BY <1>1 DEF ConnPoll, ConnBusy, PollOpening
<1>3. /\ TransportTypeOK' /\ MsgTypeOK' /\ Moved(msg.io.req)
      /\ Pkts(msg.io.rx)' \subseteq Pkts(msg.io.rx) \cup Pkts(net.s2c)
      /\ Bodied(msg'.io.req)
      /\ MsgBusy' <=> ms = "Pending"
      /\ ms = "Pending" => /\ msg'.io.req = msg.io.req /\ Len(msg'.io.rx) < Frags
                           /\ net'.sock = "up" => Alone(msg.io)'
      /\ ms = "Ok" => /\ tcp'.state = "Ok" /\ MsgReply(msg').command = "SendRRData"
                      /\ MsgReply(msg') \in Pkts(msg'.io.rx)
                      /\ net'.sock = "up" => Drained'
  BY <1>0, <1>2, ForwardPoll
<1>4. conn'.io = conn.io /\ conn'.state \in {conn.state, "Open", "Failed"}
  BY <1>0, <1>2 DEF ConnTypeOK
<1>5. CASE ms = "Pending" /\ st = ms /\ UNCHANGED conn
  <2>1. ConnTypeOK'
    BY <1>0, <1>5 DEF ConnTypeOK
  <2>2. app' = app /\ UNCHANGED session
    BY <1>1, <1>5
  <2>3. TypeOK'
    BY <1>0, <1>3, <2>1, <2>2, StepTypes
  <2>4. MsgBusy' = MsgBusy
    BY <1>0, <1>3, <1>5 DEF MsgBusy
  <2> QED BY <1>0, <1>3, <1>4, <1>5, <2>2, <2>3, <2>4, StepPolled
<1>6. CASE /\ ms = "Ok" /\ OpenReplyOK(MsgReply(msg')) /\ st = "Ok"
           /\ conn' = [conn EXCEPT !.state = "Open", !.to = MsgReply(msg').tag.to]
  <2>1. MsgReply(msg').tag \in Payload
    <3>1. \A p \in Pkts(msg'.io.rx) : Bodied(p)
      BY <1>3 DEF SketchInv, BodyInv, OnTheWay
    <3> QED BY <1>3, <1>6, <3>1 DEF Bodied
  <2>2. MsgReply(msg').tag.to \in ConnIds \cup {0}
    BY <2>1 DEF Payload
  <2>3. ConnTypeOK' /\ conn'.state = "Open"
    BY <1>0, <1>6, <2>2 DEF ConnTypeOK
  <2>4. FinishStep
    BY <1>1, <1>6
  <2>5. /\ session' = session /\ app.step < LastStep
        /\ app'.phase = "ConnOps" /\ app'.step = app.step + 1 /\ app'.started = FALSE
    <3>1. app.step \in 0 .. LastStep - 1
      BY <1>0 DEF LastStep
    <3> QED BY <1>0, <2>4, <3>1, StepFinished
  <2>6. TypeOK'
    BY <1>0, <1>3, <2>3, <2>4, StepTypes
  <2>7. ~MsgBusy'
    BY <1>3, <1>6
  <2> QED BY <1>0, <1>3, <1>4, <1>6, <2>3, <2>5, <2>6, <2>7, StepPolled
<1>7. CASE ms # "Pending" /\ st # "Ok" /\ conn' = [conn EXCEPT !.state = "Failed"]
  <2>1. ConnTypeOK' /\ conn'.state = "Failed"
    BY <1>0, <1>7 DEF ConnTypeOK
  <2>2. UNCHANGED session /\ (GotoRetry \/ app' = app)
    BY <1>1, <1>7
  <2>3. TypeOK'
    BY <1>0, <1>3, <2>1, <2>2, StepTypes
  <2> QED BY <1>0, <1>3, <1>4, <1>7, <2>1, <2>2, <2>3, StepPolled
<1> QED BY <1>2, <1>5, <1>6, <1>7


LEMMA SendingStep ==
  ASSUME SketchInv, PollStep, conn.state = "Sending"
  PROVE  SketchInv'
<1>0. /\ app.phase = "ConnOps" /\ app.started /\ UNCHANGED <<srv, cip, eth>>
      /\ app.step \in 1 .. 3 /\ app.step \in 0 .. LastStep /\ ~MsgBusy
      /\ TypeOK /\ TransportTypeOK /\ PlcTypeOK /\ MsgTypeOK /\ ConnTypeOK /\ conn.io \in Io
      /\ conn.io.req.command \in Sends /\ Len(conn.io.rx) < Frags
      /\ net.sock = "up" => Alone(conn.io)
  <2>1. app.step \in 0 .. LastStep /\ conn.state = StepState[app.step]
    BY StepStatus
  <2>2. app.step \in 1 .. 3
    BY <2>1, StepStates
  <2>3. conn.io.req.command \in Sends /\ Len(conn.io.rx) < Frags
    BY DEF SketchInv, BufferInv, Sends
  <2>4. app.phase = "ConnOps" /\ app.started /\ UNCHANGED <<srv, cip, eth>>
    BY StepStatus
  <2>5. ~MsgBusy /\ (net.sock = "up" => Alone(conn.io))
    BY <2>4 DEF SketchInv, StepInv, WireInv
  <2> QED BY <2>1, <2>2, <2>3, <2>4, <2>5 DEF SketchInv, TypeOK, ConnTypeOK
<1>1. PICK st \in Status :
        /\ ConnPoll(st)
        /\ \/ st = "Ok" /\ FinishStep
           \/ st # "Ok" /\ UNCHANGED session /\ (GotoRetry \/ app' = app)
        /\ st = "Pending" => app' = app
  BY StepStatus
<1>2. PollSending(st) /\ msg' = msg
  BY <1>1 DEF ConnPoll, ConnBusy
<1>3. /\ ~MsgBusy' /\ MsgTypeOK' /\ msg'.io = msg.io /\ Bodied(msg'.io.req)
      /\ Bodied(conn.io.req)
  BY <1>0, <1>2 DEF MsgBusy, MsgTypeOK, SketchInv, BodyInv
<1>4. ASSUME TransportTypeOK', Moved(conn.io.req), ConnTypeOK', conn'.state = "Failed",
             conn'.io = NoIo, st # "Ok"
      PROVE  SketchInv'
  <2>1. UNCHANGED session /\ (GotoRetry \/ app' = app)
    BY <1>1, <1>4
  <2>2. TypeOK'
    BY <1>0, <1>3, <1>4, <2>1, StepTypes
  <2> QED BY <1>0, <1>3, <1>4, <2>1, <2>2, NoIoBodied, StepPolled
<1>5. CASE conn.timer = 0
  <2>1. /\ conn' = [conn EXCEPT !.state = "Failed", !.io = NoIo] /\ UNCHANGED <<tcp, net>>
        /\ st = "Timeout"
    BY <1>2, <1>5 DEF PollSending, ConnExpired
  <2>2. TransportTypeOK' /\ Moved(conn.io.req)
    BY <1>0, <2>1, NotMoved DEF TransportTypeOK
  <2>3. ConnTypeOK' /\ conn'.state = "Failed" /\ conn'.io = NoIo
    BY <1>0, <2>1, NoIoType DEF ConnTypeOK
  <2> QED BY <1>4, <2>1, <2>2, <2>3
<1>6. CASE conn.timer # 0
  <2>1. PICK o \in Transact(conn.io) :
          /\ Apply(o, FALSE)
          /\ \/ o.st = "Pending" /\ st = "Pending" /\ conn' = [conn EXCEPT !.io = o.io]
             \/ /\ st # "Ok"
                /\ conn' = [conn EXCEPT !.state = "Failed", !.timer = 0, !.io = NoIo]
             \/ /\ o.st = "Ok" /\ st = "Ok"
                /\ conn' = [conn EXCEPT !.state = "Open", !.timer = 0, !.io = o.io]
    BY <1>2, <1>6 DEF PollSending, ConnExpired
  <2>2. o \in Outcomes /\ o.io \in Io
    BY <1>0, TransactType DEF Outcomes
  <2>3. TransportTypeOK' /\ Moved(conn.io.req) /\ o.io.req = conn.io.req
    BY <1>0, <2>1, <2>2, ApplyType, ApplyFlow
  <2>4. /\ o.st = "Ok" => o.state = "Ok"
        /\ o.st = "Pending" => Len(o.io.rx) < Frags
    BY <1>0, TransactOpen
  <2>5. net.sock = "up" => Alone(o.io)' /\ (o.st = "Ok" => Drained')
    BY <1>0, <2>1, AlonePoll
  <2>6. net'.sock = net.sock
    BY <2>3 DEF Moved
  <2>7. CASE o.st = "Pending" /\ st = "Pending" /\ conn' = [conn EXCEPT !.io = o.io]
    <3>1. ConnTypeOK' /\ conn'.state = conn.state /\ conn'.io = o.io
      BY <1>0, <2>2, <2>7 DEF ConnTypeOK
    <3>2. app' = app /\ UNCHANGED session
      BY <1>1, <2>7
    <3>3. TypeOK'
      BY <1>0, <1>3, <2>3, <3>1, <3>2, StepTypes
    <3>4. net'.sock = "up" => Alone(conn.io)'
      BY <2>5, <2>6, <3>1 DEF Alone, ToServer, ToClient
    <3>5. /\ conn'.io.req = conn.io.req /\ Len(conn'.io.rx) < Frags
          /\ Bodied(conn'.io.req)
      BY <1>3, <2>3, <2>4, <2>7, <3>1
    <3>6. MsgBusy' = MsgBusy
      BY <1>2 DEF MsgBusy
    <3> QED BY <1>0, <1>3, <2>3, <3>1, <3>2, <3>3, <3>4, <3>5, <3>6, StepPolled
  <2>8. CASE st # "Ok" /\ conn' = [conn EXCEPT !.state = "Failed", !.timer = 0, !.io = NoIo]
    <3>1. ConnTypeOK' /\ conn'.state = "Failed" /\ conn'.io = NoIo
      BY <1>0, <2>8, NoIoType DEF ConnTypeOK
    <3> QED BY <1>4, <2>3, <2>8, <3>1
  <2>9. CASE /\ o.st = "Ok" /\ st = "Ok"
             /\ conn' = [conn EXCEPT !.state = "Open", !.timer = 0, !.io = o.io]
    <3>1. ConnTypeOK' /\ conn'.state = "Open" /\ conn'.io = o.io
      BY <1>0, <2>2, <2>9 DEF ConnTypeOK
    <3>2. FinishStep
      BY <1>1, <2>9
    <3>3. /\ session' = session /\ app.step < LastStep
          /\ app'.phase = "ConnOps" /\ app'.step = app.step + 1 /\ app'.started = FALSE
      <4>1. app.step \in 0 .. LastStep - 1
        BY <1>0 DEF LastStep
      <4> QED BY <1>0, <3>2, <4>1, StepFinished
    <3>4. TypeOK'
      BY <1>0, <1>3, <2>3, <3>1, <3>2, StepTypes
    <3>5. tcp'.state = "Ok"
      BY <1>0, <2>1, <2>4, <2>9 DEF Apply, TransportTypeOK
    <3>6. Bodied(conn'.io.req)
      BY <1>3, <2>3, <3>1
    <3> QED BY <1>0, <1>3, <2>3, <2>5, <2>6, <2>9, <3>1, <3>3, <3>4, <3>5, <3>6, StepPolled
  <2> QED BY <2>1, <2>7, <2>8, <2>9
<1> QED BY <1>5, <1>6


(* The last step ends the session, with the connection gone at the target. *)
LEMMA ClosingStep ==
  ASSUME SketchInv, PollStep, conn.state = "Closing"
  PROVE  SketchInv'
<1>0. /\ app.phase = "ConnOps" /\ app.started /\ UNCHANGED <<srv, cip, eth>>
      /\ app.step = LastStep /\ app.step \in 0 .. LastStep /\ MsgBusy /\ ConnTypeOK /\ TypeOK
      /\ msg.io.req.command = "SendRRData" /\ msg.io.req.tag = CloseBody
      /\ msg.io.req.command \in Sends /\ Bodied(conn.io.req)
  <2>1. app.step \in 0 .. LastStep /\ conn.state = StepState[app.step]
    BY StepStatus
  <2>2. app.step = LastStep
    BY <2>1, StepStates
  <2> QED BY <2>1, <2>2, StepStatus DEF SketchInv, StepInv, TypeOK, BufferInv, BodyInv, Sends
<1>1. PICK st \in Status :
        /\ ConnPoll(st)
        /\ \/ st = "Ok" /\ FinishStep
           \/ st # "Ok" /\ UNCHANGED session /\ (GotoRetry \/ app' = app)
        /\ st = "Pending" => app' = app
  BY StepStatus
<1>2. /\ MsgPoll(st)
      /\ \/ st = "Pending" /\ UNCHANGED conn
         \/ st = "Ok" /\ conn' = [conn EXCEPT !.state = "Closed"]
         \/ st \notin {"Pending", "Ok"} /\ conn' = [conn EXCEPT !.state = "Failed"]
  BY <1>1 DEF ConnPoll, ConnBusy, PollClosing
<1>3. /\ TransportTypeOK' /\ MsgTypeOK' /\ Moved(msg.io.req)
      /\ Pkts(msg.io.rx)' \subseteq Pkts(msg.io.rx) \cup Pkts(net.s2c)
      /\ Bodied(msg'.io.req)
      /\ MsgBusy' <=> st = "Pending"
      /\ st = "Pending" => /\ msg'.io.req = msg.io.req /\ Len(msg'.io.rx) < Frags
                           /\ net'.sock = "up" => Alone(msg.io)'
      /\ st = "Ok" => /\ net'.sock = "up" =>
                           /\ Drained' /\ MsgReply(msg').status # "encapErr"
                           /\ Effect(msg.io.req, MsgReply(msg'), srv.reg, cip)
  BY <1>0, <1>2, ForwardPoll
<1>4. CASE st = "Pending" /\ UNCHANGED conn
  <2>1. ConnTypeOK'
    BY <1>0, <1>4 DEF ConnTypeOK
  <2>2. app' = app /\ UNCHANGED session
    BY <1>1, <1>4
  <2>3. TypeOK'
    BY <1>0, <1>3, <2>1, <2>2, StepTypes
  <2>4. MsgBusy' = MsgBusy
    BY <1>0, <1>3, <1>4 DEF MsgBusy
  <2> QED BY <1>0, <1>3, <1>4, <2>2, <2>3, <2>4, StepPolled
<1>5. CASE st \notin {"Pending", "Ok"} /\ conn' = [conn EXCEPT !.state = "Failed"]
  <2>1. ConnTypeOK' /\ conn'.state = "Failed" /\ conn'.io = conn.io
    BY <1>0, <1>5 DEF ConnTypeOK
  <2>2. UNCHANGED session /\ (GotoRetry \/ app' = app)
    BY <1>1, <1>5
  <2>3. TypeOK'
    BY <1>0, <1>3, <2>1, <2>2, StepTypes
  <2> QED BY <1>0, <1>3, <1>5, <2>1, <2>2, <2>3, StepPolled
<1>6. CASE st = "Ok" /\ conn' = [conn EXCEPT !.state = "Closed"]
  <2>1. ConnTypeOK' /\ conn'.state = "Closed" /\ conn'.io = conn.io
    BY <1>0, <1>6 DEF ConnTypeOK
  <2>2. FinishStep
    BY <1>1, <1>6
  <2>3. app'.phase = "CloseSession" /\ \E s \in Status : SessionClose(s)
    BY <1>0, <2>2 DEF FinishStep, TypeOK
  <2>4. session.state = "Registered" /\ net.sock \in {"up", "fin", "reset"}
    BY <1>0 DEF SketchInv, PhaseInv
  <2>5. session'.state = "Unregistering" /\ session'.io.req.command = "UnregisterSession"
    <3>1. session' = [session EXCEPT !.state = "Unregistering",
                        !.io = NewIo(SessionPacket("UnregisterSession", session.handle))]
      BY <2>3, <2>4 DEF SessionClose
    <3> QED BY <3>1 DEF SketchInv, TypeOK, SessionTypeOK, NewIo, SessionPacket
  <2>6. TypeOK'
    BY <1>0, <1>3, <2>1, <2>2, StepTypes
  <2>7. net'.sock = net.sock /\ OnTheWay' \subseteq OnTheWay \cup {msg.io.req}
    BY <1>0, <1>3, MovedWay
  <2>8. BodyInv'
    <3>1. OnTheWay' \subseteq OnTheWay \cup {session.io.req, msg.io.req, conn.io.req}
      BY <2>7
    <3>2. Pkts(msg.io.rx)' \subseteq Pkts(msg.io.rx) \cup OnTheWay
      BY <1>3 DEF OnTheWay
    <3>3. Bodied(session'.io.req)
      BY <2>5 DEF Bodied
    <3>4. Bodied(conn'.io.req)
      BY <1>0, <2>1
    <3> QED BY <1>3, <3>1, <3>2, <3>3, <3>4, BodyKept DEF SketchInv
  <2>9. ~MsgBusy'
    BY <1>3, <1>6
  <2>10. BufferInv'
    BY <2>1, <2>5, <2>9 DEF BufferInv
  <2>11. PhaseInv'
    BY <2>3, <2>4, <2>5, <2>7 DEF PhaseInv
  <2>12. StepInv'
    BY <2>1, <2>3, <2>9 DEF StepInv, ConnBusy
  <2>13. WireInv'
    <3>1. CASE net'.sock = "up"
      <4>1. Drained' /\ ~cip.wanted
        BY <1>0, <1>3, <1>6, <3>1 DEF Effect
      <4>2. Inbound' = {}
        BY <4>1, PktsEmpty DEF Drained, Inbound
      <4> QED BY <1>0, <2>3, <3>1, <4>1, <4>2 DEF WireInv
    <3>2. CASE net'.sock # "up"
      BY <2>4, <2>7, <3>2 DEF WireInv
    <3> QED BY <3>1, <3>2
  <2> QED BY <2>6, <2>8, <2>10, <2>11, <2>12, <2>13 DEF SketchInv
<1> QED BY <1>2, <1>4, <1>5, <1>6

(* poll() of a connection that has failed: the cycle ends.                 *)
LEMMA FailedStep ==
  ASSUME SketchInv, PollStep, conn.state = "Failed"
  PROVE  SketchInv'
<1>1. PICK st \in Status : /\ ConnPoll(st)
                           /\ \/ st \in {"Timeout", "Error"} /\ GotoRetry /\ UNCHANGED session
                              \/ st \notin {"Timeout", "Error"}
  BY DEF PollStep
<1>2. st = "Error" /\ UNCHANGED <<tcp, net, msg, conn>>
  BY <1>1 DEF ConnPoll, ConnBusy, ConnSettled
<1>3. GotoRetry /\ UNCHANGED <<tcp, net, srv, cip, eth, session, msg, conn>>
  BY <1>1, <1>2, StepStatus
<1>4. app.phase = "ConnOps" /\ app.step \in 0 .. LastStep
  BY StepStatus
<1>5. TypeOK'
  <2>1. TransportTypeOK' /\ MsgTypeOK' /\ ConnTypeOK'
    BY <1>3 DEF SketchInv, TypeOK, TransportTypeOK, MsgTypeOK, ConnTypeOK
  <2> QED BY <1>3, <1>4, <2>1, StepTypes
<1>6. BodyInv' /\ BufferInv'
  BY <1>3 DEF SketchInv, BodyInv, BufferInv, OnTheWay, Inbound, MsgBusy
<1>7. app'.phase = "RetryWait" /\ ~MsgBusy' /\ ~ConnBusy' /\ net'.sock # "connecting"
  BY <1>3, <1>4, AppGoto DEF SketchInv, StepInv, PhaseInv, MsgBusy, ConnBusy
<1> QED BY <1>5, <1>6, <1>7, RetryStep

LEMMA PollStepStep ==
  ASSUME SketchInv, PollStep
  PROVE  SketchInv'
<1>1. app.step \in 0 .. LastStep /\ conn.state \in {"Failed", StepState[app.step]}
  BY StepStatus
<1>2. conn.state \in {"Failed", "Opening", "Sending", "Closing"}
  BY <1>1, StepStates
<1> QED BY <1>2, FailedStep, OpeningStep, SendingStep, ClosingStep


-----------------------------------------------------------------------------
(* The server and the network.                                             *)

LEMMA NetworkStep ==
  ASSUME SketchInv, Network
  PROVE  SketchInv'
<1>0. TargetNext /\ UNCHANGED <<eth, session, msg, conn, app>>
  BY DEF Network
<1>1. /\ TransportTypeOK /\ PlcTypeOK /\ TargetTypeOK
      /\ \A p \in OnTheWay : Bodied(p)
      /\ net.sock = "connecting" => net = Wire("connecting")
      /\ session.io \in Io /\ msg.io \in Io /\ conn.io \in Io
  BY DEF SketchInv, TypeOK, SessionTypeOK, MsgTypeOK, ConnTypeOK, BodyInv, WireInv
<1>2. /\ TransportTypeOK' /\ PlcTypeOK' /\ TargetTypeOK'
      /\ tcp' = tcp
      /\ \A p \in OnTheWay' : Bodied(p)
      /\ net'.sock = "connecting" => net'.c2s = << >> /\ net'.s2c = << >>
      /\ net'.sock # net.sock =>
           \/ net.sock = "connecting" /\ (net'.sock = "up" => Drained' /\ Inbound' = {})
           \/ net.sock = "up" /\ net'.sock \in {"fin", "reset"}
      /\ net'.sock = "up" /\ net.sock = "up" =>
           /\ Inbound' \subseteq Inbound
           /\ Drained => Drained' /\ srv'.reg = srv.reg
           /\ (\A q \in Inbound : q.command \in Sends) => srv'.reg = srv.reg
           /\ (\A q \in Inbound : q.command \notin Sends) => cip' \in {cip, NoCip}
  BY <1>0, <1>1, NetworkEffect
<1>3. TypeOK'
  <2>1. EthTypeOK' /\ SessionTypeOK' /\ MsgTypeOK' /\ ConnTypeOK'
    BY <1>0 DEF SketchInv, TypeOK, EthTypeOK, SessionTypeOK, MsgTypeOK, ConnTypeOK
  <2> QED BY <1>0, <1>2, <2>1 DEF SketchInv, TypeOK
<1>4. BodyInv' /\ BufferInv'
  BY <1>0, <1>2 DEF SketchInv, BodyInv, BufferInv, MsgBusy
<1>5. PhaseInv'
  BY <1>0, <1>2 DEF SketchInv, PhaseInv
<1>6. StepInv'
  BY <1>0, <1>2 DEF SketchInv, StepInv, MsgBusy, ConnBusy
<1>7. net'.sock = "connecting" => net' = Wire("connecting")
  BY <1>2 DEF TransportTypeOK, Wire
<1>8. ASSUME net'.sock = "up", net.sock # "up"
      PROVE  /\ Drained' /\ Inbound' = {}
             /\ app.phase \notin {"OpenSession", "ConnOps", "CloseSession"}
  <2>1. net.sock = "connecting" /\ Drained' /\ Inbound' = {}
    BY <1>2, <1>8
  <2> QED BY <2>1 DEF SketchInv, PhaseInv
<1>9. ASSUME net'.sock = "up", net.sock = "up"
      PROVE  WireInv'
  <2>1. \A p \in Inbound : p.command \in Allowed[app.phase]
    BY <1>9 DEF SketchInv, WireInv
  <2>2. ASSUME NEW io \in Io, Alone(io), io.req.command # "UnregisterSession"
        PROVE  Alone(io)'
    BY <1>0, <1>1, <1>9, <2>2, AloneServe
  <2>3. /\ MsgBusy => msg.io.req.command = "SendRRData"
        /\ conn.state = "Sending" => conn.io.req.command = "SendUnitData"
        /\ session.state = "Registering" => session.io.req.command = "RegisterSession"
    BY DEF SketchInv, BufferInv
  <2>4. app.phase = "OpenSession" /\ session.state = "Registering" => Alone(session.io)'
    <3>1. ASSUME app.phase = "OpenSession", session.state = "Registering"
          PROVE  Alone(session.io)'
      <4>1. PICK io \in Io : io = session.io
        BY <1>1
      <4>2. Alone(io)'
        BY <1>9, <2>2, <2>3, <3>1, <4>1 DEF SketchInv, WireInv
      <4> QED BY <1>0, <4>1, <4>2 DEF Alone, ToServer, ToClient
    <3> QED BY <3>1
  <2>5. app.phase = "ConnOps" /\ MsgBusy => Alone(msg.io)'
    <3>1. ASSUME app.phase = "ConnOps", MsgBusy
          PROVE  Alone(msg.io)'
      <4>1. PICK io \in Io : io = msg.io
        BY <1>1
      <4>2. Alone(io)'
        BY <1>9, <2>2, <2>3, <3>1, <4>1 DEF SketchInv, WireInv
      <4> QED BY <1>0, <4>1, <4>2 DEF Alone, ToServer, ToClient
    <3> QED BY <3>1
  <2>6. app.phase = "ConnOps" /\ conn.state = "Sending" => Alone(conn.io)'
    <3>1. ASSUME app.phase = "ConnOps", conn.state = "Sending"
          PROVE  Alone(conn.io)'
      <4>1. PICK io \in Io : io = conn.io
        BY <1>1
      <4>2. Alone(io)'
        BY <1>9, <2>2, <2>3, <3>1, <4>1 DEF SketchInv, WireInv
      <4> QED BY <1>0, <4>1, <4>2 DEF Alone, ToServer, ToClient
    <3> QED BY <3>1
  <2>7. app.phase = "ConnOps" => srv'.reg = session.handle
    BY <1>2, <1>9, <2>1 DEF SketchInv, WireInv, Allowed, Sends
  <2>8. app.phase = "CloseSession" => ~cip'.wanted
    BY <1>2, <1>9, <2>1 DEF SketchInv, WireInv, Allowed, Sends, NoCip
  <2>9. /\ app.phase = "Connect" => Drained'
        /\ app.phase = "ConnOps" /\ ~app.started => Drained'
    BY <1>2, <1>9 DEF SketchInv, WireInv
  <2>10. \A p \in Inbound' : p.command \in Allowed[app.phase]
    BY <1>2, <1>9, <2>1
  <2> QED BY <1>0, <1>7, <2>4, <2>5, <2>6, <2>7, <2>8, <2>9, <2>10 DEF WireInv, MsgBusy
<1>10. WireInv'
  <2>1. CASE net'.sock # "up"
    BY <1>7, <2>1 DEF WireInv
  <2>2. CASE net'.sock = "up" /\ net.sock # "up"
    BY <1>0, <1>7, <1>8, <2>2 DEF WireInv
  <2> QED BY <1>9, <2>1, <2>2
<1> QED BY <1>3, <1>4, <1>5, <1>6, <1>10 DEF SketchInv

-----------------------------------------------------------------------------
(* The invariant.                                                          *)

LEMMA InvInit == Init => SketchInv
<1> SUFFICES ASSUME Init PROVE SketchInv
  OBVIOUS
<1>1. /\ tcp = [fd |-> FALSE, state |-> "Closed", timer |-> 0] /\ tcp = TcpClosed
      /\ net = [sock |-> "none", c2s |-> << >>, s2c |-> << >>]
      /\ srv = [reg |-> 0, rx |-> << >>, out |-> << >>]
      /\ cip = [ot |-> 0, to |-> 0, wanted |-> FALSE]
      /\ session = [state |-> "Idle", handle |-> 0, timer |-> 0, io |-> NoIo]
      /\ msg = [state |-> "Idle", context |-> 1, timer |-> 0, io |-> NoIo]
      /\ conn = [state |-> "Idle", ot |-> 0, to |-> 0, seq |-> 1,
                 context |-> 1, timer |-> 0, io |-> NoIo]
  BY DEF Init, TransportInit, TcpClosed, Wire, PlcInit, SrvFresh, TargetInit, NoCip,
         SessionInit, MsgInit, ConnInit
<1>2. PICK ok \in BOOLEAN :
        /\ eth = [started |-> ok, ready |-> FALSE, failed |-> ~ok]
        /\ app = [phase |-> IF ok THEN "WaitEthernet" ELSE "RetryWait",
                  step |-> 0, started |-> FALSE, timer |-> RetryDelay]
  BY DEF Init
<1>3. /\ << >> \in Stream(SndBuf) /\ << >> \in Stream(RcvBuf) /\ << >> \in Stream(Frags)
      /\ 1 \in 0 .. CtxMod - 1 /\ 1 \in 0 .. SeqMod - 1 /\ 0 \in 0 .. LastStep + 1
  BY EmptyStream, WireAssumption, ConnectionAssumption DEF LastStep
<1>4. TypeOK
  <2>1. TransportTypeOK
    BY <1>1, <1>3 DEF TransportTypeOK
  <2>2. PlcTypeOK /\ TargetTypeOK
    BY <1>1, <1>3 DEF PlcTypeOK, TargetTypeOK
  <2>3. SessionTypeOK
    BY <1>1, NoIoType DEF SessionTypeOK
  <2>4. MsgTypeOK
    BY <1>1, <1>3, NoIoType DEF MsgTypeOK
  <2>5. ConnTypeOK
    BY <1>1, <1>3, NoIoType DEF ConnTypeOK
  <2>6. EthTypeOK
    BY <1>2 DEF EthTypeOK
  <2>7. app \in [phase   : {"WaitEthernet", "Connect", "OpenSession", "ConnOps",
                            "CloseSession", "RetryWait"},
                 step    : 0 .. LastStep + 1,
                 started : BOOLEAN,
                 timer   : Nat]
    BY <1>2, <1>3, SketchAssumption
  <2>8. app.phase # "ConnOps"
    BY <1>2
  <2> QED BY <2>1, <2>2, <2>3, <2>4, <2>5, <2>6, <2>7, <2>8 DEF TypeOK
<1>5. BodyInv
  <2>1. Pkts(msg.io.rx) = {} /\ OnTheWay = {}
    BY <1>1, NoIoBodied, PktsEmpty DEF OnTheWay, Inbound
  <2> QED BY <1>1, <2>1, NoIoBodied DEF BodyInv
<1>6. ~MsgBusy /\ conn.state = "Idle" /\ session.state = "Idle" /\ net.sock = "none"
  BY <1>1 DEF MsgBusy
<1>7. app.phase \in {"WaitEthernet", "RetryWait"}
  BY <1>2
<1>8. BufferInv /\ PhaseInv /\ StepInv /\ WireInv
  BY <1>1, <1>6, <1>7 DEF BufferInv, PhaseInv, StepInv, WireInv, ConnBusy
<1> QED BY <1>4, <1>5, <1>8 DEF SketchInv

LEMMA InvNext == SketchInv /\ [Next]_vars => SketchInv'
<1> SUFFICES ASSUME SketchInv, [Next]_vars PROVE SketchInv'
  OBVIOUS
<1>1. CASE WaitEthernet   BY <1>1, WaitEthernetStep
<1>2. CASE Connect        BY <1>2, ConnectStep
<1>3. CASE OpenSession    BY <1>3, OpenSessionStep
<1>4. CASE StartStep      BY <1>4, StartStepStep
<1>5. CASE PollStep       BY <1>5, PollStepStep
<1>6. CASE CloseSession   BY <1>6, CloseSessionStep
<1>7. CASE RetryWait      BY <1>7, RetryWaitStep
<1>8. CASE Tick           BY <1>8, TickStep
<1>9. CASE Network        BY <1>9, NetworkStep
<1>10. CASE UNCHANGED vars BY <1>10, StutterStep
<1> QED BY <1>1, <1>2, <1>3, <1>4, <1>5, <1>6, <1>7, <1>8, <1>9, <1>10 DEF Next, Loop

LEMMA InvHolds == Spec => []SketchInv
<1> QED BY InvInit, InvNext, PTL DEF Spec

(* Every object the sketch uses, and its phase and step, stay within their *)
(* types.                                                                  *)
THEOREM TypeCorrect == Spec => []TypeOK
<1>1. SketchInv => TypeOK
  BY DEF SketchInv
<1> QED BY <1>1, InvHolds, PTL

(* Every step of the sketch is accepted by the library: startStep() finds  *)
(* the connection object free to be opened, or open, on a TCP connection   *)
(* that counts as connected, in every cycle.                               *)
THEOREM StepAcceptedHolds == Spec => []StepAccepted
<1>1. SketchInv => StepAccepted
  <2> SUFFICES ASSUME SketchInv, app.phase = "ConnOps", ~app.started
               PROVE  /\ Connected(tcp)
                      /\ IF app.step = 0 THEN ~ConnBusy /\ ~MsgBusy ELSE conn.state = "Open"
    BY DEF StepAccepted
  <2> QED BY DEF SketchInv, StepInv, ConnBusy, Connected
<1> QED BY <1>1, InvHolds, PTL

(* The CIP connection is opened, used and closed on the session that the   *)
(* target registered on the TCP connection of this very cycle.             *)
THEOREM RegisteredAtPeerHolds == Spec => []RegisteredAtPeer
<1>1. SketchInv => RegisteredAtPeer
  BY DEF SketchInv, PhaseInv, WireInv, RegisteredAtPeer
<1> QED BY <1>1, InvHolds, PTL

(* UnregisterSession goes out only after the target was asked to drop the  *)
(* CIP connection it has; whether it did is not known to the sketch.       *)
THEOREM ClosedWasAskedHolds == Spec => []ClosedWasAsked
<1>1. SketchInv => ClosedWasAsked
  BY DEF SketchInv, WireInv, ClosedWasAsked
<1> QED BY <1>1, InvHolds, PTL

=============================================================================
