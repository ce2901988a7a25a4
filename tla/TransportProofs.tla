-------------------------- MODULE TransportProofs --------------------------
(***************************************************************************)
(* What the shared write and read loops return, for every fragmentation    *)
(* and every size of the socket buffers.                                   *)
(***************************************************************************)
EXTENDS Plc, ExplicitMessage, TLAPS, SequenceTheorems

(* The outcomes of the loops: the streams and the buffers keep within      *)
(* their bounds.                                                           *)
Outcomes == [st    : {"Ok", "Pending", "Closed", "Error"},
             io    : Io,
             state : {"Ok", "Pending", "Closed"},
             c2s   : Stream(SndBuf),
             s2c   : Stream(RcvBuf)]

LEMMA OutcomeType ==
  ASSUME NEW st \in {"Ok", "Pending", "Closed", "Error"}, NEW io \in Io,
         NEW state \in {"Ok", "Pending", "Closed"},
         NEW c2s \in Stream(SndBuf), NEW s2c \in Stream(RcvBuf)
  PROVE  /\ Outcome(st, io, state, c2s, s2c) \in Outcomes
         /\ Outcome(st, io, state, c2s, s2c).st = st
         /\ Outcome(st, io, state, c2s, s2c).io = io
  BY DEF Outcome, Outcomes

(* A packet is cut into Frags fragments.                                   *)
LEMMA FragmentsType ==
  ASSUME NEW p \in Packet
  PROVE  /\ Fragments(p) \in Seq(Fragment)
         /\ Len(Fragments(p)) = Frags
  BY WireAssumption DEF Fragments, Fragment

(* A piece of a stream.                                                    *)
LEMMA SubStream ==
  ASSUME NEW s \in Seq(Fragment), NEW a \in Nat \ {0}, NEW b \in Nat, b <= Len(s), a <= b + 1
  PROVE  /\ SubSeq(s, a, b) \in Seq(Fragment)
         /\ Len(SubSeq(s, a, b)) = b - a + 1
  BY SubSeqProperties, LenProperties

LEMMA SubElement ==
  ASSUME NEW s \in Seq(Fragment), NEW a \in Nat \ {0}, NEW b \in Nat, b <= Len(s), a <= b + 1,
         NEW k \in 1 .. (b - a + 1)
  PROVE  SubSeq(s, a, b)[k] = s[a + k - 1] /\ a + k - 1 \in 1 .. Len(s)
<1>1. Len(SubSeq(s, a, b)) = b - a + 1
  BY SubStream
<1> QED BY <1>1, LenProperties

(* Two streams one after the other.                                        *)
LEMMA ConcatStream ==
  ASSUME NEW s \in Seq(Fragment), NEW t \in Seq(Fragment)
  PROVE  s \o t \in Seq(Fragment) /\ Len(s \o t) = Len(s) + Len(t)
  BY ConcatProperties

LEMMA ConcatAssoc ==
  ASSUME NEW s \in Seq(Fragment), NEW t \in Seq(Fragment), NEW u \in Seq(Fragment)
  PROVE  (s \o t) \o u = s \o (t \o u)
  OBVIOUS

LEMMA EmptyConcat ==
  ASSUME NEW s \in Seq(Fragment)
  PROVE  << >> \o s = s
  BY ConcatEmptySeq

(* Moving a fragment, or several, from one buffer to the one before it.    *)
LEMMA MoveOne ==
  ASSUME NEW s \in Seq(Fragment), NEW t \in Seq(Fragment), t # << >>
  PROVE  Append(s, Head(t)) \o Tail(t) = s \o t
<1> DEFINE u == Append(s, Head(t)) \o Tail(t)
<1>1. /\ Head(t) \in Fragment /\ Tail(t) \in Seq(Fragment) /\ Len(Tail(t)) = Len(t) - 1
      /\ \A i \in 1 .. Len(Tail(t)) : Tail(t)[i] = t[i + 1]
  BY HeadTailProperties
<1>2. Len(s) \in Nat /\ Len(t) \in Nat /\ Len(t) >= 1 /\ Head(t) = t[1]
  BY LenProperties, EmptySeq
<1>3. /\ Append(s, Head(t)) \in Seq(Fragment) /\ Len(Append(s, Head(t))) = Len(s) + 1
      /\ \A i \in 1 .. Len(s) : Append(s, Head(t))[i] = s[i]
      /\ Append(s, Head(t))[Len(s) + 1] = Head(t)
  BY <1>1, AppendProperties
<1>4. /\ u \in Seq(Fragment) /\ Len(u) = Len(s) + Len(t)
      /\ \A i \in 1 .. Len(s) + Len(t) :
           u[i] = IF i <= Len(s) + 1 THEN Append(s, Head(t))[i] ELSE Tail(t)[i - (Len(s) + 1)]
  <2>1. (Len(s) + 1) + (Len(t) - 1) = Len(s) + Len(t)
    BY <1>2
  <2> QED BY <1>1, <1>3, <2>1, ConcatProperties
<1>5. /\ s \o t \in Seq(Fragment) /\ Len(s \o t) = Len(s) + Len(t)
      /\ \A i \in 1 .. Len(s) + Len(t) : (s \o t)[i] = IF i <= Len(s) THEN s[i] ELSE t[i - Len(s)]
  BY ConcatProperties
<1> HIDE DEF u
<1>6. ASSUME NEW i \in 1 .. Len(s) + Len(t) PROVE u[i] = (s \o t)[i]
  <2>1. CASE i <= Len(s)
    BY <1>2, <1>3, <1>4, <1>5, <2>1
  <2>2. CASE i = Len(s) + 1
    <3>1. u[i] = t[1] /\ i - Len(s) = 1
      BY <1>2, <1>3, <1>4, <2>2
    <3> QED BY <1>2, <1>5, <2>2, <3>1
  <2>3. CASE i > Len(s) + 1
    <3>1. i - (Len(s) + 1) \in 1 .. Len(Tail(t)) /\ i - (Len(s) + 1) + 1 = i - Len(s)
      BY <1>1, <1>2, <2>3
    <3>2. u[i] = t[i - Len(s)]
      BY <1>1, <1>2, <1>4, <2>3, <3>1
    <3> QED BY <1>2, <1>5, <2>3, <3>2
  <2> QED BY <1>2, <2>1, <2>2, <2>3
<1> QED BY <1>4, <1>5, <1>6, SeqEqual DEF u

LEMMA MoveMany ==
  ASSUME NEW s \in Seq(Fragment), NEW t \in Seq(Fragment), NEW k \in 0 .. Len(t)
  PROVE  (s \o SubSeq(t, 1, k)) \o SubSeq(t, k + 1, Len(t)) = s \o t
<1>1. Len(t) \in Nat
  BY LenProperties
<1>2. SubSeq(t, 1, k) \o SubSeq(t, k + 1, Len(t)) = SubSeq(t, 1, Len(t))
  <2>1. 1 \in 1 .. Len(t) + 1 /\ k \in 1 - 1 .. Len(t) /\ Len(t) \in k .. Len(t)
    BY <1>1
  <2> QED BY <2>1, ConcatAdjacentSubSeq
<1>3. SubSeq(t, 1, k) \in Seq(Fragment) /\ SubSeq(t, k + 1, Len(t)) \in Seq(Fragment)
  BY <1>1, SubStream
<1>4. SubSeq(t, 1, Len(t)) = t
  BY SubSeqFull
<1> DEFINE u == SubSeq(t, 1, k)
           v == SubSeq(t, k + 1, Len(t))
<1> HIDE DEF u, v
<1>5. (s \o u) \o v = s \o (u \o v)
  BY <1>3, ConcatAssoc DEF u, v
<1>6. u \o v = t
  BY <1>2, <1>4 DEF u, v
<1> QED BY <1>5, <1>6 DEF u, v

LEMMA StreamType ==
  ASSUME NEW max \in Nat, NEW s \in Stream(max)
  PROVE  s \in Seq(Fragment) /\ Len(s) \in Nat /\ Len(s) <= max
  BY LenProperties DEF Stream

(* writePending() never overfills the socket buffer and never sends more   *)
(* than the request; it returns Ok only when the request is out.           *)
LEMMA WritePendingType ==
  ASSUME TransportTypeOK, NEW io \in Io, NEW w \in WritePending(io)
  PROVE  w \in Outcomes /\ (w.st = "Ok" => w.io.sent = Frags)
<1> DEFINE left == Frags - io.sent
           n    == Smaller(left, SndBuf - Len(net.c2s))
           piece == SubSeq(Fragments(io.req), io.sent + 1, io.sent + n)
           Out(k) == [req |-> io.req, sent |-> k, rx |-> io.rx]
<1>1. /\ io.sent \in 0 .. Frags /\ io.req \in Packet /\ io.rx \in Stream(Frags)
      /\ io = Out(io.sent)
  BY DEF Io
<1>2. net.c2s \in Seq(Fragment) /\ Len(net.c2s) \in Nat /\ Len(net.c2s) <= SndBuf
  BY LenProperties DEF TransportTypeOK, Stream
<1>3. net.s2c \in Stream(RcvBuf) /\ net.c2s \in Stream(SndBuf) /\ tcp.state \in {"Ok", "Pending", "Closed"}
  BY DEF TransportTypeOK
<1>4. /\ left \in Nat /\ n \in Nat /\ n <= left
      /\ io.sent + n \in 0 .. Frags /\ Len(net.c2s) + n <= SndBuf
  <2>1. Frags \in Nat /\ SndBuf \in Nat
    BY WireAssumption
  <2>2. left \in Nat /\ SndBuf - Len(net.c2s) \in Nat
    BY <1>1, <1>2, <2>1
  <2>3. n \in Int /\ n <= left /\ n <= SndBuf - Len(net.c2s) /\ n >= 0
    BY <2>2 DEF Smaller
  <2> HIDE DEF n
  <2> QED BY <1>1, <1>2, <2>1, <2>2, <2>3
<1>5. piece \in Seq(Fragment) /\ Len(piece) = n
  <2>1. Fragments(io.req) \in Seq(Fragment) /\ Len(Fragments(io.req)) = Frags
    BY <1>1, FragmentsType
  <2> QED BY <2>1, <1>1, <1>4, SubStream
<1>6. net.c2s \o piece \in Stream(SndBuf)
  BY <1>2, <1>4, <1>5, ConcatStream DEF Stream
<1>7. Out(io.sent + n) \in Io /\ Out(Frags) \in Io
  BY <1>1, <1>4, WireAssumption DEF Io
<1>8. n = left => io.sent + n = Frags
  BY <1>1, WireAssumption
<1>9. \/ w = Outcome("Ok", io, tcp.state, net.c2s, net.s2c) /\ left = 0
      \/ w = Outcome("Closed", io, tcp.state, net.c2s, net.s2c)
      \/ w = Outcome("Closed", io, "Closed", net.c2s, net.s2c)
      \/ w = Outcome("Error", io, "Ok", net.c2s, net.s2c)
      \/ w = Outcome("Ok", Out(Frags), "Ok", net.c2s, net.s2c)
      \/ w = Outcome(IF n = left THEN "Ok" ELSE "Pending", Out(io.sent + n), tcp.state,
                     net.c2s \o piece, net.s2c)
  <2> HIDE DEF n, piece, Out, left
  <2> QED BY DEF WritePending, When, n, piece, Out, left
<1> HIDE DEF n, piece, Out, left
<1>10. io.sent = Frags <=> left = 0
  BY <1>1, WireAssumption DEF left
<1>11. Out(Frags).sent = Frags /\ Out(io.sent + n).sent = io.sent + n
  BY DEF Out
<1>12. PICK st \in {"Ok", "Pending", "Closed", "Error"}, i \in Io,
            state \in {"Ok", "Pending", "Closed"}, c \in Stream(SndBuf) :
         w = Outcome(st, i, state, c, net.s2c) /\ (st = "Ok" => i.sent = Frags)
  BY <1>3, <1>6, <1>7, <1>8, <1>9, <1>10, <1>11
<1> QED
  BY <1>3, <1>12, OutcomeType

(* readResponse() never stores more than a packet, and returns Ok only     *)
(* when it has a whole one.                                                *)
LEMMA ReadResponseType ==
  ASSUME TransportTypeOK, NEW w \in Outcomes, NEW o \in ReadResponse(w)
  PROVE  /\ o \in Outcomes
         /\ o.io.req = w.io.req /\ o.io.sent = w.io.sent
         /\ o.st = "Ok" => Len(o.io.rx) = Frags
<1> DEFINE rx == w.io.rx
           n  == Smaller(Frags - Len(rx), Len(w.s2c))
           Took(st, k, state) ==
             Outcome(st, [req |-> w.io.req, sent |-> w.io.sent, rx |-> rx \o SubSeq(w.s2c, 1, k)],
                     state, w.c2s, SubSeq(w.s2c, k + 1, Len(w.s2c)))
<1>1. /\ rx \in Seq(Fragment) /\ Len(rx) \in Nat /\ Len(rx) <= Frags
      /\ w.s2c \in Seq(Fragment) /\ Len(w.s2c) \in Nat /\ Len(w.s2c) <= RcvBuf
      /\ w.io.req \in Packet /\ w.io.sent \in 0 .. Frags
      /\ w.c2s \in Stream(SndBuf) /\ w.state \in {"Ok", "Pending", "Closed"}
  <2>1. w.io \in Io /\ w.s2c \in Stream(RcvBuf) /\ w.c2s \in Stream(SndBuf)
        /\ w.state \in {"Ok", "Pending", "Closed"}
    BY DEF Outcomes
  <2>2. w.io.req \in Packet /\ w.io.sent \in 0 .. Frags /\ w.io.rx \in Stream(Frags)
    BY <2>1 DEF Io
  <2>3. Frags \in Nat /\ RcvBuf \in Nat
    BY WireAssumption
  <2>4. rx \in Seq(Fragment) /\ Len(rx) \in Nat /\ Len(rx) <= Frags
    BY <2>2, <2>3, StreamType
  <2>5. w.s2c \in Seq(Fragment) /\ Len(w.s2c) \in Nat /\ Len(w.s2c) <= RcvBuf
    BY <2>1, <2>3, StreamType
  <2> QED BY <2>1, <2>2, <2>4, <2>5
<1>2. n \in Nat /\ n <= Len(w.s2c) /\ Len(rx) + n <= Frags
  <2>1. Frags \in Nat
    BY WireAssumption
  <2>2. Frags - Len(rx) \in Nat
    BY <1>1, <2>1
  <2> HIDE DEF rx
  <2>3. n \in Int /\ n <= Frags - Len(rx) /\ n <= Len(w.s2c) /\ n >= 0
    BY <1>1, <2>2 DEF Smaller
  <2> HIDE DEF n
  <2> QED BY <1>1, <2>1, <2>3
<1>3. ASSUME NEW k \in 0 .. n, NEW st \in {"Ok", "Pending", "Closed", "Error"},
             NEW state \in {"Ok", "Pending", "Closed"}
      PROVE  /\ Took(st, k, state) \in Outcomes
             /\ Len(Took(st, k, state).io.rx) = Len(rx) + k
             /\ Took(st, k, state).io.req = w.io.req
             /\ Took(st, k, state).io.sent = w.io.sent
             /\ Took(st, k, state).st = st
  <2> DEFINE got == SubSeq(w.s2c, 1, k)
             rest == SubSeq(w.s2c, k + 1, Len(w.s2c))
             all == rx \o got
             io == [req |-> w.io.req, sent |-> w.io.sent, rx |-> all]
  <2> HIDE DEF n, rx
  <2>0. k \in Nat /\ k <= Len(w.s2c) /\ Len(rx) + k <= Frags
    BY <1>1, <1>2, WireAssumption
  <2>1. got \in Seq(Fragment) /\ Len(got) = k
    BY <1>1, <2>0, SubStream
  <2>2. rest \in Seq(Fragment) /\ Len(rest) = Len(w.s2c) - k
    BY <1>1, <2>0, SubStream
  <2> HIDE DEF got, rest
  <2>3. all \in Seq(Fragment) /\ Len(all) = Len(rx) + k
    BY <1>1, <2>1, ConcatStream
  <2> HIDE DEF all
  <2>4. all \in Stream(Frags) /\ rest \in Stream(RcvBuf)
    BY <1>1, <2>0, <2>2, <2>3, WireAssumption DEF Stream
  <2>5. io \in Io
    BY <1>1, <2>4 DEF Io
  <2>6. Took(st, k, state) = Outcome(st, io, state, w.c2s, rest)
    BY DEF all, got, rest
  <2>7. io.rx = all /\ io.req = w.io.req /\ io.sent = w.io.sent
    OBVIOUS
  <2> HIDE DEF io, Took
  <2>8. /\ Outcome(st, io, state, w.c2s, rest) \in Outcomes
        /\ Outcome(st, io, state, w.c2s, rest).st = st
        /\ Outcome(st, io, state, w.c2s, rest).io = io
    BY <1>1, <2>4, <2>5, OutcomeType
  <2> QED BY <2>3, <2>6, <2>7, <2>8, Zenon
<1>4. \/ o = Took("Closed", 0, w.state) \/ o = Took("Error", 0, w.state)
      \/ o = Took("Ok", n, w.state) /\ Len(rx) + n = Frags
      \/ o = Took("Closed", n, "Closed") \/ o = Took("Pending", n, w.state)
      \/ o = Took("Error", 1, w.state) /\ n > 0
  <2> HIDE DEF n, Took, rx
  <2> QED BY DEF ReadResponse, Readable, When, n, Took, rx
<1> HIDE DEF n, Took, rx
<1>5. 0 \in 0 .. n /\ n \in 0 .. n /\ (n > 0 => 1 \in 0 .. n)
  BY <1>2
<1>6. \E k \in 0 .. n, st \in {"Ok", "Pending", "Closed", "Error"}, s \in {"Ok", "Pending", "Closed"} :
         o = Took(st, k, s) /\ (st = "Ok" => Len(rx) + k = Frags)
  BY <1>1, <1>4, <1>5
<1> QED
  BY <1>3, <1>6

(* The whole exchange step of one poll().                                  *)
LEMMA TransactType ==
  ASSUME TransportTypeOK, NEW io \in Io, NEW o \in Transact(io)
  PROVE  /\ o \in Outcomes
         /\ o.st = "Ok" => Len(o.io.rx) = Frags
<1>1. PICK w \in WritePending(io) : o \in (IF w.st = "Ok" THEN ReadResponse(w) ELSE {w})
  BY DEF Transact
<1>2. w \in Outcomes
  BY WritePendingType
<1>3. CASE w.st = "Ok"
  BY <1>1, <1>2, <1>3, ReadResponseType
<1>4. CASE w.st # "Ok"
  BY <1>1, <1>2, <1>4
<1> QED BY <1>3, <1>4

(* The header of a complete packet is one.                                 *)
LEMMA HeadPacket ==
  ASSUME NEW rx \in Stream(Frags), Len(rx) = Frags
  PROVE  rx[1].pkt \in Packet
<1>1. rx \in Seq(Fragment) /\ 1 \in 1 .. Len(rx)
  BY WireAssumption DEF Stream
<1>2. rx[1] \in Fragment
  BY <1>1, ElementOfSeq
<1> QED BY <1>2 DEF Fragment

(* The type invariant through the operations of TcpConnection.             *)
LEMMA EmptyStream == ASSUME NEW n \in Nat PROVE << >> \in Stream(n)
  BY EmptySeq DEF Stream

LEMMA WireType ==
  ASSUME NEW s \in {"none", "connecting", "up", "refused", "fin", "reset"}
  PROVE  Wire(s) \in [sock : {"none", "connecting", "up", "refused", "fin", "reset"},
                       c2s : Stream(SndBuf), s2c : Stream(RcvBuf)]
  BY EmptyStream, WireAssumption DEF Wire

LEMMA TcpCloseType ==
  ASSUME TcpClose
  PROVE  TransportTypeOK'
  BY WireType DEF TcpClose, TcpClosed, TransportTypeOK

LEMMA TcpConnectType ==
  ASSUME TransportTypeOK, NEW timeout \in Nat, NEW st, TcpConnect(timeout, st)
  PROVE  TransportTypeOK'
<1> DEFINE Tcp == [fd : BOOLEAN, state : {"Ok", "Pending", "Closed"}, timer : Nat]
<1>1. tcp' \in Tcp
  <2>1. TcpClosed \in Tcp /\ tcp \in Tcp
    BY DEF TcpClosed, TransportTypeOK
  <2>2. [fd |-> TRUE, state |-> "Pending", timer |-> timeout] \in Tcp
    OBVIOUS
  <2> HIDE DEF Tcp
  <2> QED BY <2>1, <2>2 DEF TcpConnect
<1>2. net' = Wire("connecting") \/ net' = Wire("none")
  BY DEF TcpConnect
<1> QED BY <1>1, <1>2, WireType DEF TransportTypeOK

LEMMA TcpPollType ==
  ASSUME TransportTypeOK, NEW st, TcpPoll(st)
  PROVE  TransportTypeOK'
<1>1. CASE TcpClose
  BY <1>1, TcpCloseType
<1>2. CASE UNCHANGED <<tcp, net>>
  BY <1>2 DEF TransportTypeOK
<1>3. CASE tcp' = [tcp EXCEPT !.state = "Ok"] /\ UNCHANGED net
  BY <1>3 DEF TransportTypeOK
<1> QED BY <1>1, <1>2, <1>3 DEF TcpPoll

LEMMA ApplyType ==
  ASSUME TransportTypeOK, NEW o \in Outcomes, NEW close, Apply(o, close)
  PROVE  TransportTypeOK'
<1>1. CASE close
  BY <1>1, TcpCloseType DEF Apply
<1>2. CASE ~close
  <2>1. o.state \in {"Ok", "Pending", "Closed"} /\ o.c2s \in Stream(SndBuf) /\ o.s2c \in Stream(RcvBuf)
    BY DEF Outcomes
  <2>2. tcp' = [tcp EXCEPT !.state = o.state] /\ net' = [net EXCEPT !.c2s = o.c2s, !.s2c = o.s2c]
    BY <1>2 DEF Apply
  <2> QED BY <2>1, <2>2 DEF TransportTypeOK
<1> QED BY <1>1, <1>2

-----------------------------------------------------------------------------
(* The buffers, the message and the server.                                *)

LEMMA PacketType ==
  ASSUME NEW c \in Command, NEW h \in Handles \cup {0}, NEW x \in 0 .. CtxMod - 1,
         NEW t \in Names \cup {NoName}
  PROVE  NewIo([command |-> c, session |-> h, context |-> x, tag |-> t, status |-> "ok"]) \in Io
<1> DEFINE p == [command |-> c, session |-> h, context |-> x, tag |-> t, status |-> "ok"]
<1>1. p \in Packet
  BY DEF Packet
<1>2. 0 \in 0 .. Frags /\ << >> \in Stream(Frags)
  BY EmptyStream, WireAssumption
<1> HIDE DEF p
<1> QED BY <1>1, <1>2 DEF NewIo, Io, p

LEMMA NoIoType == NoIo \in Io
<1>1. 1 \in 0 .. CtxMod - 1
  BY WireAssumption
<1> QED BY <1>1, PacketType DEF NoIo, Command

LEMMA DecType == ASSUME NEW t \in Nat PROVE Dec(t) \in Nat
  BY DEF Dec

LEMMA MsgSendType ==
  ASSUME MsgTypeOK, NEW h \in Handles \cup {0}, NEW t \in Names \cup {NoName}, NEW st,
         MsgSend(h, t, st)
  PROVE  MsgTypeOK'
<1> DEFINE p == [command |-> "SendRRData", session |-> h, context |-> msg.context,
                 tag |-> t, status |-> "ok"]
<1>1. msg.context \in 0 .. CtxMod - 1
  BY DEF MsgTypeOK
<1>2. NewIo(p) \in Io
  BY <1>1, PacketType DEF Command
<1>3. (msg.context + 1) % CtxMod \in 0 .. CtxMod - 1
  BY <1>1, WireAssumption
<1> HIDE DEF p
<1>4. CASE UNCHANGED msg
  BY <1>4 DEF MsgTypeOK
<1>5. CASE msg' = [state |-> "Sending", context |-> (msg.context + 1) % CtxMod,
                   timer |-> OpTimeout, io |-> NewIo(p)]
  BY <1>2, <1>3, <1>5, TimeoutAssumption DEF MsgTypeOK
<1> QED BY <1>4, <1>5 DEF MsgSend, p

LEMMA MsgPollType ==
  ASSUME TransportTypeOK, MsgTypeOK, NEW st, MsgPoll(st)
  PROVE  /\ TransportTypeOK' /\ MsgTypeOK'
         /\ st = "Ok" => MsgReply(msg').tag \in Names \cup {NoName}
<1>0. msg.io \in Io
  BY DEF MsgTypeOK
<1>1. CASE MsgBusy /\ msg.timer = 0
  <2>1. st = "Timeout" /\ msg' = MsgFailed /\ UNCHANGED <<tcp, net>>
    BY <1>1 DEF MsgPoll, PollInFlight, MsgExpired
  <2>2. MsgTypeOK'
    BY <2>1, NoIoType DEF MsgFailed, MsgTypeOK
  <2>3. TransportTypeOK'
    BY <2>1 DEF TransportTypeOK
  <2> QED BY <2>1, <2>2, <2>3
<1>2. CASE MsgBusy /\ msg.timer # 0
  <2>1. PICK o \in Transact(msg.io) :
          /\ Apply(o, FALSE)
          /\ \/ /\ st # "Ok"
                /\ \/ msg' = [msg EXCEPT !.io = o.io, !.state = IF Written(o) THEN "Receiving" ELSE @]
                   \/ msg' = MsgFailed
             \/ /\ o.st = "Ok"
                /\ msg' = [msg EXCEPT !.state = "Done", !.timer = 0, !.io = o.io]
    BY <1>2 DEF MsgPoll, PollInFlight, MsgExpired
  <2>2. o \in Outcomes /\ (o.st = "Ok" => Len(o.io.rx) = Frags)
    BY <1>0, TransactType
  <2>3. o.io \in Io /\ o.io.rx \in Stream(Frags)
    BY <2>2 DEF Outcomes, Io
  <2>4. o.st = "Ok" => o.io.rx[1].pkt.tag \in Names \cup {NoName}
    BY <2>2, <2>3, HeadPacket DEF Packet
  <2>5. TransportTypeOK'
    BY <2>1, <2>2, ApplyType
  <2>6. MsgTypeOK'
    <3>1. CASE msg' = [msg EXCEPT !.io = o.io, !.state = IF Written(o) THEN "Receiving" ELSE @]
      <4>1. CASE Written(o)
        BY <2>3, <3>1, <4>1 DEF MsgTypeOK
      <4>2. CASE ~Written(o)
        BY <1>2, <2>3, <3>1, <4>2 DEF MsgTypeOK, MsgBusy
      <4> QED BY <4>1, <4>2
    <3>2. CASE msg' = MsgFailed
      BY <3>2, NoIoType DEF MsgFailed, MsgTypeOK
    <3>3. CASE o.st = "Ok" /\ msg' = [msg EXCEPT !.state = "Done", !.timer = 0, !.io = o.io]
      BY <2>2, <2>3, <3>3 DEF MsgTypeOK
    <3> QED BY <2>1, <3>1, <3>2, <3>3
  <2>7. st = "Ok" => o.st = "Ok" /\ msg'.io = o.io
    BY <2>1 DEF MsgTypeOK
  <2> QED BY <2>4, <2>5, <2>6, <2>7 DEF MsgReply
<1>3. CASE ~MsgBusy
  <2>1. UNCHANGED <<tcp, net, msg>> /\ st = MsgSettled[msg.state]
    BY <1>3 DEF MsgPoll
  <2>2. TransportTypeOK' /\ MsgTypeOK'
    BY <2>1 DEF TransportTypeOK, MsgTypeOK
  <2>3. st = "Ok" => msg.state = "Done"
    BY <1>3, <2>1 DEF MsgSettled, MsgBusy, MsgTypeOK
  <2>4. msg.io.rx \in Stream(Frags)
    BY <1>0 DEF Io
  <2>5. st = "Ok" => msg.io.rx[1].pkt.tag \in Names \cup {NoName}
    BY <2>3, <2>4, HeadPacket DEF MsgTypeOK, Packet
  <2> QED BY <2>1, <2>2, <2>5 DEF MsgReply
<1> QED BY <1>1, <1>2, <1>3

(* send() hands out the message only when it is free.                      *)
LEMMA MsgSendBusy ==
  ASSUME NEW h, NEW t, NEW st, MsgSend(h, t, st)
  PROVE  /\ st = "Pending" => ~MsgBusy /\ MsgBusy'
         /\ st # "Pending" => msg' = msg
  BY DEF MsgSend, MsgBusy

(* poll() keeps a busy message busy exactly as long as it returns Pending. *)
LEMMA MsgPollBusy ==
  ASSUME MsgTypeOK, MsgBusy, NEW st, MsgPoll(st)
  PROVE  MsgBusy' <=> st = "Pending"
<1>1. CASE msg.timer = 0
  BY <1>1 DEF MsgPoll, PollInFlight, MsgExpired, MsgFailed, MsgBusy, MsgTypeOK
<1>2. CASE msg.timer # 0
  <2>1. PICK o \in Transact(msg.io) :
          \/ /\ st = "Pending"
             /\ msg' = [msg EXCEPT !.io = o.io, !.state = IF Written(o) THEN "Receiving" ELSE @]
          \/ st # "Pending" /\ msg' = MsgFailed
          \/ st # "Pending" /\ msg' = [msg EXCEPT !.state = "Done", !.timer = 0, !.io = o.io]
    BY <1>2 DEF MsgPoll, PollInFlight, MsgExpired
  <2>2. CASE /\ st = "Pending"
             /\ msg' = [msg EXCEPT !.io = o.io, !.state = IF Written(o) THEN "Receiving" ELSE @]
    <3>1. msg'.state \in {"Receiving", msg.state}
      BY <2>2 DEF MsgTypeOK
    <3> QED BY <2>2, <3>1 DEF MsgBusy
  <2>3. CASE st # "Pending" /\ msg' = MsgFailed
    BY <2>3 DEF MsgFailed, MsgBusy, MsgTypeOK
  <2>4. CASE st # "Pending" /\ msg' = [msg EXCEPT !.state = "Done", !.timer = 0, !.io = o.io]
    BY <2>4 DEF MsgBusy, MsgTypeOK
  <2> QED BY <2>1, <2>2, <2>3, <2>4
<1> QED BY <1>1, <1>2

(* The server and the network keep the streams within their bounds.        *)
LEMMA PlcNextType ==
  ASSUME TransportTypeOK, PlcTypeOK, PlcNext
  PROVE  TransportTypeOK' /\ PlcTypeOK'
<1>1. Frags \in Nat /\ SndBuf \in Nat /\ RcvBuf \in Nat
  BY WireAssumption
<1>2. /\ net.c2s \in Seq(Fragment) /\ Len(net.c2s) \in Nat /\ Len(net.c2s) <= SndBuf
      /\ net.s2c \in Seq(Fragment) /\ Len(net.s2c) \in Nat /\ Len(net.s2c) <= RcvBuf
  BY <1>1, StreamType DEF TransportTypeOK
<1>3. /\ srv.rx \in Seq(Fragment) /\ Len(srv.rx) \in Nat /\ Len(srv.rx) <= Frags
      /\ srv.out \in Seq(Fragment) /\ Len(srv.out) \in Nat /\ Len(srv.out) <= Frags
  BY <1>1, StreamType DEF PlcTypeOK
<1>4. SrvFresh \in [reg : Handles \cup {0}, rx : Stream(Frags), out : Stream(Frags)]
  BY <1>1, EmptyStream DEF SrvFresh
<1>5. CASE PlcAccept
  BY <1>4, <1>5 DEF PlcAccept, TransportTypeOK, PlcTypeOK
<1>6. CASE PlcReceive
  <2> DEFINE rx == Append(srv.rx, Head(net.c2s))
  <2>1. Head(net.c2s) \in Fragment /\ Tail(net.c2s) \in Seq(Fragment)
        /\ Len(Tail(net.c2s)) = Len(net.c2s) - 1
    BY <1>2, <1>6, HeadTailProperties DEF PlcReceive
  <2>2. rx \in Seq(Fragment) /\ Len(rx) = Len(srv.rx) + 1
    BY <1>3, <2>1, AppendProperties
  <2>3. Tail(net.c2s) \in Stream(SndBuf)
    BY <1>1, <1>2, <2>1 DEF Stream
  <2>4. TransportTypeOK'
    BY <1>6, <2>3 DEF PlcReceive, TransportTypeOK
  <2> HIDE DEF rx
  <2>5. Len(rx) <= Frags => rx \in Stream(Frags)
    BY <2>2 DEF Stream
  <2>6. Len(rx) = Frags => rx[1].pkt \in Packet
    BY <2>5, <1>1, HeadPacket
  <2>7. ASSUME NEW p \in Packet, NEW h \in Handles \cup {0},
               NEW s \in {"ok", "empty", "encapErr", "cipErr"}
        PROVE  Reply(p, h, s) \in Packet
    BY DEF Reply, Packet
  <2>8. ASSUME NEW p \in Packet PROVE Fragments(p) \in Stream(Frags)
    BY <1>1, FragmentsType DEF Stream
  <2>9. ASSUME NEW p \in Packet, NEW a \in Answers(p)
        PROVE  a.reg \in Handles \cup {0} /\ a.reply \in Packet
    <3>1. srv.reg \in Handles \cup {0} /\ p.session \in Handles \cup {0} /\ p.command \in Command
      BY DEF PlcTypeOK, Packet
    <3>2. PICK r \in Handles \cup {0}, h \in Handles \cup {0},
               s \in {"ok", "empty", "encapErr", "cipErr"} :
            a = [reg |-> r, reply |-> Reply(p, h, s)]
      BY <3>1 DEF Answers, Command
    <3>3. Reply(p, h, s) \in Packet
      BY <2>7
    <3> QED BY <3>2, <3>3
  <2>10. << >> \in Stream(Frags)
    BY <1>1, EmptyStream
  <2>11. PlcTypeOK'
    <3>1. CASE Len(rx) < Frags /\ srv' = [srv EXCEPT !.rx = rx]
      BY <1>1, <2>2, <2>5, <3>1 DEF PlcTypeOK
    <3>2. CASE Len(rx) = Frags /\ \E a \in Answers(rx[1].pkt) :
                 srv' = [reg |-> a.reg, rx |-> << >>, out |-> Fragments(a.reply)]
      BY <2>6, <2>8, <2>9, <2>10, <3>2 DEF PlcTypeOK
    <3>3. CASE srv' = [srv EXCEPT !.rx = << >>]
      BY <2>10, <3>3 DEF PlcTypeOK
    <3>4. CASE Len(rx) = Frags /\ srv' = [srv EXCEPT !.rx = << >>,
                          !.out = Fragments(Reply(rx[1].pkt, 0, "encapErr"))]
      <4>1. Fragments(Reply(rx[1].pkt, 0, "encapErr")) \in Stream(Frags)
        BY <2>6, <2>7, <2>8, <3>4
      <4> QED BY <2>10, <3>4, <4>1 DEF PlcTypeOK
    <3> QED BY <1>6, <3>1, <3>2, <3>3, <3>4 DEF PlcReceive, rx
  <2> QED BY <2>4, <2>11
<1>7. CASE PlcSend
  <2>1. Head(srv.out) \in Fragment /\ Tail(srv.out) \in Seq(Fragment)
        /\ Len(Tail(srv.out)) = Len(srv.out) - 1
    BY <1>3, <1>7, HeadTailProperties DEF PlcSend
  <2>2. Tail(srv.out) \in Stream(Frags)
    BY <1>1, <1>3, <2>1 DEF Stream
  <2>3. /\ Append(net.s2c, Head(srv.out)) \in Seq(Fragment)
        /\ Len(Append(net.s2c, Head(srv.out))) = Len(net.s2c) + 1
    BY <1>2, <2>1, AppendProperties
  <2>4. Append(net.s2c, Head(srv.out)) \in Stream(RcvBuf)
    BY <1>1, <1>2, <1>7, <2>3 DEF PlcSend, Stream
  <2> QED BY <1>7, <2>2, <2>4 DEF PlcSend, TransportTypeOK, PlcTypeOK
<1>8. CASE PlcClose
  <2>1. << >> \in Stream(SndBuf)
    BY <1>1, EmptyStream
  <2> QED BY <1>4, <1>8, <2>1, WireType DEF PlcClose, TransportTypeOK, PlcTypeOK
<1> QED BY <1>5, <1>6, <1>7, <1>8 DEF PlcNext

-----------------------------------------------------------------------------
(* What the loops do to the streams: a piece of the request is appended to *)
(* one, a prefix is taken from the other.                                  *)

LEMMA NothingWritten ==
  ASSUME NEW s \in Seq(Fragment), NEW t \in Seq(Fragment), NEW a \in Nat, a <= Len(t)
  PROVE  s \o SubSeq(t, a + 1, a + 0) = s
<1>1. SubSeq(t, a + 1, a + 0) = << >>
  BY SubSeqProperties
<1> QED BY <1>1, ConcatEmptySeq

LEMMA NothingTaken ==
  ASSUME NEW s \in Seq(Fragment), NEW t \in Seq(Fragment)
  PROVE  s \o SubSeq(t, 1, 0) = s /\ SubSeq(t, 0 + 1, Len(t)) = t
<1>1. SubSeq(t, 1, 0) = << >>
  BY SubSeqProperties, LenProperties
<1>2. SubSeq(t, 1, Len(t)) = t
  BY SubSeqFull
<1> QED BY <1>1, <1>2, ConcatEmptySeq

(* writePending() in outcome w has written the next n fragments.           *)
Wrote(io, n, w) ==
  /\ io.sent + n <= Frags
  /\ w.c2s = net.c2s \o SubSeq(Fragments(io.req), io.sent + 1, io.sent + n)
  /\ w.s2c = net.s2c /\ w.io.req = io.req /\ w.io.rx = io.rx
  /\ w.io.sent = io.sent + n \/ (net.sock = "fin" /\ w.io.sent = Frags)
  /\ n > 0 => Usable /\ net.sock \notin {"fin", "reset"}
  /\ w.st = "Ok" => w.io.sent = Frags
  /\ w.st = "Closed" => ~(tcp.fd /\ w.state = "Ok")
  /\ w.state = tcp.state \/ (w.state = "Closed" /\ net.sock \in {"fin", "reset"})

LEMMA WriteFlow ==
  ASSUME TransportTypeOK, NEW io \in Io, NEW w \in WritePending(io)
  PROVE  \E n \in 0 .. Frags : Wrote(io, n, w)
<1> DEFINE left == Frags - io.sent
           m    == Smaller(left, SndBuf - Len(net.c2s))
           Out(k) == [req |-> io.req, sent |-> k, rx |-> io.rx]
           Piece(k) == SubSeq(Fragments(io.req), io.sent + 1, io.sent + k)
<1>1. io.sent \in 0 .. Frags /\ io.req \in Packet /\ io = Out(io.sent)
  BY DEF Io
<1>2. net.c2s \in Seq(Fragment) /\ Len(net.c2s) \in Nat /\ Len(net.c2s) <= SndBuf
  BY LenProperties DEF TransportTypeOK, Stream
<1>3. Fragments(io.req) \in Seq(Fragment) /\ Len(Fragments(io.req)) = Frags
  BY <1>1, FragmentsType
<1>4. net.c2s \o Piece(0) = net.c2s
  BY <1>1, <1>2, <1>3, WireAssumption, NothingWritten
<1>5. /\ m \in 0 .. Frags /\ io.sent + m <= Frags /\ io.sent + 0 <= Frags
      /\ m = left => io.sent + m = Frags
      /\ left = 0 => io.sent = Frags
      /\ io.sent + 0 = io.sent /\ 0 \in 0 .. Frags
  <2>1. Frags \in Nat /\ SndBuf \in Nat
    BY WireAssumption
  <2>2. left \in Nat /\ SndBuf - Len(net.c2s) \in Nat
    BY <1>1, <1>2, <2>1
  <2>3. m \in Int /\ m <= left /\ m >= 0
    BY <2>2 DEF Smaller
  <2> HIDE DEF m
  <2> QED BY <1>1, <2>1, <2>2, <2>3
<1>6. \/ w = Outcome("Ok", io, tcp.state, net.c2s, net.s2c) /\ left = 0
      \/ w = Outcome("Closed", io, tcp.state, net.c2s, net.s2c) /\ ~Usable
      \/ /\ net.sock = "fin" /\ Usable
         /\ \/ w = Outcome("Closed", io, "Closed", net.c2s, net.s2c)
            \/ w = Outcome("Ok", Out(Frags), "Ok", net.c2s, net.s2c)
      \/ /\ net.sock = "reset" /\ Usable
         /\ \/ w = Outcome("Closed", io, "Closed", net.c2s, net.s2c)
            \/ w = Outcome("Error", io, "Ok", net.c2s, net.s2c)
      \/ /\ net.sock \notin {"fin", "reset"} /\ Usable
         /\ w = Outcome(IF m = left THEN "Ok" ELSE "Pending", Out(io.sent + m), tcp.state,
                        net.c2s \o Piece(m), net.s2c)
  <2> HIDE DEF m, Piece, Out, left
  <2> QED BY DEF WritePending, When, m, Piece, Out, left
<1> HIDE DEF m, Piece, left
<1>7. CASE w = Outcome("Ok", io, tcp.state, net.c2s, net.s2c) /\ left = 0
  <2>1. Wrote(io, 0, w)
    BY <1>1, <1>4, <1>5, <1>7 DEF Wrote, Outcome, Piece
  <2> QED BY <2>1, <1>5
<1>8. CASE w = Outcome("Closed", io, tcp.state, net.c2s, net.s2c) /\ ~Usable
  <2>1. Wrote(io, 0, w)
    BY <1>1, <1>4, <1>5, <1>8 DEF Wrote, Outcome, Piece, Usable, Connected
  <2> QED BY <2>1, <1>5
<1>9. CASE /\ net.sock = "fin" /\ Usable
           /\ \/ w = Outcome("Closed", io, "Closed", net.c2s, net.s2c)
              \/ w = Outcome("Ok", Out(Frags), "Ok", net.c2s, net.s2c)
  <2>1. Wrote(io, 0, w)
    BY <1>1, <1>4, <1>5, <1>9 DEF Wrote, Outcome, Piece, Usable, Connected
  <2> QED BY <2>1, <1>5
<1>10. CASE /\ net.sock = "reset" /\ Usable
            /\ \/ w = Outcome("Closed", io, "Closed", net.c2s, net.s2c)
               \/ w = Outcome("Error", io, "Ok", net.c2s, net.s2c)
  <2>1. Wrote(io, 0, w)
    BY <1>1, <1>4, <1>5, <1>10 DEF Wrote, Outcome, Piece, Usable, Connected
  <2> QED BY <2>1, <1>5
<1>11. CASE /\ net.sock \notin {"fin", "reset"} /\ Usable
            /\ w = Outcome(IF m = left THEN "Ok" ELSE "Pending", Out(io.sent + m), tcp.state,
                           net.c2s \o Piece(m), net.s2c)
  <2>1. Wrote(io, m, w)
    BY <1>1, <1>5, <1>11 DEF Wrote, Outcome, Piece
  <2> QED BY <2>1, <1>5
<1> QED BY <1>6, <1>7, <1>8, <1>9, <1>10, <1>11

(* readResponse() in outcome o has taken k fragments.                      *)
Took(w, k, o) ==
  /\ k <= Len(w.s2c) /\ Len(w.io.rx) + k <= Frags
  /\ o.io.rx = w.io.rx \o SubSeq(w.s2c, 1, k)
  /\ o.s2c = SubSeq(w.s2c, k + 1, Len(w.s2c))
  /\ o.c2s = w.c2s /\ o.io.req = w.io.req /\ o.io.sent = w.io.sent
  /\ o.st = "Closed" => ~(tcp.fd /\ o.state = "Ok")
  /\ o.state = w.state \/ (o.state = "Closed" /\ net.sock = "fin")

LEMMA ReadFlow ==
  ASSUME TransportTypeOK, NEW w \in Outcomes, NEW o \in ReadResponse(w)
  PROVE  \E k \in 0 .. Frags : Took(w, k, o)
<1> DEFINE rx == w.io.rx
           n  == Smaller(Frags - Len(rx), Len(w.s2c))
           Result(st, k, state) ==
             Outcome(st, [req |-> w.io.req, sent |-> w.io.sent, rx |-> rx \o SubSeq(w.s2c, 1, k)],
                     state, w.c2s, SubSeq(w.s2c, k + 1, Len(w.s2c)))
<1>1. Len(rx) \in Nat /\ Len(rx) <= Frags /\ Len(w.s2c) \in Nat
  <2>1. w.io.rx \in Stream(Frags) /\ w.s2c \in Stream(RcvBuf)
    BY DEF Outcomes, Io
  <2> QED BY <2>1, StreamType, WireAssumption
<1>2. /\ n \in 0 .. Frags /\ n <= Len(w.s2c) /\ Len(rx) + n <= Frags
      /\ 0 \in 0 .. Frags /\ Len(rx) + 0 <= Frags /\ 0 <= Len(w.s2c)
      /\ n > 0 => 1 \in 0 .. Frags /\ 1 <= Len(w.s2c) /\ Len(rx) + 1 <= Frags
  <2>1. Frags \in Nat
    BY WireAssumption
  <2> HIDE DEF rx
  <2>3. n \in Int /\ n <= Frags - Len(rx) /\ n <= Len(w.s2c) /\ n >= 0
    BY <1>1, <2>1 DEF Smaller
  <2> HIDE DEF n
  <2> QED BY <1>1, <2>1, <2>3
<1>3. \/ o = Result("Closed", 0, w.state) /\ ~(tcp.fd /\ w.state = "Ok")
      \/ o = Result("Error", 0, w.state)
      \/ o = Result("Ok", n, w.state)
      \/ o = Result("Closed", n, "Closed") /\ net.sock = "fin"
      \/ o = Result("Pending", n, w.state)
      \/ o = Result("Error", 1, w.state) /\ n > 0
  <2> HIDE DEF n, Result, rx
  <2> QED BY DEF ReadResponse, Readable, When, n, Result, rx
<1>4. PICK k \in 0 .. Frags, st \in {"Ok", "Pending", "Closed", "Error"},
           s \in {w.state, "Closed"} :
        /\ o = Result(st, k, s) /\ k <= Len(w.s2c) /\ Len(rx) + k <= Frags
        /\ st = "Closed" => ~(tcp.fd /\ s = "Ok")
        /\ s = w.state \/ (s = "Closed" /\ net.sock = "fin")
  <2> HIDE DEF n, Result, rx
  <2> QED BY <1>2, <1>3
<1>5. Took(w, k, o)
  BY <1>4 DEF Took, Outcome
<1> QED BY <1>5

(* One poll() of an exchange: n fragments written, k taken.                *)
Flow(io, n, k, o) ==
  /\ io.sent + n <= Frags /\ k <= Len(net.s2c) /\ Len(io.rx) + k <= Frags
  /\ o.c2s = net.c2s \o SubSeq(Fragments(io.req), io.sent + 1, io.sent + n)
  /\ o.s2c = SubSeq(net.s2c, k + 1, Len(net.s2c))
  /\ o.io.rx = io.rx \o SubSeq(net.s2c, 1, k)
  /\ o.io.req = io.req
  /\ o.io.sent = io.sent + n \/ (net.sock = "fin" /\ o.io.sent = Frags)
  /\ n > 0 => Usable /\ net.sock \notin {"fin", "reset"}
  /\ k > 0 \/ o.st = "Ok" => o.io.sent = Frags
  /\ o.st = "Ok" => Len(o.io.rx) = Frags
  /\ o.st = "Closed" => ~(tcp.fd /\ o.state = "Ok")
  /\ o.state = tcp.state \/ (o.state = "Closed" /\ net.sock \in {"fin", "reset"})

LEMMA TransactFlow ==
  ASSUME TransportTypeOK, NEW io \in Io, NEW o \in Transact(io)
  PROVE  \E n \in 0 .. Frags, k \in 0 .. Frags : Flow(io, n, k, o)
<1>1. PICK w \in WritePending(io) : o \in (IF w.st = "Ok" THEN ReadResponse(w) ELSE {w})
  BY DEF Transact
<1>2. w \in Outcomes
  BY WritePendingType
<1>3. PICK n \in 0 .. Frags : Wrote(io, n, w)
  BY WriteFlow
<1>4. CASE w.st = "Ok"
  <2>1. PICK k \in 0 .. Frags : Took(w, k, o)
    BY <1>1, <1>2, <1>4, ReadFlow
  <2>2. o.st = "Ok" => Len(o.io.rx) = Frags
    BY <1>1, <1>2, <1>4, ReadResponseType
  <2>3. Flow(io, n, k, o)
    BY <1>3, <1>4, <2>1, <2>2 DEF Flow, Wrote, Took
  <2> QED BY <2>3
<1>5. CASE w.st # "Ok"
  <2>1. o = w
    BY <1>1, <1>5
  <2>2. io.rx \in Seq(Fragment) /\ net.s2c \in Seq(Fragment) /\ Len(io.rx) \in Nat
        /\ Len(net.s2c) \in Nat /\ Len(io.rx) <= Frags
    BY StreamType, WireAssumption DEF Io, TransportTypeOK
  <2>3. io.rx \o SubSeq(net.s2c, 1, 0) = io.rx /\ SubSeq(net.s2c, 0 + 1, Len(net.s2c)) = net.s2c
    BY <2>2, NothingTaken
  <2>4. 0 <= Len(net.s2c) /\ Len(io.rx) + 0 <= Frags /\ 0 \in 0 .. Frags /\ ~(0 > 0)
    BY <2>2, WireAssumption
  <2>5. Flow(io, n, 0, o)
    BY <1>3, <1>5, <2>1, <2>3, <2>4, Zenon DEF Flow, Wrote
  <2> QED BY <2>4, <2>5
<1> QED BY <1>4, <1>5

-----------------------------------------------------------------------------
(* The packets of which there is a fragment in stream s.                   *)
Pkts(s) == {s[k].pkt : k \in 1 .. Len(s)}

LEMMA PktsType ==
  ASSUME NEW s \in Seq(Fragment)
  PROVE  Pkts(s) \subseteq Packet
<1> SUFFICES ASSUME NEW k \in 1 .. Len(s) PROVE s[k].pkt \in Packet
  BY DEF Pkts
<1>1. s[k] \in Fragment
  BY ElementOfSeq
<1> QED BY <1>1 DEF Fragment

LEMMA PktsEmpty == Pkts(<< >>) = {}
  BY DEF Pkts

LEMMA PktsConcat ==
  ASSUME NEW s \in Seq(Fragment), NEW t \in Seq(Fragment)
  PROVE  Pkts(s \o t) \subseteq Pkts(s) \cup Pkts(t)
<1> SUFFICES ASSUME NEW k \in 1 .. Len(s \o t)
             PROVE  (s \o t)[k].pkt \in Pkts(s) \cup Pkts(t)
  BY DEF Pkts
<1>1. Len(s \o t) = Len(s) + Len(t) /\ Len(s) \in Nat /\ Len(t) \in Nat
  BY ConcatProperties, LenProperties
<1>2. CASE k <= Len(s)
  <2>1. (s \o t)[k] = s[k] /\ k \in 1 .. Len(s)
    BY <1>1, <1>2, ConcatProperties
  <2> QED BY <2>1 DEF Pkts
<1>3. CASE k > Len(s)
  <2>1. (s \o t)[k] = t[k - Len(s)] /\ k - Len(s) \in 1 .. Len(t)
    BY <1>1, <1>3, ConcatProperties
  <2> QED BY <2>1 DEF Pkts
<1> QED BY <1>1, <1>2, <1>3

LEMMA PktsSub ==
  ASSUME NEW s \in Seq(Fragment), NEW a \in Nat \ {0}, NEW b \in Nat, b <= Len(s), a <= b + 1
  PROVE  Pkts(SubSeq(s, a, b)) \subseteq Pkts(s)
<1> DEFINE t == SubSeq(s, a, b)
<1> SUFFICES ASSUME NEW k \in 1 .. Len(t) PROVE t[k].pkt \in Pkts(s)
  BY DEF Pkts
<1>1. Len(t) = b - a + 1
  BY SubStream
<1>2. t[k] = s[a + k - 1] /\ a + k - 1 \in 1 .. Len(s)
  BY <1>1, LenProperties
<1> QED BY <1>2 DEF Pkts

LEMMA PktsTail ==
  ASSUME NEW s \in Seq(Fragment), s # << >>
  PROVE  Pkts(Tail(s)) \subseteq Pkts(s) /\ Head(s).pkt \in Pkts(s)
<1>1. Len(s) \in Nat /\ Len(s) >= 1 /\ Head(s) = s[1] /\ Len(Tail(s)) = Len(s) - 1
  BY HeadTailProperties, LenProperties, EmptySeq
<1>2. ASSUME NEW k \in 1 .. Len(Tail(s)) PROVE Tail(s)[k].pkt \in Pkts(s)
  <2>1. Tail(s)[k] = s[k + 1] /\ k + 1 \in 1 .. Len(s)
    BY <1>1, HeadTailProperties
  <2> QED BY <2>1 DEF Pkts
<1>3. 1 \in 1 .. Len(s)
  BY <1>1
<1> QED BY <1>1, <1>2, <1>3 DEF Pkts

LEMMA PktsAppend ==
  ASSUME NEW s \in Seq(Fragment), NEW f \in Fragment
  PROVE  Pkts(Append(s, f)) \subseteq Pkts(s) \cup {f.pkt}
<1> SUFFICES ASSUME NEW k \in 1 .. Len(Append(s, f))
             PROVE  Append(s, f)[k].pkt \in Pkts(s) \cup {f.pkt}
  BY DEF Pkts
<1>1. Len(Append(s, f)) = Len(s) + 1 /\ Len(s) \in Nat
  BY AppendProperties, LenProperties
<1>2. CASE k \in 1 .. Len(s)
  <2>1. Append(s, f)[k] = s[k]
    BY <1>2, AppendProperties
  <2> QED BY <1>2, <2>1 DEF Pkts
<1>3. CASE k = Len(s) + 1
  BY <1>3, AppendProperties
<1> QED BY <1>1, <1>2, <1>3

LEMMA PktsFragments ==
  ASSUME NEW p \in Packet
  PROVE  Pkts(Fragments(p)) = {p}
<1>1. /\ Len(Fragments(p)) = Frags /\ 1 \in 1 .. Frags
      /\ \A k \in 1 .. Frags : Fragments(p)[k].pkt = p
  BY FragmentsType, WireAssumption DEF Fragments
<1> QED BY <1>1 DEF Pkts

(* The first packet of a full receive buffer.                              *)
LEMMA PktsHead ==
  ASSUME NEW s \in Stream(Frags), Len(s) = Frags
  PROVE  s[1].pkt \in Pkts(s)
<1>1. 1 \in 1 .. Len(s)
  BY WireAssumption
<1> QED BY <1>1 DEF Pkts

(* After a poll() of an exchange only its own request can be new in the    *)
(* stream to the PLC, and what is received was in the other stream.        *)
LEMMA TransactPkts ==
  ASSUME TransportTypeOK, NEW io \in Io, NEW o \in Transact(io)
  PROVE  /\ Pkts(o.c2s) \subseteq Pkts(net.c2s) \cup {io.req}
         /\ Pkts(o.s2c) \subseteq Pkts(net.s2c)
         /\ Pkts(o.io.rx) \subseteq Pkts(io.rx) \cup Pkts(net.s2c)
<1>1. PICK n \in 0 .. Frags, k \in 0 .. Frags : Flow(io, n, k, o)
  BY TransactFlow
<1>2. /\ io.sent \in 0 .. Frags /\ io.req \in Packet
      /\ io.rx \in Seq(Fragment) /\ net.c2s \in Seq(Fragment)
      /\ net.s2c \in Seq(Fragment) /\ Len(net.s2c) \in Nat
      /\ Frags \in Nat
  BY StreamType, WireAssumption DEF Io, TransportTypeOK
<1>3. Fragments(io.req) \in Seq(Fragment) /\ Len(Fragments(io.req)) = Frags
  BY <1>2, FragmentsType
<1>4. /\ io.sent + 1 \in Nat \ {0} /\ io.sent + n \in Nat /\ io.sent + n <= Frags
      /\ io.sent + 1 <= io.sent + n + 1
      /\ k + 1 \in Nat \ {0} /\ k \in Nat /\ k <= Len(net.s2c) /\ 1 <= k + 1
      /\ k + 1 <= Len(net.s2c) + 1 /\ 1 \in Nat \ {0}
  <2>1. io.sent + n <= Frags /\ k <= Len(net.s2c)
    BY <1>1 DEF Flow
  <2> QED BY <1>2, <2>1
<1> DEFINE piece == SubSeq(Fragments(io.req), io.sent + 1, io.sent + n)
           got   == SubSeq(net.s2c, 1, k)
           rest  == SubSeq(net.s2c, k + 1, Len(net.s2c))
<1>5. piece \in Seq(Fragment) /\ Pkts(piece) \subseteq {io.req}
  BY <1>2, <1>3, <1>4, SubStream, PktsSub, PktsFragments
<1>6. got \in Seq(Fragment) /\ Pkts(got) \subseteq Pkts(net.s2c)
  BY <1>2, <1>4, SubStream, PktsSub
<1>7. Pkts(rest) \subseteq Pkts(net.s2c)
  <2>1. Len(net.s2c) <= Len(net.s2c)
    BY <1>2
  <2> QED BY <1>2, <1>4, <2>1, PktsSub
<1>8. o.c2s = net.c2s \o piece /\ o.s2c = rest /\ o.io.rx = io.rx \o got
  BY <1>1 DEF Flow
<1> HIDE DEF piece, got, rest
<1>9. /\ Pkts(net.c2s \o piece) \subseteq Pkts(net.c2s) \cup Pkts(piece)
      /\ Pkts(io.rx \o got) \subseteq Pkts(io.rx) \cup Pkts(got)
  BY <1>2, <1>5, <1>6, PktsConcat
<1> QED BY <1>5, <1>6, <1>7, <1>8, <1>9

(* What a poll() of an exchange with request req does to the connection:   *)
(* the socket is the same, it may have been found closed, and the streams  *)
(* moved by what was written and read.                                     *)
Moved(req) ==
  /\ net'.sock = net.sock /\ tcp'.fd = tcp.fd
  /\ tcp'.state = tcp.state \/ (tcp'.state = "Closed" /\ net.sock \in {"fin", "reset"})
  /\ Pkts(net'.c2s) \subseteq Pkts(net.c2s) \cup {req}
  /\ Pkts(net'.s2c) \subseteq Pkts(net.s2c)
  /\ net.s2c = << >> => net'.s2c = << >>
  /\ ~Usable \/ net.sock \in {"fin", "reset"} => net'.c2s = net.c2s
  /\ \E t \in Seq(Fragment) : Pkts(t) \subseteq {req} /\ net'.c2s = net.c2s \o t

LEMMA NotMoved ==
  ASSUME TransportTypeOK, UNCHANGED <<tcp, net>>, NEW req
  PROVE  Moved(req)
<1>1. net.c2s \in Seq(Fragment)
  BY StreamType, WireAssumption DEF TransportTypeOK
<1>2. << >> \in Seq(Fragment) /\ net.c2s \o << >> = net.c2s /\ Pkts(<< >>) = {}
  BY <1>1, ConcatEmptySeq, PktsEmpty
<1>3. \E t \in Seq(Fragment) : Pkts(t) \subseteq {req} /\ net'.c2s = net.c2s \o t
  BY <1>2
<1> QED BY <1>3 DEF Moved

LEMMA ApplyFlow ==
  ASSUME TransportTypeOK, NEW io \in Io, NEW o \in Transact(io), Apply(o, FALSE)
  PROVE  /\ Moved(io.req)
         /\ o.st = "Closed" => ~(tcp'.fd /\ tcp'.state = "Ok")
         /\ Pkts(o.io.rx) \subseteq Pkts(io.rx) \cup Pkts(net.s2c)
         /\ o.io.req = io.req
<1>1. PICK n \in 0 .. Frags, k \in 0 .. Frags : Flow(io, n, k, o)
  BY TransactFlow
<1>2. tcp' = [tcp EXCEPT !.state = o.state] /\ net' = [net EXCEPT !.c2s = o.c2s, !.s2c = o.s2c]
  BY DEF Apply
<1>3. /\ net'.sock = net.sock /\ net'.c2s = o.c2s /\ net'.s2c = o.s2c
      /\ tcp'.fd = tcp.fd /\ tcp'.state = o.state
  BY <1>2 DEF TransportTypeOK
<1>4. /\ o.state = tcp.state \/ (o.state = "Closed" /\ net.sock \in {"fin", "reset"})
      /\ o.st = "Closed" => ~(tcp.fd /\ o.state = "Ok")
      /\ o.io.req = io.req
  BY <1>1 DEF Flow
<1>5. net.s2c = << >> => o.s2c = << >>
  <2> SUFFICES ASSUME net.s2c = << >> PROVE o.s2c = << >>
    OBVIOUS
  <2>1. k <= Len(net.s2c) /\ o.s2c = SubSeq(net.s2c, k + 1, Len(net.s2c))
    BY <1>1 DEF Flow
  <2>2. k = 0 /\ o.s2c = SubSeq(<< >>, 1, 0)
    BY <2>1
  <2> QED BY <2>2
<1>6. ~Usable \/ net.sock \in {"fin", "reset"} => o.c2s = net.c2s
  <2> SUFFICES ASSUME ~Usable \/ net.sock \in {"fin", "reset"} PROVE o.c2s = net.c2s
    OBVIOUS
  <2>1. /\ n > 0 => Usable /\ net.sock \notin {"fin", "reset"}
        /\ o.c2s = net.c2s \o SubSeq(Fragments(io.req), io.sent + 1, io.sent + n)
    BY <1>1 DEF Flow
  <2>2. n = 0
    BY <2>1
  <2>3. /\ io.sent \in Nat /\ io.sent <= Frags /\ io.req \in Packet
        /\ net.c2s \in Seq(Fragment)
    BY StreamType, WireAssumption DEF Io, TransportTypeOK
  <2>4. Fragments(io.req) \in Seq(Fragment) /\ Len(Fragments(io.req)) = Frags
    BY <2>3, FragmentsType
  <2> QED BY <2>1, <2>2, <2>3, <2>4, NothingWritten
<1>7. \E t \in Seq(Fragment) : Pkts(t) \subseteq {io.req} /\ o.c2s = net.c2s \o t
  <2>1. /\ io.sent + n <= Frags
        /\ o.c2s = net.c2s \o SubSeq(Fragments(io.req), io.sent + 1, io.sent + n)
    BY <1>1 DEF Flow
  <2>2. io.sent \in Nat /\ io.req \in Packet
    BY WireAssumption DEF Io
  <2>3. Fragments(io.req) \in Seq(Fragment) /\ Len(Fragments(io.req)) = Frags
    BY <2>2, FragmentsType
  <2>4. io.sent + 1 \in Nat \ {0} /\ io.sent + n \in Nat /\ io.sent + 1 <= io.sent + n + 1
    BY <2>2
  <2> QED BY <2>1, <2>2, <2>3, <2>4, SubStream, PktsSub, PktsFragments
<1> QED BY <1>3, <1>4, <1>5, <1>6, <1>7, TransactPkts DEF Moved

-----------------------------------------------------------------------------
(* What the server does to the streams.                                    *)

(* The packets the server has or will have a fragment of.                  *)
Inbound == Pkts(srv.rx) \cup Pkts(net.c2s)

LEMMA PlcReceiveCases ==
  ASSUME TransportTypeOK, PlcTypeOK, PlcReceive
  PROVE  /\ net.sock = "up" /\ net.c2s # << >> /\ srv.out = << >> /\ tcp' = tcp
         /\ net' = [net EXCEPT !.c2s = Tail(net.c2s)]
         /\ Pkts(net'.c2s) \subseteq Pkts(net.c2s)
         /\ \/ /\ srv' = [srv EXCEPT !.rx = Append(srv.rx, Head(net.c2s))]
               /\ Pkts(srv'.rx) \subseteq Inbound
            \/ \E p \in Inbound : \E a \in Answers(p) :
                  srv' = [reg |-> a.reg, rx |-> << >>, out |-> Fragments(a.reply)]
            \/ srv' = [srv EXCEPT !.rx = << >>]
            \/ \E p \in Inbound :
                  srv' = [srv EXCEPT !.rx = << >>, !.out = Fragments(Reply(p, 0, "encapErr"))]
<1> DEFINE rx == Append(srv.rx, Head(net.c2s))
<1>1. /\ net.sock = "up" /\ net.c2s # << >> /\ srv.out = << >> /\ tcp' = tcp
      /\ net' = [net EXCEPT !.c2s = Tail(net.c2s)]
  BY DEF PlcReceive
<1>2. /\ net.c2s \in Seq(Fragment) /\ srv.rx \in Seq(Fragment)
      /\ Len(srv.rx) \in Nat /\ Len(srv.rx) <= Frags
  BY StreamType, WireAssumption DEF TransportTypeOK, PlcTypeOK
<1>3. Head(net.c2s) \in Fragment
  BY <1>1, <1>2, HeadTailProperties
<1>4. Pkts(Tail(net.c2s)) \subseteq Pkts(net.c2s) /\ Head(net.c2s).pkt \in Pkts(net.c2s)
  BY <1>1, <1>2, PktsTail
<1>5. Pkts(rx) \subseteq Inbound
  BY <1>2, <1>3, <1>4, PktsAppend DEF Inbound
<1>6. net'.c2s = Tail(net.c2s)
  BY <1>1 DEF TransportTypeOK
<1>7. rx \in Seq(Fragment) /\ Len(rx) \in Nat
  BY <1>2, <1>3, AppendProperties, LenProperties
<1> HIDE DEF rx
<1>8. Len(rx) = Frags => rx[1].pkt \in Inbound
  <2>1. Len(rx) = Frags => rx \in Stream(Frags)
    BY <1>7, WireAssumption DEF Stream
  <2> QED BY <1>5, <2>1, PktsHead
<1>9. \/ srv' = [srv EXCEPT !.rx = rx]
      \/ Len(rx) = Frags /\ \E a \in Answers(rx[1].pkt) :
           srv' = [reg |-> a.reg, rx |-> << >>, out |-> Fragments(a.reply)]
      \/ srv' = [srv EXCEPT !.rx = << >>]
      \/ Len(rx) = Frags /\ srv' = [srv EXCEPT !.rx = << >>,
                                   !.out = Fragments(Reply(rx[1].pkt, 0, "encapErr"))]
  BY DEF PlcReceive, rx
<1>10. srv' = [srv EXCEPT !.rx = rx] => srv'.rx = rx
  BY DEF PlcTypeOK
<1> QED BY <1>1, <1>4, <1>5, <1>6, <1>8, <1>9, <1>10 DEF rx

(* Every answer keeps command, context and tag of what it answers.         *)
LEMMA AnswersKeep ==
  ASSUME PlcTypeOK, NEW p \in Packet, NEW a \in Answers(p)
  PROVE  /\ a.reply \in Packet
         /\ a.reply.command = p.command /\ a.reply.context = p.context /\ a.reply.tag = p.tag
<1>1. srv.reg \in Handles \cup {0} /\ p.session \in Handles \cup {0} /\ p.command \in Command
  BY DEF PlcTypeOK, Packet
<1>2. PICK r \in Handles \cup {0}, h \in Handles \cup {0},
           s \in {"ok", "empty", "encapErr", "cipErr"} :
        a = [reg |-> r, reply |-> Reply(p, h, s)]
  BY <1>1 DEF Answers, Command
<1>3. a.reply = Reply(p, h, s)
  BY <1>2
<1> QED BY <1>3 DEF Reply, Packet

LEMMA RefusalKeeps ==
  ASSUME NEW p \in Packet
  PROVE  LET r == Reply(p, 0, "encapErr")
         IN  /\ r \in Packet /\ r.status = "encapErr" /\ r.session = 0
             /\ r.command = p.command /\ r.context = p.context /\ r.tag = p.tag
  BY DEF Reply, Packet

LEMMA PlcSendPkts ==
  ASSUME TransportTypeOK, PlcTypeOK, PlcSend
  PROVE  /\ net.sock = "up" /\ tcp' = tcp
         /\ net' = [net EXCEPT !.s2c = Append(net.s2c, Head(srv.out))]
         /\ srv' = [srv EXCEPT !.out = Tail(srv.out)] /\ srv.out # << >>
         /\ Pkts(net'.s2c) \subseteq Pkts(net.s2c) \cup Pkts(srv.out)
         /\ Pkts(srv'.out) \subseteq Pkts(srv.out)
<1>1. /\ net.sock = "up" /\ tcp' = tcp /\ srv.out # << >>
      /\ net' = [net EXCEPT !.s2c = Append(net.s2c, Head(srv.out))]
      /\ srv' = [srv EXCEPT !.out = Tail(srv.out)]
  BY DEF PlcSend
<1>2. net'.s2c = Append(net.s2c, Head(srv.out)) /\ srv'.out = Tail(srv.out)
  BY <1>1 DEF TransportTypeOK, PlcTypeOK
<1>3. net.s2c \in Seq(Fragment) /\ srv.out \in Seq(Fragment)
  BY StreamType, WireAssumption DEF TransportTypeOK, PlcTypeOK
<1>4. Head(srv.out) \in Fragment
  BY <1>1, <1>3, HeadTailProperties
<1> QED BY <1>1, <1>2, <1>3, <1>4, PktsTail, PktsAppend

(* The packets on the way in either direction.                             *)
OnTheWay == Inbound \cup Pkts(srv.out) \cup Pkts(net.s2c)

LEMMA OnTheWayType ==
  ASSUME TransportTypeOK, PlcTypeOK
  PROVE  OnTheWay \subseteq Packet
<1>1. /\ net.c2s \in Seq(Fragment) /\ net.s2c \in Seq(Fragment)
      /\ srv.rx \in Seq(Fragment) /\ srv.out \in Seq(Fragment)
  BY StreamType, WireAssumption DEF TransportTypeOK, PlcTypeOK
<1> QED BY <1>1, PktsType DEF OnTheWay, Inbound

(* The server never makes up a request: what is on the way after a step    *)
(* of it has command, context and tag of something on the way before.      *)
LEMMA PlcKeeps ==
  ASSUME TransportTypeOK, PlcTypeOK, PlcNext, NEW p \in OnTheWay'
  PROVE  \E q \in OnTheWay :
           p.command = q.command /\ p.context = q.context /\ p.tag = q.tag
<1>0. OnTheWay \subseteq Packet
  BY OnTheWayType
<1>1. CASE PlcAccept
  <2>1. net'.c2s = net.c2s /\ net'.s2c = net.s2c /\ srv'.rx = << >> /\ srv'.out = << >>
    BY <1>1 DEF PlcAccept, SrvFresh, TransportTypeOK
  <2> QED BY <2>1, PktsEmpty DEF OnTheWay, Inbound
<1>2. CASE PlcReceive
  <2>1. net'.s2c = net.s2c /\ Pkts(net'.c2s) \subseteq Pkts(net.c2s)
    BY <1>2, PlcReceiveCases DEF TransportTypeOK
  <2>2. CASE srv' = [srv EXCEPT !.rx = Append(srv.rx, Head(net.c2s))]
             /\ Pkts(srv'.rx) \subseteq Inbound
    <3>1. srv'.out = srv.out
      BY <2>2 DEF PlcTypeOK
    <3> QED BY <2>1, <2>2, <3>1 DEF OnTheWay, Inbound
  <2>3. ASSUME NEW q \in Inbound, NEW a \in Answers(q),
               srv' = [reg |-> a.reg, rx |-> << >>, out |-> Fragments(a.reply)]
        PROVE  \E r \in OnTheWay :
                 p.command = r.command /\ p.context = r.context /\ p.tag = r.tag
    <3>1. q \in Packet
      BY <1>0 DEF OnTheWay
    <3>2. /\ a.reply \in Packet
          /\ a.reply.command = q.command /\ a.reply.context = q.context /\ a.reply.tag = q.tag
      BY <3>1, AnswersKeep
    <3>3. Pkts(srv'.out) = {a.reply} /\ Pkts(srv'.rx) = {}
      BY <2>3, <3>2, PktsFragments, PktsEmpty
    <3> QED BY <2>1, <3>2, <3>3 DEF OnTheWay, Inbound
  <2>4. CASE srv' = [srv EXCEPT !.rx = << >>]
    <3>1. srv'.out = srv.out /\ srv'.rx = << >>
      BY <2>4 DEF PlcTypeOK
    <3> QED BY <2>1, <3>1, PktsEmpty DEF OnTheWay, Inbound
  <2>5. ASSUME NEW q \in Inbound,
               srv' = [srv EXCEPT !.rx = << >>, !.out = Fragments(Reply(q, 0, "encapErr"))]
        PROVE  \E r \in OnTheWay :
                 p.command = r.command /\ p.context = r.context /\ p.tag = r.tag
    <3> DEFINE r == Reply(q, 0, "encapErr")
    <3>1. q \in Packet
      BY <1>0 DEF OnTheWay
    <3>2. r \in Packet /\ r.command = q.command /\ r.context = q.context /\ r.tag = q.tag
      BY <3>1, RefusalKeeps
    <3>3. srv'.rx = << >> /\ srv'.out = Fragments(r)
      BY <2>5 DEF PlcTypeOK
    <3> HIDE DEF r
    <3>4. Pkts(srv'.out) = {r} /\ Pkts(srv'.rx) = {}
      BY <3>2, <3>3, PktsFragments, PktsEmpty
    <3> QED BY <2>1, <3>2, <3>4 DEF OnTheWay, Inbound
  <2> QED BY <1>2, <2>2, <2>3, <2>4, <2>5, PlcReceiveCases
<1>3. CASE PlcSend
  <2>1. net'.c2s = net.c2s /\ srv'.rx = srv.rx
    BY <1>3, PlcSendPkts DEF TransportTypeOK, PlcTypeOK
  <2> QED BY <1>3, <2>1, PlcSendPkts DEF OnTheWay, Inbound
<1>4. CASE PlcClose
  <2>1. /\ net'.c2s = << >> /\ (net'.s2c = net.s2c \/ net'.s2c = << >>)
        /\ srv'.rx = << >> /\ srv'.out = << >>
    <3>1. srv'.rx = << >> /\ srv'.out = << >>
      BY <1>4 DEF PlcClose, SrvFresh
    <3>2. CASE net' = [net EXCEPT !.sock = "fin", !.c2s = << >>]
      BY <3>1, <3>2 DEF TransportTypeOK
    <3>3. CASE net' = Wire("reset")
      BY <3>1, <3>3 DEF Wire
    <3> QED BY <1>4, <3>2, <3>3 DEF PlcClose
  <2> QED BY <2>1, PktsEmpty DEF OnTheWay, Inbound
<1> QED BY <1>1, <1>2, <1>3, <1>4 DEF PlcNext

-----------------------------------------------------------------------------
(* The two streams from end to end: all that is on the way to the server,  *)
(* and all that is on the way to the buffers io.                           *)
ToServer == srv.rx \o net.c2s

ToClient(io) == io.rx \o (net.s2c \o srv.out)

Drained == net.c2s = << >> /\ net.s2c = << >> /\ srv.rx = << >> /\ srv.out = << >>

LEMMA ConcatEmpty ==
  ASSUME NEW s \in Seq(Fragment), NEW t \in Seq(Fragment), s \o t = << >>
  PROVE  s = << >> /\ t = << >>
<1>1. PICK m \in Nat, n \in Nat : m = Len(s) /\ n = Len(t)
  BY LenProperties
<1>2. m + n = 0
  BY <1>1, ConcatStream
<1>3. m = 0 /\ n = 0
  BY <1>2
<1> QED BY <1>1, <1>3, EmptySeq

LEMMA WayTypes ==
  ASSUME TransportTypeOK, PlcTypeOK, NEW io \in Io
  PROVE  /\ net.c2s \in Seq(Fragment) /\ net.s2c \in Seq(Fragment)
         /\ srv.rx \in Seq(Fragment) /\ srv.out \in Seq(Fragment)
         /\ io.rx \in Seq(Fragment) /\ Len(io.rx) <= Frags
         /\ io.req \in Packet /\ io.sent \in 0 .. Frags /\ io.sent \in Nat /\ io.sent <= Frags
         /\ Frags \in Nat \ {0}
         /\ ToServer \in Seq(Fragment) /\ ToClient(io) \in Seq(Fragment)
<1>1. /\ net.c2s \in Seq(Fragment) /\ net.s2c \in Seq(Fragment)
      /\ srv.rx \in Seq(Fragment) /\ srv.out \in Seq(Fragment) /\ Frags \in Nat \ {0}
  BY StreamType, WireAssumption DEF TransportTypeOK, PlcTypeOK
<1>2. io.rx \in Seq(Fragment) /\ Len(io.rx) <= Frags /\ io.req \in Packet /\ io.sent \in 0 .. Frags
  BY StreamType, WireAssumption DEF Io
<1>3. net.s2c \o srv.out \in Seq(Fragment)
  BY <1>1, ConcatStream
<1> QED BY <1>1, <1>2, <1>3, ConcatStream DEF ToServer, ToClient

(* A poll() of the exchange io appends to one and leaves the other.        *)
LEMMA TransactStreams ==
  ASSUME TransportTypeOK, PlcTypeOK, NEW io \in Io, NEW o \in Transact(io), Apply(o, FALSE),
         UNCHANGED srv, NEW n \in 0 .. Frags, NEW k \in 0 .. Frags, Flow(io, n, k, o)
  PROVE  /\ ToServer' = ToServer \o SubSeq(Fragments(io.req), io.sent + 1, io.sent + n)
         /\ ToClient(o.io)' = ToClient(io)
<1>1. /\ net.c2s \in Seq(Fragment) /\ net.s2c \in Seq(Fragment) /\ srv.rx \in Seq(Fragment)
      /\ srv.out \in Seq(Fragment) /\ io.rx \in Seq(Fragment) /\ io.req \in Packet
      /\ io.sent \in Nat /\ Frags \in Nat \ {0} /\ n \in Nat
  BY WayTypes
<1>2. net'.c2s = o.c2s /\ net'.s2c = o.s2c /\ srv' = srv
  BY DEF Apply, TransportTypeOK
<1>3. /\ io.sent + n <= Frags /\ k \in 0 .. Len(net.s2c)
      /\ o.c2s = net.c2s \o SubSeq(Fragments(io.req), io.sent + 1, io.sent + n)
      /\ o.s2c = SubSeq(net.s2c, k + 1, Len(net.s2c))
      /\ o.io.rx = io.rx \o SubSeq(net.s2c, 1, k)
  BY DEF Flow
<1>4. ToServer' = ToServer \o SubSeq(Fragments(io.req), io.sent + 1, io.sent + n)
  <2>0. PICK m \in Nat : m = io.sent /\ m + n <= Frags
    BY <1>1, <1>3
  <2>1. PICK a \in Nat \ {0}, b \in Nat : a = io.sent + 1 /\ b = io.sent + n /\ b <= Frags /\ a <= b + 1
    <3>1. m + 1 \in Nat \ {0} /\ m + n \in Nat /\ m + 1 <= m + n + 1
      BY <1>1
    <3> QED BY <2>0, <3>1
  <2>2. PICK f \in Seq(Fragment) : f = Fragments(io.req) /\ Len(f) = Frags
    BY <1>1, FragmentsType
  <2>3. PICK t \in Seq(Fragment) : t = SubSeq(f, a, b)
    BY <2>1, <2>2, SubStream
  <2>4. PICK u \in Seq(Fragment), v \in Seq(Fragment) : u = srv.rx /\ v = net.c2s
    BY <1>1
  <2>5. u \o (v \o t) = (u \o v) \o t
    BY ConcatAssoc
  <2> QED BY <1>2, <1>3, <2>1, <2>2, <2>3, <2>4, <2>5 DEF ToServer
<1>5. ToClient(o.io)' = ToClient(io)
  <2>1. PICK s \in Seq(Fragment), t \in Seq(Fragment), u \in Seq(Fragment) :
          s = io.rx /\ t = net.s2c /\ u = srv.out
    BY <1>1
  <2>2. k \in 0 .. Len(t) /\ Len(t) \in Nat
    BY <1>3, <2>1, LenProperties
  <2>3. (s \o SubSeq(t, 1, k)) \o SubSeq(t, k + 1, Len(t)) = s \o t
    BY <2>2, MoveMany
  <2>4. PICK v \in Seq(Fragment), w \in Seq(Fragment) :
          v = s \o SubSeq(t, 1, k) /\ w = SubSeq(t, k + 1, Len(t))
    <3>1. SubSeq(t, 1, k) \in Seq(Fragment)
      BY <2>2, SubStream
    <3>2. k + 1 \in Nat \ {0} /\ Len(t) \in Nat /\ Len(t) <= Len(t) /\ k + 1 <= Len(t) + 1
      BY <2>2
    <3>3. SubSeq(t, k + 1, Len(t)) \in Seq(Fragment)
      BY <3>2, SubStream
    <3> QED BY <3>1, <3>3, ConcatStream
  <2>5. v \o (w \o u) = (v \o w) \o u /\ s \o (t \o u) = (s \o t) \o u
    BY ConcatAssoc
  <2>6. v \o (w \o u) = s \o (t \o u)
    BY <2>3, <2>4, <2>5
  <2> QED BY <1>2, <1>3, <2>1, <2>4, <2>6 DEF ToClient
<1> QED BY <1>4, <1>5

-----------------------------------------------------------------------------
(* Sender contexts.  As long as the counter does not wrap, every request   *)
(* on the way is older than the next one, and one with the context of the  *)
(* current request is that request or an answer to it.                     *)

(* The buffers of the message hold a request that was sent.                *)
Live == msg.state \in {"Sending", "Receiving", "Done"}

Known(p) ==
  p.command = "SendRRData" =>
    /\ p.context < msg.context
    /\ Live /\ p.context = msg.io.req.context => p.tag = msg.io.req.tag

ContextInv ==
  /\ \A p \in OnTheWay \cup Pkts(msg.io.rx) : Known(p)
  /\ Live => msg.io.req.context + 1 = msg.context
  /\ msg.state = "Done" => ParseOK(msg.io.req, msg.io.rx)

(* Nothing is new on the way and the message keeps its request.            *)
LEMMA ContextQuiet ==
  ASSUME ContextInv, OnTheWay' \subseteq OnTheWay,
         msg'.context = msg.context, msg'.io = msg.io, msg'.state = msg.state
  PROVE  ContextInv'
<1>1. Live' <=> Live
  BY DEF Live
<1>2. \A p : Known(p)' <=> Known(p)
  BY <1>1 DEF Known
<1>3. Pkts(msg.io.rx)' = Pkts(msg.io.rx)
  OBVIOUS
<1> QED BY <1>1, <1>2, <1>3 DEF ContextInv

(* The message lets go of its request.                                     *)
LEMMA ContextDrop ==
  ASSUME ContextInv, OnTheWay' \subseteq OnTheWay,
         msg'.context = msg.context, msg'.io = NoIo, msg'.state \in {"Idle", "Failed"}
  PROVE  ContextInv'
<1>1. ~Live' /\ msg'.state # "Done"
  BY DEF Live
<1>2. Pkts(msg.io.rx)' = {}
  BY PktsEmpty DEF NoIo, NewIo
<1>3. \A p : Known(p) => Known(p)'
  BY <1>1 DEF Known
<1> QED BY <1>1, <1>2, <1>3 DEF ContextInv

(* send(): the new context is above every one on the way.                  *)
LEMMA ContextSend ==
  ASSUME MsgTypeOK, TransportTypeOK, PlcTypeOK, ContextInv, msg.context + 1 < CtxMod,
         NEW h, NEW t, MsgSend(h, t, "Pending"), UNCHANGED <<net, srv>>
  PROVE  ContextInv'
<1> DEFINE req == [command |-> "SendRRData", session |-> h, context |-> msg.context,
                   tag |-> t, status |-> "ok"]
<1>1. msg.context \in Nat /\ CtxMod \in Nat
  BY WireAssumption DEF MsgTypeOK
<1>2. msg' = [state |-> "Sending", context |-> (msg.context + 1) % CtxMod,
              timer |-> OpTimeout, io |-> NewIo(req)]
  BY DEF MsgSend
<1>3. (msg.context + 1) % CtxMod = msg.context + 1
  BY <1>1
<1>4. /\ msg'.state = "Sending" /\ msg'.context = msg.context + 1 /\ msg'.io.rx = << >>
      /\ msg'.io.req.context = msg.context
  BY <1>2, <1>3 DEF NewIo
<1>5. Pkts(msg.io.rx)' = {} /\ OnTheWay' = OnTheWay
  BY <1>4, PktsEmpty DEF OnTheWay, Inbound
<1>6. ASSUME NEW p \in OnTheWay PROVE Known(p)'
  <2>1. p.context \in Nat
    BY OnTheWayType DEF Packet
  <2>2. p.command = "SendRRData" => p.context < msg.context
    BY DEF ContextInv, Known
  <2> QED BY <1>1, <1>4, <2>1, <2>2 DEF Known
<1> QED BY <1>1, <1>4, <1>5, <1>6 DEF ContextInv

(* A poll of the exchange in flight: its request goes out, replies on the  *)
(* way come in.                                                            *)
LEMMA ContextPoll ==
  ASSUME MsgTypeOK, TransportTypeOK, PlcTypeOK, ContextInv, NEW st, MsgPoll(st), UNCHANGED srv
  PROVE  ContextInv'
<1>0. msg.io \in Io /\ msg.context \in Nat
  BY WireAssumption DEF MsgTypeOK
<1>1. CASE ~MsgBusy
  <2>1. UNCHANGED <<net, msg>>
    BY <1>1 DEF MsgPoll
  <2> QED BY <2>1, ContextQuiet DEF OnTheWay, Inbound
<1>2. CASE MsgBusy /\ msg.timer = 0
  <2>1. msg' = MsgFailed /\ UNCHANGED net
    BY <1>2 DEF MsgPoll, PollInFlight, MsgExpired
  <2>2. msg'.context = msg.context /\ msg'.io = NoIo /\ msg'.state = "Failed"
    BY <2>1 DEF MsgFailed, MsgTypeOK
  <2> QED BY <2>1, <2>2, ContextDrop DEF OnTheWay, Inbound
<1>3. CASE MsgBusy /\ msg.timer # 0
  <2>1. PICK o \in Transact(msg.io) :
          /\ Apply(o, FALSE)
          /\ \/ msg' = [msg EXCEPT !.io = o.io, !.state = IF Written(o) THEN "Receiving" ELSE @]
             \/ msg' = MsgFailed
             \/ /\ o.st = "Ok" /\ ParseOK(o.io.req, o.io.rx)
                /\ msg' = [msg EXCEPT !.state = "Done", !.timer = 0, !.io = o.io]
    BY <1>3 DEF MsgPoll, PollInFlight, MsgExpired
  <2>2. /\ Pkts(o.c2s) \subseteq Pkts(net.c2s) \cup {msg.io.req}
        /\ Pkts(o.s2c) \subseteq Pkts(net.s2c)
        /\ Pkts(o.io.rx) \subseteq Pkts(msg.io.rx) \cup Pkts(net.s2c)
    BY <1>0, TransactPkts
  <2>3. o.io.req = msg.io.req
    BY <1>0, TransactFlow DEF Flow
  <2>4. net'.c2s = o.c2s /\ net'.s2c = o.s2c
    BY <2>1 DEF Apply, TransportTypeOK
  <2>5. OnTheWay' \subseteq OnTheWay \cup {msg.io.req}
    BY <2>2, <2>4 DEF OnTheWay, Inbound
  <2>6. Known(msg.io.req)
    <3>1. msg.io.req.context \in Nat
      BY <1>0 DEF Io, Packet
    <3>2. msg.io.req.context + 1 = msg.context
      BY <1>3 DEF ContextInv, Live, MsgBusy
    <3> QED BY <1>0, <3>1, <3>2 DEF Known
  <2>7. CASE msg' = MsgFailed
    <3>1. msg'.context = msg.context /\ msg'.io = NoIo /\ msg'.state = "Failed"
      BY <2>7 DEF MsgFailed, MsgTypeOK
    <3>2. ~Live' /\ Pkts(msg.io.rx)' = {}
      BY <3>1, PktsEmpty DEF NoIo, NewIo, Live
    <3>3. \A p : Known(p) => Known(p)'
      BY <3>1, <3>2 DEF Known
    <3> QED BY <2>5, <2>6, <3>1, <3>2, <3>3 DEF ContextInv
  <2>8. CASE /\ msg'.context = msg.context /\ msg'.io = o.io
             /\ \/ msg'.state \in {"Sending", "Receiving"}
                \/ msg'.state = "Done" /\ ParseOK(o.io.req, o.io.rx)
    <3>1. Live /\ Live'
      BY <1>3, <2>8 DEF Live, MsgBusy
    <3>2. \A p : Known(p) => Known(p)'
      BY <2>3, <2>8, <3>1 DEF Known
    <3>3. Pkts(msg.io.rx)' \subseteq Pkts(msg.io.rx) \cup OnTheWay
      BY <2>2, <2>8 DEF OnTheWay
    <3> QED BY <2>3, <2>5, <2>6, <2>8, <3>1, <3>2, <3>3 DEF ContextInv
  <2>9. CASE msg' = [msg EXCEPT !.io = o.io, !.state = IF Written(o) THEN "Receiving" ELSE @]
    <3>1. msg'.context = msg.context /\ msg'.io = o.io /\ msg'.state \in {"Receiving", msg.state}
      BY <2>9 DEF MsgTypeOK
    <3> QED BY <1>3, <2>8, <3>1 DEF MsgBusy
  <2>10. CASE /\ ParseOK(o.io.req, o.io.rx)
              /\ msg' = [msg EXCEPT !.state = "Done", !.timer = 0, !.io = o.io]
    <3>1. msg'.context = msg.context /\ msg'.io = o.io /\ msg'.state = "Done"
      BY <2>10 DEF MsgTypeOK
    <3> QED BY <2>8, <2>10, <3>1
  <2> QED BY <2>1, <2>7, <2>9, <2>10
<1> QED BY <1>1, <1>2, <1>3

(* A step of the server.                                                   *)
LEMMA ContextPlc ==
  ASSUME TransportTypeOK, PlcTypeOK, ContextInv, PlcNext, UNCHANGED msg
  PROVE  ContextInv'
<1>1. \A p : Known(p)' <=> Known(p)
  BY DEF Known, Live
<1>2. ASSUME NEW p \in OnTheWay' PROVE Known(p)
  <2>1. PICK q \in OnTheWay :
          p.command = q.command /\ p.context = q.context /\ p.tag = q.tag
    BY <1>2, PlcKeeps
  <2>2. Known(q)
    BY DEF ContextInv
  <2> QED BY <2>1, <2>2 DEF Known
<1> QED BY <1>1, <1>2 DEF ContextInv, Live

(* The answer that is accepted is about the tag that was asked for.        *)
LEMMA ContextAnswer ==
  ASSUME ContextInv, MsgTypeOK, msg.state = "Done"
  PROVE  MsgReply(msg).tag = msg.io.req.tag
<1>1. msg.io.rx \in Stream(Frags) /\ Len(msg.io.rx) = Frags
  BY DEF MsgTypeOK, Io
<1>2. msg.io.rx[1].pkt \in Pkts(msg.io.rx)
  BY <1>1, PktsHead
<1>3. Known(msg.io.rx[1].pkt) /\ ParseOK(msg.io.req, msg.io.rx)
  BY <1>2 DEF ContextInv
<1> QED BY <1>3 DEF Known, ParseOK, Live, MsgReply

=============================================================================
