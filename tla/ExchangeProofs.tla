--------------------------- MODULE ExchangeProofs ---------------------------
(***************************************************************************)
(* Theorems about one ExplicitMessage on one byte stream, for every        *)
(* fragmentation, every buffer size and any number of requests.            *)
(***************************************************************************)
EXTENDS Exchange, TransportProofs

LEMMA TypeInit == Init => TypeOK
<1> SUFFICES ASSUME Init PROVE TypeOK
  OBVIOUS
<1>1. TransportTypeOK
  BY WireType DEF Init, TransportTypeOK
<1>2. PlcTypeOK
  BY EmptyStream, WireAssumption DEF Init, SrvFresh, PlcTypeOK
<1>3. MsgTypeOK
  <2>1. 1 \in 0 .. CtxMod - 1
    BY WireAssumption
  <2> QED BY <2>1, NoIoType DEF Init, MsgInit, MsgTypeOK
<1>4. used \in [ticks : 0 .. MaxTicks, aborts : 0 .. MaxAborts]
  BY ExchangeAssumption DEF Init
<1> QED BY <1>1, <1>2, <1>3, <1>4 DEF TypeOK

LEMMA TypeNext == TypeOK /\ [Next]_vars => TypeOK'
<1> SUFFICES ASSUME TypeOK, [Next]_vars PROVE TypeOK'
  OBVIOUS
<1> DEFINE Used == used \in [ticks : 0 .. MaxTicks, aborts : 0 .. MaxAborts]
<1>0. TransportTypeOK /\ PlcTypeOK /\ MsgTypeOK /\ Used
  BY DEF TypeOK
<1>1. UNCHANGED <<tcp, net>> => TransportTypeOK'
  BY <1>0 DEF TransportTypeOK
<1>2. UNCHANGED srv => PlcTypeOK'
  BY <1>0 DEF PlcTypeOK
<1>3. UNCHANGED msg => MsgTypeOK'
  BY <1>0 DEF MsgTypeOK
<1>4. UNCHANGED used => Used'
  BY <1>0
<1>5. ASSUME NEW h \in Handles, NEW t \in Names, Send(h, t) PROVE TypeOK'
  <2>1. MsgTypeOK'
    BY <1>0, <1>5, MsgSendType DEF Send
  <2> QED BY <1>1, <1>2, <1>4, <1>5, <2>1 DEF Send, TypeOK
<1>6. CASE Poll
  <2>1. TransportTypeOK' /\ MsgTypeOK'
    BY <1>0, <1>6, MsgPollType DEF Poll
  <2> QED BY <1>2, <1>4, <1>6, <2>1 DEF Poll, TypeOK
<1>7. CASE Abort
  <2>1. MsgTypeOK'
    BY <1>0, <1>7, NoIoType DEF Abort, MsgAbort, MsgTypeOK
  <2>2. Used'
    BY <1>0, <1>7, ExchangeAssumption DEF Abort
  <2> QED BY <1>1, <1>2, <1>7, <2>1, <2>2 DEF Abort, TypeOK
<1>8. CASE Tick
  <2>1. MsgTypeOK'
    BY <1>0, <1>8, DecType DEF Tick, MsgTick, MsgTypeOK
  <2>2. Used'
    BY <1>0, <1>8, ExchangeAssumption DEF Tick
  <2> QED BY <1>1, <1>2, <1>8, <2>1, <2>2 DEF Tick, TypeOK
<1>9. CASE Serve \/ Close
  <2>1. TransportTypeOK' /\ PlcTypeOK'
    BY <1>0, <1>9, PlcNextType DEF Serve, Close, PlcNext
  <2> QED BY <1>3, <1>4, <1>9, <2>1 DEF Serve, Close, TypeOK
<1>10. CASE UNCHANGED vars
  BY <1>1, <1>2, <1>3, <1>4, <1>10 DEF vars, TypeOK
<1> QED BY <1>5, <1>6, <1>7, <1>8, <1>9, <1>10 DEF Next, SendAny

(* However requests are sent, given up and answered, every object keeps    *)
(* its type; the receive buffer never holds more than one packet.          *)
THEOREM TypeCorrect == Spec => []TypeOK
  BY TypeInit, TypeNext, PTL DEF Spec

-----------------------------------------------------------------------------
LEMMA ContextInit == Init => ContextInv
<1> SUFFICES ASSUME Init PROVE ContextInv
  OBVIOUS
<1>1. /\ net.c2s = << >> /\ net.s2c = << >> /\ srv.rx = << >> /\ srv.out = << >>
      /\ msg.io.rx = << >> /\ msg.state = "Idle"
  BY DEF Init, Wire, SrvFresh, MsgInit, NoIo, NewIo
<1> QED BY <1>1, PktsEmpty DEF ContextInv, OnTheWay, Inbound, Live

LEMMA ContextNext ==
  ASSUME MaxOps + 1 < CtxMod, TypeOK, ContextInv, [Next]_vars
  PROVE  ContextInv'
<1>0. TransportTypeOK /\ PlcTypeOK /\ MsgTypeOK
  BY DEF TypeOK
<1>1. UNCHANGED <<net, srv>> => OnTheWay' = OnTheWay
  BY DEF OnTheWay, Inbound
<1>2. CASE UNCHANGED <<net, srv, msg>>
  BY <1>1, <1>2, ContextQuiet
<1>3. ASSUME NEW h \in Handles, NEW t \in Names, Send(h, t) PROVE ContextInv'
  <2>1. PICK st \in Status : MsgSend(h, t, st)
    BY <1>3 DEF Send
  <2>2. CASE st = "Pending"
    <3>1. msg.context + 1 < CtxMod
      BY <1>0, <1>3, ExchangeAssumption, WireAssumption DEF Send, MsgTypeOK
    <3> QED BY <1>0, <1>3, <2>1, <2>2, <3>1, ContextSend DEF Send
  <2>3. CASE st # "Pending"
    BY <1>2, <1>3, <2>1, <2>3, MsgSendBusy DEF Send
  <2> QED BY <2>2, <2>3
<1>4. CASE Poll
  BY <1>0, <1>4, ContextPoll DEF Poll
<1>5. CASE Abort
  <2>1. msg'.context = msg.context /\ msg'.io = NoIo /\ msg'.state = "Idle"
    BY <1>0, <1>5 DEF Abort, MsgAbort, MsgTypeOK
  <2> QED BY <1>1, <1>5, <2>1, ContextDrop DEF Abort
<1>6. CASE Tick
  <2>1. msg'.context = msg.context /\ msg'.io = msg.io /\ msg'.state = msg.state
    BY <1>0, <1>6 DEF Tick, MsgTick, MsgTypeOK
  <2> QED BY <1>1, <1>6, <2>1, ContextQuiet DEF Tick
<1>7. CASE Serve \/ Close
  BY <1>0, <1>7, ContextPlc DEF Serve, Close, PlcNext
<1> QED BY <1>2, <1>3, <1>4, <1>5, <1>6, <1>7 DEF Next, SendAny, vars

(* While the context counter does not wrap (it has 64 bits), no late reply *)
(* of an exchange that timed out or was aborted, in whatever pieces it     *)
(* arrives, is taken for the answer to a later request.                    *)
THEOREM AcceptedAnswersRequestHolds ==
  ASSUME MaxOps + 1 < CtxMod
  PROVE  Spec => []AcceptedAnswersRequest
<1>1. TypeOK /\ ContextInv /\ [Next]_vars => ContextInv'
  BY ContextNext
<1>2. TypeOK /\ ContextInv => AcceptedAnswersRequest
  BY ContextAnswer DEF TypeOK, AcceptedAnswersRequest
<1> QED BY <1>1, <1>2, ContextInit, TypeCorrect, PTL DEF Spec

-----------------------------------------------------------------------------
(* In step.  Every fragment has a place in the order in which the requests *)
(* were built.  Along each stream the places grow by at least one per      *)
(* fragment (a request given up leaves a gap), and every answer on its way *)
(* is older than every request still on its way to the PLC.                *)
Pos(f) == f.pkt.context * Frags + f.part

Spaced(s) == \A i, j \in 1 .. Len(s) : i < j => Pos(s[i]) + (j - i) <= Pos(s[j])

(* What the PLC has still to process, and what the client has still to     *)
(* read or to look at.                                                     *)
Ahead == srv.rx \o net.c2s
Back  == msg.io.rx \o net.s2c \o srv.out

(* Every fragment of s belongs to a request before context c.              *)
Older(s, c) == \A i \in 1 .. Len(s) : s[i].pkt.context < c

(* A stream of which the places stay so far below n that its fragments     *)
(* could be renumbered up to n.                                            *)
Below(s, n) == \A i \in 1 .. Len(s) : Pos(s[i]) + (Len(s) - i) <= n

Ordered(a, b, c) ==
  /\ Spaced(a) /\ Older(a, c)
  /\ Spaced(b) /\ Older(b, c)
  /\ \A j \in 1 .. Len(a) : Older(b, a[j].pkt.context)

(* The request in flight ends the stream to the PLC; as long as it is not  *)
(* written completely, it cannot have been answered.                       *)
DrainInv ==
  /\ Ordered(Ahead, Back, msg.context)
  /\ MsgBusy =>
       /\ Below(Ahead, msg.io.req.context * Frags + msg.io.sent)
       /\ msg.io.sent < Frags => Older(Back, msg.io.req.context)

(* Places and contexts.                                                    *)
LEMMA Product ==
  ASSUME NEW a \in Nat, NEW b \in Nat, NEW n \in Nat
  PROVE  /\ a * n \in Nat
         /\ a < b => a * n + n <= b * n
<1>1. a * n \in Nat
  OBVIOUS
<1>2. ASSUME a < b PROVE a * n + n <= b * n
  <2>1. PICK d \in Nat : b = a + 1 + d
    <3>1. b - a - 1 \in Nat /\ b = a + 1 + (b - a - 1)
      BY <1>2
    <3> QED BY <3>1
  <2>2. b * n = a * n + n + d * n /\ d * n \in Nat
    BY <2>1
  <2> QED BY <1>1, <2>2
<1> QED BY <1>1, <1>2

LEMMA FragmentPlace ==
  ASSUME NEW f \in Fragment
  PROVE  /\ f.pkt.context \in Nat /\ f.part \in 1 .. Frags
         /\ f.pkt.context * Frags \in Nat
         /\ Pos(f) \in Nat
         /\ f.pkt.context * Frags < Pos(f)
         /\ Pos(f) <= f.pkt.context * Frags + Frags
<1>1. f.pkt.context \in Nat /\ f.part \in 1 .. Frags /\ Frags \in Nat
  BY WireAssumption DEF Fragment, Packet
<1>2. f.pkt.context * Frags \in Nat
  BY <1>1, Product
<1> QED BY <1>1, <1>2 DEF Pos

LEMMA PlaceOrder ==
  ASSUME NEW f \in Fragment, NEW g \in Fragment
  PROVE  /\ f.pkt.context < g.pkt.context => Pos(f) <= g.pkt.context * Frags
         /\ Pos(f) + Frags <= Pos(g) => f.pkt.context < g.pkt.context
         /\ Pos(f) >= f.pkt.context * Frags + Frags /\ Pos(f) < Pos(g)
              => f.pkt.context < g.pkt.context
<1>1. Frags \in Nat \ {0}
  BY WireAssumption
<1> DEFINE a == f.pkt.context
           b == g.pkt.context
<1>2. /\ a \in Nat /\ b \in Nat /\ a * Frags \in Nat /\ b * Frags \in Nat
      /\ Pos(f) \in Nat /\ Pos(g) \in Nat
      /\ a * Frags < Pos(f) /\ Pos(f) <= a * Frags + Frags
      /\ b * Frags < Pos(g) /\ Pos(g) <= b * Frags + Frags
  BY FragmentPlace
<1>3. /\ a < b => a * Frags + Frags <= b * Frags
      /\ b < a => b * Frags + Frags <= a * Frags
      /\ a = b => a * Frags = b * Frags
  BY <1>1, <1>2, Product
<1> DEFINE x == a * Frags
           y == b * Frags
<1>4. x \in Nat /\ y \in Nat
  BY <1>2
<1> HIDE DEF x, y
<1>5. /\ a \in Nat /\ b \in Nat /\ Pos(f) \in Nat /\ Pos(g) \in Nat
      /\ x < Pos(f) /\ Pos(f) <= x + Frags /\ y < Pos(g) /\ Pos(g) <= y + Frags
      /\ (a < b => x + Frags <= y) /\ (b < a => y + Frags <= x) /\ (a = b => x = y)
  BY <1>2, <1>3 DEF x, y
<1> HIDE DEF a, b
<1>6. /\ a < b => Pos(f) <= y
      /\ Pos(f) + Frags <= Pos(g) => a < b
      /\ Pos(f) >= x + Frags /\ Pos(f) < Pos(g) => a < b
  BY <1>1, <1>4, <1>5
<1> QED BY <1>6 DEF a, b, x, y

(* t is a contiguous part of s.                                            *)
Window(t, s) ==
  \E d \in Nat : /\ Len(t) + d <= Len(s)
                 /\ \A i \in 1 .. Len(t) : t[i] = s[i + d]

LEMMA SpacedWindow ==
  ASSUME NEW s \in Seq(Fragment), NEW t \in Seq(Fragment), Window(t, s), Spaced(s)
  PROVE  Spaced(t)
<1>1. PICK d \in Nat : /\ Len(t) + d <= Len(s)
                       /\ \A i \in 1 .. Len(t) : t[i] = s[i + d]
  BY DEF Window
<1>2. Len(t) \in Nat /\ Len(s) \in Nat
  BY LenProperties
<1> SUFFICES ASSUME NEW i \in 1 .. Len(t), NEW j \in 1 .. Len(t), i < j
             PROVE  Pos(t[i]) + (j - i) <= Pos(t[j])
  BY DEF Spaced
<1>3. i + d \in 1 .. Len(s) /\ j + d \in 1 .. Len(s) /\ i + d < j + d
  BY <1>1, <1>2
<1>4. Pos(s[i + d]) + ((j + d) - (i + d)) <= Pos(s[j + d])
  BY <1>3 DEF Spaced
<1>5. (j + d) - (i + d) = j - i
  OBVIOUS
<1> QED BY <1>1, <1>4, <1>5

LEMMA BelowLast ==
  ASSUME NEW s \in Seq(Fragment), Spaced(s), NEW n \in Nat,
         \A i \in 1 .. Len(s) : Pos(s[i]) <= n
  PROVE  Below(s, n)
<1> SUFFICES ASSUME NEW i \in 1 .. Len(s) PROVE Pos(s[i]) + (Len(s) - i) <= n
  BY DEF Below
<1>1. Len(s) \in Nat /\ Len(s) \in 1 .. Len(s)
  BY LenProperties
<1>2. s[i] \in Fragment /\ s[Len(s)] \in Fragment
  BY <1>1, ElementOfSeq
<1>3. Pos(s[i]) \in Nat /\ Pos(s[Len(s)]) \in Nat
  BY <1>2, FragmentPlace
<1>4. CASE i = Len(s)
  BY <1>1, <1>3, <1>4
<1>5. CASE i < Len(s)
  <2>1. Pos(s[i]) + (Len(s) - i) <= Pos(s[Len(s)])
    BY <1>1, <1>5 DEF Spaced
  <2>2. Pos(s[Len(s)]) <= n
    BY <1>1
  <2> QED BY <1>1, <1>3, <2>1, <2>2
<1> QED BY <1>1, <1>4, <1>5

(* The next m fragments of a packet, from part a + 1 on, at the end.       *)
LEMMA SpacedExtend ==
  ASSUME NEW s \in Seq(Fragment), Spaced(s), NEW p \in Packet, NEW a \in Nat, NEW m \in Nat,
         a + m <= Frags, Below(s, p.context * Frags + a)
  PROVE  LET t == s \o SubSeq(Fragments(p), a + 1, a + m)
         IN  /\ t \in Seq(Fragment) /\ Len(t) = Len(s) + m
             /\ \A i \in 1 .. Len(s) : t[i] = s[i]
             /\ \A i \in 1 .. m : t[Len(s) + i] = [pkt |-> p, part |-> a + i]
             /\ Spaced(t) /\ Below(t, p.context * Frags + (a + m))
<1> DEFINE piece == SubSeq(Fragments(p), a + 1, a + m)
           t == s \o piece
           base == p.context * Frags
<1>1. Fragments(p) \in Seq(Fragment) /\ Len(Fragments(p)) = Frags /\ Frags \in Nat
  BY FragmentsType, WireAssumption
<1>2. piece \in Seq(Fragment) /\ Len(piece) = m
  BY <1>1, SubStream
<1>3. ASSUME NEW i \in 1 .. m PROVE piece[i] = [pkt |-> p, part |-> a + i]
  <2>1. a + 1 + i - 1 = a + i /\ a + i \in 1 .. Frags /\ a + 1 \in Nat \ {0}
        /\ a + m \in Nat /\ a + 1 <= a + m + 1 /\ i \in 1 .. ((a + m) - (a + 1) + 1)
    BY <1>1
  <2>2. piece[i] = Fragments(p)[a + 1 + i - 1]
    BY <1>1, <2>1, SubElement
  <2> QED BY <2>1, <2>2 DEF Fragments
<1> HIDE DEF piece
<1>4. Len(s) \in Nat
  BY LenProperties
<1>5. t \in Seq(Fragment) /\ Len(t) = Len(s) + m
  BY <1>2, ConcatProperties
<1>6. \A i \in 1 .. Len(s) : t[i] = s[i]
  BY <1>2, <1>4, ConcatProperties
<1>7. ASSUME NEW i \in 1 .. m PROVE t[Len(s) + i] = [pkt |-> p, part |-> a + i]
  <2>1. Len(s) + i \in 1 .. (Len(s) + Len(piece)) /\ Len(s) + i > Len(s)
        /\ (Len(s) + i) - Len(s) = i
    BY <1>2, <1>4
  <2>2. t[Len(s) + i] = piece[i]
    BY <1>2, <1>4, <2>1, ConcatProperties
  <2> QED BY <1>3, <2>2
<1> HIDE DEF t
<1>8. base \in Nat
  BY <1>1, Product DEF Packet
<1>9. ASSUME NEW i \in 1 .. m PROVE Pos(t[Len(s) + i]) = base + (a + i)
  <2> DEFINE f == [pkt |-> p, part |-> a + i]
  <2>1. t[Len(s) + i] = f /\ f.pkt = p /\ f.part = a + i
    BY <1>7
  <2> HIDE DEF f
  <2> QED BY <2>1 DEF Pos
<1>10. ASSUME NEW i \in 1 .. Len(s) PROVE Pos(s[i]) \in Nat
  BY ElementOfSeq, FragmentPlace
<1> HIDE DEF base
<1>11. Spaced(t)
  <2> SUFFICES ASSUME NEW i \in 1 .. Len(t), NEW j \in 1 .. Len(t), i < j
               PROVE  Pos(t[i]) + (j - i) <= Pos(t[j])
    BY DEF Spaced
  <2>1. CASE j <= Len(s)
    BY <1>4, <1>5, <1>6, <2>1 DEF Spaced
  <2>2. CASE i <= Len(s) /\ j > Len(s)
    <3>1. j - Len(s) \in 1 .. m /\ i \in 1 .. Len(s) /\ Len(s) + (j - Len(s)) = j
      BY <1>4, <1>5, <2>2
    <3>2. Pos(t[j]) = base + (a + (j - Len(s)))
      BY <1>9, <3>1
    <3>3. Pos(s[i]) + (Len(s) - i) <= base + a
      BY <3>1 DEF Below, base
    <3>4. Pos(s[i]) \in Nat
      BY <1>10, <3>1
    <3>5. t[i] = s[i]
      BY <1>6, <3>1
    <3> QED BY <1>4, <1>8, <3>1, <3>2, <3>3, <3>4, <3>5
  <2>3. CASE i > Len(s)
    <3>1. /\ i - Len(s) \in 1 .. m /\ Len(s) + (i - Len(s)) = i
          /\ j - Len(s) \in 1 .. m /\ Len(s) + (j - Len(s)) = j
      BY <1>4, <1>5, <2>3
    <3>2. Pos(t[i]) = base + (a + (i - Len(s))) /\ Pos(t[j]) = base + (a + (j - Len(s)))
      BY <1>9, <3>1
    <3> QED BY <1>4, <1>8, <3>1, <3>2
  <2> QED BY <1>4, <1>5, <2>1, <2>2, <2>3
<1>12. Below(t, base + (a + m))
  <2> SUFFICES ASSUME NEW i \in 1 .. Len(t)
               PROVE  Pos(t[i]) + (Len(t) - i) <= base + (a + m)
    BY DEF Below
  <2>1. CASE i <= Len(s)
    <3>1. i \in 1 .. Len(s) /\ t[i] = s[i]
      BY <1>4, <1>6, <2>1
    <3>2. Pos(s[i]) + (Len(s) - i) <= base + a
      BY <3>1 DEF Below, base
    <3>3. Pos(s[i]) \in Nat
      BY <1>10, <3>1
    <3> QED BY <1>4, <1>5, <1>8, <3>1, <3>2, <3>3
  <2>2. CASE i > Len(s)
    <3>1. i - Len(s) \in 1 .. m /\ Len(s) + (i - Len(s)) = i
      BY <1>4, <1>5, <2>2
    <3>2. Pos(t[i]) = base + (a + (i - Len(s)))
      BY <1>9, <3>1
    <3> QED BY <1>4, <1>5, <1>8, <3>1, <3>2
  <2> QED BY <1>4, <1>5, <2>1, <2>2
<1> QED BY <1>5, <1>6, <1>7, <1>11, <1>12 DEF t, base, piece

(* A whole packet at the end.                                              *)
LEMMA SpacedAnswer ==
  ASSUME NEW s \in Seq(Fragment), Spaced(s), NEW p \in Packet, Below(s, p.context * Frags)
  PROVE  LET t == s \o Fragments(p)
         IN  /\ t \in Seq(Fragment) /\ Len(t) = Len(s) + Frags
             /\ \A i \in 1 .. Len(s) : t[i] = s[i]
             /\ \A i \in 1 .. Frags : t[Len(s) + i].pkt = p
             /\ Spaced(t)
<1>1. PICK z \in Nat, m \in Nat : z = 0 /\ m = Frags
  BY WireAssumption
<1>2. /\ Fragments(p) \in Seq(Fragment) /\ Len(Fragments(p)) = Frags
      /\ z + m = Frags /\ z + 1 = 1 /\ p.context \in Nat
  BY <1>1, FragmentsType DEF Packet
<1>3. Fragments(p) = SubSeq(Fragments(p), z + 1, z + m)
  BY <1>2, SubSeqFull
<1>4. p.context * Frags \in Nat
  BY <1>1, <1>2, Product
<1>5. Below(s, p.context * Frags + z) /\ z + m <= Frags
  BY <1>1, <1>2, <1>4
<1> DEFINE u == s \o SubSeq(Fragments(p), z + 1, z + m)
<1>6. /\ u \in Seq(Fragment) /\ Len(u) = Len(s) + m
      /\ \A i \in 1 .. Len(s) : u[i] = s[i]
      /\ \A i \in 1 .. m : u[Len(s) + i] = [pkt |-> p, part |-> z + i]
      /\ Spaced(u)
  BY <1>5, SpacedExtend
<1>7. u = s \o Fragments(p)
  BY <1>3
<1> HIDE DEF u
<1>8. ASSUME NEW i \in 1 .. Frags PROVE u[Len(s) + i].pkt = p
  <2>1. u[Len(s) + i] = [pkt |-> p, part |-> z + i]
    BY <1>1, <1>6
  <2> QED BY <2>1
<1> QED BY <1>1, <1>6, <1>7, <1>8

(* Parts of a concatenation.                                               *)
LEMMA WindowRefl ==
  ASSUME NEW s \in Seq(Fragment)
  PROVE  Window(s, s)
<1>1. Len(s) \in Nat /\ Len(s) + 0 <= Len(s) /\ \A i \in 1 .. Len(s) : s[i] = s[i + 0]
  BY LenProperties
<1> QED BY <1>1 DEF Window

LEMMA WindowTrans ==
  ASSUME NEW s \in Seq(Fragment), NEW t \in Seq(Fragment), NEW u \in Seq(Fragment),
         Window(s, t), Window(t, u)
  PROVE  Window(s, u)
<1>1. Len(s) \in Nat /\ Len(t) \in Nat /\ Len(u) \in Nat
  BY LenProperties
<1>2. PICK d \in Nat : Len(s) + d <= Len(t) /\ \A i \in 1 .. Len(s) : s[i] = t[i + d]
  BY DEF Window
<1>3. PICK e \in Nat : Len(t) + e <= Len(u) /\ \A i \in 1 .. Len(t) : t[i] = u[i + e]
  BY DEF Window
<1>4. d + e \in Nat /\ Len(s) + (d + e) <= Len(u)
  BY <1>1, <1>2, <1>3
<1>5. ASSUME NEW i \in 1 .. Len(s) PROVE s[i] = u[i + (d + e)]
  <2>1. i + d \in 1 .. Len(t) /\ (i + d) + e = i + (d + e)
    BY <1>1, <1>2
  <2>2. s[i] = t[i + d] /\ t[i + d] = u[(i + d) + e]
    BY <1>2, <1>3, <2>1
  <2> QED BY <2>1, <2>2
<1> QED BY <1>4, <1>5 DEF Window

LEMMA WindowConcat ==
  ASSUME NEW s \in Seq(Fragment), NEW t \in Seq(Fragment)
  PROVE  Window(s, s \o t) /\ Window(t, s \o t)
<1>1. /\ Len(s) \in Nat /\ Len(t) \in Nat /\ Len(s \o t) = Len(s) + Len(t)
      /\ \A i \in 1 .. Len(s) + Len(t) : (s \o t)[i] = IF i <= Len(s) THEN s[i] ELSE t[i - Len(s)]
  BY LenProperties, ConcatProperties
<1>2. Len(s) + 0 <= Len(s \o t) /\ \A i \in 1 .. Len(s) : s[i] = (s \o t)[i + 0]
  BY <1>1
<1>3. Len(t) + Len(s) <= Len(s \o t)
  BY <1>1
<1>4. ASSUME NEW i \in 1 .. Len(t) PROVE t[i] = (s \o t)[i + Len(s)]
  <2>1. i + Len(s) \in 1 .. Len(s) + Len(t) /\ ~(i + Len(s) <= Len(s)) /\ (i + Len(s)) - Len(s) = i
    BY <1>1
  <2> QED BY <1>1, <2>1
<1> QED BY <1>1, <1>2, <1>3, <1>4 DEF Window

(* What holds of every fragment of a stream holds of a part of it.         *)
LEMMA WindowRange ==
  ASSUME NEW s \in Seq(Fragment), NEW t \in Seq(Fragment), Window(t, s),
         NEW i \in 1 .. Len(t)
  PROVE  \E j \in 1 .. Len(s) : t[i] = s[j]
<1>1. PICK d \in Nat : Len(t) + d <= Len(s) /\ \A k \in 1 .. Len(t) : t[k] = s[k + d]
  BY DEF Window
<1>2. i + d \in 1 .. Len(s)
  BY <1>1, LenProperties
<1> QED BY <1>1, <1>2

(* The types of the parts.                                                 *)
StreamsOK ==
  /\ srv.rx \in Seq(Fragment) /\ net.c2s \in Seq(Fragment) /\ Ahead \in Seq(Fragment)
  /\ msg.io.rx \in Seq(Fragment) /\ net.s2c \in Seq(Fragment) /\ srv.out \in Seq(Fragment)
  /\ msg.io.rx \o net.s2c \in Seq(Fragment) /\ Back \in Seq(Fragment)
  /\ msg.context \in Nat /\ msg.io \in Io /\ msg.io.sent \in 0 .. Frags
  /\ msg.io.req \in Packet /\ msg.io.req.context \in Nat
  /\ Len(srv.rx) \in Nat /\ Len(srv.rx) <= Frags

LEMMA StreamsType == TypeOK => StreamsOK
<1> SUFFICES ASSUME TypeOK PROVE StreamsOK
  OBVIOUS
<1>1. /\ srv.rx \in Seq(Fragment) /\ net.c2s \in Seq(Fragment)
      /\ net.s2c \in Seq(Fragment) /\ srv.out \in Seq(Fragment)
      /\ Len(srv.rx) \in Nat /\ Len(srv.rx) <= Frags
  BY StreamType, WireAssumption DEF TypeOK, TransportTypeOK, PlcTypeOK
<1>2. msg.io \in Io /\ msg.context \in Nat
  BY WireAssumption DEF TypeOK, MsgTypeOK
<1>3. msg.io.rx \in Seq(Fragment) /\ msg.io.sent \in 0 .. Frags /\ msg.io.req \in Packet
  BY <1>2, StreamType, WireAssumption DEF Io
<1>4. msg.io.req.context \in Nat
  BY <1>3, WireAssumption DEF Packet
<1> QED BY <1>1, <1>2, <1>3, <1>4, ConcatProperties DEF StreamsOK, Ahead, Back

(* The streams lose fragments at their ends, or nothing.                   *)
LEMMA OrderedShrink ==
  ASSUME NEW a \in Seq(Fragment), NEW b \in Seq(Fragment), NEW n \in Nat, Ordered(a, b, n),
         NEW c \in Seq(Fragment), NEW d \in Seq(Fragment), NEW m \in Nat, n <= m,
         Window(c, a), Window(d, b)
  PROVE  Ordered(c, d, m)
<1>1. Spaced(c) /\ Spaced(d)
  BY SpacedWindow DEF Ordered
<1>2. ASSUME NEW i \in 1 .. Len(c) PROVE \E j \in 1 .. Len(a) : c[i] = a[j]
  BY WindowRange
<1>3. ASSUME NEW i \in 1 .. Len(d) PROVE \E j \in 1 .. Len(b) : d[i] = b[j]
  BY WindowRange
<1>4. ASSUME NEW i \in 1 .. Len(c) PROVE c[i].pkt.context < m
  <2>1. PICK j \in 1 .. Len(a) : c[i] = a[j]
    BY <1>2
  <2>2. a[j].pkt.context < n /\ a[j].pkt.context \in Nat
    BY ElementOfSeq, FragmentPlace DEF Ordered, Older
  <2> QED BY <2>1, <2>2
<1>5. ASSUME NEW i \in 1 .. Len(d) PROVE d[i].pkt.context < m
  <2>1. PICK j \in 1 .. Len(b) : d[i] = b[j]
    BY <1>3
  <2>2. b[j].pkt.context < n /\ b[j].pkt.context \in Nat
    BY ElementOfSeq, FragmentPlace DEF Ordered, Older
  <2> QED BY <2>1, <2>2
<1>6. ASSUME NEW i \in 1 .. Len(d), NEW j \in 1 .. Len(c)
      PROVE  d[i].pkt.context < c[j].pkt.context
  BY <1>2, <1>3 DEF Ordered, Older
<1> QED BY <1>1, <1>4, <1>5, <1>6 DEF Ordered, Older

(* The stream to the PLC gets the next fragments of the request in flight. *)
LEMMA OrderedExtend ==
  ASSUME NEW a \in Seq(Fragment), NEW b \in Seq(Fragment), NEW n \in Nat, Ordered(a, b, n),
         NEW p \in Packet, NEW k \in Nat, NEW m \in Nat, k + m <= Frags,
         p.context < n, Below(a, p.context * Frags + k), m > 0 => Older(b, p.context)
  PROVE  LET t == a \o SubSeq(Fragments(p), k + 1, k + m)
         IN  Ordered(t, b, n) /\ Below(t, p.context * Frags + (k + m))
<1> DEFINE t == a \o SubSeq(Fragments(p), k + 1, k + m)
<1>1. /\ t \in Seq(Fragment) /\ Len(t) = Len(a) + m
      /\ \A i \in 1 .. Len(a) : t[i] = a[i]
      /\ \A i \in 1 .. m : t[Len(a) + i] = [pkt |-> p, part |-> k + i]
      /\ Spaced(t) /\ Below(t, p.context * Frags + (k + m))
  BY SpacedExtend DEF Ordered
<1> HIDE DEF t
<1>2. Len(a) \in Nat
  BY LenProperties
<1>3. ASSUME NEW i \in 1 .. Len(t)
      PROVE  \/ i \in 1 .. Len(a) /\ t[i] = a[i]
             \/ m > 0 /\ t[i].pkt = p
  <2>1. CASE i <= Len(a)
    BY <1>1, <1>2, <2>1
  <2>2. CASE i > Len(a)
    <3>1. i - Len(a) \in 1 .. m /\ Len(a) + (i - Len(a)) = i /\ m > 0
      BY <1>1, <1>2, <2>2
    <3>2. t[i] = [pkt |-> p, part |-> k + (i - Len(a))]
      BY <1>1, <3>1
    <3> QED BY <3>1, <3>2
  <2> QED BY <1>1, <1>2, <2>1, <2>2
<1>4. Older(t, n)
  BY <1>3 DEF Ordered, Older
<1>5. \A j \in 1 .. Len(t) : Older(b, t[j].pkt.context)
  BY <1>3 DEF Ordered
<1>6. Ordered(t, b, n)
  BY <1>1, <1>4, <1>5 DEF Ordered
<1> QED BY <1>1, <1>6 DEF t

(* The PLC takes the first fragments it has for a packet and answers with  *)
(* the context of the first.                                               *)
LEMMA OrderedAnswer ==
  ASSUME NEW a \in Seq(Fragment), NEW b \in Seq(Fragment), NEW n \in Nat, Ordered(a, b, n),
         Frags <= Len(a), NEW r \in Packet, r.context = a[1].pkt.context,
         NEW c \in Seq(Fragment), Len(c) + Frags = Len(a),
         \A i \in 1 .. Len(c) : c[i] = a[i + Frags]
  PROVE  Ordered(c, b \o Fragments(r), n)
<1> DEFINE t == b \o Fragments(r)
<1>1. /\ Frags \in Nat \ {0} /\ Len(a) \in Nat /\ Len(b) \in Nat /\ Len(c) \in Nat
      /\ 1 \in 1 .. Len(a) /\ a[1] \in Fragment
  <2>1. Frags \in Nat \ {0} /\ Len(a) \in Nat /\ Len(b) \in Nat /\ Len(c) \in Nat
    BY WireAssumption, LenProperties
  <2>2. 1 \in 1 .. Len(a)
    BY <2>1
  <2> QED BY <2>1, <2>2, ElementOfSeq
<1>2. Window(c, a)
  <2>1. Frags \in Nat /\ Len(c) + Frags <= Len(a)
    BY <1>1
  <2> QED BY <2>1 DEF Window
<1>3. Spaced(c) /\ Older(c, n)
  <2>1. Window(b, b)
    BY WindowRefl
  <2>2. Ordered(c, b, n)
    BY <1>2, <2>1, OrderedShrink
  <2> QED BY <2>2 DEF Ordered
<1>4. r.context \in Nat /\ r.context * Frags \in Nat
  BY <1>1, FragmentPlace
<1>5. ASSUME NEW i \in 1 .. Len(b) PROVE Pos(b[i]) <= r.context * Frags
  <2>1. b[i].pkt.context < a[1].pkt.context /\ b[i] \in Fragment
    BY <1>1, ElementOfSeq DEF Ordered, Older
  <2> QED BY <1>1, <2>1, PlaceOrder
<1>6. Below(b, r.context * Frags)
  BY <1>4, <1>5, BelowLast DEF Ordered
<1>7. Spaced(b)
  BY DEF Ordered
<1>8. /\ t \in Seq(Fragment) /\ Len(t) = Len(b) + Frags
      /\ \A i \in 1 .. Len(b) : t[i] = b[i]
      /\ \A i \in 1 .. Frags : t[Len(b) + i].pkt = r
      /\ Spaced(t)
  BY <1>6, <1>7, SpacedAnswer
<1> HIDE DEF t
<1>9. ASSUME NEW i \in 1 .. Len(t)
      PROVE  \/ i \in 1 .. Len(b) /\ t[i] = b[i]
             \/ t[i].pkt = r
  <2>1. CASE i <= Len(b)
    BY <1>1, <1>8, <2>1
  <2>2. CASE i > Len(b)
    <3>1. i - Len(b) \in 1 .. Frags /\ Len(b) + (i - Len(b)) = i
      BY <1>1, <1>8, <2>2
    <3> QED BY <1>8, <3>1
  <2> QED BY <1>1, <1>8, <2>1, <2>2
<1>10. Older(t, n)
  <2>1. r.context < n
    BY <1>1 DEF Ordered, Older
  <2> QED BY <1>9, <2>1 DEF Ordered, Older
<1>11. ASSUME NEW j \in 1 .. Len(c) PROVE Older(t, c[j].pkt.context)
  <2>1. j + Frags \in 1 .. Len(a) /\ 1 < j + Frags /\ (j + Frags) - 1 >= Frags
        /\ (j + Frags) - 1 \in Nat
    BY <1>1
  <2>2. Pos(a[1]) + ((j + Frags) - 1) <= Pos(a[j + Frags])
    BY <1>1, <2>1 DEF Ordered, Spaced
  <2>3. a[j + Frags] \in Fragment
    BY <2>1, ElementOfSeq
  <2>4. Pos(a[1]) + Frags <= Pos(a[j + Frags])
    <3>1. Pos(a[1]) \in Nat /\ Pos(a[j + Frags]) \in Nat
      BY <1>1, <2>3, FragmentPlace
    <3> HIDE DEF Pos
    <3> QED BY <1>1, <2>1, <2>2, <3>1
  <2>5. a[1].pkt.context < a[j + Frags].pkt.context
    BY <1>1, <2>3, <2>4, PlaceOrder
  <2>6. Older(b, a[j + Frags].pkt.context)
    BY <2>1 DEF Ordered
  <2>7. c[j] = a[j + Frags]
    OBVIOUS
  <2> QED BY <1>9, <2>5, <2>6, <2>7 DEF Older
<1> QED BY <1>3, <1>8, <1>10, <1>11 DEF Ordered, t

LEMMA BelowWindow ==
  ASSUME NEW s \in Seq(Fragment), NEW t \in Seq(Fragment), Window(t, s),
         NEW n \in Nat, Below(s, n), NEW m \in Nat, n <= m
  PROVE  Below(t, m)
<1>1. Len(s) \in Nat /\ Len(t) \in Nat
  BY LenProperties
<1>2. PICK d \in Nat : Len(t) + d <= Len(s) /\ \A i \in 1 .. Len(t) : t[i] = s[i + d]
  BY DEF Window
<1> SUFFICES ASSUME NEW i \in 1 .. Len(t) PROVE Pos(t[i]) + (Len(t) - i) <= m
  BY DEF Below
<1>3. i + d \in 1 .. Len(s) /\ Len(t) - i <= Len(s) - (i + d)
  BY <1>1, <1>2
<1>4. s[i + d] \in Fragment /\ t[i] = s[i + d]
  BY <1>2, <1>3, ElementOfSeq
<1>5. Pos(s[i + d]) + (Len(s) - (i + d)) <= n
  BY <1>3 DEF Below
<1>6. Pos(s[i + d]) \in Nat
  BY <1>4, FragmentPlace
<1> QED BY <1>1, <1>3, <1>4, <1>5, <1>6

LEMMA OlderWindow ==
  ASSUME NEW s \in Seq(Fragment), NEW t \in Seq(Fragment), Window(t, s), NEW c, Older(s, c)
  PROVE  Older(t, c)
  BY WindowRange DEF Older

(* What the request in flight has written, as a place.                     *)
LEMMA WrittenPlace ==
  ASSUME StreamsOK
  PROVE  msg.io.req.context * Frags + msg.io.sent \in Nat
<1> DEFINE y == msg.io.req.context * Frags
<1>1. y \in Nat /\ msg.io.sent \in Nat
  BY WireAssumption, Product DEF StreamsOK
<1> HIDE DEF y
<1>2. y + msg.io.sent \in Nat
  BY <1>1
<1> QED BY <1>2 DEF y

(* Fragments leave the streams, or none do.                                *)
LEMMA DrainShrink ==
  ASSUME StreamsOK, StreamsOK', DrainInv, Window(Ahead', Ahead), Window(Back', Back),
         msg'.context = msg.context,
         MsgBusy' => /\ MsgBusy /\ msg'.io.req = msg.io.req
                     /\ msg.io.sent = msg'.io.sent
  PROVE  DrainInv'
<1>1. /\ Ahead \in Seq(Fragment) /\ Back \in Seq(Fragment) /\ msg.context \in Nat
      /\ Ahead' \in Seq(Fragment) /\ Back' \in Seq(Fragment)
  BY DEF StreamsOK
<1>2. Ordered(Ahead', Back', msg'.context)
  <2>1. msg.context <= msg.context
    BY <1>1
  <2> QED BY <1>1, <2>1, OrderedShrink DEF DrainInv
<1>3. ASSUME MsgBusy'
      PROVE  /\ Below(Ahead', msg'.io.req.context * Frags + msg'.io.sent)
             /\ msg'.io.sent < Frags => Older(Back', msg'.io.req.context)
  <2> DEFINE x == msg.io.req.context * Frags + msg.io.sent
  <2>1. x \in Nat
    BY WrittenPlace
  <2>2. Below(Ahead, x) /\ (msg.io.sent < Frags => Older(Back, msg.io.req.context))
    BY <1>3 DEF DrainInv
  <2>3. x = msg'.io.req.context * Frags + msg'.io.sent
    BY <1>3
  <2> HIDE DEF x
  <2>4. x <= x
    BY <2>1
  <2>5. Below(Ahead', x)
    BY <1>1, <2>1, <2>2, <2>4, BelowWindow
  <2>6. msg.io.sent < Frags => Older(Back', msg.io.req.context)
    BY <1>1, <2>2, OlderWindow
  <2> QED BY <1>3, <2>3, <2>5, <2>6
<1> QED BY <1>2, <1>3 DEF DrainInv, Ordered, Older, Below, Spaced, Pos

(* The exchange in flight writes on and takes what has come.               *)
LEMMA DrainPoll ==
  ASSUME TypeOK, TypeOK', DrainInv, ContextInv, Poll
  PROVE  DrainInv'
<1>0. StreamsOK /\ TransportTypeOK /\ MsgTypeOK /\ srv' = srv
  BY StreamsType DEF TypeOK, Poll
<1>00. StreamsOK'
  BY StreamsType, PTL
<1> DEFINE rx == msg.io.rx
           in == net.s2c
           out == srv.out
<1>01. /\ rx \in Seq(Fragment) /\ in \in Seq(Fragment) /\ out \in Seq(Fragment)
       /\ Ahead \in Seq(Fragment) /\ Back \in Seq(Fragment)
       /\ srv.rx \in Seq(Fragment) /\ net.c2s \in Seq(Fragment)
       /\ Ahead' \in Seq(Fragment) /\ Back' \in Seq(Fragment)
  BY <1>0, <1>00 DEF StreamsOK
<1>1. CASE UNCHANGED <<net, msg>>
  <2>1. Ahead' = Ahead /\ Back' = Back
    BY <1>0, <1>1 DEF Ahead, Back
  <2>2. Window(Ahead', Ahead) /\ Window(Back', Back)
    BY <1>01, <2>1, WindowRefl
  <2> QED BY <1>0, <1>00, <1>1, <2>2, DrainShrink DEF MsgBusy
<1>2. CASE msg' = MsgFailed /\ UNCHANGED net
  <2>1. msg'.io.rx = << >> /\ msg'.context = msg.context /\ ~MsgBusy'
    BY <1>0, <1>2 DEF MsgFailed, NoIo, NewIo, MsgBusy, MsgTypeOK
  <2>2. Ahead' = Ahead /\ Back' = (<< >> \o in) \o out
    BY <1>0, <1>2, <2>1 DEF Ahead, Back
  <2>3. Back' = in \o out /\ Back = rx \o (in \o out)
    <3>1. Back = (rx \o in) \o out
      BY DEF Back
    <3> HIDE DEF rx, in, out
    <3>2. rx \in Seq(Fragment) /\ in \in Seq(Fragment) /\ out \in Seq(Fragment)
      BY <1>01
    <3>3. << >> \o in = in
      BY <3>2, EmptyConcat
    <3>4. (rx \o in) \o out = rx \o (in \o out)
      BY <3>2, ConcatAssoc
    <3> QED BY <2>2, <3>1, <3>3, <3>4, Zenon
  <2>4. Window(Ahead', Ahead) /\ Window(Back', Back)
    BY <1>01, <2>2, <2>3, WindowRefl, WindowConcat
  <2> QED BY <1>0, <1>00, <2>1, <2>4, DrainShrink
<1>3. CASE MsgBusy /\ \E o \in Transact(msg.io) :
             /\ Apply(o, FALSE)
             /\ \/ msg' = [msg EXCEPT !.io = o.io, !.state = IF Written(o) THEN "Receiving" ELSE @]
                \/ msg' = MsgFailed
                \/ msg' = [msg EXCEPT !.state = "Done", !.timer = 0, !.io = o.io]
  <2>1. PICK o \in Transact(msg.io) :
             /\ Apply(o, FALSE)
             /\ \/ msg' = [msg EXCEPT !.io = o.io, !.state = IF Written(o) THEN "Receiving" ELSE @]
                \/ msg' = MsgFailed
                \/ msg' = [msg EXCEPT !.state = "Done", !.timer = 0, !.io = o.io]
    BY <1>3
  <2>2. PICK n \in 0 .. Frags, k \in 0 .. Frags : Flow(msg.io, n, k, o)
    BY <1>0, TransactFlow DEF StreamsOK
  <2> DEFINE req == msg.io.req
             sent == msg.io.sent
             base == req.context * Frags
             piece == SubSeq(Fragments(req), sent + 1, sent + n)
             got == SubSeq(in, 1, k)
             rest == SubSeq(in, k + 1, Len(in))
  <2>3. /\ net'.c2s = net.c2s \o piece /\ net'.s2c = rest
        /\ o.io.rx = rx \o got /\ o.io.req = req
        /\ o.io.sent = sent + n \/ o.io.sent = Frags
        /\ sent + n <= Frags /\ k <= Len(in)
    <3>1. net'.c2s = o.c2s /\ net'.s2c = o.s2c
      BY <1>0, <2>1 DEF Apply, TransportTypeOK
    <3> QED BY <2>2, <3>1 DEF Flow
  <2>4. /\ Frags \in Nat /\ n \in Nat /\ sent \in Nat /\ base \in Nat
        /\ Len(in) \in Nat /\ k \in 0 .. Len(in) /\ req \in Packet /\ msg.context \in Nat
        /\ req.context \in Nat
    <3>1. base \in Nat
      BY <1>0, WireAssumption, Product DEF StreamsOK
    <3>2. Len(in) \in Nat
      BY <1>01, LenProperties
    <3>3. Frags \in Nat /\ n \in Nat /\ k \in Nat /\ sent \in Nat
          /\ req \in Packet /\ msg.context \in Nat /\ req.context \in Nat
      BY <1>0, WireAssumption DEF StreamsOK
    <3>4. k \in 0 .. Len(in)
      BY <2>3, <3>2, <3>3
    <3> QED BY <3>1, <3>2, <3>3, <3>4
  <2>5. piece \in Seq(Fragment)
    <3>1. /\ Fragments(req) \in Seq(Fragment) /\ Len(Fragments(req)) = Frags
          /\ sent + 1 \in Nat \ {0} /\ sent + n \in Nat /\ sent + n <= Frags
          /\ sent + 1 <= sent + n + 1
      <4>1. Fragments(req) \in Seq(Fragment) /\ Len(Fragments(req)) = Frags
        BY <2>4, FragmentsType
      <4> HIDE DEF req, sent
      <4> QED BY <2>3, <2>4, <4>1
    <3> HIDE DEF req, sent
    <3> QED BY <3>1, SubStream
  <2>6. got \in Seq(Fragment) /\ rest \in Seq(Fragment)
    <3>1. /\ k + 1 \in Nat \ {0} /\ k \in Nat /\ k <= Len(in) /\ 1 <= k + 1
          /\ k + 1 <= Len(in) + 1 /\ 1 \in Nat \ {0} /\ Len(in) <= Len(in)
      BY <2>4
    <3> HIDE DEF in
    <3> QED BY <1>01, <2>4, <3>1, SubStream
  <2>7. (rx \o got) \o rest = rx \o in
    BY <1>01, <2>4, MoveMany
  <2> HIDE DEF piece, got, rest
  <2>8. Ahead' = Ahead \o piece
    <3>1. Ahead' = srv.rx \o (net.c2s \o piece)
      BY <1>0, <2>3 DEF Ahead
    <3>2. (srv.rx \o net.c2s) \o piece = srv.rx \o (net.c2s \o piece)
      <4>1. srv.rx \in Seq(Fragment) /\ net.c2s \in Seq(Fragment)
        BY <1>01
      <4> QED BY <2>5, <4>1, ConcatAssoc
    <3> QED BY <3>1, <3>2 DEF Ahead
  <2>9. /\ Below(Ahead, base + sent) /\ Ordered(Ahead, Back, msg.context)
        /\ sent < Frags => Older(Back, req.context)
        /\ req.context + 1 = msg.context
    BY <1>3 DEF DrainInv, ContextInv, Live, MsgBusy
  <2>10. n > 0 => Older(Back, req.context)
    BY <2>3, <2>4, <2>9
  <2>11. Ordered(Ahead', Back, msg.context) /\ Below(Ahead', base + (sent + n))
    <3>1. req.context < msg.context
      BY <2>4, <2>9
    <3> HIDE DEF req, sent
    <3> QED BY <1>01, <2>3, <2>4, <2>8, <2>9, <2>10, <3>1, OrderedExtend DEF piece, base
  <2>12. /\ msg'.context = msg.context
         /\ \/ msg'.io = o.io
            \/ msg'.io.rx = << >> /\ ~MsgBusy'
    <3>1. CASE msg' = MsgFailed
      BY <1>0, <3>1 DEF MsgFailed, NoIo, NewIo, MsgBusy, MsgTypeOK
    <3>2. CASE msg' # MsgFailed
      BY <1>0, <2>1, <3>2 DEF MsgTypeOK
    <3> QED BY <3>1, <3>2
  <2>13. Window(Back', Back)
    <3>1. Back = (rx \o got) \o (rest \o out)
      <4>1. Back = (rx \o in) \o out
        BY DEF Back
      <4> HIDE DEF rx, in, out
      <4> DEFINE u == rx \o got
      <4>2. u \in Seq(Fragment)
        BY <1>01, <2>6, ConcatProperties
      <4> HIDE DEF u
      <4>3. (u \o rest) \o out = u \o (rest \o out)
        <5>1. out \in Seq(Fragment) /\ rest \in Seq(Fragment)
          BY <1>01, <2>6
        <5> QED BY <4>2, <5>1, ConcatAssoc
      <4> QED BY <2>7, <4>1, <4>3, Zenon DEF u
    <3>2. rx \o got \in Seq(Fragment) /\ rest \o out \in Seq(Fragment)
      BY <1>01, <2>6, ConcatProperties
    <3>3. CASE msg'.io = o.io
      <4>1. Back' = Back
        BY <1>0, <2>3, <2>7, <3>3 DEF Back
      <4> QED BY <1>01, <4>1, WindowRefl
    <3>4. CASE msg'.io.rx = << >>
      <4>1. Back' = rest \o out
        BY <1>0, <2>3, <2>6, <3>4, EmptyConcat DEF Back
      <4> QED BY <3>1, <3>2, <4>1, WindowConcat
    <3> QED BY <2>12, <3>3, <3>4
  <2>14. Ordered(Ahead', Back', msg'.context)
    <3>1. Window(Ahead', Ahead') /\ msg.context <= msg.context
      BY <1>01, <2>4, WindowRefl
    <3> QED BY <1>01, <2>4, <2>11, <2>12, <2>13, <3>1, OrderedShrink
  <2>15. ASSUME MsgBusy'
         PROVE  /\ Below(Ahead', msg'.io.req.context * Frags + msg'.io.sent)
                /\ msg'.io.sent < Frags => Older(Back', msg'.io.req.context)
    <3>1. msg'.io.req = req /\ (msg'.io.sent = sent + n \/ msg'.io.sent = Frags)
      BY <2>3, <2>12, <2>15
    <3>2. msg'.io.sent < Frags => sent < Frags
      BY <2>3, <2>4, <3>1
    <3>3. msg'.io.sent < Frags => Older(Back', req.context)
      BY <1>01, <2>9, <2>13, <3>2, OlderWindow
    <3>4. /\ base + (sent + n) \in Nat /\ base + msg'.io.sent \in Nat
          /\ base + (sent + n) <= base + msg'.io.sent
      <4> HIDE DEF base, sent, req
      <4> QED BY <2>3, <2>4, <3>1
    <3>5. Below(Ahead', base + msg'.io.sent)
      <4> HIDE DEF base, sent, req
      <4> QED BY <1>01, <2>11, <3>4, WindowRefl, BelowWindow
    <3> QED BY <3>1, <3>3, <3>5
  <2> QED BY <2>14, <2>15 DEF DrainInv, Ordered, Older, Below, Spaced, Pos
<1> QED
  BY <1>1, <1>2, <1>3 DEF Poll, MsgPoll, PollInFlight

(* send(): the new request comes after everything on its way.              *)
LEMMA DrainSend ==
  ASSUME TypeOK, TypeOK', DrainInv, msg.context + 1 < CtxMod, NEW h \in Handles, NEW t \in Names,
         MsgSend(h, t, "Pending"), UNCHANGED <<net, srv>>
  PROVE  DrainInv'
<1> DEFINE c == msg.context
<1>0. StreamsOK
  BY StreamsType
<1>00. StreamsOK'
  BY StreamsType, PTL
<1>1. /\ Ahead \in Seq(Fragment) /\ Back \in Seq(Fragment) /\ c \in Nat
      /\ Ahead' \in Seq(Fragment) /\ Back' \in Seq(Fragment)
  BY <1>0, <1>00 DEF StreamsOK
<1>2. /\ msg'.io.rx = << >> /\ msg'.io.sent = 0 /\ msg'.io.req.context = c
      /\ msg'.context = c + 1
  <2>0. CtxMod \in Nat /\ msg.context \in Nat
    BY <1>1, WireAssumption
  <2>1. (msg.context + 1) % CtxMod = msg.context + 1
    BY <2>0
  <2> QED BY <2>1 DEF MsgSend, NewIo
<1>3. Ahead' = Ahead
  BY DEF Ahead
<1>4. Window(Back', Back)
  <2> DEFINE rx == msg.io.rx
             in == net.s2c
             out == srv.out
  <2>1. Back = (rx \o in) \o out /\ Back' = (<< >> \o in) \o out
    BY <1>2 DEF Back
  <2>2. rx \in Seq(Fragment) /\ in \in Seq(Fragment) /\ out \in Seq(Fragment)
    BY <1>0 DEF StreamsOK
  <2> HIDE DEF rx, in, out
  <2>3. << >> \o in = in
    BY <2>2, EmptyConcat
  <2>4. (rx \o in) \o out = rx \o (in \o out)
    BY <2>2, ConcatAssoc
  <2>5. in \o out \in Seq(Fragment)
    BY <2>2, ConcatProperties
  <2> DEFINE w == in \o out
  <2> HIDE DEF w
  <2>6. Window(w, rx \o w)
    BY <2>2, <2>5, WindowConcat DEF w
  <2> QED BY <2>1, <2>3, <2>4, <2>6 DEF w
<1>5. Ordered(Ahead, Back, c)
  BY DEF DrainInv
<1>6. Ordered(Ahead', Back', c + 1)
  <2>1. Window(Ahead', Ahead) /\ c <= c + 1 /\ c + 1 \in Nat
    BY <1>1, <1>3, WindowRefl
  <2> HIDE DEF c
  <2> QED BY <1>1, <1>4, <1>5, <2>1, OrderedShrink
<1>7. Older(Back', c)
  BY <1>1, <1>4, <1>5, OlderWindow DEF Ordered
<1>8. Below(Ahead, c * Frags)
  <2>1. c * Frags \in Nat
    BY <1>1, WireAssumption, Product
  <2>2. ASSUME NEW i \in 1 .. Len(Ahead) PROVE Pos(Ahead[i]) <= c * Frags
    <3>1. Ahead[i] \in Fragment /\ Ahead[i].pkt.context < c
      BY <1>1, <1>5, ElementOfSeq DEF Ordered, Older
    <3> DEFINE f == Ahead[i]
               y == c * Frags
               x == f.pkt.context * Frags
    <3>2. /\ f.pkt.context \in Nat /\ x \in Nat /\ Pos(f) \in Nat
          /\ Pos(f) <= x + Frags
      BY <3>1, FragmentPlace
    <3>3. x + Frags <= y
      BY <1>1, <3>1, <3>2, WireAssumption, Product
    <3> HIDE DEF x, y, f
    <3>4. Frags \in Nat /\ y \in Nat
      BY <2>1, WireAssumption DEF y
    <3>5. Pos(f) <= y
      BY <3>2, <3>3, <3>4
    <3> QED BY <3>5 DEF f, y
  <2> HIDE DEF c
  <2> QED BY <1>1, <1>5, <2>1, <2>2, BelowLast DEF Ordered
<1>9. Below(Ahead', msg'.io.req.context * Frags + msg'.io.sent)
  <2> DEFINE y == c * Frags
  <2>1. y \in Nat
    BY <1>1, WireAssumption, Product
  <2> HIDE DEF y
  <2>2. y + 0 = y
    BY <2>1
  <2> QED BY <1>2, <1>3, <1>8, <2>2 DEF y
<1> QED BY <1>2, <1>6, <1>7, <1>9 DEF DrainInv, Ordered, Older, Below, Spaced, Pos

(* abort(), and a tick of the clock.                                       *)
LEMMA DrainAbort ==
  ASSUME TypeOK, TypeOK', DrainInv, Abort
  PROVE  DrainInv'
<1>0. StreamsOK /\ MsgTypeOK
  BY StreamsType DEF TypeOK
<1>00. StreamsOK'
  BY StreamsType, PTL
<1>1. msg'.io.rx = << >> /\ msg'.context = msg.context /\ ~MsgBusy' /\ UNCHANGED <<net, srv>>
  BY <1>0 DEF Abort, MsgAbort, NoIo, NewIo, MsgBusy, MsgTypeOK
<1> DEFINE rx == msg.io.rx
           in == net.s2c
           out == srv.out
<1>2. Ahead' = Ahead /\ Back = (rx \o in) \o out /\ Back' = (<< >> \o in) \o out
  BY <1>1 DEF Ahead, Back
<1>3. /\ rx \in Seq(Fragment) /\ in \in Seq(Fragment) /\ out \in Seq(Fragment)
  BY <1>0 DEF StreamsOK
<1>4. Ahead \in Seq(Fragment)
  BY <1>0 DEF StreamsOK
<1> HIDE DEF rx, in, out
<1>5. << >> \o in = in
  BY <1>3, EmptyConcat
<1>6. (rx \o in) \o out = rx \o (in \o out)
  BY <1>3, ConcatAssoc
<1> DEFINE w == in \o out
<1>7. w \in Seq(Fragment)
  BY <1>3, ConcatProperties
<1> HIDE DEF w
<1>8. Window(w, rx \o w) /\ Window(Ahead, Ahead)
  BY <1>3, <1>4, <1>7, WindowConcat, WindowRefl
<1>9. Window(Ahead', Ahead) /\ Window(Back', Back)
  BY <1>2, <1>5, <1>6, <1>8 DEF w
<1> QED BY <1>0, <1>00, <1>1, <1>9, DrainShrink

LEMMA DrainTick ==
  ASSUME TypeOK, TypeOK', DrainInv,
         UNCHANGED <<net, srv>>, msg'.io = msg.io, msg'.context = msg.context, msg'.state = msg.state
  PROVE  DrainInv'
<1>0. StreamsOK
  BY StreamsType
<1>00. StreamsOK'
  BY StreamsType, PTL
<1>1. Ahead' = Ahead /\ Back' = Back
  BY DEF Ahead, Back
<1>2. Window(Ahead', Ahead) /\ Window(Back', Back)
  BY <1>0, <1>1, WindowRefl DEF StreamsOK
<1> QED BY <1>0, <1>00, <1>2, DrainShrink DEF MsgBusy

(* The PLC takes a fragment; it may complete a request, which is answered. *)
LEMMA DrainReceive ==
  ASSUME TypeOK, TypeOK', DrainInv, PlcReceive, UNCHANGED msg
  PROVE  DrainInv'
<1>0. StreamsOK /\ TransportTypeOK /\ PlcTypeOK
  BY StreamsType DEF TypeOK
<1>00. StreamsOK'
  BY StreamsType, PTL
<1> DEFINE rx == Append(srv.rx, Head(net.c2s))
           rest == Tail(net.c2s)
           base == msg.io.req.context * Frags
<1>1. /\ net.c2s # << >> /\ srv.out = << >> /\ net' = [net EXCEPT !.c2s = rest]
      /\ net'.c2s = rest /\ net'.s2c = net.s2c
      /\ \/ srv' = [srv EXCEPT !.rx = rx]
         \/ srv' = [srv EXCEPT !.rx = << >>] /\ Len(rx) = Frags
         \/ /\ Len(rx) = Frags
            /\ \E a \in Answers(rx[1].pkt) :
                 srv' = [reg |-> a.reg, rx |-> << >>, out |-> Fragments(a.reply)]
         \/ /\ Len(rx) = Frags
            /\ srv' = [srv EXCEPT !.rx = << >>, !.out = Fragments(Reply(rx[1].pkt, 0, "encapErr"))]
  BY <1>0 DEF PlcReceive, TransportTypeOK
<1>2. /\ Ahead \in Seq(Fragment) /\ Back \in Seq(Fragment) /\ msg.context \in Nat
      /\ Ahead' \in Seq(Fragment) /\ Back' \in Seq(Fragment)
  BY <1>0, <1>00 DEF StreamsOK
<1>3. /\ rx \in Seq(Fragment) /\ rest \in Seq(Fragment) /\ rx \o rest = Ahead
      /\ Len(rx) \in Nat /\ Len(rest) \in Nat
  <2>1. srv.rx \in Seq(Fragment) /\ net.c2s \in Seq(Fragment)
    BY <1>0 DEF StreamsOK
  <2>2. Head(net.c2s) \in Fragment /\ rest \in Seq(Fragment)
    BY <1>1, <2>1, HeadTailProperties
  <2>3. rx \in Seq(Fragment)
    BY <2>1, <2>2, AppendProperties
  <2>4. rx \o rest = srv.rx \o net.c2s
    BY <1>1, <2>1, MoveOne
  <2> QED BY <2>2, <2>3, <2>4, LenProperties DEF Ahead
<1> HIDE DEF rx, rest
<1>4. /\ Len(Ahead) = Len(rx) + Len(rest)
      /\ \A i \in 1 .. Len(rest) : rest[i] = Ahead[i + Len(rx)]
      /\ Len(rx) = Frags => 1 \in 1 .. Len(Ahead) /\ rx[1] = Ahead[1] /\ Ahead[1] \in Fragment
                            /\ Frags <= Len(Ahead)
  <2>1. /\ Len(rx \o rest) = Len(rx) + Len(rest)
        /\ \A i \in 1 .. Len(rx) + Len(rest) :
             (rx \o rest)[i] = IF i <= Len(rx) THEN rx[i] ELSE rest[i - Len(rx)]
    BY <1>3, ConcatProperties
  <2>2. ASSUME NEW i \in 1 .. Len(rest) PROVE rest[i] = Ahead[i + Len(rx)]
    <3>1. /\ i + Len(rx) \in 1 .. Len(rx) + Len(rest) /\ ~(i + Len(rx) <= Len(rx))
          /\ (i + Len(rx)) - Len(rx) = i
      BY <1>3
    <3>2. (rx \o rest)[i + Len(rx)] = rest[i]
      BY <2>1, <3>1
    <3> QED BY <1>3, <3>2
  <2>3. ASSUME Len(rx) = Frags
        PROVE  1 \in 1 .. Len(Ahead) /\ rx[1] = Ahead[1] /\ Ahead[1] \in Fragment
               /\ Frags <= Len(Ahead)
    <3>1. 1 \in 1 .. Len(rx) + Len(rest) /\ 1 <= Len(rx) /\ Len(rx) <= Len(rx) + Len(rest)
      BY <1>3, <2>3, WireAssumption
    <3>2. (rx \o rest)[1] = rx[1]
      BY <2>1, <3>1
    <3> QED BY <1>2, <1>3, <2>1, <2>3, <3>1, <3>2, ElementOfSeq
  <2> QED BY <1>3, <2>1, <2>2, <2>3
<1>5. CASE srv' = [srv EXCEPT !.rx = rx]
  <2>1. srv'.rx = rx /\ srv'.out = srv.out
    BY <1>0, <1>5 DEF PlcTypeOK
  <2>2. Ahead' = Ahead /\ Back' = Back
    BY <1>1, <1>3, <2>1 DEF Ahead, Back
  <2>3. Window(Ahead', Ahead) /\ Window(Back', Back)
    BY <1>2, <2>2, WindowRefl
  <2> QED BY <1>0, <1>00, <2>3, DrainShrink DEF MsgBusy
<1>6. ASSUME srv'.rx = << >> PROVE Ahead' = rest /\ Window(Ahead', Ahead)
  <2>1. Ahead' = rest
    BY <1>1, <1>3, <1>6, EmptyConcat DEF Ahead
  <2>2. Window(rest, rx \o rest)
    BY <1>3, WindowConcat
  <2> QED BY <1>3, <2>1, <2>2
<1>7. CASE srv' = [srv EXCEPT !.rx = << >>]
  <2>1. srv'.rx = << >> /\ srv'.out = srv.out
    BY <1>0, <1>7 DEF PlcTypeOK
  <2>2. Back' = Back
    BY <1>1, <2>1 DEF Back
  <2>3. Window(Ahead', Ahead) /\ Window(Back', Back)
    BY <1>2, <1>6, <2>1, <2>2, WindowRefl
  <2> QED BY <1>0, <1>00, <2>3, DrainShrink DEF MsgBusy
<1>8. ASSUME Len(rx) = Frags, NEW r \in Packet, r.context = rx[1].pkt.context,
             srv'.rx = << >>, srv'.out = Fragments(r)
      PROVE  DrainInv'
  <2>1. Back' = Back \o Fragments(r)
    <3> DEFINE b == msg.io.rx \o net.s2c
    <3>1. Back = b \o << >> /\ Back' = b \o Fragments(r)
      BY <1>1, <1>8 DEF Back
    <3>2. b \in Seq(Fragment)
      BY <1>0 DEF StreamsOK
    <3> HIDE DEF b
    <3>3. b \o << >> = b
      BY <3>2, ConcatEmptySeq
    <3> QED BY <3>1, <3>3
  <2>2. Ahead' = rest /\ Window(Ahead', Ahead)
    BY <1>6, <1>8
  <2>3. Ordered(Ahead, Back, msg.context)
    BY DEF DrainInv
  <2>4. Ordered(rest, Back \o Fragments(r), msg.context)
    <3>1. Len(rest) + Frags = Len(Ahead) /\ \A i \in 1 .. Len(rest) : rest[i] = Ahead[i + Frags]
      BY <1>3, <1>4, <1>8
    <3>2. r.context = Ahead[1].pkt.context /\ Frags <= Len(Ahead)
      BY <1>4, <1>8
    <3> QED BY <1>2, <1>3, <2>3, <3>1, <3>2, OrderedAnswer
  <2>5. ASSUME MsgBusy
        PROVE  /\ Below(Ahead', msg.io.req.context * Frags + msg.io.sent)
               /\ msg.io.sent < Frags => Older(Back', msg.io.req.context)
    <3> DEFINE x == msg.io.req.context * Frags + msg.io.sent
    <3>1. x \in Nat
      BY <1>0, WrittenPlace
    <3>2. Below(Ahead, x) /\ (msg.io.sent < Frags => Older(Back, msg.io.req.context))
      BY <2>5 DEF DrainInv
    <3>3. Below(Ahead', x)
      <4> HIDE DEF x
      <4>1. x <= x
        BY <3>1
      <4> QED BY <1>2, <2>2, <3>1, <3>2, <4>1, BelowWindow
    <3>4. ASSUME msg.io.sent < Frags PROVE r.context < msg.io.req.context
      <4>1. Pos(Ahead[1]) + (Len(Ahead) - 1) <= base + msg.io.sent
        BY <1>4, <1>8, <3>2 DEF Below
      <4>2. /\ Ahead[1].pkt.context \in Nat /\ Pos(Ahead[1]) \in Nat
            /\ Ahead[1].pkt.context * Frags < Pos(Ahead[1])
            /\ Ahead[1].pkt.context * Frags \in Nat
        BY <1>4, <1>8, FragmentPlace
      <4>3. base \in Nat /\ Frags \in Nat /\ msg.io.sent \in Nat /\ msg.io.req.context \in Nat
        <5>1. Frags \in Nat /\ msg.io.sent \in Nat /\ msg.io.req.context \in Nat
          BY <1>0, WireAssumption DEF StreamsOK
        <5>2. base \in Nat
          BY <5>1, Product
        <5> QED BY <5>1, <5>2
      <4> DEFINE c == Ahead[1].pkt.context
                 d == msg.io.req.context
                 y == c * Frags
      <4>4. /\ d < c => base + Frags <= y
            /\ d = c => base = y
        BY <4>2, <4>3, Product
      <4>5. Len(Ahead) \in Nat /\ Frags <= Len(Ahead)
        BY <1>2, <1>4, <1>8, LenProperties
      <4>6. r.context = c /\ c \in Nat /\ d \in Nat /\ y \in Nat /\ y < Pos(Ahead[1])
        BY <1>4, <1>8, <4>2, <4>3
      <4> DEFINE q == Pos(Ahead[1])
      <4>7. q \in Nat /\ y < q /\ q + (Len(Ahead) - 1) <= base + msg.io.sent
        BY <4>1, <4>2
      <4> HIDE DEF base, c, d, y, q
      <4>8. y < base
        BY <3>4, <4>3, <4>5, <4>6, <4>7
      <4>9. c < d
        BY <4>3, <4>4, <4>6, <4>8
      <4> QED BY <4>6, <4>9 DEF d
    <3>5. ASSUME msg.io.sent < Frags PROVE Older(Back', msg.io.req.context)
      <4>1. Fragments(r) \in Seq(Fragment) /\ Len(Fragments(r)) = Frags /\ Frags \in Nat
            /\ Len(Back) \in Nat
        BY <1>2, FragmentsType, LenProperties, WireAssumption
      <4>2. ASSUME NEW i \in 1 .. Len(Back') PROVE Back'[i].pkt.context < msg.io.req.context
        <5>1. Len(Back \o Fragments(r)) = Len(Back) + Frags
              /\ \A j \in 1 .. Len(Back) + Frags : (Back \o Fragments(r))[j] =
                   IF j <= Len(Back) THEN Back[j] ELSE Fragments(r)[j - Len(Back)]
          BY <1>2, <4>1, ConcatProperties
        <5>2. CASE i <= Len(Back)
          <6>1. Back'[i] = Back[i] /\ i \in 1 .. Len(Back)
            BY <2>1, <4>1, <4>2, <5>1, <5>2
          <6> QED BY <3>2, <3>5, <6>1 DEF Older
        <5>3. CASE i > Len(Back)
          <6>1. Back'[i] = Fragments(r)[i - Len(Back)] /\ i - Len(Back) \in 1 .. Frags
            BY <2>1, <4>1, <4>2, <5>1, <5>3
          <6>2. Fragments(r)[i - Len(Back)].pkt = r
            BY <6>1 DEF Fragments
          <6> QED BY <3>4, <3>5, <6>1, <6>2
        <5> QED BY <2>1, <4>1, <5>1, <5>2, <5>3
      <4> QED BY <4>2 DEF Older
    <3> QED BY <3>3, <3>5
  <2> QED BY <2>1, <2>2, <2>4, <2>5 DEF DrainInv, MsgBusy, Ordered, Older, Below, Spaced, Pos
<1>9. Len(rx) = Frags => rx[1].pkt \in Packet
  BY <1>4 DEF Fragment
<1>10. ASSUME Len(rx) = Frags, NEW a \in Answers(rx[1].pkt),
              srv' = [reg |-> a.reg, rx |-> << >>, out |-> Fragments(a.reply)]
       PROVE  DrainInv'
  <2>1. a.reply \in Packet /\ a.reply.context = rx[1].pkt.context
    BY <1>0, <1>9, <1>10, AnswersKeep
  <2> QED BY <1>8, <1>10, <2>1
<1>11. CASE /\ Len(rx) = Frags
            /\ srv' = [srv EXCEPT !.rx = << >>, !.out = Fragments(Reply(rx[1].pkt, 0, "encapErr"))]
  <2> DEFINE r == Reply(rx[1].pkt, 0, "encapErr")
  <2>1. r \in Packet /\ r.context = rx[1].pkt.context
    BY <1>9, <1>11, RefusalKeeps
  <2>2. srv'.rx = << >> /\ srv'.out = Fragments(r)
    BY <1>0, <1>11 DEF PlcTypeOK
  <2> HIDE DEF r
  <2> QED BY <1>8, <1>11, <2>1, <2>2
<1> QED BY <1>1, <1>5, <1>7, <1>10, <1>11

(* A fragment of an answer reaches the client.                             *)
LEMMA DrainServeSend ==
  ASSUME TypeOK, TypeOK', DrainInv, PlcSend, UNCHANGED msg
  PROVE  DrainInv'
<1>0. StreamsOK /\ TransportTypeOK /\ PlcTypeOK
  BY StreamsType DEF TypeOK
<1>00. StreamsOK'
  BY StreamsType, PTL
<1> DEFINE rx == msg.io.rx
           in == net.s2c
           out == srv.out
           more == Append(in, Head(out))
           rest == Tail(out)
<1>1. /\ out # << >> /\ net'.s2c = more /\ net'.c2s = net.c2s
      /\ srv'.out = rest /\ srv'.rx = srv.rx
  BY <1>0 DEF PlcSend, TransportTypeOK, PlcTypeOK
<1>2. rx \in Seq(Fragment) /\ in \in Seq(Fragment) /\ out \in Seq(Fragment)
  BY <1>0 DEF StreamsOK
<1>3. Ahead \in Seq(Fragment) /\ Back \in Seq(Fragment)
  BY <1>0 DEF StreamsOK
<1>4. Ahead' = Ahead
  BY <1>1 DEF Ahead
<1>5. Back = (rx \o in) \o out /\ Back' = (rx \o more) \o rest
  BY <1>1 DEF Back
<1> HIDE DEF rx, in, out
<1>6. more \in Seq(Fragment) /\ rest \in Seq(Fragment) /\ more \o rest = in \o out
  <2>1. Head(out) \in Fragment /\ rest \in Seq(Fragment)
    BY <1>1, <1>2, HeadTailProperties
  <2>2. more \in Seq(Fragment)
    BY <1>2, <2>1, AppendProperties
  <2>3. more \o rest = in \o out
    BY <1>1, <1>2, MoveOne
  <2> QED BY <2>1, <2>2, <2>3
<1> HIDE DEF more, rest
<1>7. (rx \o in) \o out = rx \o (in \o out)
  BY <1>2, ConcatAssoc
<1>8. (rx \o more) \o rest = rx \o (more \o rest)
  BY <1>2, <1>6, ConcatAssoc
<1>9. Back' = Back
  BY <1>5, <1>6, <1>7, <1>8, Zenon
<1>10. Window(Ahead', Ahead) /\ Window(Back', Back)
  BY <1>3, <1>4, <1>9, WindowRefl
<1> QED BY <1>0, <1>00, <1>10, DrainShrink DEF MsgBusy

(* The connection closes: what the client has or can still read is left.   *)
LEMMA DrainClose ==
  ASSUME TypeOK, TypeOK', DrainInv, PlcClose, UNCHANGED msg
  PROVE  DrainInv'
<1>0. StreamsOK /\ TransportTypeOK
  BY StreamsType DEF TypeOK
<1>00. StreamsOK'
  BY StreamsType, PTL
<1>1. /\ net'.c2s = << >> /\ srv'.rx = << >> /\ srv'.out = << >>
      /\ net'.s2c = net.s2c \/ net'.s2c = << >>
  <2>1. srv'.rx = << >> /\ srv'.out = << >>
    BY DEF PlcClose, SrvFresh
  <2>2. CASE net' = [net EXCEPT !.sock = "fin", !.c2s = << >>]
    BY <1>0, <2>1, <2>2 DEF TransportTypeOK
  <2>3. CASE net' = Wire("reset")
    BY <2>1, <2>3 DEF Wire
  <2> QED BY <2>2, <2>3 DEF PlcClose
<1> DEFINE rx == msg.io.rx
           in == net.s2c
           out == srv.out
           b == rx \o in
<1>2. /\ rx \in Seq(Fragment) /\ in \in Seq(Fragment) /\ out \in Seq(Fragment)
      /\ b \in Seq(Fragment)
  BY <1>0 DEF StreamsOK
<1>3. Ahead \in Seq(Fragment) /\ Back \in Seq(Fragment)
  BY <1>0 DEF StreamsOK
<1>4. Window(Ahead', Ahead)
  <2>1. Ahead' = << >>
    BY <1>1 DEF Ahead
  <2>2. << >> \in Seq(Fragment) /\ << >> \o Ahead = Ahead
    BY <1>3, EmptySeq, EmptyConcat
  <2>3. Window(<< >>, << >> \o Ahead)
    BY <1>3, <2>2, WindowConcat
  <2> QED BY <2>1, <2>2, <2>3
<1>5. Back = b \o out /\ (Back' = b \o << >> \/ Back' = (rx \o << >>) \o << >>)
  BY <1>1 DEF Back
<1>6. b \o << >> = b /\ (rx \o << >>) \o << >> = rx
  <2> HIDE DEF rx, b
  <2> QED BY <1>2, ConcatEmptySeq
<1>7. Window(rx, b)
  BY <1>2, WindowConcat
<1>8. Window(Back', Back)
  <2> HIDE DEF rx, b, out
  <2>1. Window(b, Back)
    BY <1>2, <1>5, WindowConcat
  <2>2. Window(rx, Back)
    BY <1>2, <1>3, <1>7, <2>1, WindowTrans
  <2> QED BY <1>5, <1>6, <2>1, <2>2
<1> QED BY <1>0, <1>00, <1>4, <1>8, DrainShrink DEF MsgBusy

LEMMA DrainInit == Init => DrainInv
<1> SUFFICES ASSUME Init PROVE DrainInv
  OBVIOUS
<1>1. /\ net.c2s = << >> /\ net.s2c = << >> /\ srv.rx = << >> /\ srv.out = << >>
      /\ msg.io.rx = << >> /\ msg.state = "Idle"
  BY DEF Init, Wire, SrvFresh, MsgInit, NoIo, NewIo
<1>2. Ahead = << >> /\ Back = << >>
  BY <1>1 DEF Ahead, Back
<1> QED BY <1>1, <1>2 DEF DrainInv, Ordered, Spaced, Older, MsgBusy

LEMMA DrainNext ==
  ASSUME MaxOps + 1 < CtxMod, TypeOK, TypeOK', ContextInv, DrainInv, [Next]_vars
  PROVE  DrainInv'
<1>0. MsgTypeOK
  BY DEF TypeOK
<1>1. CASE UNCHANGED <<net, srv, msg>>
  BY <1>1, DrainTick
<1>2. ASSUME NEW h \in Handles, NEW t \in Names, Send(h, t) PROVE DrainInv'
  <2>1. PICK st \in Status : MsgSend(h, t, st)
    BY <1>2 DEF Send
  <2>2. CASE st = "Pending"
    <3>1. msg.context + 1 < CtxMod
      BY <1>0, <1>2, ExchangeAssumption, WireAssumption DEF Send, MsgTypeOK
    <3> QED BY <1>2, <2>1, <2>2, <3>1, DrainSend DEF Send
  <2>3. CASE st # "Pending"
    BY <1>1, <1>2, <2>1, <2>3, MsgSendBusy DEF Send
  <2> QED BY <2>2, <2>3
<1>3. CASE Poll
  BY <1>3, DrainPoll
<1>4. CASE Abort
  BY <1>4, DrainAbort
<1>5. CASE Tick
  <2>1. msg'.context = msg.context /\ msg'.io = msg.io /\ msg'.state = msg.state
    BY <1>0, <1>5 DEF Tick, MsgTick, MsgTypeOK
  <2> QED BY <1>5, <2>1, DrainTick DEF Tick
<1>6. CASE Serve
  BY <1>6, DrainReceive, DrainServeSend DEF Serve
<1>7. CASE Close
  BY <1>7, DrainClose DEF Close
<1> QED BY <1>1, <1>2, <1>3, <1>4, <1>5, <1>6, <1>7 DEF Next, SendAny, vars

(* An accepted answer belongs to the newest request: there is no later     *)
(* answer behind it and no later request ahead of the PLC.                 *)
LEMMA DrainDone ==
  ASSUME TypeOK, ContextInv, DrainInv, msg.state = "Done"
  PROVE  net.c2s = << >> /\ net.s2c = << >> /\ srv.rx = << >> /\ srv.out = << >>
<1>0. StreamsOK
  BY StreamsType
<1> DEFINE rx == msg.io.rx
           p == rx[1].pkt
           c == msg.io.req.context
           tail == net.s2c \o srv.out
<1>1. /\ rx \in Seq(Fragment) /\ Len(rx) = Frags /\ rx = Fragments(p) /\ p.context = c
      /\ c + 1 = msg.context /\ c \in Nat /\ Frags \in Nat \ {0}
  <2>1. rx \in Seq(Fragment) /\ Len(rx) = Frags /\ c \in Nat /\ Frags \in Nat \ {0}
    BY <1>0, WireAssumption DEF StreamsOK, TypeOK, MsgTypeOK
  <2>2. c + 1 = msg.context /\ ParseOK(msg.io.req, rx)
    BY DEF ContextInv, Live
  <2> QED BY <2>1, <2>2 DEF ParseOK, Intact
<1>2. /\ net.s2c \in Seq(Fragment) /\ srv.out \in Seq(Fragment) /\ tail \in Seq(Fragment)
      /\ Len(tail) \in Nat
  <2>1. net.s2c \in Seq(Fragment) /\ srv.out \in Seq(Fragment)
    BY <1>0 DEF StreamsOK
  <2> QED BY <2>1, ConcatProperties, LenProperties
<1>3. Back = rx \o tail
  <2> DEFINE in == net.s2c
             out == srv.out
  <2>1. Back = (rx \o in) \o out
    BY DEF Back
  <2>2. in \in Seq(Fragment) /\ out \in Seq(Fragment) /\ rx \in Seq(Fragment)
    BY <1>1, <1>2
  <2> HIDE DEF rx, in, out
  <2>3. (rx \o in) \o out = rx \o (in \o out)
    BY <2>2, ConcatAssoc
  <2> QED BY <2>1, <2>3 DEF in, out
<1> HIDE DEF rx, tail
<1>4. /\ Len(Back) = Frags + Len(tail)
      /\ \A i \in 1 .. Frags + Len(tail) : Back[i] = IF i <= Frags THEN rx[i] ELSE tail[i - Frags]
      /\ Back \in Seq(Fragment)
  BY <1>1, <1>2, <1>3, ConcatProperties
<1>5. /\ 1 \in 1 .. Len(Back) /\ Frags \in 1 .. Len(Back)
      /\ Back[1].pkt = p /\ Back[Frags].pkt = p /\ Back[Frags].part = Frags
  <2>1. 1 \in 1 .. Frags /\ Frags \in 1 .. Frags
    BY <1>1
  <2>2. rx[1].pkt = p /\ rx[Frags].pkt = p /\ rx[Frags].part = Frags
    BY <1>1, <2>1 DEF Fragments
  <2>3. 1 \in 1 .. Frags + Len(tail) /\ Frags \in 1 .. Frags + Len(tail)
        /\ 1 <= Frags /\ Frags <= Frags
    BY <1>1, <1>2
  <2>4. Back[1] = rx[1] /\ Back[Frags] = rx[Frags]
    BY <1>4, <2>3
  <2> QED BY <1>4, <2>2, <2>3, <2>4
<1> HIDE DEF p, c
<1>6. Len(tail) = 0
  <2> SUFFICES ASSUME Len(tail) # 0 PROVE FALSE
    OBVIOUS
  <2>1. Frags + 1 \in 1 .. Len(Back) /\ Frags < Frags + 1 /\ (Frags + 1) - Frags = 1
    BY <1>1, <1>2, <1>4
  <2> DEFINE f == Back[Frags]
             g == Back[Frags + 1]
  <2>2. Pos(f) + ((Frags + 1) - Frags) <= Pos(g)
    BY <1>5, <2>1 DEF DrainInv, Ordered, Spaced
  <2>3. f \in Fragment /\ g \in Fragment
    BY <1>4, <1>5, <2>1, ElementOfSeq
  <2>4. g.pkt.context < msg.context
    BY <2>1 DEF DrainInv, Ordered, Older
  <2>5. f.pkt.context = c /\ f.part = Frags
    BY <1>1, <1>5
  <2> HIDE DEF f, g
  <2>6. Pos(f) \in Nat /\ Pos(g) \in Nat /\ g.pkt.context \in Nat
    BY <2>3, FragmentPlace
  <2>7. Pos(f) < Pos(g)
    BY <1>1, <2>2, <2>6
  <2>8. Pos(f) >= f.pkt.context * Frags + Frags
    <3>1. Pos(f) = f.pkt.context * Frags + Frags
      BY <2>5 DEF Pos
    <3> QED BY <2>6, <3>1
  <2>9. f.pkt.context < g.pkt.context
    BY <2>3, <2>7, <2>8, PlaceOrder
  <2> QED BY <1>1, <2>4, <2>5, <2>6, <2>9
<1>7. Ahead \in Seq(Fragment) /\ Len(Ahead) \in Nat
  BY <1>0, LenProperties DEF StreamsOK
<1>8. Len(Ahead) = 0
  <2> SUFFICES ASSUME Len(Ahead) # 0 PROVE FALSE
    OBVIOUS
  <2>1. 1 \in 1 .. Len(Ahead)
    BY <1>7
  <2>2. Back[1].pkt.context < Ahead[1].pkt.context /\ Ahead[1].pkt.context < msg.context
    BY <1>5, <2>1 DEF DrainInv, Ordered, Older
  <2>3. Ahead[1].pkt.context \in Nat
    BY <1>7, <2>1, ElementOfSeq, FragmentPlace
  <2> QED BY <1>1, <1>5, <2>2, <2>3
<1>9. ASSUME NEW s \in Seq(Fragment), NEW t \in Seq(Fragment), Len(s \o t) = 0
      PROVE  s = << >> /\ t = << >>
  <2>1. Len(s \o t) = Len(s) + Len(t) /\ Len(s) \in Nat /\ Len(t) \in Nat
    BY ConcatProperties, LenProperties
  <2>2. Len(s) = 0 /\ Len(t) = 0
    BY <1>9, <2>1
  <2> QED BY <2>2, EmptySeq
<1>10. srv.rx \in Seq(Fragment) /\ net.c2s \in Seq(Fragment)
  BY <1>0 DEF StreamsOK
<1> QED BY <1>2, <1>6, <1>8, <1>9, <1>10 DEF Ahead, tail

(* While the context counter does not wrap, a success leaves the pipe      *)
(* empty, whatever was given up before it and however the bytes of those   *)
(* requests and replies were cut and delayed: the stream cannot be left in *)
(* the middle of a packet when the next request starts.                    *)
THEOREM SuccessDrainsHolds ==
  ASSUME MaxOps + 1 < CtxMod
  PROVE  Spec => []SuccessDrains
<1>1. TypeOK /\ ContextInv /\ [Next]_vars => ContextInv'
  BY ContextNext
<1>2. TypeOK /\ TypeOK' /\ ContextInv /\ DrainInv /\ [Next]_vars => DrainInv'
  BY DrainNext
<1>3. TypeOK /\ ContextInv /\ DrainInv => SuccessDrains
  BY DrainDone DEF SuccessDrains
<1> QED BY <1>1, <1>2, <1>3, ContextInit, DrainInit, TypeCorrect, PTL DEF Spec

=============================================================================
