-------------------------- MODULE ConnectedProofs --------------------------
(***************************************************************************)
(* A connection that is open agrees with the target, whatever exchanges    *)
(* were given up before: proofs about module Connected for every           *)
(* fragmentation, every size of the socket buffers and any number of       *)
(* requests that does not wrap a sender context.                           *)
(***************************************************************************)
EXTENDS Connected, TransportProofs

-----------------------------------------------------------------------------
(* In step.  A fragment is own to the exchange with request req if it is   *)
(* of this request or of an answer to it.                                  *)
Own(req, f) == f.pkt.command = req.command /\ f.pkt.context = req.context

(* s fragments of the request are out, and no answer to it is on the way:  *)
(* what is left of it ends the stream q to the server, after d fragments   *)
(* of older requests; if there are none, the first j of it may be lost.    *)
Lagging(req, s, q, x) ==
  /\ \E d \in 0 .. Len(q), j \in 0 .. s :
       /\ Len(q) = d + (s - j)
       /\ d > 0 => j = 0
       /\ \A i \in 1 .. d : ~Own(req, q[i])
       /\ \A i \in 1 .. s - j : q[d + i] = [pkt |-> req, part |-> j + i]
  /\ \A i \in 1 .. Len(x) : ~Own(req, x[i])

(* The answer r ends the stream x to the client and nothing follows.       *)
Arrived(req, s, q, x, r) ==
  /\ s = Frags /\ q = << >>
  /\ Own(req, [pkt |-> r])
  /\ \E a \in 0 .. Len(x) :
       /\ Len(x) = a + Frags
       /\ \A i \in 1 .. a : ~Own(req, x[i])
       /\ \A i \in 1 .. Frags : x[a + i].pkt = r

(* What the server keeps if it has answered request req by r.              *)
Effect(req, r, kept) ==
  r.status # "encapErr" =>
    /\ req.tag.svc = "ForwardOpen" /\ r.status = "ok" =>
         kept = NoCip \/ (kept.ot = r.tag.ot /\ kept.to = r.tag.to)
    /\ req.tag.svc = "ForwardClose" => ~kept.wanted

(* A new request, of which nothing is out yet.                             *)
LEMMA LagNew ==
  ASSUME NEW req, NEW q \in Seq(Fragment), NEW x \in Seq(Fragment),
         \A i \in 1 .. Len(q) : ~Own(req, q[i]), \A i \in 1 .. Len(x) : ~Own(req, x[i])
  PROVE  Lagging(req, 0, q, x)
<1>1. Len(q) \in 0 .. Len(q) /\ 0 \in 0 .. 0 /\ Len(q) = Len(q) + (0 - 0) /\ 1 .. 0 - 0 = {}
  BY LenProperties
<1> QED BY <1>1 DEF Lagging

LEMMA PieceElement ==
  ASSUME NEW p \in Packet, NEW s \in Nat, NEW n \in Nat, s + n <= Frags, NEW i \in 1 .. n
  PROVE  SubSeq(Fragments(p), s + 1, s + n)[i] = [pkt |-> p, part |-> s + i]
<1>1. Fragments(p) \in Seq(Fragment) /\ Len(Fragments(p)) = Frags /\ Frags \in Nat
  BY FragmentsType, WireAssumption
<1>2. PICK f \in Seq(Fragment) : f = Fragments(p) /\ Len(f) = Frags
  BY <1>1
<1>3. PICK a \in Nat \ {0} : a = s + 1
  OBVIOUS
<1>4. PICK b \in Nat : b = s + n
  OBVIOUS
<1>5. b <= Len(f) /\ a <= b + 1 /\ i \in 1 .. (b - a + 1) /\ a + i - 1 = s + i /\ s + i \in 1 .. Frags
  BY <1>1, <1>2, <1>3, <1>4
<1>6. SubSeq(f, a, b)[i] = f[a + i - 1]
  BY <1>5, SubElement
<1>7. f[s + i] = [pkt |-> p, part |-> s + i]
  BY <1>2, <1>5 DEF Fragments
<1> QED BY <1>2, <1>3, <1>4, <1>5, <1>6, <1>7

(* n more fragments of the request are written.                            *)
LEMMA LagWrite ==
  ASSUME NEW req \in Packet, NEW s \in Nat, NEW n \in Nat, s + n <= Frags,
         NEW q \in Seq(Fragment), NEW x \in Seq(Fragment), Lagging(req, s, q, x)
  PROVE  Lagging(req, s + n, q \o SubSeq(Fragments(req), s + 1, s + n), x)
<1> DEFINE piece == SubSeq(Fragments(req), s + 1, s + n)
           t == q \o piece
<1>1. PICK d \in 0 .. Len(q), j \in 0 .. s :
        /\ Len(q) = d + (s - j)
        /\ d > 0 => j = 0
        /\ \A i \in 1 .. d : ~Own(req, q[i])
        /\ \A i \in 1 .. s - j : q[d + i] = [pkt |-> req, part |-> j + i]
  BY DEF Lagging
<1>2. Fragments(req) \in Seq(Fragment) /\ Len(Fragments(req)) = Frags /\ Frags \in Nat
  BY FragmentsType, WireAssumption
<1>3. piece \in Seq(Fragment) /\ Len(piece) = n
  <2>1. s + 1 \in Nat \ {0} /\ s + n \in Nat /\ s + 1 <= s + n + 1 /\ (s + n) - (s + 1) + 1 = n
    OBVIOUS
  <2> QED BY <1>2, <2>1, SubStream
<1>4. ASSUME NEW i \in 1 .. n PROVE piece[i] = [pkt |-> req, part |-> s + i]
  BY PieceElement
<1> HIDE DEF piece
<1>5. /\ t \in Seq(Fragment) /\ Len(t) = Len(q) + n /\ Len(q) \in Nat
      /\ \A i \in 1 .. Len(q) + n : t[i] = IF i <= Len(q) THEN q[i] ELSE piece[i - Len(q)]
  BY <1>3, ConcatProperties, LenProperties
<1> HIDE DEF t
<1>6. d \in 0 .. Len(t) /\ j \in 0 .. s + n /\ Len(t) = d + ((s + n) - j)
  BY <1>1, <1>5
<1>7. ASSUME NEW i \in 1 .. d PROVE ~Own(req, t[i])
  <2>1. i \in 1 .. Len(q) + n /\ i <= Len(q)
    BY <1>5
  <2> QED BY <1>1, <1>5, <2>1
<1>8. ASSUME NEW i \in 1 .. (s + n) - j PROVE t[d + i] = [pkt |-> req, part |-> j + i]
  <2>1. CASE i <= s - j
    <3>1. d + i \in 1 .. Len(q) + n /\ d + i <= Len(q) /\ i \in 1 .. s - j
      BY <1>1, <1>5, <2>1
    <3> QED BY <1>1, <1>5, <3>1
  <2>2. CASE i > s - j
    <3> DEFINE k == d + i - Len(q)
    <3>1. d + i \in 1 .. Len(q) + n /\ ~(d + i <= Len(q)) /\ k \in 1 .. n /\ s + k = j + i
      BY <1>1, <1>5, <2>2
    <3>2. t[d + i] = piece[k]
      BY <1>5, <3>1
    <3> QED BY <1>4, <3>1, <3>2
  <2> QED BY <2>1, <2>2
<1>9. \A i \in 1 .. Len(x) : ~Own(req, x[i])
  BY DEF Lagging
<1>10. Lagging(req, s + n, t, x)
  BY <1>1, <1>6, <1>7, <1>8, <1>9 DEF Lagging
<1> QED BY <1>10 DEF t, piece

(* The server takes a packet's worth of fragments that begins with one of  *)
(* an older request.                                                       *)
LEMMA LagDrop ==
  ASSUME NEW req, NEW s \in Nat, NEW q \in Seq(Fragment), NEW x, Lagging(req, s, q, x),
         Frags <= Len(q), ~Own(req, q[1]),
         NEW c \in Seq(Fragment), Len(c) + Frags = Len(q),
         \A i \in 1 .. Len(c) : c[i] = q[i + Frags],
         NEW y, \A i \in 1 .. Len(y) : ~Own(req, y[i])
  PROVE  Lagging(req, s, c, y)
<1>1. PICK d \in 0 .. Len(q), j \in 0 .. s :
        /\ Len(q) = d + (s - j)
        /\ d > 0 => j = 0
        /\ \A i \in 1 .. d : ~Own(req, q[i])
        /\ \A i \in 1 .. s - j : q[d + i] = [pkt |-> req, part |-> j + i]
  BY DEF Lagging
<1>2. Frags \in Nat \ {0} /\ Len(q) \in Nat /\ Len(c) \in Nat
  BY WireAssumption, LenProperties
<1>3. d > 0
  <2> SUFFICES ASSUME d = 0 PROVE FALSE
    BY <1>2
  <2>1. 1 \in 1 .. s - j /\ d + 1 = 1
    BY <1>1, <1>2
  <2>2. q[1] = [pkt |-> req, part |-> j + 1]
    BY <1>1, <2>1
  <2> QED BY <2>2 DEF Own
<1>4. CASE d >= Frags
  <2>0. PICK e \in Nat : d = e + Frags
    <3>1. d - Frags \in Nat /\ d = (d - Frags) + Frags
      BY <1>2, <1>4
    <3> QED BY <3>1
  <2>1. e \in 0 .. Len(c) /\ j = 0 /\ j \in 0 .. s /\ Len(c) = e + (s - j)
    BY <1>1, <1>2, <1>3, <2>0
  <2>2. ASSUME NEW i \in 1 .. e PROVE ~Own(req, c[i])
    <3>1. i \in 1 .. Len(c) /\ i + Frags \in 1 .. d
      BY <1>2, <2>0, <2>1
    <3> QED BY <1>1, <3>1
  <2>3. ASSUME NEW i \in 1 .. s - j PROVE c[e + i] = [pkt |-> req, part |-> j + i]
    <3>1. e + i \in 1 .. Len(c) /\ (e + i) + Frags = d + i
      BY <1>2, <2>0, <2>1
    <3>2. c[e + i] = q[d + i]
      BY <3>1
    <3> QED BY <1>1, <3>2
  <2> QED BY <2>1, <2>2, <2>3 DEF Lagging
<1>5. CASE d < Frags
  <2> DEFINE k == Frags - d
  <2>1. /\ k \in 0 .. s /\ 0 \in 0 .. Len(c) /\ Len(c) = 0 + (s - k) /\ j = 0 /\ 1 .. 0 = {}
        /\ ~(0 > 0)
    BY <1>1, <1>2, <1>3, <1>5
  <2>2. ASSUME NEW i \in 1 .. s - k PROVE c[0 + i] = [pkt |-> req, part |-> k + i]
    <3>1. 0 + i \in 1 .. Len(c) /\ (0 + i) + Frags = d + (k + i) /\ k + i \in 1 .. s - j
          /\ j + (k + i) = k + i
      BY <1>2, <2>1
    <3>2. c[0 + i] = q[d + (k + i)]
      BY <3>1
    <3> QED BY <1>1, <3>1, <3>2
  <2> HIDE DEF k
  <2> QED BY <2>1, <2>2 DEF Lagging
<1> QED BY <1>2, <1>4, <1>5

(* The server completes the request itself: nothing else is on the way to  *)
(* it.                                                                     *)
LEMMA LagDone ==
  ASSUME NEW req \in Packet, NEW s \in Nat, s <= Frags, NEW q \in Seq(Fragment), NEW x,
         Lagging(req, s, q, x), Frags <= Len(q), Own(req, q[1])
  PROVE  s = Frags /\ Len(q) = Frags /\ q = Fragments(req)
<1>1. PICK d \in 0 .. Len(q), j \in 0 .. s :
        /\ Len(q) = d + (s - j)
        /\ d > 0 => j = 0
        /\ \A i \in 1 .. d : ~Own(req, q[i])
        /\ \A i \in 1 .. s - j : q[d + i] = [pkt |-> req, part |-> j + i]
  BY DEF Lagging
<1>2. Frags \in Nat \ {0} /\ Len(q) \in Nat
  BY WireAssumption, LenProperties
<1>3. d = 0
  <2>1. ~(1 \in 1 .. d)
    BY <1>1
  <2> QED BY <1>2, <2>1
<1>4. j = 0 /\ s = Frags /\ Len(q) = Frags
  BY <1>1, <1>2, <1>3
<1>5. ASSUME NEW i \in 1 .. Frags PROVE q[i] = Fragments(req)[i]
  <2>1. i \in 1 .. s - j /\ d + i = i /\ j + i = i
    BY <1>2, <1>3, <1>4
  <2> QED BY <1>1, <2>1 DEF Fragments
<1>6. Fragments(req) \in Seq(Fragment) /\ Len(Fragments(req)) = Frags
  BY FragmentsType
<1>7. q = Fragments(req)
  BY <1>4, <1>5, <1>6, SeqEqual
<1> QED BY <1>4, <1>7

(* The request is lost or dropped at the server.                           *)
LEMMA LagLost ==
  ASSUME NEW req, NEW x, \A i \in 1 .. Len(x) : ~Own(req, x[i])
  PROVE  Lagging(req, Frags, << >>, x)
<1>1. /\ 0 \in 0 .. Len(<< >>) /\ Frags \in 0 .. Frags /\ Len(<< >>) = 0 + (Frags - Frags)
      /\ 1 .. 0 = {} /\ 1 .. Frags - Frags = {} /\ ~(0 > 0)
  BY WireAssumption
<1> QED BY <1>1 DEF Lagging

(* The client has a full receive buffer that begins with an own fragment:  *)
(* it is the answer, and nothing is left on the way.                       *)
Settled(q, y, rx, r) == q = << >> /\ y = << >> /\ rx[1].pkt = r

LEMMA ReadDone ==
  ASSUME NEW req \in Packet, NEW s \in 0 .. Frags, NEW q \in Seq(Fragment),
         NEW rx \in Seq(Fragment), NEW y \in Seq(Fragment), NEW x \in Seq(Fragment),
         x = rx \o y, Len(rx) = Frags, Own(req, rx[1])
  PROVE  /\ ~Lagging(req, s, q, x)
         /\ \A r : Arrived(req, s, q, x, r) => Settled(q, y, rx, r)
<1>1. Frags \in Nat \ {0} /\ Len(y) \in Nat
  BY WireAssumption, LenProperties
<1>2. x \in Seq(Fragment) /\ Len(x) = Frags + Len(y) /\ x[1] = rx[1]
  <2>1. 1 \in 1 .. Len(rx) + Len(y) /\ 1 <= Len(rx)
    BY <1>1
  <2>2. /\ x \in Seq(Fragment) /\ Len(x) = Len(rx) + Len(y)
        /\ \A i \in 1 .. Len(rx) + Len(y) : x[i] = IF i <= Len(rx) THEN rx[i] ELSE y[i - Len(rx)]
    BY ConcatProperties
  <2> QED BY <2>1, <2>2
<1>3. ~Lagging(req, s, q, x)
  <2>1. 1 \in 1 .. Len(x)
    BY <1>1, <1>2
  <2> QED BY <1>2, <2>1 DEF Lagging
<1>4. ASSUME NEW r, Arrived(req, s, q, x, r) PROVE q = << >> /\ y = << >> /\ rx[1].pkt = r
  <2>1. PICK a \in 0 .. Len(x) : /\ Len(x) = a + Frags
                                 /\ \A i \in 1 .. a : ~Own(req, x[i])
                                 /\ \A i \in 1 .. Frags : x[a + i].pkt = r
    BY <1>4 DEF Arrived
  <2>2. a = 0
    <3>1. ~(1 \in 1 .. a)
      BY <1>2, <2>1
    <3> QED BY <1>1, <1>2, <3>1
  <2>3. Len(y) = 0
    BY <1>1, <1>2, <2>1, <2>2
  <2>4. x[1].pkt = r
    <3>1. 1 \in 1 .. Frags /\ a + 1 = 1
      BY <1>1, <2>2
    <3> QED BY <2>1, <3>1
  <2>5. y = << >>
    BY <2>3, EmptySeq
  <2> QED BY <1>2, <1>4, <2>4, <2>5 DEF Arrived
<1> QED BY <1>3, <1>4 DEF Settled

(* The answer r is put behind what is on the way to the client.            *)
LEMMA AnswerArrives ==
  ASSUME NEW req, NEW x \in Seq(Fragment), \A i \in 1 .. Len(x) : ~Own(req, x[i]),
         NEW r \in Packet, r.command = req.command, r.context = req.context
  PROVE  /\ Arrived(req, Frags, << >>, x \o Fragments(r), r)
         /\ r \in Pkts(x \o Fragments(r))
<1> DEFINE t == x \o Fragments(r)
<1>1. Frags \in Nat \ {0} /\ Len(x) \in Nat
  BY WireAssumption, LenProperties
<1>2. /\ Fragments(r) \in Seq(Fragment) /\ Len(Fragments(r)) = Frags
      /\ \A i \in 1 .. Frags : Fragments(r)[i].pkt = r
  BY FragmentsType DEF Fragments
<1>3. /\ t \in Seq(Fragment) /\ Len(t) = Len(x) + Frags
      /\ \A i \in 1 .. Len(x) + Frags : t[i] = IF i <= Len(x) THEN x[i] ELSE Fragments(r)[i - Len(x)]
  BY <1>2, ConcatProperties
<1> HIDE DEF t
<1>4. Len(x) \in 0 .. Len(t)
  BY <1>1, <1>3
<1>5. ASSUME NEW i \in 1 .. Len(x) PROVE ~Own(req, t[i])
  <2>1. i \in 1 .. Len(x) + Frags /\ i <= Len(x)
    BY <1>1
  <2> QED BY <1>3, <2>1
<1>6. ASSUME NEW i \in 1 .. Frags PROVE t[Len(x) + i].pkt = r /\ Len(x) + i \in 1 .. Len(t)
  <2>1. Len(x) + i \in 1 .. Len(x) + Frags /\ ~(Len(x) + i <= Len(x)) /\ (Len(x) + i) - Len(x) = i
    BY <1>1
  <2> QED BY <1>2, <1>3, <2>1
<1>7. Own(req, [pkt |-> r])
  BY DEF Own
<1>8. Arrived(req, Frags, << >>, t, r)
  BY <1>3, <1>4, <1>5, <1>6, <1>7 DEF Arrived
<1>9. r \in Pkts(t)
  <2>1. 1 \in 1 .. Frags
    BY <1>1
  <2> QED BY <1>6, <2>1 DEF Pkts
<1> QED BY <1>8, <1>9 DEF t

(* A foreign answer.                                                       *)
LEMMA ForeignAnswer ==
  ASSUME NEW req, NEW x \in Seq(Fragment), \A i \in 1 .. Len(x) : ~Own(req, x[i]),
         NEW r \in Packet, ~(r.command = req.command /\ r.context = req.context)
  PROVE  \A i \in 1 .. Len(x \o Fragments(r)) : ~Own(req, (x \o Fragments(r))[i])
<1> DEFINE t == x \o Fragments(r)
<1>1. Frags \in Nat \ {0} /\ Len(x) \in Nat
  BY WireAssumption, LenProperties
<1>2. /\ Fragments(r) \in Seq(Fragment) /\ Len(Fragments(r)) = Frags
      /\ \A i \in 1 .. Frags : Fragments(r)[i].pkt = r
  BY FragmentsType DEF Fragments
<1>3. /\ Len(t) = Len(x) + Frags
      /\ \A i \in 1 .. Len(x) + Frags : t[i] = IF i <= Len(x) THEN x[i] ELSE Fragments(r)[i - Len(x)]
  BY <1>2, ConcatProperties
<1> HIDE DEF t
<1>4. ASSUME NEW i \in 1 .. Len(t) PROVE ~Own(req, t[i])
  <2>1. CASE i <= Len(x)
    BY <1>1, <1>3, <2>1
  <2>2. CASE ~(i <= Len(x))
    <3>1. i - Len(x) \in 1 .. Frags
      BY <1>1, <1>3, <2>2
    <3> QED BY <1>2, <1>3, <2>2, <3>1 DEF Own
  <2> QED BY <2>1, <2>2
<1> QED BY <1>4 DEF t

InStep(io) ==
  net.sock = "up" =>
    \/ Lagging(io.req, io.sent, ToServer, ToClient(io))
    \/ \E r \in Pkts(ToClient(io)) :
         Arrived(io.req, io.sent, ToServer, ToClient(io), r) /\ Effect(io.req, r, cip)

-----------------------------------------------------------------------------
(* The inductive invariant.                                                *)

(* What is on the way was sent by this object or answers it, and is older  *)
(* than the next request of its kind.                                      *)
Ours(p) ==
  /\ p.command \in {"SendRRData", "SendUnitData"}
  /\ p.tag \in Payload
  /\ p.context < IF p.command = "SendRRData" THEN msg.context ELSE conn.context

WayInv ==
  /\ \A p \in OnTheWay \cup Pkts(msg.io.rx) : Ours(p)
  /\ net.sock \in {"up", "fin", "reset"}
  /\ net.sock = "up" => tcp.fd /\ tcp.state = "Ok"

(* fwd_ while it has a request in flight.                                  *)
ForwardInv ==
  MsgBusy =>
    /\ msg.io.req.command = "SendRRData" /\ msg.io.req.context + 1 = msg.context
    /\ msg.io.req.tag = IF conn.state = "Opening" THEN OpenBody(conn.ot) ELSE CloseBody
    /\ InStep(msg.io)

(* A data exchange: nothing but its request goes to the server.            *)
SendInv ==
  conn.state = "Sending" =>
    /\ conn.io.req.command = "SendUnitData" /\ conn.io.req.context + 1 = conn.context
    /\ conn.io.req.tag \in Payload /\ conn.io.req.tag.svc = "Data"
    /\ InStep(conn.io)
    /\ net.sock = "up" => Inbound \subseteq {conn.io.req}

(* Between exchanges of an open connection, and after a close.             *)
RestInv == conn.state \in {"Open", "Closed"} /\ net.sock = "up" => Drained

ConnInv ==
  /\ TypeOK /\ OneExchange
  /\ WayInv /\ ForwardInv /\ SendInv /\ RestInv
  /\ IdsAgree /\ ClosedWasAsked

-----------------------------------------------------------------------------
(* The server.                                                             *)

LEMMA SubPayload == Payload \subseteq Names
  BY ConnectionAssumption

Ids == [ot : ConnIds \cup {0}, to : ConnIds \cup {0}, wanted : BOOLEAN]

LEMMA CipFacts ==
  ASSUME TargetTypeOK
  PROVE  /\ cip \in Ids /\ NoCip \in Ids /\ Unwanted \in Ids
         /\ Unwanted.ot = cip.ot /\ Unwanted.to = cip.to /\ ~Unwanted.wanted
         /\ cip = NoCip => Unwanted = NoCip
         /\ NoCip.ot = 0 /\ NoCip.to = 0 /\ ~NoCip.wanted
<1>1. cip \in Ids
  BY DEF TargetTypeOK, Ids
<1>2. NoCip \in Ids /\ NoCip.ot = 0 /\ NoCip.to = 0 /\ ~NoCip.wanted
  BY DEF NoCip, Ids
<1>3. Unwanted \in Ids /\ Unwanted.ot = cip.ot /\ Unwanted.to = cip.to /\ ~Unwanted.wanted
  BY <1>1 DEF Unwanted, Ids
<1>4. cip = NoCip => Unwanted = NoCip
  BY DEF Unwanted, NoCip
<1> QED BY <1>1, <1>2, <1>3, <1>4

(* Reply r to packet p, with status and body replaced.                     *)
Answer(p, status, body) == [p EXCEPT !.status = status, !.tag = body]

AnswerOK(p, a) ==
  /\ a.cip \in Ids
  /\ a.cip \in {cip, NoCip, Unwanted} \/ p.tag.svc = "ForwardOpen"
  /\ \/ a.out = << >>
     \/ \E r \in Packet :
          /\ a.out = Fragments(r)
          /\ r.command = p.command /\ r.context = p.context /\ r.tag \in Payload
          /\ Effect(p, r, a.cip)

LEMMA AnswerShape ==
  ASSUME NEW p \in Packet, NEW status \in {"ok", "empty", "encapErr", "cipErr"},
         NEW body \in Payload, NEW kept \in Ids,
         kept \in {cip, NoCip, Unwanted} \/ p.tag.svc = "ForwardOpen",
         Effect(p, Answer(p, status, body), kept)
  PROVE  AnswerOK(p, Say(p, kept, status, body))
<1> DEFINE r == Answer(p, status, body)
<1>1. r \in Packet /\ r.command = p.command /\ r.context = p.context /\ r.tag \in Payload
  BY SubPayload DEF Packet, Answer
<1> HIDE DEF r
<1>2. Effect(p, r, kept)
  BY DEF r
<1>3. AnswerOK(p, [cip |-> kept, out |-> Fragments(r)])
  BY <1>1, <1>2 DEF AnswerOK
<1> QED BY <1>3 DEF r, Say, Answer

(* The answers to a CIP request.                                           *)
LEMMA TargetAnswers ==
  ASSUME TargetTypeOK, NEW p \in Packet, p.tag \in Payload, NEW a \in ConnAnswers(p)
  PROVE  AnswerOK(p, a)
<1>0. /\ p.tag.svc \in {"ForwardOpen", "ForwardClose", "Data"}
      /\ p.tag.ot \in ConnIds \cup {0} /\ cip \in Ids
      /\ cip.ot \in ConnIds \cup {0} /\ cip.to \in ConnIds \cup {0}
  BY CipFacts DEF Payload, Ids
<1>1. CASE a = Silent
  BY <1>0, <1>1 DEF AnswerOK, Silent
<1>2. CASE a = Say(p, cip, "encapErr", p.tag)
  <2>1. Effect(p, Answer(p, "encapErr", p.tag), cip)
    BY DEF Effect, Packet, Answer
  <2> QED BY <1>0, <1>2, <2>1, AnswerShape
<1>3. ASSUME p.tag.svc = "ForwardOpen", NEW to \in ConnIds,
             a = Opened(p, to)
      PROVE  AnswerOK(p, a)
  <2> DEFINE body == [p.tag EXCEPT !.to = to]
             kept == [ot |-> p.tag.ot, to |-> to, wanted |-> TRUE]
  <2>1. body \in Payload /\ body.ot = p.tag.ot /\ body.to = to
    BY DEF Payload
  <2>2. kept \in Ids /\ kept.ot = p.tag.ot /\ kept.to = to
    BY <1>0 DEF Ids
  <2> HIDE DEF body, kept
  <2>3. Answer(p, "ok", body).tag = body
    BY <2>1, SubPayload DEF Packet, Answer
  <2>4. Effect(p, Answer(p, "ok", body), kept)
    BY <1>3, <2>1, <2>2, <2>3 DEF Effect
  <2>5. a = Say(p, kept, "ok", body)
    BY <1>3 DEF kept, body, Opened
  <2> QED BY <1>3, <2>1, <2>2, <2>4, <2>5, AnswerShape
<1>4. ASSUME p.tag.svc = "ForwardOpen", NEW st \in {"cipErr", "empty"}, a = Say(p, cip, st, p.tag)
      PROVE  AnswerOK(p, a)
  <2>1. st \in {"ok", "empty", "encapErr", "cipErr"} /\ st # "ok"
    OBVIOUS
  <2>2. Answer(p, st, p.tag).status = st
    BY <2>1 DEF Packet, Answer
  <2>3. Effect(p, Answer(p, st, p.tag), cip)
    BY <1>4, <2>1, <2>2 DEF Effect
  <2> QED BY <1>0, <1>4, <2>1, <2>3, AnswerShape
<1>5. ASSUME p.tag.svc = "ForwardClose", NEW kept \in {NoCip, Unwanted}, NEW st \in {"ok", "cipErr"},
             a = Say(p, kept, st, p.tag)
      PROVE  AnswerOK(p, a)
  <2>1. kept \in Ids /\ ~kept.wanted /\ kept \in {cip, NoCip, Unwanted}
    BY CipFacts
  <2>2. st \in {"ok", "empty", "encapErr", "cipErr"}
    OBVIOUS
  <2>3. Effect(p, Answer(p, st, p.tag), kept)
    BY <1>5, <2>1 DEF Effect
  <2> QED BY <1>5, <2>1, <2>2, <2>3, AnswerShape
<1>6. ASSUME p.tag.svc = "Data", NEW st \in {"ok", "cipErr"},
             a = Say(p, cip, st, [p.tag EXCEPT !.ot = 0, !.to = cip.to])
      PROVE  AnswerOK(p, a)
  <2> DEFINE body == [p.tag EXCEPT !.ot = 0, !.to = cip.to]
  <2>1. body \in Payload
    BY <1>0 DEF Payload
  <2> HIDE DEF body
  <2>2. st \in {"ok", "empty", "encapErr", "cipErr"}
    OBVIOUS
  <2>3. Effect(p, Answer(p, st, body), cip)
    BY <1>6 DEF Effect
  <2>4. a = Say(p, cip, st, body)
    BY <1>6 DEF body
  <2> QED BY <1>0, <2>1, <2>2, <2>3, <2>4, AnswerShape
<1>7. CASE p.tag.svc = "ForwardOpen"
  <2>1. \/ a = Silent
        \/ a = Say(p, cip, "encapErr", p.tag)
        \/ \E to \in ConnIds :
             a = Opened(p, to)
        \/ \E st \in {"cipErr", "empty"} : a = Say(p, cip, st, p.tag)
    BY <1>7 DEF ConnAnswers, Served
  <2> QED BY <1>1, <1>2, <1>3, <1>4, <1>7, <2>1
<1>8. CASE p.tag.svc = "ForwardClose"
  <2>1. \/ a = Silent
        \/ a = Say(p, cip, "encapErr", p.tag)
        \/ \E kept \in {NoCip, Unwanted}, st \in {"ok", "cipErr"} : a = Say(p, kept, st, p.tag)
    BY <1>8 DEF ConnAnswers, Served, Unwanted
  <2> QED BY <1>1, <1>2, <1>5, <1>8, <2>1
<1>9. CASE p.tag.svc = "Data"
  <2>1. \/ a = Silent
        \/ a = Say(p, cip, "encapErr", p.tag)
        \/ \E st \in {"ok", "cipErr"} : a = Say(p, cip, st, [p.tag EXCEPT !.ot = 0, !.to = cip.to])
    BY <1>9 DEF ConnAnswers, Served
  <2> QED BY <1>1, <1>2, <1>6, <1>9, <2>1
<1> QED BY <1>0, <1>7, <1>8, <1>9

(* What a fragment that reaches the server does.                           *)
LEMMA TargetReceiveCases ==
  ASSUME TransportTypeOK, PlcTypeOK, TargetTypeOK, WayInv, TargetReceive
  PROVE  LET rx == Append(srv.rx, Head(net.c2s))
         IN  /\ net.sock = "up" /\ net.c2s # << >> /\ srv.out = << >> /\ tcp' = tcp
             /\ net' = [net EXCEPT !.c2s = Tail(net.c2s)]
             /\ PlcTypeOK' /\ TargetTypeOK'
             /\ \/ /\ Len(rx) < Frags /\ srv'.rx = rx /\ srv'.out = << >>
                   /\ cip' = cip
                \/ /\ Len(rx) = Frags /\ srv'.rx = << >>
                   /\ cip' \in {cip, NoCip, Unwanted} \/ rx[1].pkt.tag.svc = "ForwardOpen"
                   /\ \/ srv'.out = << >>
                      \/ \E r \in Packet :
                           /\ srv'.out = Fragments(r)
                           /\ r.command = rx[1].pkt.command /\ r.context = rx[1].pkt.context
                           /\ r.tag \in Payload
                           /\ Effect(rx[1].pkt, r, cip')
<1> DEFINE rx == Append(srv.rx, Head(net.c2s))
           p == rx[1].pkt
           request == /\ Len(rx) = Frags /\ Intact(rx)
                      /\ p.command \in {"SendRRData", "SendUnitData"}
<1>1. /\ net.c2s \in Seq(Fragment) /\ srv.rx \in Seq(Fragment) /\ Frags \in Nat \ {0}
      /\ cip \in Ids
  BY CipFacts, StreamType, WireAssumption DEF TransportTypeOK, PlcTypeOK, TargetTypeOK
<1>3. net.sock = "up" /\ net.c2s # << >> /\ srv.out = << >> /\ tcp' = tcp
      /\ net' = [net EXCEPT !.c2s = Tail(net.c2s)]
  BY DEF TargetReceive, PlcReceive
<1>4. \/ ~request /\ PlcReceive /\ cip' = cip
      \/ /\ request
         /\ \E a \in ConnAnswers(p) :
              /\ srv' = [srv EXCEPT !.rx = << >>, !.out = a.out]
              /\ cip' = a.cip
  BY <1>3 DEF TargetReceive
<1>5. rx \in Seq(Fragment) /\ Len(rx) \in Nat
  <2>1. Head(net.c2s) \in Fragment
    BY <1>1, <1>3, HeadTailProperties
  <2> QED BY <1>1, <2>1, AppendProperties, LenProperties
<1>6. Len(rx) = Frags => p \in Inbound
  <2>1. Pkts(rx) \subseteq Inbound
    <3>1. Head(net.c2s) \in Fragment
      BY <1>1, <1>3, HeadTailProperties
    <3>2. Head(net.c2s).pkt \in Pkts(net.c2s)
      BY <1>1, <1>3, PktsTail
    <3> QED BY <1>1, <3>1, <3>2, PktsAppend DEF Inbound
  <2> HIDE DEF rx
  <2>2. Len(rx) = Frags => rx \in Stream(Frags)
    BY <1>1, <1>5 DEF Stream
  <2> QED BY <2>1, <2>2, PktsHead
<1> HIDE DEF rx
<1>7. Len(rx) = Frags => /\ p \in Packet /\ p.tag \in Payload
                         /\ p.command \in {"SendRRData", "SendUnitData"}
  BY <1>6, OnTheWayType DEF WayInv, Ours, OnTheWay
<1>8. << >> \in Stream(Frags) /\ \A r \in Packet : Fragments(r) \in Stream(Frags)
  BY <1>1, FragmentsType, EmptyStream DEF Stream
<1>9. CASE ~request /\ PlcReceive /\ cip' = cip
  <2>1. cip' = cip
    BY <1>9
  <2>2. TargetTypeOK'
    BY <2>1 DEF TargetTypeOK
  <2>3. PlcTypeOK'
    BY <1>9, PlcNextType DEF PlcNext
  <2>4. \/ Len(rx) < Frags /\ srv' = [srv EXCEPT !.rx = rx]
        \/ Len(rx) = Frags /\ srv' = [srv EXCEPT !.rx = << >>]
        \/ /\ Len(rx) = Frags
           /\ srv' = [srv EXCEPT !.rx = << >>, !.out = Fragments(Reply(p, 0, "encapErr"))]
    BY <1>7, <1>9 DEF PlcReceive, rx
  <2>5. CASE Len(rx) < Frags /\ srv' = [srv EXCEPT !.rx = rx]
    <3>1. srv'.rx = rx /\ srv'.out = << >>
      BY <1>3, <2>5 DEF PlcTypeOK
    <3> QED BY <1>3, <2>1, <2>2, <2>3, <2>5, <3>1 DEF rx
  <2>6. CASE Len(rx) = Frags /\ srv'.rx = << >> /\ srv'.out = << >>
    BY <1>3, <2>1, <2>2, <2>3, <2>6 DEF rx
  <2>7. CASE Len(rx) = Frags /\ srv'.rx = << >> /\ srv'.out = Fragments(Reply(p, 0, "encapErr"))
    <3> DEFINE r == Reply(p, 0, "encapErr")
    <3>1. /\ r \in Packet /\ r.status = "encapErr"
          /\ r.command = p.command /\ r.context = p.context /\ r.tag = p.tag
      BY <1>7, <2>7, RefusalKeeps
    <3>2. srv'.out = Fragments(r)
      BY <2>7
    <3> HIDE DEF r
    <3>3. Effect(p, r, cip') /\ r.tag \in Payload
      BY <1>7, <2>7, <3>1 DEF Effect
    <3> QED BY <1>3, <2>1, <2>2, <2>3, <2>7, <3>1, <3>2, <3>3 DEF rx
  <2>8. CASE Len(rx) = Frags /\ srv' = [srv EXCEPT !.rx = << >>]
    <3>1. srv'.rx = << >> /\ srv'.out = << >>
      BY <1>3, <2>8 DEF PlcTypeOK
    <3> QED BY <2>6, <2>8, <3>1
  <2>9. CASE /\ Len(rx) = Frags
             /\ srv' = [srv EXCEPT !.rx = << >>, !.out = Fragments(Reply(p, 0, "encapErr"))]
    <3>1. srv'.rx = << >> /\ srv'.out = Fragments(Reply(p, 0, "encapErr"))
      BY <2>9 DEF PlcTypeOK
    <3> QED BY <2>7, <2>9, <3>1
  <2> QED BY <2>4, <2>5, <2>7, <2>8, <2>9
<1>10. ASSUME request, NEW a \in ConnAnswers(p),
              srv' = [srv EXCEPT !.rx = << >>, !.out = a.out], cip' = a.cip
       PROVE  /\ PlcTypeOK' /\ TargetTypeOK'
              /\ Len(rx) = Frags /\ srv'.rx = << >>
              /\ cip' \in {cip, NoCip, Unwanted} \/ p.tag.svc = "ForwardOpen"
              /\ \/ srv'.out = << >>
                 \/ \E r \in Packet :
                      /\ srv'.out = Fragments(r)
                      /\ r.command = p.command /\ r.context = p.context
                      /\ r.tag \in Payload
                      /\ Effect(p, r, cip')
  <2>1. /\ a.cip \in Ids
        /\ a.cip \in {cip, NoCip, Unwanted} \/ p.tag.svc = "ForwardOpen"
        /\ \/ a.out = << >>
           \/ \E r \in Packet :
                /\ a.out = Fragments(r)
                /\ r.command = p.command /\ r.context = p.context /\ r.tag \in Payload
                /\ Effect(p, r, a.cip)
    BY <1>7, <1>10, TargetAnswers DEF AnswerOK
  <2>2. srv'.rx = << >> /\ srv'.out = a.out /\ srv'.reg = srv.reg
        /\ srv' = [reg |-> srv.reg, rx |-> << >>, out |-> a.out]
    BY <1>10 DEF PlcTypeOK
  <2>3. a.out \in Stream(Frags)
    BY <1>8, <2>1
  <2>4. PlcTypeOK'
    BY <1>8, <2>2, <2>3 DEF PlcTypeOK
  <2>5. TargetTypeOK'
    BY <1>10, <2>1 DEF TargetTypeOK, Ids
  <2> QED BY <1>10, <2>1, <2>2, <2>4, <2>5
<1>11. CASE request /\ \E a \in ConnAnswers(p) :
              /\ srv' = [srv EXCEPT !.rx = << >>, !.out = a.out]
              /\ cip' = a.cip
  BY <1>3, <1>10, <1>11 DEF rx
<1> QED BY <1>4, <1>9, <1>11

(* The first packet's worth of fragments leaves a stream.                  *)
LEMMA TakePacket ==
  ASSUME NEW rx \in Seq(Fragment), NEW c \in Seq(Fragment), Len(rx) = Frags
  PROVE  /\ Len(c) + Frags = Len(rx \o c)
         /\ \A i \in 1 .. Len(c) : c[i] = (rx \o c)[i + Frags]
         /\ (rx \o c)[1] = rx[1]
         /\ rx \o c \in Seq(Fragment) /\ Frags <= Len(rx \o c)
<1> DEFINE q == rx \o c
<1>1. Frags \in Nat \ {0} /\ Len(c) \in Nat
  BY WireAssumption, LenProperties
<1>2. /\ q \in Seq(Fragment) /\ Len(q) = Frags + Len(c)
      /\ \A i \in 1 .. Frags + Len(c) : q[i] = IF i <= Frags THEN rx[i] ELSE c[i - Frags]
  BY ConcatProperties
<1> HIDE DEF q
<1>3. ASSUME NEW i \in 1 .. Len(c) PROVE c[i] = q[i + Frags]
  <2>1. i + Frags \in 1 .. Frags + Len(c) /\ ~(i + Frags <= Frags) /\ (i + Frags) - Frags = i
    BY <1>1
  <2> QED BY <1>2, <2>1
<1>4. q[1] = rx[1] /\ Len(c) + Frags = Len(q) /\ Frags <= Len(q)
  <2>1. 1 \in 1 .. Frags + Len(c) /\ 1 <= Frags
    BY <1>1
  <2> QED BY <1>1, <1>2, <2>1
<1> QED BY <1>2, <1>3, <1>4 DEF q

(* A full buffer of fragments to the server is answered or dropped: the    *)
(* exchange stays in step.                                                 *)
LEMMA ReceiveInStep ==
  ASSUME TransportTypeOK, PlcTypeOK, TargetTypeOK, WayInv, NEW io \in Io, InStep(io),
         TargetReceive
  PROVE  InStep(io)'
<1> DEFINE rx == Append(srv.rx, Head(net.c2s))
           rest == Tail(net.c2s)
           req == io.req
<1>1. /\ net.c2s \in Seq(Fragment) /\ net.s2c \in Seq(Fragment) /\ srv.rx \in Seq(Fragment)
      /\ srv.out \in Seq(Fragment) /\ io.rx \in Seq(Fragment)
      /\ req \in Packet /\ io.sent \in Nat /\ io.sent <= Frags /\ Frags \in Nat \ {0}
      /\ ToServer \in Seq(Fragment) /\ ToClient(io) \in Seq(Fragment)
  BY WayTypes
<1>2. /\ net.sock = "up" /\ net.c2s # << >> /\ srv.out = << >>
      /\ net'.c2s = rest /\ net'.s2c = net.s2c
      /\ \/ Len(rx) < Frags /\ srv'.rx = rx /\ srv'.out = << >>
         \/ /\ Len(rx) = Frags /\ srv'.rx = << >>
            /\ \/ srv'.out = << >>
               \/ \E r \in Packet :
                    /\ srv'.out = Fragments(r)
                    /\ r.command = rx[1].pkt.command /\ r.context = rx[1].pkt.context
                    /\ Effect(rx[1].pkt, r, cip')
  BY TargetReceiveCases DEF TransportTypeOK
<1>3. ToServer = rx \o rest /\ rx \in Seq(Fragment) /\ rest \in Seq(Fragment) /\ Len(rest) \in Nat
  <2>1. Head(net.c2s) \in Fragment /\ rest \in Seq(Fragment)
    BY <1>1, <1>2, HeadTailProperties
  <2>2. ToServer = rx \o rest
    BY <1>1, <1>2, MoveOne DEF ToServer
  <2> QED BY <1>1, <2>1, <2>2, AppendProperties, LenProperties
<1> HIDE DEF rx, rest
<1>4. ToClient(io) = io.rx \o net.s2c
  <2>1. net.s2c \o << >> = net.s2c
    BY <1>1, ConcatEmptySeq
  <2> QED BY <1>2, <2>1 DEF ToClient
<1>5. \A r : ToServer # << >> /\ ~Arrived(req, io.sent, ToServer, ToClient(io), r)
  <2>1. Len(net.c2s) > 0
    BY <1>1, <1>2, EmptySeq, LenProperties
  <2>2. Len(ToServer) = Len(srv.rx) + Len(net.c2s)
    BY <1>1, ConcatStream DEF ToServer
  <2>3. PICK m \in Nat, n \in Nat : m = Len(srv.rx) /\ n = Len(net.c2s)
    BY <1>1, LenProperties
  <2>4. m + n # 0
    <3>1. n > 0
      BY <2>1, <2>3
    <3>2. m \in Nat /\ n \in Nat
      OBVIOUS
    <3> QED BY <3>1, <3>2
  <2>5. Len(ToServer) = m + n
    BY <2>2, <2>3
  <2>6. ToServer # << >>
    BY <2>4, <2>5
  <2> QED BY <2>6 DEF Arrived
<1>6. Lagging(req, io.sent, ToServer, ToClient(io))
  BY <1>2, <1>5 DEF InStep
<1>7. \A i \in 1 .. Len(ToClient(io)) : ~Own(req, ToClient(io)[i])
  BY <1>6 DEF Lagging
<1>8. CASE Len(rx) < Frags /\ srv'.rx = rx /\ srv'.out = << >>
  <2>1. ToServer' = ToServer /\ ToClient(io)' = ToClient(io)
    BY <1>2, <1>3, <1>8 DEF ToServer, ToClient
  <2>2. Lagging(req, io.sent, ToServer', ToClient(io)')
    BY <1>6, <2>1
  <2> QED BY <2>2 DEF InStep
<1>9. CASE Len(rx) = Frags /\ srv'.rx = << >>
  <2>1. ToServer' = rest
    BY <1>2, <1>3, <1>9, EmptyConcat DEF ToServer
  <2>2. /\ Len(rest) + Frags = Len(ToServer)
        /\ \A i \in 1 .. Len(rest) : rest[i] = ToServer[i + Frags]
        /\ ToServer[1] = rx[1] /\ Frags <= Len(ToServer)
    BY <1>3, <1>9, TakePacket
  <2>3. srv'.out = << >> => ToClient(io)' = ToClient(io)
    BY <1>2 DEF ToClient
  <2>4. ASSUME NEW r \in Packet, srv'.out = Fragments(r)
        PROVE  ToClient(io)' = ToClient(io) \o Fragments(r)
    <3>1. PICK f \in Seq(Fragment) : f = Fragments(r)
      BY FragmentsType
    <3>2. io.rx \o (net.s2c \o f) = (io.rx \o net.s2c) \o f
      <4>1. PICK s \in Seq(Fragment), t \in Seq(Fragment) : s = io.rx /\ t = net.s2c
        BY <1>1
      <4>2. s \o (t \o f) = (s \o t) \o f
        BY ConcatAssoc
      <4> QED BY <4>1, <4>2
    <3> QED BY <1>2, <1>4, <2>4, <3>1, <3>2 DEF ToClient
  <2>5. CASE ~Own(req, ToServer[1])
    <3>1. \A i \in 1 .. Len(ToClient(io)') : ~Own(req, ToClient(io)'[i])
      <4>1. CASE srv'.out = << >>
        BY <1>7, <2>3, <4>1
      <4>2. ASSUME NEW r \in Packet, srv'.out = Fragments(r),
                   r.command = rx[1].pkt.command, r.context = rx[1].pkt.context
            PROVE  \A i \in 1 .. Len(ToClient(io)') : ~Own(req, ToClient(io)'[i])
        <5>1. ~(r.command = req.command /\ r.context = req.context)
          BY <2>2, <2>5, <4>2 DEF Own
        <5> QED BY <1>1, <1>7, <2>4, <4>2, <5>1, ForeignAnswer
      <4> QED BY <1>2, <1>9, <4>1, <4>2
    <3>2. Lagging(req, io.sent, rest, ToClient(io)')
      BY <1>1, <1>3, <1>6, <2>2, <2>5, <3>1, LagDrop
    <3> QED BY <2>1, <3>2 DEF InStep
  <2>6. CASE Own(req, ToServer[1])
    <3>1. io.sent = Frags /\ Len(ToServer) = Frags /\ ToServer = Fragments(req)
      BY <1>1, <1>6, <2>2, <2>6, LagDone
    <3>2. rest = << >>
      <4>1. Len(rest) = 0
        BY <1>1, <1>3, <2>2, <3>1
      <4> QED BY <1>3, <4>1, EmptySeq
    <3>3. rx[1].pkt = req
      <4>1. Fragments(req)[1].pkt = req
        BY <1>1 DEF Fragments
      <4> QED BY <2>2, <3>1, <4>1
    <3>4. CASE srv'.out = << >>
      <4>1. Lagging(req, Frags, << >>, ToClient(io)')
        BY <1>7, <2>3, <3>4, LagLost
      <4> QED BY <2>1, <3>1, <3>2, <4>1 DEF InStep
    <3>5. ASSUME NEW r \in Packet, srv'.out = Fragments(r),
                 r.command = rx[1].pkt.command, r.context = rx[1].pkt.context,
                 Effect(rx[1].pkt, r, cip')
          PROVE  InStep(io)'
      <4>1. /\ Arrived(req, Frags, << >>, ToClient(io)', r)
            /\ r \in Pkts(ToClient(io)')
        BY <1>1, <1>7, <2>4, <3>3, <3>5, AnswerArrives
      <4> QED BY <2>1, <3>1, <3>2, <3>3, <3>5, <4>1 DEF InStep
    <3> QED BY <1>2, <1>9, <3>4, <3>5
  <2> QED BY <2>5, <2>6
<1> QED BY <1>2, <1>8, <1>9

(* Any step of the server and the network.                                 *)
LEMMA ServeInStep ==
  ASSUME TransportTypeOK, PlcTypeOK, TargetTypeOK, WayInv, NEW io \in Io, InStep(io), TargetNext
  PROVE  InStep(io)'
<1>1. CASE TargetReceive
  BY <1>1, ReceiveInStep
<1>2. CASE PlcSend /\ UNCHANGED cip
  <2>1. /\ net'.s2c = Append(net.s2c, Head(srv.out)) /\ net'.c2s = net.c2s /\ net'.sock = net.sock
        /\ srv'.out = Tail(srv.out) /\ srv'.rx = srv.rx /\ srv.out # << >>
    BY <1>2, PlcSendPkts DEF TransportTypeOK, PlcTypeOK
  <2>2. net'.s2c \o srv'.out = net.s2c \o srv.out
    BY <2>1, WayTypes, MoveOne
  <2>3. ToServer' = ToServer /\ ToClient(io)' = ToClient(io)
    BY <2>1, <2>2 DEF ToServer, ToClient
  <2> QED BY <1>2, <2>1, <2>3 DEF InStep
<1>3. CASE (PlcAccept \/ PlcClose) /\ UNCHANGED cip
  <2>1. net'.sock # "up"
    <3>1. ~PlcAccept
      BY DEF WayInv, PlcAccept
    <3>2. CASE net' = Wire("reset")
      BY <3>2 DEF Wire
    <3>3. CASE net' = [net EXCEPT !.sock = "fin", !.c2s = << >>]
      BY <3>3 DEF TransportTypeOK
    <3> QED BY <1>3, <3>1, <3>2, <3>3 DEF PlcClose
  <2> QED BY <2>1 DEF InStep
<1>4. CASE cip # NoCip /\ cip' = NoCip /\ UNCHANGED <<tcp, net, srv>>
  <2>1. ToServer' = ToServer /\ ToClient(io)' = ToClient(io) /\ net'.sock = net.sock
    BY <1>4 DEF ToServer, ToClient
  <2>2. \A r : Effect(io.req, r, cip')
    BY <1>4, CipFacts DEF Effect
  <2> QED BY <2>1, <2>2 DEF InStep
<1> QED BY <1>1, <1>2, <1>3, <1>4 DEF TargetNext, TargetDrop

-----------------------------------------------------------------------------
(* The client.                                                             *)

(* A poll() of an exchange keeps it in step; and when a full receive       *)
(* buffer begins with an own fragment, the pipe is empty and the buffer    *)
(* holds the answer to the request.                                        *)
LEMMA TransactInStep ==
  ASSUME TransportTypeOK, PlcTypeOK, NEW io \in Io, InStep(io),
         NEW o \in Transact(io), Apply(o, FALSE), UNCHANGED <<srv, cip>>, net.sock = "up"
  PROVE  /\ InStep(o.io)'
         /\ o.st = "Ok" /\ Own(io.req, o.io.rx[1]) =>
              Drained' /\ Effect(io.req, o.io.rx[1].pkt, cip')
<1>1. PICK n \in 0 .. Frags, k \in 0 .. Frags : Flow(io, n, k, o)
  BY TransactFlow
<1>2. o \in Outcomes /\ (o.st = "Ok" => Len(o.io.rx) = Frags)
  BY TransactType
<1>3. /\ net.c2s \in Seq(Fragment) /\ net.s2c \in Seq(Fragment) /\ srv.rx \in Seq(Fragment)
      /\ srv.out \in Seq(Fragment) /\ io.rx \in Seq(Fragment) /\ io.req \in Packet
      /\ io.sent \in Nat /\ io.sent <= Frags /\ Frags \in Nat \ {0} /\ n \in Nat
      /\ ToServer \in Seq(Fragment) /\ ToClient(io) \in Seq(Fragment)
  BY WayTypes
<1>4. /\ net'.c2s = o.c2s /\ net'.s2c = o.s2c /\ net'.sock = "up"
      /\ srv' = srv /\ cip' = cip
  BY DEF Apply, TransportTypeOK
<1>5. /\ o.io.req = io.req /\ o.io.sent = io.sent + n /\ io.sent + n <= Frags
      /\ k \in 0 .. Len(net.s2c)
      /\ o.c2s = net.c2s \o SubSeq(Fragments(io.req), io.sent + 1, io.sent + n)
      /\ o.s2c = SubSeq(net.s2c, k + 1, Len(net.s2c))
      /\ o.io.rx = io.rx \o SubSeq(net.s2c, 1, k)
  BY <1>1 DEF Flow
<1>6. ToServer' = ToServer \o SubSeq(Fragments(io.req), io.sent + 1, io.sent + n)
  BY <1>1, TransactStreams
<1>7. ToClient(o.io)' = ToClient(io)
  BY <1>1, TransactStreams
<1>8. \/ Lagging(io.req, io.sent, ToServer, ToClient(io))
      \/ \E r \in Pkts(ToClient(io)) :
           Arrived(io.req, io.sent, ToServer, ToClient(io), r) /\ Effect(io.req, r, cip)
  BY DEF InStep
<1>9. ASSUME Lagging(io.req, io.sent, ToServer, ToClient(io)) PROVE InStep(o.io)'
  <2>1. Lagging(io.req, io.sent + n, ToServer', ToClient(io))
    <3>1. PICK req \in Packet, s \in Nat, q \in Seq(Fragment), x \in Seq(Fragment) :
            req = io.req /\ s = io.sent /\ q = ToServer /\ x = ToClient(io)
      BY <1>3
    <3>2. s + n <= Frags /\ Lagging(req, s, q, x)
      BY <1>5, <1>9, <3>1
    <3>3. Lagging(req, s + n, q \o SubSeq(Fragments(req), s + 1, s + n), x)
      BY <1>3, <3>2, LagWrite
    <3> QED BY <1>6, <3>1, <3>3
  <2>2. Lagging(o.io.req, o.io.sent, ToServer', ToClient(o.io)')
    BY <1>5, <1>7, <2>1
  <2> QED BY <2>2 DEF InStep
<1>10. ASSUME NEW r \in Pkts(ToClient(io)),
              Arrived(io.req, io.sent, ToServer, ToClient(io), r), Effect(io.req, r, cip)
       PROVE  InStep(o.io)'
  <2>1. io.sent = Frags
    BY <1>10 DEF Arrived
  <2>2. n = 0
    BY <1>3, <1>5, <2>1
  <2>3. ToServer' = ToServer
    <3>1. Fragments(io.req) \in Seq(Fragment) /\ Len(Fragments(io.req)) = Frags
      BY <1>3, FragmentsType
    <3>2. ToServer \o SubSeq(Fragments(io.req), io.sent + 1, io.sent + 0) = ToServer
      BY <1>3, <3>1, NothingWritten
    <3> QED BY <1>6, <2>2, <3>2
  <2>4. o.io.sent = io.sent
    BY <1>3, <1>5, <2>2
  <2>5. Arrived(o.io.req, o.io.sent, ToServer', ToClient(o.io)', r)
    BY <1>5, <1>7, <1>10, <2>3, <2>4
  <2>6. r \in Pkts(ToClient(o.io)') /\ Effect(o.io.req, r, cip')
    BY <1>4, <1>5, <1>7, <1>10
  <2> QED BY <2>5, <2>6 DEF InStep
<1>11. InStep(o.io)'
  BY <1>8, <1>9, <1>10
<1>12. ASSUME o.st = "Ok", Own(io.req, o.io.rx[1])
       PROVE  Drained' /\ Effect(io.req, o.io.rx[1].pkt, cip')
  <2>1. TransportTypeOK' /\ PlcTypeOK'
    BY <1>2, <1>4, ApplyType DEF PlcTypeOK
  <2>2. /\ net'.s2c \in Seq(Fragment) /\ srv'.out \in Seq(Fragment)
        /\ net'.c2s \in Seq(Fragment) /\ srv'.rx \in Seq(Fragment)
    BY <2>1, StreamType, WireAssumption DEF TransportTypeOK, PlcTypeOK
  <2>3. o.io.rx \in Seq(Fragment) /\ Len(o.io.rx) = Frags
    BY <1>2, <1>3, <1>12, StreamType DEF Outcomes, Io
  <2>4. PICK y \in Seq(Fragment), q \in Seq(Fragment) :
          y = net'.s2c \o srv'.out /\ q = ToServer'
    BY <2>2, ConcatStream DEF ToServer
  <2>5. ToClient(o.io)' = o.io.rx \o y
    BY <2>4 DEF ToClient
  <2>6. Own(o.io.req, o.io.rx[1])
    BY <1>5, <1>12
  <2>7. /\ ~Lagging(o.io.req, o.io.sent, q, o.io.rx \o y)
        /\ \A r : Arrived(o.io.req, o.io.sent, q, o.io.rx \o y, r)
                    => q = << >> /\ y = << >> /\ o.io.rx[1].pkt = r
    <3>1. PICK rx \in Seq(Fragment), req \in Packet, s \in 0 .. Frags :
            rx = o.io.rx /\ req = o.io.req /\ s = o.io.sent
      BY <1>2, <2>3 DEF Outcomes, Io
    <3>2. Len(rx) = Frags /\ Own(req, rx[1])
      BY <2>3, <2>6, <3>1
    <3>3. PICK x \in Seq(Fragment) : x = rx \o y
      BY ConcatStream
    <3>4. ~Lagging(req, s, q, x)
      BY <3>2, <3>3, ReadDone
    <3>5. ASSUME NEW r, Arrived(req, s, q, x, r) PROVE q = << >> /\ y = << >> /\ rx[1].pkt = r
      <4>1. \A v : Arrived(req, s, q, x, v) => Settled(q, y, rx, v)
        BY <3>2, <3>3, ReadDone
      <4> QED BY <3>5, <4>1 DEF Settled
    <3> QED BY <3>1, <3>3, <3>4, <3>5
  <2>8. PICK r : Arrived(o.io.req, o.io.sent, q, o.io.rx \o y, r) /\ Effect(o.io.req, r, cip')
    BY <1>4, <1>11, <2>4, <2>5, <2>7 DEF InStep
  <2>9. q = << >> /\ y = << >> /\ Effect(io.req, o.io.rx[1].pkt, cip')
    BY <1>5, <2>7, <2>8
  <2>10. net'.s2c = << >> /\ srv'.out = << >> /\ net'.c2s = << >> /\ srv'.rx = << >>
    BY <2>2, <2>4, <2>9, ConcatEmpty DEF ToServer
  <2> QED BY <2>9, <2>10 DEF Drained
<1> QED BY <1>11, <1>12

-----------------------------------------------------------------------------
(* The bodies and the handle.                                              *)
LEMMA BodyTypes ==
  ASSUME ConnTypeOK
  PROVE  /\ \A ot \in ConnIds \cup {0} : OpenBody(ot) \in Payload /\ OpenBody(ot).svc = "ForwardOpen"
         /\ CloseBody \in Payload /\ CloseBody.svc = "ForwardClose"
         /\ \A req \in Requests : /\ DataBody(conn.ot, conn.seq, req) \in Payload
                                  /\ DataBody(conn.ot, conn.seq, req).svc = "Data"
<1>1. 0 \in 0 .. SeqMod - 1 /\ 0 \in ConnIds \cup {0}
  BY ConnectionAssumption
<1> QED BY <1>1 DEF ConnTypeOK, OpenBody, CloseBody, DataBody, Payload

LEMMA HandleType == Handle \in Handles
  BY ConnectedAssumption DEF Handle

(* Nothing new on the way: what is ours stays ours as the contexts grow.   *)
LEMMA StillOurs ==
  ASSUME NEW p \in Packet, Ours(p), msg.context \in Nat, conn.context \in Nat,
         msg'.context \in Nat, conn'.context \in Nat,
         msg.context <= msg'.context, conn.context <= conn'.context
  PROVE  Ours(p)'
<1>1. p.context \in Nat
  BY WireAssumption DEF Packet
<1>2. CASE p.command = "SendRRData"
  BY <1>1, <1>2 DEF Ours
<1>3. CASE p.command # "SendRRData"
  BY <1>1, <1>3 DEF Ours
<1> QED BY <1>2, <1>3

(* What a step of the server and the network does to the connection.       *)
LEMMA NetworkEffect ==
  ASSUME TransportTypeOK, PlcTypeOK, TargetTypeOK, WayInv, TargetNext
  PROVE  /\ TransportTypeOK' /\ PlcTypeOK' /\ TargetTypeOK'
         /\ tcp' = tcp
         /\ net'.sock \in {"up", "fin", "reset"} /\ (net'.sock = "up" => net.sock = "up")
         /\ Inbound' \subseteq Inbound
         /\ \A p \in OnTheWay' :
              /\ p.tag \in Payload
              /\ \E q \in OnTheWay : p.command = q.command /\ p.context = q.context
         /\ net'.sock = "up" =>
              \/ cip' \in {cip, NoCip, Unwanted}
              \/ ~Drained /\ \E q \in Inbound : q.tag.svc = "ForwardOpen"
         /\ net'.sock = "up" /\ Drained => Drained'
<1>0. /\ net.c2s \in Seq(Fragment) /\ net.s2c \in Seq(Fragment)
      /\ srv.rx \in Seq(Fragment) /\ srv.out \in Seq(Fragment)
      /\ NoCip \in Ids
  BY StreamType, WireAssumption, CipFacts DEF TransportTypeOK, PlcTypeOK
<1>1. CASE TargetReceive
  <2> DEFINE rx == Append(srv.rx, Head(net.c2s))
  <2>1. /\ net.sock = "up" /\ net.c2s # << >> /\ srv.out = << >> /\ tcp' = tcp
        /\ net' = [net EXCEPT !.c2s = Tail(net.c2s)]
        /\ PlcTypeOK' /\ TargetTypeOK'
        /\ \/ /\ srv'.rx = rx /\ srv'.out = << >>
              /\ cip' = cip
           \/ /\ Len(rx) = Frags /\ srv'.rx = << >>
              /\ cip' \in {cip, NoCip, Unwanted} \/ rx[1].pkt.tag.svc = "ForwardOpen"
              /\ \/ srv'.out = << >>
                 \/ \E r \in Packet :
                      /\ srv'.out = Fragments(r)
                      /\ r.command = rx[1].pkt.command /\ r.context = rx[1].pkt.context
                      /\ r.tag \in Payload
    BY <1>1, TargetReceiveCases
  <2>2. net'.sock = net.sock /\ net'.c2s = Tail(net.c2s) /\ net'.s2c = net.s2c
    BY <2>1 DEF TransportTypeOK
  <2>3. /\ Tail(net.c2s) \in Seq(Fragment) /\ Len(Tail(net.c2s)) = Len(net.c2s) - 1
        /\ Head(net.c2s) \in Fragment
    BY <1>0, <2>1, HeadTailProperties
  <2>4. Pkts(Tail(net.c2s)) \subseteq Pkts(net.c2s) /\ Head(net.c2s).pkt \in Pkts(net.c2s)
    BY <1>0, <2>1, PktsTail
  <2>5. rx \in Seq(Fragment) /\ Len(rx) \in Nat /\ Pkts(rx) \subseteq Inbound
    BY <1>0, <2>3, <2>4, AppendProperties, LenProperties, PktsAppend DEF Inbound
  <2> HIDE DEF rx
  <2>6. Len(rx) = Frags => rx[1].pkt \in Inbound
    <3>1. Len(rx) = Frags => rx \in Stream(Frags)
      BY <2>5, WireAssumption DEF Stream
    <3> QED BY <2>5, <3>1, PktsHead
  <2>7. TransportTypeOK'
    <3>1. Len(net.c2s) \in Nat /\ Len(net.c2s) <= SndBuf /\ SndBuf \in Nat
      BY StreamType, WireAssumption DEF TransportTypeOK
    <3>2. Tail(net.c2s) \in Stream(SndBuf)
      BY <2>3, <3>1 DEF Stream
    <3> QED BY <2>1, <3>2 DEF TransportTypeOK
  <2>8. Inbound' \subseteq Inbound
    BY <2>1, <2>2, <2>4, <2>5, PktsEmpty DEF Inbound
  <2>9. ASSUME NEW p \in OnTheWay'
        PROVE  /\ p.tag \in Payload
               /\ \E q \in OnTheWay : p.command = q.command /\ p.context = q.context
    <3>1. CASE p \in OnTheWay
      BY <3>1 DEF WayInv, Ours
    <3>2. CASE p \in Pkts(srv'.out)
      <4>1. srv'.out # << >>
        BY <3>2, PktsEmpty
      <4>2. PICK r \in Packet : /\ Len(rx) = Frags /\ srv'.out = Fragments(r)
                                /\ r.command = rx[1].pkt.command /\ r.context = rx[1].pkt.context
                                /\ r.tag \in Payload
        BY <2>1, <4>1
      <4>3. p = r
        BY <3>2, <4>2, PktsFragments
      <4> QED BY <2>6, <4>2, <4>3 DEF OnTheWay
    <3> QED BY <2>2, <2>8, <3>1, <3>2 DEF OnTheWay
  <2>10. ~Drained
    BY <2>1 DEF Drained
  <2> QED BY <2>1, <2>2, <2>6, <2>7, <2>8, <2>9, <2>10 DEF WayInv
<1>2. CASE PlcSend /\ UNCHANGED cip
  <2>1. /\ TransportTypeOK' /\ PlcTypeOK' /\ TargetTypeOK'
    BY <1>2, PlcNextType DEF PlcNext, TargetTypeOK
  <2>2. /\ tcp' = tcp /\ net'.sock = net.sock /\ net'.c2s = net.c2s /\ srv'.rx = srv.rx
        /\ srv.out # << >>
        /\ Pkts(net'.s2c) \subseteq Pkts(net.s2c) \cup Pkts(srv.out)
        /\ Pkts(srv'.out) \subseteq Pkts(srv.out)
    BY <1>2, PlcSendPkts DEF TransportTypeOK, PlcTypeOK
  <2>3. Inbound' \subseteq Inbound /\ OnTheWay' \subseteq OnTheWay
    BY <2>2 DEF Inbound, OnTheWay
  <2> QED BY <1>2, <2>1, <2>2, <2>3 DEF WayInv, Ours, Drained
<1>3. CASE (PlcAccept \/ PlcClose) /\ UNCHANGED cip
  <2>1. PlcClose
    BY <1>3 DEF WayInv, PlcAccept
  <2>2. /\ TransportTypeOK' /\ PlcTypeOK' /\ TargetTypeOK'
    BY <1>0, <1>3, <2>1, PlcNextType DEF PlcNext, TargetTypeOK
  <2>3. /\ tcp' = tcp /\ net'.sock \in {"fin", "reset"} /\ net'.c2s = << >>
        /\ net'.s2c = net.s2c \/ net'.s2c = << >>
        /\ srv'.rx = << >> /\ srv'.out = << >>
    <3>1. tcp' = tcp /\ srv'.rx = << >> /\ srv'.out = << >>
      BY <2>1 DEF PlcClose, SrvFresh
    <3>2. CASE net' = Wire("reset")
      BY <3>1, <3>2 DEF Wire
    <3>3. CASE net' = [net EXCEPT !.sock = "fin", !.c2s = << >>]
      BY <3>1, <3>3 DEF TransportTypeOK
    <3> QED BY <2>1, <3>2, <3>3 DEF PlcClose
  <2>4. Inbound' \subseteq Inbound /\ OnTheWay' \subseteq OnTheWay
    BY <2>3, PktsEmpty DEF Inbound, OnTheWay
  <2> QED BY <2>2, <2>3, <2>4 DEF WayInv, Ours
<1>4. CASE cip # NoCip /\ cip' = NoCip /\ UNCHANGED <<tcp, net, srv>>
  <2>1. TransportTypeOK' /\ PlcTypeOK' /\ TargetTypeOK'
    BY <1>0, <1>4 DEF TransportTypeOK, PlcTypeOK, TargetTypeOK, Ids
  <2>2. Inbound' = Inbound /\ OnTheWay' = OnTheWay
    BY <1>4 DEF Inbound, OnTheWay
  <2>3. Drained => Drained'
    BY <1>4 DEF Drained
  <2> QED BY <1>4, <2>1, <2>2, <2>3 DEF WayInv, Ours
<1> QED BY <1>1, <1>2, <1>3, <1>4 DEF TargetNext, TargetDrop

LEMMA NetworkStep ==
  ASSUME ConnInv, Network
  PROVE  ConnInv'
<1>1. /\ TransportTypeOK' /\ PlcTypeOK' /\ TargetTypeOK'
      /\ tcp' = tcp
      /\ net'.sock \in {"up", "fin", "reset"} /\ (net'.sock = "up" => net.sock = "up")
      /\ Inbound' \subseteq Inbound
      /\ \A p \in OnTheWay' :
           /\ p.tag \in Payload
           /\ \E q \in OnTheWay : p.command = q.command /\ p.context = q.context
      /\ net'.sock = "up" =>
           \/ cip' \in {cip, NoCip, Unwanted}
           \/ ~Drained /\ \E q \in Inbound : q.tag.svc = "ForwardOpen"
      /\ net'.sock = "up" /\ Drained => Drained'
  BY NetworkEffect DEF Network, ConnInv, TypeOK
<1>2. msg' = msg /\ conn' = conn
  BY DEF Network
<1>3. msg.io \in Io /\ conn.io \in Io
  BY DEF ConnInv, TypeOK, MsgTypeOK, ConnTypeOK
<1>4. TypeOK'
  BY <1>1, <1>2 DEF ConnInv, TypeOK, MsgTypeOK, ConnTypeOK
<1>5. OneExchange'
  BY <1>2 DEF ConnInv, OneExchange, MsgBusy
<1>6. WayInv'
  <2>1. ASSUME NEW p \in OnTheWay' PROVE Ours(p)'
    <3>1. PICK q \in OnTheWay : p.command = q.command /\ p.context = q.context
      BY <1>1
    <3>2. Ours(q) /\ p.tag \in Payload
      BY <1>1 DEF ConnInv, WayInv
    <3> QED BY <1>2, <3>1, <3>2 DEF Ours
  <2>2. ASSUME NEW p \in Pkts(msg.io.rx)' PROVE Ours(p)'
    BY <1>2 DEF ConnInv, WayInv, Ours
  <2> QED BY <1>1, <2>1, <2>2 DEF ConnInv, WayInv
<1>7. ASSUME NEW io \in Io, InStep(io) PROVE InStep(io)'
  BY <1>7, ServeInStep DEF ConnInv, TypeOK, Network
<1>8. ForwardInv'
  BY <1>2, <1>3, <1>7 DEF ConnInv, ForwardInv, MsgBusy, InStep, ToClient, ToServer
<1>9. SendInv'
  BY <1>1, <1>2, <1>3, <1>7 DEF ConnInv, SendInv, InStep, ToClient, ToServer
<1>10. RestInv'
  BY <1>1, <1>2 DEF ConnInv, RestInv
<1>11. net'.sock = "up" /\ conn.state \in {"Open", "Sending", "Closed"} =>
         cip' \in {cip, NoCip, Unwanted}
  <2>1. conn.state \in {"Open", "Closed"} /\ net.sock = "up" => Drained
    BY DEF ConnInv, RestInv
  <2>2. conn.state = "Sending" /\ net.sock = "up" => ~\E q \in Inbound : q.tag.svc = "ForwardOpen"
    BY DEF ConnInv, SendInv
  <2> QED BY <1>1, <2>1, <2>2
<1>12. IdsAgree'
  BY <1>1, <1>2, <1>11, CipFacts DEF ConnInv, IdsAgree, TypeOK
<1>13. ClosedWasAsked'
  BY <1>1, <1>2, <1>11, CipFacts DEF ConnInv, ClosedWasAsked, TypeOK
<1> QED BY <1>4, <1>5, <1>6, <1>8, <1>9, <1>10, <1>12, <1>13 DEF ConnInv

(* Only the countdowns change, or nothing.                                 *)
LEMMA QuietStep ==
  ASSUME ConnInv, UNCHANGED <<tcp, net, srv, cip>>, MsgTypeOK', ConnTypeOK',
         msg'.state = msg.state, msg'.context = msg.context, msg'.io = msg.io,
         conn'.state = conn.state, conn'.ot = conn.ot, conn'.to = conn.to,
         conn'.context = conn.context, conn'.io = conn.io
  PROVE  ConnInv'
<1>1. TypeOK'
  BY DEF ConnInv, TypeOK, TransportTypeOK, PlcTypeOK, TargetTypeOK
<1>2. OneExchange'
  BY DEF ConnInv, OneExchange, MsgBusy
<1>3. WayInv'
  BY DEF ConnInv, WayInv, Ours, OnTheWay, Inbound
<1>4. ForwardInv'
  BY DEF ConnInv, ForwardInv, MsgBusy, InStep, ToClient, ToServer
<1>5. SendInv'
  BY DEF ConnInv, SendInv, InStep, ToClient, ToServer, Inbound
<1>6. RestInv' /\ IdsAgree' /\ ClosedWasAsked'
  BY DEF ConnInv, RestInv, Drained, IdsAgree, ClosedWasAsked
<1> QED BY <1>1, <1>2, <1>3, <1>4, <1>5, <1>6 DEF ConnInv

LEMMA StutterStep ==
  ASSUME ConnInv, UNCHANGED vars
  PROVE  ConnInv'
<1>1. MsgTypeOK' /\ ConnTypeOK'
  BY DEF ConnInv, TypeOK, MsgTypeOK, ConnTypeOK, vars
<1> QED BY <1>1, QuietStep DEF vars

LEMMA TickStep ==
  ASSUME ConnInv, Tick
  PROVE  ConnInv'
<1>1. /\ Dec(msg.timer) \in Nat /\ msg' = [msg EXCEPT !.timer = Dec(msg.timer)]
      /\ Dec(conn.timer) \in Nat /\ conn' = [conn EXCEPT !.timer = Dec(conn.timer)]
  BY DecType DEF ConnInv, TypeOK, MsgTypeOK, ConnTypeOK, Tick, MsgTick, ConnTick
<1>2. MsgTypeOK' /\ msg'.state = msg.state /\ msg'.context = msg.context /\ msg'.io = msg.io
  BY <1>1 DEF ConnInv, TypeOK, MsgTypeOK
<1>3. /\ ConnTypeOK' /\ conn'.state = conn.state /\ conn'.ot = conn.ot /\ conn'.to = conn.to
      /\ conn'.context = conn.context /\ conn'.io = conn.io
  BY <1>1 DEF ConnInv, TypeOK, ConnTypeOK
<1> QED BY <1>2, <1>3, QuietStep DEF Tick

-----------------------------------------------------------------------------
(* A new exchange.                                                         *)

(* Its request is younger than everything of its kind that is on the way.  *)
LEMMA NewInStep ==
  ASSUME TransportTypeOK, PlcTypeOK, UNCHANGED <<net, srv>>, NEW req \in Packet,
         \A p \in OnTheWay : p.command = req.command => p.context # req.context
  PROVE  InStep(NewIo(req))'
<1>1. /\ net.c2s \in Seq(Fragment) /\ net.s2c \in Seq(Fragment)
      /\ srv.rx \in Seq(Fragment) /\ srv.out \in Seq(Fragment)
  BY StreamType, WireAssumption DEF TransportTypeOK, PlcTypeOK
<1> DEFINE q == srv.rx \o net.c2s
           x == net.s2c \o srv.out
<1>2. q \in Seq(Fragment) /\ x \in Seq(Fragment)
  BY <1>1, ConcatStream
<1>3. Pkts(q) \subseteq OnTheWay /\ Pkts(x) \subseteq OnTheWay
  BY <1>1, PktsConcat DEF OnTheWay, Inbound
<1>4. ToServer' = q /\ ToClient(NewIo(req))' = x
  BY <1>1, <1>2, EmptyConcat DEF ToServer, ToClient, NewIo
<1> HIDE DEF q, x
<1>5. /\ \A i \in 1 .. Len(q) : q[i].pkt \in OnTheWay
      /\ \A i \in 1 .. Len(x) : x[i].pkt \in OnTheWay
  BY <1>3 DEF Pkts
<1>6. /\ \A i \in 1 .. Len(q) : ~Own(req, q[i])
      /\ \A i \in 1 .. Len(x) : ~Own(req, x[i])
  BY <1>5 DEF Own
<1>7. Lagging(req, 0, q, x)
  BY <1>2, <1>6, LagNew
<1>8. NewIo(req).req = req /\ NewIo(req).sent = 0
  BY DEF NewIo
<1> QED BY <1>4, <1>7, <1>8 DEF InStep

(* fwd_.send()                                                             *)
LEMMA ForwardSend ==
  ASSUME ConnInv, NEW t \in Payload, msg.context <= MaxForwards,
         MsgSend(Handle, t, "Pending"), UNCHANGED <<tcp, net, srv, cip>>
  PROVE  /\ MsgTypeOK' /\ MsgBusy' /\ ~MsgBusy
         /\ msg'.context = msg.context + 1 /\ Pkts(msg'.io.rx) = {}
         /\ msg'.io.req.command = "SendRRData" /\ msg'.io.req.context + 1 = msg'.context
         /\ msg'.io.req.tag = t
         /\ InStep(msg.io)'
<1> DEFINE req == [command |-> "SendRRData", session |-> Handle, context |-> msg.context,
                   tag |-> t, status |-> "ok"]
<1>1. MsgTypeOK'
  BY HandleType, SubPayload, MsgSendType DEF ConnInv, TypeOK
<1>2. /\ msg' = [state |-> "Sending", context |-> (msg.context + 1) % CtxMod,
                 timer |-> OpTimeout, io |-> NewIo(req)]
      /\ ~MsgBusy
  BY DEF MsgSend
<1>3. msg.context \in Nat /\ msg.context \in 0 .. CtxMod - 1 /\ CtxMod \in Nat
  BY WireAssumption DEF ConnInv, TypeOK, MsgTypeOK
<1>4. (msg.context + 1) % CtxMod = msg.context + 1
  BY <1>3, ConnectedAssumption
<1>5. /\ req \in Packet /\ req.command = "SendRRData" /\ req.context = msg.context /\ req.tag = t
  BY <1>3, HandleType, SubPayload DEF Packet, Command
<1> HIDE DEF req
<1>6. PICK new \in Packet : new = req
  BY <1>5
<1>7. /\ msg'.state = "Sending" /\ msg'.context = msg.context + 1
      /\ msg'.io = NewIo(new) /\ msg'.io.req = new /\ msg'.io.rx = << >>
  BY <1>2, <1>4, <1>6 DEF NewIo
<1>8. InStep(NewIo(new))'
  <2>1. ASSUME NEW p \in OnTheWay, p.command = new.command PROVE p.context # new.context
    <3>1. p.context < msg.context
      BY <1>5, <1>6, <2>1 DEF ConnInv, WayInv, Ours
    <3> QED BY <1>3, <1>5, <1>6, <3>1
  <2> QED BY <2>1, NewInStep DEF ConnInv, TypeOK
<1>9. InStep(msg.io)'
  BY <1>7, <1>8 DEF InStep, ToClient, ToServer
<1> QED BY <1>1, <1>2, <1>5, <1>6, <1>7, <1>9, PktsEmpty DEF MsgBusy

(* What is on the way, and the empty buffer, are ours in the next state.   *)
LEMMA OursAfterSend ==
  ASSUME ConnInv, MsgTypeOK', ConnTypeOK', UNCHANGED <<tcp, net, srv>>,
         msg.context <= msg'.context, conn.context <= conn'.context,
         Pkts(msg'.io.rx) \subseteq Pkts(msg.io.rx)
  PROVE  WayInv'
<1>1. OnTheWay' = OnTheWay
  BY DEF OnTheWay, Inbound
<1>2. /\ msg.context \in Nat /\ conn.context \in Nat
      /\ msg'.context \in Nat /\ conn'.context \in Nat
  BY WireAssumption DEF ConnInv, TypeOK, MsgTypeOK, ConnTypeOK
<1>3. OnTheWay \cup Pkts(msg.io.rx) \subseteq Packet
  <2>1. msg.io.rx \in Seq(Fragment)
    BY StreamType, WireAssumption DEF ConnInv, TypeOK, MsgTypeOK, Io
  <2> QED BY <2>1, OnTheWayType, PktsType DEF ConnInv, TypeOK
<1>4. ASSUME NEW p \in OnTheWay \cup Pkts(msg.io.rx) PROVE Ours(p)'
  <2>1. Ours(p)
    BY DEF ConnInv, WayInv
  <2> QED BY <1>2, <1>3, <2>1, StillOurs
<1> QED BY <1>1, <1>4 DEF ConnInv, WayInv

LEMMA OpenStep ==
  ASSUME ConnInv, Open
  PROVE  ConnInv'
<1>0. PICK st \in Status : ConnOpen(Handle, st)
  BY DEF Open
<1>1. UNCHANGED <<tcp, net, srv, cip>> /\ msg.context <= MaxForwards
  BY DEF Open
<1>2. CASE UNCHANGED <<conn, msg>>
  BY <1>1, <1>2, StutterStep DEF vars
<1>3. CASE ~ConnBusy /\ \E ot \in ConnIds :
          /\ MsgSend(Handle, OpenBody(ot), st) /\ st # "InvalidArg"
          /\ conn' = [conn EXCEPT !.ot = ot, !.to = 0,
                                  !.state = IF st = "Pending" THEN "Opening" ELSE conn.state]
  <2>0. PICK ot \in ConnIds :
          /\ MsgSend(Handle, OpenBody(ot), st) /\ st # "InvalidArg"
          /\ conn' = [conn EXCEPT !.ot = ot, !.to = 0,
                                  !.state = IF st = "Pending" THEN "Opening" ELSE conn.state]
    BY <1>3
  <2>1. OpenBody(ot) \in Payload
    BY BodyTypes DEF ConnInv, TypeOK
  <2>2. /\ ConnTypeOK' /\ conn'.ot = ot /\ conn'.to = 0 /\ conn'.context = conn.context
        /\ conn'.io = conn.io
        /\ conn'.state = IF st = "Pending" THEN "Opening" ELSE conn.state
    BY <2>0 DEF ConnInv, TypeOK, ConnTypeOK
  <2>3. conn.context <= conn'.context /\ msg.context \in Nat
    BY <2>2, WireAssumption DEF ConnInv, TypeOK, ConnTypeOK, MsgTypeOK
  <2>4. CASE st = "Pending"
    <3>1. /\ MsgTypeOK' /\ MsgBusy' /\ ~MsgBusy
          /\ msg'.context = msg.context + 1 /\ Pkts(msg'.io.rx) = {}
          /\ msg'.io.req.command = "SendRRData" /\ msg'.io.req.context + 1 = msg'.context
          /\ msg'.io.req.tag = OpenBody(ot)
          /\ InStep(msg.io)'
      BY <1>1, <2>0, <2>1, <2>4, ForwardSend
    <3>2. TypeOK'
      BY <1>1, <2>2, <3>1 DEF ConnInv, TypeOK, TransportTypeOK, PlcTypeOK, TargetTypeOK
    <3>3. msg.context <= msg'.context
      BY <2>3, <3>1
    <3>4. WayInv'
      BY <1>1, <2>2, <2>3, <3>1, <3>3, OursAfterSend
    <3>5. conn'.state = "Opening"
      BY <2>2, <2>4
    <3>6. ForwardInv'
      BY <2>2, <3>1, <3>5 DEF ForwardInv
    <3>7. OneExchange' /\ SendInv' /\ RestInv' /\ IdsAgree' /\ ClosedWasAsked'
      BY <3>1, <3>5 DEF OneExchange, SendInv, RestInv, IdsAgree, ClosedWasAsked
    <3> QED BY <3>2, <3>4, <3>6, <3>7 DEF ConnInv
  <2>5. CASE st # "Pending"
    <3>1. msg' = msg /\ ~MsgBusy
      BY <1>3, <2>0, <2>5, MsgSendBusy DEF ConnInv, OneExchange, ConnBusy
    <3>2. ~Connected(tcp)
      BY <2>0, <2>5, <3>1 DEF MsgSend
    <3>3. net.sock # "up"
      BY <3>2 DEF ConnInv, WayInv, Connected
    <3>4. TypeOK'
      BY <1>1, <2>2, <3>1 DEF ConnInv, TypeOK, TransportTypeOK, PlcTypeOK, TargetTypeOK, MsgTypeOK
    <3>5. WayInv'
      BY <1>1, <2>2, <3>1 DEF ConnInv, WayInv, Ours, OnTheWay, Inbound
    <3>6. ~MsgBusy' /\ conn'.state = conn.state /\ net'.sock # "up" /\ conn'.state # "Sending"
      BY <1>1, <1>3, <2>2, <2>5, <3>1, <3>3 DEF MsgBusy, ConnBusy
    <3>7. OneExchange' /\ ForwardInv' /\ SendInv' /\ RestInv' /\ IdsAgree' /\ ClosedWasAsked'
      BY <3>1, <3>6 DEF ConnInv, OneExchange, ForwardInv, SendInv, RestInv, IdsAgree, ClosedWasAsked
    <3> QED BY <3>4, <3>5, <3>7 DEF ConnInv
  <2> QED BY <2>4, <2>5
<1> QED BY <1>0, <1>2, <1>3 DEF ConnOpen

LEMMA CloseStep ==
  ASSUME ConnInv, Close
  PROVE  ConnInv'
<1>0. PICK st \in Status : ConnClose(Handle, st)
  BY DEF Close
<1>1. UNCHANGED <<tcp, net, srv, cip>> /\ msg.context <= MaxForwards
  BY DEF Close
<1>2. CASE UNCHANGED <<conn, msg>>
  BY <1>1, <1>2, StutterStep DEF vars
<1>3. CASE MsgSend(Handle, CloseBody, "Pending") /\ conn' = [conn EXCEPT !.state = "Closing"]
  <2>1. CloseBody \in Payload
    BY BodyTypes DEF ConnInv, TypeOK
  <2>2. /\ ConnTypeOK' /\ conn'.context = conn.context /\ conn'.io = conn.io
        /\ conn'.state = "Closing"
    BY <1>3 DEF ConnInv, TypeOK, ConnTypeOK
  <2>3. conn.context <= conn'.context /\ msg.context \in Nat
    BY <2>2, WireAssumption DEF ConnInv, TypeOK, ConnTypeOK, MsgTypeOK
  <2>4. /\ MsgTypeOK' /\ MsgBusy' /\ ~MsgBusy
        /\ msg'.context = msg.context + 1 /\ Pkts(msg'.io.rx) = {}
        /\ msg'.io.req.command = "SendRRData" /\ msg'.io.req.context + 1 = msg'.context
        /\ msg'.io.req.tag = CloseBody
        /\ InStep(msg.io)'
    BY <1>1, <1>3, <2>1, ForwardSend
  <2>5. TypeOK'
    BY <1>1, <2>2, <2>4 DEF ConnInv, TypeOK, TransportTypeOK, PlcTypeOK, TargetTypeOK
  <2>6. msg.context <= msg'.context
    BY <2>3, <2>4
  <2>7. WayInv'
    BY <1>1, <2>2, <2>3, <2>4, <2>6, OursAfterSend
  <2>8. ForwardInv'
    BY <2>2, <2>4 DEF ForwardInv, CloseBody
  <2>9. OneExchange' /\ SendInv' /\ RestInv' /\ IdsAgree' /\ ClosedWasAsked'
    BY <2>2, <2>4 DEF OneExchange, SendInv, RestInv, IdsAgree, ClosedWasAsked
  <2> QED BY <2>5, <2>7, <2>8, <2>9 DEF ConnInv
<1>4. ASSUME MsgSend(Handle, CloseBody, st), st # "Pending" PROVE msg' = msg
  BY <1>4, MsgSendBusy
<1> QED BY <1>0, <1>2, <1>3, <1>4 DEF ConnClose

LEMMA SendStep ==
  ASSUME ConnInv, Send
  PROVE  ConnInv'
<1>0. PICK st \in Status, r \in Requests : ConnSend(Handle, r, st)
  BY DEF Send
<1>1. UNCHANGED <<tcp, net, srv, cip, msg>> /\ conn.context <= MaxSends
  BY DEF Send
<1>2. CASE UNCHANGED conn
  BY <1>1, <1>2, StutterStep DEF vars
<1> DEFINE body == DataBody(conn.ot, conn.seq, r)
           req == [command |-> "SendUnitData", session |-> Handle,
                   context |-> conn.context, status |-> "ok", tag |-> body]
<1>3. CASE /\ conn.state = "Open"
           /\ conn' = [conn EXCEPT !.state = "Sending",
                         !.context = (conn.context + 1) % CtxMod, !.seq = (conn.seq + 1) % SeqMod,
                         !.timer = OpTimeout, !.io = NewIo(req)]
  <2>1. body \in Payload /\ body.svc = "Data"
    BY BodyTypes DEF ConnInv, TypeOK
  <2> HIDE DEF body
  <2>2. /\ conn.context \in Nat /\ conn.context \in 0 .. CtxMod - 1 /\ CtxMod \in Nat
        /\ conn.seq \in Nat /\ SeqMod \in Nat \ {0, 1}
    BY WireAssumption, ConnectionAssumption DEF ConnInv, TypeOK, ConnTypeOK
  <2>3. (conn.context + 1) % CtxMod = conn.context + 1 /\ conn.context + 1 \in 0 .. CtxMod - 1
    BY <1>1, <2>2, ConnectedAssumption
  <2>4. (conn.seq + 1) % SeqMod \in 0 .. SeqMod - 1
    BY <2>2
  <2>5. /\ req \in Packet /\ req.command = "SendUnitData" /\ req.context = conn.context
        /\ req.tag = body
    BY <2>1, <2>2, HandleType, SubPayload DEF Packet, Command
  <2> HIDE DEF req
  <2>0. PICK new \in Packet : new = req
    BY <2>5
  <2>6. NewIo(new) \in Io /\ NewIo(new).req = new
    BY <2>5, EmptyStream, WireAssumption DEF NewIo, Io
  <2>7. /\ ConnTypeOK' /\ conn'.state = "Sending" /\ conn'.context = conn.context + 1
        /\ conn'.io = NewIo(new) /\ conn'.ot = conn.ot /\ conn'.to = conn.to
    BY <1>3, <2>0, <2>3, <2>4, <2>6, TimeoutAssumption DEF ConnInv, TypeOK, ConnTypeOK
  <2>8. ASSUME NEW p \in OnTheWay, p.command = new.command PROVE p.context # new.context
    <3>1. p.context < conn.context
      BY <2>0, <2>5, <2>8 DEF ConnInv, WayInv, Ours
    <3> QED BY <2>0, <2>2, <2>5, <3>1
  <2>9. InStep(NewIo(new))'
    BY <1>1, <2>5, <2>8, NewInStep DEF ConnInv, TypeOK
  <2>10. InStep(conn.io)'
    BY <2>7, <2>9 DEF InStep, ToClient, ToServer
  <2>11. net'.sock = "up" => Inbound' \subseteq {conn'.io.req}
    <3>1. net.sock = "up" => net.c2s = << >> /\ srv.rx = << >>
      BY <1>3 DEF ConnInv, RestInv, Drained
    <3> QED BY <1>1, <3>1, PktsEmpty DEF Inbound
  <2>12. SendInv'
    BY <2>0, <2>1, <2>5, <2>6, <2>7, <2>10, <2>11 DEF SendInv
  <2>13. MsgTypeOK' /\ MsgBusy' = MsgBusy
    BY <1>1 DEF ConnInv, TypeOK, MsgTypeOK, MsgBusy
  <2>14. TypeOK'
    BY <1>1, <2>7, <2>13 DEF ConnInv, TypeOK, TransportTypeOK, PlcTypeOK, TargetTypeOK
  <2>15. WayInv'
    <3>1. /\ conn.context <= conn'.context /\ msg.context <= msg'.context
          /\ Pkts(msg'.io.rx) \subseteq Pkts(msg.io.rx)
      BY <1>1, <2>2, <2>7, WireAssumption DEF ConnInv, TypeOK, MsgTypeOK
    <3> QED BY <1>1, <2>7, <2>13, <3>1, OursAfterSend
  <2>16. ~MsgBusy
    BY <1>3 DEF ConnInv, OneExchange
  <2>17. OneExchange' /\ ForwardInv' /\ RestInv' /\ ClosedWasAsked'
    BY <2>7, <2>13, <2>16 DEF OneExchange, ForwardInv, RestInv, ClosedWasAsked
  <2>18. IdsAgree'
    BY <1>1, <1>3, <2>7 DEF ConnInv, IdsAgree
  <2> QED BY <2>12, <2>14, <2>15, <2>17, <2>18 DEF ConnInv
<1> QED BY <1>0, <1>2, <1>3 DEF ConnSend

-----------------------------------------------------------------------------
(* A poll() of the exchange in flight.                                     *)

(* What is on the way after it is ours.                                    *)
LEMMA PollOurs ==
  ASSUME ConnInv, NEW req \in Packet, Ours(req), Moved(req), UNCHANGED srv,
         msg'.context = msg.context, conn'.context = conn.context,
         Pkts(msg'.io.rx) \subseteq Pkts(msg.io.rx) \cup Pkts(net.s2c)
  PROVE  /\ WayInv' /\ net'.sock = net.sock
         /\ Inbound' \subseteq Inbound \cup {req}
<1>1. /\ Inbound' \subseteq Inbound \cup {req} /\ OnTheWay' \subseteq OnTheWay \cup {req}
      /\ net'.sock = net.sock
  BY DEF Moved, Inbound, OnTheWay
<1>2. \A p : Ours(p) => Ours(p)'
  BY DEF Ours
<1>3. ASSUME NEW p \in (OnTheWay \cup Pkts(msg.io.rx))' PROVE Ours(p)'
  <2>1. p \in OnTheWay \cup Pkts(msg.io.rx) \cup {req}
    BY <1>1 DEF OnTheWay
  <2> QED BY <1>2, <2>1 DEF ConnInv, WayInv
<1>4. net'.sock = "up" => tcp'.fd /\ tcp'.state = "Ok"
  BY <1>1 DEF Moved, ConnInv, WayInv
<1> QED BY <1>1, <1>3, <1>4 DEF ConnInv, WayInv

(* fwd_.poll()                                                             *)
LEMMA ForwardPoll ==
  ASSUME ConnInv, MsgBusy, NEW ms, MsgPoll(ms), UNCHANGED <<srv, cip>>,
         conn'.context = conn.context
  PROVE  /\ TransportTypeOK' /\ MsgTypeOK' /\ WayInv' /\ net'.sock = net.sock
         /\ ms = "Pending" => /\ MsgBusy' /\ msg'.io.req = msg.io.req
                              /\ msg'.context = msg.context /\ InStep(msg.io)'
         /\ ms # "Pending" => ~MsgBusy'
         /\ ms = "Ok" => /\ MsgReply(msg').tag \in Payload
                         /\ net.sock = "up" =>
                              /\ Drained'
                              /\ MsgReply(msg').status # "encapErr"
                              /\ Effect(msg.io.req, MsgReply(msg'), cip')
<1>0. TransportTypeOK /\ PlcTypeOK /\ MsgTypeOK /\ ConnTypeOK /\ msg.io \in Io /\ msg.io.req \in Packet
  BY DEF ConnInv, TypeOK, MsgTypeOK, Io
<1>1. TransportTypeOK' /\ MsgTypeOK'
  BY <1>0, MsgPollType
<1>2. MsgBusy' <=> ms = "Pending"
  BY <1>0, MsgPollBusy
<1>3. Ours(msg.io.req)
  <2>1. msg.io.req.command = "SendRRData" /\ msg.io.req.context + 1 = msg.context
        /\ msg.io.req.tag \in Payload
    BY BodyTypes DEF ConnInv, TypeOK, ForwardInv, ConnTypeOK
  <2>2. msg.io.req.context \in Nat
    BY <1>0, WireAssumption DEF Packet
  <2>3. msg.io.req.context < msg.context
    BY <2>1, <2>2
  <2> QED BY <2>1, <2>3 DEF Ours
<1>4. CASE msg.timer = 0
  <2>1. ms = "Timeout" /\ msg' = MsgFailed /\ UNCHANGED <<tcp, net>>
    BY <1>4 DEF MsgPoll, PollInFlight, MsgExpired
  <2>2. msg'.context = msg.context /\ msg'.io = NoIo
    BY <1>0, <2>1 DEF MsgFailed, MsgTypeOK
  <2>3. Pkts(msg'.io.rx) = {}
    BY <2>2, PktsEmpty DEF NoIo, NewIo
  <2>4. Moved(msg.io.req)
    BY <1>0, <2>1, NotMoved
  <2>5. WayInv' /\ net'.sock = net.sock
    BY <1>0, <1>3, <2>2, <2>3, <2>4, PollOurs
  <2> QED BY <1>1, <1>2, <2>1, <2>5
<1>5. CASE msg.timer # 0
  <2>1. PICK o \in Transact(msg.io) :
          /\ Apply(o, FALSE)
          /\ \/ /\ o.st = "Pending" /\ ms = "Pending"
                /\ msg' = [msg EXCEPT !.io = o.io,
                             !.state = IF Written(o) THEN "Receiving" ELSE msg.state]
             \/ ms \notin {"Pending", "Ok"} /\ msg' = MsgFailed
             \/ /\ o.st = "Ok" /\ ParseOK(o.io.req, o.io.rx) /\ ms = "Ok"
                /\ msg' = [msg EXCEPT !.state = "Done", !.timer = 0, !.io = o.io]
    BY <1>5 DEF MsgPoll, PollInFlight, MsgExpired
  <2>2. /\ Moved(msg.io.req) /\ o.io.req = msg.io.req
        /\ Pkts(o.io.rx) \subseteq Pkts(msg.io.rx) \cup Pkts(net.s2c)
    BY <1>0, <2>1, ApplyFlow
  <2>3. /\ msg'.context = msg.context
        /\ ms \in {"Pending", "Ok"} => msg'.io = o.io
        /\ ms \notin {"Pending", "Ok"} => msg'.io = NoIo
    BY <1>0, <2>1 DEF MsgTypeOK, MsgFailed
  <2>4. Pkts(msg'.io.rx) \subseteq Pkts(msg.io.rx) \cup Pkts(net.s2c)
    <3>1. Pkts(NoIo.rx) = {}
      BY PktsEmpty DEF NoIo, NewIo
    <3> QED BY <2>2, <2>3, <3>1
  <2>5. WayInv' /\ net'.sock = net.sock
    BY <1>0, <1>3, <2>2, <2>3, <2>4, PollOurs
  <2>6. net.sock = "up" =>
          /\ InStep(o.io)'
          /\ o.st = "Ok" /\ Own(msg.io.req, o.io.rx[1]) =>
               Drained' /\ Effect(msg.io.req, o.io.rx[1].pkt, cip')
    <3>1. InStep(msg.io)
      BY DEF ConnInv, ForwardInv
    <3> QED BY <1>0, <2>1, <3>1, TransactInStep
  <2>7. InStep(o.io)'
    BY <2>5, <2>6 DEF InStep
  <2>8. ms = "Pending" => msg'.io.req = msg.io.req /\ InStep(msg.io)'
    <3> SUFFICES ASSUME ms = "Pending" PROVE msg'.io.req = msg.io.req /\ InStep(msg.io)'
      OBVIOUS
    <3>1. msg'.io = o.io
      BY <2>3
    <3> QED BY <2>2, <2>7, <3>1 DEF InStep, ToServer, ToClient
  <2>9. ASSUME ms = "Ok"
        PROVE  /\ MsgReply(msg').tag \in Payload
               /\ net.sock = "up" =>
                    /\ Drained'
                    /\ MsgReply(msg').status # "encapErr"
                    /\ Effect(msg.io.req, MsgReply(msg'), cip')
    <3>1. o.st = "Ok" /\ ParseOK(o.io.req, o.io.rx) /\ msg'.io = o.io
      BY <2>1, <2>3, <2>9
    <3>2. MsgReply(msg') = o.io.rx[1].pkt
      BY <3>1 DEF MsgReply
    <3>3. Own(msg.io.req, o.io.rx[1]) /\ o.io.rx[1].pkt.status # "encapErr"
      BY <2>2, <3>1 DEF Own, ParseOK, ConnInv, ForwardInv
    <3>4. o \in Outcomes /\ Len(o.io.rx) = Frags
      BY <1>0, <3>1, TransactType
    <3>5. o.io.rx[1].pkt \in Pkts(msg'.io.rx)
      BY <3>1, <3>4, PktsHead DEF Outcomes, Io
    <3>6. MsgReply(msg').tag \in Payload
      BY <2>5, <3>2, <3>5 DEF WayInv, Ours
    <3> QED BY <2>6, <3>1, <3>2, <3>3, <3>6
  <2> QED BY <1>1, <1>2, <2>3, <2>5, <2>8, <2>9
<1> QED BY <1>4, <1>5

LEMMA OpeningStep ==
  ASSUME ConnInv, conn.state = "Opening", NEW st, PollOpening(st), UNCHANGED <<srv, cip>>
  PROVE  ConnInv'
<1>1. PICK ms : /\ MsgPoll(ms)
                /\ \/ ms = "Pending" /\ UNCHANGED conn
                   \/ /\ ms = "Ok" /\ OpenReplyOK(MsgReply(msg'))
                      /\ conn' = [conn EXCEPT !.state = "Open", !.to = MsgReply(msg').tag.to]
                   \/ ms # "Pending" /\ conn' = [conn EXCEPT !.state = "Failed"]
  BY DEF PollOpening
<1>2. MsgBusy /\ ConnTypeOK
  BY DEF ConnInv, OneExchange, TypeOK
<1>3. conn'.context = conn.context /\ conn'.io = conn.io /\ conn'.ot = conn.ot
  BY <1>1, <1>2 DEF ConnTypeOK
<1>4. /\ TransportTypeOK' /\ MsgTypeOK' /\ WayInv' /\ net'.sock = net.sock
      /\ ms = "Pending" => /\ MsgBusy' /\ msg'.io.req = msg.io.req
                           /\ msg'.context = msg.context /\ InStep(msg.io)'
      /\ ms # "Pending" => ~MsgBusy'
      /\ ms = "Ok" => /\ MsgReply(msg').tag \in Payload
                      /\ net.sock = "up" =>
                           /\ Drained'
                           /\ MsgReply(msg').status # "encapErr"
                           /\ Effect(msg.io.req, MsgReply(msg'), cip')
  BY <1>1, <1>2, <1>3, ForwardPoll
<1>5. ConnTypeOK' => TypeOK'
  BY <1>4 DEF ConnInv, TypeOK, PlcTypeOK, TargetTypeOK
<1>6. CASE ms = "Pending" /\ UNCHANGED conn
  <2>1. TypeOK'
    BY <1>2, <1>5, <1>6 DEF ConnTypeOK
  <2>2. ForwardInv'
    BY <1>2, <1>4, <1>6 DEF ConnInv, ForwardInv
  <2>3. OneExchange' /\ SendInv' /\ RestInv' /\ IdsAgree' /\ ClosedWasAsked'
    BY <1>4, <1>6 DEF OneExchange, SendInv, RestInv, IdsAgree, ClosedWasAsked
  <2> QED BY <1>4, <2>1, <2>2, <2>3 DEF ConnInv
<1>7. CASE /\ ms = "Ok" /\ OpenReplyOK(MsgReply(msg'))
           /\ conn' = [conn EXCEPT !.state = "Open", !.to = MsgReply(msg').tag.to]
  <2>1. MsgReply(msg').tag.to \in ConnIds \cup {0}
    BY <1>4, <1>7 DEF Payload
  <2>2. ConnTypeOK' /\ conn'.state = "Open" /\ conn'.to = MsgReply(msg').tag.to
    BY <1>2, <1>7, <2>1 DEF ConnTypeOK
  <2>3. RestInv'
    BY <1>4, <1>7 DEF RestInv
  <2>4. IdsAgree'
    <3>1. MsgReply(msg').status = "ok" /\ MsgReply(msg').tag.ot = conn.ot
      BY <1>7 DEF OpenReplyOK
    <3>2. msg.io.req.tag.svc = "ForwardOpen"
      BY <1>2, BodyTypes DEF ConnInv, ForwardInv, ConnTypeOK
    <3>3. net.sock = "up" =>
            cip' = NoCip \/ (cip'.ot = conn.ot /\ cip'.to = MsgReply(msg').tag.to)
      BY <1>4, <1>7, <3>1, <3>2 DEF Effect
    <3> QED BY <1>3, <1>4, <2>2, <3>3 DEF IdsAgree
  <2>5. OneExchange' /\ ForwardInv' /\ SendInv' /\ ClosedWasAsked'
    BY <1>4, <1>7, <2>2 DEF OneExchange, ForwardInv, SendInv, ClosedWasAsked
  <2> QED BY <1>4, <1>5, <2>2, <2>3, <2>4, <2>5 DEF ConnInv
<1>8. CASE ms # "Pending" /\ conn' = [conn EXCEPT !.state = "Failed"]
  <2>1. ConnTypeOK' /\ conn'.state = "Failed"
    BY <1>2, <1>8 DEF ConnTypeOK
  <2>2. OneExchange' /\ ForwardInv' /\ SendInv' /\ RestInv' /\ IdsAgree' /\ ClosedWasAsked'
    BY <1>4, <1>8, <2>1
       DEF OneExchange, ForwardInv, SendInv, RestInv, IdsAgree, ClosedWasAsked
  <2> QED BY <1>4, <1>5, <2>1, <2>2 DEF ConnInv
<1> QED BY <1>1, <1>6, <1>7, <1>8

LEMMA ClosingStep ==
  ASSUME ConnInv, conn.state = "Closing", NEW st, PollClosing(st), UNCHANGED <<srv, cip>>
  PROVE  ConnInv'
<1>1. /\ MsgPoll(st)
      /\ \/ st = "Pending" /\ UNCHANGED conn
         \/ st = "Ok" /\ conn' = [conn EXCEPT !.state = "Closed"]
         \/ st # "Pending" /\ conn' = [conn EXCEPT !.state = "Failed"]
  BY DEF PollClosing
<1>2. MsgBusy /\ ConnTypeOK
  BY DEF ConnInv, OneExchange, TypeOK
<1>3. conn'.context = conn.context /\ conn'.io = conn.io /\ conn'.ot = conn.ot
  BY <1>1, <1>2 DEF ConnTypeOK
<1>4. /\ TransportTypeOK' /\ MsgTypeOK' /\ WayInv' /\ net'.sock = net.sock
      /\ st = "Pending" => /\ MsgBusy' /\ msg'.io.req = msg.io.req
                           /\ msg'.context = msg.context /\ InStep(msg.io)'
      /\ st # "Pending" => ~MsgBusy'
      /\ st = "Ok" /\ net.sock = "up" =>
                        /\ Drained'
                        /\ MsgReply(msg').status # "encapErr"
                        /\ Effect(msg.io.req, MsgReply(msg'), cip')
  BY <1>1, <1>2, <1>3, ForwardPoll
<1>5. ConnTypeOK' => TypeOK'
  BY <1>4 DEF ConnInv, TypeOK, PlcTypeOK, TargetTypeOK
<1>6. CASE st = "Pending" /\ UNCHANGED conn
  <2>1. TypeOK'
    BY <1>2, <1>5, <1>6 DEF ConnTypeOK
  <2>2. ForwardInv'
    BY <1>2, <1>4, <1>6 DEF ConnInv, ForwardInv, CloseBody
  <2>3. OneExchange' /\ SendInv' /\ RestInv' /\ IdsAgree' /\ ClosedWasAsked'
    BY <1>4, <1>6 DEF OneExchange, SendInv, RestInv, IdsAgree, ClosedWasAsked
  <2> QED BY <1>4, <2>1, <2>2, <2>3 DEF ConnInv
<1>7. CASE st = "Ok" /\ conn' = [conn EXCEPT !.state = "Closed"]
  <2>1. ConnTypeOK' /\ conn'.state = "Closed"
    BY <1>2, <1>7 DEF ConnTypeOK
  <2>2. RestInv'
    BY <1>4, <1>7 DEF RestInv
  <2>3. ClosedWasAsked'
    <3>1. msg.io.req.tag.svc = "ForwardClose"
      BY <1>2, BodyTypes DEF ConnInv, ForwardInv
    <3>2. net.sock = "up" => ~cip'.wanted
      BY <1>4, <1>7, <3>1 DEF Effect
    <3> QED BY <1>4, <3>2 DEF ClosedWasAsked
  <2>4. OneExchange' /\ ForwardInv' /\ SendInv' /\ IdsAgree'
    BY <1>4, <1>7, <2>1 DEF OneExchange, ForwardInv, SendInv, IdsAgree
  <2> QED BY <1>4, <1>5, <2>1, <2>2, <2>3, <2>4 DEF ConnInv
<1>8. CASE st # "Pending" /\ conn' = [conn EXCEPT !.state = "Failed"]
  <2>1. ConnTypeOK' /\ conn'.state = "Failed"
    BY <1>2, <1>8 DEF ConnTypeOK
  <2>2. OneExchange' /\ ForwardInv' /\ SendInv' /\ RestInv' /\ IdsAgree' /\ ClosedWasAsked'
    BY <1>4, <1>8, <2>1
       DEF OneExchange, ForwardInv, SendInv, RestInv, IdsAgree, ClosedWasAsked
  <2> QED BY <1>4, <1>5, <2>1, <2>2 DEF ConnInv
<1> QED BY <1>1, <1>6, <1>7, <1>8

LEMMA SendingStep ==
  ASSUME ConnInv, conn.state = "Sending", NEW st, PollSending(st), UNCHANGED <<srv, cip, msg>>
  PROVE  ConnInv'
<1>0. /\ TransportTypeOK /\ PlcTypeOK /\ MsgTypeOK /\ ConnTypeOK
      /\ conn.io \in Io /\ conn.io.req \in Packet
  BY DEF ConnInv, TypeOK, ConnTypeOK, Io
<1>1. ~MsgBusy /\ ~MsgBusy'
  BY DEF ConnInv, OneExchange, MsgBusy
<1>2. Ours(conn.io.req)
  <2>1. conn.io.req.command = "SendUnitData" /\ conn.io.req.context + 1 = conn.context
        /\ conn.io.req.tag \in Payload
    BY DEF ConnInv, SendInv
  <2>2. conn.io.req.context \in Nat
    BY <1>0, WireAssumption DEF Packet
  <2>3. conn.io.req.context < conn.context
    BY <2>1, <2>2
  <2> QED BY <2>1, <2>3 DEF Ours
<1>3. ASSUME TransportTypeOK', Moved(conn.io.req), conn'.context = conn.context
      PROVE  /\ ConnTypeOK' => TypeOK'
             /\ WayInv' /\ net'.sock = net.sock /\ Inbound' \subseteq Inbound \cup {conn.io.req}
  <2>1. WayInv' /\ net'.sock = net.sock /\ Inbound' \subseteq Inbound \cup {conn.io.req}
    BY <1>0, <1>2, <1>3, PollOurs
  <2>2. ConnTypeOK' => TypeOK'
    BY <1>3 DEF ConnInv, TypeOK, PlcTypeOK, TargetTypeOK, MsgTypeOK
  <2> QED BY <2>1, <2>2
<1>4. ASSUME TransportTypeOK', Moved(conn.io.req), conn'.context = conn.context,
             ConnTypeOK', conn'.state = "Failed"
      PROVE  ConnInv'
  <2>1. TypeOK' /\ WayInv'
    BY <1>3, <1>4
  <2>2. OneExchange' /\ ForwardInv' /\ SendInv' /\ RestInv' /\ IdsAgree' /\ ClosedWasAsked'
    BY <1>1, <1>4 DEF OneExchange, ForwardInv, SendInv, RestInv, IdsAgree, ClosedWasAsked
  <2> QED BY <2>1, <2>2 DEF ConnInv
<1>5. CASE conn.timer = 0
  <2>1. conn' = [conn EXCEPT !.state = "Failed", !.io = NoIo] /\ UNCHANGED <<tcp, net>>
    BY <1>5 DEF PollSending, ConnExpired
  <2>2. TransportTypeOK' /\ Moved(conn.io.req)
    BY <1>0, <2>1, NotMoved DEF TransportTypeOK
  <2>3. ConnTypeOK' /\ conn'.context = conn.context /\ conn'.state = "Failed"
    BY <1>0, <2>1, NoIoType DEF ConnTypeOK
  <2> QED BY <1>4, <2>2, <2>3
<1>6. CASE conn.timer # 0
  <2>1. PICK o \in Transact(conn.io) :
          /\ Apply(o, FALSE)
          /\ \/ o.st = "Pending" /\ conn' = [conn EXCEPT !.io = o.io]
             \/ conn' = [conn EXCEPT !.state = "Failed", !.timer = 0, !.io = NoIo]
             \/ /\ o.st = "Ok" /\ ConnectedReplyOK(o.io)
                /\ conn' = [conn EXCEPT !.state = "Open", !.timer = 0, !.io = o.io]
    BY <1>6 DEF PollSending, ConnExpired
  <2>2. o \in Outcomes /\ o.io \in Io
    BY <1>0, TransactType DEF Outcomes
  <2>3. TransportTypeOK' /\ Moved(conn.io.req) /\ o.io.req = conn.io.req
    BY <1>0, <2>1, <2>2, ApplyType, ApplyFlow
  <2>4. net.sock = "up" =>
          /\ InStep(o.io)'
          /\ o.st = "Ok" /\ Own(conn.io.req, o.io.rx[1]) =>
               Drained' /\ Effect(conn.io.req, o.io.rx[1].pkt, cip')
    <3>1. InStep(conn.io)
      BY DEF ConnInv, SendInv
    <3> QED BY <1>0, <2>1, <3>1, TransactInStep
  <2>5. /\ conn'.context = conn.context /\ conn'.ot = conn.ot /\ conn'.to = conn.to
        /\ ConnTypeOK'
    <3>1. CASE conn' = [conn EXCEPT !.io = o.io]
      BY <1>0, <2>2, <3>1 DEF ConnTypeOK
    <3>2. CASE conn' = [conn EXCEPT !.state = "Failed", !.timer = 0, !.io = NoIo]
      BY <1>0, <3>2, NoIoType DEF ConnTypeOK
    <3>3. CASE conn' = [conn EXCEPT !.state = "Open", !.timer = 0, !.io = o.io]
      BY <1>0, <2>2, <3>3 DEF ConnTypeOK
    <3> QED BY <2>1, <3>1, <3>2, <3>3
  <2>6. /\ TypeOK' /\ WayInv' /\ net'.sock = net.sock
        /\ Inbound' \subseteq Inbound \cup {conn.io.req}
    BY <1>3, <2>3, <2>5
  <2>7. CASE o.st = "Pending" /\ conn' = [conn EXCEPT !.io = o.io]
    <3>1. conn'.state = "Sending" /\ conn'.io = o.io
      BY <1>0, <2>7 DEF ConnTypeOK
    <3>2. InStep(o.io)'
      BY <2>4, <2>6 DEF InStep
    <3>3. InStep(conn.io)'
      BY <3>1, <3>2 DEF InStep, ToServer, ToClient
    <3>4. SendInv'
      BY <2>3, <2>5, <2>6, <3>1, <3>3 DEF ConnInv, SendInv
    <3>5. IdsAgree'
      BY <2>5, <2>6, <3>1 DEF ConnInv, IdsAgree
    <3>6. OneExchange' /\ ForwardInv' /\ RestInv' /\ ClosedWasAsked'
      BY <1>1, <3>1 DEF OneExchange, ForwardInv, RestInv, ClosedWasAsked
    <3> QED BY <2>6, <3>4, <3>5, <3>6 DEF ConnInv
  <2>8. CASE conn' = [conn EXCEPT !.state = "Failed", !.timer = 0, !.io = NoIo]
    <3>1. conn'.state = "Failed"
      BY <1>0, <2>8 DEF ConnTypeOK
    <3> QED BY <1>4, <2>3, <2>5, <3>1
  <2>9. CASE /\ o.st = "Ok" /\ ConnectedReplyOK(o.io)
             /\ conn' = [conn EXCEPT !.state = "Open", !.timer = 0, !.io = o.io]
    <3>1. conn'.state = "Open"
      BY <1>0, <2>9 DEF ConnTypeOK
    <3>2. Own(conn.io.req, o.io.rx[1])
      BY <2>3, <2>9 DEF Own, ConnectedReplyOK, ConnInv, SendInv
    <3>3. RestInv'
      BY <2>4, <2>6, <2>9, <3>2 DEF RestInv
    <3>4. IdsAgree'
      BY <2>5, <2>6, <3>1 DEF ConnInv, IdsAgree
    <3>5. OneExchange' /\ ForwardInv' /\ SendInv' /\ ClosedWasAsked'
      BY <1>1, <3>1 DEF OneExchange, ForwardInv, SendInv, ClosedWasAsked
    <3> QED BY <2>6, <3>3, <3>4, <3>5 DEF ConnInv
  <2> QED BY <2>1, <2>7, <2>8, <2>9
<1> QED BY <1>5, <1>6

LEMMA PollStep ==
  ASSUME ConnInv, Poll
  PROVE  ConnInv'
<1>1. PICK st \in Status : ConnPoll(st) /\ UNCHANGED <<srv, cip>>
  BY DEF Poll
<1>2. CASE conn.state = "Opening" /\ PollOpening(st)
  BY <1>1, <1>2, OpeningStep
<1>3. CASE conn.state = "Sending" /\ PollSending(st) /\ UNCHANGED msg
  BY <1>1, <1>3, SendingStep
<1>4. CASE conn.state = "Closing" /\ PollClosing(st)
  BY <1>1, <1>4, ClosingStep
<1>5. CASE UNCHANGED <<tcp, net, msg, conn>>
  BY <1>1, <1>5, StutterStep DEF vars
<1> QED BY <1>1, <1>2, <1>3, <1>4, <1>5 DEF ConnPoll

-----------------------------------------------------------------------------
(* The invariant.                                                          *)

LEMMA InvInit == Init => ConnInv
<1> SUFFICES ASSUME Init PROVE ConnInv
  OBVIOUS
<1>1. /\ tcp = [fd |-> TRUE, state |-> "Ok", timer |-> 0]
      /\ net = [sock |-> "up", c2s |-> << >>, s2c |-> << >>]
      /\ srv = [reg |-> Handle, rx |-> << >>, out |-> << >>]
      /\ cip = [ot |-> 0, to |-> 0, wanted |-> FALSE]
      /\ msg = [state |-> "Idle", context |-> 1, timer |-> 0, io |-> NoIo]
      /\ conn = [state |-> "Idle", ot |-> 0, to |-> 0, seq |-> 1,
                 context |-> 1, timer |-> 0, io |-> NoIo]
  BY DEF Init, Wire, SrvFresh, TargetInit, NoCip, MsgInit, ConnInit
<1>2. /\ << >> \in Stream(SndBuf) /\ << >> \in Stream(RcvBuf) /\ << >> \in Stream(Frags)
      /\ 1 \in 0 .. CtxMod - 1 /\ 1 \in 0 .. SeqMod - 1
  BY EmptyStream, WireAssumption, ConnectionAssumption
<1>3. TypeOK
  <2>1. TransportTypeOK
    BY <1>1, <1>2 DEF TransportTypeOK
  <2>2. PlcTypeOK
    BY <1>1, <1>2, HandleType DEF PlcTypeOK
  <2>3. TargetTypeOK
    BY <1>1 DEF TargetTypeOK
  <2>4. MsgTypeOK
    BY <1>1, <1>2, NoIoType DEF MsgTypeOK
  <2>5. ConnTypeOK
    BY <1>1, <1>2, NoIoType DEF ConnTypeOK
  <2> QED BY <2>1, <2>2, <2>3, <2>4, <2>5 DEF TypeOK
<1>4. ~MsgBusy /\ conn.state = "Idle"
  BY <1>1 DEF MsgBusy
<1>5. WayInv
  <2>1. Pkts(msg.io.rx) = {} /\ OnTheWay = {}
    BY <1>1, PktsEmpty DEF OnTheWay, Inbound, NoIo, NewIo
  <2> QED BY <1>1, <2>1 DEF WayInv
<1>6. OneExchange /\ ForwardInv /\ SendInv /\ RestInv /\ IdsAgree /\ ClosedWasAsked
  BY <1>4 DEF OneExchange, ForwardInv, SendInv, RestInv, IdsAgree, ClosedWasAsked
<1> QED BY <1>3, <1>5, <1>6 DEF ConnInv

LEMMA InvNext == ConnInv /\ [Next]_vars => ConnInv'
<1> SUFFICES ASSUME ConnInv, [Next]_vars PROVE ConnInv'
  OBVIOUS
<1>1. CASE Open    BY <1>1, OpenStep
<1>2. CASE Send    BY <1>2, SendStep
<1>3. CASE Close   BY <1>3, CloseStep
<1>4. CASE Poll    BY <1>4, PollStep
<1>5. CASE Tick    BY <1>5, TickStep
<1>6. CASE Network BY <1>6, NetworkStep
<1>7. CASE UNCHANGED vars BY <1>7, StutterStep
<1> QED BY <1>1, <1>2, <1>3, <1>4, <1>5, <1>6, <1>7 DEF Next

LEMMA InvHolds == Spec => []ConnInv
<1> QED BY InvInit, InvNext, PTL DEF Spec

(* Connection (Connection.cpp), ExplicitMessage and the streams keep to    *)
(* their types: no buffer outgrows its bound, whatever the target sends.   *)
THEOREM TypeCorrect == Spec => []TypeOK
<1>1. ConnInv => TypeOK
  BY DEF ConnInv
<1> QED BY <1>1, InvHolds, PTL

(* fwd_ has a request in flight exactly while the connection opens or      *)
(* closes, so a data exchange has the byte stream for itself.              *)
THEOREM OneExchangeHolds == Spec => []OneExchange
<1>1. ConnInv => OneExchange
  BY DEF ConnInv
<1> QED BY <1>1, InvHolds, PTL

(* The IDs an open Connection holds are those of the connection the target *)
(* keeps, if it keeps one: a late answer to a Forward Open that was given  *)
(* up is never taken for the one of the current open().                    *)
THEOREM IdsAgreeHolds == Spec => []IdsAgree
<1>1. ConnInv => IdsAgree
  BY DEF ConnInv
<1> QED BY <1>1, InvHolds, PTL

(* When open() or send() has ended well nothing is left in the socket      *)
(* buffers or at the server.                                               *)
THEOREM OpenIsDrainedHolds == Spec => []OpenIsDrained
<1>1. ConnInv => OpenIsDrained
  BY DEF ConnInv, RestInv, Drained, OpenIsDrained
<1> QED BY <1>1, InvHolds, PTL

(* close() that ends in Closed says that the target was asked to drop the  *)
(* connection it has; whether it did is not known, since pollClosing()     *)
(* does not look at the status of the reply.  The reply is that of this    *)
(* close(): a late one to another request never ends it.                   *)
THEOREM ClosedWasAskedHolds == Spec => []ClosedWasAsked
<1>1. ConnInv => ClosedWasAsked
  BY DEF ConnInv
<1> QED BY <1>1, InvHolds, PTL

=============================================================================
