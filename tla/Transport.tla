----------------------------- MODULE Transport -----------------------------
(***************************************************************************)
(* The TCP transport of the client (transport/TcpConnection) and the       *)
(* socket it drives.                                                       *)
(*                                                                         *)
(* A packet is one EtherNet/IP encapsulation packet.  TCP may split it, so *)
(* the byte streams carry fragments: a packet is Frags of them.  The       *)
(* first one holds the encapsulation header.                               *)
(*                                                                         *)
(* Time.  A deadline_ of the code, compared with millis(), is a countdown: *)
(* the number of ticks left, 0 once (int32_t)(millis() - deadline_) >= 0.  *)
(* Module Clock shows when the modular comparison is that countdown.       *)
(***************************************************************************)
EXTENDS Naturals, Sequences

CONSTANTS
  Frags,           \* fragments per packet
  SndBuf,          \* fragments that fit between the client and the peer
  RcvBuf,          \* fragments that fit between the peer and the client
  Names,           \* what a CIP request is about: a symbolic tag, a connection
  NoName,          \* the name in a packet that is about none of them
  Handles,         \* session handles a PLC hands out, none of them 0
  CtxMod,          \* size of the sender context counter (2^64 in the code)
  ConnectTimeout,  \* timeoutMs of connect(), in ticks
  OpTimeout        \* timeoutMs of read() and write(), in ticks

ASSUME WireAssumption ==
  /\ Frags \in Nat \ {0}
  /\ SndBuf \in Nat \ {0}
  /\ RcvBuf \in Nat \ {0}
  /\ CtxMod \in Nat \ {0, 1}
  /\ NoName \notin Names
  /\ Handles \subseteq Nat \ {0}

ASSUME TimeoutAssumption ==
  /\ ConnectTimeout \in Nat
  /\ OpTimeout \in Nat

VARIABLES
  tcp,   \* the TcpConnection object
  net    \* the socket and the two byte streams (outside the client)

-----------------------------------------------------------------------------
(* Packets, fragments and the I/O state of one exchange.                   *)

Smaller(a, b) == IF a <= b THEN a ELSE b

Dec(t) == IF t = 0 THEN 0 ELSE t - 1

Status == {"Ok", "Pending", "Error", "Timeout", "Closed", "NotReady", "Busy",
           "NoMemory", "InvalidArg"}

Command == {"RegisterSession", "UnregisterSession", "SendRRData", "SendUnitData"}

(* A reply carries the encapsulation status and, for the Send commands, the *)
(* CIP general status: "encapErr" is a nonzero encapsulation status, "cipErr"  *)
(* a nonzero CIP status in a well-formed reply, "empty" success with no    *)
(* tag data.                                                               *)
Packet == [command : Command,
           session : Handles \cup {0},
           context : 0 .. CtxMod - 1,
           tag     : Names \cup {NoName},
           status  : {"ok", "empty", "encapErr", "cipErr"}]

Fragment == [pkt : Packet, part : 1 .. Frags]

Fragments(p) == [k \in 1 .. Frags |-> [pkt |-> p, part |-> k]]

(* Streams that hold at most n fragments.                                  *)
Stream(n) == {s \in Seq(Fragment) : Len(s) <= n}

(* tx_/txLen_/txSent_ and rx_/rxLen_/rxExpected_ of one exchange.          *)
Io == [req : Packet, sent : 0 .. Frags, rx : Stream(Frags)]

NewIo(p) == [req |-> p, sent |-> 0, rx |-> << >>]

(* The buffers while no exchange uses them.                                *)
NoIo == NewIo([command |-> "RegisterSession", session |-> 0, context |-> 1,
               tag |-> NoName, status |-> "ok"])

(* The received fragments are one packet, from its header on.              *)
Intact(rx) == rx = Fragments(rx[1].pkt)

-----------------------------------------------------------------------------
(* TcpConnection *)

TcpClosed == [fd |-> FALSE, state |-> "Closed", timer |-> 0]

Wire(s) == [sock |-> s, c2s |-> << >>, s2c |-> << >>]

TransportInit ==
  /\ tcp = TcpClosed
  /\ net = Wire("none")

TransportTypeOK ==
  /\ tcp \in [fd : BOOLEAN, state : {"Ok", "Pending", "Closed"}, timer : Nat]
  /\ net \in [sock : {"none", "connecting", "up", "refused", "fin", "reset"},
              c2s  : Stream(SndBuf),
              s2c  : Stream(RcvBuf)]

Connected(conn) == conn.state = "Ok"

(* connect(): a previous socket is closed first, then a new one is opened. *)
(* Any of lwip_socket, lwip_fcntl, lwip_connect may fail, and a zero       *)
(* address or port is rejected.                                            *)
TcpConnect(timeout, st) ==
  \/ /\ st = "Pending"
     /\ tcp' = [fd |-> TRUE, state |-> "Pending", timer |-> timeout]
     /\ net' = Wire("connecting")
  \/ /\ st \in {"Error", "InvalidArg"}
     /\ tcp' = IF tcp.fd THEN TcpClosed ELSE tcp
     /\ net' = Wire("none")

TcpClose ==
  /\ tcp' = TcpClosed
  /\ net' = Wire("none")

(* poll(): lwip_select tells whether the connect has finished, SO_ERROR    *)
(* how.  lwip_select and lwip_getsockopt may themselves fail.              *)
TcpPoll(st) ==
  \/ ~tcp.fd /\ st = "Closed" /\ UNCHANGED <<tcp, net>>
  \/ tcp.fd /\ tcp.state = "Ok" /\ st = "Ok" /\ UNCHANGED <<tcp, net>>
  \/ /\ tcp.fd /\ tcp.state # "Ok"
     /\ \/ net.sock = "connecting" /\ tcp.timer > 0
           /\ st = "Pending" /\ UNCHANGED <<tcp, net>>
        \/ net.sock = "connecting" /\ tcp.timer = 0
           /\ st = "Timeout" /\ TcpClose
        \/ net.sock \in {"up", "fin"}
           /\ st = "Ok" /\ tcp' = [tcp EXCEPT !.state = "Ok"]
           /\ UNCHANGED net
        \/ st = "Error" /\ TcpClose

-----------------------------------------------------------------------------
(* The write and read loops that Session and ExplicitMessage share.  Each  *)
(* is the set of its outcomes: the status it returns, the buffers, the     *)
(* state of the connection and the two streams after it.                   *)

Outcome(st, io, state, c2s, s2c) ==
  [st |-> st, io |-> io, state |-> state, c2s |-> c2s, s2c |-> s2c]

(* The outcomes S, possible when p holds.                                  *)
When(p, S) == IF p THEN S ELSE {}

Usable == tcp.fd /\ Connected(tcp)

(* write() until the request is out or the socket buffer is full.  After   *)
(* the peer closed, the first bytes may still be accepted (and lost).      *)
WritePending(io) ==
  LET left == Frags - io.sent
      n    == Smaller(left, SndBuf - Len(net.c2s))
      piece == SubSeq(Fragments(io.req), io.sent + 1, io.sent + n)
      Unwritten(st, state) == Outcome(st, io, state, net.c2s, net.s2c)
      Out(k) == [req |-> io.req, sent |-> k, rx |-> io.rx]
  IN  When(left = 0, {Unwritten("Ok", tcp.state)})
      \cup When(left > 0 /\ ~Usable, {Unwritten("Closed", tcp.state)})
      \cup When(left > 0 /\ Usable /\ net.sock = "fin",
                {Outcome("Ok", Out(Frags), "Ok", net.c2s, net.s2c), Unwritten("Closed", "Closed")})
      \cup When(left > 0 /\ Usable /\ net.sock = "reset",
                {Unwritten("Closed", "Closed"), Unwritten("Error", "Ok")})
      \cup When(left > 0 /\ Usable /\ net.sock \notin {"fin", "reset"},
                {Outcome(IF n = left THEN "Ok" ELSE "Pending", Out(io.sent + n), tcp.state,
                         net.c2s \o piece, net.s2c)})

(* Mutant: reads whatever has arrived, past the end of the response.       *)
ReadableUnbounded(rx, s2c) == Len(s2c)

(* The fragments a read takes: never more than rxExpected_ - rxLen_.       *)
Readable(rx, s2c) == Smaller(Frags - Len(rx), Len(s2c))

(* read() until the response is complete or nothing is left to read.  A    *)
(* "header" that is not one (the stream was left in the middle of a        *)
(* packet) has an arbitrary length field: too large, an error at once, or  *)
(* acceptable, and then the bytes that follow are taken for its body.  The *)
(* acceptable lengths are collapsed into that of a packet: what is read    *)
(* under a wrong header never passes the check of the reply.               *)
ReadResponse(w) ==
  LET rx == w.io.rx
      n  == Readable(rx, w.s2c)
      Took(st, k, state) ==
        Outcome(st, [req |-> w.io.req, sent |-> w.io.sent, rx |-> rx \o SubSeq(w.s2c, 1, k)],
                state, w.c2s, SubSeq(w.s2c, k + 1, Len(w.s2c)))
      full   == Len(rx) + n = Frags
      closed == ~(tcp.fd /\ w.state = "Ok")
      reads  == Len(rx) = Frags \/ (~closed /\ net.sock # "reset")
  IN  When(Len(rx) < Frags /\ closed, {Took("Closed", 0, w.state)})
      \cup When(Len(rx) < Frags /\ ~closed /\ net.sock = "reset", {Took("Error", 0, w.state)})
      \cup When(reads /\ full, {Took("Ok", n, w.state)})
      \cup When(reads /\ ~full /\ net.sock = "fin", {Took("Closed", n, "Closed")})
      \cup When(reads /\ ~full /\ net.sock # "fin", {Took("Pending", n, w.state)})
      \cup When(reads /\ rx = << >> /\ n > 0 /\ w.s2c[1].part # 1,
                {Took("Error", 1, w.state)})

(* writePending() and, once the request is out, readResponse().            *)
Transact(io) ==
  UNION {IF w.st = "Ok" THEN ReadResponse(w) ELSE {w} : w \in WritePending(io)}

(* The request has left the client in the outcome o.                       *)
Written(o) == o.io.sent = Frags

(* The connection after outcome o, or after the close() with which the     *)
(* caller answers it.                                                      *)
Apply(o, close) ==
  IF close
    THEN TcpClose
    ELSE /\ tcp' = [tcp EXCEPT !.state = o.state]
         /\ net' = [net EXCEPT !.c2s = o.c2s, !.s2c = o.s2c]

=============================================================================
