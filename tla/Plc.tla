-------------------------------- MODULE Plc --------------------------------
(***************************************************************************)
(* The network and the EtherNet/IP server at its other end: any server     *)
(* that answers requests in order, copies the sender context into its      *)
(* reply and may be slow, silent, or gone at any time.  What it does       *)
(* includes what tools/synthetic_eip_server.py does; a ControlLogix        *)
(* controller may also refuse what that server accepts.                    *)
(***************************************************************************)
EXTENDS Transport

VARIABLE srv   \* the server's end of the current connection

SrvFresh == [reg |-> 0, rx |-> << >>, out |-> << >>]

PlcInit == srv = SrvFresh

PlcTypeOK == srv \in [reg : Handles \cup {0}, rx : Stream(Frags), out : Stream(Frags)]

-----------------------------------------------------------------------------
Reply(p, h, status) == [p EXCEPT !.session = h, !.status = status]

(* The request is one of the session registered on this connection.        *)
InSession(p) == srv.reg # 0 /\ p.session = srv.reg

(* The replies to packet p, each with the session the server then keeps.   *)
(* RegisterSession gets a handle, the same one as long as it is            *)
(* registered, or an error.  A request out of session is refused, or       *)
(* answered all the same, as the server under tools/ does, which does not  *)
(* look at the handle; no class of the library looks at the handle of such *)
(* a reply.  (SendUnitData is the business of module Target.)              *)
Answers(p) ==
  CASE p.command = "RegisterSession" ->
         {[reg |-> h, reply |-> Reply(p, h, "ok")] :
            h \in IF srv.reg = 0 THEN Handles ELSE {srv.reg}}
         \cup {[reg |-> srv.reg, reply |-> Reply(p, 0, "encapErr")]}
    [] p.command = "UnregisterSession" ->
         {[reg |-> 0, reply |-> Reply(p, 0, "ok")]}
    [] p.command \in {"SendRRData", "SendUnitData"} ->
         {[reg |-> srv.reg, reply |-> Reply(p, srv.reg, s)] : s \in {"ok", "empty", "cipErr"}}
         \cup (IF InSession(p) THEN {}
               ELSE {[reg |-> srv.reg, reply |-> Reply(p, 0, "encapErr")]})

(* The connect request is accepted or refused.                             *)
PlcAccept ==
  /\ net.sock = "connecting"
  /\ \E s \in {"up", "refused"} : net' = [net EXCEPT !.sock = s]
  /\ srv' = SrvFresh
  /\ UNCHANGED tcp

(* One fragment arrives; the last one of a packet completes a request.     *)
(* Fragments that do not form a packet are dropped, or refused with the    *)
(* context of the header they begin with.                                  *)
PlcReceive ==
  /\ net.sock = "up" /\ net.c2s # << >> /\ srv.out = << >>
  /\ LET rx == Append(srv.rx, Head(net.c2s))
     IN  \/ /\ Len(rx) < Frags
            /\ srv' = [srv EXCEPT !.rx = rx]
         \/ /\ Len(rx) = Frags /\ Intact(rx)
            /\ \E a \in Answers(rx[1].pkt) :
                 srv' = [reg |-> a.reg, rx |-> << >>, out |-> Fragments(a.reply)]
         \/ /\ Len(rx) = Frags /\ ~Intact(rx)
            /\ \/ srv' = [srv EXCEPT !.rx = << >>]
               \/ srv' = [srv EXCEPT !.rx = << >>,
                                     !.out = Fragments(Reply(rx[1].pkt, 0, "encapErr"))]
  /\ net' = [net EXCEPT !.c2s = Tail(net.c2s)]
  /\ UNCHANGED tcp

(* One fragment of the reply reaches the client.                           *)
PlcSend ==
  /\ net.sock = "up" /\ srv.out # << >> /\ Len(net.s2c) < RcvBuf
  /\ net' = [net EXCEPT !.s2c = Append(net.s2c, Head(srv.out))]
  /\ srv' = [srv EXCEPT !.out = Tail(srv.out)]
  /\ UNCHANGED tcp

(* The server closes the connection, in good order (what it sent before    *)
(* can still be read) or by a reset (everything in the streams is lost).   *)
PlcClose ==
  /\ net.sock = "up"
  /\ \/ net' = [net EXCEPT !.sock = "fin", !.c2s = << >>]
     \/ net' = Wire("reset")
  /\ srv' = SrvFresh
  /\ UNCHANGED tcp

PlcNext == PlcAccept \/ PlcReceive \/ PlcSend \/ PlcClose

=============================================================================
