------------------------------- MODULE Target -------------------------------
(***************************************************************************)
(* The server's side of connected messaging.  The server keeps at most one *)
(* CIP connection of this client (Forward Open always names the same       *)
(* serial number) and may keep it through anything: a Forward Close that   *)
(* it answers or refuses, the end of the session, a new TCP connection.    *)
(* The one of tools/synthetic_eip_server.py drops none, a controller drops *)
(* one at a Forward Close or when its own watchdog fires.                  *)
(***************************************************************************)
EXTENDS Plc, Connection

VARIABLE cip   \* the connection the server keeps, with both IDs, 0 if none

(* wanted is history: no Forward Close has arrived since it was opened.    *)
NoCip == [ot |-> 0, to |-> 0, wanted |-> FALSE]

TargetInit == cip = NoCip

TargetTypeOK ==
  cip \in [ot : ConnIds \cup {0}, to : ConnIds \cup {0}, wanted : BOOLEAN]

-----------------------------------------------------------------------------
(* An answer to p: the connection that is kept then, and the reply.        *)
Say(p, kept, status, body) ==
  [cip |-> kept, out |-> Fragments([p EXCEPT !.status = status, !.tag = body])]
Silent == [cip |-> cip, out |-> << >>]

(* The new connection and the answer that tells its ID.                    *)
Opened(p, to) ==
  Say(p, [ot |-> p.tag.ot, to |-> to, wanted |-> TRUE], "ok", [p.tag EXCEPT !.to = to])

(* The connection that is kept although Forward Close asked to end it.     *)
Unwanted == [ot |-> cip.ot, to |-> cip.to, wanted |-> FALSE]

(* Forward Open replaces the connection or is refused.  Forward Close ends *)
(* it, is refused, or is answered and does nothing.  Data for another      *)
(* connection is dropped without an answer.                                *)
Served(p) ==
  CASE p.tag.svc = "ForwardOpen" ->
         {Opened(p, to) : to \in ConnIds} \cup {Say(p, cip, s, p.tag) : s \in {"cipErr", "empty"}}
    [] p.tag.svc = "ForwardClose" ->
         {Say(p, kept, s, p.tag) : kept \in {NoCip, Unwanted}, s \in {"ok", "cipErr"}}
    [] p.tag.svc = "Data" ->
         IF p.tag.ot = cip.ot
           THEN {Say(p, cip, s, [p.tag EXCEPT !.ot = 0, !.to = cip.to]) : s \in {"ok", "cipErr"}}
           ELSE {Silent}

(* What is out of session may also be refused or dropped.                  *)
ConnAnswers(p) ==
  Served(p) \cup (IF InSession(p) THEN {} ELSE {Silent, Say(p, cip, "encapErr", p.tag)})

(* One fragment arrives.  What is no CIP request goes the way of module    *)
(* Plc.                                                                    *)
TargetReceive ==
  LET rx == IF net.c2s = << >> THEN srv.rx ELSE Append(srv.rx, Head(net.c2s))
      request == /\ Len(rx) = Frags /\ Intact(rx)
                 /\ rx[1].pkt.command \in {"SendRRData", "SendUnitData"}
  IN  \/ ~request /\ PlcReceive /\ UNCHANGED cip
      \/ /\ net.sock = "up" /\ net.c2s # << >> /\ srv.out = << >>
         /\ request
         /\ \E a \in ConnAnswers(rx[1].pkt) :
              /\ srv' = [srv EXCEPT !.rx = << >>, !.out = a.out]
              /\ cip' = a.cip
         /\ net' = [net EXCEPT !.c2s = Tail(net.c2s)]
         /\ UNCHANGED tcp

(* The server gives the connection up: by its watchdog, or with the        *)
(* session or the TCP connection if it is one that does so.                *)
TargetDrop == cip # NoCip /\ cip' = NoCip /\ UNCHANGED <<tcp, net, srv>>

TargetNext ==
  \/ TargetReceive
  \/ (PlcSend \/ PlcAccept \/ PlcClose) /\ UNCHANGED cip
  \/ TargetDrop

=============================================================================
