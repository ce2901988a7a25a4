----------------------------- MODULE EthClient -----------------------------
(***************************************************************************)
(* The Ethernet interface (transport/Client).  The ETH driver is external: *)
(* ETH.begin, ETH.config, ETH.linkUp and ETH.hasIP may answer anything.    *)
(***************************************************************************)

VARIABLE eth   \* the Client object

EthInit == eth = [started |-> FALSE, ready |-> FALSE, failed |-> FALSE]

EthTypeOK == eth \in [started : BOOLEAN, ready : BOOLEAN, failed : BOOLEAN]

(* begin(): a running driver is ended first.                               *)
EthBegin(st) ==
  \/ /\ st = "Error"     \* ETH.begin or ETH.config failed
     /\ eth' = [started |-> FALSE, ready |-> FALSE, failed |-> TRUE]
  \/ /\ st = "Pending"
     /\ eth' = [started |-> TRUE, ready |-> FALSE, failed |-> FALSE]

(* poll(): ready_ is latched, a link that is lost later is not noticed.    *)
EthPoll(st) ==
  \/ eth.failed /\ st = "Error" /\ UNCHANGED eth
  \/ ~eth.failed /\ ~eth.started /\ st = "NotReady" /\ UNCHANGED eth
  \/ /\ ~eth.failed /\ eth.started /\ eth.ready
     /\ st = "Ok" /\ UNCHANGED eth
  \/ /\ ~eth.failed /\ eth.started /\ ~eth.ready
     /\ \/ st = "Ok" /\ eth' = [eth EXCEPT !.ready = TRUE]
        \/ st = "Pending" /\ UNCHANGED eth

=============================================================================
