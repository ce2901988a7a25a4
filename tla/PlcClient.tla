----------------------------- MODULE PlcClient -----------------------------
(***************************************************************************)
(* The top-level API (PlcClient) with the stack it owns: Ethernet, TCP,    *)
(* session, the single shared message, and the pool of tags (tag/Tag).     *)
(*                                                                         *)
(* The sketch calls poll() in a loop and the other operations in between.  *)
(* poll() runs to completion except for the tag callback, from which the   *)
(* sketch may call every operation but poll() itself: in state Ready,      *)
(* poll() is one step per slot of the pool and control is with the         *)
(* application at each callback.  The network moves whenever control is    *)
(* with the application; a step of it between two slots of one poll() has  *)
(* the effect of the same step before that poll() or after it, since at    *)
(* most one slot uses the socket (SingleInFlight).  The state callback is  *)
(* the last thing a poll() does: what the sketch calls from it is called   *)
(* as if right after that poll().                                          *)
(***************************************************************************)
EXTENDS Plc, Session, ExplicitMessage, EthClient

CONSTANTS
  kMaxTags,     \* size of the tag pool
  MaxConnects,  \* bound: calls of begin() and connect() in a behaviour
  MaxCreates,   \* bound: calls of createTag()
  MaxOps,       \* bound: requests sent, counted by context_, which starts at 1
  Habits        \* what the application does beyond the documented loop

(* "interrupt": begin, connect, disconnect, destroyTag while a tag         *)
(* operation is in flight.  "rebegin": begin() when Ethernet was started   *)
(* before.  "reconnect": begin() and connect() from the tag callback.      *)
ASSUME ClientAssumption ==
  /\ kMaxTags \in Nat \ {0}
  /\ MaxConnects \in Nat /\ MaxCreates \in Nat /\ MaxOps \in Nat
  /\ Habits \subseteq {"interrupt", "rebegin", "reconnect"}

VARIABLES
  plc,    \* state_, wantConnect_, deadline_
  pool,   \* per slot: inUse_, tagNames_, tagPrevStatus_
  tags,   \* per slot: the Tag object
  ctl,    \* where control is: in the application, or in the loop of poll()
  op,     \* history: what the application was told of the slot's last operation
  calls   \* the calls made that the bounds count

wireVars == <<tcp, net, srv>>
plcVars  == <<plc, eth, session, calls>>
tagVars  == <<pool, tags, op>>
vars     == <<wireVars, plcVars, msg, tagVars, ctl>>

Slots == 0 .. kMaxTags - 1

Init ==
  /\ TransportInit /\ PlcInit /\ SessionInit /\ MsgInit /\ EthInit
  /\ plc  = [state |-> "Idle", want |-> FALSE, timer |-> 0]
  /\ pool = [h \in Slots |-> [inUse |-> FALSE, name |-> NoName, prev |-> "Ok"]]
  /\ tags = [h \in Slots |-> [state |-> "Idle", typed |-> FALSE, valid |-> FALSE, data |-> NoName]]
  /\ ctl  = [at |-> "app", i |-> 0, disc |-> FALSE]
  /\ op   = [h \in Slots |-> "new"]
  /\ calls = [connects |-> 0, creates |-> 0]

-----------------------------------------------------------------------------
(* Tag.  data is the tag whose value is in data_, valid says that dataLen_ *)
(* is not 0, typed that dataType_ is not 0.  (Its bytes: module TagData.)  *)

InFlight(h) == tags[h].state \in {"Reading", "Writing"}

TagStatus == [Reading |-> "Pending", Writing |-> "Pending", Done |-> "Ok",
              Failed |-> "Error", Idle |-> "NotReady"]

(* Tag::read() and startRead(): once the request is accepted, dataLen_ is  *)
(* 0.  The bytes stay.                                                     *)
TagRead(h, st) ==
  \/ InFlight(h) /\ st = "Busy" /\ UNCHANGED <<msg, tags>>
  \/ /\ ~InFlight(h)
     /\ MsgSend(session.handle, pool[h].name, st)
     /\ tags' = IF st = "Pending"
                  THEN [tags EXCEPT ![h].state = "Reading", ![h].valid = FALSE]
                  ELSE tags

(* Tag::write() and startWrite(): the data type must be known.  The size   *)
(* checks return InvalidArg as send() itself does.                         *)
TagWrite(h, st) ==
  \/ ~tags[h].typed /\ st = "NotReady" /\ UNCHANGED <<msg, tags>>
  \/ tags[h].typed /\ InFlight(h) /\ st = "Busy" /\ UNCHANGED <<msg, tags>>
  \/ /\ tags[h].typed /\ ~InFlight(h)
     /\ MsgSend(session.handle, pool[h].name, st)
     /\ tags' = IF st = "Pending" THEN [tags EXCEPT ![h].state = "Writing"] ELSE tags

(* Mutant: the data of any reply is kept, of a write too.                  *)
TagPollStoresWrite(h, st) ==
  \/ ~InFlight(h) /\ st = TagStatus[tags[h].state] /\ UNCHANGED <<tcp, net, msg, tags>>
  \/ /\ InFlight(h)
     /\ \E ms \in Status :
          /\ MsgPoll(ms)
          /\ \/ ms = "Pending" /\ st = "Pending" /\ UNCHANGED tags
             \/ /\ ms \notin {"Pending", "Ok"}
                /\ st = ms
                /\ tags' = [tags EXCEPT ![h].state = "Failed"]
             \/ /\ ms = "Ok" /\ MsgReply(msg').status = "cipErr"
                /\ st = "Error"
                /\ tags' = [tags EXCEPT ![h].state = "Failed"]
             \/ /\ ms = "Ok" /\ MsgReply(msg').status # "cipErr"
                /\ st = "Ok"
                /\ tags' = IF MsgReply(msg').status = "ok"
                             THEN [tags EXCEPT ![h] = [state |-> "Done", typed |-> TRUE,
                                               valid |-> TRUE, data |-> MsgReply(msg').tag]]
                             ELSE [tags EXCEPT ![h].state = "Done"]

(* A read reply with data has a type code of 16 bits, of which 8 are kept: *)
(* the type is known afterwards, or, if these 8 are 0, not.  (A reply with *)
(* nothing but a type code is "empty", too.)                               *)
LearnedType(h) == IF tags[h].state = "Reading" THEN BOOLEAN ELSE {tags[h].typed}

(* Tag::poll().  The data of a successful read reply is the value of the   *)
(* tag the reply is about; a reply may carry none.                         *)
TagPoll(h, st) ==
  \/ ~InFlight(h) /\ st = TagStatus[tags[h].state] /\ UNCHANGED <<tcp, net, msg, tags>>
  \/ /\ InFlight(h)
     /\ \E ms \in Status :
          /\ MsgPoll(ms)
          /\ \/ ms = "Pending" /\ st = "Pending" /\ UNCHANGED tags
             \/ /\ ms \notin {"Pending", "Ok"}
                /\ st = ms
                /\ tags' = [tags EXCEPT ![h].state = "Failed"]
             \/ /\ ms = "Ok" /\ MsgReply(msg').status = "cipErr"
                /\ st = "Error"
                /\ tags' = [tags EXCEPT ![h].state = "Failed"]
             \/ /\ ms = "Ok" /\ MsgReply(msg').status # "cipErr"
                /\ st = "Ok"
                /\ \E typed \in LearnedType(h) :
                     tags' = IF tags[h].state = "Reading" /\ MsgReply(msg').status = "ok"
                               THEN [tags EXCEPT ![h] = [state |-> "Done", typed |-> typed,
                                                 valid |-> TRUE, data |-> MsgReply(msg').tag]]
                               ELSE [tags EXCEPT ![h].state = "Done", ![h].typed = typed]

(* Mutant: the shared message is aborted whoever uses it.                  *)
TagAbortShared(h) ==
  /\ MsgAbort
  /\ tags' = [tags EXCEPT ![h].state = "Idle", ![h].valid = FALSE]

(* Tag::abort(): the shared message is aborted only if this tag uses it.   *)
TagAbort(h) ==
  /\ IF InFlight(h) THEN MsgAbort ELSE UNCHANGED msg
  /\ tags' = [tags EXCEPT ![h].state = "Idle", ![h].valid = FALSE]

-----------------------------------------------------------------------------
(* The operations the application calls.  An early return that changes     *)
(* nothing is the negation of a guard.                                     *)

AppTurn == ctl.at \in {"app", "cb"}

MayInterrupt == (\E h \in Slots : InFlight(h)) => "interrupt" \in Habits

MayConnect ==
  /\ AppTurn /\ MayInterrupt
  /\ ctl.at = "cb" => "reconnect" \in Habits
  /\ calls.connects < MaxConnects

AnyTagBusy == \E h \in Slots : pool[h].inUse /\ TagStatus[tags[h].state] = "Pending"

Begin ==
  /\ MayConnect
  /\ eth.started => "rebegin" \in Habits
  /\ \E st \in Status : EthBegin(st)
  /\ plc' = [plc EXCEPT !.state = "Ethernet", !.want = FALSE]
  /\ calls' = [calls EXCEPT !.connects = @ + 1]
  /\ UNCHANGED <<wireVars, session, msg, tagVars, ctl>>

(* Mutant: a previous session is not dropped.                              *)
ConnectKeepsSession ==
  /\ MayConnect
  /\ IF eth.ready
       THEN \E st \in Status :
              /\ TcpConnect(ConnectTimeout, st)
              /\ plc' = [state |-> IF st = "Pending" THEN "Connecting" ELSE "Failed",
                         want  |-> FALSE, timer |-> ConnectTimeout]
       ELSE /\ plc' = [plc EXCEPT !.state = "Ethernet", !.want = TRUE]
            /\ UNCHANGED <<tcp, net>>
  /\ calls' = [calls EXCEPT !.connects = @ + 1]
  /\ UNCHANGED <<srv, eth, session, msg, tagVars, ctl>>

(* connect(): at once when Ethernet is up, else queued for poll().  The    *)
(* close() before tcp_.connect() is the one connect() would do itself.     *)
Connect ==
  /\ MayConnect
  /\ IF eth.ready
       THEN /\ SessionAbort
            /\ \E st \in Status :
                 /\ TcpConnect(ConnectTimeout, st)
                 /\ plc' = [state |-> IF st = "Pending" THEN "Connecting" ELSE "Failed",
                            want  |-> FALSE, timer |-> ConnectTimeout]
       ELSE /\ plc' = [plc EXCEPT !.state = "Ethernet", !.want = TRUE]
            /\ UNCHANGED <<session, tcp, net>>
  /\ calls' = [calls EXCEPT !.connects = @ + 1]
  /\ UNCHANGED <<srv, eth, msg, tagVars, ctl>>

(* Mutant: the client counts as ready until the answer comes.              *)
DisconnectStaysReady ==
  /\ AppTurn /\ MayInterrupt
  /\ plc.state = "Ready"
  /\ \E st \in Status : SessionClose(st)
  /\ UNCHANGED <<wireVars, plc, eth, calls, msg, tagVars, ctl>>

Disconnect ==
  /\ AppTurn /\ MayInterrupt
  /\ IF plc.state = "Ready"
       THEN /\ plc' = [plc EXCEPT !.state = "Disconnecting"]
            /\ \E st \in Status : SessionClose(st)
            /\ UNCHANGED <<tcp, net>>
       ELSE /\ plc' = [plc EXCEPT !.state = "Idle"]
            /\ SessionAbort
            /\ TcpClose
  /\ UNCHANGED <<srv, eth, calls, msg, tagVars, ctl>>

FreeTag(h) == ~pool[h].inUse /\ \A g \in Slots : g < h => pool[g].inUse

(* createTag(): the Tag object of the slot is taken as it is.              *)
CreateTag(h, name) ==
  /\ AppTurn
  /\ FreeTag(h)
  /\ calls.creates < MaxCreates
  /\ calls' = [calls EXCEPT !.creates = @ + 1]
  /\ pool' = [pool EXCEPT ![h] = [inUse |-> TRUE, name |-> name, prev |-> "NotReady"]]
  /\ op' = [op EXCEPT ![h] = "new"]
  /\ UNCHANGED <<wireVars, plc, eth, session, msg, tags, ctl>>

DestroyTag(h) ==
  /\ AppTurn
  /\ pool[h].inUse
  /\ InFlight(h) => "interrupt" \in Habits
  /\ pool' = [pool EXCEPT ![h].inUse = FALSE]
  /\ UNCHANGED <<wireVars, plcVars, msg, tags, op, ctl>>

(* tag(h)->setDataType() *)
SetDataType(h) ==
  /\ AppTurn
  /\ pool[h].inUse
  /\ tags' = [tags EXCEPT ![h].typed = TRUE]
  /\ UNCHANGED <<wireVars, plcVars, msg, pool, op, ctl>>

(* Mutant: read() and write() do not ask whether the client is ready.      *)
MayStartAnytime(h) ==
  AppTurn /\ pool[h].inUse /\ ~AnyTagBusy

MayStart(h) ==
  /\ AppTurn
  /\ pool[h].inUse
  /\ plc.state = "Ready"
  /\ ~AnyTagBusy

(* A request that was accepted, within the bound.                          *)
Started(h, st) ==
  /\ st = "Pending" => msg.context <= MaxOps
  /\ op' = IF st = "Pending" THEN [op EXCEPT ![h] = "owed"] ELSE op

Read(h) ==
  /\ MayStart(h)
  /\ \E st \in Status : TagRead(h, st) /\ Started(h, st)
  /\ UNCHANGED <<wireVars, plcVars, pool, ctl>>

Write(h) ==
  /\ MayStart(h)
  /\ \E st \in Status : TagWrite(h, st) /\ Started(h, st)
  /\ UNCHANGED <<wireVars, plcVars, pool, ctl>>

(* Mutant: tagPrevStatus_ is left as it was.                               *)
AbortTagKeepsPrev(h) ==
  /\ AppTurn
  /\ pool[h].inUse
  /\ TagAbort(h)
  /\ op' = [op EXCEPT ![h] = "told"]
  /\ UNCHANGED <<wireVars, plcVars, pool, ctl>>

AbortTag(h) ==
  /\ AppTurn
  /\ pool[h].inUse
  /\ TagAbort(h)
  /\ pool' = [pool EXCEPT ![h].prev = "NotReady"]
  /\ op' = [op EXCEPT ![h] = "told"]
  /\ UNCHANGED <<wireVars, plcVars, ctl>>

App ==
  \/ Begin \/ Connect \/ Disconnect
  \/ \E h \in Slots : \/ \E name \in Names : CreateTag(h, name)
                      \/ DestroyTag(h) \/ SetDataType(h)
                      \/ Read(h) \/ Write(h) \/ AbortTag(h)

-----------------------------------------------------------------------------
(* poll(), one action per state of the client.                             *)

PollEthernet ==
  /\ ctl.at = "app" /\ plc.state = "Ethernet"
  /\ \E st \in Status :
       /\ EthPoll(st)
       /\ \/ /\ st = "Ok" /\ plc.want
             /\ \E cst \in Status :
                  /\ TcpConnect(ConnectTimeout, cst)
                  /\ plc' = [state |-> IF cst = "Pending" THEN "Connecting" ELSE "Failed",
                             want  |-> FALSE, timer |-> ConnectTimeout]
          \/ /\ st = "Error"
             /\ plc' = [plc EXCEPT !.state = "Failed"]
             /\ UNCHANGED <<tcp, net>>
          \/ /\ st # "Error" /\ ~(st = "Ok" /\ plc.want)
             /\ UNCHANGED <<plc, tcp, net>>
  /\ UNCHANGED <<srv, session, calls, msg, tagVars, ctl>>

PollConnecting ==
  /\ ctl.at = "app" /\ plc.state = "Connecting"
  /\ \/ /\ plc.timer = 0
        /\ plc' = [plc EXCEPT !.state = "Failed"]
        /\ UNCHANGED <<tcp, net, session>>
     \/ /\ plc.timer > 0
        /\ \E st \in Status :
             /\ TcpPoll(st)
             /\ \/ /\ st = "Ok"
                   /\ \E ost \in Status :
                        /\ SessionOpen(tcp', plc.timer, ost)
                        /\ plc' = [plc EXCEPT !.state = IF ost = "Pending" THEN "Registering"
                                                        ELSE "Failed"]
                \/ /\ st \in {"Timeout", "Error"}
                   /\ plc' = [plc EXCEPT !.state = "Failed"]
                   /\ UNCHANGED session
                \/ st \notin {"Ok", "Timeout", "Error"} /\ UNCHANGED <<plc, session>>
  /\ UNCHANGED <<srv, eth, calls, msg, tagVars, ctl>>

(* Mutant: waits for Ok and looks neither at the deadline nor at failures. *)
PollRegisteringOkOnly ==
  /\ ctl.at = "app" /\ plc.state = "Registering"
  /\ \E st \in Status :
       /\ SessionPoll(st, {})
       /\ plc' = IF st = "Ok" THEN [plc EXCEPT !.state = "Ready"] ELSE plc
  /\ UNCHANGED <<srv, eth, calls, msg, tagVars, ctl>>

PollRegistering ==
  /\ ctl.at = "app" /\ plc.state = "Registering"
  /\ \/ /\ plc.timer = 0
        /\ plc' = [plc EXCEPT !.state = "Failed"]
        /\ UNCHANGED <<tcp, net, session>>
     \/ /\ plc.timer > 0
        /\ \E st \in Status :
             /\ SessionPoll(st, {})
             /\ \/ st = "Ok" /\ plc' = [plc EXCEPT !.state = "Ready"]
                \/ st \in {"Timeout", "Error"} /\ plc' = [plc EXCEPT !.state = "Failed"]
                \/ st \notin {"Ok", "Timeout", "Error"} /\ UNCHANGED plc
  /\ UNCHANGED <<srv, eth, calls, msg, tagVars, ctl>>

(* State Ready: the loop over the pool.                                    *)
PollReady ==
  /\ ctl.at = "app" /\ plc.state = "Ready"
  /\ ctl' = [at |-> "tags", i |-> 0, disc |-> FALSE]
  /\ UNCHANGED <<wireVars, plcVars, msg, tagVars>>

(* One slot: its status is remembered, a lost connection is noted, and the *)
(* callback is invoked when a Pending operation has ended.                 *)
PollTag ==
  /\ ctl.at = "tags" /\ ctl.i < kMaxTags
  /\ LET h == ctl.i
     IN  IF pool[h].inUse
           THEN \E st \in Status :
                  /\ TagPoll(h, st)
                  /\ pool' = [pool EXCEPT ![h].prev = st]
                  /\ LET told == pool[h].prev = "Pending" /\ st # "Pending"
                     IN  /\ ctl' = [at   |-> IF told THEN "cb" ELSE "tags",
                                    i    |-> IF told THEN h ELSE h + 1,
                                    disc |-> ctl.disc \/ st = "Closed"]
                         /\ op' = IF told THEN [op EXCEPT ![h] = "told"] ELSE op
           ELSE /\ ctl' = [ctl EXCEPT !.i = h + 1]
                /\ UNCHANGED <<tcp, net, msg, tagVars>>
  /\ UNCHANGED <<srv, plcVars>>

(* Mutant: the index moves on with the callback and again with the loop.   *)
CallbackReturnSkips ==
  /\ ctl.at = "cb"
  /\ ctl' = [ctl EXCEPT !.at = "tags", !.i = ctl.i + 2]
  /\ UNCHANGED <<wireVars, plcVars, msg, tagVars>>

(* The tag callback returns and the loop goes on with the next slot.       *)
CallbackReturn ==
  /\ ctl.at = "cb"
  /\ ctl' = [ctl EXCEPT !.at = "tags", !.i = ctl.i + 1]
  /\ UNCHANGED <<wireVars, plcVars, msg, tagVars>>

(* The end of the loop, whatever the callbacks did to the client.          *)
PollReadyEnd ==
  /\ ctl.at = "tags" /\ ctl.i = kMaxTags
  /\ ctl' = [at |-> "app", i |-> 0, disc |-> FALSE]
  /\ IF ctl.disc
       THEN /\ SessionAbort
            /\ TcpClose
            /\ plc' = [plc EXCEPT !.state = "Idle"]
       ELSE UNCHANGED <<session, tcp, net, plc>>
  /\ UNCHANGED <<srv, eth, calls, msg, tagVars>>

PollDisconnecting ==
  /\ ctl.at = "app" /\ plc.state = "Disconnecting"
  /\ \E st \in Status :
       /\ SessionPoll(st, {"Ok", "Closed"})
       /\ plc' = IF st \in {"Ok", "Closed"} THEN [plc EXCEPT !.state = "Idle"] ELSE plc
  /\ UNCHANGED <<srv, eth, calls, msg, tagVars, ctl>>

Poll ==
  \/ PollEthernet \/ PollConnecting \/ PollRegistering
  \/ PollReady \/ PollTag \/ PollReadyEnd \/ PollDisconnecting

-----------------------------------------------------------------------------
(* One tick of millis(), seen by every deadline.                           *)
Tick ==
  /\ tcp' = [tcp EXCEPT !.timer = Dec(@)]
  /\ plc' = [plc EXCEPT !.timer = Dec(@)]
  /\ SessionTick
  /\ MsgTick
  /\ UNCHANGED <<net, srv, eth, calls, tagVars, ctl>>

Network ==
  /\ AppTurn
  /\ PlcNext
  /\ UNCHANGED <<plcVars, msg, tagVars, ctl>>

Next == App \/ Poll \/ CallbackReturn \/ Tick \/ Network

Spec == Init /\ [][Next]_vars

(* loop() calls poll() again and again, a callback returns, time goes on.  *)
(* Nothing is assumed of the network or of the application.                *)
FairSpec ==
  /\ Spec
  /\ WF_vars(Poll)
  /\ WF_vars(CallbackReturn)
  /\ WF_vars(Tick)

-----------------------------------------------------------------------------
(* Invariants *)

ClientTypeOK ==
  /\ plc \in [state : {"Idle", "Ethernet", "Connecting", "Registering", "Ready",
                       "Disconnecting", "Failed"},
              want : BOOLEAN, timer : Nat]
  /\ calls \in [connects : Nat, creates : Nat]

TagTypeOK ==
  /\ pool \in [Slots -> [inUse : BOOLEAN, name : Names \cup {NoName}, prev : Status]]
  /\ tags \in [Slots -> [state : {"Idle", "Reading", "Writing", "Done", "Failed"},
                         typed : BOOLEAN, valid : BOOLEAN, data : Names \cup {NoName}]]
  /\ op \in [Slots -> {"new", "owed", "told"}]

CtlTypeOK ==
  /\ ctl \in [at : {"app", "tags", "cb"}, i : 0 .. kMaxTags, disc : BOOLEAN]
  /\ ctl.at = "cb" => ctl.i < kMaxTags

(* Every object is in a state of its type: the enums of the code, receive  *)
(* and socket buffers within their bounds, and the cursor of the poll()    *)
(* loop inside the pool.                                                   *)
TypeOK ==
  /\ TransportTypeOK /\ PlcTypeOK /\ SessionTypeOK /\ MsgTypeOK /\ EthTypeOK
  /\ ClientTypeOK /\ TagTypeOK /\ CtlTypeOK

(* "Single in-flight: only one tag read/write runs at a time" (PlcClient.h *)
(* 42): whatever the application does, destroying and recycling slots and  *)
(* reconnecting included, at most one Tag object is Reading or Writing,    *)
(* and the shared message is busy exactly when one is.                     *)
SingleInFlight ==
  /\ \A g, h \in Slots : InFlight(g) /\ InFlight(h) => g = h
  /\ MsgBusy <=> \E h \in Slots : InFlight(h)

(* ready() means what it says: the session is registered, with the handle  *)
(* the PLC gave on this very connection, and the socket is open.           *)
ReadyMeansRegistered ==
  plc.state = "Ready" =>
    /\ session.state = "Registered"
    /\ session.handle # 0
    /\ tcp.fd /\ tcp.state # "Pending"
    /\ net.sock = "up" => srv.reg = session.handle

(* The comment in PlcClient::connect(): a connect attempt never meets a    *)
(* session that is still open, for which Session::open() returns Busy.     *)
(* (It can, after begin() on a ready client: see the README.)              *)
SessionFreeForOpen ==
  plc.state = "Connecting" => session.state \notin {"Registering", "Registered"}

(* Every tag request in the stream to the PLC carries the handle of the    *)
(* session registered on that connection, never a stale one.               *)
RequestsUseCurrentSession ==
  \A k \in 1 .. Len(net.c2s) :
    net.c2s[k].pkt.command = "SendRRData" => net.c2s[k].pkt.session = srv.reg

(* A read that completes leaves, as far as dataLength() goes, the value of *)
(* the tag the slot is named for, or none when the reply carried none:     *)
(* never that of another tag, whose reply came late, nor that of an        *)
(* earlier read of a slot that has changed hands.                          *)
NewDataIsOwn ==
  [][\A h \in Slots :
       tags[h].state = "Reading" /\ tags'[h].state = "Done" /\ tags'[h].valid
         => tags'[h].data = pool[h].name]_vars

(* The tag callback is invoked only for an operation that was started,     *)
(* neither aborted nor reported before: at most once per operation.        *)
NoSpuriousCallback ==
  [][ctl.at = "tags" /\ ctl'.at = "cb" => op[ctl.i] = "owed"]_vars

(* "invoked once when a tag's read/write completes" (PlcClient.h:25): back *)
(* in the application, an operation not yet reported is still in flight.   *)
CallbackDelivered ==
  ctl.at = "app" => \A h \in Slots : pool[h].inUse /\ op[h] = "owed" => InFlight(h)

(* A connect attempt ends, in Ready or in Failed, even if the PLC stays    *)
(* silent, resets the connection or answers nonsense.                      *)
ConnectResolves ==
  plc.state \in {"Connecting", "Registering"}
    ~> plc.state \notin {"Connecting", "Registering"}

(* An operation on a tag of a ready client ends by its deadline, whatever  *)
(* the network does.                                                       *)
TagOpResolves ==
  \A h \in Slots : (InFlight(h) /\ plc.state = "Ready") ~> (~InFlight(h) \/ plc.state # "Ready")

(* disconnect() is carried out: the client leaves Disconnecting.           *)
DisconnectCompletes == plc.state = "Disconnecting" ~> plc.state # "Disconnecting"

-----------------------------------------------------------------------------
(* What an application sees of the tags, in the terms of TagService.       *)
(* An application that asks dataLength() gets no value where it is 0.      *)
Value(h) == IF tags[h].valid THEN tags[h].data ELSE NoName

Kind(h) == IF tags[h].state = "Reading" THEN "read" ELSE "write"

Service == INSTANCE TagService WITH
  name  <- [h \in Slots |-> pool[h].name],
  value <- [h \in Slots |-> Value(h)],
  busy  <- {[slot |-> h, kind |-> Kind(h)] : h \in {g \in Slots : InFlight(g)}},
  cb    <- IF ctl.at = "cb" THEN {ctl.i} ELSE {}

(* The whole stack (pool, Tag, shared message, session, TCP, a PLC that is *)
(* late or gone) implements TagService for an application that leaves      *)
(* operations in flight alone: one at a time, each ended once, no value of *)
(* another tag or of an earlier exchange, no callback without an end.      *)
ImplementsTagService == Service!Spec

=============================================================================
