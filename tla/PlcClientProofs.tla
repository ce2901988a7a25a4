-------------------------- MODULE PlcClientProofs --------------------------
(***************************************************************************)
(* Theorems about PlcClient, for every size of the pool, every timeout,    *)
(* every fragmentation and every application: types and the shared         *)
(* message, the session, the tags, and the contract of TagService.         *)
(***************************************************************************)
EXTENDS PlcClient, SessionProofs

-----------------------------------------------------------------------------
(* How an operation of slot h ends well: without a value, or with the one  *)
(* of the reply.                                                           *)
EndsPlain(h) ==
  \E typed \in BOOLEAN : tags' = [tags EXCEPT ![h].state = "Done", ![h].typed = typed]
EndsRead(h) ==
  \E typed \in BOOLEAN :
    tags' = [tags EXCEPT ![h] = [state |-> "Done", typed |-> typed,
                                 valid |-> TRUE, data |-> MsgReply(msg').tag]]

LEMMA LearnedIsBoolean ==
  ASSUME TagTypeOK, NEW h \in Slots
  PROVE  LearnedType(h) \subseteq BOOLEAN
  BY DEF LearnedType, TagTypeOK

LEMMA EndsPlainFacts ==
  ASSUME TagTypeOK, NEW h \in Slots, EndsPlain(h)
  PROVE  /\ tags'[h].state = "Done"
         /\ tags'[h].valid = tags[h].valid /\ tags'[h].data = tags[h].data
         /\ \A g \in Slots \ {h} : tags'[g] = tags[g]
  BY DEF TagTypeOK, EndsPlain

LEMMA EndsReadFacts ==
  ASSUME TagTypeOK, NEW h \in Slots, EndsRead(h)
  PROVE  /\ tags'[h].state = "Done"
         /\ tags'[h].valid /\ tags'[h].data = MsgReply(msg').tag
         /\ \A g \in Slots \ {h} : tags'[g] = tags[g]
  BY DEF TagTypeOK, EndsRead

TagState  == {"Idle", "Reading", "Writing", "Done", "Failed"}
TagRecord == [state : TagState, typed : BOOLEAN, valid : BOOLEAN, data : Names \cup {NoName}]

(* What the operations assign to a tag has the type of one.                *)
LEMMA TagRecordType ==
  ASSUME NEW t \in TagRecord, NEW s \in TagState, NEW b \in BOOLEAN
  PROVE  /\ [t EXCEPT !.state = s] \in TagRecord
         /\ [t EXCEPT !.typed = b] \in TagRecord
         /\ [t EXCEPT !.valid = b] \in TagRecord
  BY Zenon DEF TagRecord

LEMMA TagsType ==
  ASSUME tags \in [Slots -> TagRecord], NEW h \in Slots, NEW s \in TagState, NEW b \in BOOLEAN,
         \/ tags' = [tags EXCEPT ![h].state = s]
         \/ tags' = [tags EXCEPT ![h].typed = b]
         \/ tags' = [tags EXCEPT ![h].state = s, ![h].valid = b]
         \/ tags' = [tags EXCEPT ![h].state = s, ![h].typed = b]
  PROVE  tags' \in [Slots -> TagRecord]
<1>1. tags[h] \in TagRecord
  OBVIOUS
<1>2. PICK t \in TagRecord : tags' = [tags EXCEPT ![h] = t]
  <2>1. CASE tags' = [tags EXCEPT ![h].state = s]
    BY <1>1, <2>1, TagRecordType
  <2>2. CASE tags' = [tags EXCEPT ![h].typed = b]
    BY <1>1, <2>2, TagRecordType
  <2>3. CASE tags' = [tags EXCEPT ![h].state = s, ![h].valid = b]
    <3> DEFINE u == [tags[h] EXCEPT !.state = s]
    <3>1. u \in TagRecord
      BY <1>1, TagRecordType
    <3>2. [u EXCEPT !.valid = b] \in TagRecord
      BY <3>1, TagRecordType
    <3>3. tags' = [tags EXCEPT ![h] = [u EXCEPT !.valid = b]]
      BY <2>3
    <3> QED BY <3>2, <3>3
  <2>4. CASE tags' = [tags EXCEPT ![h].state = s, ![h].typed = b]
    <3> DEFINE u == [tags[h] EXCEPT !.state = s]
    <3>1. u \in TagRecord
      BY <1>1, TagRecordType
    <3>2. [u EXCEPT !.typed = b] \in TagRecord
      BY <3>1, TagRecordType
    <3>3. tags' = [tags EXCEPT ![h] = [u EXCEPT !.typed = b]]
      BY <2>4
    <3> QED BY <3>2, <3>3
  <2> QED BY <2>1, <2>2, <2>3, <2>4
<1> QED BY <1>2

(* Tag::poll() of a slot: nothing happens to an idle one; one in flight    *)
(* stays so exactly as long as the message is Pending.                     *)
LEMMA TagPollCases ==
  ASSUME TagTypeOK, NEW h \in Slots, NEW st \in Status, TagPoll(h, st)
  PROVE  \/ /\ ~InFlight(h) /\ st # "Pending"
            /\ UNCHANGED <<tcp, net, msg, tags>>
         \/ /\ InFlight(h) /\ st = "Pending"
            /\ MsgPoll("Pending") /\ UNCHANGED tags
         \/ /\ InFlight(h) /\ st # "Pending"
            /\ \E ms \in Status \ {"Pending"} : MsgPoll(ms)
            /\ tags' = [tags EXCEPT ![h].state = "Failed"]
         \/ /\ InFlight(h) /\ st = "Ok"
            /\ MsgPoll("Ok")
            /\ \/ EndsPlain(h)
               \/ /\ tags[h].state = "Reading"
                  /\ EndsRead(h)
<1>1. CASE ~InFlight(h)
  <2>1. st = TagStatus[tags[h].state] /\ UNCHANGED <<tcp, net, msg, tags>>
    BY <1>1 DEF TagPoll
  <2>2. tags[h].state \in {"Idle", "Done", "Failed"}
    BY <1>1 DEF TagTypeOK, InFlight
  <2>3. st # "Pending"
    BY <2>1, <2>2 DEF TagStatus
  <2> QED BY <1>1, <2>1, <2>3
<1>2. CASE InFlight(h)
  <2>1. PICK ms \in Status :
          /\ MsgPoll(ms)
          /\ \/ ms = "Pending" /\ st = "Pending" /\ UNCHANGED tags
             \/ /\ ms \notin {"Pending", "Ok"}
                /\ st = ms
                /\ tags' = [tags EXCEPT ![h].state = "Failed"]
             \/ /\ ms = "Ok" /\ st = "Error"
                /\ tags' = [tags EXCEPT ![h].state = "Failed"]
             \/ /\ ms = "Ok" /\ st = "Ok"
                /\ EndsPlain(h) \/ (tags[h].state = "Reading" /\ EndsRead(h))
    BY <1>2, LearnedIsBoolean DEF TagPoll, EndsPlain, EndsRead
  <2> QED BY <1>2, <2>1
<1> QED BY <1>1, <1>2

-----------------------------------------------------------------------------
(* The type invariant.                                                     *)

LEMMA TypeInit == Init => TypeOK
<1> SUFFICES ASSUME Init PROVE TypeOK
  OBVIOUS
<1>1. TransportTypeOK
  BY WireType DEF Init, TransportInit, TcpClosed, TransportTypeOK
<1>2. PlcTypeOK
  BY EmptyStream, WireAssumption DEF Init, PlcInit, SrvFresh, PlcTypeOK
<1>3. SessionTypeOK
  BY NoIoType DEF Init, SessionInit, SessionTypeOK
<1>4. MsgTypeOK
  <2>1. 1 \in 0 .. CtxMod - 1
    BY WireAssumption
  <2> QED BY <2>1, NoIoType DEF Init, MsgInit, MsgTypeOK
<1>5. EthTypeOK
  BY DEF Init, EthInit, EthTypeOK
<1>6. ClientTypeOK /\ TagTypeOK /\ CtlTypeOK
  BY ClientAssumption DEF Init, ClientTypeOK, TagTypeOK, CtlTypeOK, Status
<1> QED BY <1>1, <1>2, <1>3, <1>4, <1>5, <1>6 DEF TypeOK

(* Parts of the state that an action leaves alone keep their types.        *)
LEMMA UnchangedTypes ==
  /\ TransportTypeOK /\ UNCHANGED <<tcp, net>> => TransportTypeOK'
  /\ PlcTypeOK /\ UNCHANGED srv => PlcTypeOK'
  /\ SessionTypeOK /\ UNCHANGED session => SessionTypeOK'
  /\ MsgTypeOK /\ UNCHANGED msg => MsgTypeOK'
  /\ EthTypeOK /\ UNCHANGED eth => EthTypeOK'
  /\ ClientTypeOK /\ UNCHANGED <<plc, calls>> => ClientTypeOK'
  /\ TagTypeOK /\ UNCHANGED <<pool, tags, op>> => TagTypeOK'
  /\ CtlTypeOK /\ UNCHANGED ctl => CtlTypeOK'
  BY DEF TransportTypeOK, PlcTypeOK, SessionTypeOK, MsgTypeOK, EthTypeOK,
         ClientTypeOK, TagTypeOK, CtlTypeOK

(* The values the operations assign to the state of the client.            *)
LEMMA ClientType ==
  ASSUME ClientTypeOK,
         \/ \E s \in {"Idle", "Connecting", "Registering", "Ready", "Disconnecting", "Failed"} :
              \/ plc' = [plc EXCEPT !.state = s]
              \/ plc' = [state |-> s, want |-> FALSE, timer |-> ConnectTimeout]
         \/ plc' = [plc EXCEPT !.state = "Ethernet", !.want = FALSE]
         \/ plc' = [plc EXCEPT !.state = "Ethernet", !.want = TRUE]
         \/ plc' = plc,
         \/ calls' = calls
         \/ calls' = [calls EXCEPT !.connects = calls.connects + 1]
         \/ calls' = [calls EXCEPT !.creates = calls.creates + 1]
  PROVE  ClientTypeOK'
<1> DEFINE P == [state : {"Idle", "Ethernet", "Connecting", "Registering", "Ready",
                          "Disconnecting", "Failed"},
                 want : BOOLEAN, timer : Nat]
           Some == {"Idle", "Connecting", "Registering", "Ready", "Disconnecting", "Failed"}
<1>1. plc \in P /\ calls \in [connects : Nat, creates : Nat]
  BY DEF ClientTypeOK
<1>2. ASSUME NEW s \in Some
      PROVE  [plc EXCEPT !.state = s] \in P
  BY <1>1
<1>3. ASSUME NEW s \in Some
      PROVE  [state |-> s, want |-> FALSE, timer |-> ConnectTimeout] \in P
  BY TimeoutAssumption
<1>4. [plc EXCEPT !.state = "Ethernet", !.want = FALSE] \in P
  BY <1>1
<1>5. [plc EXCEPT !.state = "Ethernet", !.want = TRUE] \in P
  BY <1>1
<1>6. plc' \in P
  <2> HIDE DEF P
  <2> QED BY <1>1, <1>2, <1>3, <1>4, <1>5
<1>7. calls' \in [connects : Nat, creates : Nat]
  BY <1>1
<1> QED BY <1>6, <1>7 DEF ClientTypeOK

LEMMA TypeApp == TypeOK /\ App => TypeOK'
<1> SUFFICES ASSUME TypeOK, App PROVE TypeOK'
  OBVIOUS
<1> USE DEF wireVars, plcVars, tagVars
<1>1. CASE Begin
  <2>1. EthTypeOK'
    BY <1>1, EthType DEF Begin, TypeOK
  <2>2. ClientTypeOK'
    <3>1. /\ plc' = [plc EXCEPT !.state = "Ethernet", !.want = FALSE]
          /\ calls' = [calls EXCEPT !.connects = calls.connects + 1]
      BY <1>1 DEF Begin
    <3> QED BY <3>1, ClientType DEF TypeOK
  <2> QED BY <1>1, <2>1, <2>2, UnchangedTypes DEF Begin, TypeOK
<1>2. CASE Connect
  <2>1. TransportTypeOK'
    BY <1>2, TcpConnectType, TimeoutAssumption, UnchangedTypes DEF Connect, TypeOK
  <2>2. SessionTypeOK'
    BY <1>2, SessionAbortType, UnchangedTypes DEF Connect, TypeOK
  <2>3. ClientTypeOK'
    <3>1. calls' = [calls EXCEPT !.connects = calls.connects + 1]
      BY <1>2 DEF Connect
    <3>2. \/ plc' = [state |-> "Connecting", want |-> FALSE, timer |-> ConnectTimeout]
          \/ plc' = [state |-> "Failed", want |-> FALSE, timer |-> ConnectTimeout]
          \/ plc' = [plc EXCEPT !.state = "Ethernet", !.want = TRUE]
      BY <1>2 DEF Connect
    <3> QED BY <3>1, <3>2, ClientType DEF TypeOK
  <2> QED BY <1>2, <2>1, <2>2, <2>3, UnchangedTypes DEF Connect, TypeOK
<1>3. CASE Disconnect
  <2>1. TransportTypeOK'
    BY <1>3, TcpCloseType, UnchangedTypes DEF Disconnect, TypeOK
  <2>2. SessionTypeOK'
    BY <1>3, SessionAbortType, SessionCloseType DEF Disconnect, TypeOK
  <2>3. ClientTypeOK'
    BY <1>3 DEF Disconnect, TypeOK, ClientTypeOK
  <2> QED BY <1>3, <2>1, <2>2, <2>3, UnchangedTypes DEF Disconnect, TypeOK
<1>4. ASSUME NEW h \in Slots, NEW name \in Names, CreateTag(h, name)
      PROVE  TypeOK'
  <2>1. TagTypeOK'
    BY <1>4 DEF CreateTag, TypeOK, TagTypeOK, Status
  <2>2. ClientTypeOK'
    BY <1>4 DEF CreateTag, TypeOK, ClientTypeOK
  <2> QED BY <1>4, <2>1, <2>2, UnchangedTypes DEF CreateTag, TypeOK
<1>5. ASSUME NEW h \in Slots, DestroyTag(h)
      PROVE  TypeOK'
  <2>1. TagTypeOK'
    BY <1>5 DEF DestroyTag, TypeOK, TagTypeOK
  <2> QED BY <1>5, <2>1, UnchangedTypes DEF DestroyTag, TypeOK
<1>6. ASSUME NEW h \in Slots, SetDataType(h)
      PROVE  TypeOK'
  <2>1. TagTypeOK'
    BY <1>6 DEF SetDataType, TypeOK, TagTypeOK
  <2> QED BY <1>6, <2>1, UnchangedTypes DEF SetDataType, TypeOK
<1>7. ASSUME NEW h \in Slots, Read(h)
      PROVE  TypeOK'
  <2>0. session.handle \in Handles \cup {0} /\ pool[h].name \in Names \cup {NoName}
    BY DEF TypeOK, SessionTypeOK, TagTypeOK
  <2>1. PICK st \in Status : TagRead(h, st) /\ Started(h, st)
    BY <1>7 DEF Read
  <2>2. MsgTypeOK'
    BY <2>0, <2>1, MsgSendType, UnchangedTypes DEF TagRead, TypeOK
  <2>3. TagTypeOK'
    <3>1. \/ tags' = tags
          \/ tags' = [tags EXCEPT ![h].state = "Reading", ![h].valid = FALSE]
      BY <2>1 DEF TagRead
    <3>2. op' = op \/ op' = [op EXCEPT ![h] = "owed"]
      BY <2>1 DEF Started
    <3>3. pool' = pool
      BY <1>7 DEF Read
    <3>4. tags' \in [Slots -> TagRecord]
      BY <3>1, TagsType DEF TypeOK, TagTypeOK, TagRecord, TagState
    <3>5. op' \in [Slots -> {"new", "owed", "told"}]
      BY <3>2 DEF TypeOK, TagTypeOK
    <3> QED BY <3>3, <3>4, <3>5 DEF TypeOK, TagTypeOK, TagRecord, TagState
  <2> QED BY <1>7, <2>2, <2>3, UnchangedTypes DEF Read, TypeOK
<1>8. ASSUME NEW h \in Slots, Write(h)
      PROVE  TypeOK'
  <2>0. session.handle \in Handles \cup {0} /\ pool[h].name \in Names \cup {NoName}
    BY DEF TypeOK, SessionTypeOK, TagTypeOK
  <2>1. PICK st \in Status : TagWrite(h, st) /\ Started(h, st)
    BY <1>8 DEF Write
  <2>2. MsgTypeOK'
    BY <2>0, <2>1, MsgSendType, UnchangedTypes DEF TagWrite, TypeOK
  <2>3. TagTypeOK'
    <3>1. tags' = tags \/ tags' = [tags EXCEPT ![h].state = "Writing"]
      BY <2>1 DEF TagWrite
    <3>2. op' = op \/ op' = [op EXCEPT ![h] = "owed"]
      BY <2>1 DEF Started
    <3>3. pool' = pool
      BY <1>8 DEF Write
    <3>4. tags' \in [Slots -> TagRecord]
      BY <3>1, TagsType DEF TypeOK, TagTypeOK, TagRecord, TagState
    <3>5. op' \in [Slots -> {"new", "owed", "told"}]
      BY <3>2 DEF TypeOK, TagTypeOK
    <3> QED BY <3>3, <3>4, <3>5 DEF TypeOK, TagTypeOK, TagRecord, TagState
  <2> QED BY <1>8, <2>2, <2>3, UnchangedTypes DEF Write, TypeOK
<1>9. ASSUME NEW h \in Slots, AbortTag(h)
      PROVE  TypeOK'
  <2>1. MsgTypeOK'
    <3>1. CASE msg' = msg
      BY <3>1, UnchangedTypes DEF TypeOK
    <3>2. CASE msg' = [msg EXCEPT !.state = "Idle", !.timer = 0, !.io = NoIo]
      BY <3>2, NoIoType DEF TypeOK, MsgTypeOK
    <3> QED BY <1>9, <3>1, <3>2 DEF AbortTag, TagAbort, MsgAbort
  <2>2. TagTypeOK'
    <3>1. tags' = [tags EXCEPT ![h].state = "Idle", ![h].valid = FALSE]
      BY <1>9 DEF AbortTag, TagAbort
    <3>2. tags' \in [Slots -> TagRecord]
      BY <3>1, TagsType DEF TypeOK, TagTypeOK, TagRecord, TagState
    <3>3. /\ pool' = [pool EXCEPT ![h].prev = "NotReady"]
          /\ op' = [op EXCEPT ![h] = "told"]
      BY <1>9 DEF AbortTag
    <3> QED BY <3>2, <3>3 DEF TypeOK, TagTypeOK, TagRecord, TagState, Status
  <2> QED BY <1>9, <2>1, <2>2, UnchangedTypes DEF AbortTag, TypeOK
<1> QED BY <1>1, <1>2, <1>3, <1>4, <1>5, <1>6, <1>7, <1>8, <1>9 DEF App

LEMMA TypePoll == TypeOK /\ (Poll \/ CallbackReturn) => TypeOK'
<1> SUFFICES ASSUME TypeOK, Poll \/ CallbackReturn PROVE TypeOK'
  OBVIOUS
<1> USE DEF wireVars, plcVars, tagVars
<1>1. CASE PollEthernet
  <2>1. PICK st \in Status :
          /\ EthPoll(st)
          /\ \/ \E cst \in Status : TcpConnect(ConnectTimeout, cst)
             \/ UNCHANGED <<tcp, net>>
    BY <1>1 DEF PollEthernet
  <2>2. TransportTypeOK'
    BY <2>1, TcpConnectType, TimeoutAssumption, UnchangedTypes DEF TypeOK
  <2>3. EthTypeOK'
    BY <2>1, EthType DEF TypeOK
  <2>4. ClientTypeOK'
    <3>1. \/ plc' = [state |-> "Connecting", want |-> FALSE, timer |-> ConnectTimeout]
          \/ plc' = [state |-> "Failed", want |-> FALSE, timer |-> ConnectTimeout]
          \/ plc' = [plc EXCEPT !.state = "Failed"]
          \/ plc' = plc
      BY <1>1 DEF PollEthernet
    <3>2. calls' = calls
      BY <1>1 DEF PollEthernet
    <3> QED BY <3>1, <3>2, ClientType DEF TypeOK
  <2> QED BY <1>1, <2>2, <2>3, <2>4, UnchangedTypes DEF PollEthernet, TypeOK
<1>2. CASE PollConnecting
  <2>0. plc.timer \in Nat
    BY DEF TypeOK, ClientTypeOK
  <2>1. TransportTypeOK'
    BY <1>2, TcpPollType, UnchangedTypes DEF PollConnecting, TypeOK
  <2>2. SessionTypeOK'
    BY <1>2, <2>0, SessionOpenType, UnchangedTypes DEF PollConnecting, TypeOK
  <2>3. ClientTypeOK'
    BY <1>2 DEF PollConnecting, TypeOK, ClientTypeOK
  <2> QED BY <1>2, <2>1, <2>2, <2>3, UnchangedTypes DEF PollConnecting, TypeOK
<1>3. CASE PollRegistering
  <2>1. TransportTypeOK' /\ SessionTypeOK'
    BY <1>3, SessionPollType, UnchangedTypes DEF PollRegistering, TypeOK
  <2>2. ClientTypeOK'
    BY <1>3 DEF PollRegistering, TypeOK, ClientTypeOK
  <2> QED BY <1>3, <2>1, <2>2, UnchangedTypes DEF PollRegistering, TypeOK
<1>4. CASE PollReady
  <2>1. CtlTypeOK'
    BY <1>4, ClientAssumption DEF PollReady, CtlTypeOK
  <2> QED BY <1>4, <2>1, UnchangedTypes DEF PollReady, TypeOK
<1>5. CASE PollTag /\ pool[ctl.i].inUse
  <2> DEFINE h == ctl.i
  <2>1. h \in Slots /\ h + 1 \in 0 .. kMaxTags /\ h \in 0 .. kMaxTags /\ h < kMaxTags
    BY <1>5, ClientAssumption DEF PollTag, TypeOK, CtlTypeOK, Slots
  <2> HIDE DEF h
  <2>2. PICK st \in Status :
          /\ TagPoll(h, st)
          /\ pool' = [pool EXCEPT ![h].prev = st]
          /\ \E d \in BOOLEAN : \/ ctl' = [at |-> "cb", i |-> h, disc |-> d]
                               \/ ctl' = [at |-> "tags", i |-> h + 1, disc |-> d]
          /\ op' = [op EXCEPT ![h] = "told"] \/ op' = op
    BY <1>5 DEF PollTag, h
  <2>3. TransportTypeOK' /\ MsgTypeOK'
    BY <2>2, MsgPollType, UnchangedTypes DEF TagPoll, TypeOK
  <2>4. tags' \in [Slots -> TagRecord]
    <3>0. tags \in [Slots -> TagRecord]
      BY DEF TypeOK, TagTypeOK, TagRecord, TagState
    <3>1. CASE UNCHANGED tags
      BY <3>0, <3>1
    <3>2. CASE tags' = [tags EXCEPT ![h].state = "Failed"]
      BY <3>0, <3>2, TagsType DEF TagState
    <3>4. CASE EndsPlain(h)
      BY <3>0, <3>4, TagsType DEF TagState, EndsPlain
    <3>3. CASE /\ MsgPoll("Ok")
               /\ EndsRead(h)
      <4>1. MsgReply(msg').tag \in Names \cup {NoName}
        BY <3>3, MsgPollType DEF TypeOK
      <4>2. PICK typed \in BOOLEAN :
              tags' = [tags EXCEPT ![h] = [state |-> "Done", typed |-> typed,
                                           valid |-> TRUE, data |-> MsgReply(msg').tag]]
        BY <3>3 DEF EndsRead
      <4>3. [state |-> "Done", typed |-> typed, valid |-> TRUE,
             data |-> MsgReply(msg').tag] \in TagRecord
        BY <4>1, Zenon DEF TagRecord, TagState
      <4> QED BY <3>0, <4>2, <4>3
    <3>5. TagTypeOK /\ TagPoll(h, st)
      BY <2>2 DEF TypeOK
    <3>6. \/ UNCHANGED tags \/ tags' = [tags EXCEPT ![h].state = "Failed"]
          \/ EndsPlain(h) \/ (MsgPoll("Ok") /\ EndsRead(h))
      BY <2>1, <3>5, TagPollCases
    <3> QED BY <3>1, <3>2, <3>3, <3>4, <3>6
  <2>5. TagTypeOK'
    BY <2>1, <2>2, <2>4 DEF TypeOK, TagTypeOK, TagRecord, TagState
  <2>6. CtlTypeOK'
    BY <2>1, <2>2 DEF TypeOK, CtlTypeOK
  <2> QED BY <1>5, <2>3, <2>5, <2>6, UnchangedTypes DEF PollTag, TypeOK
<1>6. CASE PollTag /\ ~pool[ctl.i].inUse
  <2>1. CtlTypeOK'
    BY <1>6, ClientAssumption DEF PollTag, TypeOK, CtlTypeOK
  <2> QED BY <1>6, <2>1, UnchangedTypes DEF PollTag, TypeOK
<1>7. CASE CallbackReturn
  <2>1. CtlTypeOK'
    <3>1. ctl.i + 1 \in 0 .. kMaxTags
      BY <1>7, ClientAssumption DEF CallbackReturn, TypeOK, CtlTypeOK
    <3>2. ctl' = [ctl EXCEPT !.at = "tags", !.i = ctl.i + 1]
      BY <1>7 DEF CallbackReturn
    <3> QED BY <3>1, <3>2 DEF TypeOK, CtlTypeOK
  <2> QED BY <1>7, <2>1, UnchangedTypes DEF CallbackReturn, TypeOK
<1>8. CASE PollReadyEnd
  <2>1. CtlTypeOK'
    BY <1>8, ClientAssumption DEF PollReadyEnd, CtlTypeOK
  <2>2. SessionTypeOK' /\ TransportTypeOK'
    BY <1>8, SessionAbortType, TcpCloseType, UnchangedTypes DEF PollReadyEnd, TypeOK
  <2>3. ClientTypeOK'
    BY <1>8 DEF PollReadyEnd, TypeOK, ClientTypeOK
  <2> QED BY <1>8, <2>1, <2>2, <2>3, UnchangedTypes DEF PollReadyEnd, TypeOK
<1>9. CASE PollDisconnecting
  <2>1. TransportTypeOK' /\ SessionTypeOK'
    BY <1>9, SessionPollType DEF PollDisconnecting, TypeOK
  <2>2. ClientTypeOK'
    BY <1>9 DEF PollDisconnecting, TypeOK, ClientTypeOK
  <2> QED BY <1>9, <2>1, <2>2, UnchangedTypes DEF PollDisconnecting, TypeOK
<1> QED BY <1>1, <1>2, <1>3, <1>4, <1>5, <1>6, <1>7, <1>8, <1>9 DEF Poll

LEMMA TypeTick == TypeOK /\ Tick => TypeOK'
<1> SUFFICES ASSUME TypeOK, Tick PROVE TypeOK'
  OBVIOUS
<1> USE DEF wireVars, plcVars, tagVars
<1>1. TransportTypeOK'
  BY DecType DEF Tick, TypeOK, TransportTypeOK
<1>2. SessionTypeOK'
  BY DecType DEF Tick, SessionTick, TypeOK, SessionTypeOK
<1>3. MsgTypeOK'
  BY DecType DEF Tick, MsgTick, TypeOK, MsgTypeOK
<1>4. ClientTypeOK'
  BY DecType DEF Tick, TypeOK, ClientTypeOK
<1> QED BY <1>1, <1>2, <1>3, <1>4, UnchangedTypes DEF Tick, TypeOK

LEMMA TypeNext == TypeOK /\ [Next]_vars => TypeOK'
<1>1. TypeOK /\ Network => TypeOK'
  BY PlcNextType, UnchangedTypes DEF Network, TypeOK, wireVars, plcVars, tagVars
<1>2. TypeOK /\ UNCHANGED vars => TypeOK'
  BY UnchangedTypes DEF TypeOK, vars, wireVars, plcVars, tagVars
<1> QED BY <1>1, <1>2, TypeApp, TypePoll, TypeTick DEF Next

(* In every behaviour every object stays in a state of its type; the       *)
(* socket buffers are never overfilled and the receive buffer never holds  *)
(* more than a packet, whatever pieces the transport delivers.             *)
THEOREM TypeCorrect == Spec => []TypeOK
  BY TypeInit, TypeNext, PTL DEF Spec

-----------------------------------------------------------------------------
(* Single in-flight.  The invariant is inductive once the types are known: *)
(* the shared message is the lock, a tag starts only by winning it and     *)
(* gives it up exactly when it stops being Reading or Writing.             *)

(* Steps that leave the message and the tags where they are.               *)
LEMMA SingleQuiet ==
  ASSUME SingleInFlight, MsgBusy' <=> MsgBusy,
         \A h \in Slots : tags'[h].state = tags[h].state
  PROVE  SingleInFlight'
  BY DEF SingleInFlight, InFlight

(* A free message is handed to slot h.                                     *)
LEMMA SingleTake ==
  ASSUME SingleInFlight, TagTypeOK, NEW h \in Slots, ~MsgBusy, MsgBusy',
         InFlight(h)', \A g \in Slots \ {h} : tags'[g].state = tags[g].state
  PROVE  SingleInFlight'
  BY DEF SingleInFlight, InFlight

(* The slot that has the message gives it up.                              *)
LEMMA SingleGive ==
  ASSUME SingleInFlight, TagTypeOK, NEW h \in Slots, InFlight(h), ~MsgBusy',
         ~InFlight(h)', \A g \in Slots \ {h} : tags'[g].state = tags[g].state
  PROVE  SingleInFlight'
  BY DEF SingleInFlight, InFlight

LEMMA SingleApp == TypeOK /\ SingleInFlight /\ App => SingleInFlight'
<1> SUFFICES ASSUME TypeOK, SingleInFlight, App PROVE SingleInFlight'
  OBVIOUS
<1> USE DEF tagVars
<1>0. TagTypeOK /\ MsgTypeOK
  BY DEF TypeOK
<1>1. CASE Begin \/ Connect \/ Disconnect
  <2>1. UNCHANGED <<msg, tags>>
    BY <1>1 DEF Begin, Connect, Disconnect
  <2> QED BY <2>1, SingleQuiet DEF MsgBusy
<1>2. ASSUME NEW h \in Slots, NEW name \in Names, CreateTag(h, name)
      PROVE  SingleInFlight'
  BY <1>2, SingleQuiet DEF CreateTag, MsgBusy
<1>3. ASSUME NEW h \in Slots, DestroyTag(h)
      PROVE  SingleInFlight'
  BY <1>3, SingleQuiet DEF DestroyTag, MsgBusy
<1>4. ASSUME NEW h \in Slots, SetDataType(h)
      PROVE  SingleInFlight'
  <2>1. msg' = msg /\ tags' = [tags EXCEPT ![h].typed = TRUE]
    BY <1>4 DEF SetDataType
  <2>2. \A g \in Slots : tags'[g].state = tags[g].state
    BY <1>0, <2>1 DEF TagTypeOK
  <2> QED BY <2>1, <2>2, SingleQuiet DEF MsgBusy
<1>5. ASSUME NEW h \in Slots, Read(h) \/ Write(h)
      PROVE  SingleInFlight'
  <2>1. PICK st \in Status : TagRead(h, st) \/ TagWrite(h, st)
    BY <1>5 DEF Read, Write
  <2>2. CASE UNCHANGED <<msg, tags>>
    BY <2>2, SingleQuiet DEF MsgBusy
  <2>3. CASE ~UNCHANGED <<msg, tags>>
    <3>1. MsgSend(session.handle, pool[h].name, st)
      BY <2>1, <2>3 DEF TagRead, TagWrite
    <3>2. st = "Pending"
      BY <2>1, <2>3, <3>1, MsgSendBusy DEF TagRead, TagWrite
    <3>3. ~MsgBusy /\ MsgBusy'
      BY <3>1, <3>2, MsgSendBusy
    <3>4. \/ tags' = [tags EXCEPT ![h].state = "Reading", ![h].valid = FALSE]
          \/ tags' = [tags EXCEPT ![h].state = "Writing"]
      BY <2>1, <2>3, <3>2 DEF TagRead, TagWrite
    <3>5. InFlight(h)' /\ \A g \in Slots \ {h} : tags'[g].state = tags[g].state
      BY <1>0, <3>4 DEF TagTypeOK, InFlight
    <3> QED BY <1>0, <3>3, <3>5, SingleTake
  <2> QED BY <2>2, <2>3
<1>6. ASSUME NEW h \in Slots, AbortTag(h)
      PROVE  SingleInFlight'
  <2>1. TagAbort(h)
    BY <1>6 DEF AbortTag
  <2>2. ~InFlight(h)' /\ \A g \in Slots \ {h} : tags'[g].state = tags[g].state
    BY <1>0, <2>1 DEF TagAbort, TagTypeOK, InFlight
  <2>3. CASE InFlight(h)
    <3>1. ~MsgBusy'
      BY <1>0, <2>1, <2>3 DEF TagAbort, MsgAbort, MsgBusy, MsgTypeOK
    <3> QED BY <1>0, <2>2, <2>3, <3>1, SingleGive
  <2>4. CASE ~InFlight(h)
    <3>1. msg' = msg
      BY <2>1, <2>4 DEF TagAbort
    <3> QED BY <2>2, <2>4, <3>1 DEF SingleInFlight, InFlight, MsgBusy
  <2> QED BY <2>3, <2>4
<1> QED BY <1>1, <1>2, <1>3, <1>4, <1>5, <1>6 DEF App

LEMMA SinglePoll == TypeOK /\ SingleInFlight /\ (Poll \/ CallbackReturn) => SingleInFlight'
<1> SUFFICES ASSUME TypeOK, SingleInFlight, Poll \/ CallbackReturn PROVE SingleInFlight'
  OBVIOUS
<1> USE DEF tagVars
<1>0. TagTypeOK /\ MsgTypeOK
  BY DEF TypeOK
<1>1. CASE UNCHANGED <<msg, tags>>
  BY <1>1, SingleQuiet DEF MsgBusy
<1>2. CASE PollTag /\ ~UNCHANGED <<msg, tags>>
  <2>1. PICK h \in Slots : h = ctl.i
    BY <1>2, ClientAssumption DEF PollTag, TypeOK, CtlTypeOK, Slots
  <2>2. PICK st \in Status : TagPoll(h, st)
    BY <1>2, <2>1 DEF PollTag
  <2>3. InFlight(h) /\ MsgBusy
    BY <1>2, <2>1, <2>2 DEF TagPoll, SingleInFlight
  <2>4. PICK ms \in Status :
          /\ MsgPoll(ms)
          /\ \/ ms = "Pending" /\ tags' = tags
             \/ /\ ms # "Pending"
                /\ \/ tags' = [tags EXCEPT ![h].state = "Failed"]
                   \/ EndsPlain(h)
                   \/ EndsRead(h)
    BY <1>0, <2>2, <2>3, TagPollCases
  <2>5. MsgBusy' <=> ms = "Pending"
    BY <1>0, <2>3, <2>4, MsgPollBusy
  <2>6. CASE ms = "Pending"
    BY <2>3, <2>4, <2>5, <2>6, SingleQuiet
  <2>7. CASE ms # "Pending"
    <3>1. ~InFlight(h)' /\ \A g \in Slots \ {h} : tags'[g].state = tags[g].state
      BY <1>0, <2>1, <2>4, <2>7, EndsPlainFacts, EndsReadFacts DEF TagTypeOK, InFlight
    <3> QED BY <1>0, <2>1, <2>3, <2>5, <2>7, <3>1, SingleGive
  <2> QED BY <2>6, <2>7
<1>3. PollTag \/ UNCHANGED <<msg, tags>>
  BY DEF Poll, CallbackReturn, PollEthernet, PollConnecting, PollRegistering, PollReady,
         PollReadyEnd, PollDisconnecting
<1> QED BY <1>1, <1>2, <1>3

LEMMA SingleNext == TypeOK /\ SingleInFlight /\ [Next]_vars => SingleInFlight'
<1> SUFFICES ASSUME TypeOK, SingleInFlight, [Next]_vars PROVE SingleInFlight'
  OBVIOUS
<1>1. CASE Tick
  <2>1. msg'.state = msg.state /\ tags' = tags
    BY <1>1 DEF Tick, MsgTick, TypeOK, MsgTypeOK, tagVars
  <2> QED BY <2>1, SingleQuiet DEF MsgBusy
<1>2. CASE Network \/ UNCHANGED vars
  <2>1. UNCHANGED <<msg, tags>>
    BY <1>2 DEF Network, vars, tagVars
  <2> QED BY <2>1, SingleQuiet DEF MsgBusy
<1> QED BY <1>1, <1>2, SingleApp, SinglePoll DEF Next

(* Whatever the application does (it may destroy and recycle slots,        *)
(* abort, reconnect, from a callback or not) and whatever the network      *)
(* does, at most one tag is Reading or Writing, and ExplicitMessage is     *)
(* busy exactly when one is: no tag can be given the reply of another.     *)
THEOREM SingleInFlightHolds == Spec => []SingleInFlight
<1>1. Init => SingleInFlight
  BY DEF Init, MsgInit, SingleInFlight, InFlight, MsgBusy
<1>2. TypeOK /\ SingleInFlight /\ [Next]_vars => SingleInFlight'
  BY SingleNext
<1> QED BY <1>1, <1>2, TypeCorrect, PTL DEF Spec

-----------------------------------------------------------------------------
(* What a poll() of a slot does.                                           *)
LEMMA PollTagEffect ==
  ASSUME TypeOK, PollTag
  PROVE  /\ Moved(msg.io.req)
         /\ msg'.io.req \in {msg.io.req, NoIo.req}
         /\ MsgBusy' => MsgBusy /\ msg'.io.req = msg.io.req
         /\ ctl'.disc => ctl.disc \/ (~(tcp'.fd /\ tcp'.state = "Ok") /\ ~MsgBusy')
         /\ ~MsgBusy => UNCHANGED <<tcp, net>>
         /\ ctl'.at # "app"
         /\ UNCHANGED <<srv, plc, session, eth>>
<1>0. TransportTypeOK
  BY DEF TypeOK
<1>1. UNCHANGED <<srv, plc, session, eth>> /\ ctl.at = "tags" /\ ctl.i < kMaxTags
  BY DEF PollTag, plcVars
<1>2. CASE ~pool[ctl.i].inUse
  <2>1. UNCHANGED <<tcp, net, msg>> /\ ctl' = [ctl EXCEPT !.i = ctl.i + 1]
    BY <1>2 DEF PollTag
  <2>2. ctl'.at = ctl.at /\ ctl'.disc = ctl.disc
    BY <2>1 DEF TypeOK, CtlTypeOK
  <2> QED BY <1>0, <1>1, <2>1, <2>2, NotMoved DEF MsgBusy
<1>3. CASE pool[ctl.i].inUse
  <2>1. PICK h \in Slots : h = ctl.i
    BY <1>1, ClientAssumption DEF TypeOK, CtlTypeOK, Slots
  <2>2. PICK st \in Status :
          /\ TagPoll(h, st)
          /\ ctl' = [at   |-> IF pool[h].prev = "Pending" /\ st # "Pending" THEN "cb" ELSE "tags",
                     i    |-> IF pool[h].prev = "Pending" /\ st # "Pending" THEN h ELSE h + 1,
                     disc |-> ctl.disc \/ st = "Closed"]
    BY <1>3, <2>1 DEF PollTag
  <2>3. ctl'.at # "app" /\ (ctl'.disc => ctl.disc \/ st = "Closed")
    BY <2>2
  <2>4. CASE ~InFlight(h)
    <3>1. UNCHANGED <<tcp, net, msg>> /\ st = TagStatus[tags[h].state]
      BY <2>2, <2>4 DEF TagPoll
    <3>2. tags[h].state \in {"Idle", "Done", "Failed"}
      BY <2>4 DEF TypeOK, TagTypeOK, InFlight
    <3>3. st # "Closed"
      BY <3>1, <3>2 DEF TagStatus
    <3> QED BY <1>0, <1>1, <2>3, <3>1, <3>3, NotMoved DEF MsgBusy
  <2>5. CASE InFlight(h)
    <3>1. PICK ms \in Status : MsgPoll(ms) /\ (st = "Closed" => ms = "Closed")
      BY <2>2, <2>5 DEF TagPoll
    <3>2. MsgPolled(ms)
      BY <3>1, MsgPollEffect DEF TypeOK
    <3> QED BY <1>1, <2>3, <3>1, <3>2 DEF MsgPolled
  <2> QED BY <2>4, <2>5
<1> QED BY <1>2, <1>3

-----------------------------------------------------------------------------
(* Which requests the two exchanges write.                                 *)
ReqInv ==
  /\ SessionReq
  /\ msg.io.req.command \in {"RegisterSession", "SendRRData"}

LEMMA SessionSteps ==
  ASSUME [Next]_vars
  PROVE  \/ UNCHANGED session
         \/ Connect \/ Disconnect \/ PollConnecting \/ PollRegistering \/ PollReadyEnd
         \/ PollDisconnecting \/ Tick
  BY DEF Next, App, Poll, Begin, CreateTag, DestroyTag, SetDataType, Read, Write, AbortTag,
         PollEthernet, PollReady, PollTag, CallbackReturn, Network, vars, plcVars

LEMMA MsgSteps ==
  ASSUME [Next]_vars
  PROVE  \/ UNCHANGED msg
         \/ Tick \/ PollTag
         \/ \E h \in Slots : Read(h) \/ Write(h) \/ AbortTag(h)
  BY DEF Next, App, Poll, Begin, Connect, Disconnect, CreateTag, DestroyTag, SetDataType,
         PollEthernet, PollConnecting, PollRegistering, PollReady, PollReadyEnd,
         PollDisconnecting, CallbackReturn, Network, vars

(* read() and write() of a tag leave the message alone or start it.        *)
LEMMA StartMsg ==
  ASSUME NEW h \in Slots, Read(h) \/ Write(h)
  PROVE  \/ UNCHANGED msg
         \/ /\ plc.state = "Ready" /\ Connected(tcp)
            /\ msg'.state = "Sending"
            /\ msg'.io.req.command = "SendRRData" /\ msg'.io.req.session = session.handle
<1>1. PICK st \in Status : TagRead(h, st) \/ TagWrite(h, st)
  BY DEF Read, Write
<1>2. plc.state = "Ready"
  BY DEF Read, Write, MayStart
<1>3. CASE ~UNCHANGED msg
  <2>1. MsgSend(session.handle, pool[h].name, st)
    BY <1>1, <1>3 DEF TagRead, TagWrite
  <2>2. Connected(tcp) /\
        msg' = [state   |-> "Sending", context |-> (msg.context + 1) % CtxMod,
                timer   |-> OpTimeout,
                io      |-> NewIo([command |-> "SendRRData", session |-> session.handle,
                                   context |-> msg.context, tag |-> pool[h].name,
                                   status |-> "ok"])]
    BY <1>3, <2>1 DEF MsgSend
  <2> QED BY <1>2, <2>2 DEF NewIo
<1> QED BY <1>3

(* Tag::abort() leaves the message alone or resets it.                     *)
LEMMA AbortMsg ==
  ASSUME MsgTypeOK, NEW h \in Slots, AbortTag(h)
  PROVE  UNCHANGED msg \/ (msg'.state = "Idle" /\ msg'.io = NoIo)
<1>1. UNCHANGED msg \/ msg' = [msg EXCEPT !.state = "Idle", !.timer = 0, !.io = NoIo]
  BY DEF AbortTag, TagAbort, MsgAbort
<1> QED BY <1>1 DEF MsgTypeOK

(* A tick moves the deadlines only.                                        *)
LEMMA TickQuiet ==
  ASSUME TypeOK, Tick
  PROVE  /\ plc'.state = plc.state /\ plc'.want = plc.want
         /\ tcp'.fd = tcp.fd /\ tcp'.state = tcp.state
         /\ session'.state = session.state /\ session'.handle = session.handle
         /\ session'.io = session.io
         /\ msg'.state = msg.state /\ msg'.context = msg.context /\ msg'.io = msg.io
         /\ UNCHANGED <<net, srv, eth, calls, pool, tags, op, ctl>>
<1>1. tcp'.fd = tcp.fd /\ tcp'.state = tcp.state
  BY DEF Tick, TypeOK, TransportTypeOK
<1>2. plc'.state = plc.state /\ plc'.want = plc.want
  BY DEF Tick, TypeOK, ClientTypeOK
<1>3. /\ session'.state = session.state /\ session'.handle = session.handle
      /\ session'.io = session.io
  BY DEF Tick, SessionTick, TypeOK, SessionTypeOK
<1>4. msg'.state = msg.state /\ msg'.context = msg.context /\ msg'.io = msg.io
  BY DEF Tick, MsgTick, TypeOK, MsgTypeOK
<1> QED BY <1>1, <1>2, <1>3, <1>4 DEF Tick, tagVars

LEMMA ReqNext ==
  ASSUME TypeOK, ReqInv, [Next]_vars
  PROVE  ReqInv'
<1>0. TransportTypeOK /\ SessionTypeOK /\ MsgTypeOK
  BY DEF TypeOK
<1>1. SessionReq'
  <2>1. CASE UNCHANGED session
    BY <2>1 DEF ReqInv, SessionReq
  <2>2. CASE SessionAbort
    BY <1>0, <2>2, SessionAborted, NoIoCommand DEF SessionReq
  <2>3. ASSUME NEW st, SessionClose(st)
        PROVE  SessionReq'
    BY <1>0, <2>3, SessionCloseEffect, NoIoCommand DEF ReqInv, SessionReq
  <2>4. ASSUME NEW st, NEW conn, NEW timeout, SessionOpen(conn, timeout, st)
        PROVE  SessionReq'
    BY <1>0, <2>4, SessionOpenEffect DEF ReqInv, SessionReq
  <2>5. ASSUME NEW st \in Status, NEW closeOn, SessionPoll(st, closeOn)
        PROVE  SessionReq'
    BY <1>0, <2>5, SessionPollEffect, NoIoCommand DEF SessionPolled, ReqInv, SessionReq
  <2>6. CASE Tick
    BY <2>6, TickQuiet DEF ReqInv, SessionReq
  <2> QED BY <2>1, <2>2, <2>3, <2>4, <2>5, <2>6, SessionSteps
          DEF Connect, Disconnect, PollConnecting, PollRegistering, PollReadyEnd,
              PollDisconnecting
<1>2. msg'.io.req.command \in {"RegisterSession", "SendRRData"}
  <2>1. CASE UNCHANGED msg
    BY <2>1 DEF ReqInv
  <2>2. CASE Tick
    BY <2>2, TickQuiet DEF ReqInv
  <2>3. CASE PollTag
    BY <2>3, PollTagEffect, NoIoCommand DEF ReqInv
  <2>4. ASSUME NEW h \in Slots, Read(h) \/ Write(h) \/ AbortTag(h)
        PROVE  msg'.io.req.command \in {"RegisterSession", "SendRRData"}
    BY <1>0, <2>4, StartMsg, AbortMsg, NoIoCommand DEF ReqInv
  <2> QED BY <2>1, <2>2, <2>3, <2>4, MsgSteps
<1> QED BY <1>1, <1>2 DEF ReqInv

LEMMA ReqInit == Init => ReqInv
  BY NoIoCommand DEF Init, SessionInit, MsgInit, ReqInv, SessionReq

-----------------------------------------------------------------------------
(* ready() means registered.  The inductive invariant follows a connection *)
(* from the socket's creation: nothing is on the way before the connect    *)
(* has succeeded; from then on the server is asked to register and never,  *)
(* until disconnect() leaves Ready, to unregister, so that the handle of   *)
(* every good RegisterSession reply under way is the server's own.         *)
Opening ==
  /\ tcp.fd /\ tcp.state # "Ok"
  /\ net.c2s = << >> /\ net.s2c = << >>
  /\ net.sock = "up" => srv = SrvFresh

InStep ==
  /\ \A p \in Inbound : p.command # "UnregisterSession"
  /\ \A p \in Pkts(srv.out) \cup Pkts(net.s2c) \cup Pkts(session.io.rx) : FromReg(p, srv.reg)
  /\ plc.state = "Ready" => srv.reg = session.handle

Open ==
  /\ tcp.fd /\ tcp.state # "Pending"
  /\ net.sock \in {"up", "fin", "reset"}
  /\ net.sock = "up" => InStep

ReadyInv ==
  /\ plc.state = "Connecting" => Opening
  /\ plc.state = "Registering" => session.state \in {"Registering", "Failed"}
  /\ plc.state = "Ready" => session.state = "Registered" /\ session.handle # 0
  /\ plc.state \in {"Registering", "Ready"} => Open

LEMMA ReadyInit == Init => ReadyInv
  BY DEF Init, ReadyInv

(* The client is in none of the states the invariant speaks of.            *)
LEMMA ReadyAway ==
  ASSUME plc'.state \notin {"Connecting", "Registering", "Ready"}
  PROVE  ReadyInv'
  BY DEF ReadyInv

LEMMA ReadyQuiet ==
  ASSUME ReadyInv, plc'.state = plc.state, tcp'.fd = tcp.fd, tcp'.state = tcp.state,
         session'.state = session.state, session'.handle = session.handle,
         session'.io = session.io, UNCHANGED <<net, srv>>
  PROVE  ReadyInv'
<1>1. Opening' <=> Opening
  BY DEF Opening
<1>2. InStep' <=> InStep
  BY DEF InStep, Inbound
<1>3. Open' <=> Open
  BY <1>2 DEF Open
<1> QED BY <1>1, <1>3 DEF ReadyInv

(* connect() has made a new socket.                                        *)
LEMMA OpeningStarts ==
  ASSUME NEW st, TcpConnect(ConnectTimeout, st), st = "Pending"
  PROVE  Opening'
  BY DEF TcpConnect, Opening, Wire

(* The exchange of a tag, whose connection may be gone, moves on.          *)
LEMMA ReadyPollTag ==
  ASSUME TypeOK, ReqInv, ReadyInv, PollTag
  PROVE  ReadyInv'
<1>1. Moved(msg.io.req) /\ UNCHANGED <<srv, plc, session>>
  BY PollTagEffect
<1>2. Opening => Opening'
  BY <1>1 DEF Moved, Opening, Usable, Connected
<1>3. InStep => InStep'
  <2>1. msg.io.req.command # "UnregisterSession"
    BY DEF ReqInv
  <2> QED BY <1>1, <2>1 DEF Moved, InStep, Inbound
<1>4. Open => Open'
  BY <1>1, <1>3 DEF Moved, Open
<1> QED BY <1>1, <1>2, <1>4 DEF ReadyInv

LEMMA ReadyPollConnecting ==
  ASSUME TypeOK, ReadyInv, PollConnecting
  PROVE  ReadyInv'
<1>0. SessionTypeOK /\ ClientTypeOK /\ TransportTypeOK
  BY DEF TypeOK
<1>1. Opening /\ plc.state = "Connecting" /\ UNCHANGED srv
  BY DEF ReadyInv, PollConnecting
<1>2. CASE plc' = [plc EXCEPT !.state = "Failed"]
  BY <1>0, <1>2, ReadyAway DEF ClientTypeOK
<1>3. ASSUME NEW st \in Status, TcpPoll(st), st \notin {"Ok", "Timeout", "Error"},
             UNCHANGED <<plc, session>>
      PROVE  ReadyInv'
  <2>1. UNCHANGED <<tcp, net>>
    BY <1>3 DEF TcpPoll
  <2> QED BY <1>1, <1>3, <2>1, ReadyQuiet
<1>4. ASSUME TcpPoll("Ok"), SessionOpen(tcp', plc.timer, "Pending"),
             plc' = [plc EXCEPT !.state = "Registering"]
      PROVE  ReadyInv'
  <2>1. /\ net.sock \in {"up", "fin"} /\ UNCHANGED net
        /\ tcp' = [tcp EXCEPT !.state = "Ok"] /\ tcp.fd
    BY <1>1, <1>4 DEF TcpPoll, Opening
  <2>2. tcp'.fd /\ tcp'.state = "Ok"
    BY <1>0, <2>1 DEF TransportTypeOK
  <2>3. plc'.state = "Registering"
    BY <1>0, <1>4 DEF ClientTypeOK
  <2>4. session'.state = "Registering" /\ session'.io.rx = << >>
    BY <1>0, <1>4, SessionOpenEffect
  <2>5. net.sock = "up" => InStep'
    <3> SUFFICES ASSUME net.sock = "up" PROVE InStep'
      OBVIOUS
    <3>1. srv'.rx = << >> /\ srv'.out = << >> /\ net'.c2s = << >> /\ net'.s2c = << >>
      BY <1>1, <2>1 DEF Opening, SrvFresh
    <3> QED BY <2>3, <2>4, <3>1, PktsEmpty DEF InStep, Inbound
  <2> QED BY <2>1, <2>2, <2>3, <2>4, <2>5 DEF ReadyInv, Open
<1>5. PICK st \in Status, ost \in Status :
        \/ plc' = [plc EXCEPT !.state = "Failed"]
        \/ TcpPoll(st) /\ st \notin {"Ok", "Timeout", "Error"} /\ UNCHANGED <<plc, session>>
        \/ /\ TcpPoll("Ok") /\ SessionOpen(tcp', plc.timer, "Pending")
           /\ plc' = [plc EXCEPT !.state = "Registering"]
  BY DEF PollConnecting, Status
<1> QED BY <1>2, <1>3, <1>4, <1>5

LEMMA ReadyPollRegistering ==
  ASSUME TypeOK, ReqInv, ReadyInv, PollRegistering
  PROVE  ReadyInv'
<1>0. SessionTypeOK /\ ClientTypeOK /\ TransportTypeOK
  BY DEF TypeOK
<1>1. /\ Open /\ plc.state = "Registering" /\ UNCHANGED srv
      /\ session.state \in {"Registering", "Failed"}
  BY DEF ReadyInv, PollRegistering
<1>2. CASE plc' = [plc EXCEPT !.state = "Failed"]
  BY <1>0, <1>2, ReadyAway DEF ClientTypeOK
<1>3. CASE plc' # [plc EXCEPT !.state = "Failed"]
  <2>1. PICK st \in Status :
          /\ SessionPoll(st, {})
          /\ \/ st = "Ok" /\ plc' = [plc EXCEPT !.state = "Ready"]
             \/ st \notin {"Ok", "Timeout", "Error"} /\ UNCHANGED plc
    BY <1>3 DEF PollRegistering
  <2>2. SessionPolled(st, {})
    BY <1>0, <2>1, SessionPollEffect
  <2>3. st = "Ok" => plc'.state = "Ready"
    BY <1>0, <2>1 DEF ClientTypeOK
  <2>4. st # "Ok" => plc'.state = "Registering"
    BY <1>1, <2>1
  <2>5. session.state = "Registering"
    <3>1. session.state = "Failed" => st = "Error"
      BY <2>2 DEF SessionPolled, SettledStatus
    <3> QED BY <1>1, <2>1, <3>1
  <2>6. Moved(session.io.req) /\ session.io.req.command = "RegisterSession"
    BY <2>2, <2>5 DEF SessionPolled, ReqInv, SessionReq
  <2>7. InStep => InStep'
    <3> SUFFICES ASSUME InStep PROVE InStep'
      OBVIOUS
    <3>1. \A p \in Inbound' : p.command # "UnregisterSession"
      BY <1>1, <2>6 DEF Moved, InStep, Inbound
    <3>2. \A p \in (Pkts(srv.out) \cup Pkts(net.s2c) \cup Pkts(session.io.rx))' : FromReg(p, srv.reg)
      BY <1>1, <2>2, <2>6 DEF Moved, InStep, SessionPolled
    <3>3. st = "Ok" => srv.reg = session'.handle
      <4> SUFFICES ASSUME st = "Ok" PROVE srv.reg = session'.handle
        OBVIOUS
      <4>1. /\ session'.handle # 0
            /\ \E p \in Pkts(session.io.rx) \cup Pkts(net.s2c) :
                 p.command = "RegisterSession" /\ p.status = "ok" /\ p.session = session'.handle
        BY <2>2, <2>5 DEF SessionPolled
      <4> QED BY <4>1 DEF InStep, FromReg
    <3> QED BY <1>1, <2>4, <3>1, <3>2, <3>3 DEF InStep
  <2>8. Open'
    BY <1>1, <2>6, <2>7 DEF Moved, Open
  <2>9. CASE st = "Ok"
    BY <2>2, <2>3, <2>5, <2>8, <2>9 DEF SessionPolled, ReadyInv
  <2>10. CASE st # "Ok"
    BY <2>2, <2>4, <2>5, <2>8, <2>10 DEF SessionPolled, ReadyInv
  <2> QED BY <2>9, <2>10
<1> QED BY <1>2, <1>3

(* A step of the server on an open connection.                             *)
LEMMA InStepReceive ==
  ASSUME TypeOK, InStep, PlcReceive, UNCHANGED <<plc, session>>,
         plc.state = "Ready" => session.handle # 0
  PROVE  InStep'
<1>0. TransportTypeOK /\ PlcTypeOK
  BY DEF TypeOK
<1>1. /\ net'.s2c = net.s2c /\ Pkts(net'.c2s) \subseteq Pkts(net.c2s)
      /\ srv.out = << >>
  BY <1>0, PlcReceiveCases DEF TransportTypeOK
<1>2. Inbound \subseteq Packet
  BY <1>0, OnTheWayType DEF OnTheWay
<1>3. CASE srv' = [srv EXCEPT !.rx = Append(srv.rx, Head(net.c2s))]
           /\ Pkts(srv'.rx) \subseteq Inbound
  <2>1. srv'.out = srv.out /\ srv'.reg = srv.reg
    BY <1>0, <1>3 DEF PlcTypeOK
  <2> QED BY <1>1, <1>3, <2>1 DEF InStep, Inbound
<1>4. CASE srv' = [srv EXCEPT !.rx = << >>]
  <2>1. srv'.out = srv.out /\ srv'.reg = srv.reg /\ srv'.rx = << >>
    BY <1>0, <1>4 DEF PlcTypeOK
  <2> QED BY <1>1, <2>1, PktsEmpty DEF InStep, Inbound
<1>5. ASSUME NEW q \in Inbound,
             srv' = [srv EXCEPT !.rx = << >>, !.out = Fragments(Reply(q, 0, "encapErr"))]
      PROVE  InStep'
  <2> DEFINE r == Reply(q, 0, "encapErr")
  <2>1. r \in Packet /\ r.status = "encapErr"
    BY <1>2, RefusalKeeps
  <2>2. srv'.out = Fragments(r) /\ srv'.reg = srv.reg /\ srv'.rx = << >>
    BY <1>0, <1>5 DEF PlcTypeOK
  <2> HIDE DEF r
  <2>3. Pkts(srv'.out) = {r} /\ Pkts(srv'.rx) = {}
    BY <2>1, <2>2, PktsFragments, PktsEmpty
  <2> QED BY <1>1, <2>1, <2>2, <2>3 DEF InStep, Inbound, FromReg
<1>6. ASSUME NEW q \in Inbound, NEW a \in Answers(q),
             srv' = [reg |-> a.reg, rx |-> << >>, out |-> Fragments(a.reply)]
      PROVE  InStep'
  <2>1. q \in Packet /\ q.command # "UnregisterSession"
    BY <1>2 DEF InStep
  <2>2. /\ a.reg = srv.reg \/ srv.reg = 0
        /\ FromReg(a.reply, a.reg)
    BY <1>0, <2>1, AnswersReg
  <2>3. a.reply \in Packet
    BY <1>0, <2>1, AnswersKeep
  <2>4. srv'.reg = a.reg /\ srv'.rx = << >> /\ srv'.out = Fragments(a.reply)
    BY <1>6
  <2>5. Pkts(srv'.out) = {a.reply} /\ Pkts(srv'.rx) = {}
    BY <2>3, <2>4, PktsFragments, PktsEmpty
  <2>6. \A p \in Pkts(net.s2c) \cup Pkts(session.io.rx) : FromReg(p, a.reg)
    <3>1. \A p \in Pkts(net.s2c) \cup Pkts(session.io.rx) : FromReg(p, srv.reg)
      BY DEF InStep
    <3> QED BY <2>2, <3>1 DEF FromReg
  <2>7. plc.state = "Ready" => a.reg = session.handle
    BY <2>2 DEF InStep
  <2> QED BY <1>1, <2>1, <2>2, <2>4, <2>5, <2>6, <2>7 DEF InStep, Inbound
<1> QED BY <1>0, <1>3, <1>4, <1>5, <1>6, PlcReceiveCases

LEMMA ReadyNetwork ==
  ASSUME TypeOK, ReadyInv, Network
  PROVE  ReadyInv'
<1>0. TransportTypeOK /\ PlcTypeOK
  BY DEF TypeOK
<1>1. UNCHANGED <<plc, session, tcp>> /\ PlcNext
  BY DEF Network, plcVars, PlcNext, PlcAccept, PlcReceive, PlcSend, PlcClose
<1>2. CASE PlcAccept
  <2>1. net.sock = "connecting" /\ srv' = SrvFresh /\ net'.c2s = net.c2s /\ net'.s2c = net.s2c
    BY <1>0, <1>2 DEF PlcAccept, TransportTypeOK
  <2>2. Opening => Opening'
    BY <1>1, <2>1 DEF Opening
  <2>3. ~Open
    BY <2>1 DEF Open
  <2> QED BY <1>1, <2>2, <2>3 DEF ReadyInv
<1>3. CASE PlcReceive
  <2>1. net.sock = "up" /\ net.c2s # << >> /\ net'.sock = net.sock
    BY <1>0, <1>3, PlcReceiveCases DEF TransportTypeOK
  <2>2. ~Opening
    BY <2>1 DEF Opening
  <2>3. Open /\ (plc.state = "Ready" => session.handle # 0) => Open'
    BY <1>1, <1>3, <2>1, InStepReceive DEF Open
  <2> QED BY <1>1, <2>2, <2>3 DEF ReadyInv
<1>4. CASE PlcSend
  <2>1. /\ net.sock = "up" /\ net'.sock = net.sock /\ net'.c2s = net.c2s
        /\ srv.out # << >> /\ srv'.reg = srv.reg /\ srv'.rx = srv.rx
        /\ Pkts(net'.s2c) \subseteq Pkts(net.s2c) \cup Pkts(srv.out)
        /\ Pkts(srv'.out) \subseteq Pkts(srv.out)
    BY <1>0, <1>4, PlcSendPkts DEF TransportTypeOK, PlcTypeOK
  <2>2. ~Opening
    BY <2>1 DEF Opening, SrvFresh
  <2>3. InStep => InStep'
    BY <1>1, <2>1 DEF InStep, Inbound
  <2>4. Open => Open'
    BY <1>1, <2>1, <2>3 DEF Open
  <2> QED BY <1>1, <2>2, <2>4 DEF ReadyInv
<1>5. CASE PlcClose
  <2>1. /\ net'.sock \in {"fin", "reset"} /\ net'.c2s = << >>
        /\ net'.s2c \in {net.s2c, << >>}
    <3>1. CASE net' = [net EXCEPT !.sock = "fin", !.c2s = << >>]
      BY <1>0, <3>1 DEF TransportTypeOK
    <3>2. CASE net' = Wire("reset")
      BY <3>2 DEF Wire
    <3> QED BY <1>5, <3>1, <3>2 DEF PlcClose
  <2>2. Opening => Opening'
    BY <1>1, <2>1 DEF Opening
  <2>3. Open => Open'
    BY <1>1, <2>1 DEF Open
  <2> QED BY <1>1, <2>2, <2>3 DEF ReadyInv
<1> QED BY <1>1, <1>2, <1>3, <1>4, <1>5 DEF PlcNext

LEMMA ReadyNext ==
  ASSUME TypeOK, ReqInv, ReadyInv, [Next]_vars
  PROVE  ReadyInv'
<1>0. ClientTypeOK /\ SessionTypeOK
  BY DEF TypeOK
<1>1. CASE UNCHANGED <<plc, session, tcp, net, srv>>
  BY <1>1, ReadyQuiet
<1>2. CASE Begin
  <2>1. plc'.state = "Ethernet"
    BY <1>0, <1>2 DEF Begin, ClientTypeOK
  <2> QED BY <2>1, ReadyAway
<1>3. CASE Connect \/ PollEthernet
  <2>1. \/ UNCHANGED <<plc, session, tcp, net, srv>>
        \/ \E st \in Status : /\ TcpConnect(ConnectTimeout, st) /\ st = "Pending"
                              /\ plc' = [state |-> "Connecting", want |-> FALSE,
                                         timer |-> ConnectTimeout]
        \/ plc' = [state |-> "Failed", want |-> FALSE, timer |-> ConnectTimeout]
        \/ plc' = [plc EXCEPT !.state = "Failed"]
        \/ plc' = [plc EXCEPT !.state = "Ethernet", !.want = TRUE]
    BY <1>3 DEF Connect, PollEthernet
  <2>2. ASSUME NEW st \in Status, TcpConnect(ConnectTimeout, st), st = "Pending",
               plc' = [state |-> "Connecting", want |-> FALSE, timer |-> ConnectTimeout]
        PROVE  ReadyInv'
    <3>1. plc'.state = "Connecting" /\ Opening'
      BY <2>2, OpeningStarts
    <3> QED BY <3>1 DEF ReadyInv
  <2>3. ASSUME \/ plc' = [state |-> "Failed", want |-> FALSE, timer |-> ConnectTimeout]
               \/ plc' = [plc EXCEPT !.state = "Failed"]
               \/ plc' = [plc EXCEPT !.state = "Ethernet", !.want = TRUE]
        PROVE  ReadyInv'
    <3>1. CASE plc' = [state |-> "Failed", want |-> FALSE, timer |-> ConnectTimeout]
      BY <3>1, ReadyAway
    <3>2. CASE plc' = [plc EXCEPT !.state = "Failed"]
      BY <1>0, <3>2, ReadyAway DEF ClientTypeOK
    <3>3. CASE plc' = [plc EXCEPT !.state = "Ethernet", !.want = TRUE]
      BY <1>0, <3>3, ReadyAway DEF ClientTypeOK
    <3> QED BY <2>3, <3>1, <3>2, <3>3
  <2> QED BY <1>1, <2>1, <2>2, <2>3
<1>4. CASE Disconnect
  <2>1. plc'.state \in {"Disconnecting", "Idle"}
    BY <1>0, <1>4 DEF Disconnect, ClientTypeOK
  <2> QED BY <2>1, ReadyAway
<1>5. CASE PollReadyEnd
  <2>1. plc'.state = "Idle" \/ UNCHANGED <<plc, session, tcp, net, srv>>
    BY <1>0, <1>5 DEF PollReadyEnd, ClientTypeOK
  <2> QED BY <1>1, <2>1, ReadyAway
<1>6. CASE PollDisconnecting
  <2>1. plc'.state \in {"Idle", "Disconnecting"}
    BY <1>0, <1>6 DEF PollDisconnecting, ClientTypeOK
  <2> QED BY <2>1, ReadyAway
<1>7. CASE Tick
  BY <1>7, TickQuiet, ReadyQuiet
<1>8. CASE PollConnecting \/ PollRegistering \/ PollTag \/ Network
  BY <1>8, ReadyPollConnecting, ReadyPollRegistering, ReadyPollTag, ReadyNetwork
<1>9. CASE \/ PollReady \/ CallbackReturn
           \/ \E h \in Slots : \/ \E name \in Names : CreateTag(h, name)
                               \/ DestroyTag(h) \/ SetDataType(h)
                               \/ Read(h) \/ Write(h) \/ AbortTag(h)
  BY <1>1, <1>9 DEF PollReady, CallbackReturn, CreateTag, DestroyTag, SetDataType, Read, Write,
                    AbortTag, wireVars, plcVars
<1> QED BY <1>1, <1>2, <1>3, <1>4, <1>5, <1>6, <1>7, <1>8, <1>9
        DEF Next, App, Poll, vars, wireVars, plcVars

LEMMA ReadyInvHolds == Spec => [](ReqInv /\ ReadyInv)
<1>1. TypeOK /\ ReqInv /\ [Next]_vars => ReqInv'
  BY ReqNext
<1>2. TypeOK /\ ReqInv /\ ReadyInv /\ [Next]_vars => ReadyInv'
  BY ReadyNext
<1> QED BY <1>1, <1>2, ReqInit, ReadyInit, TypeCorrect, PTL DEF Spec

(* Whatever the application and the network do: when the client says it is *)
(* ready, the session is registered with a handle, the socket is open, and *)
(* if the connection still is, the handle is the one the PLC keeps for it. *)
THEOREM ReadyMeansRegisteredHolds == Spec => []ReadyMeansRegistered
<1>1. ReadyInv => ReadyMeansRegistered
  BY DEF ReadyInv, Open, InStep, ReadyMeansRegistered
<1> QED BY <1>1, ReadyInvHolds, PTL

-----------------------------------------------------------------------------
(* The session is free when a connect attempt begins.  An application that *)
(* does not call begin() again reaches the states before Connecting only   *)
(* with Ethernet down, when there is no session, or through connect(),     *)
(* which drops it.                                                         *)
FreeInv ==
  /\ eth.ready => eth.started
  /\ session.state \in {"Registering", "Registered", "Unregistering"} => eth.ready
  /\ plc.state = "Connecting" => eth.ready
  /\ plc.state \in {"Ethernet", "Connecting"} => session.state \notin {"Registering", "Registered"}

LEMMA FreeNext ==
  ASSUME "rebegin" \notin Habits, TypeOK, FreeInv, [Next]_vars
  PROVE  FreeInv'
<1>0. ClientTypeOK /\ SessionTypeOK /\ EthTypeOK /\ TransportTypeOK
  BY DEF TypeOK
<1>1. CASE eth' = eth /\ plc'.state = plc.state /\ session'.state = session.state
  BY <1>1 DEF FreeInv
<1>2. CASE Begin
  <2>1. ~eth.ready /\ session' = session
    BY <1>2 DEF Begin, FreeInv
  <2>2. plc'.state = "Ethernet"
    BY <1>0, <1>2 DEF Begin, ClientTypeOK
  <2>3. ~eth'.ready
    BY <1>2 DEF Begin, EthBegin
  <2> QED BY <2>1, <2>2, <2>3 DEF FreeInv
<1>3. CASE Connect
  <2>1. CASE eth.ready
    <3>1. SessionAbort /\ eth' = eth
      BY <1>3, <2>1 DEF Connect
    <3> QED BY <1>0, <2>1, <3>1, SessionAborted DEF FreeInv
  <2>2. CASE ~eth.ready
    <3>1. plc'.state = "Ethernet" /\ session' = session /\ eth' = eth
      BY <1>0, <1>3, <2>2 DEF Connect, ClientTypeOK
    <3> QED BY <2>2, <3>1 DEF FreeInv
  <2> QED BY <2>1, <2>2
<1>4. CASE Disconnect
  <2>1. plc'.state \in {"Disconnecting", "Idle"} /\ eth' = eth
    BY <1>0, <1>4 DEF Disconnect, ClientTypeOK
  <2>2. session' = session \/ session'.state = "Closed" \/ session.state = "Registered"
    BY <1>0, <1>4, SessionAborted, SessionCloseEffect DEF Disconnect
  <2> QED BY <2>1, <2>2 DEF FreeInv
<1>5. CASE PollEthernet
  <2>1. PICK st \in Status :
          /\ EthPoll(st)
          /\ \/ st = "Ok" /\ \E s \in {"Connecting", "Failed"} :
                  plc' = [state |-> s, want |-> FALSE, timer |-> ConnectTimeout]
             \/ plc' = [plc EXCEPT !.state = "Failed"]
             \/ UNCHANGED plc
    BY <1>5 DEF PollEthernet
  <2>2. plc'.state = "Connecting" => eth'.ready
    <3>1. CASE UNCHANGED plc
      BY <1>5, <3>1 DEF PollEthernet
    <3>2. CASE plc' = [plc EXCEPT !.state = "Failed"]
      BY <1>0, <3>2 DEF ClientTypeOK
    <3>3. CASE st = "Ok"
      BY <1>0, <2>1, <3>3, EthEffect
    <3> QED BY <2>1, <3>1, <3>2, <3>3
  <2>3. session' = session /\ plc.state = "Ethernet"
    BY <1>5 DEF PollEthernet
  <2> QED BY <1>0, <2>1, <2>2, <2>3, EthEffect DEF FreeInv
<1>6. CASE PollConnecting
  <2>1. eth.ready /\ eth' = eth /\ plc.state = "Connecting"
    BY <1>6 DEF PollConnecting, FreeInv
  <2>2. session' = session \/ plc'.state \in {"Registering", "Failed"}
    BY <1>0, <1>6 DEF PollConnecting, ClientTypeOK
  <2>3. plc'.state \in {"Connecting", "Registering", "Failed"}
    BY <1>0, <1>6 DEF PollConnecting, ClientTypeOK
  <2> QED BY <2>1, <2>2, <2>3 DEF FreeInv
<1>7. CASE PollRegistering \/ PollDisconnecting
  <2>1. eth' = eth /\ plc'.state \in {"Registering", "Ready", "Failed", "Idle", "Disconnecting"}
    <3>1. eth' = eth
      BY <1>7 DEF PollRegistering, PollDisconnecting
    <3>2. \/ plc' = plc /\ plc.state \in {"Registering", "Disconnecting"}
          \/ \E s \in {"Ready", "Failed", "Idle"} : plc' = [plc EXCEPT !.state = s]
      BY <1>7 DEF PollRegistering, PollDisconnecting
    <3> QED BY <1>0, <3>1, <3>2 DEF ClientTypeOK
  <2>2. session' = session \/ \E st \in Status, c \in {{}, {"Ok", "Closed"}} : SessionPoll(st, c)
    BY <1>7 DEF PollRegistering, PollDisconnecting
  <2>3. session'.state \in {"Registering", "Registered", "Unregistering"}
          => session.state \in {"Registering", "Registered", "Unregistering"}
    BY <1>0, <2>2, SessionPollEffect DEF SessionPolled
  <2> QED BY <2>1, <2>3 DEF FreeInv
<1>8. CASE PollReadyEnd
  <2>1. eth' = eth
    BY <1>8 DEF PollReadyEnd
  <2>2. \/ UNCHANGED <<plc, session>>
        \/ SessionAbort /\ plc'.state = "Idle"
    BY <1>0, <1>8 DEF PollReadyEnd, ClientTypeOK
  <2> QED BY <1>0, <2>1, <2>2, SessionAborted DEF FreeInv
<1>9. CASE Tick
  BY <1>1, <1>9, TickQuiet
<1>10. CASE \/ PollReady \/ CallbackReturn \/ PollTag \/ Network \/ UNCHANGED vars
            \/ \E h \in Slots : \/ \E name \in Names : CreateTag(h, name)
                                \/ DestroyTag(h) \/ SetDataType(h)
                                \/ Read(h) \/ Write(h) \/ AbortTag(h)
  BY <1>1, <1>10 DEF PollReady, CallbackReturn, PollTag, Network, CreateTag, DestroyTag,
                     SetDataType, Read, Write, AbortTag, vars, plcVars
<1> QED BY <1>2, <1>3, <1>4, <1>5, <1>6, <1>7, <1>8, <1>9, <1>10 DEF Next, App, Poll

(* The comment in PlcClient::connect(), for every application that calls   *)
(* begin() only while Ethernet is not started: Session::open() never       *)
(* answers Busy to a connect attempt.                                      *)
THEOREM SessionFreeForOpenHolds ==
  ASSUME "rebegin" \notin Habits
  PROVE  Spec => []SessionFreeForOpen
<1>1. Init => FreeInv
  BY DEF Init, EthInit, SessionInit, FreeInv
<1>2. TypeOK /\ FreeInv /\ [Next]_vars => FreeInv'
  BY FreeNext
<1>3. FreeInv => SessionFreeForOpen
  BY DEF FreeInv, SessionFreeForOpen
<1> QED BY <1>1, <1>2, <1>3, TypeCorrect, PTL DEF Spec

-----------------------------------------------------------------------------
(* Requests carry the current handle.  For an application that leaves      *)
(* operations in flight alone the message is busy only while the client    *)
(* is ready, and UnregisterSession is the last thing written before the    *)
(* server drops the session.                                               *)
NoneAfter(s) ==
  \A i, j \in 1 .. Len(s) :
    i < j => ~(s[i].pkt.command = "UnregisterSession" /\ s[j].pkt.command = "SendRRData")

SocketInv ==
  /\ net.c2s # << >> => net.sock = "up"
  /\ tcp.state = "Ok" => tcp.fd /\ net.sock \in {"up", "fin", "reset"}

BusyInv ==
  /\ MsgBusy => plc.state = "Ready" /\ msg.io.req.session = session.handle
  /\ ctl.disc => ctl.at # "app" /\ tcp.state # "Ok" /\ ~MsgBusy

StreamInv ==
  /\ \A p \in Pkts(net.c2s) : p.command = "SendRRData" => p.session = srv.reg /\ p.session # 0
  /\ NoneAfter(net.c2s)

LEMMA NoneAfterEmpty == NoneAfter(<< >>)
  BY DEF NoneAfter

LEMMA NoneAfterConcat ==
  ASSUME NEW s \in Seq(Fragment), NEW t \in Seq(Fragment), NoneAfter(s),
         \A p \in Pkts(t) : p.command # "SendRRData"
  PROVE  NoneAfter(s \o t)
<1> SUFFICES ASSUME NEW i \in 1 .. Len(s \o t), NEW j \in 1 .. Len(s \o t), i < j
             PROVE  ~(/\ (s \o t)[i].pkt.command = "UnregisterSession"
                      /\ (s \o t)[j].pkt.command = "SendRRData")
  BY DEF NoneAfter
<1>1. Len(s \o t) = Len(s) + Len(t) /\ Len(s) \in Nat /\ Len(t) \in Nat
  BY ConcatProperties, LenProperties
<1>2. CASE j <= Len(s)
  <2>1. (s \o t)[i] = s[i] /\ (s \o t)[j] = s[j] /\ i \in 1 .. Len(s) /\ j \in 1 .. Len(s)
    BY <1>1, <1>2, ConcatProperties
  <2> QED BY <2>1 DEF NoneAfter
<1>3. CASE j > Len(s)
  <2>1. (s \o t)[j] = t[j - Len(s)] /\ j - Len(s) \in 1 .. Len(t)
    BY <1>1, <1>3, ConcatProperties
  <2>2. t[j - Len(s)].pkt \in Pkts(t)
    BY <2>1 DEF Pkts
  <2> QED BY <2>1, <2>2
<1> QED BY <1>1, <1>2, <1>3

LEMMA NoneAfterTail ==
  ASSUME NEW s \in Seq(Fragment), s # << >>, NoneAfter(s)
  PROVE  /\ NoneAfter(Tail(s))
         /\ Head(s).pkt.command = "UnregisterSession" =>
              \A p \in Pkts(Tail(s)) : p.command # "SendRRData"
<1>1. Len(s) \in Nat /\ Len(s) >= 1 /\ Head(s) = s[1] /\ Len(Tail(s)) = Len(s) - 1
  BY HeadTailProperties, LenProperties, EmptySeq
<1>2. \A k \in 1 .. Len(Tail(s)) : Tail(s)[k] = s[k + 1] /\ k + 1 \in 1 .. Len(s) /\ 1 < k + 1
  BY <1>1, HeadTailProperties
<1>3. NoneAfter(Tail(s))
  <2> SUFFICES ASSUME NEW i \in 1 .. Len(Tail(s)), NEW j \in 1 .. Len(Tail(s)), i < j
               PROVE  ~(/\ Tail(s)[i].pkt.command = "UnregisterSession"
                        /\ Tail(s)[j].pkt.command = "SendRRData")
    BY DEF NoneAfter
  <2>1. i + 1 < j + 1 /\ i + 1 \in 1 .. Len(s) /\ j + 1 \in 1 .. Len(s)
    BY <1>1, <1>2
  <2> QED BY <1>2, <2>1 DEF NoneAfter
<1>4. ASSUME Head(s).pkt.command = "UnregisterSession", NEW p \in Pkts(Tail(s))
      PROVE  p.command # "SendRRData"
  <2>1. PICK k \in 1 .. Len(Tail(s)) : p = Tail(s)[k].pkt
    BY <1>4 DEF Pkts
  <2>2. 1 \in 1 .. Len(s) /\ k + 1 \in 1 .. Len(s) /\ 1 < k + 1 /\ p = s[k + 1].pkt
    BY <1>1, <1>2, <2>1
  <2> QED BY <1>1, <1>4, <2>2 DEF NoneAfter
<1> QED BY <1>3, <1>4

(* The last fragment of a whole packet is of that packet.                  *)
LEMMA IntactLast ==
  ASSUME NEW s \in Seq(Fragment), NEW f \in Fragment, Len(Append(s, f)) = Frags,
         Intact(Append(s, f))
  PROVE  f.pkt = Append(s, f)[1].pkt
<1> DEFINE rx == Append(s, f)
<1>1. Frags \in 1 .. Frags /\ Len(s) + 1 = Frags /\ rx[Len(s) + 1] = f
  BY AppendProperties, LenProperties, WireAssumption
<1>2. rx[Frags] = Fragments(rx[1].pkt)[Frags]
  BY DEF Intact
<1>3. Fragments(rx[1].pkt)[Frags].pkt = rx[1].pkt
  BY <1>1 DEF Fragments
<1> HIDE DEF rx
<1> QED BY <1>1, <1>2, <1>3 DEF rx

(* Every step as the connection sees it.                                   *)
LEMMA WireSteps ==
  ASSUME TypeOK, [Next]_vars
  PROVE  \/ /\ srv' = srv
            /\ \/ tcp'.fd = tcp.fd /\ tcp'.state = tcp.state /\ net' = net
               \/ TcpClose
               \/ \E st \in Status : TcpConnect(ConnectTimeout, st)
               \/ \E st \in Status : TcpPoll(st)
               \/ Moved(session.io.req)
               \/ PollTag /\ Moved(msg.io.req)
         \/ PlcNext /\ Network
<1>0. TransportTypeOK /\ SessionTypeOK
  BY DEF TypeOK
<1>1. CASE Network
  BY <1>1 DEF Network
<1>2. CASE Tick
  BY <1>2, TickQuiet
<1>3. CASE PollTag
  BY <1>3, PollTagEffect
<1>4. CASE PollRegistering \/ PollDisconnecting
  <2>1. /\ srv' = srv
        /\ \/ UNCHANGED <<tcp, net>>
           \/ \E st \in Status, c \in {{}, {"Ok", "Closed"}} : SessionPoll(st, c)
    BY <1>4 DEF PollRegistering, PollDisconnecting
  <2> QED BY <1>0, <2>1, SessionPollEffect DEF SessionPolled
<1>5. CASE \/ Connect \/ Disconnect \/ PollEthernet \/ PollConnecting \/ PollReadyEnd
  BY <1>5 DEF Connect, Disconnect, PollEthernet, PollConnecting, PollReadyEnd
<1>6. CASE \/ Begin \/ PollReady \/ CallbackReturn \/ UNCHANGED vars
           \/ \E h \in Slots : \/ \E name \in Names : CreateTag(h, name)
                               \/ DestroyTag(h) \/ SetDataType(h)
                               \/ Read(h) \/ Write(h) \/ AbortTag(h)
  BY <1>6 DEF Begin, PollReady, CallbackReturn, CreateTag, DestroyTag,
              SetDataType, Read, Write, AbortTag, vars, wireVars
<1> QED BY <1>1, <1>2, <1>3, <1>4, <1>5, <1>6 DEF Next, App, Poll

LEMMA SocketNext ==
  ASSUME TypeOK, SocketInv, [Next]_vars
  PROVE  SocketInv'
<1>0. TransportTypeOK
  BY DEF TypeOK
<1>1. CASE tcp'.fd = tcp.fd /\ tcp'.state = tcp.state /\ net' = net
  BY <1>1 DEF SocketInv
<1>2. CASE TcpClose
  BY <1>2 DEF TcpClose, TcpClosed, Wire, SocketInv
<1>3. ASSUME NEW st \in Status, TcpConnect(ConnectTimeout, st)
      PROVE  SocketInv'
  <2>1. net'.c2s = << >> /\ ((tcp' = tcp /\ ~tcp.fd) \/ tcp'.state # "Ok")
    BY <1>3 DEF TcpConnect, TcpClosed, Wire
  <2> QED BY <2>1 DEF SocketInv
<1>4. ASSUME NEW st \in Status, TcpPoll(st)
      PROVE  SocketInv'
  <2>1. CASE /\ tcp.fd /\ net.sock \in {"up", "fin"} /\ UNCHANGED net
             /\ tcp' = [tcp EXCEPT !.state = "Ok"]
    <3>1. tcp'.fd = tcp.fd
      BY <1>0, <2>1 DEF TransportTypeOK
    <3> QED BY <2>1, <3>1 DEF SocketInv
  <2> QED BY <1>1, <1>2, <1>4, <2>1 DEF TcpPoll
<1>5. ASSUME NEW req, Moved(req)
      PROVE  SocketInv'
  <2>1. CASE net'.c2s = net.c2s
    BY <1>5, <2>1 DEF Moved, SocketInv
  <2>2. CASE Usable /\ net.sock \notin {"fin", "reset"}
    BY <1>5, <2>2 DEF Moved, SocketInv, Usable, Connected
  <2> QED BY <1>5, <2>1, <2>2 DEF Moved
<1>6. CASE PlcNext
  <2>1. tcp' = tcp
    BY <1>6 DEF PlcNext, PlcAccept, PlcReceive, PlcSend, PlcClose
  <2>2. CASE PlcAccept
    BY <1>0, <2>1, <2>2 DEF PlcAccept, SocketInv, TransportTypeOK
  <2>3. CASE PlcReceive
    BY <1>0, <2>1, <2>3 DEF PlcReceive, SocketInv, TransportTypeOK
  <2>4. CASE PlcSend
    BY <1>0, <2>1, <2>4 DEF PlcSend, SocketInv, TransportTypeOK
  <2>5. CASE PlcClose
    <3>1. CASE net' = [net EXCEPT !.sock = "fin", !.c2s = << >>]
      BY <1>0, <2>1, <3>1 DEF TransportTypeOK, SocketInv
    <3>2. CASE net' = Wire("reset")
      BY <2>1, <3>2 DEF Wire, SocketInv
    <3> QED BY <2>5, <3>1, <3>2 DEF PlcClose, SocketInv
  <2> QED BY <1>6, <2>2, <2>3, <2>4, <2>5 DEF PlcNext
<1> QED BY <1>1, <1>2, <1>3, <1>4, <1>5, <1>6, WireSteps

(* begin(), connect() and disconnect() find the message free.              *)
LEMMA Uninterrupted ==
  ASSUME "interrupt" \notin Habits, SingleInFlight, MayInterrupt
  PROVE  ~MsgBusy
  BY DEF SingleInFlight, MayInterrupt

LEMMA BusyNext ==
  ASSUME "interrupt" \notin Habits, TypeOK, SingleInFlight, SocketInv, BusyInv, [Next]_vars
  PROVE  BusyInv'
<1>0. MsgTypeOK /\ SessionTypeOK /\ ClientTypeOK /\ CtlTypeOK
  BY DEF TypeOK
<1>1. CASE Begin \/ Connect \/ Disconnect
  <2>1. ~MsgBusy /\ msg' = msg /\ ctl' = ctl
    BY <1>1, Uninterrupted DEF Begin, Connect, Disconnect, MayConnect
  <2>2. tcp'.state = "Ok" => tcp.state = "Ok"
    BY <1>1, TcpConnectState DEF Begin, Connect, Disconnect, wireVars, TcpClose, TcpClosed
  <2> QED BY <2>1, <2>2 DEF BusyInv, MsgBusy
<1>2. ASSUME NEW h \in Slots, Read(h) \/ Write(h)
      PROVE  BusyInv'
  <2>1. UNCHANGED <<tcp, plc, session, ctl>>
    BY <1>2 DEF Read, Write, wireVars, plcVars
  <2> QED BY <1>2, <2>1, StartMsg DEF BusyInv, MsgBusy, Connected
<1>3. ASSUME NEW h \in Slots, AbortTag(h)
      PROVE  BusyInv'
  <2>1. UNCHANGED <<tcp, plc, session, ctl>>
    BY <1>3 DEF AbortTag, wireVars, plcVars
  <2> QED BY <1>0, <1>3, <2>1, AbortMsg DEF BusyInv, MsgBusy
<1>4. CASE PollEthernet \/ PollConnecting \/ PollRegistering \/ PollDisconnecting
  <2>1. ctl.at = "app" /\ plc.state # "Ready" /\ msg' = msg /\ ctl' = ctl
    BY <1>4 DEF PollEthernet, PollConnecting, PollRegistering, PollDisconnecting
  <2> QED BY <2>1 DEF BusyInv, MsgBusy
<1>5. CASE PollTag
  <2>1. /\ UNCHANGED <<plc, session>> /\ ctl'.at # "app"
        /\ MsgBusy' => MsgBusy /\ msg'.io.req = msg.io.req
        /\ ctl'.disc => ctl.disc \/ (~(tcp'.fd /\ tcp'.state = "Ok") /\ ~MsgBusy')
        /\ tcp'.state = "Ok" => tcp.state = "Ok" /\ tcp'.fd = tcp.fd
    BY <1>5, PollTagEffect DEF Moved
  <2> QED BY <2>1 DEF BusyInv, SocketInv
<1>6. CASE PollReadyEnd
  <2>1. msg' = msg /\ ~ctl'.disc /\ (ctl.disc \/ UNCHANGED <<plc, session>>)
    BY <1>6 DEF PollReadyEnd
  <2> QED BY <2>1 DEF BusyInv, MsgBusy
<1>7. CASE PollReady
  <2>1. UNCHANGED <<msg, plc, session>> /\ ~ctl'.disc
    BY <1>7 DEF PollReady, plcVars
  <2> QED BY <2>1 DEF BusyInv, MsgBusy
<1>8. CASE CallbackReturn
  <2>1. UNCHANGED <<msg, plc, session, tcp>> /\ ctl'.at = "tags" /\ ctl'.disc = ctl.disc
    BY <1>0, <1>8 DEF CallbackReturn, wireVars, plcVars, CtlTypeOK
  <2> QED BY <2>1 DEF BusyInv, MsgBusy
<1>9. CASE Tick
  BY <1>9, TickQuiet DEF BusyInv, MsgBusy
<1>10. CASE \/ Network \/ UNCHANGED vars
            \/ \E h \in Slots : \/ \E name \in Names : CreateTag(h, name)
                                \/ DestroyTag(h) \/ SetDataType(h)
  <2>1. UNCHANGED <<msg, plc, session, ctl, tcp>>
    BY <1>10 DEF Network, PlcNext, PlcAccept, PlcReceive, PlcSend, PlcClose, CreateTag,
                 DestroyTag, SetDataType, vars, wireVars, plcVars
  <2> QED BY <2>1 DEF BusyInv, MsgBusy
<1> QED BY <1>1, <1>2, <1>3, <1>4, <1>5, <1>6, <1>7, <1>8, <1>9, <1>10 DEF Next, App, Poll

(* A fragment reaches the server.                                          *)
LEMMA StreamReceive ==
  ASSUME TypeOK, StreamInv, PlcReceive
  PROVE  StreamInv'
<1> DEFINE rx == Append(srv.rx, Head(net.c2s))
<1>0. TransportTypeOK /\ PlcTypeOK
  BY DEF TypeOK
<1>1. net.c2s # << >> /\ net' = [net EXCEPT !.c2s = Tail(net.c2s)]
  BY DEF PlcReceive
<1>2. net.c2s \in Seq(Fragment) /\ srv.rx \in Seq(Fragment) /\ net'.c2s = Tail(net.c2s)
  BY <1>0, <1>1, StreamType, WireAssumption DEF TransportTypeOK, PlcTypeOK
<1>3. /\ NoneAfter(Tail(net.c2s)) /\ Pkts(Tail(net.c2s)) \subseteq Pkts(net.c2s)
      /\ Head(net.c2s).pkt.command = "UnregisterSession" =>
           \A p \in Pkts(Tail(net.c2s)) : p.command # "SendRRData"
  BY <1>1, <1>2, NoneAfterTail, PktsTail DEF StreamInv
<1>4. \/ srv'.reg = srv.reg
      \/ Len(rx) = Frags /\ Intact(rx) /\ \E a \in Answers(rx[1].pkt) : srv'.reg = a.reg
  <2> HIDE DEF rx
  <2>1. \/ srv' = [srv EXCEPT !.rx = rx]
        \/ Len(rx) = Frags /\ Intact(rx) /\ \E a \in Answers(rx[1].pkt) :
             srv' = [reg |-> a.reg, rx |-> << >>, out |-> Fragments(a.reply)]
        \/ srv' = [srv EXCEPT !.rx = << >>]
        \/ srv' = [srv EXCEPT !.rx = << >>, !.out = Fragments(Reply(rx[1].pkt, 0, "encapErr"))]
    BY DEF PlcReceive, rx
  <2>2. CASE srv' = [srv EXCEPT !.rx = rx]
    BY <1>0, <2>2 DEF PlcTypeOK
  <2>3. CASE srv' = [srv EXCEPT !.rx = << >>]
    BY <1>0, <2>3 DEF PlcTypeOK
  <2>4. CASE srv' = [srv EXCEPT !.rx = << >>,
                                !.out = Fragments(Reply(rx[1].pkt, 0, "encapErr"))]
    BY <1>0, <2>4 DEF PlcTypeOK
  <2>5. ASSUME NEW a \in Answers(rx[1].pkt),
               srv' = [reg |-> a.reg, rx |-> << >>, out |-> Fragments(a.reply)]
        PROVE  srv'.reg = a.reg
    BY <2>5
  <2> QED BY <2>1, <2>2, <2>3, <2>4, <2>5
<1>5. Head(net.c2s) \in Fragment
  BY <1>1, <1>2, HeadTailProperties
<1>6. ASSUME NEW p \in Pkts(Tail(net.c2s)), p.command = "SendRRData"
      PROVE  p.session = srv'.reg /\ p.session # 0
  <2>1. p.session = srv.reg /\ p.session # 0
    BY <1>3, <1>6 DEF StreamInv
  <2>2. ASSUME Len(rx) = Frags, Intact(rx), NEW a \in Answers(rx[1].pkt)
        PROVE  a.reg = srv.reg
    <3>1. Head(net.c2s).pkt = rx[1].pkt
      BY <1>2, <1>5, <2>2, IntactLast
    <3>2. Head(net.c2s).pkt \in Packet /\ Head(net.c2s).pkt.command # "UnregisterSession"
      BY <1>3, <1>5, <1>6 DEF Fragment
    <3> HIDE DEF rx
    <3>3. a.reg = srv.reg \/ srv.reg = 0
      BY <1>0, <2>2, <3>1, <3>2, AnswersReg
    <3> QED BY <2>1, <3>3
  <2> HIDE DEF rx
  <2> QED BY <1>4, <2>1, <2>2
<1> QED BY <1>2, <1>3, <1>6 DEF StreamInv

LEMMA StreamNext ==
  ASSUME TypeOK, ReqInv, ReadyInv, SocketInv, BusyInv, StreamInv, [Next]_vars
  PROVE  StreamInv'
<1>0. TransportTypeOK /\ PlcTypeOK
  BY DEF TypeOK
<1>1. net.c2s \in Seq(Fragment)
  BY <1>0, StreamType, WireAssumption DEF TransportTypeOK
<1>2. CASE net'.c2s = << >>
  BY <1>2, NoneAfterEmpty, PktsEmpty DEF StreamInv
<1>3. CASE net'.c2s = net.c2s /\ srv'.reg = srv.reg
  BY <1>3 DEF StreamInv
<1>4. CASE srv' = srv /\ Moved(session.io.req)
  <2>1. PICK t \in Seq(Fragment) : Pkts(t) \subseteq {session.io.req} /\ net'.c2s = net.c2s \o t
    BY <1>4 DEF Moved
  <2>2. session.io.req.command # "SendRRData"
    BY DEF ReqInv, SessionReq
  <2>3. NoneAfter(net'.c2s)
    BY <1>1, <2>1, <2>2, NoneAfterConcat DEF StreamInv
  <2> QED BY <1>4, <2>2, <2>3 DEF StreamInv, Moved
<1>5. CASE srv' = srv /\ PollTag /\ Moved(msg.io.req) /\ net'.c2s # net.c2s
  <2>1. MsgBusy /\ Usable /\ net.sock \notin {"fin", "reset"}
    BY <1>5, PollTagEffect DEF Moved
  <2>2. net.sock = "up" /\ plc.state = "Ready" /\ msg.io.req.session = session.handle
    BY <2>1 DEF SocketInv, BusyInv, Usable, Connected
  <2>3. InStep /\ session.handle # 0
    BY <2>2 DEF ReadyInv, Open
  <2>4. msg.io.req.session = srv.reg /\ msg.io.req.session # 0
    BY <2>2, <2>3 DEF InStep
  <2>5. \A p \in Pkts(net'.c2s) : p.command # "UnregisterSession"
    BY <1>5, <2>3 DEF InStep, Inbound, Moved, ReqInv
  <2>6. NoneAfter(net'.c2s)
    BY <2>5 DEF NoneAfter, Pkts
  <2> QED BY <1>5, <2>4, <2>6 DEF StreamInv, Moved
<1>6. CASE PlcNext
  <2>1. CASE PlcAccept
    <3>1. net'.c2s = net.c2s /\ net.c2s = << >>
      BY <1>0, <2>1 DEF PlcAccept, TransportTypeOK, SocketInv
    <3> QED BY <1>2, <3>1
  <2>2. CASE PlcSend
    BY <1>0, <1>3, <2>2 DEF PlcSend, TransportTypeOK, PlcTypeOK
  <2>3. CASE PlcClose
    <3>1. CASE net' = [net EXCEPT !.sock = "fin", !.c2s = << >>]
      BY <1>0, <1>2, <3>1 DEF TransportTypeOK
    <3>2. CASE net' = Wire("reset")
      BY <1>2, <3>2 DEF Wire
    <3> QED BY <2>3, <3>1, <3>2 DEF PlcClose
  <2> QED BY <1>6, <2>1, <2>2, <2>3, StreamReceive DEF PlcNext
<1>7. ASSUME NEW st \in Status, TcpPoll(st)
      PROVE  net'.c2s = net.c2s \/ net'.c2s = << >>
  BY <1>7 DEF TcpPoll, TcpClose, Wire
<1>8. ASSUME NEW st \in Status, TcpConnect(ConnectTimeout, st)
      PROVE  net'.c2s = << >>
  BY <1>8 DEF TcpConnect, Wire
<1>9. TcpClose => net'.c2s = << >>
  BY DEF TcpClose, Wire
<1> QED BY <1>2, <1>3, <1>4, <1>5, <1>6, <1>7, <1>8, <1>9, WireSteps

(* For every application that leaves operations in flight alone, and every *)
(* network: a tag request in the stream to the PLC carries the handle of   *)
(* the session registered on that connection.                              *)
THEOREM RequestsUseCurrentSessionHolds ==
  ASSUME "interrupt" \notin Habits
  PROVE  Spec => []RequestsUseCurrentSession
<1>1. Init => SocketInv /\ BusyInv /\ StreamInv
  BY PktsEmpty, NoneAfterEmpty
     DEF Init, TransportInit, TcpClosed, Wire, MsgInit, MsgBusy, SocketInv, BusyInv, StreamInv
<1>2. TypeOK /\ SocketInv /\ [Next]_vars => SocketInv'
  BY SocketNext
<1>3. TypeOK /\ SingleInFlight /\ SocketInv /\ BusyInv /\ [Next]_vars => BusyInv'
  BY BusyNext
<1>4. TypeOK /\ ReqInv /\ ReadyInv /\ SocketInv /\ BusyInv /\ StreamInv /\ [Next]_vars
        => StreamInv'
  BY StreamNext
<1>5. StreamInv => RequestsUseCurrentSession
  BY DEF StreamInv, RequestsUseCurrentSession, Pkts
<1> QED BY <1>1, <1>2, <1>3, <1>4, <1>5, TypeCorrect, SingleInFlightHolds, ReadyInvHolds, PTL
        DEF Spec
-----------------------------------------------------------------------------
(* Only these actions touch the tags, the pool or the history.             *)
LEMMA TagSteps ==
  ASSUME [Next]_vars
  PROVE  \/ UNCHANGED tagVars
         \/ PollTag /\ pool[ctl.i].inUse
         \/ \E h \in Slots : \/ \E name \in Names : CreateTag(h, name)
                             \/ DestroyTag(h) \/ SetDataType(h)
                             \/ Read(h) \/ Write(h) \/ AbortTag(h)
  BY DEF Next, App, Poll, Begin, Connect, Disconnect, PollEthernet, PollConnecting,
         PollRegistering, PollReady, PollTag, PollReadyEnd, PollDisconnecting,
         CallbackReturn, Tick, Network, vars, tagVars

(* Read() and Write() of a slot: refused, or a request is on its way.      *)
LEMMA StartCases ==
  ASSUME NEW h \in Slots, Read(h) \/ Write(h)
  PROVE  \/ UNCHANGED tagVars /\ UNCHANGED msg
         \/ /\ AppTurn /\ pool[h].inUse /\ plc.state = "Ready" /\ ~AnyTagBusy /\ ~InFlight(h)
            /\ MsgSend(session.handle, pool[h].name, "Pending")
            /\ msg.context <= MaxOps
            /\ \/ tags' = [tags EXCEPT ![h].state = "Reading", ![h].valid = FALSE]
               \/ tags' = [tags EXCEPT ![h].state = "Writing"]
            /\ op' = [op EXCEPT ![h] = "owed"]
            /\ pool' = pool
<1>1. PICK st \in Status : (TagRead(h, st) \/ TagWrite(h, st)) /\ Started(h, st)
  BY DEF Read, Write
<1>2. CASE st # "Pending"
  <2>1. UNCHANGED <<tags, msg>>
    BY <1>1, <1>2, MsgSendBusy DEF TagRead, TagWrite
  <2> QED BY <1>1, <1>2, <2>1 DEF Started, Read, Write, tagVars
<1>3. CASE st = "Pending"
  BY <1>1, <1>3 DEF TagRead, TagWrite, Started, Read, Write, MayStart
<1> QED BY <1>2, <1>3

-----------------------------------------------------------------------------
(* While a read is under way, dataLength() is 0.                           *)
ReadingEmpty == \A h \in Slots : tags[h].state = "Reading" => ~tags[h].valid

LEMMA ReadingEmptyNext ==
  ASSUME TypeOK, ReadingEmpty, [Next]_vars
  PROVE  ReadingEmpty'
<1>0. TagTypeOK
  BY DEF TypeOK
<1>1. CASE UNCHANGED tags
  BY <1>1 DEF ReadingEmpty
<1>2. CASE PollTag /\ pool[ctl.i].inUse
  <2>1. PICK h \in Slots : h = ctl.i
    BY <1>2, ClientAssumption DEF PollTag, TypeOK, CtlTypeOK, Slots
  <2>2. PICK st \in Status : TagPoll(h, st)
    BY <1>2, <2>1 DEF PollTag
  <2>3. \/ UNCHANGED tags
        \/ tags' = [tags EXCEPT ![h].state = "Failed"]
        \/ EndsPlain(h)
        \/ EndsRead(h)
    BY <1>0, <2>2, TagPollCases
  <2> QED BY <1>0, <2>3, EndsPlainFacts, EndsReadFacts DEF ReadingEmpty, TagTypeOK
<1>3. ASSUME NEW h \in Slots, SetDataType(h) \/ AbortTag(h)
      PROVE  ReadingEmpty'
  <2>1. \/ tags' = [tags EXCEPT ![h].typed = TRUE]
        \/ tags' = [tags EXCEPT ![h].state = "Idle", ![h].valid = FALSE]
    BY <1>3 DEF SetDataType, AbortTag, TagAbort
  <2> QED BY <1>0, <2>1 DEF ReadingEmpty, TagTypeOK
<1>4. ASSUME NEW h \in Slots, Read(h) \/ Write(h)
      PROVE  ReadingEmpty'
  <2>1. \/ UNCHANGED tags
        \/ tags' = [tags EXCEPT ![h].state = "Reading", ![h].valid = FALSE]
        \/ tags' = [tags EXCEPT ![h].state = "Writing"]
    BY <1>4, StartCases DEF tagVars
  <2> QED BY <1>0, <2>1 DEF ReadingEmpty, TagTypeOK
<1> QED BY <1>1, <1>2, <1>3, <1>4, TagSteps DEF tagVars, CreateTag, DestroyTag

-----------------------------------------------------------------------------
(* Callbacks.  An application that leaves operations in flight alone never *)
(* releases the slot of one, and an operation whose Pending poll() has     *)
(* seen is owed a callback.                                                *)
Owed ==
  /\ \A h \in Slots : InFlight(h) => pool[h].inUse /\ op[h] = "owed"
  /\ \A h \in Slots : pool[h].prev = "Pending" => op[h] = "owed"

LEMMA OwedNext ==
  ASSUME "interrupt" \notin Habits, TypeOK, Owed, [Next]_vars
  PROVE  Owed'
<1>0. TagTypeOK
  BY DEF TypeOK
<1>1. CASE UNCHANGED tagVars
  BY <1>1 DEF Owed, tagVars, InFlight
<1>2. CASE PollTag /\ pool[ctl.i].inUse
  <2>1. PICK h \in Slots : h = ctl.i
    BY <1>2, ClientAssumption DEF PollTag, TypeOK, CtlTypeOK, Slots
  <2>2. PICK st \in Status :
          /\ TagPoll(h, st)
          /\ pool' = [pool EXCEPT ![h].prev = st]
          /\ op' = IF pool[h].prev = "Pending" /\ st # "Pending"
                     THEN [op EXCEPT ![h] = "told"] ELSE op
    BY <1>2, <2>1 DEF PollTag
  <2>3. /\ st = "Pending" => InFlight(h)
        /\ InFlight(h)' => st = "Pending"
        /\ \A g \in Slots \ {h} : tags'[g].state = tags[g].state
    BY <1>0, <2>2, TagPollCases, EndsPlainFacts, EndsReadFacts DEF InFlight, TagTypeOK
  <2>4. \A g \in Slots \ {h} : pool'[g] = pool[g] /\ op'[g] = op[g]
    BY <1>0, <2>2 DEF TagTypeOK
  <2>5. pool'[h].prev = st /\ pool'[h].inUse
    BY <1>0, <1>2, <2>1, <2>2 DEF TagTypeOK
  <2>6. st = "Pending" => op' = op
    BY <2>2
  <2> QED BY <2>3, <2>4, <2>5, <2>6 DEF Owed, InFlight
<1>3. ASSUME NEW h \in Slots, NEW name \in Names, CreateTag(h, name)
      PROVE  Owed'
  <2>1. ~InFlight(h) /\ tags' = tags
    BY <1>3 DEF CreateTag, FreeTag, Owed
  <2>2. /\ pool'[h].prev = "NotReady"
        /\ \A g \in Slots \ {h} : pool'[g] = pool[g] /\ op'[g] = op[g]
    BY <1>0, <1>3 DEF CreateTag, TagTypeOK
  <2> QED BY <2>1, <2>2 DEF Owed, InFlight
<1>4. ASSUME NEW h \in Slots, DestroyTag(h)
      PROVE  Owed'
  <2>1. ~InFlight(h) /\ UNCHANGED <<tags, op>> /\ pool' = [pool EXCEPT ![h].inUse = FALSE]
    BY <1>4 DEF DestroyTag
  <2>2. \A g \in Slots : pool'[g].prev = pool[g].prev /\ (g # h => pool'[g] = pool[g])
    BY <1>0, <2>1 DEF TagTypeOK
  <2> QED BY <2>1, <2>2 DEF Owed, InFlight
<1>5. ASSUME NEW h \in Slots, SetDataType(h)
      PROVE  Owed'
  <2>1. UNCHANGED <<pool, op>> /\ \A g \in Slots : tags'[g].state = tags[g].state
    BY <1>0, <1>5 DEF SetDataType, TagTypeOK
  <2> QED BY <2>1 DEF Owed, InFlight
<1>6. ASSUME NEW h \in Slots, Read(h) \/ Write(h)
      PROVE  Owed'
  <2>1. CASE ~UNCHANGED tagVars
    <3>1. /\ pool[h].inUse /\ pool' = pool /\ op' = [op EXCEPT ![h] = "owed"]
          /\ \/ tags' = [tags EXCEPT ![h].state = "Reading", ![h].valid = FALSE]
             \/ tags' = [tags EXCEPT ![h].state = "Writing"]
      BY <1>6, <2>1, StartCases
    <3>2. /\ op'[h] = "owed"
          /\ \A g \in Slots \ {h} : tags'[g].state = tags[g].state /\ op'[g] = op[g]
      BY <1>0, <3>1 DEF TagTypeOK
    <3> QED BY <3>1, <3>2 DEF Owed, InFlight
  <2> QED BY <1>1, <2>1
<1>7. ASSUME NEW h \in Slots, AbortTag(h)
      PROVE  Owed'
  <2>1. /\ tags' = [tags EXCEPT ![h].state = "Idle", ![h].valid = FALSE]
        /\ pool' = [pool EXCEPT ![h].prev = "NotReady"]
        /\ op' = [op EXCEPT ![h] = "told"]
    BY <1>7 DEF AbortTag, TagAbort
  <2>2. /\ tags'[h].state = "Idle" /\ pool'[h].prev = "NotReady"
        /\ \A g \in Slots \ {h} : tags'[g] = tags[g] /\ pool'[g] = pool[g] /\ op'[g] = op[g]
    BY <1>0, <2>1 DEF TagTypeOK
  <2> QED BY <2>2 DEF Owed, InFlight
<1> QED BY <1>1, <1>2, <1>3, <1>4, <1>5, <1>6, <1>7, TagSteps

LEMMA OwedInit == Init => Owed
  BY DEF Init, Owed, InFlight

(* An application that leaves operations in flight alone (it may begin and *)
(* connect again, from a callback too) gets a callback only for an         *)
(* operation it started, neither aborted nor reported before.              *)
THEOREM NoSpuriousCallbackHolds ==
  ASSUME "interrupt" \notin Habits
  PROVE  Spec => NoSpuriousCallback
<1>1. TypeOK /\ Owed /\ [Next]_vars => Owed'
  BY OwedNext
<1>2. TypeOK /\ Owed /\ [Next]_vars =>
        [ctl.at = "tags" /\ ctl'.at = "cb" => op[ctl.i] = "owed"]_vars
  <2> SUFFICES ASSUME TypeOK, Owed, [Next]_vars, ctl.at = "tags", ctl'.at = "cb"
               PROVE  op[ctl.i] = "owed"
    OBVIOUS
  <2>1. PollTag /\ pool[ctl.i].inUse
    BY DEF Next, App, Poll, Begin, Connect, Disconnect, CreateTag, DestroyTag, SetDataType,
           Read, Write, AbortTag, AppTurn, MayConnect, MayStart, PollEthernet, PollConnecting,
           PollRegistering, PollReady, PollTag, PollReadyEnd, PollDisconnecting,
           CallbackReturn, Tick, Network, vars, TypeOK, CtlTypeOK
  <2>2. PICK h \in Slots : h = ctl.i
    BY <2>1, ClientAssumption DEF PollTag, TypeOK, CtlTypeOK, Slots
  <2>3. PICK st \in Status :
          ctl' = [at   |-> IF pool[h].prev = "Pending" /\ st # "Pending" THEN "cb" ELSE "tags",
                  i    |-> IF pool[h].prev = "Pending" /\ st # "Pending" THEN h ELSE h + 1,
                  disc |-> ctl.disc \/ st = "Closed"]
    BY <2>1, <2>2 DEF PollTag
  <2>4. pool[h].prev = "Pending"
    BY <2>3
  <2> QED BY <2>2, <2>4 DEF Owed
<1> QED BY <1>1, <1>2, OwedInit, TypeCorrect, PTL DEF Spec, NoSpuriousCallback

-----------------------------------------------------------------------------
(* Values.  As long as the counter of sender contexts does not wrap, the   *)
(* reply a read accepts is about the tag the request in flight asked for   *)
(* (ContextInv), and that is the tag of the slot that is reading.          *)
LEMMA ContextMoved ==
  ASSUME ContextInv, ReqInv, UNCHANGED <<msg, srv>>, Moved(session.io.req)
  PROVE  ContextInv'
<1>1. OnTheWay' \subseteq OnTheWay \cup {session.io.req}
  BY DEF OnTheWay, Inbound, Moved
<1>2. Known(session.io.req)
  BY DEF Known, ReqInv, SessionReq
<1>3. \A p : Known(p)' <=> Known(p)
  BY DEF Known, Live
<1> QED BY <1>1, <1>2, <1>3 DEF ContextInv, Live

LEMMA ContextNext ==
  ASSUME MaxOps + 1 < CtxMod, TypeOK, ReqInv, ContextInv, [Next]_vars
  PROVE  ContextInv'
<1>0. TransportTypeOK /\ PlcTypeOK /\ MsgTypeOK /\ TagTypeOK
  BY DEF TypeOK
<1>1. CASE UNCHANGED msg
  <2>1. CASE PlcNext
    BY <1>0, <1>1, <2>1, ContextPlc
  <2>2. CASE srv' = srv /\ Moved(session.io.req)
    BY <1>1, <2>2, ContextMoved
  <2>3. ASSUME srv' = srv, net'.c2s = net.c2s \/ net'.c2s = << >>,
               net'.s2c = net.s2c \/ net'.s2c = << >>
        PROVE  ContextInv'
    <3>1. OnTheWay' \subseteq OnTheWay
      BY <2>3, PktsEmpty DEF OnTheWay, Inbound
    <3> QED BY <1>1, <3>1, ContextQuiet
  <2>4. ASSUME \/ TcpClose
               \/ \E st \in Status : TcpConnect(ConnectTimeout, st)
               \/ \E st \in Status : TcpPoll(st)
        PROVE  \/ net' = net
               \/ net'.c2s = << >> /\ net'.s2c = << >>
    BY <2>4 DEF TcpClose, TcpConnect, TcpPoll, Wire
  <2>5. CASE PollTag /\ Moved(msg.io.req) /\ srv' = srv
    <3>1. PICK h \in Slots : h = ctl.i
      BY <2>5, ClientAssumption DEF PollTag, TypeOK, CtlTypeOK, Slots
    <3>2. UNCHANGED net \/ \E st \in Status : TagPoll(h, st)
      BY <2>5, <3>1 DEF PollTag
    <3>3. UNCHANGED net \/ \E st \in Status : MsgPoll(st)
      BY <3>2 DEF TagPoll
    <3> QED BY <1>0, <2>3, <2>5, <3>3, ContextPoll
  <2> QED BY <2>1, <2>2, <2>3, <2>4, <2>5, WireSteps
<1>2. CASE Tick
  <2>1. OnTheWay' = OnTheWay
    BY <1>2, TickQuiet DEF OnTheWay, Inbound
  <2> QED BY <1>2, <2>1, TickQuiet, ContextQuiet
<1>3. CASE PollTag /\ ~UNCHANGED msg
  <2>1. PICK h \in Slots : h = ctl.i
    BY <1>3, ClientAssumption DEF PollTag, TypeOK, CtlTypeOK, Slots
  <2>2. PICK st \in Status : TagPoll(h, st)
    BY <1>3, <2>1 DEF PollTag
  <2>3. \E ms \in Status : MsgPoll(ms)
    BY <1>3, <2>2 DEF TagPoll
  <2>4. UNCHANGED srv
    BY <1>3 DEF PollTag
  <2> QED BY <1>0, <2>3, <2>4, ContextPoll
<1>4. ASSUME NEW h \in Slots, Read(h) \/ Write(h), ~UNCHANGED msg
      PROVE  ContextInv'
  <2>1. MsgSend(session.handle, pool[h].name, "Pending") /\ msg.context <= MaxOps
    BY <1>4, StartCases
  <2>2. UNCHANGED <<net, srv>>
    BY <1>4 DEF Read, Write, wireVars
  <2>3. msg.context + 1 < CtxMod
    BY <1>0, <2>1, ClientAssumption, WireAssumption DEF MsgTypeOK
  <2> QED BY <1>0, <2>1, <2>2, <2>3, ContextSend
<1>5. ASSUME NEW h \in Slots, AbortTag(h), ~UNCHANGED msg
      PROVE  ContextInv'
  <2>1. msg' = [msg EXCEPT !.state = "Idle", !.timer = 0, !.io = NoIo] /\ UNCHANGED <<net, srv>>
    BY <1>5 DEF AbortTag, TagAbort, MsgAbort, wireVars
  <2>2. msg'.context = msg.context /\ msg'.io = NoIo /\ msg'.state = "Idle"
    BY <1>0, <2>1 DEF MsgTypeOK
  <2>3. OnTheWay' = OnTheWay
    BY <2>1 DEF OnTheWay, Inbound
  <2> QED BY <2>2, <2>3, ContextDrop
<1> QED BY <1>1, <1>2, <1>3, <1>4, <1>5, MsgSteps

LEMMA ContextInit == Init => ContextInv
<1> SUFFICES ASSUME Init PROVE ContextInv
  OBVIOUS
<1>1. /\ net.c2s = << >> /\ net.s2c = << >> /\ srv.rx = << >> /\ srv.out = << >>
      /\ msg.io.rx = << >> /\ msg.state = "Idle"
  BY DEF Init, TransportInit, Wire, PlcInit, SrvFresh, MsgInit, NoIo, NewIo
<1> QED BY <1>1, PktsEmpty DEF ContextInv, OnTheWay, Inbound, Live

(* The request in flight asks for the tag of the slot that waits for it,   *)
(* and poll() last saw Pending only of a slot that still waits.            *)
Asks ==
  /\ \A h \in Slots : InFlight(h) => msg.io.req.tag = pool[h].name
  /\ \A h \in Slots : pool[h].prev = "Pending" => InFlight(h)

LEMMA AsksNext ==
  ASSUME TypeOK, SingleInFlight, SingleInFlight', Owed, Asks, [Next]_vars
  PROVE  Asks'
<1>0. TagTypeOK /\ MsgTypeOK
  BY DEF TypeOK
<1>1. CASE UNCHANGED tagVars /\ msg'.io = msg.io
  BY <1>1 DEF Asks, tagVars, InFlight
<1>2. CASE PollTag
  <2>1. PICK h \in Slots : h = ctl.i
    BY <1>2, ClientAssumption DEF PollTag, TypeOK, CtlTypeOK, Slots
  <2>2. MsgBusy' => msg'.io.req = msg.io.req
    BY <1>2, PollTagEffect
  <2>3. CASE ~pool[h].inUse
    <3>1. UNCHANGED tagVars /\ msg' = msg
      BY <1>2, <2>1, <2>3 DEF PollTag
    <3> QED BY <1>1, <3>1
  <2>4. CASE pool[h].inUse
    <3>1. PICK st \in Status : TagPoll(h, st) /\ pool' = [pool EXCEPT ![h].prev = st]
      BY <1>2, <2>1, <2>4 DEF PollTag
    <3>2. /\ st = "Pending" <=> InFlight(h)'
          /\ \A g \in Slots : InFlight(g)' => InFlight(g)
          /\ \A g \in Slots \ {h} : tags'[g].state = tags[g].state
      <4>1. \/ UNCHANGED tags /\ (st = "Pending" <=> InFlight(h))
            \/ tags' = [tags EXCEPT ![h].state = "Failed"] /\ st # "Pending"
            \/ (EndsPlain(h) \/ EndsRead(h)) /\ st # "Pending"
        BY <1>0, <3>1, TagPollCases
      <4>2. CASE UNCHANGED tags /\ (st = "Pending" <=> InFlight(h))
        BY <4>2 DEF InFlight
      <4>3. CASE tags' = [tags EXCEPT ![h].state = "Failed"] /\ st # "Pending"
        BY <1>0, <4>3 DEF InFlight, TagTypeOK
      <4>4. CASE (EndsPlain(h) \/ EndsRead(h)) /\ st # "Pending"
        BY <1>0, <4>4, EndsPlainFacts, EndsReadFacts DEF InFlight
      <4> QED BY <4>1, <4>2, <4>3, <4>4
    <3>3. /\ \A g \in Slots : pool'[g].name = pool[g].name
          /\ pool'[h].prev = st /\ \A g \in Slots \ {h} : pool'[g].prev = pool[g].prev
      BY <1>0, <3>1 DEF TagTypeOK
    <3>4. ASSUME NEW g \in Slots, InFlight(g)' PROVE msg'.io.req.tag = pool'[g].name
      <4>1. MsgBusy' /\ InFlight(g)
        BY <3>2, <3>4 DEF SingleInFlight
      <4> QED BY <2>2, <3>3, <4>1 DEF Asks
    <3>5. ASSUME NEW g \in Slots, pool'[g].prev = "Pending" PROVE InFlight(g)'
      BY <3>2, <3>3, <3>5 DEF Asks, InFlight
    <3> QED BY <3>4, <3>5 DEF Asks
  <2> QED BY <2>3, <2>4
<1>3. ASSUME NEW h \in Slots, NEW name \in Names, CreateTag(h, name)
      PROVE  Asks'
  <2>1. ~InFlight(h) /\ UNCHANGED <<tags, msg>>
    BY <1>3 DEF CreateTag, FreeTag, Owed
  <2>2. pool'[h].prev = "NotReady" /\ \A g \in Slots \ {h} : pool'[g] = pool[g]
    BY <1>0, <1>3 DEF CreateTag, TagTypeOK
  <2> QED BY <2>1, <2>2 DEF Asks, InFlight
<1>4. ASSUME NEW h \in Slots, DestroyTag(h)
      PROVE  Asks'
  <2>1. UNCHANGED <<tags, msg>> /\ pool' = [pool EXCEPT ![h].inUse = FALSE]
    BY <1>4 DEF DestroyTag
  <2>2. \A g \in Slots : pool'[g].prev = pool[g].prev /\ pool'[g].name = pool[g].name
    BY <1>0, <2>1 DEF TagTypeOK
  <2> QED BY <2>1, <2>2 DEF Asks, InFlight
<1>5. ASSUME NEW h \in Slots, SetDataType(h)
      PROVE  Asks'
  <2>1. UNCHANGED <<pool, msg>> /\ \A g \in Slots : tags'[g].state = tags[g].state
    BY <1>0, <1>5 DEF SetDataType, TagTypeOK
  <2> QED BY <2>1 DEF Asks, InFlight
<1>6. ASSUME NEW h \in Slots, Read(h) \/ Write(h)
      PROVE  Asks'
  <2>1. CASE ~(UNCHANGED tagVars /\ UNCHANGED msg)
    <3>1. /\ pool' = pool /\ MsgSend(session.handle, pool[h].name, "Pending")
          /\ \/ tags' = [tags EXCEPT ![h].state = "Reading", ![h].valid = FALSE]
             \/ tags' = [tags EXCEPT ![h].state = "Writing"]
      BY <1>6, <2>1, StartCases
    <3>2. InFlight(h)' /\ \A g \in Slots \ {h} : tags'[g].state = tags[g].state
      BY <1>0, <3>1 DEF InFlight, TagTypeOK
    <3>3. msg'.io.req.tag = pool[h].name
      BY <3>1 DEF MsgSend, NewIo
    <3>4. \A g \in Slots : InFlight(g)' => g = h
      BY <3>2 DEF SingleInFlight
    <3> QED BY <3>1, <3>2, <3>3, <3>4 DEF Asks, InFlight
  <2> QED BY <1>1, <2>1
<1>7. ASSUME NEW h \in Slots, AbortTag(h)
      PROVE  Asks'
  <2>1. /\ tags' = [tags EXCEPT ![h].state = "Idle", ![h].valid = FALSE]
        /\ pool' = [pool EXCEPT ![h].prev = "NotReady"]
        /\ InFlight(h) \/ msg' = msg
    BY <1>7 DEF AbortTag, TagAbort
  <2>2. /\ ~InFlight(h)' /\ pool'[h].prev = "NotReady"
        /\ \A g \in Slots \ {h} : tags'[g] = tags[g] /\ pool'[g] = pool[g]
    BY <1>0, <2>1 DEF TagTypeOK, InFlight
  <2>3. ASSUME NEW g \in Slots, InFlight(g)' PROVE msg' = msg /\ g # h /\ InFlight(g)
    BY <2>1, <2>2, <2>3 DEF InFlight, SingleInFlight
  <2> QED BY <2>2, <2>3 DEF Asks, InFlight
<1>8. CASE UNCHANGED tagVars /\ Tick
  BY <1>1, <1>8, TickQuiet
<1>9. CASE UNCHANGED tagVars /\ UNCHANGED msg
  BY <1>1, <1>9
<1> QED BY <1>2, <1>3, <1>4, <1>5, <1>6, <1>7, <1>8, <1>9, TagSteps, MsgSteps

(* A poll() of the message that succeeds holds the reply to its request.   *)
LEMMA MsgPollOk ==
  ASSUME MsgTypeOK, TransportTypeOK, MsgBusy, MsgPoll("Ok")
  PROVE  msg'.state = "Done" /\ msg'.io.req = msg.io.req
<1>0. msg.io \in Io
  BY DEF MsgTypeOK
<1>1. PICK o \in Transact(msg.io) : msg' = [msg EXCEPT !.state = "Done", !.timer = 0, !.io = o.io]
  BY DEF MsgPoll, PollInFlight
<1>2. o.io.req = msg.io.req
  BY <1>0, TransactFlow DEF Flow
<1> QED BY <1>1, <1>2 DEF MsgTypeOK

LEMMA AnswerIsOwn ==
  TypeOK /\ ContextInv /\ msg.state = "Done" => MsgReply(msg).tag = msg.io.req.tag
  BY ContextAnswer DEF TypeOK

(* The value a read stores is that of the slot's own tag.                  *)
LEMMA ReadIsOwn ==
  ASSUME TypeOK, SingleInFlight, Asks, TypeOK', ContextInv',
         NEW h \in Slots, InFlight(h), MsgPoll("Ok")
  PROVE  MsgReply(msg').tag = pool[h].name
<1>1. MsgBusy
  BY DEF SingleInFlight
<1>2. msg'.state = "Done" /\ msg'.io.req = msg.io.req
  BY <1>1, MsgPollOk DEF TypeOK
<1>3. (TypeOK /\ ContextInv /\ msg.state = "Done" => MsgReply(msg).tag = msg.io.req.tag)'
  BY AnswerIsOwn, PTL
<1>4. MsgReply(msg').tag = msg'.io.req.tag
  BY <1>2, <1>3 DEF MsgReply
<1> QED BY <1>2, <1>4 DEF Asks

(* All of it together.                                                     *)
TagInv ==
  /\ TypeOK /\ SingleInFlight /\ ReqInv
  /\ ReadingEmpty /\ Owed /\ ContextInv /\ Asks

LEMMA TagInvHolds ==
  ASSUME "interrupt" \notin Habits, MaxOps + 1 < CtxMod
  PROVE  Spec => []TagInv
<1>1. Init => ReadingEmpty /\ Asks
  BY DEF Init, ReadingEmpty, Asks, InFlight
<1>2. TypeOK /\ ReadingEmpty /\ [Next]_vars => ReadingEmpty'
  BY ReadingEmptyNext
<1>3. TypeOK /\ Owed /\ [Next]_vars => Owed'
  BY OwedNext
<1>4. TypeOK /\ ReqInv /\ ContextInv /\ [Next]_vars => ContextInv'
  BY ContextNext
<1>5. TypeOK /\ SingleInFlight /\ SingleInFlight' /\ Owed /\ Asks /\ [Next]_vars => Asks'
  BY AsksNext
<1> QED BY <1>1, <1>2, <1>3, <1>4, <1>5, OwedInit, ContextInit, TypeCorrect,
           SingleInFlightHolds, ReadyInvHolds, PTL DEF Spec, TagInv

(* An application that leaves operations in flight alone, with fewer       *)
(* requests than sender contexts: a read that completes holds the value of *)
(* the tag its slot is named for, or none, whatever late replies the       *)
(* network delivers.                                                       *)
THEOREM NewDataIsOwnHolds ==
  ASSUME "interrupt" \notin Habits, MaxOps + 1 < CtxMod
  PROVE  Spec => NewDataIsOwn
<1>1. TagInv /\ TagInv' /\ [Next]_vars =>
        [\A h \in Slots : tags[h].state = "Reading" /\ tags'[h].state = "Done"
                              /\ tags'[h].valid
                            => tags'[h].data = pool[h].name]_vars
  <2> SUFFICES ASSUME TagInv, TagInv', [Next]_vars, NEW g \in Slots,
                      tags[g].state = "Reading", tags'[g].state = "Done"
               PROVE  tags'[g].valid => tags'[g].data = pool[g].name
    OBVIOUS
  <2>0. TagTypeOK /\ TypeOK /\ TypeOK' /\ ContextInv' /\ SingleInFlight /\ Asks
    BY DEF TagInv, TypeOK
  <2>1. ~tags[g].valid
    BY DEF TagInv, ReadingEmpty
  <2>2. CASE PollTag /\ pool[ctl.i].inUse
    <3>1. PICK h \in Slots : h = ctl.i
      BY <2>0, <2>2, ClientAssumption DEF PollTag, TypeOK, CtlTypeOK, Slots
    <3>2. PICK st \in Status : TagPoll(h, st)
      BY <2>2, <3>1 DEF PollTag
    <3>3. \/ UNCHANGED tags
          \/ tags' = [tags EXCEPT ![h].state = "Failed"]
          \/ EndsPlain(h)
          \/ /\ InFlight(h) /\ MsgPoll("Ok")
             /\ EndsRead(h)
      BY <2>0, <3>2, TagPollCases
    <3>4. CASE /\ InFlight(h) /\ MsgPoll("Ok")
               /\ EndsRead(h)
      <4>1. MsgReply(msg').tag = pool[h].name
        BY <2>0, <3>4, ReadIsOwn
      <4>2. CASE g = h
        BY <2>0, <3>4, <4>1, <4>2, EndsReadFacts
      <4>3. CASE g # h
        BY <2>0, <2>1, <3>4, <4>3, EndsReadFacts
      <4> QED BY <4>2, <4>3
    <3> QED BY <2>0, <2>1, <3>3, <3>4, EndsPlainFacts DEF TagTypeOK
  <2>3. ASSUME NEW h \in Slots, SetDataType(h) \/ AbortTag(h)
        PROVE  ~tags'[g].valid
    <3>1. \/ tags' = [tags EXCEPT ![h].typed = TRUE]
          \/ tags' = [tags EXCEPT ![h].state = "Idle", ![h].valid = FALSE]
      BY <2>3 DEF SetDataType, AbortTag, TagAbort
    <3>2. CASE tags' = [tags EXCEPT ![h].typed = TRUE]
      BY <2>0, <2>1, <3>2 DEF TagTypeOK
    <3>3. CASE tags' = [tags EXCEPT ![h].state = "Idle", ![h].valid = FALSE]
      BY <2>0, <2>1, <3>3 DEF TagTypeOK
    <3> QED BY <3>1, <3>2, <3>3
  <2>4. ASSUME NEW h \in Slots, Read(h) \/ Write(h)
        PROVE  ~tags'[g].valid
    <3>1. \/ UNCHANGED tags
          \/ tags' = [tags EXCEPT ![h].state = "Reading", ![h].valid = FALSE]
          \/ tags' = [tags EXCEPT ![h].state = "Writing"]
      BY <2>4, StartCases DEF tagVars
    <3> QED BY <2>0, <2>1, <3>1 DEF TagTypeOK
  <2> QED BY <2>1, <2>2, <2>3, <2>4, TagSteps DEF tagVars, CreateTag, DestroyTag
<1> QED BY <1>1, TagInvHolds, PTL DEF Spec, NewDataIsOwn

-----------------------------------------------------------------------------
(* The refinement.  sName, sValue, sBusy and sCb are what TagService sees  *)
(* of a state.                                                             *)
sName  == [h \in Slots |-> pool[h].name]
sValue == [h \in Slots |-> Value(h)]
sBusy  == {[slot |-> h, kind |-> Kind(h)] : h \in {g \in Slots : InFlight(g)}}
sCb    == IF ctl.at = "cb" THEN {ctl.i} ELSE {}

LEMMA ServiceInit == Init => Service!Init
<1> SUFFICES ASSUME Init PROVE Service!Init
  OBVIOUS
<1>1. sName = [h \in Slots |-> NoName] /\ sValue = [h \in Slots |-> NoName]
  BY DEF Init, sName, sValue, Value
<1>2. sBusy = {} /\ sCb = {}
  BY DEF Init, sBusy, sCb, InFlight
<1> QED BY <1>1, <1>2 DEF Service!Init, sName, sValue, sBusy, sCb

LEMMA ServiceStutter ==
  ASSUME sName' = sName, sValue' = sValue, sBusy' = sBusy, sCb' = sCb
  PROVE  [Service!Next]_(Service!vars)
  BY DEF Service!vars, sName, sValue, sBusy, sCb

LEMMA ServiceReturn ==
  ASSUME sName' = sName, sValue' = sValue, sBusy' = sBusy, sCb' = {}
  PROVE  Service!Next
  BY DEF Service!Next, Service!Return, sName, sValue, sBusy, sCb

LEMMA ServiceCreate ==
  ASSUME NEW h \in Slots, NEW n \in Names, \A o \in sBusy : o.slot # h,
         sName' = [sName EXCEPT ![h] = n],
         sValue' = sValue, sBusy' = sBusy, sCb' = sCb
  PROVE  Service!Next
<1>1. Service!Create(h)
  BY DEF Service!Create, sName, sValue, sBusy, sCb
<1> QED BY <1>1 DEF Service!Next

LEMMA ServiceAbort ==
  ASSUME NEW h \in Slots, sBusy' = {o \in sBusy : o.slot # h},
         sValue' = [sValue EXCEPT ![h] = NoName],
         sName' = sName, sCb' = sCb
  PROVE  Service!Next
<1>1. Service!Abort(h)
  BY DEF Service!Abort, sName, sValue, sBusy, sCb
<1> QED BY <1>1 DEF Service!Next

LEMMA ServiceStart ==
  ASSUME NEW o \in [slot : Slots, kind : {"read", "write"}],
         sBusy = {}, sBusy' = {o},
         sValue' = IF o.kind = "read" THEN [sValue EXCEPT ![o.slot] = NoName] ELSE sValue,
         sName' = sName, sCb' = sCb
  PROVE  Service!Next
<1>1. Service!Start(o)
  BY DEF Service!Start, sName, sValue, sBusy, sCb
<1> QED BY <1>1 DEF Service!Next, Service!Operation

LEMMA ServiceEnd ==
  ASSUME NEW o \in [slot : Slots, kind : {"read", "write"}],
         o \in sBusy, sCb = {}, sBusy' = {},
         \/ sValue' = sValue
         \/ o.kind = "read" /\ sValue' = [sValue EXCEPT ![o.slot] = sName[o.slot]],
         sCb' \in {{}, {o.slot}}, sName' = sName
  PROVE  Service!Next
<1>1. Service!End(o)
  BY DEF Service!End, sName, sValue, sBusy, sCb
<1> QED BY <1>1 DEF Service!Next, Service!Operation

(* What the operations in flight look like.                                *)
LEMMA BusySame ==
  ASSUME \A g \in Slots : tags'[g].state = tags[g].state
  PROVE  sBusy' = sBusy
  BY DEF sBusy, InFlight, Kind

LEMMA BusyNone ==
  ASSUME \A g \in Slots : ~InFlight(g)
  PROVE  sBusy = {}
  BY DEF sBusy

LEMMA BusyNoneNext ==
  ASSUME \A g \in Slots : ~InFlight(g)'
  PROVE  sBusy' = {}
  BY DEF sBusy

LEMMA BusyOne ==
  ASSUME SingleInFlight, NEW h \in Slots, InFlight(h)
  PROVE  sBusy = {[slot |-> h, kind |-> Kind(h)]}
<1>1. {g \in Slots : InFlight(g)} = {h}
  BY DEF SingleInFlight
<1> QED BY <1>1 DEF sBusy

(* The slots of operations in flight.                                      *)
LEMMA BusySlots ==
  ASSUME NEW h \in Slots
  PROVE  (\A o \in sBusy : o.slot # h) <=> ~InFlight(h)
<1>1. \A g \in Slots : [slot |-> g, kind |-> Kind(g)].slot = g
  OBVIOUS
<1> QED BY <1>1 DEF sBusy

LEMMA ServiceQuiet ==
  ASSUME UNCHANGED <<pool, tags>>, sCb' = sCb
  PROVE  [Service!Next]_(Service!vars)
<1>1. sName' = sName /\ sValue' = sValue
  BY DEF sName, sValue, Value
<1>2. sBusy' = sBusy
  BY BusySame
<1> QED BY <1>1, <1>2, ServiceStutter

(* Read() and Write() begin an operation.                                  *)
LEMMA StartServes ==
  ASSUME TypeOK, SingleInFlight, SingleInFlight', NEW h \in Slots, Read(h) \/ Write(h)
  PROVE  [Service!Next]_(Service!vars)
<1>0. TagTypeOK
  BY DEF TypeOK
<1>1. ctl' = ctl
  BY DEF Read, Write
<1>2. sCb' = sCb
  BY <1>1 DEF sCb
<1>3. CASE UNCHANGED tagVars
  BY <1>2, <1>3, ServiceQuiet DEF tagVars
<1>4. CASE ~UNCHANGED tagVars
  <2>1. /\ pool' = pool /\ MsgSend(session.handle, pool[h].name, "Pending")
        /\ \/ tags' = [tags EXCEPT ![h].state = "Reading", ![h].valid = FALSE]
           \/ tags' = [tags EXCEPT ![h].state = "Writing"]
    BY <1>4, StartCases
  <2>2. sBusy = {}
    <3>1. ~MsgBusy
      BY <2>1, MsgSendBusy
    <3> QED BY <3>1, BusyNone DEF SingleInFlight
  <2>3. sName' = sName
    BY <2>1 DEF sName
  <2>4. CASE tags' = [tags EXCEPT ![h].state = "Reading", ![h].valid = FALSE]
    <3> DEFINE o == [slot |-> h, kind |-> "read"]
    <3>1. /\ tags'[h].state = "Reading" /\ ~tags'[h].valid
          /\ \A g \in Slots \ {h} : tags'[g] = tags[g]
      BY <1>0, <2>4 DEF TagTypeOK
    <3>2. {g \in Slots : InFlight(g)'} = {h}
      BY <3>1 DEF SingleInFlight, InFlight
    <3>3. sBusy' = {o}
      BY <3>1, <3>2 DEF sBusy, Kind
    <3>4. sValue' = [sValue EXCEPT ![h] = NoName]
      BY <3>1 DEF sValue, Value
    <3>5. o \in [slot : Slots, kind : {"read", "write"}] /\ o.slot = h /\ o.kind = "read"
      OBVIOUS
    <3> HIDE DEF o
    <3> QED BY <1>2, <2>2, <2>3, <3>3, <3>4, <3>5, ServiceStart
  <2>5. CASE tags' = [tags EXCEPT ![h].state = "Writing"]
    <3> DEFINE o == [slot |-> h, kind |-> "write"]
    <3>1. /\ tags'[h].state = "Writing"
          /\ \A g \in Slots : Value(g)' = Value(g)
      BY <1>0, <2>5 DEF TagTypeOK, Value
    <3>2. {g \in Slots : InFlight(g)'} = {h}
      BY <3>1 DEF SingleInFlight, InFlight
    <3>3. sBusy' = {o}
      BY <3>1, <3>2 DEF sBusy, Kind
    <3>4. sValue' = sValue
      BY <3>1 DEF sValue
    <3>5. o \in [slot : Slots, kind : {"read", "write"}] /\ o.kind = "write"
      OBVIOUS
    <3> HIDE DEF o
    <3> QED BY <1>2, <2>2, <2>3, <3>3, <3>4, <3>5, ServiceStart
  <2> QED BY <2>1, <2>4, <2>5
<1> QED BY <1>3, <1>4

LEMMA AbortServes ==
  ASSUME TypeOK, NEW h \in Slots, AbortTag(h)
  PROVE  [Service!Next]_(Service!vars)
<1>0. TagTypeOK
  BY DEF TypeOK
<1>1. /\ tags' = [tags EXCEPT ![h].state = "Idle", ![h].valid = FALSE]
      /\ pool' = [pool EXCEPT ![h].prev = "NotReady"]
      /\ ctl' = ctl
  BY DEF AbortTag, TagAbort
<1>2. /\ tags'[h].state = "Idle" /\ ~tags'[h].valid
      /\ \A g \in Slots \ {h} : tags'[g] = tags[g]
      /\ \A g \in Slots : pool'[g].name = pool[g].name
  BY <1>0, <1>1 DEF TagTypeOK
<1>3. sName' = sName /\ sCb' = sCb /\ sValue' = [sValue EXCEPT ![h] = NoName]
  <2>1. sName' = sName
    BY <1>2 DEF sName
  <2>2. sCb' = sCb
    BY <1>1 DEF sCb
  <2>3. sValue' = [sValue EXCEPT ![h] = NoName]
    BY <1>2 DEF sValue, Value
  <2> QED BY <2>1, <2>2, <2>3
<1>4. /\ ~InFlight(h)'
      /\ \A g \in Slots \ {h} : (InFlight(g)' <=> InFlight(g)) /\ Kind(g)' = Kind(g)
  BY <1>2 DEF InFlight, Kind
<1>5. sBusy' = {o \in sBusy : o.slot # h}
  <2>1. {g \in Slots : InFlight(g)'} = {g \in Slots : InFlight(g)} \ {h}
    BY <1>4
  <2>2. \A g \in Slots : [slot |-> g, kind |-> Kind(g)].slot = g
    OBVIOUS
  <2> QED BY <1>4, <2>1, <2>2 DEF sBusy
<1> QED BY <1>3, <1>5, ServiceAbort

(* One slot of poll(): nothing, or the end of its operation.               *)
LEMMA PollServes ==
  ASSUME TagInv, TagInv', PollTag
  PROVE  [Service!Next]_(Service!vars)
<1>0. TypeOK /\ TypeOK' /\ TagTypeOK /\ SingleInFlight /\ SingleInFlight' /\ Asks /\ ContextInv'
  BY DEF TagInv, TypeOK
<1>1. PICK h \in Slots : h = ctl.i
  BY <1>0, ClientAssumption DEF PollTag, TypeOK, CtlTypeOK, Slots
<1>2. ctl.at = "tags" /\ sCb = {}
  BY DEF PollTag, sCb
<1>3. CASE ~pool[h].inUse
  <2>1. UNCHANGED <<pool, tags>> /\ ctl' = [ctl EXCEPT !.i = h + 1]
    BY <1>1, <1>3 DEF PollTag, tagVars
  <2>2. ctl'.at = "tags"
    BY <1>0, <1>2, <2>1 DEF TypeOK, CtlTypeOK
  <2>3. sCb' = sCb
    BY <1>2, <2>2 DEF sCb
  <2> QED BY <2>1, <2>3, ServiceQuiet
<1>4. CASE pool[h].inUse
  <2>1. PICK st \in Status :
          /\ TagPoll(h, st)
          /\ pool' = [pool EXCEPT ![h].prev = st]
          /\ ctl' = [at   |-> IF pool[h].prev = "Pending" /\ st # "Pending" THEN "cb" ELSE "tags",
                     i    |-> IF pool[h].prev = "Pending" /\ st # "Pending" THEN h ELSE h + 1,
                     disc |-> ctl.disc \/ st = "Closed"]
    BY <1>1, <1>4 DEF PollTag
  <2>2. sName' = sName
    <3>1. \A g \in Slots : pool'[g].name = pool[g].name
      BY <1>0, <2>1 DEF TagTypeOK
    <3> QED BY <3>1 DEF sName
  <2>3. sCb' = IF pool[h].prev = "Pending" /\ st # "Pending" THEN {h} ELSE {}
    BY <2>1 DEF sCb
  <2>4. CASE UNCHANGED tags /\ (~InFlight(h) \/ st = "Pending")
    <3>1. sCb' = sCb
      BY <1>0, <1>2, <2>3, <2>4 DEF Asks
    <3>2. sValue' = sValue
      BY <2>4 DEF sValue, Value
    <3>3. sBusy' = sBusy
      BY <2>4, BusySame
    <3> QED BY <2>2, <3>1, <3>2, <3>3, ServiceStutter
  <2>5. CASE InFlight(h) /\ st # "Pending"
    <3> DEFINE o == [slot |-> h, kind |-> Kind(h)]
    <3>1. o \in [slot : Slots, kind : {"read", "write"}] /\ o.slot = h /\ o.kind = Kind(h)
      BY DEF Kind
    <3>2. sBusy = {o}
      BY <1>0, <2>5, BusyOne
    <3>3. \/ tags' = [tags EXCEPT ![h].state = "Failed"]
          \/ EndsPlain(h)
          \/ /\ tags[h].state = "Reading" /\ MsgPoll("Ok")
             /\ EndsRead(h)
      BY <1>0, <2>1, <2>5, TagPollCases
    <3>4. ~InFlight(h)' /\ \A g \in Slots \ {h} : tags'[g] = tags[g]
      BY <1>0, <3>3, EndsPlainFacts, EndsReadFacts DEF TagTypeOK, InFlight
    <3>5. sBusy' = {}
      <4>1. \A g \in Slots : ~InFlight(g)'
        BY <1>0, <2>5, <3>4 DEF SingleInFlight, InFlight
      <4> QED BY <4>1, BusyNoneNext
    <3>6. \/ sValue' = sValue
          \/ Kind(h) = "read" /\ sValue' = [sValue EXCEPT ![h] = sName[h]]
      <4>1. CASE \/ tags' = [tags EXCEPT ![h].state = "Failed"]
                 \/ EndsPlain(h)
        <5>1. \A g \in Slots : Value(g)' = Value(g)
          BY <1>0, <4>1, EndsPlainFacts DEF TagTypeOK, Value
        <5> QED BY <5>1 DEF sValue
      <4>2. CASE /\ tags[h].state = "Reading" /\ MsgPoll("Ok")
                 /\ EndsRead(h)
        <5>1. MsgReply(msg').tag = pool[h].name
          BY <1>0, <2>5, <4>2, ReadIsOwn
        <5>2. Value(h)' = pool[h].name
          BY <1>0, <4>2, <5>1, EndsReadFacts DEF Value
        <5>3. sValue' = [sValue EXCEPT ![h] = sName[h]]
          BY <3>4, <5>2 DEF sValue, sName, Value
        <5> QED BY <4>2, <5>3 DEF Kind
      <4> QED BY <3>3, <4>1, <4>2
    <3> HIDE DEF o
    <3> QED BY <1>2, <2>2, <2>3, <3>1, <3>2, <3>5, <3>6, ServiceEnd
  <2>6. ~InFlight(h) \/ st = "Pending" => UNCHANGED tags
    BY <1>0, <2>1, TagPollCases
  <2> QED BY <2>4, <2>5, <2>6
<1> QED BY <1>3, <1>4

LEMMA ServiceNext ==
  ASSUME TagInv, TagInv', [Next]_vars
  PROVE  [Service!Next]_(Service!vars)
<1>0. TypeOK /\ TagTypeOK /\ SingleInFlight /\ SingleInFlight' /\ Owed
  BY DEF TagInv, TypeOK
<1>1. ASSUME NEW h \in Slots, NEW n \in Names, CreateTag(h, n)
      PROVE  Service!Next
  <2>1. ~InFlight(h) /\ UNCHANGED <<tags, ctl>>
    BY <1>0, <1>1 DEF CreateTag, FreeTag, Owed
  <2>2. pool'[h].name = n /\ \A g \in Slots \ {h} : pool'[g] = pool[g]
    BY <1>0, <1>1 DEF CreateTag, TagTypeOK
  <2>3. sName' = [sName EXCEPT ![h] = n]
    BY <2>2 DEF sName
  <2>4. sValue' = sValue
    BY <2>1 DEF sValue, Value
  <2>5. sCb' = sCb
    BY <2>1 DEF sCb
  <2>6. sBusy' = sBusy
    BY <2>1, BusySame
  <2>7. \A o \in sBusy : o.slot # h
    BY <2>1, BusySlots
  <2> QED BY <2>3, <2>4, <2>5, <2>6, <2>7, ServiceCreate
<1>2. ASSUME NEW h \in Slots, DestroyTag(h) \/ SetDataType(h)
      PROVE  [Service!Next]_(Service!vars)
  <2>1. /\ pool' = [pool EXCEPT ![h].inUse = FALSE] \/ pool' = pool
        /\ tags' = [tags EXCEPT ![h].typed = TRUE] \/ tags' = tags
        /\ ctl' = ctl
    BY <1>2 DEF DestroyTag, SetDataType
  <2>2. \A g \in Slots : pool'[g].name = pool[g].name
    BY <1>0, <2>1 DEF TagTypeOK
  <2>3. \A g \in Slots : Value(g)' = Value(g) /\ tags'[g].state = tags[g].state
    BY <1>0, <2>1 DEF TagTypeOK, Value
  <2>4. sName' = sName
    BY <2>2 DEF sName
  <2>5. sValue' = sValue
    BY <2>3 DEF sValue
  <2>6. sCb' = sCb
    BY <2>1 DEF sCb
  <2>7. sBusy' = sBusy
    BY <2>3, BusySame
  <2> QED BY <2>4, <2>5, <2>6, <2>7, ServiceStutter
<1>3. CASE CallbackReturn
  <2>1. UNCHANGED <<pool, tags>> /\ ctl'.at = "tags"
    BY <1>0, <1>3 DEF CallbackReturn, tagVars, TypeOK, CtlTypeOK
  <2>2. sName' = sName /\ sValue' = sValue
    BY <2>1 DEF sName, sValue, Value
  <2>3. sBusy' = sBusy
    BY <2>1, BusySame
  <2>4. sCb' = {}
    BY <2>1 DEF sCb
  <2> QED BY <2>2, <2>3, <2>4, ServiceReturn
<1>4. CASE PollReady \/ PollReadyEnd
  <2>1. UNCHANGED <<pool, tags>> /\ ctl.at # "cb" /\ ctl'.at # "cb"
    BY <1>4 DEF PollReady, PollReadyEnd, tagVars
  <2>2. sCb' = sCb
    BY <2>1 DEF sCb
  <2> QED BY <2>1, <2>2, ServiceQuiet
<1>5. CASE UNCHANGED <<pool, tags, ctl>>
  <2>1. sCb' = sCb
    BY <1>5 DEF sCb
  <2> QED BY <1>5, <2>1, ServiceQuiet
<1>6. ASSUME NEW h \in Slots, Read(h) \/ Write(h) \/ AbortTag(h)
      PROVE  [Service!Next]_(Service!vars)
  BY <1>0, <1>6, StartServes, AbortServes
<1>7. CASE PollTag
  BY <1>7, PollServes
<1>8. \/ UNCHANGED <<pool, tags, ctl>>
      \/ PollReady \/ PollReadyEnd \/ PollTag \/ CallbackReturn
      \/ \E h \in Slots : \/ \E n \in Names : CreateTag(h, n)
                          \/ DestroyTag(h) \/ SetDataType(h)
                          \/ Read(h) \/ Write(h) \/ AbortTag(h)
  BY DEF Next, App, Poll, Begin, Connect, Disconnect, PollEthernet, PollConnecting,
         PollRegistering, PollDisconnecting, Tick, Network, vars, tagVars
<1> QED BY <1>1, <1>2, <1>3, <1>4, <1>5, <1>6, <1>7, <1>8

(* The whole stack implements TagService, for every pool size,             *)
(* fragmentation, buffer size, timeout and network, when the application   *)
(* leaves operations in flight alone and the contexts do not wrap.         *)
THEOREM ImplementsTagServiceHolds ==
  ASSUME "interrupt" \notin Habits, MaxOps + 1 < CtxMod
  PROVE  Spec => ImplementsTagService
<1>1. TagInv /\ TagInv' /\ [Next]_vars => [Service!Next]_(Service!vars)
  BY ServiceNext
<1> QED BY <1>1, ServiceInit, TagInvHolds, PTL DEF Spec, ImplementsTagService, Service!Spec
=============================================================================
