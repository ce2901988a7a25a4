------------------------------ MODULE Session ------------------------------
(***************************************************************************)
(* The EtherNet/IP session (eip/Session): RegisterSession and              *)
(* UnregisterSession exchanges on the TCP connection.                      *)
(***************************************************************************)
EXTENDS Transport

VARIABLE session   \* the Session object: state_, handle_, deadline_, buffers

SessionInit == session = [state |-> "Idle", handle |-> 0, timer |-> 0, io |-> NoIo]

SessionTypeOK ==
  session \in [state  : {"Idle", "Registering", "Registered", "Unregistering",
                         "Closed", "Failed"},
               handle : Handles \cup {0},
               timer  : Nat,
               io     : Io]

-----------------------------------------------------------------------------
(* context_ is never advanced: every session packet carries 1.             *)
SessionPacket(command, handle) ==
  [command |-> command, session |-> handle, context |-> 1,
   tag |-> NoName, status |-> "ok"]

(* The object after abort(); deadline_ is left alone.                      *)
Aborted == [session EXCEPT !.state = "Closed", !.handle = 0, !.io = NoIo]

SessionAbort == session' = Aborted

(* open() on connection conn, whose state is that after the caller's       *)
(* earlier steps.                                                          *)
SessionOpen(conn, timeout, st) ==
  \/ /\ session.state \in {"Registering", "Registered"}
     /\ st = "Busy" /\ UNCHANGED session
  \/ /\ session.state \notin {"Registering", "Registered"}
     /\ ~Connected(conn)
     /\ st = "NotReady" /\ UNCHANGED session
  \/ /\ session.state \notin {"Registering", "Registered"}
     /\ Connected(conn)
     /\ st = "Pending"
     /\ session' = [session EXCEPT !.state = "Registering",
                                   !.timer = timeout,
                                   !.io = NewIo(SessionPacket("RegisterSession", 0))]

(* close().  startUnregister() keeps the deadline of the registration.     *)
SessionClose(st) ==
  \/ /\ session.state = "Registered"
     /\ st = "Pending"
     /\ session' = [session EXCEPT !.state = "Unregistering",
                      !.io = NewIo(SessionPacket("UnregisterSession", session.handle))]
  \/ /\ session.state \in {"Registering", "Unregistering"}
     /\ st = "Busy" /\ UNCHANGED session
  \/ /\ session.state \in {"Idle", "Closed", "Failed"}
     /\ st = "Ok" /\ SessionAbort

(* Mutant: the status and the handle of the reply are not checked.         *)
RegisterReplyAny(rx) == Intact(rx) /\ rx[1].pkt.command = "RegisterSession"

(* A well-formed RegisterSession reply with a handle.  The context is not  *)
(* looked at.                                                              *)
RegisterReplyOK(rx) ==
  /\ Intact(rx)
  /\ rx[1].pkt.command = "RegisterSession"
  /\ rx[1].pkt.status = "ok"
  /\ rx[1].pkt.session # 0

SessionExpired == session.timer = 0

(* The deadline has passed: nothing more is written or read.               *)
SessionTimeout(st) ==
  /\ SessionExpired
  /\ st = "Timeout"
  /\ session' = [session EXCEPT !.state = "Failed", !.io = NoIo]
  /\ UNCHANGED <<tcp, net>>

(* pollRegistering(): a failed write leaves the state alone, a failed read *)
(* ends the attempt.  (The code stores a zero handle too before it fails;  *)
(* no server sends one with a good status.)                                *)
PollRegister(st) ==
  \/ SessionTimeout(st)
  \/ /\ ~SessionExpired
     /\ \E o \in Transact(session.io) :
          /\ Apply(o, FALSE)
          /\ \/ /\ o.st = "Pending" \/ ~Written(o)
                /\ st = o.st
                /\ session' = [session EXCEPT !.io = o.io]
             \/ /\ o.st \in {"Closed", "Error"} /\ Written(o)
                /\ st = o.st
                /\ session' = [session EXCEPT !.state = "Failed", !.io = NoIo]
             \/ /\ o.st = "Ok" /\ RegisterReplyOK(o.io.rx)
                /\ st = "Ok"
                /\ session' = [session EXCEPT !.state = "Registered", !.io = NoIo,
                                              !.handle = o.io.rx[1].pkt.session]
             \/ /\ o.st = "Ok" /\ ~RegisterReplyOK(o.io.rx)
                /\ st = "Error"
                /\ session' = [session EXCEPT !.state = "Failed", !.io = NoIo]

(* pollUnregistering(): any complete packet counts as the answer.          *)
PollUnregister(st, closeOn) ==
  \/ SessionTimeout(st)
  \/ /\ ~SessionExpired
     /\ \E o \in Transact(session.io) :
          /\ st = o.st
          /\ Apply(o, st \in closeOn)
          /\ \/ /\ o.st = "Pending" \/ ~Written(o)
                /\ session' = [session EXCEPT !.io = o.io]
             \/ /\ o.st \in {"Closed", "Error"} /\ Written(o)
                /\ session' = [session EXCEPT !.state = "Failed", !.io = NoIo]
             \/ /\ o.st = "Ok"
                /\ session' = [session EXCEPT !.state = "Closed", !.io = NoIo]

SettledStatus == [Registered |-> "Ok", Closed |-> "Closed", Failed |-> "Error",
                  Idle |-> "NotReady"]

(* poll().  closeOn: the results on which the caller closes the connection *)
(* right after it.                                                         *)
SessionPoll(st, closeOn) ==
  \/ session.state = "Registering" /\ PollRegister(st)
  \/ session.state = "Unregistering" /\ PollUnregister(st, closeOn)
  \/ /\ session.state \in DOMAIN SettledStatus
     /\ st = SettledStatus[session.state]
     /\ UNCHANGED session
     /\ IF st \in closeOn THEN TcpClose ELSE UNCHANGED <<tcp, net>>

SessionTick == session' = [session EXCEPT !.timer = Dec(@)]

=============================================================================
