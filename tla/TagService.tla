----------------------------- MODULE TagService -----------------------------
(***************************************************************************)
(* What PlcClient promises of its tags, with nothing of the protocol left: *)
(* operations run one at a time, each ends once, a read leaves the value   *)
(* of its own tag or none, and the callback tells of an end, at most once. *)
(***************************************************************************)
CONSTANTS
  Slots,    \* tag handles
  Names,    \* symbolic tag names, and the values of these tags
  NoName    \* no tag, no value

VARIABLES
  name,    \* per slot: the tag it stands for
  value,   \* per slot: the tag whose value is in the buffer, within dataLength()
  busy,    \* the operations in flight
  cb       \* the slots whose callback is running

vars == <<name, value, busy, cb>>

Operation == [slot : Slots, kind : {"read", "write"}]

Init ==
  /\ name = [h \in Slots |-> NoName]
  /\ value = [h \in Slots |-> NoName]
  /\ busy = {}
  /\ cb = {}

(* A slot is given a tag.  What its buffer holds is left as it was.        *)
Create(h) ==
  /\ \A o \in busy : o.slot # h
  /\ \E n \in Names : name' = [name EXCEPT ![h] = n]
  /\ UNCHANGED <<value, busy, cb>>

(* A read begins by forgetting the last value.                             *)
Start(o) ==
  /\ busy = {}
  /\ busy' = {o}
  /\ value' = IF o.kind = "read" THEN [value EXCEPT ![o.slot] = NoName] ELSE value
  /\ UNCHANGED <<name, cb>>

(* The operation ends, well or badly, and the callback may be told.        *)
End(o) ==
  /\ o \in busy
  /\ cb = {}
  /\ busy' = {}
  /\ \/ UNCHANGED value
     \/ o.kind = "read" /\ value' = [value EXCEPT ![o.slot] = name[o.slot]]
  /\ cb' \in {{}, {o.slot}}
  /\ UNCHANGED name

Return ==
  /\ cb' = {}
  /\ UNCHANGED <<name, value, busy>>

(* The operation, if there is one, ends unreported and the value is void.  *)
Abort(h) ==
  /\ busy' = {o \in busy : o.slot # h}
  /\ value' = [value EXCEPT ![h] = NoName]
  /\ UNCHANGED <<name, cb>>

Next ==
  \/ \E h \in Slots : Create(h) \/ Abort(h)
  \/ \E o \in Operation : Start(o) \/ End(o)
  \/ Return

Spec == Init /\ [][Next]_vars

=============================================================================
