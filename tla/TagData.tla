------------------------------ MODULE TagData ------------------------------
(***************************************************************************)
(* The bytes behind one tag: the reply of the PLC taken apart item by item *)
(* (ExplicitMessage::parseResponse), its data copied into the buffer of    *)
(* the tag (Tag::poll), the typed accessors and strings on that buffer,    *)
(* and the sizes of the write request built from it (Tag::startWrite).     *)
(* Everything read from a reply is arbitrary.  A byte of the buffer is     *)
(* represented by where it comes from.                                     *)
(***************************************************************************)
EXTENDS Naturals, Sequences

CONSTANTS
  kMaxDataSize,      \* bytes in the buffer of a tag (256 in the code)
  kMaxCipData,       \* bytes of CIP data in a message (256)
  kMaxSymbolicName,  \* characters of a tag name (120)
  SizeMod,           \* size of size_t and uint32_t (2^32)
  CountMod,          \* size of the element count on the wire (2^16)
  Types,             \* data type codes that occur
  NoType,            \* data type 0: not known
  NameLens,          \* lengths of tag names that occur
  Lengths,           \* string lengths a PLC may claim
  Offsets,           \* offsets the application passes
  Counts,            \* element counts the application passes
  BodyLens,          \* lengths of reply bodies that occur
  ItemLens,          \* item lengths a reply may claim
  MaxItems           \* bound: items in a reply

ASSUME SizeAssumption ==
  /\ kMaxDataSize \in Nat /\ kMaxDataSize >= 4
  /\ kMaxCipData \in Nat
  /\ kMaxSymbolicName \in Nat
  /\ SizeMod \in Nat /\ SizeMod > 2 * (kMaxDataSize + kMaxCipData)
  /\ CountMod \in Nat /\ CountMod > kMaxDataSize
  /\ NoType \notin Types
  /\ NameLens \subseteq Nat
  /\ Lengths \subseteq 0 .. SizeMod - 1
  /\ Offsets \subseteq 0 .. SizeMod - 1
  /\ Counts \subseteq 0 .. SizeMod - 1
  /\ BodyLens \subseteq 0 .. 16 + kMaxCipData   \* readResponse() takes no more
  /\ ItemLens \subseteq 0 .. SizeMod - 1
  /\ MaxItems \in Nat

VARIABLES
  tag,    \* state_, dataType_, dataLen_, data_ and the value of its first 4 bytes
  reply,  \* the CIP data found in a reply that is being delivered
  sent,   \* the write request in flight: what it says and what it carries
  fault   \* history: some access was outside its buffer

vars == <<tag, reply, sent, fault>>

Bytes == 0 .. kMaxDataSize - 1

(* "plc": from the last read; "old": from an earlier one; "app": of no     *)
(* read, set by the application or never initialised.                      *)
Origin == {"app", "plc", "old"}

(* len: what the item claims; room: the bytes from its start to the end of *)
(* the reply.                                                              *)
NoReply == [on |-> FALSE, len |-> 0, room |-> 0]

NoSent == [type |-> NoType, count |-> 0, prefix |-> 0, path |-> 0, data |-> 0]

(* data_ is not initialised: its first bytes may say any length.           *)
Init ==
  /\ \E prefix \in Lengths :
       tag = [state |-> "Idle", type |-> NoType, len |-> 0, prefix |-> prefix,
              buf |-> [b \in Bytes |-> "app"]]
  /\ reply = NoReply
  /\ sent = NoSent
  /\ fault = FALSE

Busy == tag.state \in {"Reading", "Writing"}

-----------------------------------------------------------------------------
(* Sizes *)

dataTypeElementSize ==
  [Bool |-> 1, Sint |-> 1, Int |-> 2, Dint |-> 4, Lint |-> 8, Usint |-> 1, Uint |-> 2,
   Udint |-> 4, Ulint |-> 8, Real |-> 4, Lreal |-> 8, String |-> 0, Unknown |-> 0]

(* A code the switch does not know is "Unknown".                           *)
ASSUME TypesAssumption == Types \subseteq DOMAIN dataTypeElementSize

(* appendSymbolic(): the bytes of the path segment for a name.             *)
SymbolicLen(name) ==
  LET n == IF name > kMaxSymbolicName THEN kMaxSymbolicName ELSE name
  IN  2 + n + (n % 2)

inBounds(off, size) == size <= kMaxDataSize /\ off <= kMaxDataSize - size

-----------------------------------------------------------------------------
(* Reading *)

(* Mutant: the last result stays.                                          *)
StartReadKeepsLen ==
  /\ ~Busy
  /\ tag' = [tag EXCEPT !.state = "Reading",
                        !.buf = [b \in Bytes |-> IF @[b] = "plc" THEN "old" ELSE @[b]]]
  /\ UNCHANGED <<reply, sent, fault>>

(* Tag::startRead(), request accepted: dataLen_ is reset, data_ is not.    *)
StartRead ==
  /\ ~Busy
  /\ tag' = [tag EXCEPT !.state = "Reading", !.len = 0,
                        !.buf = [b \in Bytes |-> IF @[b] = "plc" THEN "old" ELSE @[b]]]
  /\ UNCHANGED <<reply, sent, fault>>

(* The exchange fails before a reply is there, or the reply is refused.    *)
Fail ==
  /\ Busy
  /\ tag' = [tag EXCEPT !.state = "Failed"]
  /\ reply' = NoReply
  /\ sent' = NoSent
  /\ UNCHANGED fault

Abort ==
  /\ ~reply.on
  /\ tag' = [tag EXCEPT !.state = "Idle", !.len = 0]
  /\ sent' = NoSent
  /\ UNCHANGED <<reply, fault>>

(* Mutant: the length of an item is believed.                              *)
NextItemUnchecked(w, body, it) ==
  IF ~w.ok \/ w.left < 4
    THEN [w EXCEPT !.ok = FALSE]
    ELSE [w EXCEPT !.p = @ + 4 + it.len, !.left = (SizeMod + @ - 4 - it.len) % SizeMod,
                   !.at  = IF it.data THEN w.p + 4 ELSE @,
                   !.len = IF it.data THEN it.len ELSE @,
                   !.over = @ \/ w.p + 4 > body]

(* The body of the loop of parseResponse(): p, remaining, and where the    *)
(* last item of unconnected data is.  over: its header is outside.         *)
NextItem(w, body, it) ==
  IF ~w.ok \/ w.left < 4 \/ it.len > w.left - 4
    THEN [w EXCEPT !.ok = FALSE]
    ELSE [w EXCEPT !.p = @ + 4 + it.len, !.left = @ - 4 - it.len,
                   !.at  = IF it.data THEN w.p + 4 ELSE @,
                   !.len = IF it.data THEN it.len ELSE @,
                   !.over = @ \/ w.p + 4 > body]

(* p after the 8 bytes that end with the item count.                       *)
WalkStart(body) == [ok |-> TRUE, p |-> 8, left |-> body - 8, at |-> 0, len |-> 0, over |-> FALSE]

(* The loop.                                                               *)
Walk(body, items) ==
  LET W[k \in 0 .. Len(items)] ==
        IF k = 0 THEN WalkStart(body) ELSE NextItem(W[k - 1], body, items[k])
  IN  W[Len(items)]

Item == [data : BOOLEAN, len : ItemLens]

(* parseResponse() of a reply whose header was accepted.  The bytes that   *)
(* say type and length of the items are arbitrary.                         *)
Parse(body, items) ==
  /\ Busy /\ ~reply.on
  /\ body >= 8
  /\ LET w == Walk(body, items)
     IN  /\ w.ok /\ w.at # 0 /\ w.len >= 4
         /\ reply' = [on |-> TRUE, len |-> w.len,
                      room |-> IF w.at > body THEN 0 ELSE body - w.at]
         /\ fault' = (fault \/ w.over)
  /\ UNCHANGED <<tag, sent>>

(* Mutant: all of the data is copied.                                      *)
DeliverUncapped(type, prefix) ==
  /\ reply.on
  /\ LET has == tag.state = "Reading" /\ reply.len >= 6
         n   == reply.len - 6
     IN  /\ tag' = IF has
                     THEN [state |-> "Done", type |-> type, len |-> n,
                           prefix |-> IF n > 0 THEN prefix ELSE tag.prefix,
                           buf |-> [b \in Bytes |-> IF b < n THEN "plc" ELSE tag.buf[b]]]
                     ELSE [tag EXCEPT !.state = "Done"]
         /\ fault' = (fault \/ reply.room < 4 \/ (has /\ reply.room < 6 + n))
  /\ reply' = NoReply
  /\ sent' = NoSent

(* The rest of the same poll(): 4 bytes of CIP header, then, in the reply  *)
(* to a read, 2 of data type and the data.  Tag::poll() copies it and      *)
(* learns the type.  (A general status other than 0 is Fail.)              *)
Deliver(type, prefix) ==
  /\ reply.on
  /\ LET has == tag.state = "Reading" /\ reply.len >= 6
         raw == reply.len - 6
         n   == IF raw > kMaxDataSize THEN kMaxDataSize ELSE raw
     IN  /\ tag' = IF has
                     THEN [state |-> "Done", type |-> type, len |-> n,
                           prefix |-> IF n > 0 THEN prefix ELSE tag.prefix,
                           buf |-> [b \in Bytes |-> IF b < n THEN "plc" ELSE tag.buf[b]]]
                     ELSE [tag EXCEPT !.state = "Done"]
         /\ fault' = (fault \/ reply.room < 4 \/ (has /\ reply.room < 6 + n))
  /\ reply' = NoReply
  /\ sent' = NoSent

-----------------------------------------------------------------------------
(* The buffer in the hands of the application *)

ElementSizes == {1, 2, 4, 8}

(* getInt32() and its like: the bytes read, none outside the buffer.       *)
get(off, size) == IF inBounds(off, size) THEN off .. off + size - 1 ELSE {}

(* setInt32() and its like: size bytes at off.                             *)
Set(off, size, prefix) ==
  /\ ~reply.on
  /\ inBounds(off, size)
  /\ tag' = [tag EXCEPT !.buf = [b \in Bytes |-> IF b \in off .. off + size - 1 THEN "app" ELSE @[b]],
                        !.prefix = IF off < 4 THEN prefix ELSE @]
  /\ fault' = (fault \/ off + size > kMaxDataSize)
  /\ UNCHANGED <<reply, sent>>

(* setString(): cut to what fits.                                          *)
SetString(chars) ==
  /\ ~reply.on
  /\ LET n == IF chars > kMaxDataSize - 4 THEN kMaxDataSize - 4 ELSE chars
     IN  /\ tag' = [tag EXCEPT !.len = 4 + n, !.prefix = n,
                      !.buf = [b \in Bytes |-> IF b < 4 + n THEN "app" ELSE @[b]]]
         /\ fault' = (fault \/ 4 + n > kMaxDataSize)
  /\ UNCHANGED <<reply, sent>>

setDataType(type) ==
  /\ ~reply.on
  /\ tag' = [tag EXCEPT !.type = type]
  /\ UNCHANGED <<reply, sent, fault>>

(* Mutant: the claimed length is cut to the buffer, not to the data.       *)
getStringOfBuffer(bufLen) ==
  LET n == IF tag.prefix < kMaxDataSize - 4 THEN tag.prefix ELSE kMaxDataSize - 4
  IN  IF tag.len < 4 \/ bufLen = 0 THEN 0 ELSE IF n > bufLen - 1 THEN bufLen - 1 ELSE n

(* getString(): the number of characters copied from data_ + 4.            *)
getString(bufLen) ==
  LET n == IF tag.prefix < tag.len - 4 THEN tag.prefix ELSE tag.len - 4
  IN  IF tag.len < 4 \/ bufLen = 0 THEN 0 ELSE IF n > bufLen - 1 THEN bufLen - 1 ELSE n

-----------------------------------------------------------------------------
(* Writing *)

(* Mutant: what the last read brought is sent, however many elements.      *)
WriteLenOfLastRead(count) ==
  IF tag.type = "String"
    THEN IF tag.prefix > kMaxDataSize - 4 THEN {} ELSE {4 + tag.prefix}
    ELSE LET size == dataTypeElementSize[tag.type]
         IN  IF size = 0 \/ count > kMaxDataSize \div size THEN {} ELSE {tag.len}

(* The bytes of tag data in a write of count elements; none if refused.    *)
WriteLen(count) ==
  IF tag.type = "String"
    THEN IF tag.prefix > kMaxDataSize - 4 THEN {} ELSE {4 + tag.prefix}
    ELSE LET size == dataTypeElementSize[tag.type]
         IN  IF size = 0 \/ count > kMaxDataSize \div size THEN {} ELSE {count * size}

(* startWrite() and the size check of send(): service and path size (2),   *)
(* path, element count (2), data type (2), data.                           *)
StartWrite(count, name) ==
  /\ ~Busy
  /\ tag.type # NoType
  /\ name <= kMaxSymbolicName
  /\ \E n \in WriteLen(count) :
       /\ 2 + SymbolicLen(name) + 4 + n <= kMaxCipData
       /\ sent' = [type |-> tag.type, count |-> count % CountMod, prefix |-> tag.prefix,
                   path |-> SymbolicLen(name), data |-> n]
       /\ fault' = (fault \/ n > kMaxDataSize)
  /\ tag' = [tag EXCEPT !.state = "Writing"]
  /\ UNCHANGED reply

Next ==
  \/ StartRead \/ Fail \/ Abort
  \/ \E body \in BodyLens, n \in 0 .. MaxItems :
       \E items \in [1 .. n -> Item] : Parse(body, items)
  \/ \E type \in Types, prefix \in Lengths : Deliver(type, prefix)
  \/ \E off \in Offsets, size \in ElementSizes, prefix \in Lengths :
       Set(off, size, prefix)
  \/ \E chars \in 0 .. kMaxDataSize : SetString(chars)
  \/ \E type \in Types : setDataType(type)
  \/ \E count \in Counts, name \in NameLens : StartWrite(count, name)

Spec == Init /\ [][Next]_vars

-----------------------------------------------------------------------------
(* The object and the locals have their types.                             *)
TypeOK ==
  /\ tag \in [state : {"Idle", "Reading", "Writing", "Done", "Failed"},
              type : Types \cup {NoType}, len : 0 .. kMaxDataSize,
              prefix : 0 .. SizeMod - 1, buf : [Bytes -> Origin]]
  /\ reply.on \in BOOLEAN /\ fault \in BOOLEAN

(* "Every received packet is bounds-checked": whatever lengths and counts  *)
(* a reply claims and whatever offsets the application passes, no access   *)
(* leaves its buffer and the item found lies within the reply.             *)
InBounds ==
  /\ ~fault
  /\ \A off \in Offsets, size \in ElementSizes : get(off, size) \subseteq Bytes
  /\ reply.len <= reply.room
  /\ \A bufLen \in 1 .. kMaxDataSize :
       getString(bufLen) < bufLen /\ 4 + getString(bufLen) <= kMaxDataSize

(* A byte below dataLength() is never one of an earlier read: neither when *)
(* a read has failed or is under way, nor when a shorter reply has come.   *)
(* (Past dataLength() the typed accessors do return such bytes.)           *)
DataIsCurrent == \A b \in Bytes : b < tag.len => tag.buf[b] # "old"

(* A string the application gets has no character of an earlier read.      *)
StringIsCurrent ==
  \A b \in 4 .. 3 + getString(kMaxDataSize) : tag.buf[b] # "old"

(* A write request says what it carries, and path and data fit the         *)
(* message.  For a STRING it is the length in front of its characters that *)
(* agrees with the data; the element count is the application's, unchecked *)
(* and cut to 16 bits.  For every other known type the count on the wire   *)
(* is that of the data, never a truncated or a wrapped one.                *)
RequestIsConsistent ==
  sent # NoSent =>
    /\ IF sent.type = "String"
         THEN sent.data = 4 + sent.prefix
         ELSE sent.data = sent.count * dataTypeElementSize[sent.type]
    /\ 2 + sent.path + 4 + sent.data <= kMaxCipData /\ sent.path % 2 = 0

=============================================================================
