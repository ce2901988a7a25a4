--------------------------- MODULE TagDataProofs ---------------------------
(***************************************************************************)
(* The buffer of a tag is never overrun and never shows what it should     *)
(* not: proofs about module TagData for every size of the buffers, every   *)
(* number of items in a reply and every length they claim.                 *)
(***************************************************************************)
EXTENDS TagData, TLAPS, SequenceTheorems, WellFoundedInduction

-----------------------------------------------------------------------------
(* Induction on the items of a reply is the search for the smallest number *)
(* of items that refutes a claim.                                          *)
LEMMA LeastNatural ==
  ASSUME NEW T, T \subseteq Nat, T # {}
  PROVE  \E x \in T : \A y \in T : x <= y
<1> DEFINE R == {ss \in Nat \X Nat : ss[1] < ss[2]}
<1>1. IsWellFoundedOn(R, Nat)
  BY NatLessThanWellFounded DEF OpToRel
<1>2. PICK x \in T : \A y \in T : ~(<<y, x>> \in R)
  BY <1>1, WFMin, Zenon
<1>3. ASSUME NEW y \in T PROVE x <= y
  <2>1. ~(<<y, x>> \in R) /\ x \in Nat /\ y \in Nat
    BY <1>2
  <2> QED BY <2>1
<1> QED BY <1>3

(* W describes the loop over the first n items.                            *)
Walks(W, n, body, items) ==
  W = [k \in 0 .. n |-> IF k = 0 THEN WalkStart(body) ELSE NextItem(W[k - 1], body, items[k])]

(* The recursive definition of the loop has a solution.                    *)
LEMMA WalkExists ==
  ASSUME NEW body, NEW items, NEW n \in Nat
  PROVE  \E W : Walks(W, n, body, items)
<1> DEFINE T == {m \in Nat : ~ \E W : Walks(W, m, body, items)}
<1> SUFFICES ASSUME T # {} PROVE FALSE
  OBVIOUS
<1>1. PICK m \in T : \A y \in T : m <= y
  <2> HIDE DEF T
  <2>1. T \subseteq Nat
    BY DEF T
  <2> QED BY <2>1, LeastNatural
<1>2. m \in Nat /\ ~ \E W : Walks(W, m, body, items)
  OBVIOUS
<1>3. m # 0
  <2> DEFINE V == [k \in 0 .. 0 |-> WalkStart(body)]
  <2>1. Walks(V, 0, body, items)
    BY DEF Walks
  <2> QED BY <1>2, <2>1
<1>4. PICK V : Walks(V, m - 1, body, items)
  <2>1. m - 1 \in Nat /\ ~(m <= m - 1)
    BY <1>2, <1>3
  <2>2. m - 1 \notin T
    BY <1>1, <2>1
  <2> QED BY <2>1, <2>2
<1> DEFINE W == [k \in 0 .. m |-> IF k < m THEN V[k] ELSE NextItem(V[m - 1], body, items[m])]
<1>5. ASSUME NEW k \in 0 .. m
      PROVE  W[k] = IF k = 0 THEN WalkStart(body) ELSE NextItem(W[k - 1], body, items[k])
  <2>1. CASE k = 0
    <3>1. 0 \in 0 .. m - 1 /\ 0 < m
      BY <1>2, <1>3
    <3>2. W[0] = V[0]
      BY <3>1
    <3>3. V[0] = WalkStart(body)
      BY <1>4, <3>1 DEF Walks
    <3> QED BY <2>1, <3>2, <3>3
  <2>2. CASE k # 0 /\ k < m
    <3>1. k \in 0 .. m - 1 /\ k - 1 \in 0 .. m /\ k - 1 < m
      BY <1>2, <2>2
    <3>2. W[k] = V[k] /\ W[k - 1] = V[k - 1]
      BY <2>2, <3>1
    <3>3. V[k] = NextItem(V[k - 1], body, items[k])
      BY <1>4, <2>2, <3>1 DEF Walks
    <3> QED BY <2>2, <3>2, <3>3
  <2>3. CASE k = m
    <3>1. m \in 0 .. m /\ ~(m < m) /\ m - 1 \in 0 .. m /\ m - 1 < m
      BY <1>2, <1>3
    <3>2. W[m] = NextItem(V[m - 1], body, items[m]) /\ W[m - 1] = V[m - 1]
      BY <3>1
    <3> QED BY <1>3, <2>3, <3>2
  <2> QED BY <1>2, <2>1, <2>2, <2>3
<1>6. Walks(W, m, body, items)
  <2>1. W = [k \in 0 .. m |-> W[k]]
    OBVIOUS
  <2> HIDE DEF W
  <2> QED BY <1>5, <2>1 DEF Walks
<1> QED BY <1>2, <1>6

-----------------------------------------------------------------------------
(* The state of the loop: p and remaining share the body between them and  *)
(* the item found so far lies before p.                                    *)
WalkState == [ok : BOOLEAN, p : Nat, left : Nat, at : Nat, len : Nat, over : BOOLEAN]

WalkOK(w, body) ==
  /\ w \in WalkState
  /\ w.p + w.left = body
  /\ w.at + w.len <= w.p
  /\ ~w.over

LEMMA LengthsAreNat == ItemLens \subseteq Nat /\ BodyLens \subseteq Nat /\ Counts \subseteq Nat
  BY SizeAssumption

LEMMA NextItemOK ==
  ASSUME NEW body \in Nat, NEW w, WalkOK(w, body), NEW it \in Item
  PROVE  WalkOK(NextItem(w, body, it), body)
<1>1. /\ w \in WalkState /\ w.p + w.left = body /\ w.at + w.len <= w.p /\ ~w.over
      /\ w.p \in Nat /\ w.left \in Nat /\ w.at \in Nat /\ w.len \in Nat
  BY DEF WalkOK, WalkState
<1>2. it.len \in Nat
  <2>1. it.len \in ItemLens
    BY DEF Item
  <2> QED BY <2>1, LengthsAreNat
<1>3. CASE ~w.ok \/ w.left < 4 \/ it.len > w.left - 4
  <2>1. NextItem(w, body, it) = [w EXCEPT !.ok = FALSE]
    BY <1>3 DEF NextItem
  <2> QED BY <1>1, <2>1 DEF WalkOK, WalkState
<1>4. CASE ~(~w.ok \/ w.left < 4 \/ it.len > w.left - 4)
  <2> DEFINE at  == IF it.data THEN w.p + 4 ELSE w.at
             len == IF it.data THEN it.len ELSE w.len
  <2>1. NextItem(w, body, it) = [ok |-> w.ok, p |-> w.p + 4 + it.len, left |-> w.left - 4 - it.len,
                                 at |-> at, len |-> len, over |-> FALSE]
    <3>1. ~(w.p + 4 > body)
      BY <1>1, <1>4
    <3> QED BY <1>1, <1>4, <3>1 DEF NextItem, WalkState
  <2>2. w.p + 4 + it.len \in Nat /\ w.left - 4 - it.len \in Nat
    BY <1>1, <1>2, <1>4
  <2>3. at \in Nat /\ len \in Nat /\ at + len <= w.p + 4 + it.len
    BY <1>1, <1>2
  <2>4. (w.p + 4 + it.len) + (w.left - 4 - it.len) = body
    BY <1>1, <1>2
  <2>5. w.ok \in BOOLEAN
    BY <1>1 DEF WalkState
  <2> HIDE DEF at, len
  <2> QED BY <2>1, <2>2, <2>3, <2>4, <2>5 DEF WalkOK, WalkState
<1> QED BY <1>3, <1>4

(* Whatever the items claim, the loop stays within the reply.              *)
LEMMA WalkInBody ==
  ASSUME NEW body \in Nat, body >= 8, NEW items \in Seq(Item)
  PROVE  WalkOK(Walk(body, items), body)
<1> DEFINE n == Len(items)
           F == CHOOSE W : W = [k \in 0 .. n |-> IF k = 0 THEN WalkStart(body)
                                                 ELSE NextItem(W[k - 1], body, items[k])]
<1>1. n \in Nat
  BY LenProperties
<1>2. Walk(body, items) = F[n]
  BY DEF Walk
<1>3. F = [k \in 0 .. n |-> IF k = 0 THEN WalkStart(body) ELSE NextItem(F[k - 1], body, items[k])]
  <2>1. \E W : W = [k \in 0 .. n |-> IF k = 0 THEN WalkStart(body)
                                     ELSE NextItem(W[k - 1], body, items[k])]
    <3>1. PICK V : Walks(V, n, body, items)
      BY <1>1, WalkExists
    <3> QED BY <3>1 DEF Walks
  <2> QED BY <2>1
<1> HIDE DEF F
<1>4. F[0] = WalkStart(body)
  BY <1>1, <1>3
<1>5. ASSUME NEW k \in 1 .. n PROVE F[k] = NextItem(F[k - 1], body, items[k])
  <2>1. k \in 0 .. n /\ k # 0
    BY <1>1
  <2> QED BY <1>3, <2>1
<1> DEFINE T == {k \in 0 .. n : ~WalkOK(F[k], body)}
<1> SUFFICES ASSUME T # {} PROVE FALSE
  BY <1>1, <1>2
<1>6. PICK m \in T : \A y \in T : m <= y
  <2> HIDE DEF T
  <2>1. T \subseteq Nat
    BY <1>1 DEF T
  <2> QED BY <2>1, LeastNatural
<1>7. m \in 0 .. n /\ ~WalkOK(F[m], body)
  OBVIOUS
<1>8. m # 0
  <2>1. WalkOK(WalkStart(body), body)
    BY DEF WalkOK, WalkStart, WalkState
  <2> QED BY <1>4, <1>7, <2>1
<1>9. WalkOK(F[m - 1], body)
  <2>1. m - 1 \in 0 .. n /\ ~(m <= m - 1)
    BY <1>1, <1>7, <1>8
  <2> QED BY <1>6, <2>1
<1>10. items[m] \in Item
  BY <1>1, <1>7, <1>8, ElementOfSeq
<1>11. F[m] = NextItem(F[m - 1], body, items[m])
  BY <1>1, <1>5, <1>7, <1>8
<1> QED BY <1>7, <1>9, <1>10, <1>11, NextItemOK

-----------------------------------------------------------------------------
(* The inductive invariant.  An item that was found lies within the reply  *)
(* and holds at least the 4 bytes of CIP header, and the first len bytes   *)
(* of the buffer are not those of an earlier read.                         *)
Found == /\ reply \in [on : BOOLEAN, len : Nat, room : Nat]
         /\ reply.len <= reply.room
         /\ reply.on => reply.len >= 4

Tags == [state : {"Idle", "Reading", "Writing", "Done", "Failed"},
         type : Types \cup {NoType}, len : 0 .. kMaxDataSize,
         prefix : 0 .. SizeMod - 1, buf : [Bytes -> Origin]]

(* What a write request may say.                                           *)
SentRequests ==
  [type : Types \cup {NoType}, count : Nat, prefix : Nat, path : Nat, data : Nat]

DataInv ==
  /\ tag \in Tags
  /\ Found
  /\ DataIsCurrent
  /\ sent \in SentRequests
  /\ RequestIsConsistent
  /\ fault = FALSE

LEMMA Sizes ==
  /\ kMaxDataSize \in Nat /\ kMaxDataSize >= 4
  /\ kMaxCipData \in Nat /\ kMaxSymbolicName \in Nat
  /\ SizeMod \in Nat /\ SizeMod > 2 * (kMaxDataSize + kMaxCipData)
  /\ CountMod \in Nat /\ CountMod > kMaxDataSize
  /\ NameLens \subseteq Nat /\ Lengths \subseteq 0 .. SizeMod - 1
  /\ Offsets \subseteq Nat /\ MaxItems \in Nat
  BY SizeAssumption

LEMMA NothingSent == NoSent \in SentRequests
  BY DEF NoSent, SentRequests

LEMMA NothingFound ==
  ASSUME reply' = NoReply
  PROVE  Found'
  BY DEF NoReply, Found

(* Nothing of a request is left.                                           *)
LEMMA NoRequestLeft ==
  ASSUME sent' = NoSent
  PROVE  /\ sent' \in SentRequests
         /\ RequestIsConsistent'
  BY NothingSent DEF RequestIsConsistent, NoSent

(* An action that only changes the tag.                                    *)
LEMMA OnlyTag ==
  ASSUME DataInv, UNCHANGED <<reply, sent, fault>>, tag' \in Tags, DataIsCurrent'
  PROVE  DataInv'
  BY DEF DataInv, Found, RequestIsConsistent

LEMMA DataInit == Init => DataInv
<1> SUFFICES ASSUME Init PROVE DataInv
  OBVIOUS
<1>1. PICK prefix \in Lengths :
        tag = [state |-> "Idle", type |-> NoType, len |-> 0, prefix |-> prefix,
               buf |-> [b \in Bytes |-> "app"]]
  BY DEF Init
<1>2. tag \in Tags
  <2>1. 0 \in 0 .. kMaxDataSize /\ prefix \in 0 .. SizeMod - 1
    BY Sizes
  <2>2. [b \in Bytes |-> "app"] \in [Bytes -> Origin]
    BY DEF Origin
  <2> QED BY <1>1, <2>1, <2>2 DEF Tags
<1>3. DataIsCurrent
  BY <1>1, Sizes DEF DataIsCurrent, Bytes
<1>4. Found /\ sent \in SentRequests /\ fault = FALSE
  BY NothingSent DEF Init, NoReply, Found
<1>5. RequestIsConsistent
  BY DEF Init, RequestIsConsistent, NoSent
<1> QED BY <1>2, <1>3, <1>4, <1>5 DEF DataInv

(* A field of the tag at a time.                                           *)
LEMMA TagFields ==
  ASSUME tag \in Tags
  PROVE  /\ tag.state \in {"Idle", "Reading", "Writing", "Done", "Failed"}
         /\ tag.type \in Types \cup {NoType}
         /\ tag.len \in 0 .. kMaxDataSize /\ tag.len \in Nat /\ tag.len <= kMaxDataSize
         /\ tag.prefix \in 0 .. SizeMod - 1 /\ tag.prefix \in Nat
         /\ tag.buf \in [Bytes -> Origin]
         /\ tag = [state |-> tag.state, type |-> tag.type, len |-> tag.len,
                   prefix |-> tag.prefix, buf |-> tag.buf]
  BY Sizes DEF Tags

LEMMA NewTag ==
  ASSUME NEW state \in {"Idle", "Reading", "Writing", "Done", "Failed"},
         NEW type \in Types \cup {NoType}, NEW len \in 0 .. kMaxDataSize,
         NEW prefix \in 0 .. SizeMod - 1, NEW buf \in [Bytes -> Origin],
         tag' = [state |-> state, type |-> type, len |-> len, prefix |-> prefix, buf |-> buf]
  PROVE  tag' \in Tags
  BY DEF Tags

LEMMA StartReadKeeps ==
  ASSUME DataInv, StartRead
  PROVE  DataInv'
<1> DEFINE buf == [b \in Bytes |-> IF tag.buf[b] = "plc" THEN "old" ELSE tag.buf[b]]
<1>0. tag \in Tags
  BY DEF DataInv
<1>1. tag' = [state |-> "Reading", type |-> tag.type, len |-> 0, prefix |-> tag.prefix, buf |-> buf]
  BY <1>0, TagFields DEF StartRead
<1>2. buf \in [Bytes -> Origin]
  BY <1>0, TagFields DEF Origin
<1>3. 0 \in 0 .. kMaxDataSize
  BY Sizes
<1> HIDE DEF buf
<1>4. tag' \in Tags
  BY <1>0, <1>1, <1>2, <1>3, TagFields, NewTag
<1>5. DataIsCurrent'
  BY <1>1, Sizes DEF DataIsCurrent, Bytes
<1> QED BY <1>4, <1>5, OnlyTag DEF StartRead

LEMMA FailKeeps ==
  ASSUME DataInv, Fail
  PROVE  DataInv'
<1>0. tag \in Tags /\ DataIsCurrent
  BY DEF DataInv
<1>1. tag' = [state |-> "Failed", type |-> tag.type, len |-> tag.len, prefix |-> tag.prefix,
              buf |-> tag.buf]
  BY <1>0, TagFields DEF Fail
<1>2. tag' \in Tags
  BY <1>0, <1>1, TagFields, NewTag
<1>3. DataIsCurrent'
  BY <1>0, <1>1 DEF DataIsCurrent
<1> QED BY <1>2, <1>3, NothingFound, NoRequestLeft DEF Fail, DataInv

LEMMA AbortKeeps ==
  ASSUME DataInv, Abort
  PROVE  DataInv'
<1>0. tag \in Tags
  BY DEF DataInv
<1>1. tag' = [state |-> "Idle", type |-> tag.type, len |-> 0, prefix |-> tag.prefix, buf |-> tag.buf]
  BY <1>0, TagFields DEF Abort
<1>2. tag' \in Tags
  BY <1>0, <1>1, Sizes, TagFields, NewTag
<1>3. DataIsCurrent'
  BY <1>1, Sizes DEF DataIsCurrent, Bytes
<1>4. Found'
  BY DEF DataInv, Abort, Found
<1> QED BY <1>2, <1>3, <1>4, NoRequestLeft DEF Abort, DataInv

(* The item parseResponse() finds lies within the reply.                   *)
LEMMA ParseKeeps ==
  ASSUME DataInv, NEW body \in BodyLens, NEW items \in Seq(Item), Parse(body, items)
  PROVE  DataInv'
<1> DEFINE w == Walk(body, items)
           room == IF w.at > body THEN 0 ELSE body - w.at
<1>1. body \in Nat /\ body >= 8
  BY LengthsAreNat DEF Parse
<1>2. WalkOK(w, body)
  BY <1>1, WalkInBody
<1>3. /\ w.len >= 4 /\ UNCHANGED <<tag, sent>>
      /\ reply' = [on |-> TRUE, len |-> w.len, room |-> room]
      /\ fault' = (fault \/ w.over)
  BY DEF Parse
<1> HIDE DEF w
<1>4. w.len \in Nat /\ w.at \in Nat /\ w.at + w.len <= body /\ ~w.over
  BY <1>1, <1>2 DEF WalkOK, WalkState
<1>5. room \in Nat /\ w.len <= room
  BY <1>1, <1>4
<1> HIDE DEF room
<1>6. Found'
  BY <1>3, <1>4, <1>5 DEF Found
<1>7. fault' = FALSE
  BY <1>3, <1>4 DEF DataInv
<1> QED BY <1>3, <1>6, <1>7 DEF DataInv, DataIsCurrent, RequestIsConsistent

(* What is copied fits the buffer and lies within the item.                *)
LEMMA DeliverKeeps ==
  ASSUME DataInv, NEW type \in Types, NEW prefix \in Lengths, Deliver(type, prefix)
  PROVE  DataInv'
<1> DEFINE has == tag.state = "Reading" /\ reply.len >= 6
           raw == reply.len - 6
           n   == IF raw > kMaxDataSize THEN kMaxDataSize ELSE raw
<1>0. tag \in Tags /\ DataIsCurrent /\ fault = FALSE
  BY DEF DataInv
<1>1. /\ reply.len \in Nat /\ reply.room \in Nat /\ reply.len <= reply.room /\ reply.len >= 4
      /\ reply' = NoReply /\ sent' = NoSent
      /\ fault' = (fault \/ reply.room < 4 \/ (has /\ reply.room < 6 + n))
  BY DEF DataInv, Found, Deliver
<1>2. has => n \in 0 .. kMaxDataSize /\ 6 + n <= reply.len
  BY <1>1, Sizes
<1>3. fault' = FALSE
  <2>1. ~(reply.room < 4) /\ (has => ~(reply.room < 6 + n))
    <3> HIDE DEF n, has
    <3>1. has => n \in Nat
      BY <1>2, Sizes
    <3> QED BY <1>1, <1>2, <3>1
  <2> HIDE DEF n, has
  <2> QED BY <1>0, <1>1, <2>1
<1>4. tag' \in Tags /\ DataIsCurrent'
  <2>1. CASE has
    <3> DEFINE pre == IF n > 0 THEN prefix ELSE tag.prefix
               buf == [b \in Bytes |-> IF b < n THEN "plc" ELSE tag.buf[b]]
    <3>1. tag' = [state |-> "Done", type |-> type, len |-> n, prefix |-> pre, buf |-> buf]
      BY <2>1 DEF Deliver
    <3>2. pre \in 0 .. SizeMod - 1
      BY <1>0, Sizes, TagFields
    <3>3. buf \in [Bytes -> Origin]
      BY <1>0, TagFields DEF Origin
    <3>4. \A b \in Bytes : b < n => buf[b] # "old"
      OBVIOUS
    <3> HIDE DEF n, pre, buf
    <3>5. tag' \in Tags
      BY <1>2, <2>1, <3>1, <3>2, <3>3, NewTag
    <3>6. DataIsCurrent'
      BY <3>1, <3>4 DEF DataIsCurrent
    <3> QED BY <3>5, <3>6
  <2>2. CASE ~has
    <3>1. tag' = [state |-> "Done", type |-> tag.type, len |-> tag.len, prefix |-> tag.prefix,
                  buf |-> tag.buf]
      BY <1>0, <2>2, TagFields DEF Deliver
    <3>2. tag' \in Tags
      BY <1>0, <3>1, TagFields, NewTag
    <3>3. DataIsCurrent'
      BY <1>0, <3>1 DEF DataIsCurrent
    <3> QED BY <3>2, <3>3
  <2> QED BY <2>1, <2>2
<1> QED BY <1>1, <1>3, <1>4, NothingFound, NoRequestLeft DEF DataInv

LEMMA SetKeeps ==
  ASSUME DataInv, NEW off \in Offsets, NEW size \in ElementSizes, NEW prefix \in Lengths,
         Set(off, size, prefix)
  PROVE  DataInv'
<1> DEFINE buf == [b \in Bytes |-> IF b \in off .. off + size - 1 THEN "app" ELSE tag.buf[b]]
           pre == IF off < 4 THEN prefix ELSE tag.prefix
<1>0. tag \in Tags /\ DataIsCurrent /\ fault = FALSE
  BY DEF DataInv
<1>1. tag' = [state |-> tag.state, type |-> tag.type, len |-> tag.len, prefix |-> pre, buf |-> buf]
  BY <1>0, TagFields DEF Set
<1>2. pre \in 0 .. SizeMod - 1
  BY <1>0, Sizes, TagFields
<1>3. buf \in [Bytes -> Origin]
  BY <1>0, TagFields DEF Origin
<1>4. \A b \in Bytes : buf[b] = tag.buf[b] \/ buf[b] = "app"
  OBVIOUS
<1> HIDE DEF buf, pre
<1>5. tag' \in Tags
  BY <1>0, <1>1, <1>2, <1>3, TagFields, NewTag
<1>6. DataIsCurrent'
  BY <1>0, <1>1, <1>4 DEF DataIsCurrent
<1>7. ~(off + size > kMaxDataSize)
  <2>1. off \in Nat /\ size \in Nat
    BY Sizes DEF ElementSizes
  <2> QED BY <2>1, Sizes DEF Set, inBounds
<1>8. fault' = fault
  BY <1>0, <1>7 DEF Set
<1> QED BY <1>5, <1>6, <1>8, OnlyTag DEF Set

LEMMA SetStringKeeps ==
  ASSUME DataInv, NEW chars \in 0 .. kMaxDataSize, SetString(chars)
  PROVE  DataInv'
<1> DEFINE n == IF chars > kMaxDataSize - 4 THEN kMaxDataSize - 4 ELSE chars
           buf == [b \in Bytes |-> IF b < 4 + n THEN "app" ELSE tag.buf[b]]
<1>0. tag \in Tags /\ fault = FALSE
  BY DEF DataInv
<1>1. /\ tag' = [state |-> tag.state, type |-> tag.type, len |-> 4 + n, prefix |-> n, buf |-> buf]
      /\ fault' = (fault \/ 4 + n > kMaxDataSize)
  BY <1>0, TagFields DEF SetString
<1>2. n \in 0 .. SizeMod - 1 /\ 4 + n \in 0 .. kMaxDataSize /\ ~(4 + n > kMaxDataSize)
  BY Sizes
<1>3. buf \in [Bytes -> Origin]
  BY <1>0, TagFields DEF Origin
<1>4. \A b \in Bytes : b < 4 + n => buf[b] # "old"
  OBVIOUS
<1> HIDE DEF n, buf
<1>5. tag' \in Tags
  BY <1>0, <1>1, <1>2, <1>3, TagFields, NewTag
<1>6. DataIsCurrent'
  BY <1>1, <1>4 DEF DataIsCurrent
<1>7. fault' = fault
  BY <1>0, <1>1, <1>2
<1> QED BY <1>5, <1>6, <1>7, OnlyTag DEF SetString

LEMMA SetDataTypeKeeps ==
  ASSUME DataInv, NEW type \in Types, setDataType(type)
  PROVE  DataInv'
<1>0. tag \in Tags /\ DataIsCurrent
  BY DEF DataInv
<1>1. tag' = [state |-> tag.state, type |-> type, len |-> tag.len, prefix |-> tag.prefix,
              buf |-> tag.buf]
  BY <1>0, TagFields DEF setDataType
<1>2. tag' \in Tags
  BY <1>0, <1>1, TagFields, NewTag
<1>3. DataIsCurrent'
  BY <1>0, <1>1 DEF DataIsCurrent
<1> QED BY <1>2, <1>3, OnlyTag DEF setDataType

(* A count that fits the buffer is not cut on the wire.                    *)
LEMMA CountFits ==
  ASSUME NEW count \in Nat, count < CountMod
  PROVE  count % CountMod = count
  BY Sizes

LEMMA WriteLenOK ==
  ASSUME tag \in Tags, tag.type # NoType, NEW count \in Nat, NEW n \in WriteLen(count)
  PROVE  /\ n \in Nat /\ n <= kMaxDataSize
         /\ IF tag.type = "String"
              THEN n = 4 + tag.prefix
              ELSE n = (count % CountMod) * dataTypeElementSize[tag.type]
<1> DEFINE size == dataTypeElementSize[tag.type]
<1>1. size \in {0, 1, 2, 4, 8} /\ (tag.type = "String" => size = 0)
  BY TagFields, TypesAssumption DEF dataTypeElementSize
<1>2. CASE tag.type = "String"
  BY <1>1, <1>2, Sizes, TagFields DEF WriteLen
<1>3. CASE tag.type # "String"
  <2>1. size # 0 /\ ~(count > kMaxDataSize \div size) /\ n = count * size
    BY <1>3 DEF WriteLen
  <2> HIDE DEF size
  <2>2. count * size <= kMaxDataSize /\ count <= kMaxDataSize /\ count * size \in Nat
    <3>1. CASE size = 1
      BY <2>1, <3>1, Sizes
    <3>2. CASE size = 2
      BY <2>1, <3>2, Sizes
    <3>3. CASE size = 4
      BY <2>1, <3>3, Sizes
    <3>4. CASE size = 8
      BY <2>1, <3>4, Sizes
    <3> QED BY <1>1, <2>1, <3>1, <3>2, <3>3, <3>4
  <2>3. count % CountMod = count
    BY <2>2, Sizes, CountFits
  <2> QED BY <1>1, <2>1, <2>2, <2>3 DEF size
<1> QED BY <1>2, <1>3

LEMMA StartWriteKeeps ==
  ASSUME DataInv, NEW count \in Counts, NEW name \in NameLens, StartWrite(count, name)
  PROVE  DataInv'
<1>0. tag \in Tags /\ DataIsCurrent /\ fault = FALSE /\ tag.type # NoType /\ count \in Nat
  BY LengthsAreNat DEF DataInv, StartWrite
<1>1. PICK n \in WriteLen(count) :
        /\ 2 + SymbolicLen(name) + 4 + n <= kMaxCipData
        /\ sent' = [type |-> tag.type, count |-> count % CountMod, prefix |-> tag.prefix,
                    path |-> SymbolicLen(name), data |-> n]
        /\ fault' = (fault \/ n > kMaxDataSize)
  BY DEF StartWrite
<1>2. /\ n \in Nat /\ n <= kMaxDataSize
      /\ IF tag.type = "String"
           THEN n = 4 + tag.prefix
           ELSE n = (count % CountMod) * dataTypeElementSize[tag.type]
  BY <1>0, WriteLenOK
<1>3. SymbolicLen(name) \in Nat /\ SymbolicLen(name) % 2 = 0
  <2>1. name \in Nat
    BY Sizes
  <2> QED BY <2>1, Sizes DEF SymbolicLen
<1>4. count % CountMod \in Nat
  BY <1>0, Sizes
<1>5. tag' = [state |-> "Writing", type |-> tag.type, len |-> tag.len, prefix |-> tag.prefix,
              buf |-> tag.buf]
  BY <1>0, TagFields DEF StartWrite
<1>6. tag' \in Tags
  BY <1>0, <1>5, TagFields, NewTag
<1>7. DataIsCurrent'
  BY <1>0, <1>5 DEF DataIsCurrent
<1>8. fault' = FALSE
  <2>1. ~(n > kMaxDataSize)
    BY <1>2, Sizes
  <2> QED BY <1>0, <1>1, <2>1
<1>9. sent' \in SentRequests
  BY <1>0, <1>1, <1>2, <1>3, <1>4, TagFields DEF SentRequests
<1>10. RequestIsConsistent'
  <2>1. IF sent'.type = "String"
          THEN sent'.data = 4 + sent'.prefix
          ELSE sent'.data = sent'.count * dataTypeElementSize[sent'.type]
    BY <1>1, <1>2
  <2>2. 2 + sent'.path + 4 + sent'.data <= kMaxCipData /\ sent'.path % 2 = 0
    BY <1>1, <1>3
  <2> QED BY <2>1, <2>2 DEF RequestIsConsistent
<1>11. Found'
  BY DEF StartWrite, DataInv, Found
<1> QED BY <1>6, <1>7, <1>8, <1>9, <1>10, <1>11 DEF DataInv

LEMMA DataNext == DataInv /\ [Next]_vars => DataInv'
<1> SUFFICES ASSUME DataInv, [Next]_vars PROVE DataInv'
  OBVIOUS
<1>1. CASE UNCHANGED vars
  BY <1>1 DEF vars, DataInv, Found, DataIsCurrent, RequestIsConsistent
<1>2. ASSUME NEW body \in BodyLens, NEW n \in 0 .. MaxItems, NEW items \in [1 .. n -> Item],
             Parse(body, items)
      PROVE  DataInv'
  <2>1. items \in Seq(Item)
    BY Sizes
  <2> QED BY <1>2, <2>1, ParseKeeps
<1> QED BY <1>1, <1>2, StartReadKeeps, FailKeeps, AbortKeeps, DeliverKeeps, SetKeeps, SetStringKeeps,
           SetDataTypeKeeps, StartWriteKeeps DEF Next

LEMMA DataAlways == Spec => []DataInv
  BY DataInit, DataNext, PTL DEF Spec

(* The object and the locals keep their types: in particular dataLen_ never *)
(* exceeds the buffer, whatever the length of the reply Tag::poll() copies. *)
THEOREM TypeCorrect == Spec => []TypeOK
<1>1. DataInv => TypeOK
  BY DEF DataInv, Tags, Found, TypeOK
<1> QED BY <1>1, DataAlways, PTL

LEMMA StringLength ==
  ASSUME tag \in Tags, NEW bufLen \in 1 .. kMaxDataSize
  PROVE  /\ getString(bufLen) \in Nat /\ getString(bufLen) < bufLen
         /\ 4 + getString(bufLen) <= kMaxDataSize
         /\ getString(bufLen) > 0 => 4 + getString(bufLen) <= tag.len
  BY Sizes, TagFields DEF getString

(* No access leaves its buffer: parseResponse() on any number of items     *)
(* with any claimed lengths, the copy of Tag::poll(), the typed accessors  *)
(* at any offset, setString() and getString().                             *)
THEOREM InBoundsHolds == Spec => []InBounds
<1>1. DataInv => InBounds
  <2> SUFFICES ASSUME DataInv PROVE InBounds
    OBVIOUS
  <2>1. ASSUME NEW off \in Offsets, NEW size \in ElementSizes
        PROVE  get(off, size) \subseteq Bytes
    <3>1. off \in Nat /\ size \in Nat
      BY Sizes DEF ElementSizes
    <3> QED BY <3>1, Sizes DEF get, inBounds, Bytes
  <2>2. ASSUME NEW bufLen \in 1 .. kMaxDataSize
        PROVE  getString(bufLen) < bufLen /\ 4 + getString(bufLen) <= kMaxDataSize
    BY StringLength DEF DataInv
  <2> QED BY <2>1, <2>2 DEF DataInv, Found, InBounds
<1> QED BY <1>1, DataAlways, PTL

(* The bytes below dataLength() are never those of an earlier read:        *)
(* startRead() resets dataLen_ and poll() sets it to what it has copied.   *)
THEOREM DataIsCurrentHolds == Spec => []DataIsCurrent
<1>1. DataInv => DataIsCurrent
  BY DEF DataInv
<1> QED BY <1>1, DataAlways, PTL

(* A string from getString() has no character of an earlier read: the      *)
(* claimed length is cut to dataLen_, and the bytes below it are new.      *)
THEOREM StringIsCurrentHolds == Spec => []StringIsCurrent
<1>1. DataInv => StringIsCurrent
  <2> SUFFICES ASSUME DataInv, NEW b \in 4 .. 3 + getString(kMaxDataSize)
               PROVE  tag.buf[b] # "old"
    BY DEF StringIsCurrent
  <2>0. tag \in Tags /\ DataIsCurrent
    BY DEF DataInv
  <2>1. kMaxDataSize \in 1 .. kMaxDataSize
    BY Sizes
  <2>2. getString(kMaxDataSize) \in Nat
        /\ (getString(kMaxDataSize) > 0 => 4 + getString(kMaxDataSize) <= tag.len)
    BY <2>0, <2>1, StringLength
  <2>3. tag.len \in Nat /\ tag.len <= kMaxDataSize
    BY <2>0, TagFields
  <2>4. b \in Bytes /\ b < tag.len
    BY <2>2, <2>3, Sizes DEF Bytes
  <2> QED BY <2>0, <2>4 DEF DataIsCurrent
<1> QED BY <1>1, DataAlways, PTL

(* A write request of any type but STRING says the number of elements it   *)
(* carries, for every count the application passes; one of a STRING        *)
(* carries what its length prefix says.  Path and data fit the message.    *)
THEOREM RequestIsConsistentHolds == Spec => []RequestIsConsistent
<1>1. DataInv => RequestIsConsistent
  BY DEF DataInv
<1> QED BY <1>1, DataAlways, PTL

=============================================================================
