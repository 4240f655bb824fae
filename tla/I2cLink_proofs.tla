--------------------------- MODULE I2cLink_proofs ---------------------------
(* The firmware acts on the host's key events only, in their order, on the  *)
(* last of each batch and on whole messages, however many events there are, *)
(* in batches of any size, and with any number of faults.                   *)
EXTENDS I2cLink, SequenceTheorems, FiniteSetTheorems, WellFoundedInduction, TLAPS

(* A message is on its way: built, and not yet acted on.                    *)
InHand == host = "write" /\ (message # <<>> \/ transfer)

(* What register r holds once that message is written to its end.           *)
Due(r) == IF r < 6 - Len(message) THEN mem[r] ELSE message[r - 5 + Len(message)]

(* The two ends of the bus agree on how far a message has come.             *)
Shape ==
    /\ host # "write" => message = <<>>
    /\ ~transfer => ~mem_address_written
    /\ host # "write" /\ mem_address_written => garbage_message
    /\ faults = 0 /\ host # "write" => ~transfer
    /\ host = "write" =>
         \/ message = <<>> /\ ~transfer
         \/ Len(message) = 7 /\ ~transfer /\ message[1] = 0
         \/ /\ Len(message) \in 0 .. 6 /\ transfer /\ mem_address_written /\ ~garbage_message
            /\ mem_address = IF Len(message) = 0 THEN 0 ELSE 6 - Len(message)

(* Events are numbered in the order they are read.                          *)
Numbered ==
    /\ \A i \in DOMAIN queue : queue[i].n \in 1 .. events /\ \A m \in read : m < queue[i].n
    /\ \A i, j \in DOMAIN queue : i < j => queue[i].n < queue[j].n
    /\ read \subseteq 1 .. events

(* The key in the registers, and the key on its way, were read by the host  *)
(* and are no older than any key acted on; until a fault the key on its way *)
(* is newer than all of them and fills every field of its message.          *)
NotOlder(n) == n \in read /\ \A i \in DOMAIN handled : handled[i] <= n
InOrder ==
    /\ mem[1] # 0 => NotOlder(mem[1])
    /\ InHand /\ Due(1) # 0 =>
         /\ NotOlder(Due(1))
         /\ faults = 0 => /\ \A i \in DOMAIN handled : handled[i] # Due(1)
                          /\ \A i \in 2 .. 5 : Due(i) = Due(1)

(* Until a fault the newest key read has been acted on or is on its way.    *)
Newest(n) == n \in read /\ \A m \in read : m <= n
Covered == read = {} \/ (handled # <<>> /\ Newest(handled[Len(handled)]))
NewestOnItsWay == faults = 0 => Covered \/ (InHand /\ Due(1) # 0 /\ Newest(Due(1)))

LinkInv == TypeOK /\ Shape /\ Numbered /\ InOrder /\ KeysInOrder /\ NewestOnItsWay

USE LinkAssumption DEF Numbers, ForeignValue

(* Nothing on its way at the start.                                         *)
LEMMA InitInv == Init => LinkInv
<1> SUFFICES ASSUME Init PROVE LinkInv
  OBVIOUS
<1> USE DEF Init
<1>1. TypeOK
  <2>1. queue \in Seq([key : Keys, value : 0 .. 2, n : 1 .. MaxEvents]) /\ message \in Seq(Numbers)
        /\ handled \in Seq(1 .. MaxEvents)
    BY EmptySeq
  <2>2. mem \in [0 .. 5 -> Numbers] /\ mem_address \in 0 .. 5 /\ events \in 0 .. MaxEvents
        /\ faults \in 0 .. MaxFaults /\ down \subseteq Keys /\ read \subseteq 1 .. MaxEvents
    OBVIOUS
  <2> QED BY <2>1, <2>2 DEF TypeOK
<1>2. Shape /\ Numbered
  BY DEF Shape, Numbered
<1>3. InOrder /\ NewestOnItsWay
  BY DEF InOrder, NewestOnItsWay, InHand, Covered
<1>4. KeysInOrder
  BY DEF KeysInOrder, Range
<1> QED BY <1>1, <1>2, <1>3, <1>4 DEF LinkInv

(* A step of the user: only the queue grows.                                *)
LEMMA KeyInv == ASSUME LinkInv, NEW k \in Keys, NEW value \in 0 .. 2, Key(k, value)
                PROVE  LinkInv'
<1>1. /\ queue \in Seq([key : Keys, value : 0 .. 2, n : 1 .. MaxEvents])
      /\ events \in 0 .. MaxEvents /\ down \subseteq Keys /\ read \subseteq 1 .. events
  BY DEF LinkInv, TypeOK, Numbered
<1>2. /\ events' = events + 1 /\ events' \in 1 .. MaxEvents
      /\ queue' = Append(queue, [key |-> k, value |-> value, n |-> events'])
      /\ UNCHANGED <<hostv, slave, faults>>
  BY <1>1 DEF Key
<1>3. down' \subseteq Keys
  <2>1. down' \in {down \cup {k}, down \ {k}, down}
    <3>1. CASE value = 0  BY <3>1 DEF Key
    <3>2. CASE value = 1  BY <3>2 DEF Key
    <3>3. CASE value = 2  BY <3>3 DEF Key
    <3> QED BY <3>1, <3>2, <3>3
  <2> QED BY <1>1, <2>1
<1>4. TypeOK'
  <2>1. queue' \in Seq([key : Keys, value : 0 .. 2, n : 1 .. MaxEvents])
    <3>1. [key |-> k, value |-> value, n |-> events'] \in [key : Keys, value : 0 .. 2, n : 1 .. MaxEvents]
      BY <1>2
    <3>2. ASSUME NEW S, NEW e \in S, queue \in Seq(S) PROVE Append(queue, e) \in Seq(S)
      BY <3>2, AppendProperties
    <3> QED BY <1>1, <1>2, <3>1, <3>2
  <2> QED BY <1>2, <1>3, <2>1, SMTT(30) DEF LinkInv, TypeOK, hostv, slave
<1>5. Numbered'
  <2>1. Len(queue') = Len(queue) + 1 /\ \A i \in DOMAIN queue : queue'[i] = queue[i]
    BY <1>1, <1>2
  <2>2. queue'[Len(queue')].n = events + 1
    BY <1>1, <1>2
  <2>3. DOMAIN queue' = 1 .. Len(queue) + 1 /\ DOMAIN queue = 1 .. Len(queue)
    BY <1>1, <1>2
  <2>4. read' = read /\ events \in Nat
    BY <1>1, <1>2 DEF hostv
  <2>5. /\ \A i \in DOMAIN queue : queue[i].n \in 1 .. events /\ \A m \in read : m < queue[i].n
        /\ \A i, j \in DOMAIN queue : i < j => queue[i].n < queue[j].n
    BY DEF LinkInv, Numbered
  <2>6. \A i \in DOMAIN queue' : i \in DOMAIN queue \/ i = Len(queue')
    BY <1>1, <2>1, <2>3
  <2>7. \A i \in DOMAIN queue' : queue'[i].n \in 1 .. events' /\ \A m \in read' : m < queue'[i].n
    <3> SUFFICES ASSUME NEW i \in DOMAIN queue'
                 PROVE  queue'[i].n \in 1 .. events' /\ \A m \in read' : m < queue'[i].n
      OBVIOUS
    <3>1. CASE i \in DOMAIN queue
      <4>1. queue'[i].n \in 1 .. events /\ \A m \in read : m < queue'[i].n
        BY <2>1, <2>5, <3>1
      <4> QED BY <1>2, <2>4, <4>1
    <3>2. CASE i = Len(queue')
      <4>1. \A m \in read : m < events + 1
        BY <1>1, <2>4
      <4> QED BY <1>2, <2>2, <2>4, <3>2, <4>1
    <3> QED BY <2>6, <3>1, <3>2
  <2>8. ASSUME NEW i \in DOMAIN queue', NEW j \in DOMAIN queue', i < j
        PROVE  queue'[i].n < queue'[j].n
    <3>1. i \in DOMAIN queue
      BY <1>1, <2>1, <2>3, <2>8
    <3>2. CASE j \in DOMAIN queue
      BY <2>1, <2>5, <2>8, <3>1, <3>2
    <3>3. CASE j = Len(queue')
      <4>1. queue'[i].n \in 1 .. events
        BY <2>1, <2>5, <3>1
      <4> QED BY <2>2, <2>4, <3>3, <4>1
    <3> QED BY <2>6, <3>2, <3>3
  <2>9. read' \subseteq 1 .. events'
    BY <1>1, <1>2, <2>4
  <2> QED BY <2>7, <2>8, <2>9 DEF Numbered
<1>6. (Shape /\ InOrder /\ KeysInOrder /\ NewestOnItsWay)'
  BY <1>2 DEF LinkInv, Shape, InOrder, NotOlder, KeysInOrder, NewestOnItsWay, Covered, Newest,
              InHand, Due, hostv, slave
<1> QED BY <1>4, <1>5, <1>6 DEF LinkInv
(* The library states well-foundedness of the subset order only; the        *)
(* greatest number is the one with the smallest interval above it.          *)
LEMMA LastOf == ASSUME NEW n \in Nat, NEW T \in SUBSET (1 .. n), T # {}
           PROVE  \E x \in T : \A y \in T : y <= x
<1> DEFINE U == {x .. n : x \in T}
           R == StrictSubsetOrdering(1 .. n)
           F == FiniteSubsetsOf(1 .. n)
<1>1. U \subseteq F /\ U # {}
  <2>1. IsFiniteSet(1 .. n) /\ F = SUBSET (1 .. n)
    BY FS_Interval, FS_FiniteSubsetsOfFinite
  <2>2. ASSUME NEW x \in T PROVE x .. n \in SUBSET (1 .. n)
    OBVIOUS
  <2> HIDE DEF F
  <2> QED BY <2>1, <2>2, Zenon
<1>2. PICK S \in U : \A V \in U : ~ (<<V, S>> \in R)
  <2>1. IsWellFoundedOn(R, F)
    BY FS_StrictSubsetOrderingWellFounded
  <2> HIDE DEF R, F, U
  <2> QED BY <1>1, <2>1, WFMin
<1>3. PICK x \in T : S = x .. n
  BY <1>2
<1>4. ASSUME NEW y \in T, ~ (y <= x) PROVE FALSE
  <2> DEFINE V == y .. n
  <2>1. V \in U /\ V \subseteq S /\ x \in S /\ x \notin V
    BY <1>3, <1>4
  <2>2. V \in SUBSET (1 .. n) /\ S \in SUBSET (1 .. n) /\ V # S
    BY <2>1, <1>3
  <2>3. <<V, S>> \in R
    <3> HIDE DEF V
    <3> QED BY <2>1, <2>2 DEF StrictSubsetOrdering
  <2> QED BY <2>1, <2>3, <1>2
<1> QED BY <1>4

(* The key that a batch is sent with is the newest event of the batch.      *)
LEMMA KeySentNewest == ASSUME LinkInv, Sends # {}
                       PROVE  /\ KeySent \in {queue[i].n : i \in Sends}
                              /\ \A i \in Sends : queue[i].n <= KeySent
<1>1. queue \in Seq([key : Keys, value : 0 .. 2, n : 1 .. MaxEvents]) /\ Len(queue) \in Nat
  BY DEF LinkInv, TypeOK
<1>2. Sends \in SUBSET (1 .. Len(queue))
  BY <1>1 DEF Sends
<1>3. \E i \in Sends : \A j \in Sends : j <= i
  BY <1>1, <1>2, LastOf
<1>4. PICK i \in Sends : (\A j \in Sends : j <= i) /\ KeySent = queue[i].n
  BY <1>3 DEF KeySent
<1>5. ASSUME NEW j \in Sends PROVE queue[j].n <= queue[i].n
  <2>1. i \in DOMAIN queue /\ j \in DOMAIN queue /\ (j < i \/ j = i)
    BY <1>1, <1>2, <1>4
  <2>2. queue[i].n \in 1 .. events /\ queue[j].n \in 1 .. events /\ events \in Nat
    BY <2>1 DEF LinkInv, Numbered, TypeOK
  <2> QED BY <2>1, <2>2 DEF LinkInv, Numbered
<1> QED BY <1>4, <1>5

(* The script starts: a message without a key.                              *)
LEMMA HostStartInv == ASSUME LinkInv, HostStart PROVE LinkInv'
<1> USE DEF HostStart
<1>1. /\ message' \in Seq(Numbers) /\ Len(message') = 7
      /\ \A i \in 1 .. 7 : message'[i] = 0
  OBVIOUS
<1>2. TypeOK'
  <2>1. queue' \in Seq([key : Keys, value : 0 .. 2, n : 1 .. MaxEvents])
    BY EmptySeq
  <2> QED BY <1>1, <2>1 DEF LinkInv, TypeOK, slave
<1>3. Shape' /\ Numbered'
  BY <1>1 DEF LinkInv, Shape, Numbered, slave
<1>4. Due(1)' = 0
  BY <1>1 DEF Due
<1>5. InOrder' /\ KeysInOrder'
  BY <1>4 DEF LinkInv, InOrder, NotOlder, KeysInOrder, slave
<1>6. NewestOnItsWay'
  BY DEF LinkInv, NewestOnItsWay, InHand, Covered, Newest, slave
<1> QED BY <1>2, <1>3, <1>5, <1>6 DEF LinkInv

(* A batch of keys: its newest key is newer than all read before.           *)
LEMMA HostReadInv == ASSUME LinkInv, HostRead PROVE LinkInv'
<1> DEFINE batch == {queue[i].n : i \in Sends}
<1>1. /\ queue \in Seq([key : Keys, value : 0 .. 2, n : 1 .. MaxEvents])
      /\ Sends \subseteq DOMAIN queue /\ events \in 0 .. MaxEvents /\ ~transfer
      /\ read \subseteq 1 .. events /\ handled \in Seq(1 .. MaxEvents) /\ host = "select"
  BY DEF LinkInv, TypeOK, Numbered, HostRead, Sends
<1>2. batch \subseteq 1 .. events /\ \A n \in batch, m \in read : m < n
  BY <1>1 DEF LinkInv, Numbered
<1>3. /\ queue' = <<>> /\ read' = read \cup batch /\ host' = "write"
      /\ UNCHANGED <<down, events, captured, cooldown, slave, faults>>
      /\ message' = IF Sends = {} THEN <<>> ELSE [i \in 1 .. 7 |-> IF i = 1 THEN 0 ELSE KeySent]
  BY DEF HostRead
<1>4. Sends # {} => KeySent \in batch /\ \A n \in batch : n <= KeySent
  BY KeySentNewest
<1>5. Sends = {} => batch = {}
  OBVIOUS
<1> HIDE DEF batch
<1>6. Sends # {} => /\ message' \in Seq(Numbers) /\ Len(message') = 7 /\ message'[1] = 0
                    /\ \A i \in 2 .. 7 : message'[i] = KeySent
  <2> SUFFICES ASSUME Sends # {}
               PROVE  /\ message' \in Seq(Numbers) /\ Len(message') = 7 /\ message'[1] = 0
                      /\ \A i \in 2 .. 7 : message'[i] = KeySent
    OBVIOUS
  <2>1. KeySent \in Numbers
    <3>1. KeySent \in 1 .. events /\ events \in 0 .. MaxEvents
      BY <1>1, <1>2, <1>4
    <3> QED BY <3>1
  <2>2. 0 \in Numbers
    OBVIOUS
  <2>3. message' = [i \in 1 .. 7 |-> IF i = 1 THEN 0 ELSE KeySent]
    BY <1>3
  <2> HIDE DEF Numbers
  <2> QED BY ONLY <2>1, <2>2, <2>3
<1>7. TypeOK'
  <2>1. message' \in Seq(Numbers)
    <3> HIDE DEF Numbers
    <3> QED BY <1>3, <1>6, EmptySeq
  <2>2. queue' \in Seq([key : Keys, value : 0 .. 2, n : 1 .. MaxEvents])
    BY <1>3, EmptySeq
  <2>3. read' \subseteq 1 .. MaxEvents
    BY <1>1, <1>2, <1>3
  <2> QED BY <1>3, <2>1, <2>2, <2>3 DEF LinkInv, TypeOK, slave
<1>8. Shape'
  BY <1>1, <1>3, <1>6 DEF LinkInv, Shape, slave
<1>9. Numbered'
  BY <1>1, <1>2, <1>3 DEF Numbered
<1>10. Sends # {} => \A i \in 1 .. 5 : Due(i)' = KeySent
  BY <1>3, <1>6 DEF Due
<1>11. Sends = {} => message' = <<>> /\ ~InHand'
  BY <1>1, <1>3 DEF InHand, slave
<1>12. \A i \in DOMAIN handled : handled[i] \in read
  BY <1>1 DEF LinkInv, KeysInOrder, Range
<1>13. KeysInOrder'
  BY <1>3 DEF LinkInv, KeysInOrder, slave
<1>14. InOrder'
  <2>1. mem'[1] # 0 => NotOlder(mem[1])'
    BY <1>3 DEF LinkInv, InOrder, NotOlder, slave
  <2>2. CASE Sends = {}
    BY <2>1, <2>2, <1>11 DEF InOrder
  <2>3. CASE Sends # {}
    <3>1. KeySent \in read' /\ \A i \in DOMAIN handled : handled[i] < KeySent
      BY <2>3, <1>2, <1>3, <1>4, <1>12
    <3>2. KeySent \in Int
      <4>1. events \in Nat
        BY <1>1
      <4>2. KeySent \in 1 .. events
        BY <2>3, <1>2, <1>4
      <4> QED BY <4>1, <4>2
    <3>3. \A i \in DOMAIN handled : handled[i] \in Int
      BY <1>1
    <3>4. NotOlder(Due(1))' /\ \A i \in DOMAIN handled' : handled'[i] # Due(1)'
      BY <2>3, <3>1, <3>2, <3>3, <1>3, <1>10 DEF NotOlder, slave
    <3> QED BY <2>1, <2>3, <3>4, <1>10 DEF InOrder
  <2> QED BY <2>2, <2>3
<1>15. NewestOnItsWay'
  <2>1. CASE Sends = {}
    <3>1. read' = read /\ (faults = 0 => Covered)
      BY <2>1, <1>1, <1>3, <1>5 DEF LinkInv, NewestOnItsWay, InHand
    <3> QED BY <3>1, <1>3 DEF NewestOnItsWay, Covered, Newest, slave
  <2>2. CASE Sends # {}
    <3>1. KeySent \in 1 .. events /\ events \in Nat
      <4>1. events \in Nat
        BY <1>1
      <4>2. KeySent \in 1 .. events
        BY <2>2, <1>2, <1>4
      <4> QED BY <4>1, <4>2
    <3>2. Due(1)' = KeySent /\ KeySent # 0 /\ message' # <<>>
      BY <2>2, <3>1, <1>6, <1>10
    <3>3. KeySent \in read' /\ \A n \in read' : n <= KeySent
      BY <2>2, <3>1, <1>1, <1>2, <1>3, <1>4, SMTT(30)
    <3> QED BY <3>2, <3>3, <1>3 DEF NewestOnItsWay, Newest, InHand
  <2> QED BY <2>1, <2>2
<1> QED BY <1>7, <1>8, <1>9, <1>13, <1>14, <1>15 DEF LinkInv

(* Motion: a message without a key.                                         *)
LEMMA HostReadMotionInv == ASSUME LinkInv, HostReadMotion PROVE LinkInv'
<1>1. /\ queue \in Seq([key : Keys, value : 0 .. 2, n : 1 .. MaxEvents])
      /\ events \in 0 .. MaxEvents /\ ~transfer /\ host = "select"
      /\ events < MaxEvents /\ events' = events + 1 /\ host' = "write"
      /\ UNCHANGED <<down, queue, capture_combo, captured, cooldown, read, slave, faults>>
  BY DEF LinkInv, TypeOK, HostReadMotion
<1>2. message' \in Seq(Numbers) /\ Len(message') = 7 /\ message'[1] = 0 /\ message'[3] = 0
  <2>1. events' \in Numbers /\ 0 \in Numbers
    BY <1>1
  <2> HIDE DEF Numbers
  <2> QED BY <2>1 DEF HostReadMotion
<1>3. TypeOK'
  BY <1>1, <1>2 DEF LinkInv, TypeOK, slave
<1>4. Shape' /\ Numbered'
  BY <1>1, <1>2, SMTT(30) DEF LinkInv, Shape, Numbered, slave
<1>5. Due(1)' = 0
  BY <1>2 DEF Due
<1>6. InOrder' /\ KeysInOrder'
  BY <1>1, <1>5 DEF LinkInv, InOrder, NotOlder, KeysInOrder, slave
<1>7. NewestOnItsWay'
  BY <1>1 DEF LinkInv, NewestOnItsWay, InHand, Covered, Newest, slave
<1> QED BY <1>3, <1>4, <1>6, <1>7 DEF LinkInv

(* A byte of the message: what is due stays the same.                       *)
LEMMA WriteByteInv == ASSUME LinkInv, WriteByte PROVE LinkInv'
<1> DEFINE n == Len(message)
<1>1. /\ message \in Seq(Numbers) /\ message # <<>> /\ n \in 1 .. 7 /\ host = "write"
      /\ mem \in [0 .. 5 -> Numbers] /\ mem_address \in 0 .. 5
      /\ ~mem_address_written => n = 7 /\ ~transfer /\ message[1] = 0
      /\ mem_address_written => /\ n \in 1 .. 6 /\ transfer /\ ~garbage_message
                                /\ mem_address = 6 - n
  <2>1. message \in Seq(Numbers) /\ message # <<>> /\ host = "write"
    BY DEF LinkInv, TypeOK, WriteByte
  <2>2. n \in Nat /\ n # 0
    BY <2>1
  <2> QED BY <2>1, <2>2, SMTT(30) DEF LinkInv, TypeOK, Shape
<1>2. /\ message' = Tail(message) /\ transfer' /\ mem_address_written'
      /\ UNCHANGED <<user, host, capture_combo, captured, cooldown, read, faults, handled>>
  BY DEF WriteByte, Receive
<1>3. /\ message' \in Seq(Numbers) /\ Len(message') = n - 1
      /\ \A i \in 1 .. n - 1 : message'[i] = message[i + 1]
      /\ Head(message) = message[1] /\ message[1] \in Numbers
  BY <1>1, <1>2, SMTT(30)
<1>4. /\ mem' \in [0 .. 5 -> Numbers] /\ ~garbage_message'
      /\ mem_address' = IF n - 1 = 0 THEN 0 ELSE 6 - (n - 1)
      /\ \A r \in 1 .. 5 : Due(r)' = Due(r)
      /\ mem'[1] \in {mem[1], Due(1)}
  <2>1. CASE ~mem_address_written
    <3>1. mem_address' = 0 /\ ~garbage_message' /\ mem' = mem /\ n = 7
      BY <1>1, <1>3, <2>1 DEF WriteByte, Receive
    <3>2. \A r \in 1 .. 5 : Due(r)' = Due(r)
      BY <1>3, <3>1 DEF Due
    <3> QED BY <1>1, <3>1, <3>2
  <2>2. CASE mem_address_written
    <3>1. ~garbage_message' /\ mem' = [mem EXCEPT ![6 - n] = message[1]] /\ n \in 1 .. 6
      BY <1>1, <1>3, <2>2 DEF WriteByte, Receive
    <3>2. mem_address' = IF n - 1 = 0 THEN 0 ELSE 6 - (n - 1)
      <4>1. mem_address' = (6 - n + 1) % 6
        BY <1>1, <1>3, <2>2 DEF WriteByte, Receive
      <4> HIDE DEF n
      <4>2. n = 1 => (6 - n + 1) % 6 = 0
        OBVIOUS
      <4>3. n \in 2 .. 6 => (6 - n + 1) % 6 = 6 - (n - 1)
        OBVIOUS
      <4> QED BY <4>1, <4>2, <4>3, <3>1
    <3>3. ASSUME NEW r \in 1 .. 5 PROVE Due(r)' = Due(r)
      <4>1. CASE r < 6 - n
        <5>1. mem'[r] = mem[r] /\ r < 6 - (n - 1)
          <6> HIDE DEF n
          <6>1. r < 6 - (n - 1) /\ r # 6 - n /\ r \in 0 .. 5
            BY <4>1, <3>1
          <6> QED BY <6>1, <3>1, <1>1
        <5> QED BY <4>1, <5>1, <3>1, <1>3 DEF Due
      <4>2. CASE r = 6 - n
        <5>1. mem'[r] = message[1] /\ r < 6 - (n - 1) /\ r - 5 + n = 1
          <6> HIDE DEF n
          <6>1. r < 6 - (n - 1) /\ r - 5 + n = 1 /\ 6 - n = r /\ r \in 0 .. 5
            BY <4>2, <3>1
          <6> QED BY <6>1, <3>1, <1>1
        <5> QED BY <4>2, <5>1, <3>1, <1>3 DEF Due
      <4>3. CASE r > 6 - n
        <5>1. message'[r - 5 + (n - 1)] = message[r - 5 + n] /\ ~(r < 6 - (n - 1)) /\ ~(r < 6 - n)
          <6> HIDE DEF n
          <6>1. r - 5 + (n - 1) \in 1 .. n - 1 /\ r - 5 + (n - 1) + 1 = r - 5 + n
            BY <4>3, <3>1
          <6>2. ~(r < 6 - (n - 1)) /\ ~(r < 6 - n)
            BY <4>3, <3>1
          <6> QED BY <6>1, <6>2, <1>3
        <5> QED BY <5>1, <1>3 DEF Due
      <4> QED BY <4>1, <4>2, <4>3, <3>1
    <3>4. mem'[1] \in {mem[1], Due(1)}
      <4>1. CASE n = 5
        <5>1. mem'[1] = message[1] /\ Due(1) = message[1]
          BY <4>1, <3>1, <1>1 DEF Due
        <5> QED BY <5>1
      <4>2. CASE n # 5
        <5>1. mem'[1] = mem[1]
          <6> HIDE DEF n
          <6>1. 1 # 6 - n /\ 1 \in 0 .. 5
            BY <4>2, <3>1
          <6> QED BY <6>1, <3>1, <1>1
        <5> QED BY <5>1
      <4> QED BY <4>1, <4>2
    <3>5. mem' \in [0 .. 5 -> Numbers]
      <4>1. 6 - n \in 0 .. 5
        <5>1. n \in 1 .. 6
          BY <3>1
        <5> HIDE DEF n
        <5> QED BY <5>1
      <4> HIDE DEF Numbers
      <4> QED BY <4>1, <3>1, <1>1, <1>3
    <3> QED BY <3>1, <3>2, <3>3, <3>4, <3>5
  <2> QED BY <2>1, <2>2
<1>5. InHand /\ InHand'
  BY <1>1, <1>2 DEF InHand
<1>6. TypeOK'
  <2>1. mem_address' \in 0 .. 5 /\ garbage_message' \in BOOLEAN /\ transfer' \in BOOLEAN
        /\ mem_address_written' \in BOOLEAN
    <3>1. n \in 1 .. 7
      BY <1>1
    <3>2. mem_address' \in 0 .. 5
      <4> HIDE DEF n
      <4> QED BY <3>1, <1>4
    <3>3. garbage_message' \in BOOLEAN /\ transfer' \in BOOLEAN /\ mem_address_written' \in BOOLEAN
      BY <1>2, <1>4 DEF Receive, WriteByte, LinkInv, TypeOK
    <3> QED BY <3>2, <3>3
  <2> QED BY <1>2, <1>3, <1>4, <2>1 DEF LinkInv, TypeOK, user
<1>7. Shape'
  <2>1. n \in 1 .. 7 /\ host' = "write" /\ Len(message') = n - 1
    BY <1>1, <1>2, <1>3
  <2>2. mem_address' = IF Len(message') = 0 THEN 0 ELSE 6 - Len(message')
    BY <2>1, <1>4
  <2>3. Len(message') \in 0 .. 6
    <3> HIDE DEF n
    <3> QED BY <2>1
  <2> QED BY <2>1, <2>2, <2>3, <1>2, <1>4 DEF Shape
<1>8. Numbered' /\ KeysInOrder'
  BY <1>2 DEF LinkInv, Numbered, KeysInOrder, user
<1>9. InOrder'
  <2>1. Due(1)' = Due(1) /\ (faults = 0 => \A i \in 2 .. 5 : Due(i)' = Due(i))
    BY <1>4
  <2>2. \A m : NotOlder(m) => m \in read' /\ \A i \in DOMAIN handled' : handled'[i] <= m
    BY <1>2 DEF NotOlder
  <2>3. mem'[1] # 0 => NotOlder(mem'[1])
    BY <1>4, <1>5 DEF LinkInv, InOrder
  <2> QED BY <2>1, <2>2, <2>3, <1>2, <1>4, <1>5 DEF LinkInv, InOrder, NotOlder
<1>10. NewestOnItsWay'
  BY <1>2, <1>4, <1>5 DEF LinkInv, NewestOnItsWay, Covered, Newest
<1> QED BY <1>6, <1>7, <1>8, <1>9, <1>10 DEF LinkInv

(* A stop condition: the key acted on was read and is not older than those  *)
(* before it, so that it may come last; without faults it is a new one.     *)
LEMMA FinishOrder == ASSUME LinkInv, Finish, read' = read, faults' \in {faults, faults + 1},
                            faults' = 0 /\ mem[1] # 0 => \A i \in DOMAIN handled : handled[i] # mem[1]
                     PROVE  /\ handled' \in Seq(1 .. MaxEvents)
                            /\ KeysInOrder'
                            /\ mem'[1] # 0 => NotOlder(mem[1])'
<1>1. /\ handled \in Seq(1 .. MaxEvents) /\ faults \in Nat /\ read \subseteq 1 .. MaxEvents
      /\ mem[1] # 0 => NotOlder(mem[1]) /\ mem[1] \in 1 .. MaxEvents
  <2>1. handled \in Seq(1 .. MaxEvents) /\ read \subseteq 1 .. MaxEvents
    BY DEF LinkInv, TypeOK
  <2>2. faults \in Nat
    BY DEF LinkInv, TypeOK
  <2>3. mem[1] # 0 => NotOlder(mem[1]) /\ mem[1] \in read
    BY DEF LinkInv, InOrder, NotOlder
  <2> QED BY <2>1, <2>2, <2>3
<1>2. faults' = 0 => faults = 0
  BY <1>1
<1>3. CASE handled' = handled
  <2>1. KeysInOrder'
    BY <1>2, <1>3 DEF LinkInv, KeysInOrder
  <2> QED BY <1>1, <1>3, <2>1 DEF Finish, NotOlder
<1>4. CASE handled' # handled
  <2>1. mem[1] # 0 /\ handled' = Append(handled, mem[1]) /\ mem' = mem
    BY <1>4 DEF Finish
  <2>2. /\ handled' \in Seq(1 .. MaxEvents) /\ Len(handled') = Len(handled) + 1
        /\ \A i \in DOMAIN handled : handled'[i] = handled[i]
        /\ handled'[Len(handled) + 1] = mem[1] /\ Len(handled) \in Nat
        /\ DOMAIN handled = 1 .. Len(handled) /\ DOMAIN handled' = 1 .. Len(handled) + 1
    BY <1>1, <2>1
  <2>3. \A i \in DOMAIN handled' : i \in DOMAIN handled \/ i = Len(handled) + 1
    BY <2>2
  <2>4. Range(handled') \subseteq read'
    BY <1>1, <2>1, <2>2, <2>3 DEF LinkInv, KeysInOrder, Range, NotOlder
  <2>5. ASSUME NEW i \in DOMAIN handled', NEW j \in DOMAIN handled', i < j
        PROVE  handled'[i] <= handled'[j] /\ (faults' = 0 => handled'[i] # handled'[j])
    <3>1. i \in DOMAIN handled
      BY <2>2, <2>5
    <3>2. CASE j \in DOMAIN handled
      BY <1>2, <2>2, <2>5, <3>1, <3>2 DEF LinkInv, KeysInOrder
    <3>3. CASE j = Len(handled) + 1
      BY <1>1, <2>1, <2>2, <3>1, <3>3 DEF NotOlder
    <3> QED BY <2>3, <3>2, <3>3
  <2>6. \A i \in DOMAIN handled' : handled'[i] <= mem[1]
    BY <1>1, <2>1, <2>2, <2>3 DEF NotOlder
  <2>7. KeysInOrder'
    BY <2>4, <2>5 DEF KeysInOrder
  <2> QED BY <1>1, <2>1, <2>2, <2>6, <2>7 DEF NotOlder
<1> QED BY <1>3, <1>4

(* The stop condition after the message, and the way back to select.        *)
LEMMA WriteStopInv == ASSUME LinkInv, WriteStop PROVE LinkInv'
<1>1. /\ message = <<>> /\ message' = <<>> /\ host' = "select" /\ host = "write"
      /\ UNCHANGED <<user, capture_combo, read, faults>>
      /\ captured \in BOOLEAN => captured' \in BOOLEAN
      /\ cooldown' \in BOOLEAN
  BY DEF WriteStop, Toggle
<1>2. ~InHand'
  BY <1>1 DEF InHand
<1>3. CASE transfer
  <2>1. /\ Finish /\ ~garbage_message /\ InHand
        /\ \A r \in 1 .. 5 : Due(r) = mem[r]
    BY <1>1, <1>3 DEF WriteStop, LinkInv, Shape, InHand, Due
  <2>2. faults \in Nat /\ faults' = faults
    BY <1>1 DEF LinkInv, TypeOK
  <2>3. handled' \in Seq(1 .. MaxEvents) /\ KeysInOrder' /\ (mem'[1] # 0 => NotOlder(mem[1])')
    <3>1. faults' = 0 /\ mem[1] # 0 => \A i \in DOMAIN handled : handled[i] # mem[1]
      BY <2>1, <2>2 DEF LinkInv, InOrder
    <3> QED BY <1>1, <2>1, <2>2, <3>1, FinishOrder
  <2>4. TypeOK'
    BY <1>1, <2>1, <2>3 DEF LinkInv, TypeOK, Finish, user
  <2>5. Shape' /\ Numbered'
    BY <1>1, <2>1 DEF LinkInv, Shape, Numbered, Finish, user
  <2>6. InOrder'
    BY <1>2, <2>3 DEF InOrder
  <2>7. NewestOnItsWay'
    <3>1. CASE mem[1] = 0
      BY <1>1, <2>1, <3>1 DEF LinkInv, NewestOnItsWay, Covered, Newest, Finish
    <3>2. CASE mem[1] # 0
      <4>1. handled' = Append(handled, mem[1]) /\ handled \in Seq(1 .. MaxEvents)
        BY <2>1, <3>2 DEF Finish, LinkInv, TypeOK
      <4>2. handled' # <<>> /\ handled'[Len(handled')] = mem[1]
        BY <4>1
      <4>3. faults = 0 => read = {} \/ Newest(mem[1])
        <5>1. CASE Covered
          <6>1. read # {} => NotOlder(mem[1]) /\ handled # <<>> /\ Newest(handled[Len(handled)])
            BY <5>1, <2>1, <3>2 DEF LinkInv, InOrder, Covered
          <6>2. handled # <<>> => Len(handled) \in DOMAIN handled
            BY <4>1
          <6>3. read \subseteq Int
            BY DEF LinkInv, TypeOK
          <6>4. read # {} => mem[1] \in Int /\ handled[Len(handled)] \in Int
            BY <6>1, <6>3 DEF NotOlder, Newest
          <6>5. read # {} => handled[Len(handled)] <= mem[1]
            BY <6>1, <6>2 DEF NotOlder
          <6> QED BY <6>1, <6>3, <6>4, <6>5 DEF Newest, NotOlder
        <5>2. CASE ~Covered
          BY <5>2, <2>1 DEF LinkInv, NewestOnItsWay
        <5> QED BY <5>1, <5>2
      <4> QED BY <1>1, <4>2, <4>3 DEF NewestOnItsWay, Covered, Newest
    <3> QED BY <3>1, <3>2
  <2> QED BY <2>3, <2>4, <2>5, <2>6, <2>7 DEF LinkInv
<1>4. CASE ~transfer
  <2>1. UNCHANGED slave /\ ~InHand
    BY <1>1, <1>4 DEF WriteStop, InHand
  <2>2. TypeOK'
    BY <1>1, <2>1 DEF LinkInv, TypeOK, slave, user
  <2>3. Shape' /\ Numbered'
    BY <1>1, <1>4, <2>1 DEF LinkInv, Shape, Numbered, slave, user
  <2>4. InOrder' /\ KeysInOrder' /\ NewestOnItsWay'
    BY <1>1, <1>2, <2>1 DEF LinkInv, InOrder, NotOlder, KeysInOrder, NewestOnItsWay, Covered, Newest, slave
  <2> QED BY <2>2, <2>3, <2>4 DEF LinkInv
<1> QED BY <1>3, <1>4

(* A write is cut short: the host exits, what was on its way is given up.   *)
LEMMA WriteAbortInv == ASSUME LinkInv, WriteAbort PROVE LinkInv'
<1>1. /\ faults < MaxFaults /\ faults' = faults + 1 /\ faults \in Nat
      /\ host' = "exited" /\ message' = <<>> /\ captured' = FALSE
      /\ UNCHANGED <<user, capture_combo, cooldown, read>>
  BY DEF LinkInv, TypeOK, WriteAbort, Fault
<1>2. faults' # 0 /\ faults' \in 0 .. MaxFaults /\ ~InHand'
      /\ host' = "exited" /\ message' = <<>> /\ captured' \in BOOLEAN
      /\ UNCHANGED <<user, capture_combo, cooldown, read>>
  <2>1. faults' # 0 /\ faults' \in 0 .. MaxFaults
    BY ONLY <1>1, LinkAssumption
  <2>2. ~InHand' /\ captured' \in BOOLEAN
    BY <1>1 DEF InHand
  <2> QED BY <1>1, <2>1, <2>2
<1>3. CASE transfer
  <2>1. Finish
    BY <1>3 DEF WriteAbort
  <2>2. handled' \in Seq(1 .. MaxEvents) /\ KeysInOrder' /\ (mem'[1] # 0 => NotOlder(mem[1])')
    BY <1>1, <1>2, <2>1, FinishOrder
  <2>3. TypeOK'
    <3>1. message' \in Seq(Numbers)
      BY <1>2, EmptySeq
    <3>2. /\ transfer' \in BOOLEAN /\ mem_address_written' \in BOOLEAN
          /\ UNCHANGED <<mem, mem_address, garbage_message>>
      BY <2>1 DEF Finish
    <3> QED BY <1>2, <2>2, <3>1, <3>2 DEF LinkInv, TypeOK, user
  <2>4. Shape' /\ Numbered'
    BY <1>1, <1>2, <2>1 DEF LinkInv, Shape, Numbered, Finish, user
  <2> QED BY <1>2, <2>2, <2>3, <2>4 DEF LinkInv, InOrder, NewestOnItsWay
<1>4. CASE ~transfer
  <2>1. UNCHANGED slave
    BY <1>4 DEF WriteAbort
  <2>2. TypeOK'
    BY <1>2, <2>1, SMTT(30) DEF LinkInv, TypeOK, slave, user
  <2>3. Shape' /\ Numbered'
    BY <1>1, <1>2, <1>4, <2>1 DEF LinkInv, Shape, Numbered, slave, user
  <2>4. InOrder' /\ KeysInOrder' /\ NewestOnItsWay'
    BY <1>1, <1>2, <2>1 DEF LinkInv, InOrder, NotOlder, KeysInOrder, NewestOnItsWay, slave
  <2> QED BY <2>2, <2>3, <2>4 DEF LinkInv
<1> QED BY <1>3, <1>4

(* Another process moves a byte: what it writes stays garbage.               *)
LEMMA ForeignByteInv == ASSUME LinkInv, ForeignByte PROVE LinkInv'
<1>1. /\ host # "write" /\ UNCHANGED <<user, hostv>>
      /\ faults \in Nat /\ faults' \in 1 .. MaxFaults /\ transfer'
      /\ UNCHANGED <<mem, handled>>
      /\ mem_address' \in 0 .. 5 /\ garbage_message' \in BOOLEAN /\ mem_address_written' \in BOOLEAN
      /\ mem_address_written' => garbage_message'
  <2>1. host # "write" /\ UNCHANGED <<user, hostv>> /\ faults \in 0 .. MaxFaults /\ mem_address \in 0 .. 5
        /\ garbage_message \in BOOLEAN /\ mem_address_written \in BOOLEAN
    BY DEF LinkInv, TypeOK, ForeignByte
  <2>2. CASE ~transfer /\ Fault /\ Receive(1)
    <3>1. ~mem_address_written /\ (1 # 0) = TRUE
      BY <2>2 DEF LinkInv, Shape
    <3>2. /\ mem_address' = 1 /\ garbage_message' /\ garbage_message' \in BOOLEAN
          /\ mem_address_written' = TRUE /\ transfer' = TRUE /\ UNCHANGED <<mem, handled>>
      BY <2>2, <3>1 DEF Receive
    <3>3. faults' \in 1 .. MaxFaults /\ faults \in Nat
      BY <2>1, <2>2 DEF Fault
    <3> QED BY <2>1, <3>2, <3>3
  <2>3. CASE ~transfer /\ Fault /\ Request
    <3>1. ~mem_address_written /\ (mem_address + 1) % 6 \in 0 .. 5
      BY <2>1, <2>3 DEF LinkInv, Shape
    <3>2. faults' \in 1 .. MaxFaults /\ faults \in Nat
      BY <2>1, <2>3 DEF Fault
    <3> QED BY <2>1, <2>3, <3>1, <3>2 DEF Request
  <2>4. CASE transfer /\ mem_address_written /\ Receive(ForeignValue) /\ UNCHANGED faults
    <3>1. garbage_message /\ faults # 0
      BY <2>1, <2>4 DEF LinkInv, Shape
    <3>2. /\ garbage_message' = garbage_message /\ mem_address_written' = TRUE
          /\ transfer' = TRUE /\ UNCHANGED <<mem, mem_address, handled>>
      BY <2>4, <3>1 DEF Receive
    <3>3. faults' \in 1 .. MaxFaults /\ faults \in Nat
      BY <2>1, <2>4, <3>1
    <3> QED BY <2>1, <3>1, <3>2, <3>3
  <2> QED BY <2>1, <2>2, <2>3, <2>4 DEF ForeignByte
<1>2. TypeOK'
  BY <1>1, SMTT(30) DEF LinkInv, TypeOK, user, hostv
<1>3. Shape' /\ Numbered'
  BY <1>1 DEF LinkInv, Shape, Numbered, user, hostv
<1>4. ~InHand' /\ faults' # 0
  BY <1>1 DEF InHand, hostv
<1>5. InOrder' /\ KeysInOrder' /\ NewestOnItsWay'
  <2>1. KeysInOrder'
    BY <1>1, <1>4 DEF LinkInv, KeysInOrder, hostv
  <2> QED BY <1>1, <1>4, <2>1 DEF LinkInv, InOrder, NotOlder, NewestOnItsWay, hostv
<1> QED BY <1>2, <1>3, <1>5 DEF LinkInv

(* It ends: the message before may be acted on once more.                   *)
LEMMA ForeignStopInv == ASSUME LinkInv, ForeignStop PROVE LinkInv'
<1>1. host # "write" /\ Finish /\ UNCHANGED <<user, hostv, faults>> /\ transfer
  BY DEF ForeignStop
<1>2. faults # 0 /\ faults' = faults /\ read' = read /\ faults \in Nat
  BY <1>1 DEF LinkInv, Shape, hostv, TypeOK
<1>3. handled' \in Seq(1 .. MaxEvents) /\ KeysInOrder' /\ (mem'[1] # 0 => NotOlder(mem[1])')
  BY <1>1, <1>2, FinishOrder
<1>4. TypeOK'
  BY <1>1, <1>3 DEF LinkInv, TypeOK, Finish, user, hostv
<1>5. Shape' /\ Numbered'
  BY <1>1, <1>2 DEF LinkInv, Shape, Numbered, Finish, user, hostv
<1>6. ~InHand' /\ faults' # 0
  BY <1>1, <1>2 DEF InHand, hostv
<1> QED BY <1>3, <1>4, <1>5, <1>6 DEF LinkInv, InOrder, NewestOnItsWay

(* A step of the system, or of nothing in it.                               *)
LEMMA StepInv == LinkInv /\ [Next]_vars => LinkInv'
<1> SUFFICES ASSUME LinkInv, [Next]_vars PROVE LinkInv'
  OBVIOUS
<1>1. ASSUME NEW k \in Keys, NEW value \in 0 .. 2, Key(k, value) PROVE LinkInv'
  BY <1>1, KeyInv
<1>2. CASE HostStart         BY <1>2, HostStartInv
<1>3. CASE HostRead          BY <1>3, HostReadInv
<1>4. CASE HostReadMotion    BY <1>4, HostReadMotionInv
<1>5. CASE WriteByte         BY <1>5, WriteByteInv
<1>6. CASE WriteStop         BY <1>6, WriteStopInv
<1>7. CASE WriteAbort        BY <1>7, WriteAbortInv
<1>8. CASE ForeignByte       BY <1>8, ForeignByteInv
<1>9. CASE ForeignStop       BY <1>9, ForeignStopInv
<1>10. CASE UNCHANGED vars
  <2>1. UNCHANGED <<user, hostv, slave, faults>>
    BY <1>10 DEF vars
  <2> QED BY <2>1 DEF LinkInv, TypeOK, Shape, Numbered, InOrder, NotOlder, KeysInOrder, NewestOnItsWay,
                      Covered, Newest, InHand, Due, user, hostv, slave
<1> QED BY <1>1, <1>2, <1>3, <1>4, <1>5, <1>6, <1>7, <1>8, <1>9, <1>10 DEF Next

(* The invariant that the results below are read off.                       *)
THEOREM LinkInvariant == Spec => []LinkInv
BY InitInv, StepInv, PTL DEF Spec

(* The variables of both ends of the bus keep their types.                  *)
THEOREM LinkTypeCorrect == Spec => []TypeOK
<1>1. LinkInv => TypeOK
  BY DEF LinkInv
<1> QED BY <1>1, LinkInvariant, PTL

(* Whatever faults occur: the host's keys only, never an older one after a  *)
(* newer one, and none twice before the first fault.                        *)
THEOREM KeysTheorem == Spec => []KeysInOrder
<1>1. LinkInv => KeysInOrder
  BY DEF LinkInv
<1> QED BY <1>1, LinkInvariant, PTL

(* Until a fault, back in select the host's newest key has been acted on.   *)
THEOREM NewestTheorem == Spec => []NewestKeyDelivered
<1>1. LinkInv => NewestKeyDelivered
  <2> SUFFICES ASSUME LinkInv, faults = 0, host = "select", read # {}
               PROVE  handled # <<>> /\ Last(handled) \in read /\ \A n \in read : n <= Last(handled)
    BY DEF NewestKeyDelivered
  <2>1. Covered
    BY DEF LinkInv, NewestOnItsWay, InHand
  <2> QED BY <2>1 DEF Covered, Newest, Last
<1> QED BY <1>1, LinkInvariant, PTL

(* Until a fault, the fields acted on together are of one message.          *)
THEOREM MessageTheorem == Spec => WholeMessage
<1>1. LinkInv /\ [Next]_vars => [faults' = 0 /\ handled' # handled => \A i \in 2 .. 5 : mem[i] = mem[1]]_vars
  <2> SUFFICES ASSUME LinkInv, Next, faults' = 0, handled' # handled
               PROVE  \A i \in 2 .. 5 : mem[i] = mem[1]
    BY DEF vars, slave
  <2>1. Finish /\ transfer /\ faults = 0 /\ message = <<>> /\ host = "write"
    <3>1. faults \in Nat
      BY DEF LinkInv, TypeOK
    <3>2. CASE WriteByte \/ ForeignByte
      BY <3>2 DEF WriteByte, ForeignByte, Receive, Request
    <3>3. CASE WriteStop
      BY <3>3 DEF WriteStop, slave
    <3>4. CASE WriteAbort
      BY <3>1, <3>4 DEF WriteAbort, Fault
    <3>5. CASE ForeignStop
      BY <3>5 DEF ForeignStop, LinkInv, Shape
    <3>6. CASE HostStart \/ HostRead \/ HostReadMotion
      BY <3>6 DEF HostStart, HostRead, HostReadMotion, slave
    <3>7. ASSUME NEW k \in Keys, NEW value \in 0 .. 2, Key(k, value) PROVE FALSE
      BY <3>7 DEF Key, slave
    <3> QED BY <3>2, <3>3, <3>4, <3>5, <3>6, <3>7 DEF Next
  <2>2. InHand /\ \A r \in 1 .. 5 : Due(r) = mem[r]
    BY <2>1 DEF InHand, Due
  <2>3. mem[1] # 0
    BY <2>1 DEF Finish
  <2> QED BY <2>1, <2>2, <2>3 DEF LinkInv, InOrder
<1> QED BY <1>1, LinkInvariant, PTL DEF Spec, WholeMessage
=============================================================================
