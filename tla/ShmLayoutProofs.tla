-------------------------- MODULE ShmLayoutProofs --------------------------
(***************************************************************************)
(* Facts about the counters, the records and the copies of ShmLayout, for  *)
(* every ring size and every wrap of the counters.  The proofs of both     *)
(* directions of the transport rest on them.                               *)
(***************************************************************************)
EXTENDS ShmLayout, SequenceTheorems, TLAPS

(* A record is longer than its frame's length word alone and fits in the   *)
(* ring.                                                                   *)
LEMMA RecordLenBounds ==
  ASSUME NEW len \in FrameLens
  PROVE  RecordLen(len) \in Nat /\ 0 < RecordLen(len) /\ RecordLen(len) <= Size
BY FrameAssumption, SizeAssumption DEF RecordLen, FrameLens

(* A record of any length takes at least the four bytes of its length.     *)
LEMMA RecordLenPositive ==
  ASSUME NEW len \in Nat
  PROVE  RecordLen(len) \in Nat /\ 0 < RecordLen(len)
BY DEF RecordLen

(* The record of a frame within the limit fits in the ring.                *)
LEMMA RecordLenMonotone ==
  ASSUME NEW len \in 0 .. FrameMax
  PROVE  RecordLen(len) \in Nat /\ RecordLen(len) <= Size
BY FrameAssumption, SizeAssumption DEF RecordLen

(* Counters stay counters.                                                 *)
LEMMA AddSubType ==
  ASSUME NEW a \in Count, NEW b \in Nat, b <= Size
  PROVE  Add(a, b) \in Count
BY SizeAssumption DEF Count, Add

LEMMA SubType ==
  ASSUME NEW a \in Count, NEW b \in Count
  PROVE  Sub(a, b) \in Nat /\ Sub(a, b) < Mod
BY SizeAssumption DEF Count, Sub

(* The head before a push is found again from the head after it.           *)
LEMMA SubAdd ==
  ASSUME NEW a \in Count, NEW b \in Nat, 0 < b, b <= Size
  PROVE  Sub(Add(a, b), b) = a
BY SizeAssumption DEF Count, Add, Sub

(* A word of the ring memory that the copies read is in the ring.          *)
LEMMA WordAtType ==
  ASSUME NEW pos \in Nat
  PROVE  WordAt(pos) \in Words
<1>1. pos % Size \in 0 .. Size - 1
  BY SizeAssumption
<1>2. (pos % Size) \div 4 \in 0 .. (Size \div 4) - 1
  BY <1>1, SizeAssumption
<1> QED BY <1>2 DEF WordAt, Words

(* What the copies and the length check return has its type.               *)
LEMMA CopyTypes ==
  ASSUME NEW d \in [Words -> Nat \X Nat], NEW pos \in Count
  PROVE  /\ \A f \in Frame : ring_copy_in(d, pos, f) \in [Words -> Nat \X Nat]
         /\ LenAt(d, pos) \in Nat
         /\ \A len \in 0 .. FrameMax :
              ring_copy_out(d, pos, len) \in [id : Nat, len : 0 .. FrameMax]
<1>1. pos \in Nat /\ WordAt(pos) \in Words
  BY WordAtType, SizeAssumption DEF Count
<1>2. ASSUME NEW f \in Frame
      PROVE  ring_copy_in(d, pos, f) \in [Words -> Nat \X Nat]
  <2>1. f.id \in Nat /\ f.len \in Nat
    BY FrameAssumption, IdsAssumption DEF Frame, FrameLens
  <2>2. \A w \in Words : (w + Size \div 4 - WordAt(pos)) % (Size \div 4) \in Nat
    <3>1. Size \div 4 \in Nat /\ 0 < Size \div 4
      BY SizeAssumption
    <3> QED BY <1>1, <3>1 DEF Words
  <2> QED BY <2>1, <2>2 DEF ring_copy_in
<1>3. LenAt(d, pos) \in Nat
  BY <1>1 DEF LenAt
<1>4. ASSUME NEW len \in 0 .. FrameMax
      PROVE  ring_copy_out(d, pos, len) \in [id : Nat, len : 0 .. FrameMax]
  <2>1. Add(pos, 4 * 1) \in Nat
    BY SizeAssumption DEF Add, Count
  <2>2. WordAt(Add(pos, 4 * 1)) \in Words
    BY <2>1, WordAtType
  <2> QED BY <2>2, IdsAssumption DEF ring_copy_out
<1> QED BY <1>2, <1>3, <1>4

(* The bytes in use after a push, after a frame is given back and after    *)
(* all frames up to a loaded head are dropped.                             *)
LEMMA UsedAfterPush ==
  ASSUME NEW a \in Count, NEW b \in Count, NEW n \in Nat,
         Sub(a, b) + n < Mod
  PROVE  Sub(Add(a, n), b) = Sub(a, b) + n
BY SizeAssumption DEF Count, Add, Sub

LEMMA UsedAfterFree ==
  ASSUME NEW a \in Count, NEW b \in Count, NEW n \in Nat, n <= Sub(a, b)
  PROVE  Sub(a, Add(b, n)) = Sub(a, b) - n
BY SizeAssumption DEF Count, Add, Sub

LEMMA UsedAfterDrop ==
  ASSUME NEW a \in Count, NEW b \in Count, NEW c \in Count,
         Sub(c, b) <= Sub(a, b)
  PROVE  Sub(a, c) = Sub(a, b) - Sub(c, b)
BY SizeAssumption DEF Count, Sub

-----------------------------------------------------------------------------
(* Division with remainder by any n: the remainder is unique, so it is not *)
(* changed by multiples of n, and a sum wraps at most once.                *)
LEMMA ModUnique ==
  ASSUME NEW n \in Nat, 0 < n, NEW q \in Nat, NEW r \in 0 .. n - 1
  PROVE  (n * q + r) % n = r
<1> DEFINE y == n * q + r
<1>1. n * q \in Nat /\ y \in Nat
  OBVIOUS
<1>2. PICK p \in Nat, s \in 0 .. n - 1 : y = n * p + s /\ y % n = s
  <2>1. y = n * (y \div n) + (y % n) /\ y \div n \in Nat /\ y % n \in 0 .. n - 1
    BY <1>1
  <2> QED BY <2>1
<1>3. n * p \in Nat
  OBVIOUS
<1>4. ~(q < p)
  <2> SUFFICES ASSUME q < p PROVE FALSE
    OBVIOUS
  <2>1. n * (q + 1) <= n * p
    OBVIOUS
  <2>2. n * (q + 1) = n * q + n
    OBVIOUS
  <2> QED BY <1>1, <1>2, <1>3, <2>1, <2>2
<1>5. ~(p < q)
  <2> SUFFICES ASSUME p < q PROVE FALSE
    OBVIOUS
  <2>1. n * (p + 1) <= n * q
    OBVIOUS
  <2>2. n * (p + 1) = n * p + n
    OBVIOUS
  <2> QED BY <1>1, <1>2, <1>3, <2>1, <2>2
<1>6. p = q
  BY <1>4, <1>5
<1> QED BY <1>1, <1>2, <1>3, <1>6

LEMMA ModSubMultiple ==
  ASSUME NEW n \in Nat, 0 < n, NEW m \in Nat, NEW a \in Nat, n * m <= a
  PROVE  (a - n * m) % n = a % n
<1> DEFINE b == a - n * m
<1>1. n * m \in Nat /\ b \in Nat
  OBVIOUS
<1>2. PICK p \in Nat, s \in 0 .. n - 1 : b = n * p + s /\ b % n = s
  <2>1. b = n * (b \div n) + (b % n) /\ b \div n \in Nat /\ b % n \in 0 .. n - 1
    BY <1>1
  <2> QED BY <2>1
<1>3. n * (p + m) = n * p + n * m /\ n * p \in Nat
  OBVIOUS
<1>4. a = n * (p + m) + s
  BY <1>1, <1>2, <1>3
<1>5. p + m \in Nat
  OBVIOUS
<1>6. (n * (p + m) + s) % n = s
  BY <1>5, ModUnique
<1> QED BY <1>2, <1>4, <1>6

LEMMA ModAdd ==
  ASSUME NEW n \in Nat, 0 < n, NEW a \in Nat, NEW x \in 0 .. n - 1
  PROVE  (a + x) % n = IF (a % n) + x < n THEN (a % n) + x ELSE (a % n) + x - n
<1>1. PICK p \in Nat, s \in 0 .. n - 1 : a = n * p + s /\ a % n = s
  <2>1. a = n * (a \div n) + (a % n) /\ a \div n \in Nat /\ a % n \in 0 .. n - 1
    OBVIOUS
  <2> QED BY <2>1
<1>2. n * p \in Nat /\ n * (p + 1) = n * p + n /\ p + 1 \in Nat
  OBVIOUS
<1>3. CASE s + x < n
  <2>1. a + x = n * p + (s + x) /\ s + x \in 0 .. n - 1
    BY <1>1, <1>2, <1>3
  <2>2. (n * p + (s + x)) % n = s + x
    BY <2>1, ModUnique
  <2> QED BY <1>1, <1>3, <2>1, <2>2
<1>4. CASE ~(s + x < n)
  <2>1. a + x = n * (p + 1) + (s + x - n) /\ s + x - n \in 0 .. n - 1
    BY <1>1, <1>2, <1>4
  <2>2. (n * (p + 1) + (s + x - n)) % n = s + x - n
    BY <1>2, <2>1, ModUnique
  <2> QED BY <1>1, <1>4, <2>1, <2>2
<1> QED BY <1>3, <1>4

(* The ring is a whole number of words, and the counters wrap at a whole   *)
(* number of rings.                                                        *)
Slots == Size \div 4

LEMMA SlotsFacts ==
  /\ Slots \in Nat /\ 0 < Slots /\ Size = 4 * Slots
  /\ Mod % 4 = 0
  /\ \E m \in Nat : Mod = Size * m
<1>1. Slots \in Nat /\ 0 < Slots /\ Size = 4 * Slots
  BY SizeAssumption DEF Slots
<1>2. PICK m \in Nat : Mod = Size * m
  <2>1. Mod = Size * (Mod \div Size) + (Mod % Size) /\ Mod \div Size \in Nat
    BY SizeAssumption
  <2>2. Size * (Mod \div Size) \in Nat
    BY <2>1, SizeAssumption
  <2> QED BY <2>1, <2>2, SizeAssumption
<1>3. Mod = 4 * (Slots * m) /\ Slots * m \in Nat
  BY <1>1, <1>2
<1>4. Mod % 4 = 0
  BY <1>3
<1> QED BY <1>1, <1>2, <1>4

(* A word that is d words further on, for less than one turn of the ring.  *)
Wrap(w) == IF w < Slots THEN w ELSE w - Slots

LEMMA WordStep ==
  ASSUME NEW pos \in Count, pos % 4 = 0, NEW d \in 0 .. Slots - 1
  PROVE  WordAt(Add(pos, 4 * d)) = Wrap(WordAt(pos) + d)
<1> DEFINE r == pos % Size
<1>1. PICK m \in Nat : Mod = Size * m
  BY SlotsFacts
<1>2. /\ Size \in Nat /\ 0 < Size /\ Mod \in Nat /\ Size < Mod
      /\ Slots \in Nat /\ 0 < Slots /\ Size = 4 * Slots
      /\ pos \in Nat /\ pos < Mod
  BY SizeAssumption, SlotsFacts DEF Count
<1>3. 4 * d \in 0 .. Size - 1 /\ pos + 4 * d \in Nat
  BY <1>2
<1>4. (pos + 4 * d) % Size = IF r + 4 * d < Size THEN r + 4 * d ELSE r + 4 * d - Size
  BY <1>2, <1>3, ModAdd
<1>5. Add(pos, 4 * d) % Size = (pos + 4 * d) % Size
  <2>1. CASE pos + 4 * d < Mod
    BY <2>1 DEF Add
  <2>2. CASE ~(pos + 4 * d < Mod)
    <3>1. Size * m <= pos + 4 * d
      BY <1>1, <1>2, <1>3, <2>2
    <3>2. ((pos + 4 * d) - Size * m) % Size = (pos + 4 * d) % Size
      BY <1>2, <1>3, <3>1, ModSubMultiple
    <3>3. Add(pos, 4 * d) = (pos + 4 * d) - Mod
      BY <1>2, <1>3, <2>2 DEF Add
    <3> QED BY <1>1, <3>2, <3>3
  <2> QED BY <2>1, <2>2
<1>6. PICK c \in Nat : r = 4 * c /\ c < Slots
  <2>1. PICK p \in Nat : pos = Size * p + r /\ r \in 0 .. Size - 1
    <3>1. pos = Size * (pos \div Size) + (pos % Size) /\ pos \div Size \in Nat
          /\ pos % Size \in 0 .. Size - 1
      BY <1>2
    <3> QED BY <3>1
  <2>2. Size * p = 4 * (Slots * p) /\ Slots * p \in Nat
    BY <1>2
  <2>3. PICK e \in Nat : pos = 4 * e
    BY <1>2
  <2>4. r = 4 * (e - Slots * p) /\ e - Slots * p \in Nat
    <3> HIDE DEF r
    <3>1. r = 4 * e - 4 * (Slots * p)
      BY <2>1, <2>2, <2>3
    <3> QED BY <2>1, <2>2, <3>1
  <2> QED BY <1>2, <2>1, <2>4
<1>7. WordAt(pos) = c
  BY <1>6 DEF WordAt
<1>8. CASE c + d < Slots
  <2>1. Add(pos, 4 * d) % Size = 4 * (c + d)
    BY <1>2, <1>4, <1>5, <1>6, <1>8
  <2> QED BY <1>7, <1>8, <2>1 DEF WordAt, Wrap
<1>9. CASE ~(c + d < Slots)
  <2>1. Add(pos, 4 * d) % Size = 4 * (c + d - Slots)
    BY <1>2, <1>4, <1>5, <1>6, <1>9
  <2>2. c + d - Slots \in Nat
    BY <1>2, <1>9
  <2>3. (4 * (c + d - Slots)) \div 4 = c + d - Slots
    BY <2>2
  <2>4. WordAt(Add(pos, 4 * d)) = c + d - Slots
    BY <2>1, <2>3 DEF WordAt
  <2> QED BY <1>2, <1>7, <1>9, <2>4 DEF Wrap
<1> QED BY <1>8, <1>9

(* How far one word is after another, in the direction of the copies.      *)
LEMMA WrapDistance ==
  ASSUME NEW t \in 0 .. Slots - 1, NEW a \in 0 .. Slots - 1, NEW b \in 0 .. Slots - 1
  PROVE  /\ Wrap(t + a) \in 0 .. Slots - 1
         /\ (Wrap(t + a) + Slots - Wrap(t + b)) % Slots
              = IF b <= a THEN a - b ELSE a + Slots - b
<1> Slots \in Nat /\ 0 < Slots
  BY SlotsFacts
<1> DEFINE x == Wrap(t + a) + Slots - Wrap(t + b)
           e == IF b <= a THEN a - b ELSE a + Slots - b
<1>1. Wrap(t + a) \in 0 .. Slots - 1 /\ Wrap(t + b) \in 0 .. Slots - 1
  BY DEF Wrap
<1>2. e \in 0 .. Slots - 1
  OBVIOUS
<1>3. x = Slots * 0 + e \/ x = Slots * 1 + e
  BY DEF Wrap
<1>4. (Slots * 0 + e) % Slots = e /\ (Slots * 1 + e) % Slots = e
  BY <1>2, ModUnique
<1>5. x % Slots = e
  BY <1>3, <1>4
<1> QED BY <1>1, <1>5

(* A record in the ring memory: the word of the length, then the words of  *)
(* the frame.                                                              *)
RecordWord(f, k) == IF k = 0 THEN <<f.len, 0>> ELSE <<f.id, k>>

Intact(d, pos, f) ==
  \A k \in 0 .. FrameWords(f.len) : d[WordAt(Add(pos, 4 * k))] = RecordWord(f, k)

LEMMA RecordSlots ==
  ASSUME NEW f \in Frame
  PROVE  /\ FrameWords(f.len) \in Nat /\ 0 < FrameWords(f.len)
         /\ FrameWords(f.len) < Slots
         /\ RecordLen(f.len) = 4 + 4 * FrameWords(f.len)
<1>1. f.len \in FrameLens
  BY DEF Frame
<1>2. f.len \in Nat /\ 0 < f.len
  BY <1>1, FrameAssumption DEF FrameLens
<1>3. RecordLen(f.len) <= Size
  BY <1>1, RecordLenBounds
<1> QED BY <1>2, <1>3, SlotsFacts DEF RecordLen, FrameWords

LEMMA AddZero ==
  ASSUME NEW pos \in Count
  PROVE  Add(pos, 4 * 0) = pos
BY SizeAssumption DEF Add, Count

(* What the producer copies is a record; it is found again by the          *)
(* consumer.                                                               *)
LEMMA CopyInIntact ==
  ASSUME NEW d, NEW pos \in Count, pos % 4 = 0, NEW f \in Frame
  PROVE  Intact(ring_copy_in(d, pos, f), pos, f)
<1> SUFFICES ASSUME NEW k \in 0 .. FrameWords(f.len)
             PROVE  ring_copy_in(d, pos, f)[WordAt(Add(pos, 4 * k))] = RecordWord(f, k)
  BY DEF Intact
<1> DEFINE w == WordAt(Add(pos, 4 * k))
           t == WordAt(pos)
<1>1. k \in 0 .. Slots - 1 /\ 0 \in 0 .. Slots - 1 /\ Slots \in Nat
  BY RecordSlots, SlotsFacts
<1>2. t \in 0 .. Slots - 1
  BY WordAtType, SizeAssumption DEF Count, Words, Slots
<1>3. w = Wrap(t + k)
  BY <1>1, WordStep
<1>4. t = Wrap(t + 0)
  BY <1>1, <1>2 DEF Wrap
<1>5. w \in Words /\ (w + Slots - t) % Slots = k
  <2>1. /\ Wrap(t + k) \in 0 .. Slots - 1
        /\ (Wrap(t + k) + Slots - Wrap(t + 0)) % Slots
             = IF 0 <= k THEN k - 0 ELSE k + Slots - 0
    BY <1>1, <1>2, WrapDistance
  <2>2. (IF 0 <= k THEN k - 0 ELSE k + Slots - 0) = k
    BY <1>1
  <2> QED BY <1>3, <1>4, <2>1, <2>2 DEF Words, Slots
<1>6. k <= FrameWords(f.len)
  BY RecordSlots
<1> HIDE DEF w
<1>7. ring_copy_in(d, pos, f)[w] = IF k = 0 THEN <<f.len, 0>> ELSE <<f.id, k>>
  BY <1>5, <1>6 DEF ring_copy_in, Slots
<1> QED BY <1>7 DEF w, RecordWord

LEMMA CopyOutIntact ==
  ASSUME NEW d, NEW pos \in Count, NEW f \in Frame, Intact(d, pos, f)
  PROVE  /\ LenAt(d, pos) = f.len
         /\ ring_copy_out(d, pos, f.len) = f
<1>1. /\ FrameWords(f.len) \in Nat /\ 0 < FrameWords(f.len)
  BY RecordSlots
<1>2. d[WordAt(pos)] = <<f.len, 0>>
  <2>1. 0 \in 0 .. FrameWords(f.len)
    BY <1>1
  <2>2. d[WordAt(Add(pos, 4 * 0))] = RecordWord(f, 0)
    BY <2>1, Zenon DEF Intact
  <2>3. RecordWord(f, 0) = <<f.len, 0>>
    BY DEF RecordWord
  <2> QED BY <2>2, <2>3, AddZero, Zenon
<1>3. ASSUME NEW k \in 1 .. FrameWords(f.len)
      PROVE  d[WordAt(Add(pos, 4 * k))] = <<f.id, k>>
  <2>1. k \in 0 .. FrameWords(f.len) /\ k # 0
    BY <1>1
  <2>2. d[WordAt(Add(pos, 4 * k))] = RecordWord(f, k)
    BY <2>1 DEF Intact
  <2>3. RecordWord(f, k) = <<f.id, k>>
    BY <2>1 DEF RecordWord
  <2> QED BY <2>2, <2>3
<1>4. d[WordAt(Add(pos, 4 * 1))] = <<f.id, 1>>
  BY <1>1, <1>3
<1>5. ring_copy_out(d, pos, f.len) = [id |-> f.id, len |-> f.len]
  BY <1>3, <1>4 DEF ring_copy_out
<1>6. f = [id |-> f.id, len |-> f.len]
  BY DEF Frame
<1> QED BY <1>2, <1>5, <1>6 DEF LenAt

(* Counters of whole words are whole words apart, also over the wrap.      *)
LEMMA SubMultiple ==
  ASSUME NEW a \in Count, NEW b \in Count, a % 4 = 0, b % 4 = 0
  PROVE  \E c \in Nat : Sub(a, b) = 4 * c
<1>1. PICK x \in Nat, y \in Nat, z \in Nat : a = 4 * x /\ b = 4 * y /\ Mod = 4 * z
  <2>1. a \in Nat /\ b \in Nat /\ Mod \in Nat /\ Mod % 4 = 0
    BY SlotsFacts, SizeAssumption DEF Count
  <2>2. \A n \in Nat : n % 4 = 0 => n = 4 * (n \div 4) /\ n \div 4 \in Nat
    OBVIOUS
  <2> QED BY <2>1, <2>2
<1>2. a < Mod /\ b < Mod
  BY SizeAssumption DEF Count
<1>3. CASE b <= a
  <2>1. Sub(a, b) = 4 * (x - y) /\ x - y \in Nat
    BY <1>1, <1>3 DEF Sub
  <2> QED BY <2>1
<1>4. CASE ~(b <= a)
  <2>1. Sub(a, b) = 4 * (x + z - y) /\ x + z - y \in Nat
    BY <1>1, <1>2, <1>4 DEF Sub
  <2> QED BY <2>1
<1> QED BY <1>3, <1>4

(* A copy into the free space leaves the record of g at p alone: p is      *)
(* unread, and the new record ends before tail comes round.                *)
LEMMA CopyInKeeps ==
  ASSUME NEW d, NEW head \in Count, NEW tail \in Count, NEW p \in Count,
         head % 4 = 0, tail % 4 = 0, p % 4 = 0,
         NEW f \in Frame, NEW g \in Frame,
         Sub(p, tail) + RecordLen(g.len) <= Sub(head, tail),
         Sub(head, tail) + RecordLen(f.len) <= Size,
         Intact(d, p, g)
  PROVE  Intact(ring_copy_in(d, head, f), p, g)
<1> SUFFICES ASSUME NEW k \in 0 .. FrameWords(g.len)
             PROVE  ring_copy_in(d, head, f)[WordAt(Add(p, 4 * k))] = RecordWord(g, k)
  BY DEF Intact
<1> DEFINE w == WordAt(Add(p, 4 * k))
           t == WordAt(tail)
<1>1. /\ FrameWords(f.len) \in Nat /\ RecordLen(f.len) = 4 + 4 * FrameWords(f.len)
      /\ FrameWords(g.len) \in Nat /\ RecordLen(g.len) = 4 + 4 * FrameWords(g.len)
      /\ Slots \in Nat /\ 0 < Slots /\ Size = 4 * Slots
  BY RecordSlots, SlotsFacts
<1>2. PICK b \in Nat : Sub(head, tail) = 4 * b
  BY SubMultiple
<1>3. PICK c \in Nat : Sub(p, tail) = 4 * c
  BY SubMultiple
<1>4. k \in Nat /\ c + k < b /\ b + 1 + FrameWords(f.len) <= Slots
  BY <1>1, <1>2, <1>3
<1>5. head = Add(tail, 4 * b) /\ Add(p, 4 * k) = Add(tail, 4 * (c + k))
  <2>1. head = Add(tail, Sub(head, tail)) /\ p = Add(tail, Sub(p, tail))
    BY SizeAssumption DEF Add, Sub, Count
  <2>2. 4 * c + 4 * k <= Size
    BY <1>1, <1>4
  <2>3. Add(Add(tail, 4 * c), 4 * k) = Add(tail, 4 * c + 4 * k)
    BY <1>4, <2>2, SizeAssumption DEF Add, Count
  <2>4. 4 * c + 4 * k = 4 * (c + k)
    BY <1>4
  <2> QED BY <1>2, <1>3, <2>1, <2>3, <2>4
<1>6. c + k \in 0 .. Slots - 1 /\ b \in 0 .. Slots - 1
  BY <1>1, <1>4
<1>7. t \in 0 .. Slots - 1
  BY WordAtType, SizeAssumption DEF Count, Words, Slots
<1>8. w = Wrap(t + (c + k)) /\ WordAt(head) = Wrap(t + b)
  BY <1>5, <1>6, WordStep
<1>9. /\ w \in Words
      /\ (w + Slots - WordAt(head)) % Slots = c + k + Slots - b
  <2>1. /\ Wrap(t + (c + k)) \in 0 .. Slots - 1
        /\ (Wrap(t + (c + k)) + Slots - Wrap(t + b)) % Slots
             = IF b <= c + k THEN (c + k) - b ELSE (c + k) + Slots - b
    BY <1>6, <1>7, WrapDistance
  <2>2. (IF b <= c + k THEN (c + k) - b ELSE (c + k) + Slots - b) = c + k + Slots - b
    BY <1>1, <1>4
  <2> QED BY <1>8, <2>1, <2>2 DEF Words, Slots
<1>10. c + k + Slots - b # 0 /\ ~(c + k + Slots - b <= FrameWords(f.len))
  BY <1>1, <1>4
<1>11. d[w] = RecordWord(g, k)
  BY DEF Intact
<1> HIDE DEF w
<1>12. ring_copy_in(d, head, f)[w] = d[w]
  BY <1>9, <1>10 DEF ring_copy_in, Slots
<1> QED BY <1>11, <1>12 DEF w

-----------------------------------------------------------------------------
(* The records between tail and head: whole words, in the order of their   *)
(* positions, each next to the other, the first at tail and the last at    *)
(* head, all within the bytes in use, and the memory holds each of them.   *)
(* The order is stated for every pair, because it does not follow from the *)
(* neighbours without an induction.                                        *)
Entry == [pos : Count, frame : Frame]
EntryLen(r) == RecordLen(r.frame.len)

Placed(ring, head, tail) ==
  \A i \in 1 .. Len(ring) :
    /\ ring[i].pos % 4 = 0
    /\ Sub(ring[i].pos, tail) + EntryLen(ring[i]) <= Sub(head, tail)

Adjacent(ring, head) ==
  \A i \in 1 .. Len(ring) :
    Add(ring[i].pos, EntryLen(ring[i])) = IF i = Len(ring) THEN head ELSE ring[i + 1].pos

Ordered(ring, tail) ==
  \A i, j \in 1 .. Len(ring) :
    i < j => Sub(ring[i].pos, tail) + EntryLen(ring[i]) <= Sub(ring[j].pos, tail)

FirstAtTail(ring, head, tail) ==
  IF ring = <<>> THEN head = tail ELSE ring[1].pos = tail

Stored(ring, d) == \A i \in 1 .. Len(ring) : Intact(d, ring[i].pos, ring[i].frame)

Counters(head, tail) ==
  /\ head \in Count /\ tail \in Count
  /\ head % 4 = 0 /\ tail % 4 = 0
  /\ Sub(head, tail) <= Size

RingInv(ring, head, tail, d) ==
  /\ ring \in Seq(Entry)
  /\ Counters(head, tail)
  /\ Placed(ring, head, tail)
  /\ Adjacent(ring, head)
  /\ Ordered(ring, tail)
  /\ FirstAtTail(ring, head, tail)
  /\ Stored(ring, d)

LEMMA EntryFacts ==
  ASSUME NEW r \in Entry
  PROVE  /\ r.pos \in Count /\ r.frame \in Frame
         /\ EntryLen(r) \in Nat /\ 4 <= EntryLen(r) /\ EntryLen(r) <= Size
         /\ EntryLen(r) % 4 = 0
<1>1. r.pos \in Count /\ r.frame \in Frame
  BY DEF Entry
<1>2. EntryLen(r) = 4 + 4 * FrameWords(r.frame.len) /\ FrameWords(r.frame.len) \in Nat
  BY <1>1, RecordSlots DEF EntryLen
<1>3. r.frame.len \in FrameLens
  BY <1>1 DEF Frame
<1>4. EntryLen(r) <= Size
  BY <1>3, RecordLenBounds DEF EntryLen
<1> QED BY <1>1, <1>2, <1>4

LEMMA AddMultiple ==
  ASSUME NEW a \in Count, a % 4 = 0, NEW n \in Nat, n % 4 = 0, n <= Size
  PROVE  Add(a, n) \in Count /\ Add(a, n) % 4 = 0
<1>1. PICK x \in Nat, y \in Nat, z \in Nat : a = 4 * x /\ n = 4 * y /\ Mod = 4 * z
  <2>1. a \in Nat /\ Mod \in Nat /\ Mod % 4 = 0
    BY SlotsFacts, SizeAssumption DEF Count
  <2>2. \A m \in Nat : m % 4 = 0 => m = 4 * (m \div 4) /\ m \div 4 \in Nat
    OBVIOUS
  <2>3. /\ a = 4 * (a \div 4) /\ a \div 4 \in Nat
        /\ n = 4 * (n \div 4) /\ n \div 4 \in Nat
        /\ Mod = 4 * (Mod \div 4) /\ Mod \div 4 \in Nat
    BY <2>1, <2>2
  <2> QED BY <2>3
<1>2. Add(a, n) \in Count
  BY AddSubType
<1>3. CASE a + n < Mod
  <2>1. Add(a, n) = 4 * (x + y)
    BY <1>1, <1>3 DEF Add
  <2> QED BY <1>2, <2>1
<1>4. CASE ~(a + n < Mod)
  <2>1. Add(a, n) = 4 * (x + y - z) /\ x + y - z \in Nat
    BY <1>1, <1>4 DEF Add
  <2> QED BY <1>2, <2>1
<1> QED BY <1>3, <1>4

(* The empty ring.                                                         *)
LEMMA RingEmpty ==
  ASSUME NEW d
  PROVE  RingInv(<<>>, 0, 0, d)
<1>1. <<>> \in Seq(Entry) /\ Len(<<>>) = 0
  OBVIOUS
<1>2. Counters(0, 0)
  BY SizeAssumption DEF Counters, Count, Sub
<1> QED BY <1>1, <1>2 DEF RingInv, Placed, Adjacent, Ordered, FirstAtTail, Stored

(* The producer copies a record into the free space.                       *)
LEMMA RingCopy ==
  ASSUME NEW ring, NEW head, NEW tail, NEW d, RingInv(ring, head, tail, d),
         NEW f \in Frame, RecordLen(f.len) + Sub(head, tail) <= Size
  PROVE  /\ RingInv(ring, head, tail, ring_copy_in(d, head, f))
         /\ Intact(ring_copy_in(d, head, f), head, f)
<1>1. /\ head \in Count /\ tail \in Count /\ head % 4 = 0 /\ tail % 4 = 0
      /\ ring \in Seq(Entry)
  BY DEF RingInv, Counters
<1>2. Intact(ring_copy_in(d, head, f), head, f)
  BY <1>1, CopyInIntact
<1>3. ASSUME NEW i \in 1 .. Len(ring)
      PROVE  Intact(ring_copy_in(d, head, f), ring[i].pos, ring[i].frame)
  <2>1. ring[i] \in Entry
    BY <1>1
  <2>2. /\ ring[i].pos \in Count /\ ring[i].frame \in Frame
        /\ RecordLen(ring[i].frame.len) \in Nat
    BY <2>1, EntryFacts DEF EntryLen
  <2>3. /\ ring[i].pos % 4 = 0
        /\ Sub(ring[i].pos, tail) + RecordLen(ring[i].frame.len) <= Sub(head, tail)
        /\ Intact(d, ring[i].pos, ring[i].frame)
    BY DEF RingInv, Placed, Stored, EntryLen
  <2>4. Sub(head, tail) + RecordLen(f.len) <= Size
    <3>1. RecordLen(f.len) \in Nat /\ Sub(head, tail) \in Nat
      BY <1>1, RecordLenBounds, SubType DEF Frame
    <3> QED BY <3>1, SizeAssumption
  <2> QED BY <1>1, <2>2, <2>3, <2>4, CopyInKeeps
<1>4. Stored(ring, ring_copy_in(d, head, f))
  BY <1>3 DEF Stored
<1> QED BY <1>2, <1>4 DEF RingInv

(* The producer stores the new head.                                       *)
LEMMA RingPush ==
  ASSUME NEW ring, NEW head, NEW tail, NEW d, RingInv(ring, head, tail, d),
         NEW f \in Frame, RecordLen(f.len) + Sub(head, tail) <= Size,
         Intact(d, head, f)
  PROVE  RingInv(Append(ring, [pos |-> head, frame |-> f]),
                 Add(head, RecordLen(f.len)), tail, d)
<1> DEFINE e == [pos |-> head, frame |-> f]
           new == Append(ring, e)
           n == RecordLen(f.len)
           next == Add(head, n)
<1>1. /\ head \in Count /\ tail \in Count /\ head % 4 = 0 /\ tail % 4 = 0
      /\ ring \in Seq(Entry) /\ Sub(head, tail) \in Nat
      /\ Size \in Nat /\ Mod \in Nat /\ Size < Mod
  BY SubType, SizeAssumption DEF RingInv, Counters
<1>2. e \in Entry /\ e.pos = head /\ e.frame = f /\ EntryLen(e) = n
  BY <1>1 DEF Entry, EntryLen
<1>3. n \in Nat /\ 4 <= n /\ n <= Size /\ n % 4 = 0
  BY <1>2, EntryFacts
<1>4. /\ new \in Seq(Entry) /\ Len(new) = Len(ring) + 1 /\ new # <<>>
      /\ \A i \in 1 .. Len(ring) : new[i] = ring[i]
      /\ new[Len(ring) + 1] = e
      /\ Len(ring) \in Nat
  <2> HIDE DEF e
  <2> QED BY <1>1, <1>2, AppendProperties
<1>5. next \in Count /\ next % 4 = 0
  BY <1>1, <1>3, AddMultiple
<1>6. Sub(next, tail) = Sub(head, tail) + n
  BY <1>1, <1>3, UsedAfterPush
<1> HIDE DEF e, new, n, next
<1>7. \A i \in 1 .. Len(ring) : EntryLen(ring[i]) \in Nat /\ Sub(ring[i].pos, tail) \in Nat
  <2> SUFFICES ASSUME NEW i \in 1 .. Len(ring)
               PROVE  EntryLen(ring[i]) \in Nat /\ Sub(ring[i].pos, tail) \in Nat
    OBVIOUS
  <2>1. ring[i] \in Entry
    BY <1>1
  <2>2. EntryLen(ring[i]) \in Nat /\ ring[i].pos \in Count
    BY <2>1, EntryFacts
  <2>3. Sub(ring[i].pos, tail) \in Nat
    BY <1>1, <2>2, SubType
  <2> QED BY <2>2, <2>3
<1>8. Counters(next, tail)
  BY <1>1, <1>3, <1>5, <1>6 DEF Counters, n
<1>9. Placed(new, next, tail)
  <2> SUFFICES ASSUME NEW i \in 1 .. Len(new)
               PROVE  /\ new[i].pos % 4 = 0
                      /\ Sub(new[i].pos, tail) + EntryLen(new[i]) <= Sub(next, tail)
    BY DEF Placed
  <2>1. CASE i \in 1 .. Len(ring)
    <3>1. /\ ring[i].pos % 4 = 0
          /\ Sub(ring[i].pos, tail) + EntryLen(ring[i]) <= Sub(head, tail)
      BY <2>1 DEF RingInv, Placed
    <3>2. new[i] = ring[i] /\ EntryLen(ring[i]) \in Nat /\ Sub(ring[i].pos, tail) \in Nat
      BY <1>4, <1>7, <2>1
    <3>3. Sub(ring[i].pos, tail) + EntryLen(ring[i]) <= Sub(next, tail)
      BY <1>1, <1>3, <1>6, <3>1, <3>2
    <3> QED BY <3>1, <3>2, <3>3
  <2>2. CASE i = Len(ring) + 1
    BY <1>1, <1>2, <1>3, <1>4, <1>6, <2>2
  <2> QED BY <1>4, <2>1, <2>2
<1>10. Adjacent(new, next)
  <2> SUFFICES ASSUME NEW i \in 1 .. Len(new)
               PROVE  Add(new[i].pos, EntryLen(new[i]))
                        = IF i = Len(new) THEN next ELSE new[i + 1].pos
    BY DEF Adjacent
  <2>1. CASE i = Len(ring) + 1
    BY <1>2, <1>4, <2>1 DEF next
  <2>2. CASE i \in 1 .. Len(ring)
    <3>1. Add(ring[i].pos, EntryLen(ring[i]))
            = IF i = Len(ring) THEN head ELSE ring[i + 1].pos
      BY <2>2 DEF RingInv, Adjacent
    <3>2. CASE i = Len(ring)
      BY <1>2, <1>4, <2>2, <3>1, <3>2
    <3>3. CASE i # Len(ring)
      <4>1. i + 1 \in 1 .. Len(ring)
        BY <1>4, <2>2, <3>3
      <4> QED BY <1>4, <2>2, <3>1, <3>3, <4>1
    <3> QED BY <3>2, <3>3
  <2> QED BY <1>4, <2>1, <2>2
<1>11. Ordered(new, tail)
  <2> SUFFICES ASSUME NEW i \in 1 .. Len(new), NEW j \in 1 .. Len(new), i < j
               PROVE  Sub(new[i].pos, tail) + EntryLen(new[i]) <= Sub(new[j].pos, tail)
    BY DEF Ordered
  <2>1. i \in 1 .. Len(ring)
    BY <1>4
  <2>2. CASE j \in 1 .. Len(ring)
    <3>1. Sub(ring[i].pos, tail) + EntryLen(ring[i]) <= Sub(ring[j].pos, tail)
      BY <2>1, <2>2 DEF RingInv, Ordered
    <3> QED BY <1>4, <2>1, <2>2, <3>1
  <2>3. CASE j = Len(ring) + 1
    <3>1. Sub(ring[i].pos, tail) + EntryLen(ring[i]) <= Sub(head, tail)
      BY <2>1 DEF RingInv, Placed
    <3> QED BY <1>2, <1>4, <2>1, <2>3, <3>1
  <2> QED BY <1>4, <2>2, <2>3
<1>12. FirstAtTail(new, next, tail)
  <2>1. CASE ring = <<>>
    <3>1. Len(ring) = 0 /\ head = tail
      BY <2>1 DEF RingInv, FirstAtTail
    <3> QED BY <1>2, <1>4, <3>1 DEF FirstAtTail
  <2>2. CASE ring # <<>>
    <3>1. ring[1].pos = tail /\ 1 \in 1 .. Len(ring)
      BY <1>1, <2>2 DEF RingInv, FirstAtTail
    <3> QED BY <1>4, <3>1 DEF FirstAtTail
  <2> QED BY <2>1, <2>2
<1>13. Stored(new, d)
  <2> SUFFICES ASSUME NEW i \in 1 .. Len(new)
               PROVE  Intact(d, new[i].pos, new[i].frame)
    BY DEF Stored
  <2>1. CASE i \in 1 .. Len(ring)
    BY <1>4, <2>1 DEF RingInv, Stored
  <2>2. CASE i = Len(ring) + 1
    BY <1>2, <1>4, <2>2
  <2> QED BY <1>4, <2>1, <2>2
<1>14. RingInv(new, next, tail, d)
  BY <1>4, <1>8, <1>9, <1>10, <1>11, <1>12, <1>13 DEF RingInv
<1> QED BY <1>14 DEF new, next, n, e

(* The consumer finds the first record at tail.                            *)
LEMMA RingFirst ==
  ASSUME NEW ring, NEW head, NEW tail, NEW d, RingInv(ring, head, tail, d),
         ring # <<>>
  PROVE  /\ ring[1] \in Entry /\ ring[1].pos = tail
         /\ EntryLen(ring[1]) <= Sub(head, tail)
         /\ LenAt(d, tail) = ring[1].frame.len
         /\ ring_copy_out(d, tail, ring[1].frame.len) = ring[1].frame
<1>1. ring \in Seq(Entry) /\ 1 \in 1 .. Len(ring) /\ ring[1].pos = tail /\ tail \in Count
  BY DEF RingInv, FirstAtTail, Counters
<1>2. ring[1] \in Entry
  BY <1>1
<1>3. Intact(d, tail, ring[1].frame)
  BY <1>1 DEF RingInv, Stored
<1>4. Sub(tail, tail) + EntryLen(ring[1]) <= Sub(head, tail)
  BY <1>1 DEF RingInv, Placed
<1>5. Sub(tail, tail) = 0
  BY <1>1, SizeAssumption DEF Sub, Count
<1>6. EntryLen(ring[1]) \in Nat /\ ring[1].frame \in Frame
  BY <1>2, EntryFacts
<1>7. EntryLen(ring[1]) <= Sub(head, tail)
  BY <1>4, <1>5, <1>6
<1> QED BY <1>1, <1>2, <1>3, <1>6, <1>7, CopyOutIntact

(* The consumer gives the space of the first record back.                  *)
LEMMA RingFree ==
  ASSUME NEW ring, NEW head, NEW tail, NEW d, RingInv(ring, head, tail, d),
         ring # <<>>
  PROVE  RingInv(Tail(ring), head, Add(tail, EntryLen(ring[1])), d)
<1> DEFINE n == EntryLen(ring[1])
           next == Add(tail, n)
           new == Tail(ring)
<1>1. /\ head \in Count /\ tail \in Count /\ head % 4 = 0 /\ tail % 4 = 0
      /\ ring \in Seq(Entry) /\ Sub(head, tail) \in Nat /\ Sub(head, tail) <= Size
      /\ Size \in Nat /\ Mod \in Nat /\ Size < Mod
  BY SubType, SizeAssumption DEF RingInv, Counters
<1>2. /\ ring[1] \in Entry /\ ring[1].pos = tail /\ n <= Sub(head, tail)
      /\ n \in Nat /\ 4 <= n /\ n <= Size /\ n % 4 = 0
  BY RingFirst, EntryFacts
<1>3. /\ new \in Seq(Entry) /\ Len(ring) \in Nat /\ 1 <= Len(ring)
      /\ Len(new) = Len(ring) - 1
      /\ \A i \in 1 .. Len(new) : new[i] = ring[i + 1]
  BY <1>1, HeadTailProperties
<1>4. next \in Count /\ next % 4 = 0
  BY <1>1, <1>2, AddMultiple
<1>5. Sub(head, next) = Sub(head, tail) - n
  BY <1>1, <1>2, UsedAfterFree
<1>6. ASSUME NEW i \in 1 .. Len(ring), 1 < i
      PROVE  /\ Sub(ring[i].pos, next) = Sub(ring[i].pos, tail) - n
             /\ ring[i].pos \in Count
             /\ Sub(ring[i].pos, tail) \in Nat /\ EntryLen(ring[i]) \in Nat
  <2>1. ring[i].pos \in Count /\ EntryLen(ring[i]) \in Nat
    BY <1>1, EntryFacts
  <2>2. 1 \in 1 .. Len(ring)
    BY <1>3
  <2>3. Sub(tail, tail) + n <= Sub(ring[i].pos, tail)
    BY <1>2, <1>6, <2>2 DEF RingInv, Ordered
  <2>4. Sub(tail, tail) = 0
    BY <1>1 DEF Sub, Count
  <2> HIDE DEF n
  <2>5. Sub(ring[i].pos, tail) \in Nat
    BY <1>1, <2>1, SubType
  <2>6. n <= Sub(ring[i].pos, tail)
    BY <1>2, <2>3, <2>4, <2>5
  <2>7. Sub(ring[i].pos, Add(tail, n)) = Sub(ring[i].pos, tail) - n
    BY <1>1, <1>2, <2>1, <2>6, UsedAfterFree
  <2> QED BY <2>1, <2>5, <2>7 DEF n
<1> HIDE DEF n, next, new
<1>7. Counters(head, next)
  BY <1>1, <1>2, <1>4, <1>5 DEF Counters
<1>8. Placed(new, head, next)
  <2> SUFFICES ASSUME NEW i \in 1 .. Len(new)
               PROVE  /\ new[i].pos % 4 = 0
                      /\ Sub(new[i].pos, next) + EntryLen(new[i]) <= Sub(head, next)
    BY DEF Placed
  <2>1. i + 1 \in 1 .. Len(ring) /\ 1 < i + 1 /\ new[i] = ring[i + 1]
    BY <1>3
  <2>2. /\ ring[i + 1].pos % 4 = 0
        /\ Sub(ring[i + 1].pos, tail) + EntryLen(ring[i + 1]) <= Sub(head, tail)
    BY <2>1 DEF RingInv, Placed
  <2> QED BY <1>1, <1>2, <1>5, <1>6, <2>1, <2>2
<1>9. Adjacent(new, head)
  <2> SUFFICES ASSUME NEW i \in 1 .. Len(new)
               PROVE  Add(new[i].pos, EntryLen(new[i]))
                        = IF i = Len(new) THEN head ELSE new[i + 1].pos
    BY DEF Adjacent
  <2>1. i + 1 \in 1 .. Len(ring) /\ new[i] = ring[i + 1]
    BY <1>3
  <2>2. Add(ring[i + 1].pos, EntryLen(ring[i + 1]))
          = IF i + 1 = Len(ring) THEN head ELSE ring[(i + 1) + 1].pos
    BY <2>1 DEF RingInv, Adjacent
  <2>3. CASE i = Len(new)
    BY <1>3, <2>1, <2>2, <2>3
  <2>4. CASE i # Len(new)
    <3>1. i + 1 \in 1 .. Len(new) /\ i + 1 # Len(ring)
      BY <1>3, <2>4
    <3>2. new[i + 1] = ring[(i + 1) + 1]
      BY <1>3, <3>1
    <3> QED BY <2>1, <2>2, <2>4, <3>1, <3>2
  <2> QED BY <2>3, <2>4
<1>10. Ordered(new, next)
  <2> SUFFICES ASSUME NEW i \in 1 .. Len(new), NEW j \in 1 .. Len(new), i < j
               PROVE  Sub(new[i].pos, next) + EntryLen(new[i]) <= Sub(new[j].pos, next)
    BY DEF Ordered
  <2>1. /\ i + 1 \in 1 .. Len(ring) /\ 1 < i + 1 /\ new[i] = ring[i + 1]
        /\ j + 1 \in 1 .. Len(ring) /\ 1 < j + 1 /\ new[j] = ring[j + 1]
        /\ i + 1 < j + 1
    BY <1>3
  <2>2. Sub(ring[i + 1].pos, tail) + EntryLen(ring[i + 1]) <= Sub(ring[j + 1].pos, tail)
    BY <2>1 DEF RingInv, Ordered
  <2> QED BY <1>2, <1>6, <2>1, <2>2
<1>11. FirstAtTail(new, head, next)
  <2>1. Add(ring[1].pos, EntryLen(ring[1])) = IF 1 = Len(ring) THEN head ELSE ring[1 + 1].pos
    BY <1>3 DEF RingInv, Adjacent
  <2>2. next = IF 1 = Len(ring) THEN head ELSE ring[2].pos
    BY <1>2, <2>1 DEF next, n
  <2>3. CASE Len(ring) = 1
    <3>1. new = <<>>
      BY <1>3, <2>3
    <3> QED BY <2>2, <2>3, <3>1 DEF FirstAtTail
  <2>4. CASE Len(ring) # 1
    <3>1. new # <<>> /\ new[1] = ring[2]
      BY <1>3, <2>4
    <3> QED BY <2>2, <2>4, <3>1 DEF FirstAtTail
  <2> QED BY <2>3, <2>4
<1>12. Stored(new, d)
  <2> SUFFICES ASSUME NEW i \in 1 .. Len(new)
               PROVE  Intact(d, new[i].pos, new[i].frame)
    BY DEF Stored
  <2>1. i + 1 \in 1 .. Len(ring) /\ new[i] = ring[i + 1]
    BY <1>3
  <2> QED BY <2>1 DEF RingInv, Stored
<1>13. RingInv(new, head, next, d)
  BY <1>3, <1>7, <1>8, <1>9, <1>10, <1>11, <1>12 DEF RingInv
<1> QED BY <1>13 DEF new, next, n

-----------------------------------------------------------------------------
(* The frames of the records, which the abstract channel carries.          *)
Frames(ring) == [i \in 1 .. Len(ring) |-> ring[i].frame]

LEMMA FramesType ==
  ASSUME NEW ring \in Seq(Entry)
  PROVE  /\ Frames(ring) \in Seq(Frame)
         /\ Len(Frames(ring)) = Len(ring)
         /\ \A i \in 1 .. Len(ring) : Frames(ring)[i] = ring[i].frame
<1>1. Len(ring) \in Nat /\ \A i \in 1 .. Len(ring) : ring[i] \in Entry
  OBVIOUS
<1>2. \A i \in 1 .. Len(ring) : ring[i].frame \in Frame
  BY <1>1, EntryFacts
<1>3. Frames(ring) \in [1 .. Len(ring) -> Frame]
  BY <1>2 DEF Frames
<1> QED BY <1>1, <1>3 DEF Frames

LEMMA FramesAppend ==
  ASSUME NEW ring \in Seq(Entry), NEW e \in Entry
  PROVE  Frames(Append(ring, e)) = Append(Frames(ring), e.frame)
<1> DEFINE s == Frames(Append(ring, e))
           t == Append(Frames(ring), e.frame)
<1>1. e.frame \in Frame
  BY EntryFacts
<1>2. /\ Append(ring, e) \in Seq(Entry) /\ Len(Append(ring, e)) = Len(ring) + 1
      /\ Len(ring) \in Nat
      /\ \A i \in 1 .. Len(ring) : Append(ring, e)[i] = ring[i]
      /\ Append(ring, e)[Len(ring) + 1] = e
  BY AppendProperties
<1>3. /\ s \in Seq(Frame) /\ Len(s) = Len(ring) + 1
      /\ \A i \in 1 .. Len(ring) + 1 : s[i] = Append(ring, e)[i].frame
  BY <1>2, FramesType
<1>4. /\ t \in Seq(Frame) /\ Len(t) = Len(ring) + 1
      /\ \A i \in 1 .. Len(ring) : t[i] = ring[i].frame
      /\ t[Len(ring) + 1] = e.frame
  <2>1. /\ Frames(ring) \in Seq(Frame) /\ Len(Frames(ring)) = Len(ring)
        /\ \A i \in 1 .. Len(ring) : Frames(ring)[i] = ring[i].frame
    BY FramesType
  <2> QED BY <1>1, <2>1, AppendProperties
<1> HIDE DEF s, t
<1>5. ASSUME NEW i \in 1 .. Len(s) PROVE s[i] = t[i]
  <2>1. CASE i = Len(ring) + 1
    BY <1>2, <1>3, <1>4, <2>1
  <2>2. CASE i \in 1 .. Len(ring)
    BY <1>2, <1>3, <1>4, <2>2
  <2> QED BY <1>2, <1>3, <2>1, <2>2
<1>6. s = t
  BY <1>3, <1>4, <1>5, SeqEqual
<1> QED BY <1>6 DEF s, t

LEMMA FramesTail ==
  ASSUME NEW ring \in Seq(Entry), ring # <<>>
  PROVE  /\ Frames(Tail(ring)) = Tail(Frames(ring))
         /\ Frames(ring) # <<>>
         /\ Head(Frames(ring)) = ring[1].frame
<1> DEFINE s == Frames(Tail(ring))
           t == Tail(Frames(ring))
<1>1. /\ Frames(ring) \in Seq(Frame) /\ Len(Frames(ring)) = Len(ring)
      /\ \A i \in 1 .. Len(ring) : Frames(ring)[i] = ring[i].frame
      /\ Len(ring) \in Nat /\ 1 <= Len(ring)
  BY FramesType
<1>2. Frames(ring) # <<>>
  BY <1>1
<1>3. /\ Tail(ring) \in Seq(Entry) /\ Len(Tail(ring)) = Len(ring) - 1
      /\ \A i \in 1 .. Len(ring) - 1 : Tail(ring)[i] = ring[i + 1]
  BY <1>1, HeadTailProperties
<1>4. /\ s \in Seq(Frame) /\ Len(s) = Len(ring) - 1
      /\ \A i \in 1 .. Len(ring) - 1 : s[i] = ring[i + 1].frame
  BY <1>3, FramesType
<1>5. /\ t \in Seq(Frame) /\ Len(t) = Len(ring) - 1
      /\ \A i \in 1 .. Len(ring) - 1 : t[i] = Frames(ring)[i + 1]
  <2> HIDE DEF Frames
  <2> QED BY <1>1, <1>2, HeadTailProperties
<1> HIDE DEF s, t
<1>6. ASSUME NEW i \in 1 .. Len(s) PROVE s[i] = t[i]
  <2>1. i \in 1 .. Len(ring) - 1 /\ i + 1 \in 1 .. Len(ring)
    BY <1>1, <1>4
  <2> QED BY <1>1, <1>4, <1>5, <2>1
<1>7. s = t
  BY <1>4, <1>5, <1>6, SeqEqual
<1>8. Head(Frames(ring)) = ring[1].frame
  BY <1>1
<1> QED BY <1>2, <1>7, <1>8 DEF s, t

=============================================================================
