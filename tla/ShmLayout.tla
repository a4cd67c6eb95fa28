----------------------------- MODULE ShmLayout -----------------------------
(***************************************************************************)
(* One byte ring of the shared-memory block                                *)
(* (shared/esp32s31-hosted-shm.h): the arithmetic of the head and tail     *)
(* counters and the layout of the records.  The ring is kept in 32-bit     *)
(* words: a record is the word of the frame length, then the words of the  *)
(* frame.  Both drivers have the same copies of these functions.           *)
(***************************************************************************)
EXTENDS Naturals, Sequences

CONSTANTS Size,      \* bytes of the ring: ESP_SHM_TO_FW_SIZE, ESP_SHM_TO_HOST_SIZE
          Mod,       \* head and tail wrap here: 2^32 in the code
          MinLen,    \* sizeof(struct esp_payload_header)
          FrameMax,  \* the longest frame the producer may send
          Ids        \* bound: frames that are sent, named 0 .. Ids - 1

RecordLen(len) == 4 + 4 * ((len + 3) \div 4)

ASSUME SizeAssumption ==
  /\ Size \in Nat /\ Mod \in Nat
  /\ 0 < Size /\ Size < Mod
  /\ Size % 4 = 0 /\ Mod % Size = 0

(* The two _Static_asserts of shm_slave_api.c: a ring holds a maximum frame. *)
ASSUME FrameAssumption ==
  /\ MinLen \in Nat /\ FrameMax \in Nat
  /\ 0 < MinLen /\ MinLen <= FrameMax
  /\ RecordLen(FrameMax) <= Size

ASSUME IdsAssumption == Ids \in Nat /\ 0 < Ids

Count == 0 .. Mod - 1
FrameLens == MinLen .. FrameMax
Frame == [id : 0 .. Ids - 1, len : FrameLens]

(* u32 addition and subtraction of two counters.                           *)
Add(a, b) == IF a + b < Mod THEN a + b ELSE a + b - Mod
Sub(a, b) == IF b <= a THEN a - b ELSE a + Mod - b

(***************************************************************************)
(* The ring memory.  A word is a pair: <<len, 0>> is the length word of a  *)
(* record, <<id, k>> with k > 0 is the k-th word of frame id.  The block   *)
(* starts zeroed.                                                          *)
(***************************************************************************)
Words == 0 .. (Size \div 4) - 1
ZeroWords == [w \in Words |-> <<0, 0>>]

(* pos & (size - 1), in words.                                             *)
WordAt(pos) == (pos % Size) \div 4

FrameWords(len) == (len + 3) \div 4

(* ring_copy_in() of the frame at pos + 4 and of its length at pos; the    *)
(* copy continues at the start of the ring where it meets its end.         *)
ring_copy_in(data, pos, f) ==
  [w \in Words |->
     LET k == (w + Size \div 4 - WordAt(pos)) % (Size \div 4)
     IN  IF k = 0 THEN <<f.len, 0>>
         ELSE IF k <= FrameWords(f.len) THEN <<f.id, k>>
         ELSE data[w]]

(* The length word at pos.  A frame word in its place gives a length that  *)
(* no check accepts.                                                       *)
LenAt(data, pos) ==
  LET w == data[WordAt(pos)] IN IF w[2] = 0 THEN w[1] ELSE 0

(* ring_copy_out() of a frame of len bytes at pos + 4: the frame, or one   *)
(* with no name when its words are not those of one frame.                 *)
NoFrame == [id |-> Ids, len |-> 0]

ring_copy_out(data, pos, len) ==
  LET word(k) == data[WordAt(Add(pos, 4 * k))]
  IN  IF \A k \in 1 .. FrameWords(len) : word(k) = <<word(1)[1], k>>
      THEN [id |-> word(1)[1], len |-> len]
      ELSE [id |-> Ids, len |-> len]

(* The check of a length word before the frame is read: head is the head   *)
(* the consumer loaded, max its own limit of a frame.                      *)
LenOk(len, max, head, tail) ==
  /\ MinLen <= len /\ len <= max
  /\ RecordLen(len) <= Sub(head, tail)

=============================================================================
