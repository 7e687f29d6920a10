---------------------- MODULE StreamReassemblerProofs ----------------------
(***************************************************************************)
(* The reassembler is correct for every capacity, every stream and every   *)
(* order, overlap and repetition of the substrings, as long as no          *)
(* substring starts beyond the window.                                     *)
(***************************************************************************)
EXTENDS StreamReassemblerSpec, FiniteSetTheorems, SequenceTheorems, WellFoundedInduction, TLAPS

-----------------------------------------------------------------------------
(* Where a slot lies: at the separator plus k, or one lap before that.     *)
LEMMA SlotValue ==
  ASSUME NEW s \in 0 .. Capacity - 1, NEW k \in 0 .. Capacity - 1
  PROVE  (s + k) % Capacity = IF s + k < Capacity THEN s + k ELSE s + k - Capacity
  BY ReassemblerAssumption, Z3

(* Different distances from the separator are different slots.             *)
LEMMA SlotInjective ==
  ASSUME NEW s \in 0 .. Capacity - 1,
         NEW j \in 0 .. Capacity - 1, NEW k \in 0 .. Capacity - 1,
         (s + j) % Capacity = (s + k) % Capacity
  PROVE  j = k
<1>1. (s + j) % Capacity = IF s + j < Capacity THEN s + j ELSE s + j - Capacity
  BY SlotValue
<1>2. (s + k) % Capacity = IF s + k < Capacity THEN s + k ELSE s + k - Capacity
  BY SlotValue
<1> QED
  BY <1>1, <1>2, ReassemblerAssumption

(* Every slot lies at some distance from the separator.                    *)
LEMMA SlotSurjective ==
  ASSUME NEW s \in 0 .. Capacity - 1, NEW b \in 0 .. Capacity - 1
  PROVE  \E k \in 0 .. Capacity - 1 : (s + k) % Capacity = b
<1> DEFINE k == IF b >= s THEN b - s ELSE b - s + Capacity
<1>1. k \in 0 .. Capacity - 1
  BY ReassemblerAssumption
<1>2. (s + k) % Capacity = IF s + k < Capacity THEN s + k ELSE s + k - Capacity
  BY <1>1, SlotValue
<1>3. (s + k) % Capacity = b
  BY <1>2, ReassemblerAssumption
<1> QED
  BY <1>1, <1>3

(* Moving the separator by count slots moves every slot by count, around   *)
(* the end of the ring where necessary.                                    *)
LEMMA SlotShift ==
  ASSUME NEW s \in 0 .. Capacity - 1, NEW count \in 0 .. Capacity,
         NEW k \in 0 .. Capacity - 1
  PROVE  LET t == (s + count) % Capacity
         IN  /\ t \in 0 .. Capacity - 1
             /\ (t + k) % Capacity =
                  IF k + count < Capacity THEN (s + (k + count)) % Capacity
                  ELSE (s + (k + count - Capacity)) % Capacity
<1> DEFINE t == (s + count) % Capacity
<1>1. t = IF s + count < Capacity THEN s + count ELSE s + count - Capacity
  <2>1. CASE count < Capacity
    <3>1. count \in 0 .. Capacity - 1
      BY <2>1, ReassemblerAssumption
    <3> QED
      BY <3>1, SlotValue
  <2>2. CASE count = Capacity
    BY <2>2, ReassemblerAssumption, Z3
  <2> QED
    BY <2>1, <2>2, ReassemblerAssumption
<1>2. t \in 0 .. Capacity - 1
  BY <1>1, ReassemblerAssumption
<1>3. (t + k) % Capacity = IF t + k < Capacity THEN t + k ELSE t + k - Capacity
  BY <1>2, SlotValue
<1>4. CASE k + count < Capacity
  <2>1. k + count \in 0 .. Capacity - 1
    BY <1>4, ReassemblerAssumption
  <2>2. (s + (k + count)) % Capacity =
          IF s + (k + count) < Capacity THEN s + (k + count) ELSE s + (k + count) - Capacity
    BY <2>1, SlotValue
  <2> QED
    BY <1>1, <1>2, <1>3, <1>4, <2>2, ReassemblerAssumption
<1>5. CASE k + count >= Capacity
  <2>1. k + count - Capacity \in 0 .. Capacity - 1
    BY <1>5, ReassemblerAssumption
  <2>2. (s + (k + count - Capacity)) % Capacity =
          IF s + (k + count - Capacity) < Capacity THEN s + (k + count - Capacity)
          ELSE s + (k + count - Capacity) - Capacity
    BY <2>1, SlotValue
  <2> QED
    BY <1>1, <1>2, <1>3, <1>5, <2>2, ReassemblerAssumption
<1> QED
  BY <1>2, <1>4, <1>5, ReassemblerAssumption
-----------------------------------------------------------------------------
(* The objects the reassembler can be, and the two halves of what makes    *)
(* one consistent: its output stream holds the bytes that follow the ones  *)
(* already read, and its ring holds bytes of the window, in their slots.   *)
Obj ==
  [ output                  : BS!Type(Byte),
    capacity                : {Capacity},
    unassembled_buffer      : [0 .. Capacity - 1 -> Byte \cup {Blank}],
    occupied                : [0 .. Capacity - 1 -> BOOLEAN],
    seperator               : 0 .. Capacity - 1,
    first_unassembled_index : Nat,
    unassembled_bytes       : Int,
    is_eof_data_received    : BOOLEAN ]

OutputOK(q) ==
  /\ q.output.total_capacity = Capacity
  /\ Len(q.output.buffer) <= Capacity
  /\ q.output.total_written_bytes = q.first_unassembled_index
  /\ q.first_unassembled_index = q.output.total_read_bytes + Len(q.output.buffer)
  /\ \A i \in 1 .. Len(q.output.buffer) :
        q.output.buffer[i] = q.output.total_read_bytes + i - 1

Room(q) == Capacity - Len(q.output.buffer)

RingOK(q) ==
  \A k \in 0 .. Capacity - 1 :
    q.occupied[slot(q, k)] =>
      /\ k < Room(q)
      /\ q.unassembled_buffer[slot(q, k)] = q.first_unassembled_index + k

Free(q) == ~q.occupied[slot(q, 0)]

(* A slot of an object is a slot of the ring.                              *)
LEMMA SlotInRange ==
  ASSUME NEW q \in Obj, NEW k \in Nat
  PROVE  slot(q, k) = (q.seperator + k) % Capacity /\ slot(q, k) \in 0 .. Capacity - 1
<1>1. q.capacity = Capacity /\ q.seperator \in 0 .. Capacity - 1
  BY DEF Obj
<1>2. q.seperator + k \in Nat
  BY <1>1, ReassemblerAssumption
<1>3. \A x \in Nat : x % Capacity \in 0 .. Capacity - 1
  BY ReassemblerAssumption, Z3
<1> QED
  BY <1>1, <1>2, <1>3 DEF slot

(* What store_data() can store of a substring that starts inside the       *)
(* window or at its edge: the subtraction does not wrap.                   *)
LEMMA StoredCount ==
  ASSUME NEW q \in Obj, OutputOK(q), NEW index \in Nat, NEW len \in Nat,
         index <= q.first_unassembled_index + Room(q)
  PROVE  LET n == bytes_can_be_stored(q, Substring(index, len), index)
         IN  /\ n \in 0 .. len
             /\ index + n <= q.first_unassembled_index + Room(q)
             /\ n = len \/ index + n = q.first_unassembled_index + Room(q)
<1> DEFINE data == Substring(index, len)
           edge == Capacity - Len(q.output.buffer) + q.first_unassembled_index
<1>1. Len(data) = len
  BY DEF Substring
<1>2. /\ q.capacity = Capacity
      /\ q.first_unassembled_index \in Nat
      /\ Len(q.output.buffer) \in Nat
  BY LenProperties DEF Obj, BS!Type
<1>3. edge \in Nat /\ index <= edge
  BY <1>2, ReassemblerAssumption DEF OutputOK, Room
<1>4. minus(edge, index) = edge - index
  BY <1>3 DEF minus
<1>5. bytes_can_be_stored(q, data, index) = IF len < edge - index THEN len ELSE edge - index
  BY <1>1, <1>2, <1>4 DEF bytes_can_be_stored, BS!Smaller, BS!buffer_size
<1> HIDE DEF edge
<1> QED
  <2>1. edge = q.first_unassembled_index + Room(q)
    BY <1>2, ReassemblerAssumption DEF edge, Room
  <2> QED
    BY <1>3, <1>5, <2>1

(* The loop of store_data() visits a slot of the ring at most once: with   *)
(* the one byte of the data that belongs there, if it is stored at all.    *)
LEMMA StoredInSlot ==
  ASSUME NEW q \in Obj, OutputOK(q), NEW index \in Nat, NEW len \in Nat,
         index <= q.first_unassembled_index + Room(q),
         NEW k \in 0 .. Capacity - 1
  PROVE  LET data == Substring(index, len)
             n    == bytes_can_be_stored(q, data, index)
             j    == q.first_unassembled_index + k - index
         IN  stored_in(q, data, index, slot(q, k)) =
               IF 0 <= j /\ j < n THEN {j} ELSE {}
<1> DEFINE data  == Substring(index, len)
           n     == bytes_can_be_stored(q, data, index)
           first == q.first_unassembled_index
           begin == IF index < first THEN first - index ELSE 0
           j     == first + k - index
<1>1. /\ first \in Nat
      /\ q.seperator \in 0 .. Capacity - 1
      /\ Len(q.output.buffer) \in Nat
  BY LenProperties DEF Obj, BS!Type
<1>2. n \in 0 .. len /\ index + n <= first + Room(q)
  BY StoredCount
<1>3. Room(q) \in 0 .. Capacity
  BY <1>1, ReassemblerAssumption DEF OutputOK, Room
<1>4. stored_in(q, data, index, slot(q, k)) =
        {i \in begin .. n - 1 : slot(q, i + index - first) = slot(q, k)}
  BY DEF stored_in
<1>5. ASSUME NEW i \in begin .. n - 1
      PROVE  i + index - first \in 0 .. Capacity - 1
  <2>1. /\ i \in Int /\ i <= n - 1
        /\ i >= begin
        /\ begin \in Nat /\ begin >= first - index
    BY <1>1, <1>2
  <2> HIDE DEF n, begin, first, data
  <2> QED
    BY <1>1, <1>2, <1>3, <2>1, ReassemblerAssumption
<1>6. ASSUME NEW i \in begin .. n - 1, slot(q, i + index - first) = slot(q, k)
      PROVE  i = j
  <2>1. i + index - first \in 0 .. Capacity - 1
    BY <1>5
  <2>2. i + index - first \in Nat /\ k \in Nat
    BY <2>1, ReassemblerAssumption
  <2>3. (q.seperator + (i + index - first)) % Capacity = (q.seperator + k) % Capacity
    BY <1>6, <2>2, SlotInRange
  <2>4. i + index - first = k
    BY <1>1, <2>1, <2>3, SlotInjective, Zenon
  <2>5. i \in Int /\ first \in Int /\ index \in Int
    BY <1>1, <1>2
  <2> HIDE DEF first
  <2> QED
    BY <2>4, <2>5
<1>7. CASE 0 <= j /\ j < n
  <2>1. /\ j \in Int /\ n \in Int /\ k \in Nat
        /\ j = (first + k) - index
        /\ begin = IF index < first THEN first - index ELSE 0
    BY <1>1, <1>2, ReassemblerAssumption
  <2>2. j \in begin .. n - 1 /\ j + index - first = k
    <3> HIDE DEF begin, j, n, first
    <3> QED
      BY <1>1, <1>7, <2>1
  <2>3. slot(q, j + index - first) = slot(q, k)
    BY <2>2
  <2>4. stored_in(q, data, index, slot(q, k)) = {j}
    <3> HIDE DEF j, n, begin, first, data
    <3> QED
      BY <1>4, <1>6, <2>2, <2>3
  <2> QED
    BY <1>7, <2>4
<1>8. CASE ~(0 <= j /\ j < n)
  <2>1. j \notin begin .. n - 1
    BY <1>1, <1>2, <1>8, ReassemblerAssumption
  <2>2. stored_in(q, data, index, slot(q, k)) = {}
    <3> HIDE DEF j, n, begin, first, data
    <3> QED
      BY <1>4, <1>6, <2>1
  <2> QED
    BY <1>8, <2>2
<1> QED
  BY <1>7, <1>8

(* store_data() leaves a consistent ring behind, in which exactly the      *)
(* bytes of the substring that fit the window are waiting in addition.     *)
LEMMA StoreEffect ==
  ASSUME NEW q \in Obj, OutputOK(q), RingOK(q),
         NEW index \in Nat, NEW len \in Nat, index + len <= StreamLen,
         index <= q.first_unassembled_index + Room(q)
  PROVE  LET data == Substring(index, len)
             n    == bytes_can_be_stored(q, data, index)
             s    == store_data(q, data, index)
         IN  /\ s \in Obj
             /\ s.output = q.output
             /\ s.seperator = q.seperator
             /\ s.first_unassembled_index = q.first_unassembled_index
             /\ s.is_eof_data_received = q.is_eof_data_received
             /\ \A k \in 0 .. Capacity - 1 :
                  s.occupied[slot(q, k)] <=>
                    \/ q.occupied[slot(q, k)]
                    \/ /\ index <= q.first_unassembled_index + k
                       /\ q.first_unassembled_index + k < index + n
             /\ RingOK(s)
<1> DEFINE data   == Substring(index, len)
           n      == bytes_can_be_stored(q, data, index)
           s      == store_data(q, data, index)
           first  == q.first_unassembled_index
           hit(b) == stored_in(q, data, index, b)
           ubuf   == [b \in Slots(q) |-> IF hit(b) = {} THEN q.unassembled_buffer[b]
                                         ELSE data[Max(hit(b)) + 1]]
           occ    == [b \in Slots(q) |-> q.occupied[b] \/ hit(b) # {}]
           cnt    == q.unassembled_bytes + newly_occupied(q, data, index)
<1>1. /\ first \in Nat
      /\ q.seperator \in 0 .. Capacity - 1
      /\ q.capacity = Capacity
      /\ Len(q.output.buffer) \in Nat
      /\ Slots(q) = 0 .. Capacity - 1
      /\ q.unassembled_buffer \in [0 .. Capacity - 1 -> Byte \cup {Blank}]
      /\ q.occupied \in [0 .. Capacity - 1 -> BOOLEAN]
      /\ q.unassembled_bytes \in Int
  BY LenProperties DEF Obj, BS!Type, Slots
<1>2. n \in 0 .. len /\ index + n <= first + Room(q)
  BY StoredCount
<1>3. Room(q) \in 0 .. Capacity
  BY <1>1, ReassemblerAssumption DEF OutputOK, Room
<1>4. ASSUME NEW k \in 0 .. Capacity - 1
      PROVE  hit(slot(q, k)) = IF 0 <= first + k - index /\ first + k - index < n
                               THEN {first + k - index} ELSE {}
  BY StoredInSlot
<1>5. ASSUME NEW k \in 0 .. Capacity - 1, hit(slot(q, k)) # {}
      PROVE  /\ index <= first + k
             /\ first + k < index + n
             /\ data[Max(hit(slot(q, k))) + 1] = first + k
             /\ first + k \in Byte
  <2> DEFINE j == first + k - index
  <2> HIDE DEF hit, n, data, first
  <2>0. first \in Int /\ first >= 0 /\ k \in Int /\ k >= 0
    BY <1>1, ReassemblerAssumption
  <2>1. j \in Nat /\ j < n /\ hit(slot(q, k)) = {j}
    <3>1. 0 <= j /\ j < n /\ hit(slot(q, k)) = {j}
      BY <1>4, <1>5
    <3> QED
      BY <2>0, <3>1
  <2> HIDE DEF j
  <2>2. Max({j}) = j
    BY <2>1 DEF Max
  <2>3. j + 1 \in 1 .. len
    BY <1>2, <2>1
  <2>4. data[j + 1] = index + (j + 1) - 1
    BY <2>3 DEF data, Substring
  <2>5. index + (j + 1) - 1 = first + k /\ first + k \in Nat
    BY <2>0 DEF j
  <2>6. index <= first + k /\ first + k < index + n
    BY <1>2, <2>0, <2>1 DEF j
  <2>7. first + k \in Byte
    BY <1>2, <2>3, <2>5, <2>6, ReassemblerAssumption DEF Byte
  <2> QED
    BY <2>1, <2>2, <2>4, <2>5, <2>6, <2>7
<1>6. \A b \in 0 .. Capacity - 1 : \E k \in 0 .. Capacity - 1 : b = slot(q, k)
  <2> TAKE b \in 0 .. Capacity - 1
  <2>1. PICK k \in 0 .. Capacity - 1 : (q.seperator + k) % Capacity = b
    BY <1>1, SlotSurjective, Zenon
  <2> QED
    BY <1>1, <2>1 DEF slot
<1> HIDE DEF hit, n, data
<1>7. ubuf \in [0 .. Capacity - 1 -> Byte \cup {Blank}]
  <2>1. SUFFICES ASSUME NEW b \in 0 .. Capacity - 1
                 PROVE  ubuf[b] \in Byte \cup {Blank}
    BY <1>1
  <2>2. PICK k \in 0 .. Capacity - 1 : b = slot(q, k)
    BY <1>6
  <2>3. CASE hit(b) = {}
    BY <1>1, <2>3, Zenon
  <2>4. CASE hit(b) # {}
    <3>1. data[Max(hit(b)) + 1] \in Byte
      BY <1>5, <2>2, <2>4
    <3> QED
      BY <1>1, <2>4, <3>1
  <2> QED
    BY <2>3, <2>4
<1>8. occ \in [0 .. Capacity - 1 -> BOOLEAN]
  BY <1>1
<1>9. cnt \in Int
  <2> DEFINE N == {b \in Slots(q) : ~q.occupied[b] /\ stored_in(q, data, index, b) # {}}
  <2>1. IsFiniteSet(0 .. Capacity - 1)
    BY FS_Interval, ReassemblerAssumption
  <2>2. IsFiniteSet(N)
    BY <1>1, <2>1, FS_Subset, Zenon
  <2>3. Cardinality(N) \in Nat
    BY <2>2, FS_CardinalityType
  <2> QED
    BY <1>1, <2>3 DEF newly_occupied
<1>10. s = [q EXCEPT !.unassembled_buffer = ubuf, !.occupied = occ, !.unassembled_bytes = cnt]
  BY DEF store_data, hit
<1> HIDE DEF s, ubuf, occ, cnt
<1>11. /\ s \in Obj
       /\ s.output = q.output
       /\ s.seperator = q.seperator
       /\ s.capacity = q.capacity
       /\ s.first_unassembled_index = q.first_unassembled_index
       /\ s.is_eof_data_received = q.is_eof_data_received
       /\ s.unassembled_buffer = ubuf
       /\ s.occupied = occ
  BY <1>7, <1>8, <1>9, <1>10, Zenon DEF Obj
<1>12. ASSUME NEW k \in 0 .. Capacity - 1
       PROVE  s.occupied[slot(q, k)] <=>
                \/ q.occupied[slot(q, k)]
                \/ index <= first + k /\ first + k < index + n
  <2>1. slot(q, k) \in 0 .. Capacity - 1
    BY SlotInRange, ReassemblerAssumption
  <2>2. hit(slot(q, k)) # {} <=> 0 <= first + k - index /\ first + k - index < n
    BY <1>4
  <2>3. first \in Int /\ k \in Int /\ index \in Int /\ n \in Int
    BY <1>1, <1>2, ReassemblerAssumption
  <2> HIDE DEF first
  <2>4. 0 <= first + k - index /\ first + k - index < n
          <=> index <= first + k /\ first + k < index + n
    BY <2>3
  <2>5. hit(slot(q, k)) # {} <=> index <= first + k /\ first + k < index + n
    BY <2>2, <2>4, Zenon
  <2> QED
    BY <1>1, <1>11, <2>1, <2>5, Zenon DEF occ
<1>13. ASSUME NEW k \in 0 .. Capacity - 1, s.occupied[slot(s, k)]
       PROVE  /\ k < Room(s)
              /\ s.unassembled_buffer[slot(s, k)] = s.first_unassembled_index + k
  <2>1. slot(s, k) = slot(q, k) /\ Room(s) = Room(q)
    BY <1>11 DEF slot, Room
  <2>2. slot(q, k) \in 0 .. Capacity - 1
    BY SlotInRange, ReassemblerAssumption
  <2>3. s.unassembled_buffer[slot(q, k)] =
          IF hit(slot(q, k)) = {} THEN q.unassembled_buffer[slot(q, k)]
          ELSE data[Max(hit(slot(q, k))) + 1]
    BY <1>1, <1>11, <2>2 DEF ubuf
  <2>4. CASE hit(slot(q, k)) = {}
    <3>1. q.occupied[slot(q, k)]
      BY <1>1, <1>11, <1>13, <2>1, <2>2, <2>4, Zenon DEF occ
    <3> QED
      BY <1>11, <2>1, <2>3, <2>4, <3>1 DEF RingOK
  <2>5. CASE hit(slot(q, k)) # {}
    <3>1. first + k < index + n /\ data[Max(hit(slot(q, k))) + 1] = first + k
      BY <1>5, <2>5
    <3>2. k < Room(q)
      BY <1>1, <1>2, <1>3, <3>1, ReassemblerAssumption
    <3> QED
      BY <1>11, <2>1, <2>3, <2>5, <3>1, <3>2
  <2> QED
    BY <2>4, <2>5
<1> QED
  BY <1>11, <1>12, <1>13 DEF RingOK, s, n, data

(* A nonempty set of natural numbers has a least element, which Min finds. *)
LEMMA MinExists ==
  ASSUME NEW S \in SUBSET Nat, S # {}
  PROVE  Min(S) \in S /\ \A y \in S : Min(S) <= y
<1> DEFINE R == {p \in Nat \X Nat : p[1] < p[2]}
<1>0. IsWellFoundedOn(R, Nat)
  BY NatLessThanWellFounded DEF OpToRel
<1>1. PICK x \in S : \A y \in S : ~(<<y, x>> \in R)
  <2> HIDE DEF R
  <2> QED
    BY <1>0, WFMin, Zenon
<1>2. ASSUME NEW y \in S
      PROVE  x <= y
  <2>1. <<y, x>> \in Nat \X Nat
    OBVIOUS
  <2>2. ~(y < x)
    BY <1>1, <2>1
  <2> QED
    BY <2>2
<1> QED
  BY <1>2, Zenon DEF Min

(* The loop of write_to_output() passes occupied slots only, and stops at  *)
(* a free slot or after one lap.                                           *)
LEMMA RunLength ==
  ASSUME NEW q \in Obj
  PROVE  LET c == run_length(q)
         IN  /\ c \in 0 .. Capacity
             /\ \A k \in 0 .. Capacity - 1 : k < c => q.occupied[slot(q, k)]
             /\ c < Capacity => ~q.occupied[slot(q, c)]
<1> DEFINE S == {c \in 0 .. Capacity : c = Capacity \/ ~q.occupied[slot(q, c)]}
<1>1. run_length(q) = Min(S)
  BY Zenon DEF run_length, Obj
<1>2. S \in SUBSET Nat /\ S # {}
  <2>1. Capacity \in S
    BY ReassemblerAssumption
  <2> QED
    BY <2>1, ReassemblerAssumption
<1>3. Min(S) \in S /\ \A y \in S : Min(S) <= y
  <2> HIDE DEF S
  <2> QED
    BY <1>2, MinExists
<1>4. Min(S) \in 0 .. Capacity /\ (Min(S) = Capacity \/ ~q.occupied[slot(q, Min(S))])
  BY <1>3
<1>5. ASSUME NEW k \in 0 .. Capacity - 1, k < Min(S)
      PROVE  q.occupied[slot(q, k)]
  <2>1. SUFFICES ASSUME ~q.occupied[slot(q, k)] PROVE FALSE
    OBVIOUS
  <2>2. k \in S
    BY <2>1, ReassemblerAssumption
  <2>3. Min(S) <= k
    BY <1>3, <2>2
  <2> QED
    BY <1>4, <1>5, <2>3, ReassemblerAssumption
<1> HIDE DEF S
<1> QED
  BY <1>1, <1>4, <1>5, ReassemblerAssumption

(* ByteStream::write() accepts all of a string that fits the free space.   *)
LEMMA WriteAll ==
  ASSUME NEW o \in BS!Type(Byte), NEW data \in Seq(Byte),
         Len(data) <= BS!remaining_capacity(o)
  PROVE  LET s == BS!write(o, data)
         IN  /\ s \in BS!Type(Byte)
             /\ s.buffer = o.buffer \o data
             /\ s.total_written_bytes = o.total_written_bytes + Len(data)
             /\ s.total_read_bytes = o.total_read_bytes
             /\ s.total_capacity = o.total_capacity
             /\ s.is_input_ended = o.is_input_ended
<1> DEFINE s == [o EXCEPT !.buffer = @ \o data, !.total_written_bytes = @ + Len(data)]
<1>1. Len(data) \in Nat /\ BS!remaining_capacity(o) \in Int /\ o.buffer \in Seq(Byte)
  BY LenProperties DEF BS!Type, BS!remaining_capacity, BS!buffer_size
<1>2. BS!written_bytes(o, data) = Len(data)
  BY <1>1 DEF BS!written_bytes, BS!Smaller
<1>3. SubSeq(data, 1, Len(data)) = data
  OBVIOUS
<1>4. BS!write(o, data) = s
  BY <1>2, <1>3, Zenon DEF BS!write
<1>5. o.buffer \o data \in Seq(Byte)
  BY <1>1, ConcatProperties
<1>6. o.total_written_bytes + Len(data) \in Nat
  BY <1>1 DEF BS!Type
<1>7. s \in BS!Type(Byte)
  BY <1>5, <1>6, Zenon DEF BS!Type
<1>8. /\ s.buffer = o.buffer \o data
      /\ s.total_written_bytes = o.total_written_bytes + Len(data)
      /\ s.total_read_bytes = o.total_read_bytes
      /\ s.total_capacity = o.total_capacity
      /\ s.is_input_ended = o.is_input_ended
  BY DEF BS!Type
<1> HIDE DEF s
<1> QED
  BY <1>4, <1>7, <1>8

(* write_to_output() writes the whole run: _output accepts every byte of   *)
(* it, and the bytes that still wait keep their place relative to the      *)
(* advanced separator.                                                     *)
LEMMA WriteEffect ==
  ASSUME NEW q \in Obj, OutputOK(q), RingOK(q)
  PROVE  LET c == run_length(q)
             w == write_to_output(q)
         IN  /\ w \in Obj
             /\ OutputOK(w)
             /\ RingOK(w)
             /\ w.first_unassembled_index = q.first_unassembled_index + c
             /\ w.unassembled_bytes = q.unassembled_bytes - c
             /\ w.is_eof_data_received = q.is_eof_data_received
             /\ w.output.is_input_ended = q.output.is_input_ended
             /\ \A k \in 0 .. Capacity - 1 :
                  w.occupied[slot(w, k)] <=>
                    k + c < Capacity /\ q.occupied[slot(q, k + c)]
             /\ Free(w)
<1> DEFINE c       == run_length(q)
           w       == write_to_output(q)
           emptied == {slot(q, k) : k \in 0 .. c - 1}
           data    == [k \in 1 .. c |-> q.unassembled_buffer[slot(q, k - 1)]]
           ubuf    == [b \in Slots(q) |-> IF b \in emptied THEN Blank
                                          ELSE q.unassembled_buffer[b]]
           occ     == [b \in Slots(q) |-> q.occupied[b] /\ b \notin emptied]
           first   == q.first_unassembled_index
           out     == BS!write(q.output, data)
<1>1. /\ first \in Nat
      /\ q.seperator \in 0 .. Capacity - 1
      /\ q.capacity = Capacity
      /\ Slots(q) = 0 .. Capacity - 1
      /\ q.unassembled_bytes \in Int
      /\ q.output \in BS!Type(Byte)
  BY DEF Obj, Slots
<1>2. /\ q.unassembled_buffer \in [0 .. Capacity - 1 -> Byte \cup {Blank}]
      /\ q.occupied \in [0 .. Capacity - 1 -> BOOLEAN]
  BY DEF Obj
<1>3. /\ q.output.buffer \in Seq(Byte)
      /\ Len(q.output.buffer) \in Nat
      /\ q.output.total_read_bytes \in Nat
  BY <1>1, LenProperties DEF BS!Type
<1>4. Room(q) \in 0 .. Capacity
  BY <1>3, ReassemblerAssumption DEF OutputOK, Room
<1>5. /\ c \in 0 .. Capacity
      /\ \A k \in 0 .. Capacity - 1 : k < c => q.occupied[slot(q, k)]
      /\ c < Capacity => ~q.occupied[slot(q, c)]
  BY RunLength
<1> HIDE DEF c
<1>6. \A k \in 0 .. Capacity - 1 :
        k < c => k < Room(q) /\ q.unassembled_buffer[slot(q, k)] = first + k
  BY <1>5 DEF RingOK
<1>7. c <= Room(q)
  <2>1. CASE c = 0
    BY <1>4, <2>1, ReassemblerAssumption
  <2>2. CASE c > 0
    <3>1. c - 1 \in 0 .. Capacity - 1 /\ c - 1 < c
      BY <1>5, <2>2, ReassemblerAssumption
    <3>2. c - 1 < Room(q)
      BY <1>6, <3>1
    <3> QED
      BY <1>4, <1>5, <3>2, ReassemblerAssumption
  <2> QED
    BY <1>5, <2>1, <2>2, ReassemblerAssumption
<1>8. ASSUME NEW i \in 1 .. c
      PROVE  data[i] = first + i - 1 /\ data[i] \in Byte
  <2>1. i - 1 \in 0 .. Capacity - 1 /\ i - 1 < c /\ i - 1 \in Nat
    BY <1>5, ReassemblerAssumption
  <2>2. data[i] = q.unassembled_buffer[slot(q, i - 1)]
    OBVIOUS
  <2>3. q.unassembled_buffer[slot(q, i - 1)] = first + (i - 1)
    BY <1>6, <2>1
  <2>4. slot(q, i - 1) \in 0 .. Capacity - 1
    BY <2>1, SlotInRange
  <2>5. first + (i - 1) \in Byte \cup {Blank}
    BY <1>2, <2>3, <2>4, Zenon
  <2>6. first + (i - 1) # Blank
    BY <1>1, <2>1 DEF Blank
  <2> QED
    BY <1>1, <2>1, <2>2, <2>3, <2>5, <2>6
<1>9. data \in Seq(Byte) /\ Len(data) = c
  <2>1. c \in Nat
    BY <1>5, ReassemblerAssumption
  <2>2. \A i \in 1 .. c : data[i] \in Byte
    BY <1>8
  <2>3. data = [i \in 1 .. c |-> data[i]]
    OBVIOUS
  <2> HIDE DEF data
  <2> QED
    BY <2>1, <2>2, <2>3, IsASeq, LenProperties
<1>10. /\ out \in BS!Type(Byte)
       /\ out.buffer = q.output.buffer \o data
       /\ out.total_written_bytes = q.output.total_written_bytes + c
       /\ out.total_read_bytes = q.output.total_read_bytes
       /\ out.total_capacity = q.output.total_capacity
       /\ out.is_input_ended = q.output.is_input_ended
  <2> HIDE DEF data
  <2>1. BS!remaining_capacity(q.output) = Room(q)
    BY DEF BS!remaining_capacity, BS!buffer_size, OutputOK, Room
  <2> QED
    BY <1>1, <1>7, <1>9, <2>1, WriteAll, Zenon
<1> HIDE DEF out, data
<1>11. Len(out.buffer) = Len(q.output.buffer) + c
  <2>1. Len(q.output.buffer \o data) = Len(q.output.buffer) + Len(data)
    BY <1>3, <1>9, ConcatProperties, Zenon
  <2> QED
    BY <1>9, <1>10, <2>1
<1>12. ASSUME NEW i \in 1 .. Len(out.buffer)
       PROVE  out.buffer[i] = out.total_read_bytes + i - 1
  <2> DEFINE old == q.output.buffer
  <2>1. (old \o data)[i] = IF i <= Len(old) THEN old[i] ELSE data[i - Len(old)]
    BY <1>3, <1>9, <1>11, ConcatProperties
  <2>2. first = q.output.total_read_bytes + Len(old)
    BY DEF OutputOK
  <2>3. i \in Int /\ Len(old) \in Int /\ q.output.total_read_bytes \in Int
    BY <1>3
  <2>4. CASE i <= Len(old)
    <3>1. i \in 1 .. Len(old)
      BY <1>3, <2>4
    <3>2. old[i] = q.output.total_read_bytes + i - 1
      BY <3>1 DEF OutputOK
    <3> QED
      BY <1>10, <2>1, <2>4, <3>2
  <2>5. CASE i > Len(old)
    <3>1. i - Len(old) \in 1 .. c /\ ~(i <= Len(old))
      BY <1>3, <1>5, <1>11, <2>5, ReassemblerAssumption
    <3>2. data[i - Len(old)] = first + (i - Len(old)) - 1
      BY <1>8, <3>1
    <3> HIDE DEF first, old
    <3>3. data[i - Len(old)] = q.output.total_read_bytes + i - 1
      BY <2>2, <2>3, <3>2
    <3> QED
      BY <1>10, <2>1, <3>1, <3>3 DEF old
  <2> QED
    BY <1>3, <2>4, <2>5
<1>13. w = [q EXCEPT !.output = out, !.unassembled_buffer = ubuf, !.occupied = occ,
                     !.unassembled_bytes = @ - c, !.first_unassembled_index = @ + c,
                     !.seperator = slot(q, c)]
  BY DEF write_to_output, advanced, c, out, data
<1>14. /\ ubuf \in [0 .. Capacity - 1 -> Byte \cup {Blank}]
       /\ occ \in [0 .. Capacity - 1 -> BOOLEAN]
  BY <1>1, <1>2, Zenon
<1>15. slot(q, c) = (q.seperator + c) % Capacity /\ slot(q, c) \in 0 .. Capacity - 1
  BY <1>5, SlotInRange, ReassemblerAssumption
<1> HIDE DEF w, ubuf, occ
<1>16. /\ w \in Obj
       /\ w.output = out
       /\ w.capacity = Capacity
       /\ w.unassembled_buffer = ubuf
       /\ w.occupied = occ
       /\ w.seperator = slot(q, c)
       /\ w.first_unassembled_index = first + c
       /\ w.unassembled_bytes = q.unassembled_bytes - c
       /\ w.is_eof_data_received = q.is_eof_data_received
  <2>1. c \in Int /\ c >= 0 /\ first + c \in Nat /\ q.unassembled_bytes - c \in Int
    BY <1>1, <1>5, ReassemblerAssumption
  <2> QED
    BY <1>10, <1>13, <1>14, <1>15, <2>1, Zenon DEF Obj
<1>17. OutputOK(w)
  <2>1. Len(out.buffer) <= Capacity
    BY <1>3, <1>5, <1>7, <1>11, ReassemblerAssumption DEF Room
  <2>2. out.total_written_bytes = first + c
    BY <1>10 DEF OutputOK
  <2>3. first + c = out.total_read_bytes + Len(out.buffer)
    <3>1. first = q.output.total_read_bytes + Len(q.output.buffer)
      BY DEF OutputOK
    <3>2. c \in Int
      BY <1>5
    <3> HIDE DEF first
    <3> QED
      BY <1>3, <1>10, <1>11, <3>1, <3>2
  <2>4. out.total_capacity = Capacity
    BY <1>10 DEF OutputOK
  <2> HIDE DEF first
  <2> QED
    BY <1>12, <1>16, <2>1, <2>2, <2>3, <2>4 DEF OutputOK
<1>18. Room(w) = Room(q) - c
  <2>1. c \in Int /\ Capacity \in Int
    BY <1>5, ReassemblerAssumption
  <2>2. Room(w) = Capacity - Len(out.buffer)
    BY <1>16 DEF Room
  <2>3. Room(q) = Capacity - Len(q.output.buffer)
    BY DEF Room
  <2> QED
    BY <1>3, <1>11, <2>1, <2>2, <2>3
<1>19. ASSUME NEW k \in 0 .. Capacity - 1
       PROVE  /\ slot(w, k) \in 0 .. Capacity - 1
              /\ k + c < Capacity => /\ slot(w, k) = slot(q, k + c)
                                     /\ slot(w, k) \notin emptied
              /\ k + c >= Capacity => slot(w, k) \in emptied
  <2>1. slot(w, k) = (slot(q, c) + k) % Capacity
    BY <1>16 DEF slot
  <2>2. slot(w, k) = IF k + c < Capacity THEN (q.seperator + (k + c)) % Capacity
                     ELSE (q.seperator + (k + c - Capacity)) % Capacity
    <3>1. LET t == (q.seperator + c) % Capacity
          IN  (t + k) % Capacity =
                IF k + c < Capacity THEN (q.seperator + (k + c)) % Capacity
                ELSE (q.seperator + (k + c - Capacity)) % Capacity
      BY <1>1, <1>5, SlotShift, Zenon
    <3> QED
      BY <1>15, <2>1, <3>1
  <2>3. slot(w, k) \in 0 .. Capacity - 1
    BY <1>16, SlotInRange, ReassemblerAssumption
  <2>4. ASSUME k + c < Capacity
        PROVE  slot(w, k) = slot(q, k + c) /\ slot(w, k) \notin emptied
    <3>1. k + c \in 0 .. Capacity - 1 /\ k + c \in Nat
      BY <1>5, <2>4, ReassemblerAssumption
    <3>2. slot(w, k) = (q.seperator + (k + c)) % Capacity
      BY <2>2, <2>4
    <3>3. slot(w, k) = slot(q, k + c)
      BY <3>1, <3>2, SlotInRange
    <3>4. ASSUME NEW j \in 0 .. c - 1
          PROVE  slot(q, j) # slot(w, k)
      <4>1. j \in 0 .. Capacity - 1 /\ j \in Nat /\ j # k + c
        BY <1>5, ReassemblerAssumption
      <4>2. slot(q, j) = (q.seperator + j) % Capacity
        BY <4>1, SlotInRange
      <4> QED
        BY <1>1, <3>1, <3>2, <4>1, <4>2, SlotInjective
    <3> QED
      BY <3>3, <3>4
  <2>5. ASSUME k + c >= Capacity
        PROVE  slot(w, k) \in emptied
    <3>1. /\ k + c - Capacity \in 0 .. c - 1
          /\ k + c - Capacity \in Nat
          /\ ~(k + c < Capacity)
      BY <1>5, <2>5, ReassemblerAssumption
    <3>2. slot(w, k) = slot(q, k + c - Capacity)
      BY <2>2, <3>1, SlotInRange
    <3> QED
      BY <3>1, <3>2
  <2> QED
    BY <2>3, <2>4, <2>5
<1> HIDE DEF emptied
<1>20. ASSUME NEW k \in 0 .. Capacity - 1
       PROVE  w.occupied[slot(w, k)] <=> k + c < Capacity /\ q.occupied[slot(q, k + c)]
  <2>1. w.occupied[slot(w, k)] <=> q.occupied[slot(w, k)] /\ slot(w, k) \notin emptied
    BY <1>1, <1>16, <1>19, Zenon DEF occ
  <2>2. CASE k + c < Capacity
    BY <1>19, <2>1, <2>2
  <2>3. CASE k + c >= Capacity
    <3>1. ~(k + c < Capacity)
      BY <1>5, <2>3, ReassemblerAssumption
    <3> QED
      BY <1>19, <2>1, <2>3, <3>1
  <2> QED
    BY <1>5, <2>2, <2>3, ReassemblerAssumption
<1>21. RingOK(w)
  <2>1. SUFFICES ASSUME NEW k \in 0 .. Capacity - 1, w.occupied[slot(w, k)]
                 PROVE  /\ k < Room(w)
                        /\ w.unassembled_buffer[slot(w, k)] = w.first_unassembled_index + k
    BY DEF RingOK
  <2>2. k + c < Capacity /\ q.occupied[slot(q, k + c)]
    BY <1>20, <2>1
  <2>3. k + c \in 0 .. Capacity - 1
    BY <1>5, <2>2, ReassemblerAssumption
  <2>4. k + c < Room(q) /\ q.unassembled_buffer[slot(q, k + c)] = first + (k + c)
    BY <2>2, <2>3 DEF RingOK
  <2>5. w.unassembled_buffer[slot(w, k)] = q.unassembled_buffer[slot(q, k + c)]
    BY <1>1, <1>16, <1>19, <2>2 DEF ubuf
  <2>6. c \in Int /\ k \in Int /\ first \in Int /\ Room(q) \in Int
    BY <1>1, <1>4, <1>5
  <2> HIDE DEF first
  <2> QED
    BY <1>16, <1>18, <2>4, <2>5, <2>6
<1>22. Free(w)
  <2>1. 0 \in 0 .. Capacity - 1
    BY ReassemblerAssumption
  <2>2. 0 + c = c
    BY <1>5
  <2> QED
    BY <1>5, <1>20, <2>1, <2>2 DEF Free
<1> QED
  BY <1>10, <1>16, <1>17, <1>20, <1>21, <1>22 DEF c, w

(* A reader that pops bytes leaves the bytes that follow them.             *)
LEMMA ReadEffect ==
  ASSUME NEW q \in Obj, OutputOK(q), RingOK(q), Free(q), NEW n \in Nat
  PROVE  LET d == [q EXCEPT !.output = BS!pop_output(@, n)]
         IN  /\ d \in Obj
             /\ OutputOK(d)
             /\ RingOK(d)
             /\ Free(d)
             /\ d.output.is_input_ended = q.output.is_input_ended
<1> DEFINE d    == [q EXCEPT !.output = BS!pop_output(@, n)]
           o    == q.output
           buf  == o.buffer
           m    == BS!covered(o, n)
           rest == SubSeq(buf, m + 1, Len(buf))
           out  == BS!pop_output(o, n)
<1>1. o \in BS!Type(Byte) /\ buf \in Seq(Byte) /\ Len(buf) \in Nat /\ o.total_read_bytes \in Nat
  BY LenProperties DEF Obj, BS!Type
<1>2. m \in 0 .. Len(buf)
  BY <1>1 DEF BS!covered, BS!Smaller, BS!buffer_size
<1> HIDE DEF m
<1>3. /\ rest \in Seq(Byte)
      /\ Len(rest) = Len(buf) - m
      /\ \A i \in 1 .. Len(buf) - m : rest[i] = buf[m + i]
  <2>1. ASSUME NEW i \in m + 1 .. Len(buf) PROVE buf[i] \in Byte
    BY <1>1, <1>2, ElementOfSeq
  <2> HIDE DEF buf
  <2> QED
    BY <1>1, <1>2, <2>1, SubSeqProperties
<1> HIDE DEF rest
<1>4. out = [o EXCEPT !.buffer = rest, !.total_read_bytes = o.total_read_bytes + m,
                      !.is_eof = IF o.is_input_ended
                                 THEN o.total_written_bytes = o.total_read_bytes + m ELSE @]
  BY DEF BS!pop_output, m, rest
<1>5. /\ out \in BS!Type(Byte)
      /\ out.buffer = rest
      /\ out.total_read_bytes = o.total_read_bytes + m
      /\ out.total_written_bytes = o.total_written_bytes
      /\ out.total_capacity = o.total_capacity
      /\ out.is_input_ended = o.is_input_ended
  <2>1. o.total_read_bytes + m \in Nat
    BY <1>1, <1>2
  <2> HIDE DEF o, out
  <2> QED
    BY <1>1, <1>3, <1>4, <2>1, Zenon DEF BS!Type
<1>6. d = [q EXCEPT !.output = out]
  OBVIOUS
<1> HIDE DEF out, d
<1>7. /\ d \in Obj
      /\ d.output = out
      /\ d.capacity = q.capacity
      /\ d.seperator = q.seperator
      /\ d.occupied = q.occupied
      /\ d.unassembled_buffer = q.unassembled_buffer
      /\ d.first_unassembled_index = q.first_unassembled_index
  BY <1>5, <1>6 DEF Obj
<1>8. OutputOK(d)
  <2>1. /\ Len(buf) <= Capacity
        /\ q.first_unassembled_index = o.total_read_bytes + Len(buf)
        /\ o.total_written_bytes = q.first_unassembled_index
        /\ o.total_capacity = Capacity
        /\ \A i \in 1 .. Len(buf) : buf[i] = o.total_read_bytes + i - 1
    BY DEF OutputOK
  <2> HIDE DEF buf, o
  <2>2. Len(rest) <= Capacity
    BY <1>1, <1>2, <1>3, <2>1, ReassemblerAssumption
  <2>3. q.first_unassembled_index = out.total_read_bytes + Len(rest)
    BY <1>1, <1>2, <1>3, <1>5, <2>1
  <2>4. ASSUME NEW i \in 1 .. Len(rest)
        PROVE  rest[i] = out.total_read_bytes + i - 1
    <3>1. i \in 1 .. Len(buf) - m /\ m + i \in 1 .. Len(buf)
      BY <1>1, <1>2, <1>3
    <3>2. rest[i] = o.total_read_bytes + (m + i) - 1
      BY <1>3, <2>1, <3>1
    <3> QED
      BY <1>1, <1>2, <1>5, <3>2
  <2> QED
    BY <1>5, <1>7, <2>1, <2>2, <2>3, <2>4 DEF OutputOK
<1>9. Room(d) \in Int /\ Room(q) \in Int /\ Room(q) <= Room(d)
  <2>1. Room(q) = Capacity - Len(buf) /\ Room(d) = Capacity - Len(rest)
    BY <1>5, <1>7 DEF Room
  <2> QED
    BY <1>1, <1>2, <1>3, <2>1, ReassemblerAssumption
<1>10. \A k \in Nat : slot(d, k) = slot(q, k)
  BY <1>7 DEF slot
<1>11. RingOK(d)
  <2>1. SUFFICES ASSUME NEW k \in 0 .. Capacity - 1, d.occupied[slot(d, k)]
                 PROVE  /\ k < Room(d)
                        /\ d.unassembled_buffer[slot(d, k)] = d.first_unassembled_index + k
    BY DEF RingOK
  <2>2. k < Room(q) /\ q.unassembled_buffer[slot(q, k)] = q.first_unassembled_index + k
    BY <1>7, <1>10, <2>1, ReassemblerAssumption DEF RingOK
  <2> QED
    BY <1>7, <1>9, <1>10, <2>2, ReassemblerAssumption
<1>12. Free(d)
  BY <1>7, <1>10 DEF Free
<1> QED
  BY <1>5, <1>7, <1>8, <1>11, <1>12 DEF d

-----------------------------------------------------------------------------
(* The counter of waiting bytes.                                           *)
Waiting(q) == {b \in 0 .. Capacity - 1 : q.occupied[b]}

CountOK(q) == q.unassembled_bytes = Cardinality(Waiting(q))

(* Sets of slots are finite.                                               *)
LEMMA SlotsFinite ==
  ASSUME NEW T \in SUBSET (0 .. Capacity - 1)
  PROVE  IsFiniteSet(T) /\ Cardinality(T) \in Nat
<1>1. IsFiniteSet(0 .. Capacity - 1)
  BY FS_Interval, ReassemblerAssumption
<1>2. IsFiniteSet(T)
  BY <1>1, FS_Subset, Zenon
<1> QED
  BY <1>2, FS_CardinalityType

(* The first n places after the separator are n slots.                     *)
LEMMA RunCardinality ==
  ASSUME NEW q \in Obj, NEW n \in 0 .. Capacity
  PROVE  Cardinality({slot(q, k) : k \in 0 .. n - 1}) = n
<1> DEFINE T == {slot(q, k) : k \in 0 .. n - 1}
           f == [k \in 0 .. n - 1 |-> slot(q, k)]
<1>1. f \in Surjection(0 .. n - 1, T)
  BY DEF Surjection
<1>2. f \in Injection(0 .. n - 1, T)
  <2>1. f \in [0 .. n - 1 -> T]
    OBVIOUS
  <2>2. ASSUME NEW j \in 0 .. n - 1, NEW k \in 0 .. n - 1, f[j] = f[k]
        PROVE  j = k
    <3>1. /\ j \in 0 .. Capacity - 1 /\ j \in Nat
          /\ k \in 0 .. Capacity - 1 /\ k \in Nat
      BY ReassemblerAssumption
    <3>2. (q.seperator + j) % Capacity = (q.seperator + k) % Capacity
      BY <2>2, <3>1, SlotInRange
    <3>3. q.seperator \in 0 .. Capacity - 1
      BY DEF Obj
    <3> QED
      BY <3>1, <3>2, <3>3, SlotInjective
  <2> HIDE DEF f, T
  <2> QED
    BY <2>1, <2>2 DEF Injection, IsInjective
<1>3. n \in Int
  BY ReassemblerAssumption
<1>4. IsFiniteSet(0 .. n - 1) /\ Cardinality(0 .. n - 1) = n
  BY <1>3, FS_Interval
<1> HIDE DEF f, T
<1>5. Cardinality(T) = Cardinality(0 .. n - 1)
  BY <1>1, <1>2, <1>4, FS_Surjection
<1> QED
  BY <1>4, <1>5 DEF T

(* store_data() counts a byte once, however often it is pushed.            *)
LEMMA StoreCounts ==
  ASSUME NEW q \in Obj, CountOK(q), NEW data, NEW index
  PROVE  CountOK(store_data(q, data, index))
<1> DEFINE s      == store_data(q, data, index)
           hit(b) == stored_in(q, data, index, b)
           N      == {b \in 0 .. Capacity - 1 : ~q.occupied[b] /\ hit(b) # {}}
<1>1. Slots(q) = 0 .. Capacity - 1 /\ q.occupied \in [0 .. Capacity - 1 -> BOOLEAN]
  BY DEF Obj, Slots
<1>2. s.occupied = [b \in 0 .. Capacity - 1 |-> q.occupied[b] \/ hit(b) # {}]
  BY <1>1 DEF store_data, Obj
<1>3. s.unassembled_bytes = q.unassembled_bytes + Cardinality(N)
  BY <1>1 DEF store_data, newly_occupied, Obj
<1> HIDE DEF hit, s
<1>4. Waiting(s) = Waiting(q) \cup N /\ Waiting(q) \cap N = {}
  BY <1>1, <1>2, Zenon DEF Waiting
<1>5. /\ IsFiniteSet(Waiting(q)) /\ Cardinality(Waiting(q)) \in Nat
      /\ IsFiniteSet(N) /\ Cardinality(N) \in Nat
  BY SlotsFinite DEF Waiting
<1> HIDE DEF N
<1>6. Cardinality(Waiting(s)) = Cardinality(Waiting(q)) + Cardinality(N) - Cardinality({})
  BY <1>4, <1>5, FS_Union
<1> QED
  BY <1>3, <1>5, <1>6, FS_EmptySet DEF CountOK, s

(* write_to_output() subtracts exactly the bytes it takes out of the ring. *)
LEMMA WriteCounts ==
  ASSUME NEW q \in Obj, CountOK(q)
  PROVE  CountOK(write_to_output(q))
<1> DEFINE c == run_length(q)
           w == write_to_output(q)
           E == {slot(q, k) : k \in 0 .. c - 1}
<1>1. Slots(q) = 0 .. Capacity - 1 /\ q.occupied \in [0 .. Capacity - 1 -> BOOLEAN]
  BY DEF Obj, Slots
<1>2. w.occupied = [b \in 0 .. Capacity - 1 |-> q.occupied[b] /\ b \notin E]
  BY <1>1 DEF write_to_output, Obj
<1>3. w.unassembled_bytes = q.unassembled_bytes - c
  BY DEF write_to_output, Obj
<1>4. c \in 0 .. Capacity /\ \A k \in 0 .. Capacity - 1 : k < c => q.occupied[slot(q, k)]
  BY RunLength
<1> HIDE DEF c, w
<1>5. E \subseteq Waiting(q)
  <2>1. SUFFICES ASSUME NEW k \in 0 .. c - 1 PROVE slot(q, k) \in Waiting(q)
    OBVIOUS
  <2>2. k \in 0 .. Capacity - 1 /\ k < c /\ k \in Nat
    BY <1>4, ReassemblerAssumption
  <2> QED
    BY <1>4, <2>2, SlotInRange DEF Waiting
<1>6. Cardinality(E) = c
  BY <1>4, RunCardinality
<1> HIDE DEF E
<1>7. Waiting(w) = Waiting(q) \ E
  BY <1>1, <1>2, Zenon DEF Waiting
<1>8. IsFiniteSet(Waiting(q))
  BY SlotsFinite DEF Waiting
<1>9. Waiting(q) \cap E = E
  BY <1>5
<1>10. Cardinality(Waiting(w)) = Cardinality(Waiting(q)) - Cardinality(E)
  BY <1>7, <1>8, <1>9, FS_Difference, Zenon
<1> QED
  BY <1>3, <1>6, <1>10 DEF CountOK, w

(* What waits and what can be read fit the capacity together.              *)
LEMMA WaitingFits ==
  ASSUME NEW q \in Obj, OutputOK(q), RingOK(q)
  PROVE  Len(q.output.buffer) + Cardinality(Waiting(q)) <= Capacity
<1> DEFINE T == {slot(q, k) : k \in 0 .. Room(q) - 1}
<1>1. Len(q.output.buffer) \in Nat /\ q.seperator \in 0 .. Capacity - 1
  BY LenProperties DEF Obj, BS!Type
<1>2. Room(q) \in 0 .. Capacity
  <2>1. Len(q.output.buffer) <= Capacity
    BY DEF OutputOK
  <2>2. Room(q) = Capacity - Len(q.output.buffer)
    BY DEF Room
  <2> QED
    BY <1>1, <2>1, <2>2, ReassemblerAssumption
<1>3. Waiting(q) \subseteq T
  <2>1. SUFFICES ASSUME NEW b \in Waiting(q) PROVE b \in T
    OBVIOUS
  <2>2. b \in 0 .. Capacity - 1 /\ q.occupied[b]
    BY DEF Waiting
  <2>3. PICK k \in 0 .. Capacity - 1 : (q.seperator + k) % Capacity = b
    BY <1>1, <2>2, SlotSurjective, Zenon
  <2>4. slot(q, k) = b
    BY <2>3, SlotInRange, ReassemblerAssumption
  <2>5. k < Room(q)
    BY <2>2, <2>4 DEF RingOK
  <2>6. k \in 0 .. Room(q) - 1
    BY <1>2, <2>5, ReassemblerAssumption
  <2> QED
    BY <2>4, <2>6
<1>4. T \subseteq 0 .. Capacity - 1
  <2>1. SUFFICES ASSUME NEW k \in 0 .. Room(q) - 1 PROVE slot(q, k) \in 0 .. Capacity - 1
    OBVIOUS
  <2> QED
    BY <1>2, SlotInRange, ReassemblerAssumption
<1>5. Cardinality(T) = Room(q)
  BY <1>2, RunCardinality
<1> HIDE DEF T
<1>6. IsFiniteSet(T)
  BY <1>4, SlotsFinite
<1>7. Cardinality(Waiting(q)) <= Cardinality(T)
  BY <1>3, <1>6, FS_Subset
<1>8. Cardinality(Waiting(q)) \in Nat
  BY SlotsFinite DEF Waiting
<1> QED
  BY <1>1, <1>2, <1>5, <1>7, <1>8, ReassemblerAssumption DEF Room

-----------------------------------------------------------------------------
(* The inductive invariant: an object is consistent when its output, its   *)
(* ring and its counter are, and the next expected byte is not waiting.    *)
Consistent(q) ==
  /\ q \in Obj
  /\ OutputOK(q)
  /\ RingOK(q)
  /\ Free(q)
  /\ CountOK(q)

IInv == Consistent(r)

(* The object between store_data() and write_to_output() in                *)
(* push_substring(), and the one write_to_output() leaves behind.          *)
Stored(q, data, index, eof) ==
  [store_data(q, data, index) EXCEPT
     !.is_eof_data_received = @ \/ takes_eof(q, data, index, eof)]

Written(q, data, index, eof) == write_to_output(Stored(q, data, index, eof))

(* What storing leaves as it was, and the bytes that wait after it.        *)
StoredFrom(q, data, index, eof, s) ==
  /\ s \in Obj
  /\ OutputOK(s)
  /\ RingOK(s)
  /\ CountOK(s)
  /\ s.output = q.output
  /\ s.seperator = q.seperator
  /\ s.first_unassembled_index = q.first_unassembled_index
  /\ s.is_eof_data_received <=>
       q.is_eof_data_received \/ takes_eof(q, data, index, eof)
  /\ \A k \in 0 .. Capacity - 1 :
       s.occupied[slot(q, k)] <=>
         \/ q.occupied[slot(q, k)]
         \/ /\ index <= q.first_unassembled_index + k
            /\ q.first_unassembled_index + k <
                 index + bytes_can_be_stored(q, data, index)

(* The flag that is set after store_data() changes nothing else.           *)
LEMMA StoredEffect ==
  ASSUME NEW q, Consistent(q), NEW index \in Nat, NEW len \in Nat, NEW eof \in BOOLEAN,
         index + len <= StreamLen, index <= q.first_unassembled_index + Room(q)
  PROVE  LET data == Substring(index, len)
         IN  StoredFrom(q, data, index, eof, Stored(q, data, index, eof))
<1> DEFINE data == Substring(index, len)
           t    == store_data(q, data, index)
           e    == takes_eof(q, data, index, eof)
           s    == Stored(q, data, index, eof)
<1>1. q \in Obj /\ OutputOK(q) /\ RingOK(q) /\ CountOK(q)
  BY DEF Consistent
<1>2. /\ t \in Obj
      /\ t.output = q.output
      /\ t.seperator = q.seperator
      /\ t.first_unassembled_index = q.first_unassembled_index
      /\ t.is_eof_data_received = q.is_eof_data_received
      /\ RingOK(t)
      /\ \A k \in 0 .. Capacity - 1 :
           t.occupied[slot(q, k)] <=>
             \/ q.occupied[slot(q, k)]
             \/ /\ index <= q.first_unassembled_index + k
                /\ q.first_unassembled_index + k < index + bytes_can_be_stored(q, data, index)
  BY <1>1, StoreEffect
<1>3. CountOK(t)
  BY <1>1, StoreCounts
<1>4. e \in BOOLEAN
  BY DEF takes_eof
<1>5. s = [t EXCEPT !.is_eof_data_received = @ \/ e]
  BY DEF Stored
<1> HIDE DEF t, e, s, data
<1>6. /\ s \in Obj
      /\ s.is_eof_data_received <=> q.is_eof_data_received \/ e
      /\ s.output = t.output
      /\ s.capacity = t.capacity
      /\ s.seperator = t.seperator
      /\ s.occupied = t.occupied
      /\ s.unassembled_buffer = t.unassembled_buffer
      /\ s.unassembled_bytes = t.unassembled_bytes
      /\ s.first_unassembled_index = t.first_unassembled_index
  BY <1>2, <1>4, <1>5 DEF Obj
<1>7. OutputOK(s)
  BY <1>1, <1>2, <1>6 DEF OutputOK
<1>8. RingOK(s)
  <2>1. Room(s) = Room(t) /\ \A k \in 0 .. Capacity - 1 : slot(s, k) = slot(t, k)
    BY <1>6 DEF Room, slot
  <2> QED
    BY <1>2, <1>6, <2>1 DEF RingOK
<1>9. CountOK(s)
  BY <1>3, <1>6 DEF CountOK, Waiting
<1> QED
  BY <1>2, <1>6, <1>7, <1>8, <1>9 DEF StoredFrom, s, e, data

(* end_input() changes only the two flags of the output stream.            *)
LEMMA EndInputEffect ==
  ASSUME NEW q, Consistent(q)
  PROVE  LET d == [q EXCEPT !.output = BS!end_input(@)]
         IN  /\ Consistent(d)
             /\ d.output.is_input_ended
             /\ d.first_unassembled_index = q.first_unassembled_index
             /\ d.seperator = q.seperator
             /\ d.occupied = q.occupied
             /\ d.capacity = q.capacity
             /\ d.unassembled_buffer = q.unassembled_buffer
             /\ d.unassembled_bytes = q.unassembled_bytes
             /\ d.is_eof_data_received = q.is_eof_data_received
<1> DEFINE o == BS!end_input(q.output)
           d == [q EXCEPT !.output = BS!end_input(@)]
<1>1. q \in Obj /\ q.output \in BS!Type(Byte)
  BY DEF Consistent, Obj
<1>2. /\ o \in BS!Type(Byte)
      /\ o.is_input_ended
      /\ o.buffer = q.output.buffer
      /\ o.total_capacity = q.output.total_capacity
      /\ o.total_written_bytes = q.output.total_written_bytes
      /\ o.total_read_bytes = q.output.total_read_bytes
  BY <1>1, Zenon DEF BS!end_input, BS!Type
<1>3. d = [q EXCEPT !.output = o]
  OBVIOUS
<1> HIDE DEF o, d
<1>4. /\ d \in Obj
      /\ d.output = o
      /\ d.first_unassembled_index = q.first_unassembled_index
      /\ d.seperator = q.seperator
      /\ d.capacity = q.capacity
      /\ d.occupied = q.occupied
      /\ d.unassembled_buffer = q.unassembled_buffer
      /\ d.unassembled_bytes = q.unassembled_bytes
      /\ d.is_eof_data_received = q.is_eof_data_received
  BY <1>1, <1>2, <1>3 DEF Obj
<1>5. OutputOK(d)
  BY <1>2, <1>4 DEF OutputOK, Consistent
<1>6. Room(d) = Room(q) /\ \A k \in 0 .. Capacity - 1 : slot(d, k) = slot(q, k)
  BY <1>2, <1>4 DEF Room, slot
<1>7. RingOK(d)
  BY <1>4, <1>6 DEF RingOK, Consistent
<1>8. Free(d)
  BY <1>4, <1>6, ReassemblerAssumption DEF Free, Consistent
<1>9. CountOK(d)
  BY <1>4 DEF CountOK, Waiting, Consistent
<1> QED
  BY <1>2, <1>4, <1>5, <1>7, <1>8, <1>9 DEF Consistent, d

(* write_to_output() makes the stored object consistent again.             *)
LEMMA WrittenConsistent ==
  ASSUME NEW q, Consistent(q), NEW index \in Nat, NEW len \in Nat, NEW eof \in BOOLEAN,
         index + len <= StreamLen, index <= q.first_unassembled_index + Room(q)
  PROVE  Consistent(Written(q, Substring(index, len), index, eof))
<1> DEFINE s == Stored(q, Substring(index, len), index, eof)
<1>1. s \in Obj /\ OutputOK(s) /\ RingOK(s) /\ CountOK(s)
  <2>1. StoredFrom(q, Substring(index, len), index, eof, s)
    BY StoredEffect
  <2> QED
    BY <2>1 DEF StoredFrom
<1> HIDE DEF s
<1>2. LET w == write_to_output(s) IN w \in Obj /\ OutputOK(w) /\ RingOK(w) /\ Free(w)
  BY <1>1, WriteEffect
<1>3. CountOK(write_to_output(s))
  BY <1>1, WriteCounts
<1> QED
  BY <1>2, <1>3 DEF Consistent, Written, s

(* push_substring() ends the output or not, after it has written to it.    *)
LEMMA PushIsWritten ==
  ASSUME NEW q, NEW data, NEW index, NEW eof
  PROVE  LET w == Written(q, data, index, eof)
         IN  push_substring(q, data, index, eof) =
               IF w.is_eof_data_received /\ w.unassembled_bytes = 0
               THEN [w EXCEPT !.output = BS!end_input(@)] ELSE w
  BY DEF push_substring, Written, Stored

(* A substring inside the window leaves a consistent object behind.        *)
LEMMA PushConsistent ==
  ASSUME NEW q, Consistent(q), NEW index \in Nat, NEW len \in Nat, NEW eof \in BOOLEAN,
         index + len <= StreamLen, index <= q.first_unassembled_index + Room(q)
  PROVE  Consistent(push_substring(q, Substring(index, len), index, eof))
<1> DEFINE w == Written(q, Substring(index, len), index, eof)
<1>1. Consistent(w)
  BY WrittenConsistent
<1>2. Consistent([w EXCEPT !.output = BS!end_input(@)])
  <2> HIDE DEF w
  <2> QED
    BY <1>1, EndInputEffect
<1> QED
  BY <1>1, <1>2, PushIsWritten

(* The new reassembler is consistent.                                      *)
LEMMA InitConsistent == Init => IInv
<1> SUFFICES ASSUME Init PROVE IInv
  OBVIOUS
<1> DEFINE n == New(Capacity)
<1>1. BS!New(Capacity) \in BS!Type(Byte)
  BY ReassemblerAssumption DEF BS!New, BS!Type
<1>2. n \in Obj
  BY <1>1, ReassemblerAssumption DEF New, Obj
<1>3. /\ n.output.buffer = << >> /\ n.output.total_capacity = Capacity
      /\ n.output.total_written_bytes = 0 /\ n.output.total_read_bytes = 0
      /\ n.first_unassembled_index = 0 /\ n.unassembled_bytes = 0
      /\ n.occupied = [b \in 0 .. Capacity - 1 |-> FALSE]
  BY DEF New, BS!New
<1> HIDE DEF n
<1>4. OutputOK(n)
  BY <1>3, ReassemblerAssumption DEF OutputOK
<1>5. \A k \in 0 .. Capacity - 1 : ~n.occupied[slot(n, k)]
  BY <1>2, <1>3, SlotInRange, ReassemblerAssumption
<1>6. RingOK(n) /\ Free(n)
  BY <1>5, ReassemblerAssumption DEF RingOK, Free
<1>7. CountOK(n)
  <2>1. Waiting(n) = {}
    BY <1>3 DEF Waiting
  <2> QED
    BY <1>3, <2>1, FS_EmptySet DEF CountOK
<1> QED
  BY <1>2, <1>4, <1>6, <1>7 DEF Init, IInv, Consistent, n

(* A reader leaves a consistent object behind.                             *)
LEMMA ReadConsistent ==
  ASSUME NEW q, Consistent(q), NEW n \in Nat
  PROVE  Consistent([q EXCEPT !.output = BS!pop_output(@, n)])
<1> DEFINE d == [q EXCEPT !.output = BS!pop_output(@, n)]
<1>1. q \in Obj /\ OutputOK(q) /\ RingOK(q) /\ Free(q) /\ CountOK(q)
  BY DEF Consistent
<1>2. d \in Obj /\ OutputOK(d) /\ RingOK(d) /\ Free(d)
  BY <1>1, ReadEffect
<1>3. d.occupied = q.occupied /\ d.unassembled_bytes = q.unassembled_bytes
  BY <1>1 DEF Obj
<1> HIDE DEF d
<1>4. CountOK(d)
  BY <1>1, <1>3 DEF CountOK, Waiting
<1> QED
  BY <1>2, <1>4 DEF Consistent, d

(* What the guard of Push says about the object.                           *)
LEMMA PushGuard ==
  ASSUME ~BeyondWindow, IInv,
         NEW index \in 0 .. StreamLen, NEW len \in 0 .. MaxChunk, NEW eof \in BOOLEAN,
         Push(index, len, eof)
  PROVE  /\ index \in Nat /\ len \in Nat
         /\ index + len <= StreamLen
         /\ index <= r.first_unassembled_index + Room(r)
         /\ r' = push_substring(r, Substring(index, len), index, eof)
<1>1. BS!remaining_capacity(r.output) = Room(r)
  BY DEF IInv, Consistent, OutputOK, Room, BS!remaining_capacity, BS!buffer_size
<1> QED
  BY <1>1, ReassemblerAssumption DEF Push, WindowEdge

(* Every step inside the window keeps the object consistent.               *)
LEMMA NextConsistent ==
  ASSUME ~BeyondWindow
  PROVE  IInv /\ [Next]_vars => IInv'
<1> SUFFICES ASSUME IInv, [Next]_vars PROVE IInv'
  OBVIOUS
<1>1. CASE UNCHANGED vars
  BY <1>1 DEF vars, IInv
<1>2. ASSUME NEW index \in 0 .. StreamLen, NEW len \in 0 .. MaxChunk, NEW eof \in BOOLEAN,
             Push(index, len, eof)
      PROVE  IInv'
  <2>1. /\ index \in Nat /\ len \in Nat
        /\ index + len <= StreamLen
        /\ index <= r.first_unassembled_index + Room(r)
        /\ r' = push_substring(r, Substring(index, len), index, eof)
    BY <1>2, PushGuard
  <2> QED
    BY <2>1, PushConsistent DEF IInv
<1>3. ASSUME NEW n \in 1 .. MaxChunk, Read(n)
      PROVE  IInv'
  <2>1. n \in Nat
    BY ReassemblerAssumption
  <2> QED
    BY <1>3, <2>1, ReadConsistent DEF Read, IInv
<1> QED
  BY <1>1, <1>2, <1>3 DEF Next

(* The invariant implies the properties of StreamReassemblerSpec.          *)
LEMMA ConsistentImplies ==
  IInv => TypeOK /\ InOrderOutput /\ RingMatchesStream /\ CapacityRespected
<1> SUFFICES ASSUME IInv PROVE TypeOK /\ InOrderOutput /\ RingMatchesStream /\ CapacityRespected
  OBVIOUS
<1>1. r \in Obj /\ OutputOK(r) /\ RingOK(r) /\ Free(r) /\ CountOK(r)
  BY DEF IInv, Consistent
<1>2. Cardinality(Waiting(r)) \in Nat
  BY SlotsFinite DEF Waiting
<1>3. TypeOK
  BY <1>1, <1>2 DEF TypeOK, Obj, OutputOK, CountOK
<1>4. InOrderOutput
  <2>1. DOMAIN r.output.buffer = 1 .. Len(r.output.buffer)
    BY <1>1, LenProperties DEF Obj, BS!Type
  <2> QED
    BY <1>1, <2>1 DEF InOrderOutput, OutputOK, BS!buffer_size
<1>5. RingMatchesStream
  <2>1. SUFFICES ASSUME NEW k \in 0 .. Capacity - 1, r.occupied[slot(r, k)]
                 PROVE  /\ k > 0
                        /\ k < BS!remaining_capacity(r.output)
                        /\ r.unassembled_buffer[slot(r, k)] = r.first_unassembled_index + k
    BY DEF RingMatchesStream
  <2>2. k < Room(r) /\ r.unassembled_buffer[slot(r, k)] = r.first_unassembled_index + k
    BY <1>1, <2>1 DEF RingOK
  <2>3. k # 0
    BY <1>1, <2>1 DEF Free
  <2>4. BS!remaining_capacity(r.output) = Room(r)
    BY <1>1 DEF OutputOK, Room, BS!remaining_capacity, BS!buffer_size
  <2> QED
    BY <2>2, <2>3, <2>4, ReassemblerAssumption
<1>6. CapacityRespected
  <2>1. Slots(r) = 0 .. Capacity - 1
    BY <1>1 DEF Slots, Obj
  <2>2. Len(r.output.buffer) + Cardinality(Waiting(r)) <= Capacity
    BY <1>1, WaitingFits
  <2> QED
    BY <1>1, <2>1, <2>2 DEF CapacityRespected, CountOK, Waiting, BS!buffer_size
<1> QED
  BY <1>3, <1>4, <1>5, <1>6

(* The object keeps its type.                                              *)
THEOREM TypeCorrect ==
  ASSUME ~BeyondWindow
  PROVE  Spec => []TypeOK
<1>1. IInv => TypeOK
  BY ConsistentImplies
<1> QED
  BY <1>1, InitConsistent, NextConsistent, PTL DEF Spec

(* push_substring(): whatever the capacity, the stream and the order,      *)
(* overlap and repetition of the substrings, the output stream is the      *)
(* stream, byte by byte.                                                   *)
THEOREM OutputInOrder ==
  ASSUME ~BeyondWindow
  PROVE  Spec => []InOrderOutput
<1>1. IInv => InOrderOutput
  BY ConsistentImplies
<1> QED
  BY <1>1, InitConsistent, NextConsistent, PTL DEF Spec

(* store_data() and write_to_output(): separator, window and ring agree    *)
(* after every wrap-around of the ring.                                    *)
THEOREM RingConsistent ==
  ASSUME ~BeyondWindow
  PROVE  Spec => []RingMatchesStream
<1>1. IInv => RingMatchesStream
  BY ConsistentImplies
<1> QED
  BY <1>1, InitConsistent, NextConsistent, PTL DEF Spec

(* unassembled_bytes() counts every waiting byte once, and the waiting and *)
(* the readable bytes together respect the capacity.                       *)
THEOREM CapacityIsRespected ==
  ASSUME ~BeyondWindow
  PROVE  Spec => []CapacityRespected
<1>1. IInv => CapacityRespected
  BY ConsistentImplies
<1> QED
  BY <1>1, InitConsistent, NextConsistent, PTL DEF Spec

-----------------------------------------------------------------------------
(* The end of the stream.  Once the end mark has been taken, the last byte *)
(* of the stream has been written or is waiting.                           *)
LastByteIsIn(q) ==
  \/ q.first_unassembled_index = StreamLen
  \/ \E k \in 0 .. Capacity - 1 :
        q.first_unassembled_index + k = StreamLen - 1 /\ q.occupied[slot(q, k)]

EndOK(q) ==
  /\ q.first_unassembled_index <= StreamLen
  /\ q.is_eof_data_received => LastByteIsIn(q)
  /\ q.output.is_input_ended => q.first_unassembled_index = StreamLen

(* A waiting byte is a byte of the stream.                                 *)
LEMMA WaitingIsInStream ==
  ASSUME NEW q \in Obj, RingOK(q), NEW k \in 0 .. Capacity - 1, q.occupied[slot(q, k)]
  PROVE  q.first_unassembled_index + k < StreamLen
<1>1. slot(q, k) \in 0 .. Capacity - 1
  BY SlotInRange, ReassemblerAssumption
<1>2. q.unassembled_buffer[slot(q, k)] = q.first_unassembled_index + k
  BY DEF RingOK
<1>3. q.first_unassembled_index + k \in Byte \cup {Blank}
  BY <1>1, <1>2, Zenon DEF Obj
<1>4. q.first_unassembled_index + k \in Nat
  BY ReassemblerAssumption DEF Obj
<1> QED
  BY <1>3, <1>4, ReassemblerAssumption DEF Byte, Blank

(* What write_to_output() leaves behind of the end.                        *)
LEMMA WriteKeepsEnd ==
  ASSUME NEW s \in Obj, OutputOK(s), RingOK(s), EndOK(s)
  PROVE  EndOK(write_to_output(s))
<1> DEFINE c == run_length(s)
           w == write_to_output(s)
           first == s.first_unassembled_index
<1>1. /\ w.first_unassembled_index = first + c
      /\ w.is_eof_data_received = s.is_eof_data_received
      /\ w.output.is_input_ended = s.output.is_input_ended
      /\ \A k \in 0 .. Capacity - 1 :
           w.occupied[slot(w, k)] <=> k + c < Capacity /\ s.occupied[slot(s, k + c)]
  BY WriteEffect
<1>2. c \in 0 .. Capacity /\ \A k \in 0 .. Capacity - 1 : k < c => s.occupied[slot(s, k)]
  BY RunLength
<1>3. first \in Nat /\ first <= StreamLen
  BY DEF Obj, EndOK
<1> HIDE DEF c, w, first
<1>4. first + c <= StreamLen
  <2>1. CASE c = 0
    BY <1>3, <2>1, ReassemblerAssumption
  <2>2. CASE c > 0
    <3>1. c - 1 \in 0 .. Capacity - 1 /\ c - 1 < c
      BY <1>2, <2>2, ReassemblerAssumption
    <3>2. first + (c - 1) < StreamLen
      BY <1>2, <3>1, WaitingIsInStream DEF first
    <3> QED
      BY <1>2, <1>3, <3>2, ReassemblerAssumption
  <2> QED
    BY <1>2, <2>1, <2>2, ReassemblerAssumption
<1>5. ASSUME first = StreamLen PROVE first + c = StreamLen
  BY <1>2, <1>3, <1>4, <1>5, ReassemblerAssumption
<1>6. ASSUME w.is_eof_data_received PROVE LastByteIsIn(w)
  <2>1. LastByteIsIn(s)
    BY <1>1, <1>6 DEF EndOK
  <2>2. CASE first = StreamLen
    BY <1>1, <1>5, <2>2 DEF LastByteIsIn
  <2>3. CASE first # StreamLen
    <3>1. PICK k \in 0 .. Capacity - 1 : first + k = StreamLen - 1 /\ s.occupied[slot(s, k)]
      BY <2>1, <2>3 DEF LastByteIsIn, first
    <3>2. CASE k < c
      <4>1. first + c = StreamLen
        BY <1>2, <1>3, <1>4, <3>1, <3>2, ReassemblerAssumption
      <4> QED
        BY <1>1, <4>1 DEF LastByteIsIn
    <3>3. CASE k >= c
      <4>1. /\ k - c \in 0 .. Capacity - 1
            /\ (k - c) + c = k
            /\ k < Capacity
            /\ (first + c) + (k - c) = StreamLen - 1
        BY <1>2, <1>3, <3>1, <3>3, ReassemblerAssumption
      <4>2. w.occupied[slot(w, k - c)]
        BY <1>1, <3>1, <4>1
      <4> QED
        BY <1>1, <4>1, <4>2 DEF LastByteIsIn
    <3> QED
      BY <1>2, <3>2, <3>3, ReassemblerAssumption
  <2> QED
    BY <2>2, <2>3
<1>7. ASSUME w.output.is_input_ended PROVE first + c = StreamLen
  BY <1>1, <1>5, <1>7 DEF EndOK, first
<1> QED
  BY <1>1, <1>4, <1>6, <1>7 DEF EndOK, w

(* The end mark is taken only together with the last byte.                 *)
LEMMA StoreKeepsEnd ==
  ASSUME NEW q, Consistent(q), EndOK(q),
         NEW index \in Nat, NEW len \in Nat, NEW eof \in BOOLEAN,
         index + len <= StreamLen, index <= q.first_unassembled_index + Room(q),
         eof => index + len = StreamLen,
         ~eof \/ len > 0 \/ index <= q.first_unassembled_index
  PROVE  EndOK(Stored(q, Substring(index, len), index, eof))
<1> DEFINE data  == Substring(index, len)
           s     == Stored(q, data, index, eof)
           first == q.first_unassembled_index
           n     == bytes_can_be_stored(q, data, index)
<1>1. q \in Obj /\ OutputOK(q)
  BY DEF Consistent
<1>2. /\ s.output = q.output
      /\ s.seperator = q.seperator
      /\ s \in Obj
      /\ s.first_unassembled_index = first
      /\ s.is_eof_data_received <=> q.is_eof_data_received \/ takes_eof(q, data, index, eof)
      /\ \A k \in 0 .. Capacity - 1 :
           s.occupied[slot(q, k)] <=> \/ q.occupied[slot(q, k)]
                                      \/ index <= first + k /\ first + k < index + n
  <2>1. StoredFrom(q, data, index, eof, s)
    BY StoredEffect
  <2> QED
    BY <2>1 DEF StoredFrom
<1>3. n \in 0 .. len /\ index + n <= first + Room(q)
  BY <1>1, StoredCount
<1>4. /\ first \in Nat /\ first <= StreamLen
      /\ Room(q) \in Int /\ Room(q) <= Capacity
  <2>1. Len(q.output.buffer) \in Nat
    BY <1>1, LenProperties DEF Obj, BS!Type
  <2> QED
    BY <1>1, <2>1, ReassemblerAssumption DEF EndOK, Obj, Room
<1>5. takes_eof(q, data, index, eof) => eof /\ n = len
  <2>1. Len(data) = len
    BY DEF Substring
  <2> QED
    BY <2>1 DEF takes_eof
<1>6. \A k \in 0 .. Capacity - 1 : slot(s, k) = slot(q, k)
  BY <1>1, <1>2 DEF slot, Obj
<1> HIDE DEF s, n, data, first
<1>7. ASSUME q.is_eof_data_received PROVE LastByteIsIn(s)
  <2>1. LastByteIsIn(q)
    BY <1>7 DEF EndOK
  <2> QED
    BY <1>2, <1>6, <2>1 DEF LastByteIsIn, first
<1>8. ASSUME takes_eof(q, data, index, eof) PROVE LastByteIsIn(s)
  <2>1. eof /\ n = len /\ index + len = StreamLen
    BY <1>5, <1>8
  <2>2. CASE first = StreamLen
    BY <1>2, <2>2 DEF LastByteIsIn
  <2>3. CASE first # StreamLen
    <3> DEFINE k == StreamLen - 1 - first
    <3>1. len > 0
      BY <1>4, <2>1, <2>3, ReassemblerAssumption DEF first
    <3>2. /\ k \in 0 .. Capacity - 1
          /\ first + k = StreamLen - 1
          /\ index <= first + k /\ first + k < index + n
      BY <1>3, <1>4, <2>1, <2>3, <3>1, ReassemblerAssumption
    <3> HIDE DEF k
    <3>3. s.occupied[slot(s, k)]
      BY <1>2, <1>6, <3>2
    <3> QED
      BY <1>2, <3>2, <3>3 DEF LastByteIsIn
  <2> QED
    BY <2>2, <2>3
<1>9. s.output.is_input_ended => s.first_unassembled_index = StreamLen
  BY <1>2 DEF EndOK, first
<1> QED
  BY <1>2, <1>4, <1>7, <1>8, <1>9 DEF EndOK, s, data

(* Nothing waits any more when the last byte has been written, and the     *)
(* last byte has been written when its end is known and nothing waits.     *)
LEMMA EndOfWaiting ==
  ASSUME NEW q, Consistent(q)
  PROVE  /\ q.first_unassembled_index = StreamLen => q.unassembled_bytes = 0
         /\ q.unassembled_bytes = 0 /\ LastByteIsIn(q) => q.first_unassembled_index = StreamLen
<1>1. q \in Obj /\ RingOK(q) /\ CountOK(q) /\ q.seperator \in 0 .. Capacity - 1
  BY DEF Consistent, Obj
<1>2. ASSUME q.first_unassembled_index = StreamLen PROVE Waiting(q) = {}
  <2>1. SUFFICES ASSUME NEW b \in Waiting(q) PROVE FALSE
    OBVIOUS
  <2>2. b \in 0 .. Capacity - 1 /\ q.occupied[b]
    BY DEF Waiting
  <2>3. PICK k \in 0 .. Capacity - 1 : (q.seperator + k) % Capacity = b
    BY <1>1, <2>2, SlotSurjective, Zenon
  <2>4. slot(q, k) = b
    BY <1>1, <2>3, SlotInRange, ReassemblerAssumption
  <2>5. StreamLen + k < StreamLen
    BY <1>1, <1>2, <2>2, <2>4, WaitingIsInStream
  <2> QED
    BY <2>5, ReassemblerAssumption
<1>3. ASSUME q.unassembled_bytes = 0 PROVE Waiting(q) = {}
  <2>1. IsFiniteSet(Waiting(q))
    BY SlotsFinite DEF Waiting
  <2> QED
    BY <1>1, <1>3, <2>1, FS_EmptySet, Zenon DEF CountOK
<1>4. ASSUME NEW k \in 0 .. Capacity - 1, q.occupied[slot(q, k)] PROVE Waiting(q) # {}
  BY <1>1, <1>4, SlotInRange, ReassemblerAssumption DEF Waiting
<1> QED
  BY <1>1, <1>2, <1>3, <1>4, FS_EmptySet DEF CountOK, LastByteIsIn

(* A push keeps what is known of the end.                                  *)
LEMMA PushKeepsEnd ==
  ASSUME NEW q, Consistent(q), EndOK(q),
         NEW index \in Nat, NEW len \in Nat, NEW eof \in BOOLEAN,
         index + len <= StreamLen, index <= q.first_unassembled_index + Room(q),
         eof => index + len = StreamLen,
         ~eof \/ len > 0 \/ index <= q.first_unassembled_index
  PROVE  EndOK(push_substring(q, Substring(index, len), index, eof))
<1> DEFINE data == Substring(index, len)
           s    == Stored(q, data, index, eof)
           w    == Written(q, data, index, eof)
           d    == [w EXCEPT !.output = BS!end_input(@)]
<1>1. Consistent(w)
  BY WrittenConsistent
<1>2. EndOK(w)
  <2>1. s \in Obj /\ OutputOK(s) /\ RingOK(s)
    <3>1. StoredFrom(q, data, index, eof, s)
      BY StoredEffect
    <3> QED
      BY <3>1 DEF StoredFrom
  <2>2. EndOK(s)
    BY StoreKeepsEnd
  <2> HIDE DEF s
  <2>3. EndOK(write_to_output(s))
    BY <2>1, <2>2, WriteKeepsEnd
  <2> QED
    BY <2>3 DEF Written, s
<1>3. ASSUME w.is_eof_data_received, w.unassembled_bytes = 0
      PROVE  EndOK(d)
  <2> HIDE DEF w
  <2>1. w.first_unassembled_index = StreamLen
    BY <1>1, <1>2, <1>3, EndOfWaiting DEF EndOK
  <2>2. d.first_unassembled_index = w.first_unassembled_index
    BY <1>1, EndInputEffect
  <2> HIDE DEF d
  <2> QED
    BY <2>1, <2>2, ReassemblerAssumption DEF EndOK, LastByteIsIn
<1> QED
  BY <1>2, <1>3, PushIsWritten

(* The inductive invariant of what is known of the end.                    *)
EndInv == IInv /\ EndOK(r)

(* A new reassembler knows of no end.                                      *)
LEMMA InitEnd == Init => EndInv
<1>1. Init => EndOK(r)
  BY ReassemblerAssumption DEF Init, New, BS!New, EndOK
<1> QED
  BY <1>1, InitConsistent DEF EndInv

(* Every step keeps what is known of the end.                              *)
LEMMA NextEnd ==
  ASSUME ~BeyondWindow, ~EndOvertakes
  PROVE  EndInv /\ [Next]_vars => EndInv'
<1> SUFFICES ASSUME IInv, EndOK(r), [Next]_vars PROVE EndOK(r)' /\ IInv'
  BY DEF EndInv
<1>0. IInv'
  BY NextConsistent
<1>1. CASE UNCHANGED vars
  BY <1>0, <1>1 DEF vars, EndOK
<1>2. ASSUME NEW index \in 0 .. StreamLen, NEW len \in 0 .. MaxChunk, NEW eof \in BOOLEAN,
             Push(index, len, eof)
      PROVE  EndOK(r)'
  <2>1. /\ index \in Nat /\ len \in Nat
        /\ index + len <= StreamLen
        /\ index <= r.first_unassembled_index + Room(r)
        /\ r' = push_substring(r, Substring(index, len), index, eof)
    BY <1>2, PushGuard
  <2>2. /\ eof => index + len = StreamLen
        /\ ~eof \/ len > 0 \/ index <= r.first_unassembled_index
    BY <1>2 DEF Push
  <2>3. EndOK(push_substring(r, Substring(index, len), index, eof))
    BY <2>1, <2>2, PushKeepsEnd DEF IInv
  <2> QED
    BY <2>1, <2>3
<1>3. ASSUME NEW n \in 1 .. MaxChunk, Read(n)
      PROVE  EndOK(r)'
  <2>1. n \in Nat
    BY ReassemblerAssumption
  <2> DEFINE d == [r EXCEPT !.output = BS!pop_output(@, n)]
  <2>2. d.output.is_input_ended = r.output.is_input_ended
    BY <2>1, ReadEffect, Zenon DEF IInv, Consistent
  <2>3. /\ d.first_unassembled_index = r.first_unassembled_index
        /\ d.occupied = r.occupied
        /\ d.seperator = r.seperator
        /\ d.capacity = r.capacity
        /\ d.is_eof_data_received = r.is_eof_data_received
    BY DEF IInv, Consistent, Obj
  <2> HIDE DEF d
  <2>4. EndOK(d)
    BY <2>2, <2>3 DEF EndOK, LastByteIsIn, slot
  <2> QED
    BY <1>3, <2>4 DEF Read, d
<1> QED
  BY <1>0, <1>1, <1>2, <1>3 DEF Next

(* stream_reassembler.hh, line 43: the output ends only behind the last    *)
(* byte of the stream, as long as no bare end mark overtakes data.         *)
THEOREM EndAfterLastByte ==
  ASSUME ~BeyondWindow, ~EndOvertakes
  PROVE  Spec => []EndOnlyAfterLastByte
<1>1. EndInv => EndOnlyAfterLastByte
  BY EndOfWaiting DEF EndInv, EndOK, EndOnlyAfterLastByte, IInv, Consistent, OutputOK
<1> QED
  BY <1>1, InitEnd, NextEnd, PTL DEF Spec

-----------------------------------------------------------------------------
(* The cached flag is right: in terms of the counters, as the code has it. *)
EofOK(q) ==
  q.output.is_eof <=>
    q.output.is_input_ended /\ q.output.total_written_bytes = q.output.total_read_bytes

(* write() touches neither flag, nor the count of what was read.           *)
LEMMA WriteLeaves ==
  ASSUME NEW q \in Obj
  PROVE  LET w == write_to_output(q)
         IN  /\ w.output.is_eof = q.output.is_eof
             /\ w.output.is_input_ended = q.output.is_input_ended
             /\ w.output.total_read_bytes = q.output.total_read_bytes
<1> DEFINE w    == write_to_output(q)
           data == [k \in 1 .. run_length(q) |-> q.unassembled_buffer[slot(q, k - 1)]]
           o    == BS!write(q.output, data)
<1>1. w.output = o
  BY DEF write_to_output, Obj
<1> HIDE DEF w, data
<1>2. /\ o.is_eof = q.output.is_eof
      /\ o.is_input_ended = q.output.is_input_ended
      /\ o.total_read_bytes = q.output.total_read_bytes
  BY DEF BS!write, Obj, BS!Type
<1> QED
  BY <1>1, <1>2 DEF w

(* After a push the flag is right: either end_input() has just computed    *)
(* it, or nothing was written behind an end that had been declared before. *)
LEMMA PushKeepsEof ==
  ASSUME NEW q, Consistent(q), EndOK(q), EofOK(q),
         NEW index \in Nat, NEW len \in Nat, NEW eof \in BOOLEAN,
         index + len <= StreamLen, index <= q.first_unassembled_index + Room(q),
         EndOK(push_substring(q, Substring(index, len), index, eof))
  PROVE  EofOK(push_substring(q, Substring(index, len), index, eof))
<1> DEFINE data == Substring(index, len)
           s    == Stored(q, data, index, eof)
           w    == Written(q, data, index, eof)
           d    == [w EXCEPT !.output = BS!end_input(@)]
<1>1. Consistent(w)
  BY WrittenConsistent
<1>2. s \in Obj /\ s.output = q.output
  <2>1. StoredFrom(q, data, index, eof, s)
    BY StoredEffect
  <2> QED
    BY <2>1 DEF StoredFrom
<1>3. /\ w.output.is_eof = q.output.is_eof
      /\ w.output.is_input_ended = q.output.is_input_ended
      /\ w.output.total_read_bytes = q.output.total_read_bytes
  <2> HIDE DEF s
  <2>1. LET x == write_to_output(s)
        IN  /\ x.output.is_eof = s.output.is_eof
            /\ x.output.is_input_ended = s.output.is_input_ended
            /\ x.output.total_read_bytes = s.output.total_read_bytes
    BY <1>2, WriteLeaves
  <2> QED
    BY <1>2, <2>1 DEF Written, s
<1>4. CASE w.is_eof_data_received /\ w.unassembled_bytes = 0
  <2>1. push_substring(q, data, index, eof) = d
    BY <1>4, PushIsWritten
  <2> HIDE DEF w
  <2>2. d.output = BS!end_input(w.output) /\ w.output \in BS!Type(Byte)
    BY <1>1 DEF Consistent, Obj
  <2> DEFINE o == BS!end_input(w.output)
  <2>3. /\ o.is_input_ended
        /\ o.is_eof = (w.output.total_written_bytes = w.output.total_read_bytes)
        /\ o.total_written_bytes = w.output.total_written_bytes
        /\ o.total_read_bytes = w.output.total_read_bytes
    BY <2>2, Zenon DEF BS!end_input, BS!Type
  <2> HIDE DEF o, d
  <2>4. EofOK(d)
    BY <2>2, <2>3, Zenon DEF EofOK, o
  <2> QED
    BY <2>1, <2>4
<1>5. CASE ~(w.is_eof_data_received /\ w.unassembled_bytes = 0)
  <2>1. push_substring(q, data, index, eof) = w
    BY <1>5, PushIsWritten
  <2>2. EndOK(w)
    BY <2>1
  <2> HIDE DEF w
  <2>3. ASSUME q.output.is_input_ended
        PROVE  w.output.total_written_bytes = q.output.total_written_bytes
    BY <1>1, <1>3, <2>2, <2>3 DEF EndOK, Consistent, OutputOK
  <2>4. EofOK(w)
    BY <1>3, <2>3 DEF EofOK
  <2> QED
    BY <2>1, <2>4
<1> QED
  BY <1>4, <1>5

(* So it is after a pop, which computes it when the input has ended.       *)
LEMMA ReadKeepsEof ==
  ASSUME NEW q, Consistent(q), EofOK(q), NEW n \in Nat
  PROVE  EofOK([q EXCEPT !.output = BS!pop_output(@, n)])
<1> DEFINE d == [q EXCEPT !.output = BS!pop_output(@, n)]
           o == q.output
           m == BS!covered(o, n)
<1>1. d.output = BS!pop_output(o, n) /\ o \in BS!Type(Byte)
  BY DEF Consistent, Obj
<1> HIDE DEF d, m
<1>2. BS!pop_output(o, n) =
        [o EXCEPT !.buffer = SubSeq(@, m + 1, Len(@)),
                  !.total_read_bytes = o.total_read_bytes + m,
                  !.is_eof = IF o.is_input_ended
                             THEN o.total_written_bytes = o.total_read_bytes + m ELSE @]
  BY DEF BS!pop_output, m
<1>3. /\ d.output.is_input_ended = o.is_input_ended
      /\ d.output.total_written_bytes = o.total_written_bytes
      /\ d.output.total_read_bytes = o.total_read_bytes + m
      /\ d.output.is_eof = IF o.is_input_ended
                           THEN o.total_written_bytes = o.total_read_bytes + m ELSE o.is_eof
  BY <1>1, <1>2, Zenon DEF BS!Type
<1> HIDE DEF o
<1> QED
  BY <1>3, Zenon DEF EofOK, d, o

(* ByteStream::eof(): the flag that pop_output() and end_input() compute   *)
(* (byte_stream.cc, lines 45-72) is right at all times for the output of a *)
(* reassembler, because nothing is written behind a declared end.          *)
THEOREM EofIsExact ==
  ASSUME ~BeyondWindow, ~EndOvertakes
  PROVE  Spec => []EofExact
<1> DEFINE J == EndInv /\ EofOK(r)
<1>1. Init => J
  <2>1. Init => EofOK(r)
    BY DEF Init, New, BS!New, EofOK
  <2> QED
    BY <2>1, InitEnd
<1>2. J /\ [Next]_vars => J'
  <2> SUFFICES ASSUME EndInv, EofOK(r), [Next]_vars PROVE EofOK(r)'
    BY NextEnd
  <2>0. Consistent(r) /\ EndOK(r) /\ EndOK(r')
    BY NextEnd DEF EndInv, IInv
  <2>1. CASE UNCHANGED vars
    BY <2>1 DEF vars, EofOK
  <2>2. ASSUME NEW index \in 0 .. StreamLen, NEW len \in 0 .. MaxChunk, NEW eof \in BOOLEAN,
               Push(index, len, eof)
        PROVE  EofOK(r)'
    <3>1. /\ index \in Nat /\ len \in Nat
          /\ index + len <= StreamLen
          /\ index <= r.first_unassembled_index + Room(r)
          /\ r' = push_substring(r, Substring(index, len), index, eof)
      BY <2>2, PushGuard DEF EndInv
    <3>2. EofOK(push_substring(r, Substring(index, len), index, eof))
      BY <2>0, <3>1, PushKeepsEof
    <3> QED
      BY <3>1, <3>2
  <2>3. ASSUME NEW n \in 1 .. MaxChunk, Read(n)
        PROVE  EofOK(r)'
    <3>1. n \in Nat
      BY ReassemblerAssumption
    <3>2. EofOK([r EXCEPT !.output = BS!pop_output(@, n)])
      BY <2>0, <3>1, ReadKeepsEof
    <3> QED
      BY <2>3, <3>2 DEF Read
  <2> QED
    BY <2>1, <2>2, <2>3 DEF Next
<1>3. J => EofExact
  <2> SUFFICES ASSUME Consistent(r), EofOK(r) PROVE EofExact
    BY DEF EndInv, IInv
  <2>1. r.output.buffer \in Seq(Byte) /\ r.output.total_read_bytes \in Nat
    BY DEF Consistent, Obj, BS!Type
  <2>2. r.output.total_written_bytes = r.output.total_read_bytes + Len(r.output.buffer)
    BY DEF Consistent, OutputOK
  <2>3. Len(r.output.buffer) \in Nat /\ (Len(r.output.buffer) = 0 <=> r.output.buffer = << >>)
    BY <2>1, EmptySeq, LenProperties
  <2>4. r.output.total_written_bytes = r.output.total_read_bytes <=> r.output.buffer = << >>
    BY <2>1, <2>2, <2>3
  <2> QED
    BY <2>4, Zenon DEF EofOK, EofExact
<1> QED
  BY <1>1, <1>2, <1>3, PTL DEF Spec

-----------------------------------------------------------------------------
(* The byte that waits k slots after the first unassembled one in q is     *)
(* assembled, or still waits, in d.                                        *)
Kept(q, d, k) ==
  LET index == q.first_unassembled_index + k
      k2    == index - d.first_unassembled_index
  IN  \/ index < d.first_unassembled_index
      \/ /\ d.occupied[slot(d, k2)]
         /\ d.unassembled_buffer[slot(d, k2)] = index

(* push_substring() does not lose a byte that waits.                       *)
LEMMA PushKeepsBytes ==
  ASSUME NEW q, Consistent(q), NEW index \in Nat, NEW len \in Nat, NEW eof \in BOOLEAN,
         index + len <= StreamLen, index <= q.first_unassembled_index + Room(q),
         NEW k \in 0 .. Capacity - 1, q.occupied[slot(q, k)]
  PROVE  Kept(q, push_substring(q, Substring(index, len), index, eof), k)
<1> DEFINE data  == Substring(index, len)
           s     == Stored(q, data, index, eof)
           w     == Written(q, data, index, eof)
           d     == [w EXCEPT !.output = BS!end_input(@)]
           c     == run_length(s)
           first == q.first_unassembled_index
<1>1. /\ s \in Obj /\ OutputOK(s) /\ RingOK(s)
      /\ s.seperator = q.seperator
      /\ s.first_unassembled_index = first
      /\ s.occupied[slot(q, k)]
  <2>1. StoredFrom(q, data, index, eof, s)
    BY StoredEffect
  <2> QED
    BY <2>1 DEF StoredFrom
<1>2. slot(s, k) = slot(q, k) /\ first \in Nat
  BY <1>1 DEF slot, Consistent, Obj
<1>3. w = write_to_output(s)
  BY DEF Written
<1> HIDE DEF s, w, first
<1>4. /\ w.first_unassembled_index = first + c
      /\ RingOK(w)
      /\ \A j \in 0 .. Capacity - 1 :
           w.occupied[slot(w, j)] <=> j + c < Capacity /\ s.occupied[slot(s, j + c)]
  BY <1>1, <1>3, WriteEffect
<1>5. c \in 0 .. Capacity
  BY <1>1, RunLength
<1> HIDE DEF c
<1>6. Kept(q, w, k)
  <2>1. CASE k < c
    <3>1. first + k < first + c
      BY <1>2, <1>5, <2>1, ReassemblerAssumption
    <3> QED
      BY <1>4, <3>1 DEF Kept, first
  <2>2. CASE k >= c
    <3>1. /\ k - c \in 0 .. Capacity - 1
          /\ (k - c) + c = k
          /\ k < Capacity
          /\ (first + k) - (first + c) = k - c
          /\ (first + c) + (k - c) = first + k
      BY <1>2, <1>5, <2>2, ReassemblerAssumption
    <3>2. w.occupied[slot(w, k - c)]
      BY <1>1, <1>2, <1>4, <3>1
    <3>3. w.unassembled_buffer[slot(w, k - c)] = first + k
      BY <1>4, <3>1, <3>2 DEF RingOK
    <3> QED
      BY <1>4, <3>1, <3>2, <3>3 DEF Kept, first
  <2> QED
    BY <1>5, <2>1, <2>2, ReassemblerAssumption
<1>7. Kept(q, d, k)
  <2>1. Consistent(w)
    BY WrittenConsistent DEF w
  <2>2. /\ d.first_unassembled_index = w.first_unassembled_index
        /\ d.seperator = w.seperator
        /\ d.capacity = w.capacity
        /\ d.occupied = w.occupied
        /\ d.unassembled_buffer = w.unassembled_buffer
    BY <2>1, EndInputEffect
  <2> HIDE DEF d
  <2> QED
    BY <1>6, <2>2 DEF Kept, slot
<1> QED
  BY <1>6, <1>7, PushIsWritten DEF w

(* write_to_output() and the reader: a byte accepted out of order waits    *)
(* until it is assembled.                                                  *)
THEOREM BytesAreKept ==
  ASSUME ~BeyondWindow
  PROVE  Spec => StoredBytesAreKept
<1> DEFINE A == \A k \in 0 .. Capacity - 1 : r.occupied[slot(r, k)] => Kept(r, r', k)
<1>1. IInv /\ [Next]_vars => [A]_vars
  <2> SUFFICES ASSUME IInv, Next, NEW k \in 0 .. Capacity - 1, r.occupied[slot(r, k)]
               PROVE  Kept(r, r', k)
    OBVIOUS
  <2>1. ASSUME NEW index \in 0 .. StreamLen, NEW len \in 0 .. MaxChunk, NEW eof \in BOOLEAN,
               Push(index, len, eof)
        PROVE  Kept(r, r', k)
    <3>1. /\ index \in Nat /\ len \in Nat
          /\ index + len <= StreamLen
          /\ index <= r.first_unassembled_index + Room(r)
          /\ r' = push_substring(r, Substring(index, len), index, eof)
      BY <2>1, PushGuard
    <3> QED
      BY <3>1, PushKeepsBytes DEF IInv
  <2>2. ASSUME NEW n \in 1 .. MaxChunk, Read(n)
        PROVE  Kept(r, r', k)
    <3>1. /\ r'.first_unassembled_index = r.first_unassembled_index
          /\ r'.occupied = r.occupied
          /\ r'.seperator = r.seperator
          /\ r'.capacity = r.capacity
          /\ r'.unassembled_buffer = r.unassembled_buffer
      BY <2>2 DEF Read, IInv, Consistent, Obj
    <3>2. r.first_unassembled_index \in Nat /\ k \in Int
      BY DEF IInv, Consistent, Obj
    <3>3. (r.first_unassembled_index + k) - r.first_unassembled_index = k
      BY <3>2
    <3>4. r.unassembled_buffer[slot(r, k)] = r.first_unassembled_index + k
      BY DEF IInv, Consistent, RingOK
    <3> QED
      BY <3>1, <3>3, <3>4 DEF Kept, slot
  <2> QED
    BY <2>1, <2>2 DEF Next
<1>2. [A]_vars <=>
        [ \A k \in 0 .. Capacity - 1 :
            r.occupied[slot(r, k)] =>
              LET index == r.first_unassembled_index + k
                  k2    == index - r'.first_unassembled_index
              IN  \/ index < r'.first_unassembled_index
                  \/ /\ r'.occupied[slot(r', k2)]
                     /\ r'.unassembled_buffer[slot(r', k2)] = index ]_vars
  BY DEF Kept
<1> QED
  BY <1>1, <1>2, InitConsistent, NextConsistent, PTL DEF Spec, StoredBytesAreKept

-----------------------------------------------------------------------------
(* What the class that owns the reassembler needs to know of it.           *)

\* Is the byte with index j assembled, or does it wait in the ring?
Has(q, j) ==
  \/ j < q.first_unassembled_index
  \/ \E k \in 0 .. Capacity - 1 :
        j = q.first_unassembled_index + k /\ q.occupied[slot(q, k)]

(* push_substring() invents nothing: a byte or an end that it has          *)
(* afterwards was there before or is in the substring.  The right edge of  *)
(* the window stays where it is.                                           *)
LEMMA PushAddsOnlySubstring ==
  ASSUME NEW q, Consistent(q), NEW index \in Nat, NEW len \in Nat, NEW eof \in BOOLEAN,
         index + len <= StreamLen, index <= q.first_unassembled_index + Room(q)
  PROVE  LET d == push_substring(q, Substring(index, len), index, eof)
         IN  /\ \A j \in Nat : Has(d, j) => Has(q, j) \/ j \in index .. index + len - 1
             /\ d.is_eof_data_received => q.is_eof_data_received \/ eof
             /\ d.output.is_input_ended =>
                  q.output.is_input_ended \/ d.is_eof_data_received
             /\ q.output.is_input_ended => d.output.is_input_ended
             /\ d.first_unassembled_index + Room(d) = q.first_unassembled_index + Room(q)
<1> DEFINE data  == Substring(index, len)
           s     == Stored(q, data, index, eof)
           w     == Written(q, data, index, eof)
           d     == [w EXCEPT !.output = BS!end_input(@)]
           p     == push_substring(q, data, index, eof)
           c     == run_length(s)
           n     == bytes_can_be_stored(q, data, index)
           first == q.first_unassembled_index
<1>1. /\ s \in Obj /\ OutputOK(s) /\ RingOK(s)
      /\ s.output = q.output
      /\ s.seperator = q.seperator
      /\ s.first_unassembled_index = first
      /\ s.is_eof_data_received <=> q.is_eof_data_received \/ takes_eof(q, data, index, eof)
      /\ \A k \in 0 .. Capacity - 1 :
           s.occupied[slot(q, k)] <=>
             \/ q.occupied[slot(q, k)]
             \/ index <= first + k /\ first + k < index + n
  <2>1. StoredFrom(q, data, index, eof, s)
    BY StoredEffect
  <2> QED
    BY <2>1 DEF StoredFrom
<1>2. n \in Int /\ n <= len
  <2>1. Len(data) = len
    BY DEF Substring
  <2>2. q.capacity = Capacity /\ Len(q.output.buffer) \in Nat /\ first \in Nat
    BY DEF Consistent, Obj, BS!Type
  <2> HIDE DEF data, first
  <2> QED
    BY <2>1, <2>2, ReassemblerAssumption, U64Assumption
    DEF bytes_can_be_stored, BS!Smaller, minus, BS!buffer_size, first
<1>3. /\ first \in Nat
      /\ \A k \in 0 .. Capacity - 1 : slot(s, k) = slot(q, k)
  BY <1>1 DEF slot, Consistent, Obj
<1>4. takes_eof(q, data, index, eof) => eof
  BY DEF takes_eof
<1>5. w = write_to_output(s) /\ Consistent(w) /\ Consistent(d)
  BY WrittenConsistent, EndInputEffect DEF Written
<1>6. p = w \/ (p = d /\ w.is_eof_data_received)
  <2>1. p = IF w.is_eof_data_received /\ w.unassembled_bytes = 0 THEN d ELSE w
    BY PushIsWritten
  <2> HIDE DEF p, w, d
  <2> QED
    BY <2>1
<1>7. /\ d.first_unassembled_index = w.first_unassembled_index
      /\ d.seperator = w.seperator
      /\ d.occupied = w.occupied
      /\ d.capacity = w.capacity
      /\ d.is_eof_data_received = w.is_eof_data_received
      /\ d.output.is_input_ended
  BY <1>5, EndInputEffect
<1>8. d.output.buffer = w.output.buffer
  BY <1>5 DEF Consistent, Obj, BS!Type, BS!end_input
<1> HIDE DEF s, w, d, p, n, data
<1>9. /\ w.first_unassembled_index = first + c
      /\ w.is_eof_data_received = s.is_eof_data_received
      /\ w.output.is_input_ended = s.output.is_input_ended
      /\ \A k \in 0 .. Capacity - 1 :
           w.occupied[slot(w, k)] <=> k + c < Capacity /\ s.occupied[slot(s, k + c)]
  BY <1>1, <1>5, WriteEffect
<1>10. /\ c \in 0 .. Capacity
       /\ \A k \in 0 .. Capacity - 1 : k < c => s.occupied[slot(s, k)]
  BY <1>1, RunLength
<1>11. w.output.total_read_bytes = q.output.total_read_bytes
  BY <1>1, <1>5, WriteLeaves
<1> HIDE DEF c
<1>12. ASSUME NEW k \in 0 .. Capacity - 1, s.occupied[slot(s, k)]
       PROVE  Has(q, first + k) \/ first + k \in index .. index + len - 1
  <2>1. \/ q.occupied[slot(q, k)]
        \/ index <= first + k /\ first + k < index + n
    BY <1>1, <1>3, <1>12
  <2>2. CASE q.occupied[slot(q, k)]
    BY <2>2 DEF Has, first
  <2>3. CASE index <= first + k /\ first + k < index + n
    BY <1>2, <1>3, <2>3, ReassemblerAssumption
  <2> QED
    BY <2>1, <2>2, <2>3
<1>13. ASSUME NEW j \in Nat, Has(w, j)
       PROVE  Has(q, j) \/ j \in index .. index + len - 1
  <2>1. CASE j < first
    BY <2>1 DEF Has, first
  <2>2. CASE first <= j /\ j < first + c
    <3>1. j - first \in 0 .. Capacity - 1 /\ j - first < c /\ first + (j - first) = j
      BY <1>3, <1>10, <2>2, ReassemblerAssumption
    <3> QED
      BY <1>10, <1>12, <3>1
  <2>3. CASE first + c <= j
    <3>1. PICK k \in 0 .. Capacity - 1 : j = (first + c) + k /\ w.occupied[slot(w, k)]
      BY <1>3, <1>9, <1>10, <1>13, <2>3, ReassemblerAssumption DEF Has
    <3>2. k + c < Capacity /\ s.occupied[slot(s, k + c)]
      BY <1>9, <3>1
    <3>3. k + c \in 0 .. Capacity - 1 /\ first + (k + c) = j
      BY <1>3, <1>10, <3>1, <3>2, ReassemblerAssumption
    <3> QED
      BY <1>12, <3>2, <3>3
  <2> QED
    BY <1>3, <1>10, <2>1, <2>2, <2>3
<1>14. \A j : Has(d, j) <=> Has(w, j)
  BY <1>7 DEF Has, slot
<1>15. /\ q.first_unassembled_index = q.output.total_read_bytes + Len(q.output.buffer)
       /\ w.first_unassembled_index = w.output.total_read_bytes + Len(w.output.buffer)
       /\ q.output.total_read_bytes \in Nat
       /\ Len(q.output.buffer) \in Nat
       /\ Len(w.output.buffer) \in Nat
  <2>1. /\ q.first_unassembled_index = q.output.total_read_bytes + Len(q.output.buffer)
        /\ w.first_unassembled_index = w.output.total_read_bytes + Len(w.output.buffer)
    BY <1>5 DEF Consistent, OutputOK
  <2>2. q.output \in BS!Type(Byte) /\ w.output \in BS!Type(Byte)
    BY <1>5 DEF Consistent, Obj
  <2>3. q.output.buffer \in Seq(Byte) /\ w.output.buffer \in Seq(Byte)
        /\ q.output.total_read_bytes \in Nat
    BY <2>2 DEF BS!Type
  <2> QED
    BY <2>1, <2>3, LenProperties
<1>16. /\ w.first_unassembled_index + Room(w) = q.first_unassembled_index + Room(q)
       /\ d.first_unassembled_index + Room(d) = q.first_unassembled_index + Room(q)
  <2>1. Room(d) = Room(w)
    BY <1>8 DEF Room
  <2>2. /\ Room(q) = Capacity - Len(q.output.buffer)
        /\ Room(w) = Capacity - Len(w.output.buffer)
    BY DEF Room
  <2>3. \A i, j, m \in Nat : (m + i) + (Capacity - i) = (m + j) + (Capacity - j)
    BY ReassemblerAssumption
  <2>4. (q.output.total_read_bytes + Len(w.output.buffer)) + (Capacity - Len(w.output.buffer))
          = (q.output.total_read_bytes + Len(q.output.buffer))
              + (Capacity - Len(q.output.buffer))
    BY <1>15, <2>3
  <2>5. w.first_unassembled_index = q.output.total_read_bytes + Len(w.output.buffer)
    BY <1>11, <1>15, Zenon
  <2>6. w.first_unassembled_index + Room(w) = q.first_unassembled_index + Room(q)
    BY <1>15, <2>2, <2>4, <2>5, Zenon
  <2> QED
    BY <1>7, <2>1, <2>6
<1>17. /\ \A j \in Nat : Has(p, j) => Has(q, j) \/ j \in index .. index + len - 1
       /\ p.is_eof_data_received => q.is_eof_data_received \/ eof
       /\ p.output.is_input_ended => q.output.is_input_ended \/ p.is_eof_data_received
       /\ q.output.is_input_ended => p.output.is_input_ended
       /\ p.first_unassembled_index + Room(p) = q.first_unassembled_index + Room(q)
  <2>1. CASE p = w
    BY <1>1, <1>4, <1>9, <1>13, <1>16, <2>1
  <2>2. CASE p = d /\ w.is_eof_data_received
    <3>1. \A j \in Nat : Has(p, j) => Has(q, j) \/ j \in index .. index + len - 1
      BY <1>13, <1>14, <2>2
    <3> QED
      BY <1>1, <1>4, <1>7, <1>9, <1>16, <2>2, <3>1
  <2> QED
    BY <1>6, <2>1, <2>2
<1> QED
  BY <1>17 DEF p, data

(* A read frees window and leaves the rest alone.                          *)
LEMMA ReadOnlyFrees ==
  ASSUME NEW q, Consistent(q), NEW n \in Nat
  PROVE  LET d == [q EXCEPT !.output = BS!pop_output(@, n)]
         IN  /\ \A j : Has(d, j) <=> Has(q, j)
             /\ d.first_unassembled_index = q.first_unassembled_index
             /\ d.is_eof_data_received = q.is_eof_data_received
             /\ d.output.is_input_ended = q.output.is_input_ended
             /\ Room(d) >= Room(q)
<1> DEFINE d == [q EXCEPT !.output = BS!pop_output(@, n)]
<1>1. Consistent(d)
  BY ReadConsistent
<1>2. /\ d.first_unassembled_index = q.first_unassembled_index
      /\ d.seperator = q.seperator
      /\ d.occupied = q.occupied
      /\ d.capacity = q.capacity
      /\ d.is_eof_data_received = q.is_eof_data_received
      /\ d.output = BS!pop_output(q.output, n)
  BY DEF Consistent, Obj
<1> HIDE DEF d
<1>3. d.output.is_input_ended = q.output.is_input_ended
  BY <1>2 DEF Consistent, Obj, BS!Type, BS!pop_output
<1>4. d.output.total_read_bytes = q.output.total_read_bytes + BS!covered(q.output, n)
  BY <1>2 DEF Consistent, Obj, BS!Type, BS!pop_output
<1>5. /\ Len(q.output.buffer) \in Nat
      /\ Len(d.output.buffer) \in Nat
      /\ q.output.total_read_bytes \in Nat
      /\ q.first_unassembled_index = q.output.total_read_bytes + Len(q.output.buffer)
      /\ d.first_unassembled_index = d.output.total_read_bytes + Len(d.output.buffer)
  BY <1>1 DEF Consistent, OutputOK, Obj, BS!Type
<1>6. BS!covered(q.output, n) \in Nat
  BY <1>5 DEF BS!covered, BS!Smaller, BS!buffer_size
<1>7. Room(d) >= Room(q)
  BY <1>2, <1>4, <1>5, <1>6, ReassemblerAssumption DEF Room
<1>8. \A j : Has(d, j) <=> Has(q, j)
  BY <1>2 DEF Has, slot
<1> QED
  BY <1>2, <1>3, <1>7, <1>8 DEF d
-----------------------------------------------------------------------------
(* What holds wherever the substrings start, beyond the window too: bytes  *)
(* may then be dropped or land in the slot of another byte, but nothing    *)
(* behind the end of the stream is ever stored or counted.                 *)
RingInStream(q) ==
  \A k \in 0 .. Capacity - 1 :
    q.occupied[slot(q, k)] =>
      /\ q.first_unassembled_index + k < StreamLen
      /\ q.unassembled_buffer[slot(q, k)] \in Byte

InStream(q) ==
  /\ q \in Obj
  /\ q.output.total_capacity = Capacity
  /\ Len(q.output.buffer) <= Capacity
  /\ q.output.total_written_bytes <= q.first_unassembled_index
  /\ q.first_unassembled_index <= StreamLen
  /\ RingInStream(q)

(* The distance of a slot is the least of the indices that fall on it.     *)
LEMMA SlotLeast ==
  ASSUME NEW s \in 0 .. Capacity - 1, NEW k \in 0 .. Capacity - 1, NEW d \in Nat,
         (s + d) % Capacity = (s + k) % Capacity
  PROVE  k <= d
<1>1. CASE d < k
  <2>1. d \in 0 .. Capacity - 1
    BY <1>1, ReassemblerAssumption
  <2>2. d = k
    BY <2>1, SlotInjective
  <2> QED
    BY <1>1, <2>2
<1> QED
  BY <1>1, ReassemblerAssumption

(* A nonempty set of natural numbers below m has a greatest element.       *)
LEMMA MaxExists ==
  ASSUME NEW m \in Nat, NEW S \in SUBSET (0 .. m - 1), S # {}
  PROVE  Max(S) \in S
<1> DEFINE T == {m - y : y \in S}
<1>1. T \in SUBSET Nat /\ T # {}
  <2>1. \A y \in S : m - y \in Nat
    OBVIOUS
  <2>2. T \in SUBSET Nat
    BY <2>1
  <2>3. PICK y : y \in S
    OBVIOUS
  <2>4. m - y \in T
    BY <2>3
  <2> QED
    BY <2>2, <2>4
<1>2. Min(T) \in T /\ \A t \in T : Min(T) <= t
  <2> HIDE DEF T
  <2> QED
    BY <1>1, MinExists
<1>3. PICK x \in S : Min(T) = m - x
  BY <1>2
<1>4. ASSUME NEW y \in S PROVE x >= y
  <2>1. m - y \in T
    OBVIOUS
  <2>2. m - x <= m - y
    BY <1>2, <1>3, <2>1
  <2> QED
    BY <2>2
<1> QED
  BY <1>4, Zenon DEF Max

(* store_data() stores bytes of the substring only.                        *)
LEMMA StoreInStream ==
  ASSUME NEW q, InStream(q), NEW index \in Nat, NEW len \in Nat, NEW eof \in BOOLEAN,
         index + len <= StreamLen
  PROVE  InStream(Stored(q, Substring(index, len), index, eof))
<1> DEFINE data   == Substring(index, len)
           n      == bytes_can_be_stored(q, data, index)
           first  == q.first_unassembled_index
           begin  == IF index < first THEN first - index ELSE 0
           hit(b) == stored_in(q, data, index, b)
           ubuf   == [b \in Slots(q) |-> IF hit(b) = {} THEN q.unassembled_buffer[b]
                                         ELSE data[Max(hit(b)) + 1]]
           occ    == [b \in Slots(q) |-> q.occupied[b] \/ hit(b) # {}]
           cnt    == q.unassembled_bytes + newly_occupied(q, data, index)
           e      == takes_eof(q, data, index, eof)
           t      == store_data(q, data, index)
           s      == Stored(q, data, index, eof)
<1>1. /\ q \in Obj
      /\ first \in Nat
      /\ q.seperator \in 0 .. Capacity - 1
      /\ q.capacity = Capacity
      /\ Len(q.output.buffer) \in Nat
      /\ Slots(q) = 0 .. Capacity - 1
      /\ q.unassembled_buffer \in [0 .. Capacity - 1 -> Byte \cup {Blank}]
      /\ q.occupied \in [0 .. Capacity - 1 -> BOOLEAN]
      /\ q.unassembled_bytes \in Int
  BY LenProperties DEF InStream, Obj, BS!Type, Slots
<1>2. n \in Int /\ n <= len
  <2>1. Len(data) = len
    BY DEF Substring
  <2>2. \A x, y \in Int : minus(x, y) \in Int
    BY U64Assumption DEF minus
  <2>3. q.capacity - Len(q.output.buffer) + first \in Int /\ index \in Int
    BY <1>1, ReassemblerAssumption
  <2>4. minus(q.capacity - Len(q.output.buffer) + first, index) \in Int
    BY <2>2, <2>3
  <2> QED
    BY <2>1, <2>4 DEF bytes_can_be_stored, BS!Smaller, BS!buffer_size
<1>3. ASSUME NEW k \in 0 .. Capacity - 1, NEW i \in hit(slot(q, k))
      PROVE  i \in 0 .. len - 1 /\ first + k < StreamLen /\ data[i + 1] \in Byte
  <2>1. i \in begin .. n - 1 /\ slot(q, i + index - first) = slot(q, k)
    BY DEF stored_in
  <2>2. begin \in Nat /\ begin >= first - index
    BY <1>1
  <2> HIDE DEF n, begin, hit
  <2>3. i \in 0 .. len - 1 /\ i + index - first \in Nat /\ k \in Nat
    BY <1>1, <1>2, <2>1, <2>2, ReassemblerAssumption
  <2>4. (q.seperator + (i + index - first)) % Capacity = (q.seperator + k) % Capacity
    BY <1>1, <2>1, <2>3, SlotInRange
  <2>5. k <= i + index - first
    BY <1>1, <2>3, <2>4, SlotLeast
  <2>6. data[i + 1] = index + (i + 1) - 1
    BY <2>3 DEF Substring
  <2> HIDE DEF data
  <2>7. index + (i + 1) - 1 \in Byte
    BY <2>3, ReassemblerAssumption DEF Byte
  <2> QED
    BY <1>1, <2>3, <2>5, <2>6, <2>7, ReassemblerAssumption
<1>4. ASSUME NEW k \in 0 .. Capacity - 1, hit(slot(q, k)) # {}
      PROVE  first + k < StreamLen /\ data[Max(hit(slot(q, k))) + 1] \in Byte
  <2> HIDE DEF hit, data
  <2>1. hit(slot(q, k)) \in SUBSET (0 .. len - 1)
    BY <1>3
  <2>2. Max(hit(slot(q, k))) \in hit(slot(q, k))
    BY <1>4, <2>1, MaxExists
  <2> QED
    BY <1>3, <2>2
<1>5. \A b \in 0 .. Capacity - 1 : \E k \in 0 .. Capacity - 1 : b = slot(q, k)
  <2> TAKE b \in 0 .. Capacity - 1
  <2>1. PICK k \in 0 .. Capacity - 1 : (q.seperator + k) % Capacity = b
    BY <1>1, SlotSurjective, Zenon
  <2> QED
    BY <1>1, <2>1 DEF slot
<1> HIDE DEF hit, n, data
<1>6. ubuf \in [0 .. Capacity - 1 -> Byte \cup {Blank}]
  <2>1. SUFFICES ASSUME NEW b \in 0 .. Capacity - 1
                 PROVE  ubuf[b] \in Byte \cup {Blank}
    BY <1>1
  <2>2. PICK k \in 0 .. Capacity - 1 : b = slot(q, k)
    BY <1>5
  <2>3. CASE hit(b) = {}
    BY <1>1, <2>3, Zenon
  <2>4. CASE hit(b) # {}
    <3>1. data[Max(hit(b)) + 1] \in Byte
      BY <1>4, <2>2, <2>4
    <3> QED
      BY <1>1, <2>4, <3>1
  <2> QED
    BY <2>3, <2>4
<1>7. occ \in [0 .. Capacity - 1 -> BOOLEAN]
  BY <1>1
<1>8. cnt \in Int
  <2> DEFINE N == {b \in Slots(q) : ~q.occupied[b] /\ stored_in(q, data, index, b) # {}}
  <2>1. IsFiniteSet(0 .. Capacity - 1)
    BY FS_Interval, ReassemblerAssumption
  <2>2. IsFiniteSet(N)
    BY <1>1, <2>1, FS_Subset, Zenon
  <2>3. Cardinality(N) \in Nat
    BY <2>2, FS_CardinalityType
  <2> QED
    BY <1>1, <2>3 DEF newly_occupied
<1>9. t = [q EXCEPT !.unassembled_buffer = ubuf, !.occupied = occ, !.unassembled_bytes = cnt]
  BY DEF store_data, hit
<1>10. s = [t EXCEPT !.is_eof_data_received = @ \/ e]
  BY DEF Stored
<1>11. e \in BOOLEAN
  BY DEF takes_eof
<1> HIDE DEF s, t, ubuf, occ, cnt, e
<1>12. /\ t \in Obj
       /\ t.output = q.output
       /\ t.seperator = q.seperator
       /\ t.capacity = q.capacity
       /\ t.first_unassembled_index = q.first_unassembled_index
       /\ t.unassembled_buffer = ubuf
       /\ t.occupied = occ
  BY <1>1, <1>6, <1>7, <1>8, <1>9, Zenon DEF Obj
<1>13. /\ s \in Obj
       /\ s.output = q.output
       /\ s.seperator = q.seperator
       /\ s.capacity = q.capacity
       /\ s.first_unassembled_index = q.first_unassembled_index
       /\ s.unassembled_buffer = ubuf
       /\ s.occupied = occ
  BY <1>10, <1>11, <1>12 DEF Obj
<1>14. RingInStream(s)
  <2> SUFFICES ASSUME NEW k \in 0 .. Capacity - 1, s.occupied[slot(s, k)]
               PROVE  /\ s.first_unassembled_index + k < StreamLen
                      /\ s.unassembled_buffer[slot(s, k)] \in Byte
    BY DEF RingInStream
  <2>1. slot(s, k) = slot(q, k)
    BY <1>13 DEF slot
  <2>2. slot(q, k) \in 0 .. Capacity - 1
    <3>1. q \in Obj /\ k \in Nat
      BY <1>1, ReassemblerAssumption
    <3> QED
      BY <3>1, SlotInRange
  <2>3. s.unassembled_buffer[slot(q, k)] =
          IF hit(slot(q, k)) = {} THEN q.unassembled_buffer[slot(q, k)]
          ELSE data[Max(hit(slot(q, k))) + 1]
    BY <1>1, <1>13, <2>2 DEF ubuf
  <2>4. CASE hit(slot(q, k)) = {}
    <3>1. q.occupied[slot(q, k)]
      BY <1>1, <1>13, <2>1, <2>2, <2>4, Zenon DEF occ
    <3> QED
      BY <1>13, <2>1, <2>3, <2>4, <3>1 DEF InStream, RingInStream
  <2>5. CASE hit(slot(q, k)) # {}
    BY <1>4, <1>13, <2>1, <2>3, <2>5
  <2> QED
    BY <2>4, <2>5
<1> QED
  BY <1>13, <1>14 DEF InStream, s, data

(* ByteStream::write() accepts a prefix that fits the free space.          *)
LEMMA WritePrefix ==
  ASSUME NEW o \in BS!Type(Byte), NEW data \in Seq(Byte),
         Len(o.buffer) <= o.total_capacity
  PROVE  LET s == BS!write(o, data)
         IN  /\ s \in BS!Type(Byte)
             /\ s.total_capacity = o.total_capacity
             /\ Len(s.buffer) <= o.total_capacity
             /\ s.total_written_bytes <= o.total_written_bytes + Len(data)
<1> DEFINE n    == BS!written_bytes(o, data)
           part == SubSeq(data, 1, n)
           s    == [o EXCEPT !.buffer = @ \o part, !.total_written_bytes = @ + n]
<1>1. /\ Len(data) \in Nat /\ o.total_capacity \in Nat /\ o.total_written_bytes \in Nat
      /\ o.buffer \in Seq(Byte) /\ Len(o.buffer) \in Nat
  BY LenProperties DEF BS!Type
<1>2. n \in 0 .. Len(data) /\ Len(o.buffer) + n <= o.total_capacity
  BY <1>1 DEF BS!written_bytes, BS!Smaller, BS!remaining_capacity, BS!buffer_size
<1> HIDE DEF n
<1>3. part \in Seq(Byte) /\ Len(part) = n
  <2>1. ASSUME NEW i \in 1 .. n PROVE data[i] \in Byte
    <3>1. i \in 1 .. Len(data)
      BY <1>1, <1>2
    <3> QED
      BY <3>1, ElementOfSeq
  <2>2. n \in Int /\ n + 1 - 1 = n /\ n >= 0
    BY <1>1, <1>2
  <2> QED
    BY <1>1, <1>2, <2>1, <2>2, SubSeqProperties
<1> HIDE DEF part
<1>4. o.buffer \o part \in Seq(Byte) /\ Len(o.buffer \o part) = Len(o.buffer) + n
  BY <1>1, <1>3, ConcatProperties
<1>5. o.total_written_bytes + n \in Nat
  BY <1>1, <1>2
<1>6. s \in BS!Type(Byte)
  BY <1>4, <1>5, Zenon DEF BS!Type
<1>7. /\ s.buffer = o.buffer \o part
      /\ s.total_written_bytes = o.total_written_bytes + n
      /\ s.total_capacity = o.total_capacity
  BY DEF BS!Type
<1>8. BS!write(o, data) = s
  BY Zenon DEF BS!write, n, part
<1> HIDE DEF s
<1> QED
  BY <1>1, <1>2, <1>4, <1>6, <1>7, <1>8

(* write_to_output() advances over bytes of the stream only.               *)
LEMMA WriteInStream ==
  ASSUME NEW q, InStream(q)
  PROVE  InStream(write_to_output(q))
<1> DEFINE c       == run_length(q)
           w       == write_to_output(q)
           emptied == {slot(q, k) : k \in 0 .. c - 1}
           data    == [k \in 1 .. c |-> q.unassembled_buffer[slot(q, k - 1)]]
           ubuf    == [b \in Slots(q) |-> IF b \in emptied THEN Blank
                                          ELSE q.unassembled_buffer[b]]
           occ     == [b \in Slots(q) |-> q.occupied[b] /\ b \notin emptied]
           first   == q.first_unassembled_index
           out     == BS!write(q.output, data)
<1>1. /\ q \in Obj
      /\ first \in Nat
      /\ q.seperator \in 0 .. Capacity - 1
      /\ q.capacity = Capacity
      /\ Slots(q) = 0 .. Capacity - 1
      /\ q.unassembled_bytes \in Int
      /\ q.output \in BS!Type(Byte)
  BY DEF InStream, Obj, Slots
<1>2. /\ q.unassembled_buffer \in [0 .. Capacity - 1 -> Byte \cup {Blank}]
      /\ q.occupied \in [0 .. Capacity - 1 -> BOOLEAN]
  BY <1>1 DEF Obj
<1>3. /\ c \in 0 .. Capacity
      /\ \A k \in 0 .. Capacity - 1 : k < c => q.occupied[slot(q, k)]
  BY <1>1, RunLength
<1> HIDE DEF c
<1>4. c \in Nat /\ first + c <= StreamLen
  <2>1. CASE c = 0
    BY <1>1, <2>1 DEF InStream
  <2>2. CASE c > 0
    <3>1. c - 1 \in 0 .. Capacity - 1 /\ c - 1 < c
      BY <1>3, <2>2, ReassemblerAssumption
    <3>2. first + (c - 1) < StreamLen
      BY <1>3, <3>1 DEF InStream, RingInStream
    <3> QED
      BY <1>1, <1>3, <3>2, ReassemblerAssumption
  <2> QED
    BY <1>3, <2>1, <2>2, ReassemblerAssumption
<1>5. data \in Seq(Byte) /\ Len(data) = c
  <2>1. ASSUME NEW i \in 1 .. c PROVE data[i] \in Byte
    <3>1. i - 1 \in 0 .. Capacity - 1 /\ i - 1 < c
      BY <1>3, ReassemblerAssumption
    <3> QED
      BY <1>3, <3>1 DEF InStream, RingInStream
  <2>2. data = [i \in 1 .. c |-> data[i]]
    OBVIOUS
  <2> HIDE DEF data
  <2> QED
    BY <1>4, <2>1, <2>2, IsASeq, LenProperties
<1>6. /\ out \in BS!Type(Byte)
      /\ out.total_capacity = Capacity
      /\ Len(out.buffer) <= Capacity
      /\ out.total_written_bytes <= first + c
  <2> HIDE DEF data
  <2>1. /\ q.output.total_capacity = Capacity
        /\ Len(q.output.buffer) <= Capacity
        /\ q.output.total_written_bytes <= first
    BY DEF InStream
  <2>2. /\ out \in BS!Type(Byte)
        /\ out.total_capacity = Capacity
        /\ Len(out.buffer) <= Capacity
        /\ out.total_written_bytes <= q.output.total_written_bytes + c
    BY <1>1, <1>5, <2>1, WritePrefix
  <2>3. out.total_written_bytes \in Nat /\ q.output.total_written_bytes \in Nat
    BY <1>1, <2>2 DEF BS!Type
  <2> HIDE DEF out
  <2> QED
    BY <1>1, <1>4, <2>1, <2>2, <2>3
<1>7. w = [q EXCEPT !.output = out, !.unassembled_buffer = ubuf, !.occupied = occ,
                    !.unassembled_bytes = @ - c, !.first_unassembled_index = @ + c,
                    !.seperator = slot(q, c)]
  BY DEF write_to_output, advanced, c
<1> HIDE DEF out, data
<1>8. /\ ubuf \in [0 .. Capacity - 1 -> Byte \cup {Blank}]
      /\ occ \in [0 .. Capacity - 1 -> BOOLEAN]
  BY <1>1, <1>2, Zenon
<1>9. slot(q, c) = (q.seperator + c) % Capacity /\ slot(q, c) \in 0 .. Capacity - 1
  BY <1>1, <1>4, SlotInRange
<1> HIDE DEF w, ubuf, occ
<1>10. /\ w \in Obj
       /\ w.output = out
       /\ w.capacity = Capacity
       /\ w.unassembled_buffer = ubuf
       /\ w.occupied = occ
       /\ w.seperator = slot(q, c)
       /\ w.first_unassembled_index = first + c
  <2>1. first + c \in Nat /\ q.unassembled_bytes - c \in Int
    BY <1>1, <1>4
  <2> QED
    BY <1>1, <1>6, <1>7, <1>8, <1>9, <2>1, Zenon DEF Obj
<1>11. ASSUME NEW k \in 0 .. Capacity - 1, w.occupied[slot(w, k)]
       PROVE  /\ k + c \in 0 .. Capacity - 1
              /\ slot(w, k) = slot(q, k + c)
              /\ slot(w, k) \in 0 .. Capacity - 1
              /\ slot(w, k) \notin emptied
              /\ q.occupied[slot(w, k)]
  <2>1. slot(w, k) = (slot(q, c) + k) % Capacity
    BY <1>10 DEF slot
  <2>2. slot(w, k) = IF k + c < Capacity THEN (q.seperator + (k + c)) % Capacity
                     ELSE (q.seperator + (k + c - Capacity)) % Capacity
    <3>1. LET t == (q.seperator + c) % Capacity
          IN  (t + k) % Capacity =
                IF k + c < Capacity THEN (q.seperator + (k + c)) % Capacity
                ELSE (q.seperator + (k + c - Capacity)) % Capacity
      BY <1>1, <1>3, SlotShift, Zenon
    <3> QED
      BY <1>9, <2>1, <3>1
  <2>3. slot(w, k) \in 0 .. Capacity - 1
    <3>1. k \in Nat
      BY ReassemblerAssumption
    <3> QED
      BY <1>10, <3>1, SlotInRange
  <2>4. q.occupied[slot(w, k)] /\ slot(w, k) \notin emptied
    BY <1>1, <1>10, <1>11, <2>3, Zenon DEF occ
  <2>5. k + c < Capacity
    <3> SUFFICES ASSUME ~(k + c < Capacity) PROVE FALSE
      OBVIOUS
    <3>1. k + c - Capacity \in 0 .. c - 1 /\ k + c - Capacity \in Nat
      BY <1>3, ReassemblerAssumption
    <3>2. slot(w, k) = slot(q, k + c - Capacity)
      BY <1>1, <2>2, <3>1, SlotInRange
    <3> QED
      BY <2>4, <3>1, <3>2
  <2>6. k + c \in 0 .. Capacity - 1 /\ k + c \in Nat
    BY <1>4, <2>5, ReassemblerAssumption
  <2>7. slot(w, k) = slot(q, k + c)
    BY <1>1, <2>2, <2>5, <2>6, SlotInRange
  <2> QED
    BY <2>3, <2>4, <2>6, <2>7
<1>12. RingInStream(w)
  <2> SUFFICES ASSUME NEW k \in 0 .. Capacity - 1, w.occupied[slot(w, k)]
               PROVE  /\ w.first_unassembled_index + k < StreamLen
                      /\ w.unassembled_buffer[slot(w, k)] \in Byte
    BY DEF RingInStream
  <2> HIDE DEF emptied
  <2>1. /\ k + c \in 0 .. Capacity - 1
        /\ slot(w, k) = slot(q, k + c)
        /\ slot(w, k) \in 0 .. Capacity - 1
        /\ slot(w, k) \notin emptied
        /\ q.occupied[slot(w, k)]
    BY <1>11
  <2>2. first + (k + c) < StreamLen /\ q.unassembled_buffer[slot(q, k + c)] \in Byte
    BY <2>1 DEF InStream, RingInStream
  <2>3. w.unassembled_buffer[slot(w, k)] = q.unassembled_buffer[slot(q, k + c)]
    BY <1>1, <1>10, <2>1 DEF ubuf
  <2>4. first + (k + c) = (first + c) + k
    BY <1>1, <1>4, ReassemblerAssumption
  <2> QED
    BY <1>10, <2>2, <2>3, <2>4
<1> QED
  BY <1>4, <1>6, <1>10, <1>12 DEF InStream, w

(* A change of the output stream that writes nothing keeps to the stream.  *)
LEMMA OutputInStream ==
  ASSUME NEW q, InStream(q), NEW o \in BS!Type(Byte),
         o.total_capacity = Capacity, Len(o.buffer) <= Capacity,
         o.total_written_bytes = q.output.total_written_bytes
  PROVE  InStream([q EXCEPT !.output = o])
<1> DEFINE d == [q EXCEPT !.output = o]
<1>1. /\ d \in Obj
      /\ d.output = o
      /\ d.capacity = q.capacity
      /\ d.seperator = q.seperator
      /\ d.occupied = q.occupied
      /\ d.unassembled_buffer = q.unassembled_buffer
      /\ d.first_unassembled_index = q.first_unassembled_index
  BY DEF InStream, Obj
<1> HIDE DEF d
<1>2. \A k \in 0 .. Capacity - 1 : slot(d, k) = slot(q, k)
  BY <1>1 DEF slot
<1>3. RingInStream(d)
  BY <1>1, <1>2 DEF InStream, RingInStream
<1> QED
  BY <1>1, <1>3 DEF InStream, d

(* push_substring() keeps to the stream, wherever the substring starts.    *)
LEMMA PushInStream ==
  ASSUME NEW q, InStream(q), NEW index \in Nat, NEW len \in Nat, NEW eof \in BOOLEAN,
         index + len <= StreamLen
  PROVE  InStream(push_substring(q, Substring(index, len), index, eof))
<1> DEFINE w == Written(q, Substring(index, len), index, eof)
<1>1. InStream(w)
  BY StoreInStream, WriteInStream DEF Written
<1>2. push_substring(q, Substring(index, len), index, eof) =
        IF w.is_eof_data_received /\ w.unassembled_bytes = 0
        THEN [w EXCEPT !.output = BS!end_input(w.output)] ELSE w
  BY PushIsWritten
<1> HIDE DEF w
<1>3. w.output \in BS!Type(Byte)
  BY <1>1 DEF InStream, Obj
<1>4. /\ BS!end_input(w.output) \in BS!Type(Byte)
      /\ BS!end_input(w.output).buffer = w.output.buffer
      /\ BS!end_input(w.output).total_capacity = w.output.total_capacity
      /\ BS!end_input(w.output).total_written_bytes = w.output.total_written_bytes
  BY <1>3, Zenon DEF BS!end_input, BS!Type
<1>5. InStream([w EXCEPT !.output = BS!end_input(w.output)])
  <2>1. w.output.total_capacity = Capacity /\ Len(w.output.buffer) <= Capacity
    BY <1>1 DEF InStream
  <2> QED
    BY <1>1, <1>4, <2>1, OutputInStream
<1> QED
  BY <1>1, <1>2, <1>5

(* So does a read.                                                         *)
LEMMA ReadInStream ==
  ASSUME NEW q, InStream(q), NEW n \in Nat
  PROVE  InStream([q EXCEPT !.output = BS!pop_output(@, n)])
<1> DEFINE o    == q.output
           buf  == o.buffer
           m    == BS!covered(o, n)
           rest == SubSeq(buf, m + 1, Len(buf))
           out  == BS!pop_output(o, n)
<1>1. /\ o \in BS!Type(Byte) /\ buf \in Seq(Byte) /\ Len(buf) \in Nat
      /\ o.total_read_bytes \in Nat
  BY LenProperties DEF InStream, Obj, BS!Type
<1>2. m \in 0 .. Len(buf)
  BY <1>1 DEF BS!covered, BS!Smaller, BS!buffer_size
<1> HIDE DEF m
<1>3. rest \in Seq(Byte) /\ Len(rest) = Len(buf) - m
  <2>1. ASSUME NEW i \in m + 1 .. Len(buf) PROVE buf[i] \in Byte
    BY <1>1, <1>2, ElementOfSeq
  <2> HIDE DEF buf
  <2> QED
    BY <1>1, <1>2, <2>1, SubSeqProperties
<1> HIDE DEF rest
<1>4. out = [o EXCEPT !.buffer = rest, !.total_read_bytes = o.total_read_bytes + m,
                      !.is_eof = IF o.is_input_ended
                                 THEN o.total_written_bytes = o.total_read_bytes + m ELSE @]
  BY DEF BS!pop_output, m, rest
<1>5. /\ out \in BS!Type(Byte)
      /\ out.buffer = rest
      /\ out.total_written_bytes = o.total_written_bytes
      /\ out.total_capacity = o.total_capacity
  <2>1. o.total_read_bytes + m \in Nat
    BY <1>1, <1>2
  <2> HIDE DEF o, out
  <2> QED
    BY <1>1, <1>3, <1>4, <2>1, Zenon DEF BS!Type
<1>6. o.total_capacity = Capacity /\ Len(buf) <= Capacity
  BY DEF InStream
<1>7. Len(out.buffer) <= Capacity
  <2> HIDE DEF buf, out
  <2> QED
    BY <1>1, <1>2, <1>3, <1>5, <1>6, ReassemblerAssumption
<1>8. InStream([q EXCEPT !.output = out])
  <2> HIDE DEF out
  <2> QED
    BY <1>5, <1>6, <1>7, OutputInStream
<1> QED
  BY <1>8

(* A new reassembler keeps to the stream.                                  *)
LEMMA InitInStream == Init => InStream(r)
<1> SUFFICES ASSUME Init PROVE InStream(r)
  OBVIOUS
<1>1. Consistent(r) /\ EndOK(r)
  BY InitEnd DEF EndInv, IInv
<1>2. r.occupied = [b \in 0 .. Capacity - 1 |-> FALSE]
  BY DEF Init, New
<1>3. ASSUME NEW k \in 0 .. Capacity - 1 PROVE ~r.occupied[slot(r, k)]
  <2>1. slot(r, k) \in 0 .. Capacity - 1
    BY <1>1, SlotInRange, ReassemblerAssumption DEF Consistent
  <2> QED
    BY <1>2, <2>1
<1> QED
  BY <1>1, <1>3 DEF InStream, RingInStream, Consistent, OutputOK, EndOK, Obj
=============================================================================
