------------------------- MODULE PartialFileProofs -------------------------
(***************************************************************************)
(* Theorems about PartialFile, for objects, files and reads of any size:   *)
(* the conversions between ranges, lengths and positions lose no byte and  *)
(* mix up none.                                                            *)
(***************************************************************************)
EXTENDS PartialFile, WellFoundedInduction, TLAPS

-----------------------------------------------------------------------------
(* The invariant.                                                          *)

Ranges == {r \in [start : Nat \cup {NoStart}, end : Nat] : r.start # NoStart => r.start <= r.end}

\* The bytes of the object from a position on.
Bytes(position, nbytes) == [i \in 1..nbytes |-> position + i - 1]

\* The request is for some of the object's bytes, and for no other.
Fits(r) ==
    /\ StartPosition(r) \in Nat /\ CalculateLength(r) \in Nat \ {0}
    /\ StartPosition(r) + CalculateLength(r) <= object_size

\* The chunk that a request brings.
ChunckOf(r) ==
    [start_position |-> StartPosition(r), data |-> Bytes(StartPosition(r), CalculateLength(r))]

\* The file is made of the chunks of its requests.
FileInv ==
    /\ object_size \in Nat
    /\ requests \subseteq Ranges
    /\ \A r \in requests : Fits(r)
    /\ chuncks \in Seq({ChunckOf(r) : r \in requests})
    /\ \A r \in requests : \E i \in DOMAIN chuncks : chuncks[i] = ChunckOf(r)
    /\ position_ \in Nat
    /\ last.position \in Nat /\ last.nbytes \in Nat

ReadInv == FileInv /\ ReadsAreTrue /\ OneChunckReads

-----------------------------------------------------------------------------
(* The download of a range.                                                *)

\* A part of the object.
LEMMA ObjectPart ==
    ASSUME object_size \in Nat, NEW lo \in Nat \ {0}, NEW hi \in 0..object_size
    PROVE  /\ SubSeq(Object, lo, hi) \in Seq(Nat)
           /\ Len(SubSeq(Object, lo, hi)) = IF lo <= hi THEN hi - lo + 1 ELSE 0
           /\ \A i \in 1..Len(SubSeq(Object, lo, hi)) : SubSeq(Object, lo, hi)[i] = lo + i - 2
<1>1. Object \in Seq(Nat) /\ Len(Object) = object_size
  BY DEF Object
<1>2. \A i \in 1..object_size : Object[i] = i - 1
  BY DEF Object
<1> QED
  BY <1>1, <1>2

\* A range that was served as a whole brings the bytes it asks for, and they
\* lie where the file puts them.
LEMMA ServedChunck ==
    ASSUME object_size \in Nat, NEW r \in Ranges, GetObjectRange(r)
    PROVE  /\ Fits(r)
           /\ [start_position |-> StartPosition(r),
               data |-> SubSeq(Served(r), 1, CalculateLength(r))] = ChunckOf(r)
<1> DEFINE lo == IF r.start = NoStart
                 THEN IF r.end < object_size THEN object_size - r.end + 1 ELSE 1
                 ELSE r.start + 1
           hi == IF r.start = NoStart THEN object_size
                 ELSE IF r.end < object_size THEN r.end + 1 ELSE object_size
           n == CalculateLength(r)
<1>1. r.end \in Nat /\ (r.start # NoStart => r.start \in Nat /\ r.start <= r.end)
  BY BoundsAssumption DEF Ranges
<1>2. lo \in Nat \ {0} /\ hi \in 0..object_size /\ n \in Nat
  BY <1>1 DEF CalculateLength
<1>3. Served(r) = SubSeq(Object, lo, hi)
  BY DEF Served
<1>4. /\ Served(r) \in Seq(Nat) /\ Served(r) # << >>
      /\ Len(Served(r)) = IF lo <= hi THEN hi - lo + 1 ELSE 0
      /\ Len(Served(r)) >= n
      /\ \A i \in 1..Len(Served(r)) : Served(r)[i] = lo + i - 2
  <2>1. Served(r) # << >> /\ Len(Served(r)) >= n
    BY DEF GetObjectRange
  <2> HIDE DEF lo, hi, n
  <2>2. /\ SubSeq(Object, lo, hi) \in Seq(Nat)
        /\ Len(SubSeq(Object, lo, hi)) = IF lo <= hi THEN hi - lo + 1 ELSE 0
        /\ \A i \in 1..Len(SubSeq(Object, lo, hi)) : SubSeq(Object, lo, hi)[i] = lo + i - 2
    BY <1>2, ObjectPart
  <2> QED
    BY ONLY <1>3, <2>1, <2>2, Zenon
<1>5. lo <= hi /\ n <= hi - lo + 1
  BY <1>2, <1>4
<1>6. n # 0 /\ StartPosition(r) = lo - 1 /\ lo - 1 + n <= object_size
  BY <1>1, <1>5 DEF CalculateLength, StartPosition
<1>7. Fits(r)
  BY <1>2, <1>6 DEF Fits
<1> HIDE DEF lo, hi, n
<1>8. SubSeq(Served(r), 1, n) = [i \in 1..n |-> Served(r)[i]]
  BY <1>2, <1>4
<1>9. \A i \in 1..n : Served(r)[i] = StartPosition(r) + i - 1
  BY <1>2, <1>4, <1>6
<1>10. SubSeq(Served(r), 1, n) = Bytes(StartPosition(r), n)
  BY <1>8, <1>9 DEF Bytes
<1> QED
  BY <1>7, <1>10 DEF ChunckOf, n

\* The bytes that a request covers, by the position and the length of its chunk.
LEMMA RequestedBytes ==
    ASSUME object_size \in Nat, NEW r \in Ranges
    PROVE  Requested(r) = StartPosition(r)..(StartPosition(r) + CalculateLength(r) - 1)
BY BoundsAssumption DEF Ranges, Requested, StartPosition, CalculateLength

-----------------------------------------------------------------------------
(* Reads.                                                                  *)

\* A set of indices has a first one.
LEMMA FirstExists ==
    ASSUME NEW S \in SUBSET Nat, S # {}
    PROVE  \E i \in S : \A j \in S : i <= j
<1>1. IsWellFoundedOn({z \in Nat \X Nat : z[1] < z[2]}, Nat)
  BY NatLessThanWellFounded DEF OpToRel
<1>2. PICK i \in S : \A j \in S : <<j, i>> \notin {z \in Nat \X Nat : z[1] < z[2]}
  BY <1>1, WFMin
<1>3. \A j \in S : ~(j < i)
  BY <1>2
<1> QED
  BY <1>3

\* A part of some bytes of the object.
LEMMA BytesPart ==
    ASSUME NEW s \in Nat, NEW n \in Nat, NEW a \in 1..n, NEW b \in 1..n
    PROVE  SubSeq(Bytes(s, n), a, b) = Bytes(s + a - 1, b - a + 1)
<1> DEFINE d == Bytes(s, n)
<1>1. d \in Seq(Nat) /\ Len(d) = n /\ \A i \in 1..n : d[i] = s + i - 1
  BY DEF Bytes
<1> HIDE DEF d
<1>2. SubSeq(d, a, b) = [i \in 1..(b - a + 1) |-> d[a + i - 1]]
  BY <1>1
<1>3. \A i \in 1..(b - a + 1) : a + i - 1 \in 1..n
  OBVIOUS
<1>4. \A i \in 1..(b - a + 1) : d[a + i - 1] = (s + a - 1) + i - 1
  BY <1>1, <1>3
<1> QED
  BY <1>2, <1>4 DEF Bytes, d

\* A read ends in the chunk of one of the requests that cover its position, if
\* there are any, and returns the bytes it asks for if this one covers the last
\* of them too.
LEMMA ReadOutcome ==
    ASSUME FileInv, NEW position \in Nat, NEW nbytes \in Nat \ {0}
    PROVE  \/ /\ \A r \in requests : position \notin Requested(r)
              /\ ReadResult(position, nbytes) = Failed
           \/ \E r \in requests :
                 /\ position \in Requested(r)
                 /\ ReadResult(position, nbytes) =
                       IF position + nbytes - 1 \in Requested(r)
                       THEN Bytes(position, nbytes) ELSE Failed
<1> DEFINE found == {i \in DOMAIN chuncks : Contains(chuncks[i], position)}
           k == CHOOSE i \in found : \A j \in found : i <= j
           first == chuncks[k]
           offset == position - first.start_position
<1> USE DEF FileInv
<1>1. ReadResult(position, nbytes) =
         IF found = {} \/ offset + nbytes > Len(first.data)
         THEN Failed
         ELSE SubSeq(first.data, offset + 1, offset + nbytes)
  BY DEF ReadResult
<1>2. ASSUME NEW r \in requests
      PROVE  /\ StartPosition(r) \in Nat /\ CalculateLength(r) \in Nat \ {0}
             /\ ChunckOf(r).start_position = StartPosition(r)
             /\ ChunckOf(r).data = Bytes(StartPosition(r), CalculateLength(r))
             /\ ChunckOf(r).data \in Seq(Nat)
             /\ Len(ChunckOf(r).data) = CalculateLength(r)
             /\ Contains(ChunckOf(r), position) <=> position \in Requested(r)
  <2>1. StartPosition(r) \in Nat /\ CalculateLength(r) \in Nat \ {0} /\ r \in Ranges
    BY DEF Fits
  <2>2. /\ ChunckOf(r).start_position = StartPosition(r)
        /\ ChunckOf(r).data = Bytes(StartPosition(r), CalculateLength(r))
    BY DEF ChunckOf
  <2>3. /\ Bytes(StartPosition(r), CalculateLength(r)) \in Seq(Nat)
        /\ Len(Bytes(StartPosition(r), CalculateLength(r))) = CalculateLength(r)
    BY <2>1 DEF Bytes
  <2>4. Contains(ChunckOf(r), position) <=> position \in Requested(r)
    BY <2>1, <2>2, <2>3, RequestedBytes DEF Contains
  <2> QED
    BY <2>1, <2>2, <2>3, <2>4
<1>3. CASE found = {}
  <2>1. ASSUME NEW r \in requests
        PROVE  position \notin Requested(r)
    BY <1>2, <1>3
  <2> QED
    BY <1>1, <1>3, <2>1
<1>4. CASE found # {}
  <2>1. found \subseteq Nat
    OBVIOUS
  <2>2. k \in found
    BY <1>4, <2>1, FirstExists
  <2>3. PICK r \in requests : first = ChunckOf(r)
    <3> HIDE DEF k
    <3>1. k \in DOMAIN chuncks
      BY <2>2
    <3> QED
      BY <3>1
  <2>4. position \in Requested(r)
    BY <1>2, <2>2, <2>3
  <2> DEFINE s == StartPosition(r)
             n == CalculateLength(r)
             d == Bytes(s, n)
  <2>5. s \in Nat /\ n \in Nat \ {0} /\ d \in Seq(Nat) /\ Len(d) = n
    BY <1>2
  <2>6. first.start_position = s /\ first.data = d
    BY <1>2, <2>3
  <2>7. Requested(r) = s..(s + n - 1)
    BY RequestedBytes
  <2>8. position + nbytes - 1 \in Requested(r) <=> ~(offset + nbytes > Len(first.data))
    <3>1. position \in s..(s + n - 1) /\ Len(first.data) = n /\ offset = position - s
      BY <2>4, <2>5, <2>6, <2>7
    <3> HIDE DEF s, n, d, offset, first, k, found
    <3> QED
      BY <2>5, <2>7, <3>1
  <2>9. ASSUME position + nbytes - 1 \in Requested(r)
        PROVE  SubSeq(d, position - s + 1, position - s + nbytes) = Bytes(position, nbytes)
    <3>0. position \in s..(s + n - 1) /\ position + nbytes - 1 \in s..(s + n - 1)
      BY <2>4, <2>7, <2>9
    <3> HIDE DEF s, n, d, offset, first, k, found
    <3>1. position - s + 1 \in 1..n /\ position - s + nbytes \in 1..n
      BY <2>5, <3>0
    <3>2. s + (position - s + 1) - 1 = position
      BY <2>5
    <3>3. (position - s + nbytes) - (position - s + 1) + 1 = nbytes
      BY <2>5
    <3>4. SubSeq(Bytes(s, n), position - s + 1, position - s + nbytes)
             = Bytes(s + (position - s + 1) - 1, (position - s + nbytes) - (position - s + 1) + 1)
      <4>1. s \in Nat /\ n \in Nat
        BY <2>5
      <4> QED
        BY <3>1, <4>1, BytesPart, Zenon
    <3> QED
      BY <3>2, <3>3, <3>4, Zenon DEF d
  <2> QED
    BY <1>1, <1>4, <2>4, <2>6, <2>8, <2>9
<1> QED
  BY <1>3, <1>4

\* The bytes of a read are never mistaken for a failure.
LEMMA BytesAreNoFailure ==
    ASSUME NEW position \in Nat, NEW nbytes \in Nat \ {0}
    PROVE  Bytes(position, nbytes) # Failed
<1>1. Bytes(position, nbytes)[1] = position
  BY DEF Bytes
<1>2. Failed[1] = -1
  BY DEF Failed
<1> QED
  BY <1>1, <1>2

\* A call that reads keeps both properties of reads.
LEMMA CallIsTrue ==
    ASSUME ReadInv, NEW position \in Nat, NEW nbytes \in Nat \ {0}, Call(position, nbytes),
           UNCHANGED <<object_size, requests, chuncks>>
    PROVE  ReadsAreTrue' /\ OneChunckReads' /\ last'.position \in Nat /\ last'.nbytes \in Nat
<1>1. /\ last'.position = position /\ last'.nbytes = nbytes
      /\ last'.data = ReadResult(position, nbytes)
  BY DEF Call
<1>2. last'.data \in {Failed, Bytes(position, nbytes)}
  BY <1>1, ReadOutcome DEF ReadInv
<1>3. ReadsAreTrue'
  BY <1>1, <1>2 DEF ReadsAreTrue, Bytes
<1>4. OneChunckReads'
  <2> SUFFICES ASSUME NEW r \in requests, requests = {r}, Wanted' \subseteq Requested(r)
               PROVE  last'.data # Failed
    BY DEF OneChunckReads, Requested
  <2>1. Wanted' = {position + i : i \in 0..(nbytes - 1)}
    BY <1>1 DEF Wanted
  <2>2. position \in Wanted' /\ position + nbytes - 1 \in Wanted'
    BY <2>1
  <2>3. ReadResult(position, nbytes) = Bytes(position, nbytes)
    BY <2>2, ReadOutcome DEF ReadInv
  <2> QED
    BY <1>1, <2>3, BytesAreNoFailure
<1> QED
  BY <1>1, <1>3, <1>4

\* A call that does not read leaves nothing to compare.
LEMMA NoCallIsTrue ==
    last' = NoCall => ReadsAreTrue' /\ OneChunckReads' /\ last'.position \in Nat
                        /\ last'.nbytes \in Nat
<1> SUFFICES ASSUME last' = NoCall
             PROVE  ReadsAreTrue' /\ OneChunckReads' /\ last'.position \in Nat
                      /\ last'.nbytes \in Nat
  OBVIOUS
<1>1. last'.position = 0 /\ last'.nbytes = 0 /\ last'.data = << >>
  BY DEF NoCall
<1>2. Wanted' = {}
  BY <1>1 DEF Wanted
<1>3. << >> = [i \in 1..0 |-> 0 + i - 1]
  OBVIOUS
<1> QED
  BY <1>1, <1>2, <1>3 DEF ReadsAreTrue, OneChunckReads

-----------------------------------------------------------------------------
(* Steps.                                                                  *)

\* A response adds the chunk of its request.
LEMMA AddChunckStep ==
    ASSUME ReadInv, NEW r \in Ranges, AddChunck(r)
    PROVE  ReadInv'
<1> USE DEF ReadInv, FileInv
<1> DEFINE c == [start_position |-> StartPosition(r),
                 data |-> SubSeq(Served(r), 1, CalculateLength(r))]
<1>1. /\ chuncks' = Append(chuncks, c) /\ requests' = requests \cup {r}
      /\ last' = NoCall /\ UNCHANGED <<object_size, position_>>
  BY DEF AddChunck
<1>2. Fits(r) /\ c = ChunckOf(r)
  BY ServedChunck DEF AddChunck
<1> HIDE DEF c
<1>3. \A q : (Fits(q) <=> Fits(q)') /\ ChunckOf(q)' = ChunckOf(q)
  BY <1>1 DEF Fits, ChunckOf, StartPosition, CalculateLength
<1>4. \A q \in requests' : Fits(q)'
  BY <1>1, <1>2, <1>3
<1> DEFINE C == {ChunckOf(q) : q \in requests}
           D == {ChunckOf(q) : q \in requests'}
<1>5. C \subseteq D /\ c \in D
  BY <1>1, <1>2
<1>6. chuncks \in Seq(C)
  OBVIOUS
<1> HIDE DEF C, D
<1>7. chuncks' \in Seq(D)
  BY <1>1, <1>5, <1>6
<1>8. chuncks' \in Seq({ChunckOf(q)' : q \in requests'})
  BY <1>3, <1>7 DEF D
<1>9. \A i \in DOMAIN chuncks : i \in DOMAIN chuncks' /\ chuncks'[i] = chuncks[i]
  BY <1>1, <1>6
<1>10. Len(chuncks) + 1 \in DOMAIN chuncks' /\ chuncks'[Len(chuncks) + 1] = c
  BY <1>1, <1>6
<1>11. \A q \in requests' : \E i \in DOMAIN chuncks' : chuncks'[i] = ChunckOf(q)
  BY <1>1, <1>2, <1>9, <1>10
<1>12. FileInv'
  BY <1>1, <1>3, <1>4, <1>8, <1>11, NoCallIsTrue
<1> QED
  BY <1>1, <1>12, NoCallIsTrue

\* The other calls keep the chunks, or drop them all.
LEMMA OtherStep ==
    ASSUME ReadInv,
           \/ \E position \in Offsets, nbytes \in 1..MaxSize : ReadAt(position, nbytes)
           \/ \E nbytes \in 1..MaxSize : Read(nbytes)
           \/ \E position \in Offsets : Seek(position)
           \/ Close
           \/ UNCHANGED vars
    PROVE  ReadInv'
<1> USE BoundsAssumption DEF ReadInv
<1>1. ASSUME UNCHANGED <<object_size, requests, chuncks>>, position_' \in Nat,
             last'.position \in Nat, last'.nbytes \in Nat
      PROVE  FileInv'
  BY <1>1 DEF FileInv, Fits, ChunckOf, StartPosition, CalculateLength
<1>2. position_ \in Nat
  BY DEF FileInv
<1>3. ASSUME NEW position \in Offsets, NEW nbytes \in 1..MaxSize, ReadAt(position, nbytes)
      PROVE  ReadInv'
  <2>1. position \in Nat /\ nbytes \in Nat \ {0}
    BY DEF Offsets
  <2> QED
    BY <1>1, <1>2, <1>3, <2>1, CallIsTrue DEF ReadAt
<1>4. ASSUME NEW nbytes \in 1..MaxSize, Read(nbytes)
      PROVE  ReadInv'
  <2>1. nbytes \in Nat \ {0} /\ position_ + nbytes \in Nat
    BY <1>2
  <2> QED
    BY <1>1, <1>2, <1>4, <2>1, CallIsTrue DEF Read
<1>5. ASSUME NEW position \in Offsets, Seek(position)
      PROVE  ReadInv'
  <2>1. position \in Nat
    BY DEF Offsets
  <2> QED
    BY <1>1, <1>5, <2>1, NoCallIsTrue DEF Seek
<1>6. CASE Close
  <2>1. /\ requests' = {} /\ chuncks' = << >> /\ last' = NoCall
        /\ UNCHANGED <<object_size, position_>>
    BY <1>6 DEF Close
  <2>2. FileInv'
    BY <2>1, NoCallIsTrue DEF FileInv
  <2> QED
    BY <2>1, <2>2, NoCallIsTrue
<1>7. CASE UNCHANGED vars
  <2>1. FileInv'
    BY <1>1, <1>7 DEF FileInv, vars
  <2> QED
    BY <1>7, <2>1 DEF vars, ReadsAreTrue, OneChunckReads, Wanted, Requested
<1> QED
  BY <1>3, <1>4, <1>5, <1>6, <1>7

-----------------------------------------------------------------------------
(* Theorems.                                                               *)

\* A file is made of the chunks of its requests, each at its place in the
\* object, and what was read from it is true.
THEOREM ReadInvariant == Spec => []ReadInv
<1>1. Init => ReadInv
  <2> SUFFICES ASSUME Init
               PROVE  ReadInv
    OBVIOUS
  <2>1. FileInv
    BY BoundsAssumption DEF Init, FileInv, NoCall
  <2>2. last.position = 0 /\ last.nbytes = 0 /\ last.data = << >>
    BY DEF Init, NoCall
  <2>3. << >> = [i \in 1..0 |-> 0 + i - 1] /\ requests = {}
    BY DEF Init
  <2> QED
    BY <2>1, <2>2, <2>3 DEF ReadInv, ReadsAreTrue, OneChunckReads
<1>2. ReadInv /\ [Next]_vars => ReadInv'
  <2> SUFFICES ASSUME ReadInv, [Next]_vars
               PROVE  ReadInv'
    OBVIOUS
  <2>1. ASSUME NEW start \in Offsets \cup {NoStart}, NEW end \in Offsets,
               start # NoStart => start <= end, AddChunck(Range(start, end))
        PROVE  ReadInv'
    <3>1. Range(start, end) \in Ranges
      BY <2>1, BoundsAssumption DEF Range, Ranges, Offsets
    <3> QED
      BY <2>1, <3>1, AddChunckStep
  <2> QED
    BY <2>1, OtherStep DEF Next
<1> QED
  BY <1>1, <1>2, PTL DEF Spec

\* Whatever ranges were downloaded and however the file is read: a read that
\* succeeds returns the bytes of the object it asked for.
THEOREM ReadsReturnTheObject == Spec => []ReadsAreTrue
BY ReadInvariant, PTL DEF ReadInv

\* Neither an inclusive nor a suffix range loses a byte at an end.
THEOREM NoByteIsLost == Spec => []DownloadedIsReadable
<1>1. ReadInv => DownloadedIsReadable
  <2> SUFFICES ASSUME ReadInv, NEW r \in requests, NEW i \in Requested(r)
               PROVE  ReadResult(i, 1) = <<i>>
    BY DEF DownloadedIsReadable
  <2>1. i \in Nat
    <3>1. /\ StartPosition(r) \in Nat /\ CalculateLength(r) \in Nat
          /\ r \in Ranges /\ object_size \in Nat
      BY DEF ReadInv, FileInv, Fits
    <3>2. i \in StartPosition(r)..(StartPosition(r) + CalculateLength(r) - 1)
      BY <3>1, RequestedBytes
    <3> QED
      BY <3>1, <3>2
  <2>2. i + 1 - 1 = i
    BY <2>1
  <2>3. ReadResult(i, 1) = Bytes(i, 1)
    BY <2>1, <2>2, ReadOutcome DEF ReadInv
  <2>4. Bytes(i, 1) = <<i>>
    BY <2>1 DEF Bytes
  <2> QED
    BY <2>3, <2>4
<1> QED
  BY <1>1, ReadInvariant, PTL

\* In a file of one chunk a read fails only if it leaves the chunk.
THEOREM OneChunckSuffices == Spec => []OneChunckReads
BY ReadInvariant, PTL DEF ReadInv

=============================================================================
