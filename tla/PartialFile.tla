---------------------------- MODULE PartialFile ----------------------------
(***************************************************************************)
(* From a DownloadRequest to the bytes a parquet reader sees: the range    *)
(* arithmetic of GetObjectRange (aws/downloader.cc), the footer and column *)
(* chunk files of aws/parquet-helpers.h, and Buzz::PartialFile             *)
(* (util/partial-file.cc) that serves reads from the chunks.               *)
(*                                                                         *)
(* The content of the object is the sequence of its offsets, so that data  *)
(* tells where it came from.  S3 is external.                              *)
(***************************************************************************)
EXTENDS Integers, Sequences, FiniteSets

CONSTANTS
    MaxSize,    \* bound on the size of the object, and on positions
    MaxChuncks, \* bound on the chunks of one file
    NoStart     \* an empty optional<int64_t>

ASSUME BoundsAssumption == MaxSize \in Nat /\ MaxChuncks \in Nat /\ NoStart \notin Int

VARIABLES
    object_size,  \* size of the object on S3
    requests,     \* the requests whose data make the file
    chuncks,      \* chuncks_
    size_,        \* size_, -1 before any response came
    position_,    \* position_
    last          \* the last call: what was read where, and the result

vars == <<object_size, requests, chuncks, size_, position_, last>>

Object == [i \in 1..object_size |-> i - 1]

Failed == << -1 >>
NoCall == [position |-> 0, nbytes |-> 0, data |-> << >>]

Init ==
    /\ object_size \in 0..MaxSize
    /\ requests = {}
    /\ chuncks = << >>
    /\ size_ = -1
    /\ position_ = 0
    /\ last = NoCall

-----------------------------------------------------------------------------
(* The download of a range.                                                *)

\* A range as FormatRange writes it: bytes=<start>-<end>, both inclusive, or
\* bytes=-<end>, a suffix.
Range(start, end) == [start |-> start, end |-> end]

\* Mutant of CalculateLength: the end of a range taken as exclusive.
HalfOpenLength(r) == IF r.start = NoStart THEN r.end ELSE r.end - r.start

CalculateLength(r) == IF r.start = NoStart THEN r.end ELSE r.end - r.start + 1

\* S3 (RFC 7233): the part of the object that is in the range; nothing if the
\* range is not satisfiable.
Served(r) ==
    IF r.start = NoStart
    THEN SubSeq(Object, IF r.end < object_size THEN object_size - r.end + 1 ELSE 1, object_size)
    ELSE SubSeq(Object, r.start + 1, IF r.end < object_size THEN r.end + 1 ELSE object_size)

\* GetObjectRange succeeds: as many bytes came as the buffer has room for.
GetObjectRange(r) == Served(r) # << >> /\ Len(Served(r)) >= CalculateLength(r)

\* Mutant of StartPosition: the footer is off by one.
LateFooter(r) == IF r.start = NoStart THEN object_size - r.end + 1 ELSE r.start

\* Where the chunk lies in the file: the footer's is computed from the size of
\* the file, and a column chunk's is the start of the request.
StartPosition(r) == IF r.start = NoStart THEN object_size - r.end ELSE r.start

\* The size of the object, after the slash of the Content-Range header.
ParseRange(r) == object_size

\* A response becomes a chunk of the file.
AddChunck(r) ==
    /\ Len(chuncks) < MaxChuncks
    /\ GetObjectRange(r)
    /\ chuncks' = Append(chuncks, [start_position |-> StartPosition(r),
                                   data |-> SubSeq(Served(r), 1, CalculateLength(r))])
    /\ requests' = requests \cup {r}
    /\ size_' = ParseRange(r)
    /\ last' = NoCall
    /\ UNCHANGED <<object_size, position_>>

-----------------------------------------------------------------------------
(* PartialFile.                                                            *)

\* Mutant of Contains: the first byte of a chunk is not in it.
ContainsAfterFirst(c, position) ==
    c.start_position < position /\ position < c.start_position + Len(c.data)

Contains(c, position) ==
    c.start_position <= position /\ position < c.start_position + Len(c.data)

\* The result of ReadAt: only the first chunk that contains the position is
\* looked at.
ReadResult(position, nbytes) ==
    LET found == {i \in DOMAIN chuncks : Contains(chuncks[i], position)}
        first == chuncks[CHOOSE i \in found : \A j \in found : i <= j]
        offset == position - first.start_position
    IN  IF found = {} \/ offset + nbytes > Len(first.data)
        THEN Failed
        ELSE SubSeq(first.data, offset + 1, offset + nbytes)

Call(position, nbytes) ==
    last' = [position |-> position, nbytes |-> nbytes, data |-> ReadResult(position, nbytes)]

ReadAt(position, nbytes) ==
    /\ Call(position, nbytes)
    /\ UNCHANGED <<object_size, requests, chuncks, size_, position_>>

\* Read moves the position whether it succeeds or not.
Read(nbytes) ==
    /\ position_ + nbytes <= MaxSize
    /\ Call(position_, nbytes)
    /\ position_' = position_ + nbytes
    /\ UNCHANGED <<object_size, requests, chuncks, size_>>

Seek(position) ==
    /\ position_' = position
    /\ last' = NoCall
    /\ UNCHANGED <<object_size, requests, chuncks, size_>>

Close ==
    /\ chuncks' = << >>
    /\ requests' = {}
    /\ last' = NoCall
    /\ UNCHANGED <<object_size, size_, position_>>

Offsets == 0..MaxSize

Next ==
    \/ \E start \in Offsets \cup {NoStart}, end \in Offsets :
          (start # NoStart => start <= end) /\ AddChunck(Range(start, end))
    \/ \E position \in Offsets, nbytes \in 1..MaxSize : ReadAt(position, nbytes)
    \/ \E nbytes \in 1..MaxSize : Read(nbytes)
    \/ \E position \in Offsets : Seek(position)
    \/ Close

Spec == Init /\ [][Next]_vars

-----------------------------------------------------------------------------
(* Properties.                                                             *)

Wanted == {last.position + i : i \in 0..(last.nbytes - 1)}

\* What a read returns is the part of the object it asked for, through the
\* offsets of the request, the response, the chunk and the view.
ReadsAreTrue ==
    last.data # Failed =>
        last.data = [i \in 1..last.nbytes |-> last.position + i - 1]

\* The bytes that a request covers.
Requested(r) ==
    IF r.start = NoStart THEN (object_size - r.end)..(object_size - 1) ELSE r.start..r.end

\* The inclusive and suffix ranges lose no byte at either end: once a request
\* was answered, each byte it covers can be read.
DownloadedIsReadable ==
    \A r \in requests : \A i \in Requested(r) : ReadResult(i, 1) = <<i>>

\* A file of one chunk, as every file in the repository is, fails only then.
OneChunckReads ==
    \A r \in requests :
        requests = {r} /\ Wanted # {} /\ Wanted \subseteq Requested(r) => last.data # Failed

=============================================================================
