-------------------------------- MODULE Streams --------------------------------
(***************************************************************************)
(* The streams of serialize.h: CDataStream, a vector of bytes with a       *)
(* position up to which it has been read, and CBufferedFile, a ring that   *)
(* keeps the last bytes of a file so that a reader may go back.            *)
(***************************************************************************)
EXTENDS Integers, Sequences, FiniteSets

CONSTANTS
    Pieces,         \* what is written to a data stream at once
    MaxStream,      \* how long one grows
    Length,         \* bytes of the file
    nBufSize,       \* bytes of the ring
    nRewind,        \* bytes that a reader may go back
    ShortReads      \* whether the file may be read in parts

StreamsAssumption ==
    /\ Pieces \subseteq Seq(Nat) /\ MaxStream \in Nat /\ Length \in Nat
    /\ nBufSize \in Nat /\ nRewind \in Nat /\ nRewind < nBufSize
    /\ ShortReads \in BOOLEAN

VARIABLES
    vch, nReadPos,  \* the bytes of a data stream and how many of them were read
    failed,         \* the failbit of its state
    throws,         \* whether its exceptions are on
    read            \* what was read last

stream == <<vch, nReadPos, failed, throws, read>>

StreamInit == vch = <<>> /\ nReadPos = 0 /\ failed = FALSE /\ throws = TRUE /\ read = <<>>

size == Len(vch) - nReadPos
Unread == SubSeq(vch, nReadPos + 1, Len(vch))
Removed(s, m, n) == SubSeq(s, 1, m) \o SubSeq(s, n + 1, Len(s))

\* write, operator+= and what is written by <<
write(s) ==
    /\ Len(vch) + Len(s) <= MaxStream
    /\ vch' = vch \o s
    /\ UNCHANGED <<nReadPos, failed, throws, read>>

\* A slip: the buffer is cleared with bytes left in it.
ReachesSoon(next) == next + 1 >= Len(vch)
\* At the end the buffer is cleared.
Reaches(next) == next >= Len(vch)
Forward(next) ==
    IF Reaches(next) THEN vch' = <<>> /\ nReadPos' = 0
    ELSE nReadPos' = next /\ UNCHANGED vch

\* Reading beyond the end fails; where that is not thrown, what is missing is zero.
readSome(n) ==
    LET next == nReadPos + n
        beyond == next > Len(vch)
    IN /\ failed' = (failed \/ beyond)
       /\ IF beyond /\ throws THEN UNCHANGED <<vch, nReadPos, read>>
          ELSE Forward(next) /\ read' = IF beyond THEN Unread ELSE SubSeq(vch, nReadPos + 1, next)
       /\ UNCHANGED throws

ignore(n) ==
    LET next == nReadPos + n
        beyond == next > Len(vch)
    IN /\ failed' = (failed \/ beyond)
       /\ IF beyond /\ throws THEN UNCHANGED <<vch, nReadPos>> ELSE Forward(next)
       /\ UNCHANGED <<throws, read>>

\* In front the bytes take the place of those that were read, if there are as many.
insert(at, s) ==
    /\ IF at = 0 /\ Len(s) <= nReadPos
       THEN /\ nReadPos' = nReadPos - Len(s)
            /\ vch' = SubSeq(vch, 1, nReadPos - Len(s)) \o s \o Unread
       ELSE /\ Len(vch) + Len(s) <= MaxStream
            /\ vch' = SubSeq(vch, 1, nReadPos + at) \o s \o SubSeq(vch, nReadPos + at + 1, Len(vch))
            /\ UNCHANGED nReadPos
    /\ UNCHANGED <<failed, throws, read>>

\* One byte, and a range: in front the position moves.
eraseOne(at) ==
    /\ at < size
    /\ IF at = 0 THEN Forward(nReadPos + 1)
       ELSE vch' = Removed(vch, nReadPos + at, nReadPos + at + 1) /\ UNCHANGED nReadPos
    /\ UNCHANGED <<failed, throws, read>>
erase(first, last) ==
    /\ first <= last /\ last <= size
    /\ CASE first = 0 /\ last = size -> vch' = <<>> /\ nReadPos' = 0
         [] first = 0 /\ last < size -> nReadPos' = nReadPos + last /\ UNCHANGED vch
         [] first > 0 -> vch' = Removed(vch, nReadPos + first, nReadPos + last) /\ UNCHANGED nReadPos
    /\ UNCHANGED <<failed, throws, read>>

Compact == vch' = Unread /\ nReadPos' = 0 /\ UNCHANGED <<failed, throws, read>>

\* As far as bytes that were read are still there.
Rewind(n) ==
    /\ n <= nReadPos
    /\ nReadPos' = nReadPos - n
    /\ UNCHANGED <<vch, failed, throws, read>>

\* clear() of the vector, that of the state, and GetAndClear
clear == vch' = <<>> /\ nReadPos' = 0 /\ UNCHANGED <<failed, throws, read>>
clearState == failed' = FALSE /\ UNCHANGED <<vch, nReadPos, throws, read>>
\* Exceptions that are turned on are thrown at once if there was a failure, but they are on.
exceptions(on) == throws' = on /\ UNCHANGED <<vch, nReadPos, failed, read>>

StreamNext ==
    \/ \E s \in Pieces : write(s) \/ \E at \in 0 .. size : insert(at, s)
    \/ \E n \in 0 .. MaxStream : readSome(n) \/ ignore(n) \/ eraseOne(n) \/ Rewind(n)
    \/ \E m, n \in 0 .. size : erase(m, n)
    \/ Compact \/ clear \/ clearState
    \/ \E on \in BOOLEAN : exceptions(on)

StreamSpec == StreamInit /\ [][StreamNext]_stream

\* A data stream is a queue of bytes, whatever is done at its front (CDataStream).
Queue == INSTANCE ByteQueue WITH behind <- SubSeq(vch, 1, nReadPos), ahead <- Unread, out <- read,
                                 Data <- Pieces
StreamIsQueue == Queue!QueueSpec

--------------------------------------------------------------------------------
(* CBufferedFile.  The byte at a position of the file is the position.           *)

VARIABLES
    nSrcPos,        \* how much of the file has been read into the ring
    nPos,           \* how much of it the reader has read
    nReadLimit,     \* up to where he may
    vchBuf,         \* the ring
    base,           \* where the file was entered last: 0, or by Seek
    got,            \* what the reader got last
    thrown          \* whether the last call ended with an exception

file == <<nSrcPos, nPos, nReadLimit, vchBuf, base, got, thrown>>
NoLimit == Length + nBufSize

FileInit ==
    /\ nSrcPos = 0 /\ nPos = 0 /\ nReadLimit = NoLimit /\ base = 0
    /\ vchBuf = [x \in 0 .. nBufSize - 1 |-> -1] /\ got = <<>> /\ thrown = FALSE

Least(a, b) == IF a < b THEN a ELSE b

\* A slip: what a reader may go back to is overwritten.
RoomAll(src, pos) == nBufSize - (src - pos)
FillRoom(src, pos) == nBufSize - (src - pos) - nRewind
\* How much Fill reads at most: to the end of the ring, and not over what is kept.
ReadNow(src, pos) == Least(nBufSize - (src % nBufSize), FillRoom(src, pos))
\* How much it may find: the file is read in parts, or fails.
Finds(src, pos) ==
    LET most == Least(ReadNow(src, pos), Length - src)
    IN IF ShortReads THEN 0 .. most ELSE {most}
Filled(ring, src, n) ==
    [x \in DOMAIN ring |-> IF \E d \in 0 .. n - 1 : (src + d) % nBufSize = x
                           THEN CHOOSE p \in src .. src + n - 1 : p % nBufSize = x ELSE ring[x]]

\* read(n): a step for each turn of its loop; what it needs is in want.
VARIABLE want
reading == <<file, want>>

Begin(n) ==
    /\ want = 0
    /\ thrown' = (n + nPos > nReadLimit \/ n + nRewind > nBufSize)
    /\ want' = IF thrown' THEN 0 ELSE n
    /\ got' = <<>>
    /\ UNCHANGED <<nSrcPos, nPos, nReadLimit, vchBuf, base>>

\* The ring is filled when the reader is at its end; nothing to fill it with is thrown.
Fill ==
    /\ want > 0 /\ nPos = nSrcPos
    /\ \E n \in Finds(nSrcPos, nPos) :
         /\ nSrcPos' = nSrcPos + n
         /\ vchBuf' = Filled(vchBuf, nSrcPos, n)
         /\ thrown' = (n = 0)
         /\ want' = IF n = 0 THEN 0 ELSE want
    /\ UNCHANGED <<nPos, nReadLimit, base, got>>

Copy ==
    /\ want > 0 /\ nPos < nSrcPos
    /\ LET now == Least(Least(want, nBufSize - (nPos % nBufSize)), nSrcPos - nPos)
       IN /\ got' = got \o [x \in 1 .. now |-> vchBuf[(nPos + x - 1) % nBufSize]]
          /\ nPos' = nPos + now
          /\ want' = want - now
    /\ UNCHANGED <<nSrcPos, nReadLimit, vchBuf, base, thrown>>

\* Where SetPos ends: the ring is only followed back from what has been read into it.
Position(p) ==
    CASE p + nRewind < nSrcPos -> nSrcPos - nRewind
      [] p + nRewind >= nSrcPos /\ p > nSrcPos -> nSrcPos
      [] OTHER -> p
SetPos(p) ==
    /\ want = 0
    /\ nPos' = Position(p)
    /\ got' = <<>> /\ thrown' = FALSE
    /\ UNCHANGED <<nSrcPos, nReadLimit, vchBuf, base, want>>

Seek(p) ==
    /\ want = 0
    /\ nSrcPos' = p /\ nPos' = p /\ base' = p
    /\ got' = <<>> /\ thrown' = FALSE
    /\ UNCHANGED <<nReadLimit, vchBuf, want>>

SetLimit(p) ==
    /\ want = 0
    /\ nReadLimit' = IF p < nPos THEN nReadLimit ELSE p
    /\ got' = <<>> /\ thrown' = FALSE
    /\ UNCHANGED <<nSrcPos, nPos, vchBuf, base, want>>

FileNext ==
    \/ \E n \in 1 .. nBufSize : Begin(n)
    \/ Fill \/ Copy
    \/ \E p \in 0 .. Length : SetPos(p) \/ Seek(p)
    \/ \E p \in 0 .. Length \cup {NoLimit} : SetLimit(p)

FileSpec == FileInit /\ want = 0 /\ [][FileNext]_reading

\* The ring has the bytes of the file that it should, and behind the reader as many as he
\* may go back over, unless he has gone back already (Fill, SetPos).
RingTrue ==
    /\ nPos <= nSrcPos
    /\ \A p \in base .. nSrcPos - 1 : p >= nSrcPos - nBufSize => vchBuf[p % nBufSize] = p
    /\ nPos - nRewind >= nSrcPos - nBufSize \/ nPos >= nSrcPos - nRewind

\* The reader gets the bytes of the file from where he stands, without a hole or a
\* repetition, unless he went back over the place that Seek brought him to (read).
ReadsTrue ==
    nPos - Len(got) >= base =>
        \A x \in DOMAIN got : got[x] = nPos - Len(got) + x - 1

\* The ring of a buffered file has its bytes, and the reader gets them from where he stands
\* (CBufferedFile).
BufferedReadsTrue == RingTrue /\ ReadsTrue

\* The class "guarantees the ability to rewind a given number of bytes".
RewindKept ==
    want = 0 => \A n \in 0 .. nRewind : nPos - n >= base => Position(nPos - n) = nPos - n
================================================================================
