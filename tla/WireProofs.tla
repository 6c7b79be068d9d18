----------------------------- MODULE WireProofs -----------------------------
(***************************************************************************)
(* What framing a payload and finding it again come to, for every base,    *)
(* payload and surrounding bytes; and, from it, that whatever the          *)
(* transport does to the bytes of a connection, the server finds the       *)
(* frames that were written: for every base, banner, payload, size of the  *)
(* pieces, and number of records, breaks and connections.                  *)
(*                                                                         *)
(* The second argument speaks of the connection's stream: all bytes of all *)
(* its frames, the ones that never arrive included.  What is being         *)
(* written, what is under way and what the server holds are pieces of it   *)
(* that follow one another, and the server's offset is where a frame       *)
(* begins.                                                                 *)
(***************************************************************************)
EXTENDS Wire, SequenceTheorems, TLAPS

\* Division with remainder by the base.
LEMMA DivMod ==
  ASSUME NEW n \in Nat
  PROVE  \E q \in Nat, r \in Byte :
           q = n \div Base /\ r = n % Base /\ n = q * Base + r
<1>1. PICK q \in Nat : q = n \div Base
  BY BaseAssumption
<1>2. PICK r \in Byte : r = n % Base
  BY BaseAssumption DEF Byte
<1>3. r \in Nat
  BY BaseAssumption DEF Byte
<1>4. n = q * Base + r
  BY <1>1, <1>2, <1>3, BaseAssumption
<1> QED BY <1>1, <1>2, <1>4

\* The quotient of a number below a multiple of the base.
LEMMA QuotientBelow ==
  ASSUME NEW q \in Nat, NEW r \in Byte, NEW m \in Nat, q * Base + r < m * Base
  PROVE  q < m
<1>1. r \in Nat /\ q * Base < m * Base
  BY BaseAssumption DEF Byte
<1>2. ASSUME q >= m PROVE FALSE
  <2>1. PICK k \in Nat : q = m + k
    BY <1>2
  <2>2. q * Base = m * Base + k * Base /\ k * Base >= 0
    BY <2>1, BaseAssumption
  <2> QED BY <1>1, <2>2, BaseAssumption
<1> QED BY <1>2

\* A length that fits the field is read back as it was written.
LEMMA LengthKept ==
  ASSUME NEW n \in Nat, n < Base * Base * Base * Base
  PROVE  \E a, b, c, d \in Byte :
           /\ LenBytes(n) = <<a, b, c, d>>
           /\ ((a * Base + b) * Base + c) * Base + d = n
<1>1. PICK q1 \in Nat, d \in Byte :
        q1 = n \div Base /\ d = n % Base /\ n = q1 * Base + d
  BY DivMod
<1>2. PICK q2 \in Nat, c \in Byte :
        q2 = q1 \div Base /\ c = q1 % Base /\ q1 = q2 * Base + c
  BY DivMod
<1>3. PICK q3 \in Nat, b \in Byte :
        q3 = q2 \div Base /\ b = q2 % Base /\ q2 = q3 * Base + b
  BY DivMod
<1>4. q1 < Base * Base * Base
  BY <1>1, QuotientBelow, BaseAssumption
<1>5. q2 < Base * Base
  BY <1>2, <1>4, QuotientBelow, BaseAssumption
<1>6. q3 < Base
  BY <1>3, <1>5, QuotientBelow, BaseAssumption
<1>7. q3 % Base = q3 /\ q3 \in Byte
  BY <1>6, BaseAssumption DEF Byte
<1>8. LenBytes(n) = <<q3, b, c, d>>
  BY <1>1, <1>2, <1>3, <1>7 DEF LenBytes
<1>9. ((q3 * Base + b) * Base + c) * Base + d = n
  BY <1>1, <1>2, <1>3
<1> QED BY <1>7, <1>8, <1>9

\* Bytes that are a frame of this command and payload, and then tail.
FrameThen(bytes, command, payload, tail) ==
  /\ bytes \in Seq(Byte) /\ Len(bytes) = 5 + Len(payload) + Len(tail)
  /\ bytes[1] = command /\ Declared(bytes, 0) = Len(payload)
  /\ \A i \in 1 .. Len(payload) : bytes[5 + i] = payload[i]
  /\ \A i \in 1 .. Len(tail) : bytes[5 + Len(payload) + i] = tail[i]

\* The payload of a frame is where its header says, whatever follows.
LEMMA EncodeShape ==
  ASSUME NEW command \in Byte, NEW payload \in Seq(Byte), NEW out,
         NEW tail \in Seq(Byte), Len(payload) < Base * Base * Base * Base
  PROVE  FrameThen(Encode(out, command, payload) \o tail, command, payload, tail)
<1> DEFINE bytes == Encode(out, command, payload) \o tail
<1>1. PICK a, b, c, d \in Byte :
        /\ LenBytes(Len(payload)) = <<a, b, c, d>>
        /\ ((a * Base + b) * Base + c) * Base + d = Len(payload)
  BY LengthKept
<1>2. Encode(out, command, payload) = <<command>> \o <<a, b, c, d>> \o payload
  BY <1>1 DEF Encode
<1>3. bytes = <<command, a, b, c, d>> \o payload \o tail
  BY <1>2
<1> HIDE DEF bytes
<1>4. bytes \in Seq(Byte) /\ Len(bytes) = 5 + Len(payload) + Len(tail)
  BY <1>3
<1>5. /\ bytes[1] = command /\ bytes[2] = a /\ bytes[3] = b
      /\ bytes[4] = c /\ bytes[5] = d
  BY <1>3
<1>6. \A i \in 1 .. Len(payload) : bytes[5 + i] = payload[i]
  BY <1>3
<1>7. \A i \in 1 .. Len(tail) : bytes[5 + Len(payload) + i] = tail[i]
  BY <1>3
<1>8. Declared(bytes, 0) = Len(payload)
  <2>1. 0 + 2 = 2 /\ 0 + 3 = 3 /\ 0 + 4 = 4 /\ 0 + 5 = 5
    OBVIOUS
  <2>2. Declared(bytes, 0)
          = ((bytes[2] * Base + bytes[3]) * Base + bytes[4]) * Base + bytes[5]
    BY <2>1, Zenon DEF Declared
  <2> QED BY <2>2, <1>1, <1>5, Zenon
<1>9. FrameThen(bytes, command, payload, tail)
  BY <1>4, <1>5, <1>6, <1>7, <1>8 DEF FrameThen
<1> QED BY <1>9 DEF bytes

\* What agrees with a piece of a sequence, position by position, is that piece.
LEMMA PieceOf ==
  ASSUME NEW s \in Seq(Byte), NEW piece \in Seq(Byte), NEW k \in Nat,
         k + Len(piece) <= Len(s),
         \A i \in 1 .. Len(piece) : s[k + i] = piece[i]
  PROVE  SubSeq(s, k + 1, k + Len(piece)) = piece
<1> DEFINE cut == SubSeq(s, k + 1, k + Len(piece))
<1>1. cut \in Seq(Byte) /\ Len(cut) = Len(piece)
  OBVIOUS
<1>2. ASSUME NEW i \in 1 .. Len(piece) PROVE cut[i] = piece[i]
  <2>1. cut[i] = s[(k + 1) + i - 1] /\ (k + 1) + i - 1 = k + i
    OBVIOUS
  <2> QED BY <2>1
<1> HIDE DEF cut
<1>3. Len(cut) = Len(piece) /\ \A i \in 1 .. Len(cut) : cut[i] = piece[i]
  BY <1>1, <1>2
<1>4. cut = piece
  BY <1>1, <1>3, SeqEqual, Zenon
<1> QED BY <1>4 DEF cut

\* A frame that is there to its last byte decodes to the command and payload it
\* was made of, and what is left is what followed it.
THEOREM FrameFound ==
  ASSUME NEW command \in Byte, NEW payload \in Seq(Byte), NEW out,
         NEW tail \in Seq(Byte), Len(payload) < Base * Base * Base * Base,
         NEW bytes, bytes = Encode(out, command, payload) \o tail
  PROVE  /\ Complete(bytes, 0)
         /\ FrameAt(bytes, 0) = [command |-> command, payload |-> payload]
         /\ SubSeq(bytes, 5 + Declared(bytes, 0) + 1, Len(bytes)) = tail
<1>1. /\ bytes \in Seq(Byte) /\ Len(bytes) = 5 + Len(payload) + Len(tail)
      /\ bytes[1] = command /\ Declared(bytes, 0) = Len(payload)
      /\ \A i \in 1 .. Len(payload) : bytes[5 + i] = payload[i]
      /\ \A i \in 1 .. Len(tail) : bytes[5 + Len(payload) + i] = tail[i]
  <2>1. FrameThen(bytes, command, payload, tail)
    BY EncodeShape, Zenon
  <2> QED BY <2>1 DEF FrameThen
<1>2. Complete(bytes, 0)
  BY <1>1 DEF Complete, HasHeader
<1>3. SubSeq(bytes, 6, 5 + Len(payload)) = payload
  BY <1>1, PieceOf
<1>4. SubSeq(bytes, 5 + Len(payload) + 1, Len(bytes)) = tail
  BY <1>1, PieceOf
<1>5. 0 + 1 = 1 /\ 0 + 6 = 6 /\ 0 + 5 = 5
  OBVIOUS
<1>6. FrameAt(bytes, 0) = [command |-> command, payload |-> payload]
  BY <1>1, <1>3, <1>5, Zenon DEF FrameAt
<1>7. SubSeq(bytes, 5 + Declared(bytes, 0) + 1, Len(bytes)) = tail
  BY <1>1, <1>4, Zenon
<1> QED BY <1>2, <1>6, <1>7

\* A frame cut short is never taken for a frame, wherever the cut.
THEOREM CutFrameWaits ==
  ASSUME NEW command \in Byte, NEW payload \in Seq(Byte), NEW out,
         Len(payload) < Base * Base * Base * Base,
         NEW n \in 0 .. 4 + Len(payload)
  PROVE  ~Complete(SubSeq(Encode(out, command, payload), 1, n), 0)
<1> DEFINE bytes == Encode(out, command, payload)
           cut == SubSeq(bytes, 1, n)
<1>1. /\ bytes \in Seq(Byte) /\ Len(bytes) = 5 + Len(payload)
      /\ Declared(bytes, 0) = Len(payload)
  <2>1. PICK a, b, c, d \in Byte : LenBytes(Len(payload)) = <<a, b, c, d>>
    BY LengthKept
  <2>2. bytes = <<command>> \o <<a, b, c, d>> \o payload
    BY <2>1 DEF Encode
  <2>3. bytes = bytes \o <<>>
    BY <2>2
  <2>4. <<>> \in Seq(Byte) /\ Len(<<>>) = 0
    OBVIOUS
  <2>5. FrameThen(bytes \o <<>>, command, payload, <<>>)
    BY <2>4, EncodeShape, Zenon
  <2>6. FrameThen(bytes, command, payload, <<>>)
    BY <2>3, <2>5, Zenon
  <2> HIDE DEF bytes
  <2> QED BY <2>4, <2>6 DEF FrameThen
<1>2. Len(cut) = n /\ \A i \in 1 .. n : cut[i] = bytes[i]
  BY <1>1
<1>3. ASSUME n >= 5 PROVE Declared(cut, 0) = Len(payload)
  <2>1. /\ cut[2] = bytes[2] /\ cut[3] = bytes[3]
        /\ cut[4] = bytes[4] /\ cut[5] = bytes[5]
    BY <1>2, <1>3
  <2>2. 0 + 2 = 2 /\ 0 + 3 = 3 /\ 0 + 4 = 4 /\ 0 + 5 = 5
    OBVIOUS
  <2>3. Declared(cut, 0) = Declared(bytes, 0)
    BY <2>1, <2>2, Zenon DEF Declared
  <2> QED BY <2>3, <1>1
<1>4. ~Complete(cut, 0)
  BY <1>2, <1>3 DEF Complete, HasHeader
<1> QED BY <1>4

-----------------------------------------------------------------------------

Frames == [command : Byte, payload : Seq(Byte)]

\* Frame g begins after the first k bytes of s.
FrameIn(s, k, g) ==
  /\ s[k + 1] = g.command
  /\ Declared(s, k) = Len(g.payload)
  /\ \A j \in 1 .. Len(g.payload) : s[k + 5 + j] = g.payload[j]

\* What the worker may send as its i-th frame.
Proper(i, g) ==
  /\ Len(g.payload) <= MaxPayload
  /\ g.command = IF i = 1 THEN CmdBanner ELSE CmdLog
  /\ i = 1 => IsPrefix(Prefix, g.payload)

\* The stream s is made of the frames g, and the i-th of them ends at end[i].
Stream(s, g, end) ==
  /\ s \in Seq(Byte) /\ g \in Seq(Frames)
  /\ end \in [0 .. Len(g) -> 0 .. Len(s)]
  /\ end[0] = 0 /\ end[Len(g)] = Len(s)
  /\ \A i \in 1 .. Len(g) :
       /\ end[i] = end[i - 1] + 5 + Len(g[i].payload)
       /\ FrameIn(s, end[i - 1], g[i])
       /\ Proper(i, g[i])

\* The bytes b are the ones that follow the first k of s.
Piece(s, k, b) ==
  /\ b \in Seq(Byte) /\ k + Len(b) <= Len(s)
  /\ \A i \in 1 .. Len(b) : b[i] = s[k + i]

\* The server has drained d bytes and holds b, of which it has decoded o: it
\* has found the frames f.
Reader(s, g, end, d, b, o, f) ==
  /\ d \in Nat /\ Piece(s, d, b) /\ o \in 0 .. Len(b)
  /\ f \in Seq(Frames) /\ Len(f) <= Len(g)
  /\ \A i \in 1 .. Len(f) : f[i] = g[i]
  /\ d + o = end[Len(f)]

\* The worker has begun the frames n, and r is left to write after the first k
\* bytes.  When the connection breaks in a frame, that one is not counted.
Writer(s, g, k, l, r, n) ==
  IF l = "open"
  THEN n = g /\ g # <<>> /\ Piece(s, k, r) /\ k + Len(r) = Len(s)
  ELSE r = <<>> /\ (n = g \/ (g # <<>> /\ n = Front(g) /\ k < Len(s)))

Arranged(s, g, end, d) ==
  /\ Stream(s, g, end)
  /\ Reader(s, g, end, d, buffer, offset, frames)
  /\ Piece(s, d + Len(buffer), pipe)
  /\ Writer(s, g, d + Len(buffer) + Len(pipe), link, rest, begun)

StreamInv ==
  /\ WireTypeOK
  /\ ~refused /\ (seen => frames # <<>>)
  /\ \E s, g, end, d : Arranged(s, g, end, d)

-----------------------------------------------------------------------------
(* Pieces.                                                                 *)

\* Bytes that go from the front of one piece to the back of the one before.
LEMMA PieceMoves ==
  ASSUME NEW s \in Seq(Byte), NEW k \in Nat, NEW b, NEW p, NEW n \in 1 .. Len(p),
         Piece(s, k, b), Piece(s, k + Len(b), p)
  PROVE  /\ Piece(s, k, b \o SubSeq(p, 1, n))
         /\ Piece(s, k + Len(b \o SubSeq(p, 1, n)), SubSeq(p, n + 1, Len(p)))
<1> DEFINE cut == SubSeq(p, 1, n)
           b2 == b \o cut
           p2 == SubSeq(p, n + 1, Len(p))
<1>1. /\ b \in Seq(Byte) /\ p \in Seq(Byte) /\ n \in Nat
      /\ Len(b) \in Nat /\ Len(p) \in Nat /\ n <= Len(p)
  BY DEF Piece
<1>2. /\ cut \in Seq(Byte) /\ Len(cut) = n
      /\ \A i \in 1 .. n : cut[i] = p[i]
  BY <1>1
<1>3. /\ p2 \in Seq(Byte) /\ Len(p2) = Len(p) - n
      /\ \A i \in 1 .. Len(p) - n : p2[i] = p[n + i]
  BY <1>1
<1> HIDE DEF cut, p2
<1>4. /\ b2 \in Seq(Byte) /\ Len(b2) = Len(b) + n
      /\ \A i \in 1 .. Len(b) + n : b2[i] = IF i <= Len(b) THEN b[i] ELSE cut[i - Len(b)]
  BY <1>1, <1>2, ConcatProperties
<1> HIDE DEF b2
<1>5. Piece(s, k, b2)
  <2>1. ASSUME NEW i \in 1 .. Len(b2) PROVE b2[i] = s[k + i]
    <3>1. CASE i <= Len(b)
      <4>1. i \in 1 .. Len(b) /\ b2[i] = b[i]
        BY <1>1, <1>4, <3>1
      <4> QED BY <4>1 DEF Piece
    <3>2. CASE ~(i <= Len(b))
      <4>1. i - Len(b) \in 1 .. n /\ (k + Len(b)) + (i - Len(b)) = k + i
        BY <1>1, <1>4, <3>2
      <4>2. b2[i] = p[i - Len(b)]
        BY <1>2, <1>4, <3>2, <4>1
      <4>3. i - Len(b) \in 1 .. Len(p)
        BY <1>1, <4>1
      <4>4. p[i - Len(b)] = s[(k + Len(b)) + (i - Len(b))]
        BY <4>3 DEF Piece
      <4> QED BY <4>1, <4>2, <4>4
    <3> QED BY <3>1, <3>2
  <2>2. k + Len(b2) <= Len(s)
    BY <1>1, <1>4 DEF Piece
  <2> QED BY <1>4, <2>1, <2>2 DEF Piece
<1>6. Piece(s, k + Len(b2), p2)
  <2>1. ASSUME NEW i \in 1 .. Len(p2) PROVE p2[i] = s[k + Len(b2) + i]
    <3>1. n + i \in 1 .. Len(p) /\ k + Len(b) + (n + i) = k + Len(b2) + i
      BY <1>1, <1>3, <1>4
    <3>2. p[n + i] = s[k + Len(b) + (n + i)]
      BY <3>1 DEF Piece
    <3>3. p2[i] = p[n + i]
      BY <1>3
    <3> QED BY <3>1, <3>2, <3>3
  <2>2. k + Len(b2) + Len(p2) <= Len(s)
    BY <1>1, <1>3, <1>4 DEF Piece
  <2> QED BY <1>3, <2>1, <2>2 DEF Piece
<1> QED BY <1>5, <1>6 DEF b2, p2, cut

\* Moving bytes from one piece to another loses none.
LEMMA NoneLost ==
  ASSUME NEW b \in Seq(Byte), NEW p \in Seq(Byte), NEW n \in 1 .. Len(p)
  PROVE  Len(b \o SubSeq(p, 1, n)) + Len(SubSeq(p, n + 1, Len(p))) = Len(b) + Len(p)
<1>1. n \in Nat /\ n <= Len(p) /\ Len(b) \in Nat /\ Len(p) \in Nat
  OBVIOUS
<1>2. SubSeq(p, 1, n) \in Seq(Byte) /\ Len(SubSeq(p, 1, n)) = n
  BY <1>1
<1>3. Len(SubSeq(p, n + 1, Len(p))) = Len(p) - n
  BY <1>1
<1>4. Len(b \o SubSeq(p, 1, n)) = Len(b) + n
  BY <1>2, ConcatProperties, Zenon
<1>5. (Len(b) + n) + (Len(p) - n) = Len(b) + Len(p)
  BY <1>1
<1> QED BY <1>3, <1>4, <1>5, Zenon

\* What is left of a piece when its first n bytes are gone, or its last.
LEMMA PieceAfter ==
  ASSUME NEW s \in Seq(Byte), NEW k \in Nat, NEW b, NEW n \in 0 .. Len(b), Piece(s, k, b)
  PROVE  /\ Piece(s, k + n, SubSeq(b, n + 1, Len(b)))
         /\ Len(SubSeq(b, n + 1, Len(b))) = Len(b) - n
<1> DEFINE b2 == SubSeq(b, n + 1, Len(b))
<1>1. /\ b \in Seq(Byte) /\ n \in Nat /\ Len(b) \in Nat /\ n <= Len(b)
  BY DEF Piece
<1>2. /\ b2 \in Seq(Byte) /\ Len(b2) = Len(b) - n
      /\ \A i \in 1 .. Len(b) - n : b2[i] = b[n + i]
  BY <1>1
<1> HIDE DEF b2
<1>3. ASSUME NEW i \in 1 .. Len(b2) PROVE b2[i] = s[k + n + i]
  <2>1. n + i \in 1 .. Len(b) /\ k + (n + i) = k + n + i
    BY <1>1, <1>2
  <2>2. b[n + i] = s[k + (n + i)]
    BY <2>1 DEF Piece
  <2> QED BY <1>2, <2>1, <2>2
<1>4. Piece(s, k + n, b2)
  BY <1>1, <1>2, <1>3 DEF Piece
<1> QED BY <1>2, <1>4 DEF b2

\* The first n bytes of a piece are a piece.
LEMMA PieceBefore ==
  ASSUME NEW s \in Seq(Byte), NEW k \in Nat, NEW b, NEW n \in 0 .. Len(b), Piece(s, k, b)
  PROVE  /\ Piece(s, k, SubSeq(b, 1, n))
         /\ Len(SubSeq(b, 1, n)) = n
  BY DEF Piece

\* The bytes of a piece are those of the stream, from a position on too.
LEMMA PieceByte ==
  ASSUME NEW s \in Seq(Byte), NEW d \in Nat, NEW b, NEW o \in Nat, NEW m \in Nat,
         Piece(s, d, b), m >= 1, o + m <= Len(b)
  PROVE  b[o + m] = s[d + o + m]
<1>1. o + m \in 1 .. Len(b) /\ d + (o + m) = d + o + m
  BY DEF Piece
<1>2. b[o + m] = s[d + (o + m)]
  BY <1>1 DEF Piece
<1> QED BY <1>1, <1>2

\* A header reads the same in a piece as in the stream.
LEMMA DeclaredKept ==
  ASSUME NEW s \in Seq(Byte), NEW d \in Nat, NEW b, NEW o \in Nat,
         Piece(s, d, b), HasHeader(b, o)
  PROVE  Declared(b, o) = Declared(s, d + o)
<1>1. Len(b) \in Nat /\ o + 5 <= Len(b)
  BY DEF Piece, HasHeader
<1>2. /\ b[o + 2] = s[d + o + 2] /\ b[o + 3] = s[d + o + 3]
      /\ b[o + 4] = s[d + o + 4] /\ b[o + 5] = s[d + o + 5]
  BY <1>1, PieceByte
<1> QED BY <1>2, Zenon DEF Declared

\* What the server decodes next is the next frame of the stream.
LEMMA NextFrame ==
  ASSUME NEW s \in Seq(Byte), NEW g \in Seq(Frames), NEW end, NEW d \in Nat,
         NEW b, NEW o, NEW f, Stream(s, g, end), Reader(s, g, end, d, b, o, f),
         HasHeader(b, o)
  PROVE  /\ Len(f) + 1 \in 1 .. Len(g)
         /\ g[Len(f) + 1] \in Frames
         /\ Proper(Len(f) + 1, g[Len(f) + 1])
         /\ Declared(b, o) = Len(g[Len(f) + 1].payload)
         /\ end[Len(f) + 1] = d + (o + 5 + Declared(b, o))
         /\ Complete(b, o) => FrameAt(b, o) = g[Len(f) + 1]
<1> DEFINE n == Len(f) + 1
           next == g[n]
<1>1. /\ b \in Seq(Byte) /\ o \in Nat /\ o + 5 <= Len(b) /\ Piece(s, d, b)
      /\ Len(f) \in Nat /\ Len(g) \in Nat /\ Len(s) \in Nat /\ Len(f) <= Len(g)
      /\ d + o = end[Len(f)] /\ d + Len(b) <= Len(s)
  BY DEF Reader, Piece, HasHeader
<1>2. Len(f) # Len(g)
  <2>1. end[Len(g)] = Len(s)
    BY DEF Stream
  <2> QED BY <1>1, <2>1
<1>3. n \in 1 .. Len(g) /\ n - 1 = Len(f) /\ next \in Frames
  BY <1>1, <1>2
<1>4. /\ end[n] = d + o + 5 + Len(next.payload)
      /\ FrameIn(s, d + o, next) /\ Proper(n, next)
  <2>1. /\ end[n] = end[n - 1] + 5 + Len(next.payload)
        /\ FrameIn(s, end[n - 1], next) /\ Proper(n, next)
    BY <1>3 DEF Stream
  <2> QED BY <1>1, <1>3, <2>1
<1>5. next.payload \in Seq(Byte) /\ next.command \in Byte
      /\ next = [command |-> next.command, payload |-> next.payload]
  BY <1>3 DEF Frames
<1>6. Declared(b, o) = Len(next.payload)
  <2>1. Declared(s, d + o) = Len(next.payload)
    BY <1>4 DEF FrameIn
  <2>2. Declared(b, o) = Declared(s, d + o)
    BY <1>1, DeclaredKept
  <2> QED BY <2>1, <2>2
<1>7. ASSUME Complete(b, o) PROVE FrameAt(b, o) = next
  <2> DEFINE p == next.payload
  <2>1. p \in Seq(Byte) /\ Len(p) \in Nat
    BY <1>5
  <2>2. o + 5 + Len(p) <= Len(b)
    <3>1. Len(b) >= o + 5 + Declared(b, o)
      BY <1>7 DEF Complete
    <3>2. Len(b) >= o + 5 + Len(p)
      BY <1>6, <3>1, Zenon
    <3> QED BY <1>1, <2>1, <3>2
  <2>3. \A i \in 1 .. Len(p) : s[d + o + 5 + i] = p[i]
    BY <1>4 DEF FrameIn
  <2> HIDE DEF p
  <2> DEFINE k == o + 5
  <2>4. ASSUME NEW i \in 1 .. Len(p) PROVE b[k + i] = p[i]
    <3> DEFINE at == k + i
    <3>1. at \in 1 .. Len(b) /\ d + at = d + o + 5 + i
      BY <1>1, <2>1, <2>2
    <3> HIDE DEF at
    <3>2. b[at] = s[d + at]
      BY <1>1, <3>1 DEF Piece
    <3>3. b[at] = p[i]
      BY <2>3, <3>1, <3>2
    <3> QED BY <3>3 DEF at
  <2>5. k \in Nat /\ k + Len(p) <= Len(b) /\ k + 1 = o + 6 /\ k = o + 5
    BY <1>1, <2>1, <2>2
  <2> HIDE DEF k
  <2>6. SubSeq(b, k + 1, k + Len(p)) = p
    BY <1>1, <2>1, <2>4, <2>5, PieceOf
  <2>7. b[o + 1] = next.command
    <3>1. b[o + 1] = s[d + o + 1]
      BY <1>1, PieceByte
    <3>2. s[d + o + 1] = next.command
      BY <1>4 DEF FrameIn
    <3> QED BY <3>1, <3>2
  <2>8. Declared(b, o) = Len(p)
    BY <1>6 DEF p
  <2>9. FrameAt(b, o) = [command |-> next.command, payload |-> p]
    BY <2>5, <2>6, <2>7, <2>8, Zenon DEF FrameAt, k
  <2> QED BY <1>5, <2>9 DEF p
<1>8. end[n] = d + (o + 5 + Declared(b, o))
  <2>1. Len(next.payload) \in Nat
    BY <1>5
  <2>2. \A x \in Nat : d + o + 5 + x = d + (o + 5 + x)
    BY <1>1
  <2>3. end[n] = d + (o + 5 + Len(next.payload))
    BY <1>4, <2>1, <2>2, Zenon
  <2> QED BY <1>6, <2>3, Zenon
<1> QED BY <1>3, <1>4, <1>6, <1>7, <1>8
-----------------------------------------------------------------------------
(* The stream grows by a frame.                                            *)

\* What is appended to the stream leaves its pieces alone.
LEMMA PieceKept ==
  ASSUME NEW s \in Seq(Byte), NEW w \in Seq(Byte), NEW k \in Nat, NEW b, Piece(s, k, b)
  PROVE  Piece(s \o w, k, b)
<1> DEFINE s2 == s \o w
<1>1. /\ Len(s2) = Len(s) + Len(w)
      /\ \A i \in 1 .. Len(s) + Len(w) : s2[i] = IF i <= Len(s) THEN s[i] ELSE w[i - Len(s)]
  BY ConcatProperties
<1>2. b \in Seq(Byte) /\ Len(b) \in Nat /\ k + Len(b) <= Len(s)
      /\ Len(s) \in Nat /\ Len(w) \in Nat
  BY DEF Piece
<1> HIDE DEF s2
<1>3. ASSUME NEW i \in 1 .. Len(b) PROVE b[i] = s2[k + i]
  <2>1. k + i \in 1 .. Len(s) + Len(w) /\ k + i <= Len(s)
    BY <1>2
  <2>2. b[i] = s[k + i]
    BY DEF Piece
  <2> QED BY <1>1, <2>1, <2>2
<1>4. k + Len(b) <= Len(s2)
  BY <1>1, <1>2
<1>5. Piece(s2, k, b)
  BY <1>2, <1>3, <1>4 DEF Piece
<1> QED BY <1>5 DEF s2

\* What is appended is a piece, and so is all there was.
LEMMA PieceAdded ==
  ASSUME NEW s \in Seq(Byte), NEW w \in Seq(Byte)
  PROVE  Piece(s \o w, Len(s), w) /\ Piece(s \o w, 0, s) /\ Len(s \o w) = Len(s) + Len(w)
<1> DEFINE s2 == s \o w
<1>1. /\ Len(s2) = Len(s) + Len(w)
      /\ \A i \in 1 .. Len(s) + Len(w) : s2[i] = IF i <= Len(s) THEN s[i] ELSE w[i - Len(s)]
  BY ConcatProperties
<1> HIDE DEF s2
<1>2. Piece(s2, Len(s), w)
  <2>1. ASSUME NEW i \in 1 .. Len(w) PROVE w[i] = s2[Len(s) + i]
    <3>1. /\ Len(s) + i \in 1 .. Len(s) + Len(w)
          /\ ~(Len(s) + i <= Len(s)) /\ (Len(s) + i) - Len(s) = i
      OBVIOUS
    <3> QED BY <1>1, <3>1
  <2> QED BY <1>1, <2>1 DEF Piece
<1>3. Piece(s2, 0, s)
  <2>1. ASSUME NEW i \in 1 .. Len(s) PROVE s[i] = s2[0 + i]
    <3>1. i \in 1 .. Len(s) + Len(w) /\ i <= Len(s) /\ 0 + i = i
      OBVIOUS
    <3> QED BY <1>1, <3>1
  <2> QED BY <1>1, <2>1 DEF Piece
<1> QED BY <1>1, <1>2, <1>3 DEF s2

\* A frame found in a piece is found in the stream.
LEMMA FrameOfPiece ==
  ASSUME NEW s \in Seq(Byte), NEW d \in Nat, NEW b, NEW o \in Nat, NEW fr \in Frames,
         Piece(s, d, b), FrameIn(b, o, fr), o + 5 + Len(fr.payload) <= Len(b)
  PROVE  FrameIn(s, d + o, fr)
<1> DEFINE p == fr.payload
<1>1. p \in Seq(Byte) /\ Len(p) \in Nat
  BY DEF Frames
<1>2. o + 5 + Len(p) <= Len(b) /\ Len(b) \in Nat
  <2>1. b \in Seq(Byte)
    BY DEF Piece
  <2>2. Len(b) \in Nat
    BY <2>1, LenProperties
  <2>3. o + 5 + Len(p) <= Len(b)
    BY Zenon
  <2> QED BY <2>2, <2>3
<1>3. b[o + 1] = fr.command /\ Declared(b, o) = Len(p)
      /\ \A j \in 1 .. Len(p) : b[o + 5 + j] = p[j]
  BY DEF FrameIn
<1> HIDE DEF p
<1>4. HasHeader(b, o)
  BY <1>1, <1>2 DEF HasHeader
<1>5. Declared(s, d + o) = Len(p)
  BY <1>3, <1>4, DeclaredKept
<1>6. s[d + o + 1] = fr.command
  <2>1. o + 1 <= Len(b)
    BY <1>1, <1>2
  <2>2. b[o + 1] = s[d + o + 1]
    BY <2>1, PieceByte
  <2> QED BY <1>3, <2>2
<1>7. ASSUME NEW j \in 1 .. Len(p) PROVE s[d + o + 5 + j] = p[j]
  <2> DEFINE at == o + 5 + j
  <2>1. at \in 1 .. Len(b) /\ d + at = d + o + 5 + j
    BY <1>1, <1>2
  <2>2. b[at] = p[j]
    BY <1>3
  <2> HIDE DEF at
  <2>3. b[at] = s[d + at]
    BY <2>1 DEF Piece
  <2> QED BY <2>1, <2>2, <2>3
<1> QED BY <1>5, <1>6, <1>7 DEF FrameIn, p

\* The bytes of an encoded frame are that frame.
LEMMA EncodedFrame ==
  ASSUME NEW command \in Byte, NEW payload \in Seq(Byte), NEW out,
         Len(payload) < Base * Base * Base * Base
  PROVE  LET w == Encode(out, command, payload)
         IN  /\ w \in Seq(Byte) /\ Len(w) = 5 + Len(payload)
             /\ FrameIn(w, 0, [command |-> command, payload |-> payload])
<1> DEFINE w == Encode(out, command, payload)
           fr == [command |-> command, payload |-> payload]
<1>1. w = w \o <<>>
  <2>1. PICK a, b, c, d \in Byte : LenBytes(Len(payload)) = <<a, b, c, d>>
    BY LengthKept
  <2>2. w = <<command>> \o <<a, b, c, d>> \o payload
    BY <2>1 DEF Encode
  <2> QED BY <2>2
<1>2. <<>> \in Seq(Byte) /\ Len(<<>>) = 0
  OBVIOUS
<1>3. FrameThen(w \o <<>>, command, payload, <<>>)
  BY <1>2, EncodeShape, Zenon
<1>4. FrameThen(w, command, payload, <<>>)
  BY <1>1, <1>3, Zenon
<1> HIDE DEF w
<1>5. /\ w \in Seq(Byte) /\ Len(w) = 5 + Len(payload)
      /\ w[1] = command /\ Declared(w, 0) = Len(payload)
      /\ \A i \in 1 .. Len(payload) : w[5 + i] = payload[i]
  BY <1>2, <1>4 DEF FrameThen
<1>6. fr.command = command /\ fr.payload = payload
  OBVIOUS
<1> HIDE DEF fr
<1>7. FrameIn(w, 0, fr)
  <2>1. 0 + 1 = 1 /\ 0 + 5 = 5
    OBVIOUS
  <2> QED BY <1>5, <1>6, <2>1, Zenon DEF FrameIn
<1> QED BY <1>5, <1>7 DEF w, fr

\* One more frame at the end leaves the others where they are.
LEMMA Extend ==
  ASSUME NEW s \in Seq(Byte), NEW g \in Seq(Frames), NEW end, NEW fr \in Frames,
         NEW w \in Seq(Byte), Stream(s, g, end), Proper(Len(g) + 1, fr),
         Len(w) = 5 + Len(fr.payload), FrameIn(w, 0, fr)
  PROVE  \E end2 :
           /\ Stream(s \o w, Append(g, fr), end2)
           /\ \A i \in 0 .. Len(g) : end2[i] = end[i]
<1> DEFINE s2 == s \o w
           g2 == Append(g, fr)
           end2 == [i \in 0 .. Len(g) + 1 |-> IF i <= Len(g) THEN end[i] ELSE Len(s) + Len(w)]
<1>1. /\ s2 \in Seq(Byte) /\ Len(s2) = Len(s) + Len(w)
      /\ Piece(s2, Len(s), w) /\ Piece(s2, 0, s)
      /\ Len(s) \in Nat /\ Len(w) \in Nat /\ Len(g) \in Nat
  <2>1. s2 \in Seq(Byte)
    BY ConcatProperties
  <2>2. /\ Len(s2) = Len(s) + Len(w)
        /\ Piece(s2, Len(s), w) /\ Piece(s2, 0, s)
    BY PieceAdded, Zenon
  <2>3. Len(s) \in Nat /\ Len(w) \in Nat /\ Len(g) \in Nat
    BY LenProperties
  <2> QED BY <2>1, <2>2, <2>3
<1>2. /\ g2 \in Seq(Frames) /\ Len(g2) = Len(g) + 1
      /\ \A i \in 1 .. Len(g) : g2[i] = g[i]
      /\ g2[Len(g) + 1] = fr
  OBVIOUS
<1>3. /\ end \in [0 .. Len(g) -> 0 .. Len(s)]
      /\ end[0] = 0 /\ end[Len(g)] = Len(s)
      /\ \A i \in 1 .. Len(g) :
           /\ end[i] = end[i - 1] + 5 + Len(g[i].payload)
           /\ FrameIn(s, end[i - 1], g[i])
           /\ Proper(i, g[i])
  BY DEF Stream
<1>4. fr.payload \in Seq(Byte) /\ Len(fr.payload) \in Nat
  BY DEF Frames
<1> HIDE DEF s2, g2
<1>5. /\ end2 \in [0 .. Len(g2) -> 0 .. Len(s2)]
      /\ \A i \in 0 .. Len(g) : end2[i] = end[i]
      /\ end2[Len(g) + 1] = Len(s) + Len(w)
  <2>1. ASSUME NEW i \in 0 .. Len(g) + 1
        PROVE  (IF i <= Len(g) THEN end[i] ELSE Len(s) + Len(w)) \in 0 .. Len(s2)
    <3>1. CASE i <= Len(g)
      <4>1. i \in 0 .. Len(g)
        BY <1>1, <3>1
      <4>2. end[i] \in 0 .. Len(s)
        BY <1>3, <4>1, Zenon
      <4> QED BY <1>1, <3>1, <4>2
    <3>2. CASE ~(i <= Len(g))
      BY <1>1, <3>2
    <3> QED BY <3>1, <3>2
  <2>2. end2 \in [0 .. Len(g2) -> 0 .. Len(s2)]
    BY <1>2, <2>1
  <2> QED BY <1>1, <2>2
<1> HIDE DEF end2
<1>6. end2[0] = 0 /\ end2[Len(g2)] = Len(s2)
  BY <1>1, <1>2, <1>3, <1>5
<1>7. ASSUME NEW i \in 1 .. Len(g2)
      PROVE  /\ end2[i] = end2[i - 1] + 5 + Len(g2[i].payload)
             /\ FrameIn(s2, end2[i - 1], g2[i])
             /\ Proper(i, g2[i])
  <2>1. CASE i \in 1 .. Len(g)
    <3>1. /\ end2[i] = end[i] /\ end2[i - 1] = end[i - 1] /\ g2[i] = g[i]
          /\ g[i] \in Frames /\ end[i] \in 0 .. Len(s) /\ end[i - 1] \in 0 .. Len(s)
      <4>1. i \in 0 .. Len(g) /\ i - 1 \in 0 .. Len(g)
        BY <1>1, <2>1
      <4>2. end2[i] = end[i] /\ end2[i - 1] = end[i - 1] /\ g2[i] = g[i]
        BY <1>2, <1>5, <2>1, <4>1, Zenon
      <4>3. end[i] \in 0 .. Len(s) /\ end[i - 1] \in 0 .. Len(s)
        BY <1>3, <4>1, Zenon
      <4>4. g[i] \in Frames
        BY <2>1, ElementOfSeq
      <4> QED BY <4>2, <4>3, <4>4
    <3>2. /\ end[i] = end[i - 1] + 5 + Len(g[i].payload)
          /\ FrameIn(s, end[i - 1], g[i]) /\ Proper(i, g[i])
      BY <1>3, <2>1
    <3>3. end[i - 1] + 5 + Len(g[i].payload) <= Len(s)
      BY <3>1, <3>2
    <3>4. FrameIn(s2, 0 + end[i - 1], g[i])
      <4>1. ASSUME NEW k \in Nat, k = end[i - 1] PROVE FrameIn(s2, 0 + k, g[i])
        BY <1>1, <3>1, <3>2, <3>3, <4>1, FrameOfPiece
      <4> QED BY <3>1, <4>1
    <3>5. 0 + end[i - 1] = end[i - 1]
      BY <3>1
    <3> QED BY <3>1, <3>2, <3>4, <3>5
  <2>2. CASE i = Len(g) + 1
    <3>1. /\ end2[i] = Len(s) + Len(w) /\ end2[i - 1] = Len(s) /\ g2[i] = fr
      BY <1>1, <1>2, <1>3, <1>5, <2>2
    <3>2. FrameIn(s2, Len(s) + 0, fr)
      <4>1. 0 + 5 + Len(fr.payload) <= Len(w)
        BY <1>4
      <4> QED BY <1>1, <4>1, FrameOfPiece
    <3>3. Len(s) + 0 = Len(s) /\ Len(s) + Len(w) = Len(s) + 5 + Len(fr.payload)
      <4>1. \A l, m \in Nat : l + 0 = l /\ l + (5 + m) = l + 5 + m
        OBVIOUS
      <4>2. Len(s) + Len(w) = Len(s) + (5 + Len(fr.payload))
        BY Zenon
      <4>3. Len(s) + 0 = Len(s) /\ Len(s) + (5 + Len(fr.payload)) = Len(s) + 5 + Len(fr.payload)
        BY <1>1, <1>4, <4>1, Zenon
      <4> QED BY <4>2, <4>3, Zenon
    <3> QED BY <2>2, <3>1, <3>2, <3>3
  <2> QED BY <1>1, <1>2, <2>1, <2>2
<1>8. Stream(s2, g2, end2)
  BY <1>1, <1>2, <1>5, <1>6, <1>7 DEF Stream
<1> QED BY <1>5, <1>8 DEF s2, g2

-----------------------------------------------------------------------------
(* What each action does to the stream.                                    *)

\* The parts of the invariant with the stream picked.
LEMMA StreamFacts ==
  ASSUME NEW s, NEW g, NEW end, NEW d, Arranged(s, g, end, d), WireTypeOK
  PROVE  /\ s \in Seq(Byte) /\ g \in Seq(Frames) /\ d \in Nat
         /\ Len(s) \in Nat /\ Len(g) \in Nat /\ Len(buffer) \in Nat
         /\ Len(pipe) \in Nat /\ Len(rest) \in Nat /\ d + Len(buffer) \in Nat
         /\ Piece(s, d, buffer) /\ Piece(s, d + Len(buffer), pipe)
         /\ Stream(s, g, end) /\ Reader(s, g, end, d, buffer, offset, frames)
         /\ Writer(s, g, d + Len(buffer) + Len(pipe), link, rest, begun)
<1>1. /\ Stream(s, g, end) /\ Reader(s, g, end, d, buffer, offset, frames)
      /\ Piece(s, d + Len(buffer), pipe)
      /\ Writer(s, g, d + Len(buffer) + Len(pipe), link, rest, begun)
  BY DEF Arranged
<1>2. s \in Seq(Byte) /\ g \in Seq(Frames) /\ d \in Nat /\ Piece(s, d, buffer)
  BY <1>1 DEF Stream, Reader
<1>3. /\ Len(s) \in Nat /\ Len(g) \in Nat /\ Len(buffer) \in Nat
      /\ Len(pipe) \in Nat /\ Len(rest) \in Nat
  BY <1>2, LenProperties DEF WireTypeOK
<1> QED BY <1>1, <1>2, <1>3

\* The banner is a payload the server takes as a banner.
LEMMA BannerProper ==
  /\ [command |-> CmdBanner, payload |-> Banner] \in Frames
  /\ Banner \in Seq(Byte) /\ Len(Banner) < Base * Base * Base * Base
  /\ Proper(1, [command |-> CmdBanner, payload |-> Banner])
<1>1. /\ Banner \in Seq(Byte) /\ Len(Banner) = Len(Prefix) + Len(AppName)
      /\ \A i \in 1 .. Len(Prefix) + Len(AppName) :
           Banner[i] = IF i <= Len(Prefix) THEN Prefix[i] ELSE AppName[i - Len(Prefix)]
  BY ConcatProperties, BannerAssumption DEF Banner
<1>2. Len(Prefix) \in Nat /\ Len(AppName) \in Nat
  BY BannerAssumption, LenProperties
<1>3. Len(Banner) <= MaxPayload
  BY <1>1, BannerAssumption
<1>4. IsPrefix(Prefix, Banner)
  <2>1. SubSeq(Banner, 0 + 1, 0 + Len(Prefix)) = Prefix
    <3>1. \A i \in 1 .. Len(Prefix) : Banner[0 + i] = Prefix[i]
      BY <1>1, <1>2
    <3> QED BY <1>1, <1>2, <3>1, PieceOf, BannerAssumption
  <2>2. SubSeq(Prefix, 1, Len(Prefix)) = Prefix
    BY SubSeqFull, BannerAssumption
  <2>3. 0 + 1 = 1 /\ 0 + Len(Prefix) = Len(Prefix) /\ Len(Prefix) <= Len(Banner)
    BY <1>1, <1>2
  <2> QED BY <2>1, <2>2, <2>3 DEF IsPrefix
<1>5. Len(Banner) < Base * Base * Base * Base
  <2> DEFINE top == Base * Base * Base * Base
  <2>1. MaxPayload \in Nat /\ MaxPayload < top /\ top \in Nat
    BY PayloadAssumption, BaseAssumption
  <2> HIDE DEF top
  <2>2. Len(Banner) < top
    BY <1>1, <1>2, <1>3, <2>1
  <2> QED BY <2>2 DEF top
<1>6. [command |-> CmdBanner, payload |-> Banner] \in Frames
  BY <1>1, BannerAssumption DEF Frames
<1>7. Proper(1, [command |-> CmdBanner, payload |-> Banner])
  BY <1>3, <1>4 DEF Proper
<1> QED BY <1>1, <1>5, <1>6, <1>7

\* A stream of no frames.
LEMMA EmptyStream ==
  \E s, g, end : Stream(s, g, end) /\ s = <<>> /\ g = <<>>
<1> DEFINE end == [i \in 0 .. 0 |-> 0]
<1>1. Len(<<>>) = 0 /\ <<>> \in Seq(Byte) /\ <<>> \in Seq(Frames)
  OBVIOUS
<1>2. end \in [0 .. Len(<<>>) -> 0 .. Len(<<>>)] /\ end[0] = 0
  BY <1>1
<1> HIDE DEF end
<1>3. Stream(<<>>, <<>>, end)
  BY <1>1, <1>2 DEF Stream
<1> QED BY <1>3

\* A connection starts a stream of its own, of the banner.
LEMMA ConnectKeeps ==
  ASSUME StreamInv, Connect PROVE StreamInv'
<1>0. PICK fr : fr = [command |-> CmdBanner, payload |-> Banner]
  OBVIOUS
<1>1. PICK s0, g0, end0 : Stream(s0, g0, end0) /\ s0 = <<>> /\ g0 = <<>>
  BY EmptyStream
<1>2. PICK w : /\ w = Encode(frame, CmdBanner, Banner)
               /\ w \in Seq(Byte) /\ Len(w) = 5 + Len(Banner) /\ FrameIn(w, 0, fr)
  <2>1. CmdBanner \in Byte
    BY BannerAssumption
  <2> QED BY <1>0, <2>1, BannerProper, EncodedFrame, Zenon
<1>3. fr \in Frames /\ Proper(1, fr) /\ Len(fr.payload) = Len(Banner)
  BY <1>0, BannerProper
<1>4. /\ link' = "open" /\ connects' = connects + 1 /\ connects < MaxConnects
      /\ pipe' = <<>> /\ buffer' = <<>> /\ offset' = 0 /\ frames' = <<>>
      /\ seen' = FALSE /\ refused' = FALSE /\ records' = records
      /\ frame' = w /\ rest' = w /\ begun' = Append(<<>>, fr)
  BY <1>0, <1>2 DEF Connect, Begin
<1>5. /\ s0 \in Seq(Byte) /\ g0 \in Seq(Frames) /\ Len(s0) = 0 /\ Len(g0) = 0
      /\ end0[0] = 0 /\ Len(g0) + 1 = 1
  BY <1>1 DEF Stream
<1>6. PICK end :
        /\ Stream(s0 \o w, Append(g0, fr), end)
        /\ \A i \in 0 .. Len(g0) : end[i] = end0[i]
  <2>1. Len(w) = 5 + Len(fr.payload) /\ Proper(Len(g0) + 1, fr)
    BY <1>2, <1>3, <1>5
  <2>2. /\ s0 \in Seq(Byte) /\ g0 \in Seq(Frames) /\ Stream(s0, g0, end0)
        /\ fr \in Frames /\ w \in Seq(Byte) /\ FrameIn(w, 0, fr)
    BY <1>1, <1>2, <1>3, <1>5
  <2> QED BY <2>1, <2>2, Extend
<1>7. PICK s, g : s = s0 \o w /\ g = Append(g0, fr)
  OBVIOUS
<1>8. /\ Stream(s, g, end) /\ s \in Seq(Byte) /\ Piece(s, 0, w) /\ Len(s) = 0 + Len(w)
  BY <1>2, <1>5, <1>6, <1>7, PieceAdded, ConcatProperties
<1>9. /\ end[0] = 0 /\ g # <<>> /\ Len(g) \in Nat /\ Len(w) \in Nat
      /\ g = Append(<<>>, fr)
  <2>1. /\ g = Append(<<>>, fr) /\ g # <<>> /\ Len(g) \in Nat
    BY <1>1, <1>3, <1>5, <1>7
  <2>2. end[0] = 0
    BY <1>5, <1>6
  <2> QED BY <1>2, <2>1, <2>2
<1>10. <<>> \in Seq(Byte) /\ <<>> \in Seq(Frames) /\ Len(<<>>) = 0
  OBVIOUS
<1>11. Piece(s, 0, <<>>)
  BY <1>8, <1>9, <1>10 DEF Piece
<1>12. Reader(s, g, end, 0, buffer', offset', frames')
  BY <1>4, <1>9, <1>10, <1>11 DEF Reader
<1>13. Writer(s, g, 0, link', rest', begun')
  BY <1>4, <1>8, <1>9 DEF Writer
<1>14. Arranged(s, g, end, 0)'
  <2>1. 0 + Len(buffer') = 0 /\ 0 + Len(buffer') + Len(pipe') = 0
    BY <1>4
  <2>2. /\ Piece(s, 0 + Len(buffer'), pipe')
        /\ Writer(s, g, 0 + Len(buffer') + Len(pipe'), link', rest', begun')
    BY <1>4, <1>11, <1>13, <2>1, Zenon
  <2> QED BY <1>8, <1>12, <2>2, Zenon DEF Arranged
<1>15. WireTypeOK'
  <2>1. records \in 0 .. MaxRecords /\ connects \in 0 .. MaxConnects
    BY DEF StreamInv, WireTypeOK
  <2>2. frame' \in Seq(Byte) /\ rest' \in Seq(Byte) /\ pipe' \in Seq(Byte)
        /\ buffer' \in Seq(Byte) /\ Len(buffer') = 0
    BY <1>2, <1>4, <1>10
  <2>3. offset' \in 0 .. Len(buffer') /\ connects' \in 0 .. MaxConnects
    BY <1>4, <2>1, <2>2, BoundAssumption
  <2> QED BY <1>4, <2>1, <2>2, <2>3 DEF WireTypeOK
<1> QED BY <1>4, <1>14, <1>15 DEF StreamInv

\* An oversized payload leaves no trace; another one extends the stream.
LEMMA WriteRecordKeeps ==
  ASSUME StreamInv, NEW json \in Payloads, WriteRecord(json) PROVE StreamInv'
<1>1. PICK s0, g0, end0, d : Arranged(s0, g0, end0, d)
  BY DEF StreamInv
<1>2. WireTypeOK /\ ~refused /\ (seen => frames # <<>>)
  BY DEF StreamInv
<1>3. /\ link = "open" /\ rest = <<>> /\ records < MaxRecords /\ records' = records + 1
      /\ buffer' = buffer /\ offset' = offset /\ frames' = frames /\ seen' = seen
      /\ refused' = refused /\ link' = link /\ pipe' = pipe /\ connects' = connects
  BY DEF WriteRecord, reader
<1>4. records' \in 0 .. MaxRecords
  BY <1>2, <1>3, BoundAssumption DEF WireTypeOK
<1>5. CASE UNCHANGED sender
  <2>1. frame' = frame /\ rest' = rest /\ begun' = begun
    BY <1>5 DEF sender
  <2>2. WireTypeOK'
    BY <1>2, <1>3, <1>4, <2>1 DEF WireTypeOK
  <2>3. Arranged(s0, g0, end0, d)'
    BY <1>1, <1>3, <2>1, Zenon DEF Arranged
  <2> QED BY <1>2, <1>3, <2>2, <2>3 DEF StreamInv
<1>6. CASE Fits(json) /\ Begin(CmdLog, json)
  <2>1. PICK fr : fr = [command |-> CmdLog, payload |-> json]
    OBVIOUS
  <2>2. /\ json \in Seq(Byte) /\ Len(json) \in Nat /\ Len(json) <= MaxPayload
        /\ CmdLog \in Byte /\ CmdLog # CmdBanner
    BY <1>6, PayloadAssumption, BannerAssumption, LenProperties DEF Fits
  <2>3. Len(json) < Base * Base * Base * Base
    <3> DEFINE top == Base * Base * Base * Base
    <3>1. MaxPayload \in Nat /\ MaxPayload < top /\ top \in Nat
      BY PayloadAssumption, BaseAssumption
    <3> HIDE DEF top
    <3>2. Len(json) < top
      BY <2>2, <3>1
    <3> QED BY <3>2 DEF top
  <2>4. PICK w : /\ w = Encode(frame, CmdLog, json)
                 /\ w \in Seq(Byte) /\ Len(w) = 5 + Len(json) /\ FrameIn(w, 0, fr)
    BY <2>1, <2>2, <2>3, EncodedFrame, Zenon
  <2>5. frame' = w /\ rest' = w /\ begun' = Append(begun, fr)
    BY <1>6, <2>1, <2>2, <2>4 DEF Begin
  <2>6. /\ s0 \in Seq(Byte) /\ g0 \in Seq(Frames) /\ d \in Nat
        /\ Len(s0) \in Nat /\ Len(g0) \in Nat /\ Len(buffer) \in Nat
        /\ Len(pipe) \in Nat /\ d + Len(buffer) \in Nat
        /\ Piece(s0, d, buffer) /\ Piece(s0, d + Len(buffer), pipe)
        /\ Stream(s0, g0, end0) /\ Reader(s0, g0, end0, d, buffer, offset, frames)
        /\ Writer(s0, g0, d + Len(buffer) + Len(pipe), link, rest, begun)
    BY <1>1, <1>2, StreamFacts, Zenon
  <2>7. begun = g0 /\ g0 # <<>> /\ d + Len(buffer) + Len(pipe) = Len(s0)
    <3>1. Len(rest) = 0
      BY <1>3
    <3> QED BY <1>3, <2>6, <3>1 DEF Writer
  <2>8. fr \in Frames /\ fr.payload = json /\ Proper(Len(g0) + 1, fr)
    <3>1. Len(g0) + 1 # 1
      BY <2>6, <2>7, EmptySeq
    <3> QED BY <2>1, <2>2, <3>1 DEF Frames, Proper
  <2>9. PICK end :
          /\ Stream(s0 \o w, Append(g0, fr), end)
          /\ \A i \in 0 .. Len(g0) : end[i] = end0[i]
    <3>1. Len(w) = 5 + Len(fr.payload)
      BY <2>4, <2>8
    <3>2. /\ s0 \in Seq(Byte) /\ g0 \in Seq(Frames) /\ Stream(s0, g0, end0)
          /\ fr \in Frames /\ w \in Seq(Byte) /\ FrameIn(w, 0, fr)
          /\ Proper(Len(g0) + 1, fr)
      BY <2>4, <2>6, <2>8
    <3> QED BY <3>1, <3>2, Extend
  <2>10. PICK s, g : s = s0 \o w /\ g = Append(g0, fr)
    OBVIOUS
  <2>11. /\ Stream(s, g, end) /\ s \in Seq(Byte) /\ Len(s) = Len(s0) + Len(w)
         /\ Piece(s, Len(s0), w) /\ Piece(s, d, buffer) /\ Piece(s, d + Len(buffer), pipe)
    <3>1. Stream(s, g, end) /\ s \in Seq(Byte)
      BY <2>4, <2>6, <2>9, <2>10, ConcatProperties
    <3>2. Piece(s, Len(s0), w) /\ Len(s) = Len(s0) + Len(w)
      BY <2>4, <2>6, <2>10, PieceAdded, Zenon
    <3>3. Piece(s, d, buffer) /\ Piece(s, d + Len(buffer), pipe)
      BY <2>4, <2>6, <2>10, PieceKept, Zenon
    <3> QED BY <3>1, <3>2, <3>3
  <2>12. /\ g \in Seq(Frames) /\ Len(g) = Len(g0) + 1 /\ g # <<>>
         /\ \A i \in 1 .. Len(g0) : g[i] = g0[i]
    BY <2>6, <2>8, <2>10, AppendProperties
  <2>13. Reader(s, g, end, d, buffer, offset, frames)
    <3>1. /\ offset \in 0 .. Len(buffer) /\ frames \in Seq(Frames)
          /\ Len(frames) <= Len(g0) /\ Len(frames) \in Nat
          /\ \A i \in 1 .. Len(frames) : frames[i] = g0[i]
          /\ d + offset = end0[Len(frames)]
      BY <2>6, LenProperties DEF Reader
    <3>2. Len(frames) <= Len(g) /\ \A i \in 1 .. Len(frames) : frames[i] = g[i]
      BY <2>6, <2>12, <3>1
    <3>3. d + offset = end[Len(frames)]
      <4>1. Len(frames) \in 0 .. Len(g0)
        BY <2>6, <3>1
      <4> QED BY <2>9, <3>1, <4>1, Zenon
    <3> QED BY <2>6, <2>11, <3>1, <3>2, <3>3 DEF Reader
  <2>14. Writer(s, g, d + Len(buffer) + Len(pipe), link', rest', begun')
    BY <1>3, <2>5, <2>7, <2>10, <2>11, <2>12 DEF Writer
  <2>15. Arranged(s, g, end, d)'
    BY <1>3, <2>11, <2>13, <2>14, Zenon DEF Arranged
  <2>16. WireTypeOK'
    BY <1>2, <1>3, <1>4, <2>4, <2>5 DEF WireTypeOK
  <2> QED BY <1>2, <1>3, <2>15, <2>16 DEF StreamInv
<1> QED BY <1>5, <1>6 DEF WriteRecord

\* Bytes handed over leave the frame for the pipe.
LEMMA HandOverKeeps ==
  ASSUME StreamInv, NEW n \in 1 .. Len(rest), HandOver(n) PROVE StreamInv'
<1>1. PICK s, g, end, d : Arranged(s, g, end, d)
  BY DEF StreamInv
<1>2. WireTypeOK /\ ~refused /\ (seen => frames # <<>>)
  BY DEF StreamInv
<1>3. /\ link = "open" /\ frame' = frame /\ begun' = begun
      /\ pipe' = pipe \o SubSeq(rest, 1, n) /\ rest' = SubSeq(rest, n + 1, Len(rest))
      /\ buffer' = buffer /\ offset' = offset /\ frames' = frames /\ seen' = seen
      /\ refused' = refused /\ link' = link /\ connects' = connects /\ records' = records
  BY DEF HandOver, reader
<1>4. PICK k : k = d + Len(buffer)
  OBVIOUS
<1>5. /\ s \in Seq(Byte) /\ k \in Nat /\ Piece(s, k, pipe) /\ Stream(s, g, end)
      /\ Reader(s, g, end, d, buffer, offset, frames)
      /\ Writer(s, g, k + Len(pipe), link, rest, begun)
  BY <1>1, <1>2, <1>4, StreamFacts, Zenon
<1>6. /\ begun = g /\ g # <<>> /\ Piece(s, k + Len(pipe), rest)
      /\ k + Len(pipe) + Len(rest) = Len(s)
  BY <1>3, <1>5 DEF Writer
<1>7. PICK p, r : p = pipe' /\ r = rest'
  OBVIOUS
<1>8. /\ Piece(s, k, p) /\ Piece(s, k + Len(p), r)
      /\ Len(p) + Len(r) = Len(pipe) + Len(rest)
  <2>1. p = pipe \o SubSeq(rest, 1, n) /\ r = SubSeq(rest, n + 1, Len(rest))
    BY <1>3, <1>7
  <2> DEFINE p2 == pipe \o SubSeq(rest, 1, n)
             r2 == SubSeq(rest, n + 1, Len(rest))
  <2>2. Piece(s, k, p2) /\ Piece(s, k + Len(p2), r2)
    BY <1>5, <1>6, PieceMoves, Zenon
  <2>3. Len(p2) + Len(r2) = Len(pipe) + Len(rest)
    BY <1>2, NoneLost, Zenon DEF WireTypeOK
  <2> QED BY <2>1, <2>2, <2>3, Zenon
<1>9. k + Len(p) + Len(r) = Len(s)
  <2>1. Len(p) \in Nat /\ Len(r) \in Nat /\ Len(pipe) \in Nat /\ Len(rest) \in Nat
    BY <1>2, <1>8, LenProperties DEF WireTypeOK, Piece
  <2> QED BY <1>5, <1>6, <1>8, <2>1
<1>10. Writer(s, g, k + Len(p), link', r, begun')
  BY <1>3, <1>6, <1>8, <1>9 DEF Writer
<1>11. Arranged(s, g, end, d)'
  BY <1>3, <1>4, <1>5, <1>7, <1>8, <1>10, Zenon DEF Arranged
<1>12. p \in Seq(Byte) /\ r \in Seq(Byte)
  BY <1>8 DEF Piece
<1>13. WireTypeOK'
  BY <1>2, <1>3, <1>7, <1>12 DEF WireTypeOK
<1> QED BY <1>2, <1>3, <1>11, <1>13 DEF StreamInv

\* What a break leaves in the pipe is still a piece of the stream; the frame it
\* cuts, if any, is the last, and some of its bytes are missing.
LEMMA BreakKeeps ==
  ASSUME StreamInv, Break PROVE StreamInv'
<1>1. PICK s, g, end, d : Arranged(s, g, end, d)
  BY DEF StreamInv
<1>2. WireTypeOK /\ ~refused /\ (seen => frames # <<>>)
  BY DEF StreamInv
<1>3. /\ link = "open" /\ frame' = frame /\ link' = "dropped" /\ rest' = <<>>
      /\ begun' = IF rest = <<>> THEN begun ELSE Front(begun)
      /\ buffer' = buffer /\ offset' = offset /\ frames' = frames /\ seen' = seen
      /\ refused' = refused /\ connects' = connects /\ records' = records
  BY DEF Break, reader
<1>4. PICK k : k = d + Len(buffer)
  OBVIOUS
<1>5. /\ s \in Seq(Byte) /\ k \in Nat /\ Piece(s, k, pipe) /\ Stream(s, g, end)
      /\ Reader(s, g, end, d, buffer, offset, frames)
      /\ Writer(s, g, k + Len(pipe), link, rest, begun)
  BY <1>1, <1>2, <1>4, StreamFacts, Zenon
<1>6. /\ begun = g /\ g # <<>> /\ k + Len(pipe) + Len(rest) = Len(s)
  BY <1>3, <1>5 DEF Writer
<1>7. PICK n \in 0 .. Len(pipe) : pipe' = SubSeq(pipe, 1, n)
  BY DEF Break, Prefixes
<1>8. PICK p : p = pipe'
  OBVIOUS
<1>9. Piece(s, k, p) /\ Len(p) = n
  <2>1. p = SubSeq(pipe, 1, n)
    BY <1>7, <1>8
  <2> QED BY <1>5, <2>1, PieceBefore
<1>10. Len(pipe) \in Nat /\ Len(rest) \in Nat
  BY <1>2, LenProperties DEF WireTypeOK
<1>11. Writer(s, g, k + Len(p), link', rest', begun')
  <2>1. CASE rest = <<>>
    BY <1>3, <1>6, <2>1 DEF Writer
  <2>2. CASE rest # <<>>
    <3>1. Len(rest) > 0
      BY <1>2, <1>10, <2>2, EmptySeq DEF WireTypeOK
    <3>2. k + Len(p) < Len(s)
      BY <1>5, <1>6, <1>7, <1>9, <1>10, <3>1
    <3>3. begun' = Front(g)
      BY <1>3, <1>6, <2>2
    <3> QED BY <1>3, <1>6, <3>2, <3>3 DEF Writer
  <2> QED BY <2>1, <2>2
<1>12. Arranged(s, g, end, d)'
  BY <1>3, <1>4, <1>5, <1>8, <1>9, <1>11, Zenon DEF Arranged
<1>13. WireTypeOK'
  <2>1. p \in Seq(Byte) /\ <<>> \in Seq(Byte)
    BY <1>9 DEF Piece
  <2> QED BY <1>2, <1>3, <1>8, <2>1 DEF WireTypeOK
<1> QED BY <1>2, <1>3, <1>12, <1>13 DEF StreamInv

\* Bytes read leave the pipe for the buffer.
LEMMA ReadKeeps ==
  ASSUME StreamInv, NEW n \in 1 .. ChunkSize, Read(n) PROVE StreamInv'
<1>1. PICK s, g, end, d : Arranged(s, g, end, d)
  BY DEF StreamInv
<1>2. WireTypeOK /\ ~refused /\ (seen => frames # <<>>)
  BY DEF StreamInv
<1>3. /\ offset = 0 /\ n <= Len(pipe) /\ frame' = frame /\ begun' = begun /\ rest' = rest
      /\ buffer' = buffer \o SubSeq(pipe, 1, n) /\ pipe' = SubSeq(pipe, n + 1, Len(pipe))
      /\ offset' = offset /\ frames' = frames /\ seen' = seen
      /\ refused' = refused /\ link' = link /\ connects' = connects /\ records' = records
  BY DEF Read, sender
<1>4. /\ s \in Seq(Byte) /\ d \in Nat /\ Piece(s, d, buffer) /\ Stream(s, g, end)
      /\ Piece(s, d + Len(buffer), pipe)
      /\ Reader(s, g, end, d, buffer, offset, frames)
      /\ Writer(s, g, d + Len(buffer) + Len(pipe), link, rest, begun)
      /\ Len(buffer) \in Nat /\ Len(pipe) \in Nat
  BY <1>1, <1>2, StreamFacts, Zenon
<1>5. n \in 1 .. Len(pipe)
  BY <1>3, <1>4, BoundAssumption
<1>6. PICK b, p : b = buffer' /\ p = pipe'
  OBVIOUS
<1>7. /\ Piece(s, d, b) /\ Piece(s, d + Len(b), p)
      /\ Len(b) + Len(p) = Len(buffer) + Len(pipe)
  <2>1. b = buffer \o SubSeq(pipe, 1, n) /\ p = SubSeq(pipe, n + 1, Len(pipe))
    BY <1>3, <1>6
  <2>2. n \in 1 .. Len(pipe) /\ Piece(s, d, buffer)
        /\ Piece(s, d + Len(buffer), pipe) /\ s \in Seq(Byte) /\ d \in Nat
    BY <1>4, <1>5
  <2> DEFINE b2 == buffer \o SubSeq(pipe, 1, n)
             p2 == SubSeq(pipe, n + 1, Len(pipe))
  <2>3. Piece(s, d, b2) /\ Piece(s, d + Len(b2), p2)
    BY <2>2, PieceMoves, Zenon
  <2>4. Len(b2) + Len(p2) = Len(buffer) + Len(pipe)
    BY <1>2, <2>2, NoneLost, Zenon DEF WireTypeOK
  <2> QED BY <2>1, <2>3, <2>4, Zenon
<1>8. b \in Seq(Byte) /\ p \in Seq(Byte) /\ Len(b) \in Nat /\ Len(p) \in Nat
  BY <1>7, LenProperties DEF Piece
<1>9. d + Len(b) + Len(p) = d + Len(buffer) + Len(pipe)
  <2>1. d \in Nat /\ Len(buffer) \in Nat /\ Len(pipe) \in Nat
    BY <1>4, Zenon
  <2>2. Len(b) + Len(p) = Len(buffer) + Len(pipe)
    BY <1>7, Zenon
  <2> QED BY <1>8, <2>1, <2>2
<1>10. Reader(s, g, end, d, b, offset', frames')
  <2>1. offset' \in 0 .. Len(b)
    BY <1>3, <1>8
  <2> QED BY <1>3, <1>4, <1>7, <2>1, Zenon DEF Reader
<1>11. Writer(s, g, d + Len(b) + Len(p), link', rest', begun')
  BY <1>3, <1>4, <1>9, Zenon
<1>12. Arranged(s, g, end, d)'
  BY <1>4, <1>6, <1>7, <1>10, <1>11, Zenon DEF Arranged
<1>13. WireTypeOK'
  <2>1. offset' \in 0 .. Len(b)
    BY <1>3, <1>8
  <2> QED BY <1>2, <1>3, <1>6, <1>8, <2>1 DEF WireTypeOK
<1> QED BY <1>2, <1>3, <1>12, <1>13 DEF StreamInv

\* A drain is bytes the server is done with.
LEMMA DrainKeeps ==
  ASSUME StreamInv, Drain PROVE StreamInv'
<1>1. PICK s, g, end, d : Arranged(s, g, end, d)
  BY DEF StreamInv
<1>2. WireTypeOK /\ ~refused /\ (seen => frames # <<>>)
  BY DEF StreamInv
<1>3. /\ offset' = 0 /\ frame' = frame /\ begun' = begun /\ rest' = rest
      /\ buffer' = SubSeq(buffer, offset + 1, Len(buffer)) /\ pipe' = pipe
      /\ frames' = frames /\ seen' = seen
      /\ refused' = refused /\ link' = link /\ connects' = connects /\ records' = records
  BY DEF Drain, sender
<1>4. /\ s \in Seq(Byte) /\ d \in Nat /\ Piece(s, d, buffer) /\ Stream(s, g, end)
      /\ Piece(s, d + Len(buffer), pipe)
      /\ Reader(s, g, end, d, buffer, offset, frames)
      /\ Writer(s, g, d + Len(buffer) + Len(pipe), link, rest, begun)
      /\ Len(buffer) \in Nat /\ Len(pipe) \in Nat
  BY <1>1, <1>2, StreamFacts, Zenon
<1>5. offset \in 0 .. Len(buffer)
  BY <1>2 DEF WireTypeOK
<1>6. PICK b, e : b = buffer' /\ e = d + offset
  OBVIOUS
<1>7. Piece(s, e, b) /\ Len(b) = Len(buffer) - offset
  BY <1>3, <1>4, <1>5, <1>6, PieceAfter, Zenon
<1>8. b \in Seq(Byte) /\ e \in Nat /\ Len(b) \in Nat /\ e + Len(b) = d + Len(buffer) /\ e + 0 = e
  BY <1>4, <1>5, <1>6, <1>7 DEF Piece
<1>9. Reader(s, g, end, e, b, offset', frames')
  <2>1. offset' \in 0 .. Len(b)
    BY <1>3, <1>8
  <2>2. e + offset' = end[Len(frames')]
    BY <1>3, <1>4, <1>6, <1>8, Zenon DEF Reader
  <2> QED BY <1>3, <1>4, <1>7, <1>8, <2>1, <2>2, Zenon DEF Reader
<1>10. /\ Writer(s, g, e + Len(b) + Len(pipe'), link', rest', begun')
       /\ Piece(s, e + Len(b), pipe')
  BY <1>3, <1>4, <1>8, Zenon
<1>11. Arranged(s, g, end, e)'
  BY <1>4, <1>6, <1>9, <1>10, Zenon DEF Arranged
<1>12. WireTypeOK'
  <2>1. offset' \in 0 .. Len(b)
    BY <1>3, <1>8
  <2> QED BY <1>2, <1>3, <1>6, <1>8, <2>1 DEF WireTypeOK
<1> QED BY <1>2, <1>3, <1>11, <1>12 DEF StreamInv

\* The frame decoded is the next of the stream: it is no longer than the limit,
\* and a banner only when it is the first, with the prefix.
LEMMA DecodeKeeps ==
  ASSUME StreamInv, DecodeFrame PROVE StreamInv'
<1>1. PICK s, g, end, d : Arranged(s, g, end, d)
  BY DEF StreamInv
<1>2. WireTypeOK /\ ~refused /\ (seen => frames # <<>>)
  BY DEF StreamInv
<1>3. /\ s \in Seq(Byte) /\ g \in Seq(Frames) /\ d \in Nat /\ Piece(s, d, buffer)
      /\ Stream(s, g, end) /\ Piece(s, d + Len(buffer), pipe)
      /\ Reader(s, g, end, d, buffer, offset, frames)
      /\ Writer(s, g, d + Len(buffer) + Len(pipe), link, rest, begun)
      /\ Len(buffer) \in Nat /\ Len(pipe) \in Nat /\ Len(g) \in Nat
  BY <1>1, <1>2, StreamFacts, Zenon
<1>4. HasHeader(buffer, offset)
  BY DEF DecodeFrame, TooLong, Complete
<1> DEFINE n == Len(frames) + 1
<1>5. PICK next : next = g[n]
  OBVIOUS
<1>6. /\ n \in 1 .. Len(g) /\ next \in Frames /\ Proper(n, next)
      /\ Declared(buffer, offset) = Len(next.payload)
      /\ end[n] = d + (offset + 5 + Declared(buffer, offset))
      /\ Complete(buffer, offset) => FrameAt(buffer, offset) = next
  <2>1. /\ s \in Seq(Byte) /\ g \in Seq(Frames) /\ d \in Nat /\ Stream(s, g, end)
        /\ Reader(s, g, end, d, buffer, offset, frames) /\ HasHeader(buffer, offset)
    BY <1>3, <1>4
  <2>2. /\ n \in 1 .. Len(g) /\ g[n] \in Frames /\ Proper(n, g[n])
        /\ Declared(buffer, offset) = Len(g[n].payload)
        /\ end[n] = d + (offset + 5 + Declared(buffer, offset))
        /\ Complete(buffer, offset) => FrameAt(buffer, offset) = g[n]
    BY <2>1, NextFrame
  <2> QED BY <1>5, <2>2, Zenon
<1>7. Len(next.payload) \in Nat /\ Len(next.payload) <= MaxPayload
  BY <1>6, LenProperties DEF Proper, Frames
<1>8. ~TooLong(offset)
  <2>1. ~(Len(next.payload) > MaxPayload)
    BY <1>7, PayloadAssumption
  <2> QED BY <1>6, <2>1, Zenon DEF TooLong
<1>9. /\ Complete(buffer, offset)
      /\ frames' = Append(frames, next)
      /\ seen' = (seen \/ next.command = CmdBanner)
      /\ refused' = (next.command = CmdBanner /\ (seen \/ ~IsPrefix(Prefix, next.payload)))
      /\ offset' = offset + 5 + Declared(buffer, offset)
  BY <1>6, <1>8, Zenon DEF DecodeFrame
<1>10. /\ frame' = frame /\ rest' = rest /\ begun' = begun /\ buffer' = buffer
       /\ link' = link /\ pipe' = pipe /\ records' = records /\ connects' = connects
  BY DEF DecodeFrame, sender
<1>11. /\ frames \in Seq(Frames) /\ Len(frames) \in Nat /\ offset \in 0 .. Len(buffer)
       /\ \A i \in 1 .. Len(frames) : frames[i] = g[i]
  BY <1>3, LenProperties DEF Reader
<1>12. ~refused' /\ (seen' => frames' # <<>>)
  <2>1. frames' # <<>>
    BY <1>6, <1>9, <1>11
  <2>2. CASE frames = <<>>
    <3>1. n = 1
      BY <2>2
    <3>2. IsPrefix(Prefix, next.payload)
      BY <1>6, <3>1, Zenon DEF Proper
    <3> QED BY <1>2, <1>9, <2>1, <2>2, <3>2
  <2>3. CASE frames # <<>>
    <3>1. n # 1
      BY <1>11, <2>3, EmptySeq
    <3>2. next.command = CmdLog
      BY <1>6, <3>1 DEF Proper
    <3> QED BY <1>9, <2>1, <3>2, BannerAssumption
  <2> QED BY <2>2, <2>3
<1>13. PICK o, f : o = offset' /\ f = frames'
  OBVIOUS
<1>14. /\ f \in Seq(Frames) /\ Len(f) = n /\ \A i \in 1 .. Len(f) : f[i] = g[i]
  <2>1. /\ f \in Seq(Frames) /\ Len(f) = n /\ f[n] = next
        /\ \A i \in 1 .. Len(frames) : f[i] = frames[i]
    BY <1>6, <1>9, <1>11, <1>13, AppendProperties
  <2>2. ASSUME NEW i \in 1 .. Len(f) PROVE f[i] = g[i]
    <3>1. CASE i = n
      BY <1>5, <2>1, <3>1
    <3>2. CASE i # n
      <4>1. i \in 1 .. Len(frames)
        BY <1>11, <2>1, <3>2
      <4> QED BY <1>11, <2>1, <4>1
    <3> QED BY <3>1, <3>2
  <2> QED BY <2>1, <2>2
<1>15. o \in 0 .. Len(buffer) /\ d + o = end[n]
  <2>1. o = offset + 5 + Len(next.payload)
    BY <1>6, <1>9, <1>13, Zenon
  <2>2. Len(buffer) >= offset + 5 + Len(next.payload)
    BY <1>6, <1>9, Zenon DEF Complete
  <2>3. o \in 0 .. Len(buffer)
    <3>1. PICK l \in Nat : l = Len(next.payload)
      BY <1>7
    <3>2. o = offset + 5 + l /\ Len(buffer) >= offset + 5 + l
      BY <2>1, <2>2, <3>1
    <3> QED BY <1>3, <1>11, <3>2
  <2>4. d + o = end[n]
    BY <1>6, <1>9, <1>13, Zenon
  <2> QED BY <2>3, <2>4
<1>16. Reader(s, g, end, d, buffer, o, f)
  <2>1. Len(f) <= Len(g)
    BY <1>3, <1>6, <1>14
  <2> QED BY <1>3, <1>14, <1>15, <2>1, Zenon DEF Reader
<1>17. Arranged(s, g, end, d)'
  BY <1>3, <1>10, <1>13, <1>16, Zenon DEF Arranged
<1>18. WireTypeOK'
  <2>1. seen' \in BOOLEAN /\ refused' \in BOOLEAN
    BY <1>9
  <2> QED BY <1>2, <1>10, <1>13, <1>15, <2>1 DEF WireTypeOK
<1> QED BY <1>12, <1>17, <1>18 DEF StreamInv

-----------------------------------------------------------------------------
(* The invariant.                                                          *)

\* At first there is a stream of nothing.
LEMMA StreamBegins == Init => StreamInv
<1> SUFFICES ASSUME Init PROVE StreamInv
  OBVIOUS
<1>1. PICK s, g, end : Stream(s, g, end) /\ s = <<>> /\ g = <<>>
  BY EmptyStream
<1>2. /\ frame = <<>> /\ rest = <<>> /\ link = "none" /\ pipe = <<>>
      /\ buffer = <<>> /\ offset = 0 /\ frames = <<>> /\ seen = FALSE /\ refused = FALSE
      /\ records = 0 /\ connects = 0 /\ begun = <<>>
  BY DEF Init
<1>3. <<>> \in Seq(Byte) /\ <<>> \in Seq(Frames) /\ Len(<<>>) = 0
  OBVIOUS
<1>4. s \in Seq(Byte) /\ Len(s) = 0 /\ Len(g) = 0 /\ end[0] = 0
  BY <1>1, <1>3 DEF Stream
<1>5. Piece(s, 0, <<>>)
  BY <1>3, <1>4 DEF Piece
<1>6. Reader(s, g, end, 0, buffer, offset, frames)
  BY <1>2, <1>3, <1>4, <1>5 DEF Reader
<1>7. 0 + Len(buffer) = 0
  BY <1>2, <1>3
<1>8. Writer(s, g, 0 + Len(buffer) + Len(pipe), link, rest, begun)
  BY <1>1, <1>2 DEF Writer
<1>9. Arranged(s, g, end, 0)
  BY <1>1, <1>2, <1>5, <1>6, <1>7, <1>8, Zenon DEF Arranged
<1>10. WireTypeOK
  <2>1. /\ frame \in Seq(Byte) /\ rest \in Seq(Byte) /\ pipe \in Seq(Byte)
        /\ buffer \in Seq(Byte)
    BY <1>2, <1>3
  <2>2. offset \in 0 .. Len(buffer) /\ records \in 0 .. MaxRecords /\ connects \in 0 .. MaxConnects
    BY <1>2, <1>7, BoundAssumption
  <2> QED BY <1>2, <2>1, <2>2 DEF WireTypeOK
<1> QED BY <1>2, <1>9, <1>10 DEF StreamInv

\* The invariant is about the variables of the module only.
LEMMA StreamStutters ==
  ASSUME StreamInv, UNCHANGED wireVars PROVE StreamInv'
<1>1. PICK s, g, end, d : Arranged(s, g, end, d)
  BY DEF StreamInv
<1>2. WireTypeOK /\ ~refused /\ (seen => frames # <<>>)
  BY DEF StreamInv
<1>3. /\ frame' = frame /\ rest' = rest /\ begun' = begun /\ buffer' = buffer
      /\ offset' = offset /\ frames' = frames /\ seen' = seen /\ refused' = refused
      /\ link' = link /\ pipe' = pipe /\ records' = records /\ connects' = connects
  BY DEF wireVars, sender, reader
<1>4. Arranged(s, g, end, d)'
  BY <1>1, <1>3, Zenon DEF Arranged
<1>5. WireTypeOK'
  BY <1>2, <1>3 DEF WireTypeOK
<1> QED BY <1>2, <1>3, <1>4, <1>5 DEF StreamInv

\* Every action keeps the stream arranged.
LEMMA StreamStep == StreamInv /\ [Next]_wireVars => StreamInv'
<1> SUFFICES ASSUME StreamInv, [Next]_wireVars PROVE StreamInv'
  OBVIOUS
<1>1. CASE Connect
  BY <1>1, ConnectKeeps
<1>2. CASE Break
  BY <1>2, BreakKeeps
<1>3. CASE \E json \in Payloads : WriteRecord(json)
  BY <1>3, WriteRecordKeeps
<1>4. CASE \E n \in 1 .. Len(rest) : HandOver(n)
  BY <1>4, HandOverKeeps
<1>5. CASE \E n \in 1 .. ChunkSize : Read(n)
  BY <1>5, ReadKeeps
<1>6. CASE DecodeFrame
  BY <1>6, DecodeKeeps
<1>7. CASE Drain
  BY <1>7, DrainKeeps
<1>8. CASE UNCHANGED wireVars
  BY <1>8, StreamStutters
<1> QED BY <1>1, <1>2, <1>3, <1>4, <1>5, <1>6, <1>7, <1>8 DEF Next

-----------------------------------------------------------------------------
(* What the invariant says of the frames.                                  *)

\* What agrees with another sequence to its own end is a prefix of it.
LEMMA PrefixBy ==
  ASSUME NEW f \in Seq(Frames), NEW h \in Seq(Frames), Len(f) <= Len(h),
         \A i \in 1 .. Len(f) : f[i] = h[i]
  PROVE  IsPrefix(f, h)
<1> DEFINE cut == SubSeq(h, 1, Len(f))
<1>1. Len(f) \in Nat /\ Len(h) \in Nat
  BY LenProperties
<1>2. /\ cut \in Seq(Frames) /\ Len(cut) = Len(f)
      /\ \A i \in 1 .. Len(f) : cut[i] = h[i]
  BY <1>1
<1> HIDE DEF cut
<1>3. Len(cut) = Len(f) /\ \A i \in 1 .. Len(cut) : cut[i] = f[i]
  BY <1>2
<1>4. cut = f
  BY <1>2, <1>3, SeqEqual, Zenon
<1>5. SubSeq(f, 1, Len(f)) = f
  BY SubSeqFull, Zenon
<1> QED BY <1>4, <1>5 DEF cut, IsPrefix

\* While bytes of the stream have not reached the server, neither has its last
\* frame.
LEMMA LastNotFound ==
  ASSUME NEW s \in Seq(Byte), NEW g \in Seq(Frames), NEW end, NEW d, NEW b, NEW o,
         NEW f, Stream(s, g, end), Reader(s, g, end, d, b, o, f), d + Len(b) < Len(s)
  PROVE  IsPrefix(f, Front(g))
<1>1. /\ d \in Nat /\ Len(b) \in Nat /\ o \in 0 .. Len(b) /\ f \in Seq(Frames)
      /\ Len(f) <= Len(g) /\ d + o = end[Len(f)]
      /\ \A i \in 1 .. Len(f) : f[i] = g[i]
  BY LenProperties DEF Reader, Piece
<1>2. Len(f) \in Nat /\ Len(g) \in Nat /\ Len(s) \in Nat
  BY <1>1, LenProperties
<1>3. Len(f) # Len(g)
  <2>1. end[Len(g)] = Len(s)
    BY DEF Stream
  <2>2. d + o # Len(s)
    BY <1>1, <1>2
  <2> QED BY <1>1, <2>1, <2>2
<1>4. Len(g) - 1 \in Nat /\ Len(f) <= Len(g) - 1
  BY <1>1, <1>2, <1>3
<1>5. PICK h : h = Front(g)
  OBVIOUS
<1>6. /\ h \in Seq(Frames) /\ Len(h) = Len(g) - 1
      /\ \A i \in 1 .. Len(g) - 1 : h[i] = g[i]
  <2>1. PICK m \in Nat : m = Len(g) - 1
    BY <1>4
  <2>2. h = SubSeq(g, 1, m) /\ m <= Len(g)
    <3>1. h = SubSeq(g, 1, m)
      BY <1>5, <2>1, Zenon DEF Front
    <3> QED BY <1>2, <2>1, <3>1
  <2>3. h \in Seq(Frames) /\ Len(h) = m /\ \A i \in 1 .. m : h[i] = g[i]
    BY <1>2, <2>1, <2>2
  <2> QED BY <2>1, <2>3
<1>7. Len(f) <= Len(h) /\ \A i \in 1 .. Len(f) : f[i] = h[i]
  BY <1>1, <1>2, <1>4, <1>6
<1>8. IsPrefix(f, h)
  BY <1>1, <1>6, <1>7, PrefixBy
<1> QED BY <1>5, <1>8

\* What the server has found is a prefix of what was written whole.
LEMMA InvFramed == StreamInv => Framed
<1> SUFFICES ASSUME StreamInv PROVE Framed
  OBVIOUS
<1>1. PICK s, g, end, d : Arranged(s, g, end, d)
  BY DEF StreamInv
<1>2. WireTypeOK
  BY DEF StreamInv
<1>3. /\ s \in Seq(Byte) /\ g \in Seq(Frames) /\ d \in Nat
      /\ Stream(s, g, end) /\ Reader(s, g, end, d, buffer, offset, frames)
      /\ Writer(s, g, d + Len(buffer) + Len(pipe), link, rest, begun)
      /\ Len(buffer) \in Nat /\ Len(pipe) \in Nat /\ Len(rest) \in Nat /\ Len(s) \in Nat
  BY <1>1, <1>2, StreamFacts, Zenon
<1>4. IsPrefix(frames, g)
  <2>1. /\ frames \in Seq(Frames) /\ Len(frames) <= Len(g)
        /\ \A i \in 1 .. Len(frames) : frames[i] = g[i]
    BY <1>3 DEF Reader
  <2> QED BY <1>3, <2>1, PrefixBy
<1>5. ASSUME d + Len(buffer) + Len(pipe) < Len(s) PROVE IsPrefix(frames, Front(g))
  <2>1. d + Len(buffer) < Len(s)
    BY <1>3, <1>5
  <2> QED BY <1>3, <2>1, LastNotFound, Zenon
<1>6. CASE link = "open" /\ rest = <<>>
  BY <1>3, <1>4, <1>6 DEF Framed, Whole, Writer
<1>7. CASE link = "open" /\ rest # <<>>
  <2>1. Len(rest) > 0
    BY <1>2, <1>3, <1>7, EmptySeq DEF WireTypeOK
  <2>2. begun = g /\ d + Len(buffer) + Len(pipe) + Len(rest) = Len(s)
    BY <1>3, <1>7 DEF Writer
  <2>3. d + Len(buffer) + Len(pipe) < Len(s)
    BY <1>3, <2>1, <2>2
  <2>4. Whole = Front(g)
    BY <1>7, <2>2 DEF Whole
  <2> QED BY <1>5, <2>3, <2>4 DEF Framed
<1>8. CASE link # "open"
  <2>1. /\ Whole = begun
        /\ begun = g \/ (begun = Front(g) /\ d + Len(buffer) + Len(pipe) < Len(s))
    BY <1>3, <1>8 DEF Whole, Writer
  <2> QED BY <1>4, <1>5, <2>1 DEF Framed
<1> QED BY <1>6, <1>7, <1>8

\* A reader that stalls at a frame boundary, with nothing under way, has it all.
LEMMA InvAllFound == StreamInv => AllFound
<1> SUFFICES ASSUME StreamInv PROVE AllFound
  OBVIOUS
<1>0. SUFFICES ASSUME link = "open", rest = <<>>, pipe = <<>>, offset = 0,
                      ~Complete(buffer, 0)
               PROVE  frames = begun /\ buffer = <<>>
  BY DEF AllFound
<1>1. PICK s, g, end, d : Arranged(s, g, end, d)
  BY DEF StreamInv
<1>2. WireTypeOK
  BY DEF StreamInv
<1>3. /\ s \in Seq(Byte) /\ g \in Seq(Frames) /\ d \in Nat
      /\ Stream(s, g, end) /\ Reader(s, g, end, d, buffer, offset, frames)
      /\ Writer(s, g, d + Len(buffer) + Len(pipe), link, rest, begun)
      /\ Len(buffer) \in Nat /\ Len(s) \in Nat /\ Len(g) \in Nat
  BY <1>1, <1>2, StreamFacts, Zenon
<1>4. begun = g /\ d + Len(buffer) = Len(s)
  <2>1. Len(rest) = 0 /\ Len(pipe) = 0
    BY <1>0
  <2>2. begun = g /\ d + Len(buffer) + Len(pipe) + Len(rest) = Len(s)
    BY <1>0, <1>3 DEF Writer
  <2> QED BY <1>3, <2>1, <2>2
<1>5. /\ frames \in Seq(Frames) /\ Len(frames) \in Nat /\ Len(frames) <= Len(g)
      /\ \A i \in 1 .. Len(frames) : frames[i] = g[i]
      /\ d = end[Len(frames)]
  <2>1. d + offset = d
    BY <1>0, <1>3
  <2> QED BY <1>3, <2>1, LenProperties DEF Reader
<1>6. Len(frames) = Len(g)
  <2> SUFFICES ASSUME Len(frames) # Len(g) PROVE FALSE
    OBVIOUS
  <2> DEFINE n == Len(frames) + 1
  <2>1. n \in 1 .. Len(g) /\ n - 1 = Len(frames)
    BY <1>3, <1>5
  <2>2. end[n] = d + 5 + Len(g[n].payload) /\ end[n] \in 0 .. Len(s)
    <3>1. /\ end[n] = end[n - 1] + 5 + Len(g[n].payload)
          /\ end \in [0 .. Len(g) -> 0 .. Len(s)]
      BY <1>3, <2>1 DEF Stream
    <3>2. n \in 0 .. Len(g)
      BY <1>3, <2>1
    <3> QED BY <1>5, <2>1, <3>1, <3>2
  <2>3. PICK l \in Nat : l = Len(g[n].payload)
    <3>1. g[n] \in Frames
      BY <1>3, <2>1, ElementOfSeq
    <3>2. g[n].payload \in Seq(Byte)
      BY <3>1 DEF Frames
    <3> QED BY <3>2, LenProperties
  <2>4. Len(buffer) >= 5 + l
    <3>1. PICK e \in 0 .. Len(s) : e = end[n]
      BY <2>2
    <3>2. e = d + 5 + l
      BY <2>2, <2>3, <3>1, Zenon
    <3>3. \A k, x, y \in Nat : k + 5 + y <= k + x => x >= 5 + y
      OBVIOUS
    <3>4. d + 5 + l <= d + Len(buffer)
      BY <1>4, <3>1, <3>2
    <3> QED BY <1>3, <2>3, <3>3, <3>4, Zenon
  <2>5. HasHeader(buffer, 0)
    BY <1>3, <2>3, <2>4 DEF HasHeader
  <2>6. HasHeader(buffer, offset)
    BY <1>0, <2>5
  <2>7. /\ s \in Seq(Byte) /\ g \in Seq(Frames) /\ d \in Nat /\ Stream(s, g, end)
        /\ Reader(s, g, end, d, buffer, offset, frames)
    BY <1>3
  <2>8. Declared(buffer, offset) = Len(g[n].payload)
    <3>1. /\ n \in 1 .. Len(g) /\ g[n] \in Frames /\ Proper(n, g[n])
          /\ Declared(buffer, offset) = Len(g[n].payload)
          /\ end[n] = d + (offset + 5 + Declared(buffer, offset))
          /\ Complete(buffer, offset) => FrameAt(buffer, offset) = g[n]
      BY <2>6, <2>7, NextFrame
    <3> QED BY <3>1
  <2>9. Declared(buffer, 0) = l
    BY <1>0, <2>3, <2>8
  <2>10. Len(buffer) >= 0 + 5 + Declared(buffer, 0)
    <3>1. Len(buffer) >= 0 + 5 + l
      BY <1>3, <2>3, <2>4
    <3> QED BY <2>9, <3>1, Zenon
  <2> QED BY <1>0, <2>5, <2>10 DEF Complete
<1>7. frames = g
  BY <1>3, <1>5, <1>6, SeqEqual, Zenon
<1>8. buffer = <<>>
  <2>1. end[Len(g)] = Len(s)
    BY <1>3 DEF Stream
  <2>2. Len(buffer) = 0
    BY <1>3, <1>4, <1>5, <1>6, <2>1
  <2> QED BY <1>2, <2>2, EmptySeq DEF WireTypeOK
<1> QED BY <1>4, <1>7, <1>8

\* The frames found have the commands of the stream.
LEMMA InvNeverRefused == StreamInv => NeverRefused
<1> SUFFICES ASSUME StreamInv, NEW k \in DOMAIN frames
             PROVE  frames[k].command = IF k = 1 THEN CmdBanner ELSE CmdLog
  BY DEF NeverRefused, StreamInv
<1>1. PICK s, g, end, d : Arranged(s, g, end, d)
  BY DEF StreamInv
<1>2. WireTypeOK /\ ~refused
  BY DEF StreamInv
<1>3. Stream(s, g, end) /\ Reader(s, g, end, d, buffer, offset, frames)
      /\ g \in Seq(Frames)
  BY <1>1, <1>2, StreamFacts, Zenon
<1>4. /\ frames \in Seq(Frames) /\ Len(frames) <= Len(g)
      /\ \A i \in 1 .. Len(frames) : frames[i] = g[i]
  BY <1>3 DEF Reader
<1>5. k \in 1 .. Len(frames) /\ k \in 1 .. Len(g)
  BY <1>3, <1>4, LenProperties
<1>6. Proper(k, g[k])
  BY <1>3, <1>5 DEF Stream
<1> QED BY <1>4, <1>5, <1>6, Zenon DEF Proper

LEMMA StreamInvHolds == WireSpec => []StreamInv
<1>1. Init => StreamInv
  BY StreamBegins
<1>2. StreamInv /\ [Next]_wireVars => StreamInv'
  BY StreamStep
<1> QED BY <1>1, <1>2, PTL DEF WireSpec

\* What is under way and what has arrived are bytes, wherever the stream breaks.
THEOREM WireTypeCorrect == WireSpec => []WireTypeOK
<1>1. StreamInv => WireTypeOK
  BY DEF StreamInv
<1> QED BY <1>1, StreamInvHolds, PTL

\* The server finds the frames that were written and no other, in their order,
\* however their bytes were split or run together and wherever connections
\* broke: write_all of proto.rs's frames against the read loop of the other end.
THEOREM FramesFound == WireSpec => []Framed
<1>1. StreamInv => Framed
  BY InvFramed DEF StreamInv
<1> QED BY <1>1, StreamInvHolds, PTL

\* It waits for no byte that does not come: once everything written has been
\* read, every frame has been found and nothing is left over.
THEOREM NothingLeftOver == WireSpec => []AllFound
<1>1. StreamInv => AllFound
  BY InvAllFound DEF StreamInv
<1> QED BY <1>1, StreamInvHolds, PTL

\* It never hangs up: no length it reads is one it refuses.
THEOREM NoHangUp == WireSpec => []NeverRefused
<1>1. StreamInv => NeverRefused
  BY InvNeverRefused DEF StreamInv
<1> QED BY <1>1, StreamInvHolds, PTL
=============================================================================
