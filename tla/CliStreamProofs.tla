-------------------------- MODULE CliStreamProofs ---------------------------
(***************************************************************************)
(* A CLI connection keeps the client's messages whole and in order, and    *)
(* the replies too, for messages of any size that come in any pieces: the  *)
(* connection implements the channel.                                      *)
(***************************************************************************)
EXTENDS CliStream, SequenceTheorems, TLAPS

-----------------------------------------------------------------------------
(* The size of a message survives its encoding.                            *)

\* The largest form holds four bytes.
MaxSize == 4294967296

\* What the tag of a size of four bytes leaves of its first byte.
Nibble == 0 .. 15

(* What io_callback() makes of an encoded size: the first byte without its *)
(* tag, followed by the bytes it asks for.                                 *)
Rebuilt(s) ==
    [i \in 1 .. 1 + SizeDecode(s[1]).want |-> IF i = 1 THEN SizeDecode(s[1]).byte ELSE s[i]]

\* The receiver asks for the rest of s, all of it, and gets the length n.
Decodes(s, n) == Unpack(Rebuilt(s)) = n /\ Len(s) = 1 + SizeDecode(s[1]).want

(* A number and its lowest byte.                                           *)
LEMMA Split ==
  ASSUME NEW n \in Nat
  PROVE  /\ n = (n \div 256) * 256 + (n % 256)
         /\ n \div 256 \in Nat
         /\ n % 256 \in Byte
  BY Z3 DEF Byte

(* Dividing by 256 again and again.                                        *)
LEMMA Nested ==
  ASSUME NEW n \in Nat
  PROVE  /\ n \div 65536 = (n \div 256) \div 256
         /\ n \div 16777216 = (n \div 65536) \div 256
  BY Z3

(* Below 2^32 the bytes of a length, put together, are the length.         *)
LEMMA Together ==
  ASSUME NEW n \in Nat, n < MaxSize
  PROVE  /\ (n \div 256) % 256 \in Byte /\ (n \div 65536) % 256 \in Byte
         /\ n < 65536 => n \div 256 \in Byte
         /\ n < 16777216 => /\ n \div 65536 \in Byte
                            /\ ((n \div 65536) * 256 + ((n \div 256) % 256)) * 256 + (n % 256) = n
         /\ n \div 16777216 \in Byte /\ (n \div 16777216) % 256 = n \div 16777216
         /\ (((n \div 16777216) * 256 + ((n \div 65536) % 256)) * 256 + ((n \div 256) % 256)) * 256 + (n % 256) = n
<1> DEFINE a == n \div 256
           b == a \div 256
           c == b \div 256
<1>1. n \div 65536 = b /\ n \div 16777216 = c
  BY Nested, SMT
<1>2. /\ n = a * 256 + (n % 256) /\ a \in Nat /\ n % 256 \in Byte
      /\ a = b * 256 + (a % 256) /\ b \in Nat /\ a % 256 \in Byte
      /\ b = c * 256 + (b % 256) /\ c \in Nat /\ b % 256 \in Byte
  BY Split, SMT
<1>3. c \in Byte /\ c % 256 = c
  BY <1>2, SMT DEF Byte, MaxSize
<1>4. (n < 65536 => a \in Byte) /\ (n < 16777216 => b \in Byte)
  BY <1>2, SMT DEF Byte
<1> HIDE DEF a, b, c
<1>5. (b * 256 + (a % 256)) * 256 + (n % 256) = n
  BY <1>2, SMT
<1>6. ((c * 256 + (b % 256)) * 256 + (a % 256)) * 256 + (n % 256) = n
  BY <1>2, SMT
<1> QED
  BY <1>1, <1>2, <1>3, <1>4, <1>5, <1>6, SMT DEF a

\* Lengths below 2^7 are their own byte.
LEMMA OneByte ==
  ASSUME NEW x \in 0 .. 127
  PROVE  Decodes(<<x>>, x)
<1>1. Rebuilt(<<x>>) = <<x>> /\ SizeDecode(<<x>>[1]).want = 0
  BY SMT DEF Rebuilt, SizeDecode, Byte
<1>2. Unpack(<<x>>) = x
  BY SMT DEF Unpack, Byte
<1>3. Len(<<x>>) = 1
  BY SMT
<1> QED
  BY <1>1, <1>2, <1>3, SMT DEF Decodes

\* Lengths below 2^14 come back from their two bytes.
LEMMA TwoBytes ==
  ASSUME NEW x \in 0 .. 63, NEW y \in Byte
  PROVE  Decodes(<<128 + x, y>>, x * 256 + y)
<1>1. Rebuilt(<<128 + x, y>>) = <<x, y>> /\ SizeDecode(<<128 + x, y>>[1]).want = 1
  BY SMT DEF Rebuilt, SizeDecode, Byte
<1>2. Unpack(<<x, y>>) = x * 256 + y
  BY SMT DEF Unpack, Byte
<1>3. Len(<<128 + x, y>>) = 2
  BY SMT
<1> QED
  BY <1>1, <1>2, <1>3, SMT DEF Decodes

\* Lengths below 2^21 come back from their three bytes.
LEMMA ThreeBytes ==
  ASSUME NEW x \in 0 .. 31, NEW y \in Byte, NEW z \in Byte
  PROVE  Decodes(<<192 + x, y, z>>, (x * 256 + y) * 256 + z)
<1>1. Rebuilt(<<192 + x, y, z>>) = <<x, y, z>> /\ SizeDecode(<<192 + x, y, z>>[1]).want = 2
  BY SMT DEF Rebuilt, SizeDecode, Byte
<1>2. Unpack(<<x, y, z>>) = (x * 256 + y) * 256 + z
  BY SMT DEF Unpack, Byte
<1>3. Len(<<192 + x, y, z>>) = 3
  BY SMT
<1> QED
  BY <1>1, <1>2, <1>3, SMT DEF Decodes

\* Lengths below 2^28 come back from their four bytes.
LEMMA FourBytes ==
  ASSUME NEW w \in Nibble, NEW x \in Byte, NEW y \in Byte, NEW z \in Byte
  PROVE  Decodes(<<224 + w, x, y, z>>, ((w * 256 + x) * 256 + y) * 256 + z)
<1>1. Rebuilt(<<224 + w, x, y, z>>) = <<w, x, y, z>> /\ SizeDecode(<<224 + w, x, y, z>>[1]).want = 3
  BY SMT DEF Rebuilt, SizeDecode, Byte, Nibble
<1>2. Unpack(<<w, x, y, z>>) = ((w * 256 + x) * 256 + y) * 256 + z
  BY SMT DEF Unpack, Byte, Nibble
<1>3. Len(<<224 + w, x, y, z>>) = 4
  BY SMT
<1> QED
  BY <1>1, <1>2, <1>3, SMT DEF Decodes

\* Lengths below 2^32 come back from their five bytes.
LEMMA FiveBytes ==
  ASSUME NEW w \in Byte, NEW x \in Byte, NEW y \in Byte, NEW z \in Byte
  PROVE  Decodes(<<240, w, x, y, z>>, ((w * 256 + x) * 256 + y) * 256 + z)
<1>1. Rebuilt(<<240, w, x, y, z>>) = <<0, w, x, y, z>> /\ SizeDecode(<<240, w, x, y, z>>[1]).want = 4
  BY SMT DEF Rebuilt, SizeDecode, Byte
<1>2. Unpack(<<0, w, x, y, z>>) = ((w * 256 + x) * 256 + y) * 256 + z
  BY SMT DEF Unpack, Byte
<1>3. Len(<<240, w, x, y, z>>) = 5
  BY SMT
<1> QED
  BY <1>1, <1>2, <1>3, SMT DEF Decodes

(* Any length a message can have (below 2^32) comes out of size_decode()   *)
(* and string.unpack as it went into size_encode(), and the receiver asks  *)
(* for exactly the bytes that were sent.                                   *)
THEOREM RoundTrip ==
  ASSUME NEW len \in Nat, len < MaxSize
  PROVE  Decodes(SizeEncode(len), len)
<1> DEFINE w == len \div 16777216
           v == len \div 65536
           u == len \div 256
           x == v % 256
           y == u % 256
           z == len % 256
<1>1. /\ x \in Byte /\ y \in Byte /\ z \in Byte /\ w \in Byte /\ w % 256 = w
      /\ ((w * 256 + x) * 256 + y) * 256 + z = len
      /\ len < 16777216 => (v * 256 + y) * 256 + z = len
      /\ u * 256 + z = len
  BY Together, Split, SMT
<1>2. /\ len < 16384 => u \in 0 .. 63
      /\ len < 2097152 => v \in 0 .. 31
      /\ len < 268435456 => w \in Nibble
  BY SMT DEF Nibble
<1>3. CASE len < 128
  <2>1. SizeEncode(len) = <<len>> /\ len \in 0 .. 127
    BY <1>3, SMT DEF SizeEncode
  <2> QED
    BY <2>1, OneByte
<1>4. CASE ~(len < 128) /\ len < 16384
  <2>1. SizeEncode(len) = <<128 + u, z>>
    BY <1>4, SMT DEF SizeEncode
  <2> HIDE DEF u, z
  <2>2. u \in 0 .. 63 /\ z \in Byte
    BY <1>1, <1>2, <1>4, SMT
  <2>3. u * 256 + z = len
    BY <1>1, <1>2, <1>4, SMT
  <2>4. Decodes(<<128 + u, z>>, u * 256 + z)
    BY <2>2, TwoBytes
  <2> QED
    BY <2>1, <2>3, <2>4
<1>5. CASE ~(len < 16384) /\ len < 2097152
  <2>1. SizeEncode(len) = <<192 + v, y, z>>
    BY <1>5, SMT DEF SizeEncode
  <2> HIDE DEF v, y, z
  <2>2. v \in 0 .. 31 /\ y \in Byte /\ z \in Byte
    BY <1>1, <1>2, <1>5, SMT
  <2>3. (v * 256 + y) * 256 + z = len
    BY <1>1, <1>2, <1>5, SMT
  <2>4. Decodes(<<192 + v, y, z>>, (v * 256 + y) * 256 + z)
    BY <2>2, ThreeBytes
  <2> QED
    BY <2>1, <2>3, <2>4
<1>6. CASE ~(len < 2097152) /\ len < 268435456
  <2>1. SizeEncode(len) = <<224 + w, x, y, z>>
    BY <1>6, SMT DEF SizeEncode
  <2> HIDE DEF w, x, y, z
  <2>2. w \in Nibble /\ x \in Byte /\ y \in Byte /\ z \in Byte
    BY <1>1, <1>2, <1>6, SMT
  <2>3. ((w * 256 + x) * 256 + y) * 256 + z = len
    BY <1>1, <1>2, <1>6, SMT
  <2>4. Decodes(<<224 + w, x, y, z>>, ((w * 256 + x) * 256 + y) * 256 + z)
    BY <2>2, FourBytes, SMT
  <2> QED
    BY <2>1, <2>3, <2>4
<1>7. CASE ~(len < 268435456)
  <2>1. SizeEncode(len) = <<240, w % 256, x, y, z>>
    BY <1>7, SMT DEF SizeEncode
  <2> HIDE DEF w, x, y, z
  <2> QED
    BY <1>1, <2>1, FiveBytes, SMT
<1> QED
  BY <1>3, <1>4, <1>5, <1>6, <1>7, SMT

-----------------------------------------------------------------------------
(* Sequences of bytes.                                                     *)

LEMMA SeqOf ==
    ASSUME NEW S, NEW n \in Nat, NEW f \in [1 .. n -> S]
    PROVE  f \in Seq(S) /\ Len(f) = n
OBVIOUS

LEMMA PayloadFacts ==
    ASSUME NEW i \in Nat, NEW len \in Nat
    PROVE  /\ Payload(i, len) \in Seq(Octet) /\ Len(Payload(i, len)) = len
           /\ \A j \in 1 .. len : Payload(i, len)[j] = <<i, j>>
<1>1. Payload(i, len) \in [1 .. len -> Octet] /\ \A j \in 1 .. len : Payload(i, len)[j] = <<i, j>>
  BY DEF Payload, Octet
<1> QED
  BY <1>1, SeqOf

\* A size is encoded in one to five bytes, the first of which tells how many.
LEMMA SizeFacts ==
    ASSUME NEW len \in Nat, Packable(len)
    PROVE  /\ SizeEncode(len) \in Seq(Nat) /\ Len(SizeEncode(len)) \in 1 .. 5
           /\ Len(SizeEncode(len)) = 1 + SizeDecode(SizeEncode(len)[1]).want
           /\ SizeEncode(len)[1] \in 0 .. 240 /\ SizeDecode(SizeEncode(len)[1]).want \in Nat
           /\ SizeDecode(SizeEncode(len)[1]).byte \in Nat
           /\ Unpack(Rebuilt(SizeEncode(len))) = len
<1>1. len < MaxSize
  BY SMT DEF MaxSize, Packable
<1>2. Decodes(SizeEncode(len), len)
  BY <1>1, RoundTrip
<1>3. /\ len \div 256 \in Nat /\ len \div 65536 \in Nat /\ len \div 16777216 \in Nat
      /\ len % 256 \in Nat /\ (len \div 256) % 256 \in Nat /\ (len \div 65536) % 256 \in Nat
      /\ (len \div 16777216) % 256 \in Nat
  BY SMT
<1>4. SizeEncode(len) \in Seq(Nat) /\ Len(SizeEncode(len)) \in 1 .. 5
  BY <1>3, SMT DEF SizeEncode
<1>5. SizeEncode(len)[1] \in 0 .. 240
  <2>1. CASE len < 128
    BY <2>1, SMT DEF SizeEncode
  <2>2. CASE len >= 128 /\ len < 16384
    BY <2>2, SMT DEF SizeEncode
  <2>3. CASE len >= 16384 /\ len < 2097152
    BY <2>3, SMT DEF SizeEncode
  <2>4. CASE len >= 2097152 /\ len < 268435456
    BY <2>4, SMT DEF SizeEncode
  <2>5. CASE len >= 268435456
    BY <2>5, SMT DEF SizeEncode
  <2> QED
    BY <2>1, <2>2, <2>3, <2>4, <2>5
<1>6. ASSUME NEW b \in 0 .. 240
      PROVE  SizeDecode(b).want \in Nat /\ SizeDecode(b).byte \in Nat
  BY <1>6, SMT DEF SizeDecode
<1> QED
  BY <1>2, <1>4, <1>5, <1>6 DEF Decodes

LEMMA FrameFacts ==
    ASSUME NEW i \in Nat, NEW len \in Nat, Packable(len)
    PROVE  /\ Frame(i, len) \in Seq(Octet)
           /\ Len(Frame(i, len)) = Len(SizeEncode(len)) + len
           /\ \A j \in 1 .. Len(SizeEncode(len)) : Frame(i, len)[j] = <<0, SizeEncode(len)[j]>>
           /\ \A j \in 1 .. len : Frame(i, len)[Len(SizeEncode(len)) + j] = <<i, j>>
<1> DEFINE n == Len(SizeEncode(len))
           head == [j \in 1 .. n |-> <<0, SizeEncode(len)[j]>>]
<1>1. n \in Nat /\ \A j \in 1 .. n : SizeEncode(len)[j] \in Nat
  BY SizeFacts
<1> HIDE DEF n
<1>2. head \in [1 .. n -> Octet]
  BY <1>1 DEF Octet
<1>3. head \in Seq(Octet) /\ Len(head) = n
  BY <1>1, <1>2, SeqOf
<1>4. /\ Payload(i, len) \in Seq(Octet) /\ Len(Payload(i, len)) = len
      /\ \A j \in 1 .. len : Payload(i, len)[j] = <<i, j>>
  BY PayloadFacts
<1>5. Frame(i, len) = head \o Payload(i, len)
  BY DEF Frame, n
<1>6. /\ Frame(i, len) \in Seq(Octet) /\ Len(Frame(i, len)) = n + len
      /\ \A j \in 1 .. n + len : Frame(i, len)[j] = IF j <= n THEN head[j] ELSE Payload(i, len)[j - n]
  <2>1. PICK h : h = head
    OBVIOUS
  <2>2. PICK p : p = Payload(i, len)
    OBVIOUS
  <2>3. h \in Seq(Octet) /\ Len(h) = n /\ p \in Seq(Octet) /\ Len(p) = len /\ Frame(i, len) = h \o p
    BY <1>3, <1>4, <1>5, <2>1, <2>2
  <2>4. /\ h \o p \in Seq(Octet) /\ Len(h \o p) = Len(h) + Len(p)
        /\ \A j \in 1 .. Len(h) + Len(p) : (h \o p)[j] = IF j <= Len(h) THEN h[j] ELSE p[j - Len(h)]
    BY <2>3, ConcatProperties
  <2> QED
    BY <2>1, <2>2, <2>3, <2>4
<1>7. \A j \in 1 .. n : Frame(i, len)[j] = <<0, SizeEncode(len)[j]>>
  BY <1>1, <1>6
<1>8. ASSUME NEW j \in 1 .. len
      PROVE  Frame(i, len)[n + j] = <<i, j>>
  <2>1. n + j \in 1 .. n + len /\ ~(n + j <= n) /\ (n + j) - n = j
    BY <1>1
  <2> QED
    BY <1>4, <1>6, <2>1
<1> QED
  BY <1>6, <1>7, <1>8 DEF n

-----------------------------------------------------------------------------
(* The stream of the client.                                               *)

\* The frame of message i lies on the stream from Start(i) to Start(i + 1).
LEMMA FrameOnStream ==
    ASSUME CliTypeOK, StreamInv, NEW i \in 1 .. Len(sent)
    PROVE  /\ i \in Nat /\ Len(sent[i]) \in Nat /\ Packable(Len(sent[i]))
           /\ sent[i] \in Seq(Octet) /\ \A j \in 1 .. Len(sent[i]) : sent[i][j] = <<i, j>>
           /\ Start(i) \in Nat /\ Len(SizeEncode(Len(sent[i]))) \in Nat
           /\ Start(i + 1) = Start(i) + Len(SizeEncode(Len(sent[i]))) + Len(sent[i])
           /\ \A j \in 1 .. Len(SizeEncode(Len(sent[i]))) :
                 stream[Start(i) + j] = <<0, SizeEncode(Len(sent[i]))[j]>>
           /\ \A j \in 1 .. Len(sent[i]) :
                 stream[Start(i) + Len(SizeEncode(Len(sent[i]))) + j] = <<i, j>>
<1>1. PICK len : len = Len(sent[i])
  OBVIOUS
<1>2. PICK m : m = Len(SizeEncode(len))
  OBVIOUS
<1>3. PICK b : b = Start(i)
  OBVIOUS
<1>4. /\ len \in Sizes /\ sent[i] = Payload(i, len) /\ Start(i + 1) = b + Len(Frame(i, len))
      /\ \A j \in 1 .. Len(Frame(i, len)) : stream[b + j] = Frame(i, len)[j]
  BY <1>1, <1>3 DEF StreamInv
<1>5. i \in Nat /\ len \in Nat /\ Packable(len)
  BY <1>4, CliAssumption DEF Packable, CliTypeOK
<1>6. b \in Nat
  <2>1. Len(starts) = Len(sent) /\ starts \in Seq(Nat) /\ Len(sent) \in Nat
    BY DEF StreamInv, CliTypeOK
  <2>2. starts[i] \in Nat
    BY <2>1, ElementOfSeq
  <2> QED
    BY <1>3, <2>1, <2>2 DEF Start
<1>7. m \in Nat
  BY <1>2, <1>5, SizeFacts
<1>8. /\ Len(Frame(i, len)) = m + len
      /\ \A j \in 1 .. m : Frame(i, len)[j] = <<0, SizeEncode(len)[j]>>
      /\ \A j \in 1 .. len : Frame(i, len)[m + j] = <<i, j>>
  BY <1>2, <1>5, FrameFacts
<1>9. sent[i] \in Seq(Octet) /\ \A j \in 1 .. len : sent[i][j] = <<i, j>>
  BY <1>4, <1>5, PayloadFacts
<1>10. \A j \in 1 .. m : stream[b + j] = <<0, SizeEncode(len)[j]>>
  BY <1>4, <1>5, <1>7, <1>8
<1>11. ASSUME NEW j \in 1 .. len
       PROVE  stream[b + m + j] = <<i, j>>
  <2>1. m + j \in 1 .. Len(Frame(i, len)) /\ b + (m + j) = b + m + j
    BY <1>5, <1>6, <1>7, <1>8
  <2> QED
    BY <1>4, <1>8, <2>1
<1>12. Start(i + 1) = b + m + len
  BY <1>4, <1>5, <1>6, <1>7, <1>8
<1> QED
  BY <1>1, <1>2, <1>3, <1>5, <1>6, <1>7, <1>9, <1>10, <1>11, <1>12

\* What a read returns, after what was buffered.
LEMMA DataFacts ==
    ASSUME CliTypeOK, NEW n \in Nat, taken + n <= Len(stream)
    PROVE  /\ Data(n) \in Seq(Octet) /\ Len(Data(n)) = Len(inbuf) + n /\ Len(inbuf) \in Nat
           /\ \A j \in 1 .. Len(inbuf) : Data(n)[j] = inbuf[j]
           /\ \A j \in 1 .. n : Data(n)[Len(inbuf) + j] = stream[taken + j]
<1>1. PICK p : p = SubSeq(stream, taken + 1, taken + n)
  OBVIOUS
<1>2. /\ inbuf \in Seq(Octet) /\ Len(inbuf) \in Nat /\ taken \in Nat /\ Len(stream) \in Nat
      /\ \A j \in 1 .. Len(stream) : stream[j] \in Octet
  BY DEF CliTypeOK
<1>3. /\ taken + 1 \in Int /\ taken + n \in Int /\ \A j \in taken + 1 .. taken + n : stream[j] \in Octet
  BY <1>2
<1>4. /\ p \in Seq(Octet) /\ Len(p) = n /\ \A j \in 1 .. n : p[j] = stream[taken + j]
  <2>1. /\ p \in Seq(Octet)
        /\ Len(p) = (IF taken + 1 <= taken + n THEN (taken + n) - (taken + 1) + 1 ELSE 0)
        /\ \A j \in 1 .. (taken + n) - (taken + 1) + 1 : p[j] = stream[(taken + 1) + j - 1]
    BY <1>1, <1>3, SubSeqProperties
  <2>2. Len(p) = n
    BY <1>2, <2>1
  <2>3. ASSUME NEW j \in 1 .. n
        PROVE  p[j] = stream[taken + j]
    <3>1. j \in 1 .. (taken + n) - (taken + 1) + 1 /\ (taken + 1) + j - 1 = taken + j
      BY <1>2
    <3> QED
      BY <2>1, <3>1
  <2> QED
    BY <2>1, <2>2, <2>3
<1>5. Data(n) = inbuf \o p
  BY <1>1 DEF Data
<1>6. /\ Data(n) \in Seq(Octet) /\ Len(Data(n)) = Len(inbuf) + n
      /\ \A j \in 1 .. Len(inbuf) + n : Data(n)[j] = IF j <= Len(inbuf) THEN inbuf[j] ELSE p[j - Len(inbuf)]
  <2>1. /\ inbuf \o p \in Seq(Octet) /\ Len(inbuf \o p) = Len(inbuf) + Len(p)
        /\ \A j \in 1 .. Len(inbuf) + Len(p) :
              (inbuf \o p)[j] = IF j <= Len(inbuf) THEN inbuf[j] ELSE p[j - Len(inbuf)]
    BY <1>2, <1>4, ConcatProperties
  <2> QED
    BY <1>4, <1>5, <2>1
<1>7. \A j \in 1 .. Len(inbuf) : Data(n)[j] = inbuf[j]
  BY <1>2, <1>6
<1>8. ASSUME NEW j \in 1 .. n
      PROVE  Data(n)[Len(inbuf) + j] = stream[taken + j]
  <2>1. Len(inbuf) + j \in 1 .. Len(inbuf) + n /\ ~(Len(inbuf) + j <= Len(inbuf)) /\ (Len(inbuf) + j) - Len(inbuf) = j
    BY <1>2
  <2> QED
    BY <1>4, <1>6, <2>1
<1> QED
  BY <1>2, <1>6, <1>7, <1>8

-----------------------------------------------------------------------------
(* The two directions do not disturb each other.                           *)

LEMMA OutputKept ==
    ASSUME CliInv, UNCHANGED output
    PROVE  /\ RepliesExact' /\ armed' \in BOOLEAN /\ replies' \in 0 .. MaxReplies
           /\ queued' \in Seq(Octet) /\ outbuf' \in Seq(Seq(Octet)) /\ outwire' \in Seq(Octet)
           /\ writing' \in BOOLEAN /\ unread' \in 0 .. Room
BY DEF CliInv, CliTypeOK, RepliesExact, output

LEMMA StreamKept ==
    ASSUME CliInv, UNCHANGED client
    PROVE  /\ StreamInv' /\ \A i : Start(i)' = Start(i)
           /\ sent' = sent /\ stream' = stream /\ starts' = starts /\ hup' = hup
<1>1. sent' = sent /\ stream' = stream /\ starts' = starts /\ hup' = hup
  BY DEF client
<1>2. \A i : Start(i)' = Start(i)
  BY <1>1 DEF Start
<1>3. StreamInv'
  BY <1>1, <1>2 DEF CliInv, StreamInv
<1> QED
  BY <1>1, <1>2, <1>3

LEMMA InputKept ==
    ASSUME CliInv, UNCHANGED client, UNCHANGED input, open' \in BOOLEAN,
           RepliesExact', armed' \in BOOLEAN, replies' \in 0 .. MaxReplies,
           queued' \in Seq(Octet), outbuf' \in Seq(Seq(Octet)), outwire' \in Seq(Octet),
           writing' \in BOOLEAN, unread' \in 0 .. Room
    PROVE  CliInv'
<1>1. /\ StreamInv' /\ \A i : Start(i)' = Start(i)
      /\ sent' = sent /\ stream' = stream /\ starts' = starts /\ hup' = hup
  BY StreamKept
<1>2. /\ received' = received /\ taken' = taken /\ want' = want
      /\ template' = template /\ clisize' = clisize /\ inbuf' = inbuf
  BY DEF input
<1>3. CliTypeOK'
  BY <1>1, <1>2 DEF CliInv, CliTypeOK
<1>4. PositionInv'
  BY <1>1, <1>2 DEF CliInv, PositionInv
<1>5. received' = SubSeq(sent', 1, Len(received'))
  BY <1>1, <1>2 DEF CliInv
<1> QED
  BY <1>1, <1>3, <1>4, <1>5 DEF CliInv

-----------------------------------------------------------------------------
(* Reading.                                                                *)

\* What a read that returns n bytes takes from the stream, and leaves alone.
LEMMA ReadsFacts ==
    ASSUME CliInv, NEW n, Reads(n)
    PROVE  /\ n \in Nat /\ taken + n <= Len(stream) /\ n <= want /\ (n = 0 => want = 0)
           /\ taken \in Nat /\ Len(stream) \in Nat /\ want \in Nat
           /\ UNCHANGED client /\ UNCHANGED output /\ open' = open /\ taken' = taken + n
<1>1. taken \in Nat /\ Len(stream) \in Nat /\ want \in Nat /\ taken <= Len(stream)
  BY DEF CliInv, CliTypeOK
<1>2. IF want = 0 THEN n = 0 ELSE n \in 1 .. Len(stream) - taken /\ n <= want
  BY DEF Reads
<1>3. UNCHANGED client /\ UNCHANGED output /\ open' = open /\ taken' = taken + n
  BY DEF Reads
<1> QED
  BY <1>1, <1>2, <1>3

\* There is a message under way once a byte of it can be read.
LEMMA UnderWay ==
    ASSUME CliInv, NEW n, Reads(n), template \/ n # 0
    PROVE  Len(received) \in Nat /\ Len(received) + 1 \in 1 .. Len(sent)
<1>1. Len(received) \in Nat /\ Len(sent) \in Nat /\ Len(received) <= Len(sent)
  BY DEF CliInv, CliTypeOK
<1>2. SUFFICES ASSUME Len(received) + 1 > Len(sent)
               PROVE  FALSE
  BY <1>1
<1>3. ~template /\ taken = Start(Len(received) + 1)
  BY <1>2 DEF CliInv, PositionInv
<1>4. Start(Len(received) + 1) = Len(stream)
  BY <1>1, <1>2 DEF Start
<1> QED
  BY <1>3, <1>4, ReadsFacts

\* The rest of the state after a read.
LEMMA ReadKeeps ==
    ASSUME CliInv, NEW n, Reads(n),
           received' \in Seq(Seq(Octet)), Len(received') <= Len(sent),
           received' = SubSeq(sent, 1, Len(received')),
           want' \in Nat, template' \in BOOLEAN, clisize' \in Nat \cup {Nil}, inbuf' \in Seq(Octet),
           PositionInv'
    PROVE  CliInv'
<1>1. /\ n \in Nat /\ taken + n <= Len(stream) /\ taken \in Nat /\ Len(stream) \in Nat
      /\ UNCHANGED client /\ UNCHANGED output /\ open' = open /\ taken' = taken + n
  BY ReadsFacts
<1>2. /\ StreamInv' /\ sent' = sent /\ stream' = stream /\ starts' = starts /\ hup' = hup
  BY <1>1, StreamKept
<1>3. /\ RepliesExact' /\ armed' \in BOOLEAN /\ replies' \in 0 .. MaxReplies
      /\ queued' \in Seq(Octet) /\ outbuf' \in Seq(Seq(Octet)) /\ outwire' \in Seq(Octet)
      /\ writing' \in BOOLEAN /\ unread' \in 0 .. Room
  BY <1>1, OutputKept
<1>4. taken' \in 0 .. Len(stream')
  BY <1>1, <1>2
<1>5. CliTypeOK'
  BY <1>1, <1>2, <1>3, <1>4 DEF CliInv, CliTypeOK
<1> QED
  BY <1>2, <1>3, <1>5 DEF CliInv

\* A read that returns less than is wanted.
LEMMA ReadPartInv ==
    ASSUME CliInv, NEW n \in Pieces, ReadPart(n)
    PROVE  CliInv'
<1>1. /\ n < want /\ Reads(n) /\ want' = want - n /\ inbuf' = Data(n)
      /\ received' = received /\ template' = template /\ clisize' = clisize
  BY DEF ReadPart
<1>2. /\ n \in Nat /\ taken + n <= Len(stream) /\ n <= want /\ (n = 0 => want = 0) /\ want \in Nat
      /\ taken \in Nat /\ UNCHANGED client /\ taken' = taken + n
  BY <1>1, ReadsFacts
<1>3. n # 0 /\ n > 0 /\ want > 1
  BY <1>1, <1>2
<1>4. PICK c : c = Len(received) + 1
  OBVIOUS
<1>5. c \in 1 .. Len(sent)
  BY <1>1, <1>3, <1>4, UnderWay
<1>6. template
  BY <1>3 DEF CliInv, PositionInv
<1>7. /\ Data(n) \in Seq(Octet) /\ Len(Data(n)) = Len(inbuf) + n /\ Len(inbuf) \in Nat
      /\ \A j \in 1 .. Len(inbuf) : Data(n)[j] = inbuf[j]
      /\ \A j \in 1 .. n : Data(n)[Len(inbuf) + j] = stream[taken + j]
  BY <1>2, DataFacts DEF CliInv
<1>8. PICK m : m = Len(inbuf)
  OBVIOUS
<1>9. /\ \A i : Start(i)' = Start(i)
      /\ sent' = sent /\ stream' = stream
  BY <1>2, StreamKept
<1>10. PICK size : size = SizeEncode(Len(sent[c]))
  OBVIOUS
<1>11. PICK b : b = Start(c)
  OBVIOUS
<1>12. /\ b \in Nat /\ Len(size) \in Nat /\ c \in Nat /\ Len(sent[c]) \in Nat
       /\ \A j \in 1 .. Len(size) : stream[b + j] = <<0, size[j]>>
       /\ \A j \in 1 .. Len(sent[c]) : stream[b + Len(size) + j] = <<c, j>>
  BY <1>5, <1>10, <1>11, FrameOnStream DEF CliInv
<1>13. CASE clisize = Nil
  <2>1. /\ m > 0 /\ m + want = Len(size) /\ taken = b + m
        /\ \A j \in 1 .. m : inbuf[j] = <<0, IF j = 1 THEN SizeDecode(size[1]).byte ELSE size[j]>>
    BY <1>4, <1>6, <1>8, <1>10, <1>11, <1>13 DEF CliInv, PositionInv
  <2>2. ASSUME NEW j \in 1 .. m + n
        PROVE  Data(n)[j] = <<0, IF j = 1 THEN SizeDecode(size[1]).byte ELSE size[j]>>
    <3>1. CASE j <= m
      BY <1>7, <1>8, <2>1, <3>1
    <3>2. CASE ~(j <= m)
      <4>0. /\ m \in Nat /\ b \in Nat /\ m > 0 /\ n < want
            /\ Len(size) = m + want /\ taken = b + m
        BY <1>1, <1>7, <1>8, <1>12, <2>1
      <4>1. j - m \in 1 .. n /\ m + (j - m) = j /\ taken + (j - m) = b + j /\ j \in 1 .. Len(size) /\ j # 1
        BY <1>2, <3>2, <4>0
      <4>2. Data(n)[j] = stream[taken + (j - m)]
        BY <1>7, <1>8, <4>1
      <4>3. Data(n)[j] = <<0, size[j]>>
        BY <1>12, <4>1, <4>2
      <4> QED
        BY <4>1, <4>3
    <3> QED
      BY <3>1, <3>2
  <2>3. Len(inbuf') = m + n /\ m + n > 0 /\ want' > 0 /\ m + n + want' = Len(size) /\ taken' = b + (m + n)
    <3>1. Len(inbuf') = m + n /\ m \in Nat
      BY <1>1, <1>7, <1>8
    <3>2. want' = want - n /\ taken' = taken + n /\ n < want
      BY <1>1, <1>2
    <3>3. b \in Nat /\ Len(size) \in Nat
      BY <1>12
    <3>4. m > 0 /\ m + want = Len(size) /\ taken = b + m
      BY <2>1
    <3> QED
      BY <1>2, <1>3, <3>1, <3>2, <3>3, <3>4
  <2>4. PositionInv'
    BY <1>1, <1>4, <1>5, <1>6, <1>9, <1>10, <1>11, <1>13, <2>2, <2>3 DEF PositionInv
  <2> QED
    BY <1>1, <1>2, <1>7, <2>4, ReadKeeps DEF CliInv, CliTypeOK
<1>14. CASE clisize # Nil
  <2>1. /\ clisize = Len(sent[c]) /\ m + want = clisize /\ taken = b + Len(size) + m
        /\ \A j \in 1 .. m : inbuf[j] = <<c, j>>
    BY <1>4, <1>6, <1>8, <1>10, <1>11, <1>14 DEF CliInv, PositionInv
  <2>2. ASSUME NEW j \in 1 .. m + n
        PROVE  Data(n)[j] = <<c, j>>
    <3>1. CASE j <= m
      BY <1>7, <1>8, <2>1, <3>1
    <3>2. CASE ~(j <= m)
      <4>0. /\ m \in Nat /\ b \in Nat /\ Len(size) \in Nat /\ n < want
            /\ Len(sent[c]) = m + want /\ taken = b + Len(size) + m
        BY <1>1, <1>7, <1>8, <1>12, <2>1
      <4>1. /\ j - m \in 1 .. n /\ m + (j - m) = j /\ taken + (j - m) = b + Len(size) + j
            /\ j \in 1 .. Len(sent[c])
        BY <1>2, <3>2, <4>0
      <4>2. Data(n)[j] = stream[taken + (j - m)]
        BY <1>7, <1>8, <4>1
      <4> QED
        BY <1>12, <4>1, <4>2
    <3> QED
      BY <3>1, <3>2
  <2>3. Len(inbuf') = m + n /\ m + n + want' = clisize /\ taken' = b + Len(size) + (m + n)
    <3>1. Len(inbuf') = m + n /\ m \in Nat
      BY <1>1, <1>7, <1>8
    <3>2. want' = want - n /\ taken' = taken + n /\ n < want
      BY <1>1, <1>2
    <3>3. b \in Nat /\ Len(size) \in Nat
      BY <1>12
    <3> QED
      BY <1>2, <1>3, <2>1, <3>1, <3>2, <3>3
  <2>4. PositionInv'
    BY <1>1, <1>4, <1>5, <1>6, <1>9, <1>10, <1>11, <1>14, <2>1, <2>2, <2>3 DEF PositionInv
  <2> QED
    BY <1>1, <1>2, <1>7, <2>4, ReadKeeps DEF CliInv, CliTypeOK
<1> QED
  BY <1>13, <1>14

\* The first byte of a frame, when it is read.
LEMMA FirstByte ==
    ASSUME CliInv, ~template, Reads(want)
    PROVE  /\ Len(received) \in Nat /\ Len(received) + 1 \in 1 .. Len(sent)
           /\ clisize = Nil /\ want = 1 /\ taken = Start(Len(received) + 1)
           /\ Len(inbuf) = 0 /\ Len(Data(want)) = 1
           /\ Data(want)[1] = <<0, SizeEncode(Len(sent[Len(received) + 1]))[1]>>
           /\ First(want) = SizeDecode(SizeEncode(Len(sent[Len(received) + 1]))[1])
<1>1. clisize = Nil /\ inbuf = <<>> /\ want = 1 /\ taken = Start(Len(received) + 1)
  BY DEF CliInv, PositionInv
<1>2. want # 0
  BY <1>1
<1>3. Len(received) \in Nat /\ Len(received) + 1 \in 1 .. Len(sent)
  BY <1>2, UnderWay
<1>4. taken + 1 <= Len(stream)
  BY <1>1, ReadsFacts
<1>5. Len(inbuf) = 0
  BY <1>1
<1>6. /\ Len(Data(1)) = Len(inbuf) + 1
      /\ \A j \in 1 .. 1 : Data(1)[Len(inbuf) + j] = stream[taken + j]
  BY <1>4, DataFacts DEF CliInv
<1>7. Len(Data(1)) = 1 /\ Data(1)[1] = stream[taken + 1]
  BY <1>5, <1>6
<1>8. PICK c : c = Len(received) + 1
  OBVIOUS
<1>9. PICK size : size = SizeEncode(Len(sent[c]))
  OBVIOUS
<1>10. /\ Len(sent[c]) \in Nat /\ Packable(Len(sent[c]))
       /\ \A j \in 1 .. Len(size) : stream[Start(c) + j] = <<0, size[j]>>
  BY <1>3, <1>8, <1>9, FrameOnStream DEF CliInv
<1>11. Len(size) \in 1 .. 5
  BY <1>9, <1>10, SizeFacts
<1>12. stream[Start(c) + 1] = <<0, size[1]>>
  BY <1>10, <1>11
<1>13. Data(want)[1] = <<0, size[1]>> /\ Len(Data(want)) = 1
  BY <1>1, <1>7, <1>8, <1>12
<1>14. First(want) = SizeDecode(size[1])
  BY <1>13 DEF First
<1> QED
  BY <1>1, <1>3, <1>5, <1>8, <1>9, <1>13, <1>14

LEMMA ReadFirstInv ==
    ASSUME CliInv, ReadFirst
    PROVE  CliInv'
<1>1. /\ ~template /\ Reads(want) /\ First(want).want > 0 /\ template' = TRUE
      /\ want' = First(want).want /\ inbuf' = <<<<0, First(want).byte>>>>
      /\ received' = received /\ clisize' = clisize
  BY DEF ReadFirst
<1>2. PICK c : c = Len(received) + 1
  OBVIOUS
<1>3. PICK size : size = SizeEncode(Len(sent[c]))
  OBVIOUS
<1>4. /\ c \in 1 .. Len(sent) /\ clisize = Nil /\ want = 1 /\ taken = Start(c)
      /\ First(want) = SizeDecode(size[1])
  BY <1>1, <1>2, <1>3, FirstByte
<1>5. /\ UNCHANGED client /\ taken' = taken + 1
  BY <1>1, <1>4, ReadsFacts
<1>6. /\ \A i : Start(i)' = Start(i)
      /\ sent' = sent /\ stream' = stream
  BY <1>5, StreamKept
<1>7. Len(sent[c]) \in Nat /\ Packable(Len(sent[c]))
  BY <1>4, FrameOnStream DEF CliInv
<1>8. /\ Len(size) = 1 + SizeDecode(size[1]).want /\ Len(size) \in 1 .. 5
      /\ SizeDecode(size[1]).want \in Nat /\ SizeDecode(size[1]).byte \in Nat
  BY <1>3, <1>7, SizeFacts
<1>9. PICK byte : byte = SizeDecode(size[1]).byte
  OBVIOUS
<1>10. inbuf' = <<<<0, byte>>>> /\ byte \in Nat
  BY <1>1, <1>4, <1>8, <1>9
<1>11. inbuf' \in Seq(Octet) /\ Len(inbuf') = 1 /\ inbuf'[1] = <<0, byte>>
  BY <1>10 DEF Octet
<1>12. want' \in Nat /\ want' > 0 /\ 1 + want' = Len(size) /\ Len(size) \in Nat
  BY <1>1, <1>4, <1>8
<1>13. PositionInv'
  <2>1. \A j \in 1 .. Len(inbuf') : inbuf'[j] = <<0, IF j = 1 THEN SizeDecode(size[1]).byte ELSE size[j]>>
    BY <1>9, <1>11
  <2>2. Len(inbuf') > 0 /\ Len(inbuf') + want' = Len(size) /\ taken' = Start(c) + Len(inbuf')
    <3>1. Start(c) \in Nat
      BY <1>4, FrameOnStream DEF CliInv
    <3>2. taken' = Start(c) + 1 /\ Len(inbuf') = 1
      BY <1>4, <1>5, <1>11
    <3>3. Len(inbuf') > 0
      BY <3>2
    <3>4. PICK q : q = Len(inbuf')
      OBVIOUS
    <3>5. q = 1
      BY <3>2, <3>4
    <3>6. q + want' = Len(size)
      BY <1>12, <3>5
    <3> QED
      BY <3>1, <3>2, <3>3, <3>4, <3>6
  <2> QED
    BY <1>1, <1>2, <1>3, <1>4, <1>6, <1>12, <2>1, <2>2 DEF PositionInv
<1> QED
  BY <1>1, <1>11, <1>12, <1>13, ReadKeeps DEF CliInv, CliTypeOK

\* What is unpacked, once the last byte of a size is read, is the length of
\* the message.
LEMMA ReadSizeInv ==
    ASSUME CliInv, ReadSize
    PROVE  CliInv'
<1>1. /\ clisize = Nil /\ Reads(want) /\ template' = TRUE /\ (~template => First(want).want = 0)
      /\ clisize' = Unpack([j \in 1 .. Len(Data(want)) |-> Data(want)[j][2]])
      /\ want' = clisize' /\ inbuf' = <<>> /\ received' = received
  BY DEF ReadSize
<1>2. PICK c : c = Len(received) + 1
  OBVIOUS
<1>3. PICK size : size = SizeEncode(Len(sent[c]))
  OBVIOUS
<1>4. /\ UNCHANGED client /\ taken' = taken + want /\ want \in Nat /\ taken \in Nat
      /\ taken + want <= Len(stream)
  BY <1>1, ReadsFacts
<1>5. /\ \A i : Start(i)' = Start(i)
      /\ sent' = sent /\ stream' = stream
  BY <1>4, StreamKept
<1>6. c \in 1 .. Len(sent)
  BY <1>1, <1>2, FirstByte, UnderWay
<1>7. PICK b : b = Start(c)
  OBVIOUS
<1>8. /\ Len(sent[c]) \in Nat /\ Packable(Len(sent[c])) /\ b \in Nat /\ Len(size) \in Nat
      /\ \A j \in 1 .. Len(size) : stream[b + j] = <<0, size[j]>>
  BY <1>3, <1>6, <1>7, FrameOnStream DEF CliInv
<1>9. /\ Len(size) = 1 + SizeDecode(size[1]).want /\ Unpack(Rebuilt(size)) = Len(sent[c])
  BY <1>3, <1>8, SizeFacts
<1>10. /\ Len(Data(want)) = Len(size) /\ taken' = b + Len(size)
       /\ \A j \in 1 .. Len(size) :
             Data(want)[j] = <<0, IF j = 1 THEN SizeDecode(size[1]).byte ELSE size[j]>>
  <2>1. CASE ~template
    <3>1. /\ Len(Data(want)) = 1 /\ Data(want)[1] = <<0, size[1]>> /\ want = 1 /\ taken = b
          /\ SizeDecode(size[1]).want = 0
      BY <1>1, <1>2, <1>3, <1>7, <2>1, FirstByte
    <3>2. Len(size) = 1 /\ taken' = b + Len(size)
      BY <1>4, <1>9, <3>1
    <3>3. size \in Seq(Nat)
      BY <1>3, <1>8, SizeFacts
    <3>4. size[1] \in 0 .. 240
      BY <1>3, <1>8, SizeFacts
    <3>5. SizeDecode(size[1]).byte = size[1]
      BY <3>1, <3>4, SMT DEF SizeDecode
    <3> QED
      BY <3>1, <3>2, <3>5
  <2>2. CASE template
    <3>1. PICK m : m = Len(inbuf)
      OBVIOUS
    <3>2. /\ m > 0 /\ m + want = Len(size) /\ taken = b + m
          /\ \A j \in 1 .. m : inbuf[j] = <<0, IF j = 1 THEN SizeDecode(size[1]).byte ELSE size[j]>>
      BY <1>1, <1>2, <1>3, <1>7, <2>2, <3>1 DEF CliInv, PositionInv
    <3>3. /\ Len(Data(want)) = m + want /\ m \in Nat
          /\ \A j \in 1 .. m : Data(want)[j] = inbuf[j]
          /\ \A j \in 1 .. want : Data(want)[m + j] = stream[taken + j]
      BY <1>4, <3>1, DataFacts DEF CliInv
    <3>4. m > 0 /\ m + want = Len(size) /\ taken = b + m /\ Len(Data(want)) = m + want /\ m \in Nat
      BY <3>2, <3>3
    <3>5. taken' = b + Len(size)
      BY <1>4, <1>8, <3>4
    <3>6. ASSUME NEW j \in 1 .. Len(size)
          PROVE  Data(want)[j] = <<0, IF j = 1 THEN SizeDecode(size[1]).byte ELSE size[j]>>
      <4>1. CASE j <= m
        BY <3>2, <3>3, <4>1
      <4>2. CASE ~(j <= m)
        <5>1. j - m \in 1 .. want /\ m + (j - m) = j /\ taken + (j - m) = b + j /\ j # 1
          BY <1>4, <1>8, <3>4, <4>2
        <5>2. Data(want)[j] = stream[b + j]
          BY <3>3, <5>1
        <5>3. Data(want)[j] = <<0, size[j]>>
          BY <1>8, <5>2
        <5> QED
          BY <5>1, <5>3
      <4> QED
        BY <4>1, <4>2
    <3> QED
      BY <3>4, <3>5, <3>6
  <2> QED
    BY <2>1, <2>2
<1>11. clisize' = Len(sent[c])
  <2>1. ASSUME NEW j \in 1 .. Len(size)
        PROVE  Data(want)[j][2] = IF j = 1 THEN SizeDecode(size[1]).byte ELSE size[j]
    BY <1>10
  <2>2. [j \in 1 .. Len(Data(want)) |-> Data(want)[j][2]]
          = [j \in 1 .. 1 + SizeDecode(size[1]).want |-> IF j = 1 THEN SizeDecode(size[1]).byte ELSE size[j]]
    BY <1>9, <1>10, <2>1
  <2> QED
    BY <1>1, <1>9, <2>2 DEF Rebuilt
<1>12. clisize' # Nil
  BY <1>8, <1>11, CliAssumption
<1>13. PositionInv'
  <2>1. Len(inbuf') = 0 /\ Len(inbuf') + want' = clisize' /\ taken' = Start(c) + Len(size) + Len(inbuf')
    BY <1>1, <1>7, <1>8, <1>10, <1>11
  <2>2. \A j \in 1 .. Len(inbuf') : inbuf'[j] = <<c, j>>
    BY <2>1
  <2> QED
    BY <1>1, <1>2, <1>3, <1>5, <1>6, <1>11, <1>12, <2>1, <2>2 DEF PositionInv
<1>14. inbuf' \in Seq(Octet)
  BY <1>1
<1> QED
  BY <1>1, <1>8, <1>11, <1>13, <1>14, ReadKeeps DEF CliInv, CliTypeOK

\* What is handed over is the message under way.
LEMMA DataIsMessage ==
    ASSUME CliInv, clisize # Nil, taken + want <= Len(stream)
    PROVE  /\ Len(received) \in Nat /\ Len(received) + 1 \in 1 .. Len(sent)
           /\ Data(want) = sent[Len(received) + 1]
           /\ taken + want = Start(Len(received) + 2)
<1>1. PICK c : c = Len(received) + 1
  OBVIOUS
<1>2. PICK size : size = SizeEncode(Len(sent[c]))
  OBVIOUS
<1>3. PICK b : b = Start(c)
  OBVIOUS
<1>4. PICK m : m = Len(inbuf)
  OBVIOUS
<1>5. /\ template /\ ~(c > Len(sent)) /\ clisize = Len(sent[c]) /\ m + want = clisize
      /\ taken = b + Len(size) + m
      /\ \A j \in 1 .. m : inbuf[j] = <<c, j>>
  BY <1>1, <1>2, <1>3, <1>4 DEF CliInv, PositionInv
<1>6. Len(received) \in Nat /\ Len(sent) \in Nat /\ want \in Nat /\ taken \in Nat
  BY DEF CliInv, CliTypeOK
<1>7. c \in 1 .. Len(sent)
  BY <1>1, <1>5, <1>6
<1>8. /\ Len(sent[c]) \in Nat /\ b \in Nat /\ Len(size) \in Nat
      /\ sent[c] \in Seq(Octet) /\ \A j \in 1 .. Len(sent[c]) : sent[c][j] = <<c, j>>
      /\ Start(c + 1) = b + Len(size) + Len(sent[c])
      /\ \A j \in 1 .. Len(sent[c]) : stream[b + Len(size) + j] = <<c, j>>
  BY <1>2, <1>3, <1>7, FrameOnStream DEF CliInv
<1>9. /\ Data(want) \in Seq(Octet) /\ Len(Data(want)) = m + want /\ m \in Nat
      /\ \A j \in 1 .. m : Data(want)[j] = inbuf[j]
      /\ \A j \in 1 .. want : Data(want)[m + j] = stream[taken + j]
  BY <1>4, <1>6, DataFacts DEF CliInv
<1>10. /\ m \in Nat /\ m + want = Len(sent[c]) /\ taken = b + Len(size) + m
       /\ Len(Data(want)) = Len(sent[c]) /\ Start(c + 1) = b + Len(size) + Len(sent[c])
  BY <1>5, <1>8, <1>9
<1>11. ASSUME NEW j \in 1 .. Len(sent[c])
       PROVE  Data(want)[j] = <<c, j>>
  <2>1. CASE j <= m
    BY <1>5, <1>9, <2>1
  <2>2. CASE ~(j <= m)
    <3>1. j - m \in 1 .. want /\ m + (j - m) = j /\ taken + (j - m) = b + Len(size) + j
      BY <1>6, <1>8, <1>10, <2>2
    <3>2. Data(want)[j] = stream[b + Len(size) + j]
      BY <1>9, <3>1
    <3> QED
      BY <1>8, <3>2
  <2> QED
    BY <2>1, <2>2
<1>12. Data(want) = sent[c]
  <2>1. PICK d, s : d = Data(want) /\ s = sent[c]
    OBVIOUS
  <2>2. /\ d \in Seq(Octet) /\ s \in Seq(Octet) /\ Len(d) = Len(s)
        /\ \A j \in 1 .. Len(d) : d[j] = s[j]
    BY <1>8, <1>9, <1>10, <1>11, <2>1
  <2>3. d = s
    BY <2>2, SeqEqual
  <2> QED
    BY <2>1, <2>3
<1>13. taken + want = Start(c + 1)
  <2>1. b \in Nat /\ Len(size) \in Nat /\ Len(sent[c]) \in Nat
    BY <1>8
  <2>2. PICK s, l : s = Len(size) /\ l = Len(sent[c])
    OBVIOUS
  <2>3. /\ m \in Nat /\ m + want = l /\ taken = b + s + m /\ Start(c + 1) = b + s + l
        /\ s \in Nat /\ l \in Nat
    BY <1>10, <2>1, <2>2
  <2> QED
    BY <1>6, <2>1, <2>3
<1>14. c + 1 = Len(received) + 2
  BY <1>1, <1>6
<1> QED
  BY <1>1, <1>6, <1>7, <1>12, <1>13, <1>14

LEMMA ReadDataInv ==
    ASSUME CliInv, ReadData
    PROVE  /\ CliInv' /\ sent' = sent /\ Len(received) < Len(sent)
           /\ received' = Append(received, sent[Len(received) + 1])
<1>1. /\ clisize # Nil /\ Reads(want) /\ received' = Append(received, Data(want))
      /\ template' = FALSE /\ clisize' = Nil /\ want' = 1 /\ inbuf' = <<>>
  BY DEF ReadData
<1>2. /\ UNCHANGED client /\ taken' = taken + want /\ taken + want <= Len(stream)
  BY <1>1, ReadsFacts
<1>3. /\ \A i : Start(i)' = Start(i)
      /\ sent' = sent /\ stream' = stream
  BY <1>2, StreamKept
<1>4. PICK c : c = Len(received) + 1
  OBVIOUS
<1>5. /\ Len(received) \in Nat /\ c \in 1 .. Len(sent) /\ Data(want) = sent[c]
      /\ taken + want = Start(Len(received) + 2)
  BY <1>1, <1>2, <1>4, DataIsMessage
<1>6. received \in Seq(Seq(Octet)) /\ sent \in Seq(Seq(Octet)) /\ Len(sent) \in Nat
      /\ received = SubSeq(sent, 1, Len(received))
  BY DEF CliInv, CliTypeOK
<1>7. sent[c] \in Seq(Octet)
  BY <1>5, <1>6, ElementOfSeq
<1>8. /\ Append(received, sent[c]) \in Seq(Seq(Octet)) /\ Len(Append(received, sent[c])) = Len(received) + 1
      /\ Append(received, sent[c]) = received \o <<sent[c]>>
  BY <1>6, <1>7, AppendProperties, AppendIsConcat
<1>9. received' \in Seq(Seq(Octet)) /\ Len(received') = c /\ c <= Len(sent)
  BY <1>1, <1>4, <1>5, <1>6, <1>8
<1>10. received' = SubSeq(sent, 1, c)
  <2>1. 1 \in 1 .. Len(sent) /\ c \in 1 .. Len(sent) /\ c - 1 = Len(received)
    BY <1>4, <1>5, <1>6
  <2>2. SubSeq(sent, 1, c) = SubSeq(sent, 1, c - 1) \o <<sent[c]>>
    BY <1>6, <2>1, SubSeqRecursiveSecond
  <2> QED
    BY <1>1, <1>5, <1>6, <1>8, <2>1, <2>2
<1>11. PositionInv'
  <2>1. Len(received') + 1 = Len(received) + 2
    BY <1>4, <1>5, <1>9
  <2>2. taken' = Start(Len(received') + 1)
    BY <1>2, <1>5, <2>1
  <2> QED
    BY <1>1, <1>3, <2>2 DEF PositionInv
<1>12. inbuf' \in Seq(Octet) /\ want' \in Nat
  BY <1>1
<1>13. CliInv'
  BY <1>1, <1>9, <1>10, <1>11, <1>12, ReadKeeps
<1>14. Len(received) < Len(sent)
  BY <1>4, <1>5, <1>6
<1> QED
  BY <1>1, <1>3, <1>4, <1>5, <1>13, <1>14

\* The connection ends.
LEMMA EndInv ==
    ASSUME CliInv, ReadEnd \/ IoError
    PROVE  CliInv'
<1>1. open' = FALSE /\ UNCHANGED client /\ UNCHANGED input /\ UNCHANGED output
  BY DEF ReadEnd, IoError
<1> QED
  BY <1>1, OutputKept, InputKept

-----------------------------------------------------------------------------
(* The client.                                                             *)

LEMMA ClientHangUpInv ==
    ASSUME CliInv, ClientHangUp
    PROVE  CliInv'
<1>1. /\ hup' = TRUE /\ sent' = sent /\ stream' = stream /\ starts' = starts /\ open' = open
      /\ UNCHANGED output /\ received' = received /\ taken' = taken /\ want' = want
      /\ template' = template /\ clisize' = clisize /\ inbuf' = inbuf
  BY DEF ClientHangUp, input
<1>2. \A i : Start(i)' = Start(i)
  BY <1>1 DEF Start
<1>3. StreamInv'
  BY <1>1, <1>2 DEF CliInv, StreamInv
<1>4. PositionInv'
  BY <1>1, <1>2 DEF CliInv, PositionInv
<1>5. /\ RepliesExact' /\ armed' \in BOOLEAN /\ replies' \in 0 .. MaxReplies
      /\ queued' \in Seq(Octet) /\ outbuf' \in Seq(Seq(Octet)) /\ outwire' \in Seq(Octet)
      /\ writing' \in BOOLEAN /\ unread' \in 0 .. Room
  BY <1>1, OutputKept
<1>6. CliTypeOK'
  BY <1>1, <1>5 DEF CliInv, CliTypeOK
<1> QED
  BY <1>1, <1>3, <1>4, <1>5, <1>6 DEF CliInv

LEMMA ClientReadsInv ==
    ASSUME CliInv, NEW n, ClientReads(n)
    PROVE  CliInv'
<1>1. /\ UNCHANGED client /\ UNCHANGED input /\ open' = open /\ writing' = writing
      /\ replies' = replies /\ queued' = queued /\ outbuf' = outbuf /\ armed' = armed /\ outwire' = outwire
      /\ n \in 1 .. unread /\ unread' = unread - n
  BY DEF ClientReads
<1>2. unread' \in 0 .. Room
  BY <1>1, CliAssumption DEF CliInv, CliTypeOK
<1>3. /\ RepliesExact' /\ armed' \in BOOLEAN /\ replies' \in 0 .. MaxReplies /\ open' \in BOOLEAN
      /\ queued' \in Seq(Octet) /\ outbuf' \in Seq(Seq(Octet)) /\ outwire' \in Seq(Octet)
      /\ writing' \in BOOLEAN
  BY <1>1 DEF CliInv, CliTypeOK, RepliesExact
<1> QED
  BY <1>1, <1>2, <1>3, InputKept

\* A further frame at the end of the stream.
LEMMA ClientSendInv ==
    ASSUME CliInv, NEW len \in Sizes, ClientSend(len)
    PROVE  CliInv'
<1>1. PICK k : k = Len(sent)
  OBVIOUS
<1>2. PICK f : f = Frame(k + 1, len)
  OBVIOUS
<1>3. PICK p : p = Payload(k + 1, len)
  OBVIOUS
<1>4. /\ k < MaxMessages /\ sent' = Append(sent, p) /\ stream' = stream \o f
      /\ starts' = Append(starts, Len(stream)) /\ hup' = hup /\ open' = open
      /\ UNCHANGED output /\ received' = received /\ taken' = taken /\ want' = want
      /\ template' = template /\ clisize' = clisize /\ inbuf' = inbuf
  BY <1>1, <1>2, <1>3 DEF ClientSend, input
<1>5. /\ sent \in Seq(Seq(Octet)) /\ stream \in Seq(Octet) /\ starts \in Seq(Nat)
      /\ k \in Nat /\ Len(stream) \in Nat /\ Len(starts) = k /\ len \in Nat /\ Packable(len)
  BY <1>1, CliAssumption DEF CliInv, CliTypeOK, StreamInv, Packable
<1>6. p \in Seq(Octet) /\ Len(p) = len
  BY <1>3, <1>5, PayloadFacts
<1>7. f \in Seq(Octet) /\ Len(f) \in Nat
  <2>1. k + 1 \in Nat
    BY <1>5
  <2>2. f \in Seq(Octet)
    BY <1>2, <1>5, <2>1, FrameFacts
  <2> QED
    BY <2>2, LenProperties
<1>8. /\ sent' \in Seq(Seq(Octet)) /\ Len(sent') = k + 1
      /\ sent'[k + 1] = p /\ \A i \in 1 .. k : sent'[i] = sent[i]
  BY <1>1, <1>4, <1>5, <1>6, AppendProperties
<1>9. /\ starts' \in Seq(Nat) /\ Len(starts') = k + 1
      /\ starts'[k + 1] = Len(stream) /\ \A i \in 1 .. k : starts'[i] = starts[i]
  <2>1. PICK x : x = Len(stream)
    OBVIOUS
  <2>2. starts \in Seq(Nat) /\ x \in Nat /\ starts' = Append(starts, x) /\ Len(starts) = k
    BY <1>4, <1>5, <2>1
  <2>3. /\ Append(starts, x) \in Seq(Nat) /\ Len(Append(starts, x)) = Len(starts) + 1
        /\ \A i \in 1 .. Len(starts) : Append(starts, x)[i] = starts[i]
        /\ Append(starts, x)[Len(starts) + 1] = x
    BY <2>2, AppendProperties
  <2> QED
    BY <2>1, <2>2, <2>3
<1>10. /\ stream' \in Seq(Octet) /\ Len(stream') = Len(stream) + Len(f)
       /\ \A j \in 1 .. Len(stream) : stream'[j] = stream[j]
       /\ \A j \in 1 .. Len(f) : stream'[Len(stream) + j] = f[j]
  <2>1. /\ stream \o f \in Seq(Octet) /\ Len(stream \o f) = Len(stream) + Len(f)
        /\ \A j \in 1 .. Len(stream) + Len(f) :
              (stream \o f)[j] = IF j <= Len(stream) THEN stream[j] ELSE f[j - Len(stream)]
    BY <1>5, <1>7, ConcatProperties
  <2>2. \A j \in 1 .. Len(stream) : stream'[j] = stream[j]
    BY <1>4, <1>5, <1>7, <2>1
  <2>3. ASSUME NEW j \in 1 .. Len(f)
        PROVE  stream'[Len(stream) + j] = f[j]
    <3>1. /\ Len(stream) + j \in 1 .. Len(stream) + Len(f) /\ ~(Len(stream) + j <= Len(stream))
          /\ (Len(stream) + j) - Len(stream) = j
      BY <1>5, <1>7
    <3> QED
      BY <1>4, <2>1, <3>1
  <2> QED
    BY <1>4, <2>1, <2>2, <2>3
<1>11. /\ \A i \in 1 .. k + 1 : Start(i)' = Start(i)
       /\ Start(k + 1) = Len(stream) /\ Start(k + 2)' = Len(stream')
  BY <1>1, <1>5, <1>8, <1>9 DEF Start
<1>12. Start(1)' = 0
  <2>1. Start(1) = 0
    BY DEF CliInv, StreamInv
  <2> QED
    BY <1>5, <1>11, <2>1
<1>13. ASSUME NEW i \in 1 .. k
       PROVE  LET n == Len(sent'[i])
              IN  /\ n \in Sizes /\ sent'[i] = Payload(i, n)
                  /\ Start(i + 1)' = Start(i)' + Len(Frame(i, n)) /\ Start(i + 1)' <= Len(stream')
                  /\ \A j \in 1 .. Len(Frame(i, n)) : stream'[Start(i)' + j] = Frame(i, n)[j]
  <2>1. PICK n : n = Len(sent[i])
    OBVIOUS
  <2>2. PICK b, e : b = Start(i) /\ e = Start(i + 1)
    OBVIOUS
  <2>3. /\ n \in Sizes /\ sent[i] = Payload(i, n)
        /\ e = b + Len(Frame(i, n)) /\ e <= Len(stream)
        /\ \A j \in 1 .. Len(Frame(i, n)) : stream[b + j] = Frame(i, n)[j]
    BY <1>1, <2>1, <2>2 DEF CliInv, StreamInv
  <2>4. sent'[i] = sent[i] /\ Start(i)' = b /\ Start(i + 1)' = e
    BY <1>5, <1>8, <1>11, <2>2
  <2>5. b \in Nat
    BY <1>1, <2>2, FrameOnStream DEF CliInv
  <2>6. n \in Nat /\ i \in Nat /\ Packable(n)
    BY <1>1, <1>5, <2>1, FrameOnStream DEF CliInv
  <2>7. Len(Frame(i, n)) \in Nat
    BY <2>6, FrameFacts
  <2>8. e <= Len(stream')
    BY <1>5, <1>7, <1>10, <2>3, <2>5, <2>7
  <2>9. ASSUME NEW j \in 1 .. Len(Frame(i, n))
        PROVE  stream'[b + j] = Frame(i, n)[j]
    <3>1. b + j \in 1 .. Len(stream)
      BY <1>5, <2>3, <2>5, <2>7
    <3> QED
      BY <1>10, <2>3, <3>1
  <2> QED
    BY <2>1, <2>3, <2>4, <2>8, <2>9
<1>14. LET n == Len(sent'[k + 1])
       IN  /\ n \in Sizes /\ sent'[k + 1] = Payload(k + 1, n)
           /\ Start((k + 1) + 1)' = Start(k + 1)' + Len(Frame(k + 1, n)) /\ Start((k + 1) + 1)' <= Len(stream')
           /\ \A j \in 1 .. Len(Frame(k + 1, n)) : stream'[Start(k + 1)' + j] = Frame(k + 1, n)[j]
  <2>1. Len(sent'[k + 1]) = len /\ sent'[k + 1] = Payload(k + 1, len)
    BY <1>3, <1>6, <1>8
  <2>2. (k + 1) + 1 = k + 2 /\ k + 1 \in 1 .. k + 1
    BY <1>5
  <2>3. Start((k + 1) + 1)' = Len(stream') /\ Start(k + 1)' = Len(stream)
    BY <1>11, <2>2
  <2>4. Len(stream') \in Nat
    BY <1>5, <1>7, <1>10
  <2>5. Len(stream') = Len(stream) + Len(Frame(k + 1, len)) /\ Len(stream') <= Len(stream')
    BY <1>2, <1>10, <2>4
  <2>6. \A j \in 1 .. Len(Frame(k + 1, len)) : stream'[Len(stream) + j] = Frame(k + 1, len)[j]
    BY <1>2, <1>10
  <2> QED
    BY <2>1, <2>3, <2>5, <2>6
<1>15. StreamInv'
  <2>1. ASSUME NEW i \in 1 .. Len(sent')
        PROVE  i \in 1 .. k \/ i = k + 1
    BY <1>5, <1>8
  <2>2. Len(starts') = Len(sent')
    BY <1>8, <1>9
  <2> QED
    BY <1>12, <1>13, <1>14, <2>1, <2>2 DEF StreamInv
<1>16. Len(received) \in Nat /\ Len(received) <= k
  BY <1>1 DEF CliInv, CliTypeOK
<1>17. PositionInv'
  <2>1. PICK c : c = Len(received) + 1
    OBVIOUS
  <2>2. c \in 1 .. k + 1 /\ Start(c)' = Start(c)
    BY <1>5, <1>11, <1>16, <2>1
  <2>3. c \in 1 .. k => sent'[c] = sent[c]
    BY <1>8
  <2>4. c = k + 1 => ~template
    BY <1>1, <1>5, <2>1 DEF CliInv, PositionInv
  <2>5. c \in 1 .. k \/ c = k + 1
    BY <1>5, <2>2
  <2>6. ~(c > Len(sent'))
    BY <1>5, <1>8, <2>2
  <2>7. CASE ~template
    BY <1>4, <2>1, <2>2, <2>7 DEF CliInv, PositionInv
  <2>8. CASE template
    <3>1. sent'[c] = sent[c]
      BY <2>3, <2>4, <2>5, <2>8
    <3> QED
      BY <1>4, <2>1, <2>2, <2>6, <2>8, <3>1 DEF CliInv, PositionInv
  <2> QED
    BY <2>7, <2>8
<1>18. received' = SubSeq(sent', 1, Len(received'))
  <2>1. received = SubSeq(sent, 1, Len(received))
    BY DEF CliInv
  <2>2. CASE Len(received) = 0
    <3>1. SubSeq(sent, 1, 0) = <<>> /\ SubSeq(sent', 1, 0) = <<>>
      BY SubSeqEmpty
    <3> QED
      BY <1>4, <2>1, <2>2, <3>1
  <2>3. CASE Len(received) # 0
    <3>1. 1 \in 1 .. Len(sent) /\ Len(received) \in 1 .. Len(sent)
      BY <1>1, <1>5, <1>16, <2>3
    <3>2. <<p>> \in Seq(Seq(Octet)) /\ sent' = sent \o <<p>>
      BY <1>4, <1>5, <1>6, AppendIsConcat
    <3>3. SubSeq(sent \o <<p>>, 1, Len(received)) = SubSeq(sent, 1, Len(received))
      BY <1>5, <3>1, <3>2, SubSeqOfConcat1
    <3> QED
      BY <1>4, <2>1, <3>2, <3>3
  <2> QED
    BY <2>2, <2>3
<1>19. /\ RepliesExact' /\ armed' \in BOOLEAN /\ replies' \in 0 .. MaxReplies
       /\ queued' \in Seq(Octet) /\ outbuf' \in Seq(Seq(Octet)) /\ outwire' \in Seq(Octet)
       /\ writing' \in BOOLEAN /\ unread' \in 0 .. Room
  BY <1>4, OutputKept
<1>20. CliTypeOK'
  <2>1. Len(sent') <= MaxMessages /\ Len(received') <= Len(sent')
    BY <1>4, <1>5, <1>8, <1>16, CliAssumption
  <2>2. taken' \in 0 .. Len(stream')
    <3>1. taken \in 0 .. Len(stream)
      BY DEF CliInv, CliTypeOK
    <3> QED
      BY <1>4, <1>5, <1>7, <1>10, <3>1
  <2> QED
    BY <1>4, <1>8, <1>9, <1>10, <1>19, <2>1, <2>2 DEF CliInv, CliTypeOK
<1> QED
  BY <1>15, <1>17, <1>18, <1>19, <1>20 DEF CliInv

-----------------------------------------------------------------------------
(* Replies: the chunks that are queued, laid end to end.                   *)

\* A chunk of the queue is a piece of the bytes queued.
LEMMA LaidFacts ==
    ASSUME NEW chunks \in Seq(Seq(Octet)), NEW bytes \in Seq(Octet), NEW from,
           NEW p \in [1 .. Len(chunks) + 1 -> 0 .. Len(bytes)],
           NEW i \in 1 .. Len(chunks), p[i + 1] = p[i] + Len(chunks[i])
    PROVE  /\ i \in Nat /\ Len(chunks) \in Nat /\ Len(bytes) \in Nat
           /\ chunks[i] \in Seq(Octet) /\ Len(chunks[i]) \in Nat
           /\ p[i] \in Nat /\ p[i + 1] \in Nat /\ p[i] + Len(chunks[i]) <= Len(bytes)
           /\ \A j \in 1 .. Len(chunks[i]) : p[i] + j \in 1 .. Len(bytes)
<1>1. i \in Nat /\ Len(chunks) \in Nat /\ Len(bytes) \in Nat
  BY LenProperties
<1>2. chunks[i] \in Seq(Octet)
  BY ElementOfSeq
<1>3. Len(chunks[i]) \in Nat
  BY <1>2, LenProperties
<1>4. i \in 1 .. Len(chunks) + 1 /\ i + 1 \in 1 .. Len(chunks) + 1
  BY <1>1
<1>5. p[i] \in 0 .. Len(bytes) /\ p[i + 1] \in 0 .. Len(bytes)
  BY <1>4
<1>6. p[i] \in Nat /\ p[i + 1] \in Nat /\ p[i] + Len(chunks[i]) <= Len(bytes)
  BY <1>1, <1>5
<1>7. \A j \in 1 .. Len(chunks[i]) : p[i] + j \in 1 .. Len(bytes)
  BY <1>1, <1>3, <1>6
<1> QED
  BY <1>1, <1>2, <1>3, <1>6, <1>7

LEMMA LaidAppend ==
    ASSUME NEW chunks \in Seq(Seq(Octet)), NEW bytes \in Seq(Octet), NEW from, NEW f \in Seq(Octet),
           Laid(chunks, bytes, from)
    PROVE  Laid(Append(chunks, f), bytes \o f, from)
<1>1. PICK p \in [1 .. Len(chunks) + 1 -> 0 .. Len(bytes)] :
          /\ p[1] = from /\ p[Len(chunks) + 1] = Len(bytes)
          /\ \A i \in 1 .. Len(chunks) :
              /\ p[i + 1] = p[i] + Len(chunks[i])
              /\ \A j \in 1 .. Len(chunks[i]) : chunks[i][j] = bytes[p[i] + j]
  BY DEF Laid
<1>2. PICK n, l, c, b : n = Len(chunks) /\ l = Len(bytes) /\ c = Append(chunks, f) /\ b = bytes \o f
  OBVIOUS
<1>3. n \in Nat /\ l \in Nat /\ Len(f) \in Nat
  BY <1>2, LenProperties
<1>4. Len(c) = n + 1 /\ c[n + 1] = f /\ \A i \in 1 .. n : c[i] = chunks[i]
  BY <1>2, AppendProperties
<1>5. /\ Len(b) = l + Len(f)
      /\ \A j \in 1 .. l + Len(f) : b[j] = IF j <= l THEN bytes[j] ELSE f[j - l]
  BY <1>2, ConcatProperties
<1> DEFINE q == [i \in 1 .. n + 2 |-> IF i <= n + 1 THEN p[i] ELSE l + Len(f)]
<1>6. q \in [1 .. Len(c) + 1 -> 0 .. Len(b)]
  <2>1. \A i \in 1 .. n + 1 : p[i] \in 0 .. l
    BY <1>1, <1>2
  <2>2. \A i \in 1 .. n + 2 : (IF i <= n + 1 THEN p[i] ELSE l + Len(f)) \in 0 .. l + Len(f)
    BY <1>3, <2>1
  <2>3. Len(c) + 1 = n + 2
    BY <1>3, <1>4
  <2> QED
    BY <1>5, <2>2, <2>3
<1>7. /\ \A i \in 1 .. n + 1 : q[i] = p[i]
      /\ q[n + 2] = l + Len(f)
  BY <1>3
<1>8. q[1] = from /\ q[Len(c) + 1] = Len(b)
  <2>1. 1 \in 1 .. n + 1 /\ Len(c) + 1 = n + 2
    BY <1>3, <1>4
  <2> QED
    BY <1>1, <1>5, <1>7, <2>1
<1> HIDE DEF q
<1>9. ASSUME NEW i \in 1 .. Len(c)
      PROVE  /\ q[i + 1] = q[i] + Len(c[i])
             /\ \A j \in 1 .. Len(c[i]) : c[i][j] = b[q[i] + j]
  <2>1. CASE i \in 1 .. n
    <3>1. i \in 1 .. n + 1 /\ i + 1 \in 1 .. n + 1
      BY <1>3, <2>1
    <3>2. q[i] = p[i] /\ q[i + 1] = p[i + 1] /\ c[i] = chunks[i]
      BY <1>4, <1>7, <2>1, <3>1
    <3>3. p[i + 1] = p[i] + Len(chunks[i]) /\ \A j \in 1 .. Len(chunks[i]) : chunks[i][j] = bytes[p[i] + j]
      BY <1>1, <1>2, <2>1
    <3>4. \A j \in 1 .. Len(chunks[i]) : p[i] + j \in 1 .. l
      BY <1>2, <2>1, <3>3, LaidFacts
    <3>5. \A j \in 1 .. l : b[j] = bytes[j]
      BY <1>3, <1>5
    <3> QED
      BY <3>2, <3>3, <3>4, <3>5
  <2>2. CASE i = n + 1
    <3>1. n + 1 \in 1 .. n + 1 /\ (n + 1) + 1 = n + 2
      BY <1>3
    <3>2. q[i] = l /\ q[i + 1] = l + Len(f) /\ c[i] = f
      BY <1>1, <1>2, <1>4, <1>7, <2>2, <3>1
    <3>3. ASSUME NEW j \in 1 .. Len(f)
          PROVE  b[l + j] = f[j]
      <4>1. l + j \in 1 .. l + Len(f) /\ ~(l + j <= l) /\ (l + j) - l = j
        BY <1>3
      <4> QED
        BY <1>5, <4>1
    <3> QED
      BY <3>2, <3>3
  <2> QED
    BY <1>3, <1>4, <2>1, <2>2
<1> QED
  BY <1>2, <1>6, <1>8, <1>9 DEF Laid

\* The first chunk is written in full.
LEMMA LaidTail ==
    ASSUME NEW chunks \in Seq(Seq(Octet)), NEW bytes \in Seq(Octet), NEW from, chunks # <<>>,
           Laid(chunks, bytes, from)
    PROVE  Laid(Tail(chunks), bytes, from + Len(chunks[1]))
<1>1. PICK p \in [1 .. Len(chunks) + 1 -> 0 .. Len(bytes)] :
          /\ p[1] = from /\ p[Len(chunks) + 1] = Len(bytes)
          /\ \A i \in 1 .. Len(chunks) :
              /\ p[i + 1] = p[i] + Len(chunks[i])
              /\ \A j \in 1 .. Len(chunks[i]) : chunks[i][j] = bytes[p[i] + j]
  BY DEF Laid
<1>2. PICK n, c : n = Len(chunks) /\ c = Tail(chunks)
  OBVIOUS
<1>3. n \in Nat /\ n > 0
  BY <1>2, EmptySeq
<1>4. Len(c) = n - 1 /\ \A i \in 1 .. n - 1 : c[i] = chunks[i + 1]
  BY <1>2, HeadTailProperties
<1> DEFINE q == [i \in 1 .. n |-> p[i + 1]]
<1>5. q \in [1 .. Len(c) + 1 -> 0 .. Len(bytes)]
  <2>1. ASSUME NEW i \in 1 .. n
        PROVE  p[i + 1] \in 0 .. Len(bytes)
    <3>1. i + 1 \in 1 .. Len(chunks) + 1
      BY <1>2, <1>3
    <3> QED
      BY <3>1
  <2>2. Len(c) + 1 = n
    BY <1>3, <1>4
  <2> QED
    BY <2>1, <2>2
<1>6. q[1] = from + Len(chunks[1]) /\ q[Len(c) + 1] = Len(bytes)
  <2>1. 1 \in 1 .. n /\ n \in 1 .. n /\ Len(c) + 1 = n
    BY <1>3, <1>4
  <2>2. p[1 + 1] = p[1] + Len(chunks[1])
    BY <1>1, <1>2, <2>1
  <2> QED
    BY <1>1, <1>2, <2>1, <2>2
<1>7. ASSUME NEW i \in 1 .. Len(c)
      PROVE  /\ q[i + 1] = q[i] + Len(c[i])
             /\ \A j \in 1 .. Len(c[i]) : c[i][j] = bytes[q[i] + j]
  <2>1. i \in 1 .. n - 1 /\ i \in 1 .. n /\ i + 1 \in 1 .. n
    BY <1>3, <1>4
  <2>2. q[i] = p[i + 1] /\ q[i + 1] = p[(i + 1) + 1] /\ c[i] = chunks[i + 1]
    BY <1>4, <2>1
  <2> HIDE DEF q
  <2> QED
    BY <1>1, <1>2, <2>1, <2>2
<1> HIDE DEF q
<1>8. Laid(c, bytes, from + Len(chunks[1]))
  BY <1>5, <1>6, <1>7 DEF Laid
<1> QED
  BY <1>2, <1>8

\* A write takes part of the first chunk.
LEMMA LaidCut ==
    ASSUME NEW chunks \in Seq(Seq(Octet)), NEW bytes \in Seq(Octet), NEW from, chunks # <<>>,
           NEW n \in 1 .. Len(chunks[1]), Laid(chunks, bytes, from)
    PROVE  /\ Laid([chunks EXCEPT ![1] = SubSeq(@, n + 1, Len(@))], bytes, from + n)
           /\ [chunks EXCEPT ![1] = SubSeq(@, n + 1, Len(@))] \in Seq(Seq(Octet))
           /\ [chunks EXCEPT ![1] = SubSeq(@, n + 1, Len(@))] # <<>>
<1>1. PICK p \in [1 .. Len(chunks) + 1 -> 0 .. Len(bytes)] :
          /\ p[1] = from /\ p[Len(chunks) + 1] = Len(bytes)
          /\ \A i \in 1 .. Len(chunks) :
              /\ p[i + 1] = p[i] + Len(chunks[i])
              /\ \A j \in 1 .. Len(chunks[i]) : chunks[i][j] = bytes[p[i] + j]
  BY DEF Laid
<1>2. PICK m : m = Len(chunks)
  OBVIOUS
<1>3. m \in Nat /\ m > 0 /\ 1 \in 1 .. m
  BY <1>2, EmptySeq
<1>4. PICK h, l : h = chunks[1] /\ l = Len(h)
  OBVIOUS
<1>5. /\ h \in Seq(Octet) /\ l \in Nat /\ p[1] \in Nat /\ p[1 + 1] = p[1] + l /\ p[1] + l <= Len(bytes)
      /\ Len(bytes) \in Nat /\ \A j \in 1 .. l : h[j] = bytes[p[1] + j]
  <2>1. p[1 + 1] = p[1] + Len(chunks[1]) /\ \A j \in 1 .. Len(chunks[1]) : chunks[1][j] = bytes[p[1] + j]
    BY <1>1, <1>2, <1>3
  <2> QED
    BY <1>2, <1>3, <1>4, <2>1, LaidFacts
<1>6. n \in Nat /\ n >= 1 /\ n <= l
  BY <1>4, <1>5
<1>7. PICK t : t = SubSeq(h, n + 1, l)
  OBVIOUS
<1>8. t \in Seq(Octet) /\ Len(t) = l - n /\ \A j \in 1 .. l - n : t[j] = h[n + j]
  <2>1. n + 1 \in Int /\ l \in Int /\ \A j \in n + 1 .. l : h[j] \in Octet
    BY <1>4, <1>5, <1>6
  <2>2. /\ t \in Seq(Octet) /\ Len(t) = (IF n + 1 <= l THEN l - (n + 1) + 1 ELSE 0)
        /\ \A j \in 1 .. l - (n + 1) + 1 : t[j] = h[(n + 1) + j - 1]
    BY <1>7, <2>1, SubSeqProperties
  <2>3. ASSUME NEW j \in 1 .. l - n
        PROVE  t[j] = h[n + j]
    <3>1. j \in 1 .. l - (n + 1) + 1 /\ (n + 1) + j - 1 = n + j
      BY <1>5, <1>6
    <3> QED
      BY <2>2, <3>1
  <2> QED
    BY <1>5, <1>6, <2>2, <2>3
<1>9. PICK c : c = [chunks EXCEPT ![1] = t]
  OBVIOUS
<1>10. c \in Seq(Seq(Octet)) /\ Len(c) = m /\ c[1] = t /\ \A i \in 1 .. m : i # 1 => c[i] = chunks[i]
  BY <1>2, <1>3, <1>8, <1>9, ExceptSeq
<1>11. [chunks EXCEPT ![1] = SubSeq(@, n + 1, Len(@))] = c
  BY <1>4, <1>7, <1>9
<1> DEFINE q == [p EXCEPT ![1] = from + n]
<1>12. /\ q \in [1 .. Len(c) + 1 -> 0 .. Len(bytes)] /\ q[1] = from + n
       /\ \A i \in 1 .. m + 1 : i # 1 => q[i] = p[i]
  <2>1. from + n \in 0 .. Len(bytes)
    BY <1>1, <1>5, <1>6
  <2>2. 1 \in 1 .. m + 1
    BY <1>3
  <2> QED
    BY <1>1, <1>2, <1>10, <2>1, <2>2
<1> HIDE DEF q
<1>13. q[Len(c) + 1] = Len(bytes)
  <2>1. m + 1 \in 1 .. m + 1 /\ m + 1 # 1
    BY <1>3
  <2> QED
    BY <1>1, <1>2, <1>10, <1>12, <2>1
<1>14. ASSUME NEW i \in 1 .. Len(c)
       PROVE  /\ q[i + 1] = q[i] + Len(c[i])
              /\ \A j \in 1 .. Len(c[i]) : c[i][j] = bytes[q[i] + j]
  <2>1. i \in 1 .. m /\ i \in 1 .. m + 1 /\ i + 1 \in 1 .. m + 1 /\ i + 1 # 1
    BY <1>3, <1>10
  <2>2. q[i + 1] = p[i + 1]
    BY <1>12, <2>1
  <2>3. CASE i # 1
    <3>1. q[i] = p[i] /\ c[i] = chunks[i]
      BY <1>10, <1>12, <2>1, <2>3
    <3>2. p[i + 1] = p[i] + Len(chunks[i]) /\ \A j \in 1 .. Len(chunks[i]) : chunks[i][j] = bytes[p[i] + j]
      BY <1>1, <1>2, <2>1
    <3> QED
      BY <2>2, <3>1, <3>2
  <2>4. CASE i = 1
    <3>1. q[1 + 1] = p[1] + l /\ p[1] = from
      BY <1>1, <1>5, <2>2, <2>4
    <3>2. q[1 + 1] = q[1] + Len(t)
      BY <1>5, <1>6, <1>8, <1>12, <3>1
    <3>3. ASSUME NEW j \in 1 .. Len(t)
          PROVE  t[j] = bytes[q[1] + j]
      <4>1. j \in 1 .. l - n /\ n + j \in 1 .. l /\ p[1] + (n + j) = q[1] + j
        BY <1>5, <1>6, <1>8, <1>12, <3>1
      <4> QED
        BY <1>5, <1>8, <4>1
    <3> QED
      BY <1>10, <2>4, <3>2, <3>3
  <2> QED
    BY <2>3, <2>4
<1>15. c # <<>>
  BY <1>3, <1>10
<1>16. Laid(c, bytes, from + n)
  BY <1>12, <1>13, <1>14 DEF Laid
<1> QED
  BY <1>10, <1>11, <1>15, <1>16

LEMMA SendInv ==
    ASSUME CliInv, NEW len \in ReplySizes, Send(len)
    PROVE  CliInv'
<1>1. PICK f : f = Frame(replies + 1, len)
  OBVIOUS
<1>2. /\ replies < MaxReplies /\ replies' = replies + 1 /\ queued' = queued \o f
      /\ outbuf' = Append(outbuf, f) /\ armed' = TRUE /\ outwire' = outwire
      /\ writing' = writing /\ unread' = unread
      /\ UNCHANGED client /\ UNCHANGED input /\ open' = open
  BY <1>1 DEF Send
<1>3. /\ replies \in 0 .. MaxReplies /\ queued \in Seq(Octet) /\ outbuf \in Seq(Seq(Octet))
      /\ outwire \in Seq(Octet) /\ open \in BOOLEAN
  BY DEF CliInv, CliTypeOK
<1>4. f \in Seq(Octet)
  <2>1. replies + 1 \in Nat /\ len \in Nat /\ Packable(len)
    BY <1>3, CliAssumption DEF Packable
  <2> QED
    BY <1>1, <2>1, FrameFacts
<1>5. replies' \in 0 .. MaxReplies
  BY <1>2, <1>3, CliAssumption
<1>6. outwire = SubSeq(queued, 1, Len(outwire)) /\ Laid(outbuf, queued, Len(outwire))
  BY DEF CliInv, RepliesExact
<1>7. Len(outwire) \in Nat /\ Len(outwire) <= Len(queued) /\ Len(queued) \in Nat
  <2>1. Len(outbuf) \in Nat /\ Len(outwire) \in Nat /\ Len(queued) \in Nat
    BY <1>3, LenProperties
  <2>2. PICK p \in [1 .. Len(outbuf) + 1 -> 0 .. Len(queued)] : p[1] = Len(outwire)
    BY <1>6 DEF Laid
  <2> QED
    BY <2>1, <2>2
<1>8. outwire' = SubSeq(queued', 1, Len(outwire'))
  <2>1. CASE Len(outwire) = 0
    <3>1. SubSeq(queued, 1, 0) = <<>> /\ SubSeq(queued', 1, 0) = <<>>
      BY SubSeqEmpty
    <3> QED
      BY <1>2, <1>6, <2>1, <3>1
  <2>2. CASE Len(outwire) # 0
    <3>1. 1 \in 1 .. Len(queued) /\ Len(outwire) \in 1 .. Len(queued)
      BY <1>7, <2>2
    <3>2. SubSeq(queued \o f, 1, Len(outwire)) = SubSeq(queued, 1, Len(outwire))
      BY <1>3, <1>4, <3>1, SubSeqOfConcat1
    <3> QED
      BY <1>2, <1>6, <3>2
  <2> QED
    BY <2>1, <2>2
<1>9. Laid(outbuf', queued', Len(outwire'))
  BY <1>2, <1>3, <1>4, <1>6, LaidAppend
<1>10. /\ queued' \in Seq(Octet) /\ outbuf' \in Seq(Seq(Octet)) /\ outbuf' # <<>>
  BY <1>2, <1>3, <1>4, ConcatProperties, AppendProperties
<1>11. RepliesExact'
  BY <1>2, <1>8, <1>9, <1>10 DEF RepliesExact
<1>12. writing' \in BOOLEAN /\ unread' \in 0 .. Room
  BY <1>2 DEF CliInv, CliTypeOK
<1> QED
  BY <1>2, <1>3, <1>5, <1>10, <1>11, <1>12, InputKept

LEMMA WriteInv ==
    ASSUME CliInv, NEW n, outbuf # <<>>, Write(n)
    PROVE  CliInv'
<1>1. PICK h, w : h = outbuf[1] /\ w = Len(outwire)
  OBVIOUS
<1>2. /\ n \in 1 .. Len(h) /\ outwire' = outwire \o SubSeq(h, 1, n) /\ queued' = queued /\ replies' = replies
      /\ UNCHANGED client /\ UNCHANGED input /\ open' = open /\ writing' \in BOOLEAN
      /\ unread + n <= Room /\ unread' = unread + n
  BY <1>1 DEF Write, Puts
<1>3. /\ replies \in 0 .. MaxReplies /\ queued \in Seq(Octet) /\ outbuf \in Seq(Seq(Octet))
      /\ outwire \in Seq(Octet) /\ open \in BOOLEAN
  BY DEF CliInv, CliTypeOK
<1>4. outwire = SubSeq(queued, 1, w) /\ Laid(outbuf, queued, w)
  BY <1>1 DEF CliInv, RepliesExact
<1>5. Len(outbuf) \in Nat /\ Len(outbuf) > 0 /\ w \in Nat /\ Len(queued) \in Nat
  BY <1>1, <1>3, LenProperties, EmptySeq
<1>6. /\ h \in Seq(Octet) /\ Len(h) \in Nat /\ w + Len(h) <= Len(queued)
      /\ \A j \in 1 .. Len(h) : h[j] = queued[w + j]
  <2>1. PICK p \in [1 .. Len(outbuf) + 1 -> 0 .. Len(queued)] :
            /\ p[1] = w
            /\ \A i \in 1 .. Len(outbuf) :
                /\ p[i + 1] = p[i] + Len(outbuf[i])
                /\ \A j \in 1 .. Len(outbuf[i]) : outbuf[i][j] = queued[p[i] + j]
    BY <1>4 DEF Laid
  <2>2. 1 \in 1 .. Len(outbuf)
    BY <1>5
  <2>3. p[1 + 1] = p[1] + Len(h) /\ \A j \in 1 .. Len(h) : h[j] = queued[p[1] + j]
    BY <1>1, <2>1, <2>2
  <2>4. h \in Seq(Octet) /\ Len(h) \in Nat /\ p[1] + Len(h) <= Len(queued)
    BY <1>1, <1>3, <2>2, <2>3, LaidFacts
  <2> QED
    BY <2>1, <2>3, <2>4
<1>7. n \in Nat /\ n <= Len(h)
  BY <1>2, <1>6
<1>8. PICK t : t = SubSeq(h, 1, n)
  OBVIOUS
<1>9. t \in Seq(Octet) /\ Len(t) = n /\ \A j \in 1 .. n : t[j] = h[j]
  <2>1. 1 \in Int /\ n \in Int /\ \A j \in 1 .. n : h[j] \in Octet
    BY <1>6, <1>7
  <2>2. /\ t \in Seq(Octet) /\ Len(t) = (IF 1 <= n THEN n - 1 + 1 ELSE 0)
        /\ \A j \in 1 .. n - 1 + 1 : t[j] = h[1 + j - 1]
    BY <1>8, <2>1, SubSeqProperties
  <2>3. ASSUME NEW j \in 1 .. n
        PROVE  t[j] = h[j]
    <3>1. j \in 1 .. n - 1 + 1 /\ 1 + j - 1 = j
      BY <1>7
    <3> QED
      BY <2>2, <3>1
  <2> QED
    BY <1>7, <2>2, <2>3
<1>10. PICK o : o = outwire \o t
  OBVIOUS
<1>11. /\ o \in Seq(Octet) /\ Len(o) = w + n
       /\ \A j \in 1 .. w + n : o[j] = IF j <= w THEN outwire[j] ELSE t[j - w]
  BY <1>1, <1>3, <1>9, <1>10, ConcatProperties
<1>12. outwire' = o
  BY <1>2, <1>8, <1>10
<1>13. o = SubSeq(queued, 1, w + n)
  <2>1. PICK s : s = SubSeq(queued, 1, w + n)
    OBVIOUS
  <2>2. w + n \in Nat /\ w + n <= Len(queued)
    BY <1>5, <1>6, <1>7
  <2>3. /\ s \in Seq(Octet) /\ Len(s) = w + n /\ \A j \in 1 .. w + n : s[j] = queued[j]
    <3>1. 1 \in Int /\ w + n \in Int /\ \A j \in 1 .. w + n : queued[j] \in Octet
      BY <1>3, <1>5, <2>2
    <3>2. /\ s \in Seq(Octet) /\ Len(s) = (IF 1 <= w + n THEN (w + n) - 1 + 1 ELSE 0)
          /\ \A j \in 1 .. (w + n) - 1 + 1 : s[j] = queued[1 + j - 1]
      BY <2>1, <3>1, SubSeqProperties
    <3>3. ASSUME NEW j \in 1 .. w + n
          PROVE  s[j] = queued[j]
      <4>1. j \in 1 .. (w + n) - 1 + 1 /\ 1 + j - 1 = j
        BY <2>2
      <4> QED
        BY <3>2, <4>1
    <3> QED
      BY <2>2, <3>2, <3>3
  <2>4. \A j \in 1 .. w : outwire[j] = queued[j]
    <3>1. 1 \in Int /\ w \in Int /\ \A j \in 1 .. w : queued[j] \in Octet
      BY <1>3, <1>5, <1>6
    <3>2. \A j \in 1 .. w - 1 + 1 : outwire[j] = queued[1 + j - 1]
      BY <1>4, <3>1, SubSeqProperties
    <3>3. ASSUME NEW j \in 1 .. w
          PROVE  outwire[j] = queued[j]
      <4>1. j \in 1 .. w - 1 + 1 /\ 1 + j - 1 = j
        BY <1>5
      <4> QED
        BY <3>2, <4>1
    <3> QED
      BY <3>3
  <2>5. ASSUME NEW j \in 1 .. w + n
        PROVE  o[j] = s[j]
    <3>1. CASE j <= w
      BY <1>5, <1>11, <2>3, <2>4, <3>1
    <3>2. CASE ~(j <= w)
      <4>1. j - w \in 1 .. n /\ j - w \in 1 .. Len(h) /\ w + (j - w) = j
        BY <1>5, <1>6, <1>7, <3>2
      <4>2. o[j] = h[j - w]
        BY <1>9, <1>11, <3>2, <4>1
      <4>3. h[j - w] = queued[j]
        BY <1>6, <4>1
      <4> QED
        BY <2>3, <4>2, <4>3
    <3> QED
      BY <3>1, <3>2
  <2>6. o = s
    BY <1>11, <2>3, <2>5, SeqEqual
  <2> QED
    BY <2>1, <2>6
<1>14. /\ Laid(outbuf', queued, w + n) /\ outbuf' \in Seq(Seq(Octet)) /\ armed' \in BOOLEAN
       /\ armed' <=> outbuf' # <<>>
  <2>1. CASE n = Len(h)
    <3>1. outbuf' = Tail(outbuf) /\ armed' = (Len(outbuf) > 1)
      BY <1>1, <2>1 DEF Write
    <3>2. Laid(Tail(outbuf), queued, w + Len(outbuf[1]))
      BY <1>3, <1>4, LaidTail
    <3>3. Tail(outbuf) \in Seq(Seq(Octet)) /\ Len(Tail(outbuf)) = Len(outbuf) - 1
      BY <1>3, HeadTailProperties
    <3>4. Tail(outbuf) # <<>> <=> Len(outbuf) > 1
      <4>1. PICK s : s = Tail(outbuf)
        OBVIOUS
      <4>2. s \in Seq(Seq(Octet)) /\ Len(s) = Len(outbuf) - 1
        BY <3>3, <4>1
      <4>3. s # <<>> <=> Len(s) > 0
        BY <4>2, EmptySeq
      <4>4. Len(s) > 0 <=> Len(outbuf) > 1
        BY <1>5, <4>2
      <4> QED
        BY <4>1, <4>3, <4>4
    <3>5. armed' \in BOOLEAN
      BY <3>1
    <3>6. armed' <=> outbuf' # <<>>
      BY <3>1, <3>4, Zenon
    <3> QED
      BY <1>1, <2>1, <3>1, <3>2, <3>3, <3>5, <3>6
  <2>2. CASE n # Len(h)
    <3>1. outbuf' = [outbuf EXCEPT ![1] = SubSeq(@, n + 1, Len(@))] /\ armed' = TRUE
      BY <1>1, <2>2 DEF Write
    <3>2. n \in 1 .. Len(outbuf[1])
      BY <1>1, <1>2
    <3>3. /\ Laid([outbuf EXCEPT ![1] = SubSeq(@, n + 1, Len(@))], queued, w + n)
          /\ [outbuf EXCEPT ![1] = SubSeq(@, n + 1, Len(@))] \in Seq(Seq(Octet))
          /\ [outbuf EXCEPT ![1] = SubSeq(@, n + 1, Len(@))] # <<>>
      BY <1>3, <1>4, <3>2, LaidCut
    <3> QED
      BY <3>1, <3>3
  <2> QED
    BY <2>1, <2>2
<1>15. RepliesExact'
  BY <1>2, <1>11, <1>12, <1>13, <1>14 DEF RepliesExact
<1>16. unread' \in 0 .. Room
  BY <1>2, <1>7, CliAssumption DEF CliInv, CliTypeOK
<1> QED
  BY <1>2, <1>3, <1>11, <1>12, <1>14, <1>15, <1>16, InputKept

-----------------------------------------------------------------------------
(* Theorems.                                                               *)

LEMMA CliInitInv ==
    ASSUME CliInit
    PROVE  CliInv
<1>1. /\ sent = <<>> /\ stream = <<>> /\ starts = <<>> /\ hup = FALSE /\ open = TRUE
      /\ received = <<>> /\ taken = 0 /\ want = 1 /\ template = FALSE /\ clisize = Nil /\ inbuf = <<>>
      /\ replies = 0 /\ queued = <<>> /\ outbuf = <<>> /\ armed = FALSE /\ outwire = <<>>
      /\ writing = FALSE /\ unread = 0
  BY DEF CliInit
<1>2. Len(sent) = 0 /\ Len(stream) = 0 /\ Len(starts) = 0 /\ Len(received) = 0
  BY <1>1
<1>3. CliTypeOK
  <2>1. /\ sent \in Seq(Seq(Octet)) /\ received \in Seq(Seq(Octet)) /\ stream \in Seq(Octet)
        /\ starts \in Seq(Nat) /\ inbuf \in Seq(Octet) /\ queued \in Seq(Octet)
        /\ outbuf \in Seq(Seq(Octet)) /\ outwire \in Seq(Octet)
    BY <1>1, EmptySeq
  <2>2. taken \in 0 .. Len(stream) /\ want \in Nat /\ Len(received) <= Len(sent)
    BY <1>1, <1>2
  <2>3. Len(sent) <= MaxMessages /\ replies \in 0 .. MaxReplies /\ unread \in 0 .. Room
    BY <1>1, <1>2, CliAssumption
  <2> QED
    BY <1>1, <2>1, <2>2, <2>3 DEF CliTypeOK
<1>4. Start(1) = 0
  BY <1>2 DEF Start
<1>5. StreamInv
  BY <1>2, <1>4 DEF StreamInv
<1>6. PositionInv
  BY <1>1, <1>2, <1>4 DEF PositionInv
<1>7. RepliesExact
  <2>1. SubSeq(queued, 1, 0) = <<>>
    BY SubSeqEmpty
  <2>2. Len(outwire) = 0 /\ Len(outbuf) = 0 /\ Len(queued) = 0
    BY <1>1
  <2>3. Laid(outbuf, queued, 0)
    <3> DEFINE p == [i \in 1 .. 1 |-> 0]
    <3>1. p \in [1 .. Len(outbuf) + 1 -> 0 .. Len(queued)] /\ p[1] = 0 /\ p[Len(outbuf) + 1] = Len(queued)
      BY <2>2
    <3>2. 1 .. Len(outbuf) = {}
      BY <2>2
    <3> HIDE DEF p
    <3> QED
      BY <3>1, <3>2 DEF Laid
  <2> QED
    BY <1>1, <2>1, <2>2, <2>3 DEF RepliesExact
<1>8. received = SubSeq(sent, 1, Len(received))
  BY <1>1, <1>2, SubSeqEmpty
<1> QED
  BY <1>3, <1>5, <1>6, <1>7, <1>8 DEF CliInv

LEMMA CliNextInv ==
    ASSUME CliInv, [CliNext]_cliVars
    PROVE  CliInv'
<1>1. CASE UNCHANGED cliVars
  <2>1. UNCHANGED client /\ UNCHANGED input /\ UNCHANGED output /\ open' = open
    BY <1>1 DEF cliVars
  <2>2. open' \in BOOLEAN
    BY <2>1 DEF CliInv, CliTypeOK
  <2> QED
    BY <2>1, <2>2, OutputKept, InputKept
<1>2. ASSUME NEW len \in Sizes, ClientSend(len)
      PROVE  CliInv'
  BY <1>2, ClientSendInv
<1>3. CASE ClientHangUp
  BY <1>3, ClientHangUpInv
<1>4. CASE Read
  <2>1. ASSUME NEW n \in Pieces, ReadPart(n)
        PROVE  CliInv'
    BY <2>1, ReadPartInv
  <2> QED
    BY <1>4, <2>1, ReadFirstInv, ReadSizeInv, ReadDataInv, EndInv DEF Read
<1>5. ASSUME NEW len \in ReplySizes, Send(len)
      PROVE  CliInv'
  BY <1>5, SendInv
<1>6. CASE Writes
  BY <1>6, WriteInv DEF Writes
<1>7. CASE IoError
  BY <1>7, EndInv
<1>8. ASSUME NEW n \in 1 .. Room, ClientReads(n)
      PROVE  CliInv'
  BY <1>8, ClientReadsInv
<1> QED
  BY <1>1, <1>2, <1>3, <1>4, <1>5, <1>6, <1>7, <1>8 DEF CliNext

\* The bytes wanted of a message are on the stream, or will be read from it:
\* frames are sent whole.
LEMMA WantedIsSent ==
    ASSUME CliInv, clisize # Nil
    PROVE  taken + want <= Len(stream)
<1>1. PICK c : c = Len(received) + 1
  OBVIOUS
<1>2. PICK size : size = SizeEncode(Len(sent[c]))
  OBVIOUS
<1>3. PICK b, m, l : b = Start(c) /\ m = Len(inbuf) /\ l = Len(size)
  OBVIOUS
<1>4. /\ ~(c > Len(sent)) /\ m + want = Len(sent[c]) /\ taken = b + l + m
  BY <1>1, <1>2, <1>3 DEF CliInv, PositionInv
<1>5. /\ Len(received) \in Nat /\ Len(sent) \in Nat /\ want \in Nat /\ m \in Nat /\ Len(stream) \in Nat
  BY <1>3 DEF CliInv, CliTypeOK
<1>6. c \in 1 .. Len(sent)
  BY <1>1, <1>4, <1>5
<1>7. b \in Nat /\ l \in Nat /\ Start(c + 1) = b + l + Len(sent[c]) /\ Len(sent[c]) \in Nat
  BY <1>2, <1>3, <1>6, FrameOnStream DEF CliInv
<1>8. Start(c + 1) <= Len(stream)
  BY <1>6 DEF CliInv, StreamInv
<1>9. PICK s : s = Len(sent[c])
  OBVIOUS
<1>10. m + want = s /\ b + l + s <= Len(stream) /\ s \in Nat
  BY <1>4, <1>7, <1>8, <1>9
<1> QED
  BY <1>4, <1>5, <1>7, <1>10

(* The inductive invariant of a connection.                                *)
THEOREM CliInvariance == CliSpec => []CliInv
<1>1. CliInit => CliInv
  BY CliInitInv
<1>2. CliInv /\ [CliNext]_cliVars => CliInv'
  BY CliNextInv
<1> QED
  BY <1>1, <1>2, PTL DEF CliSpec

(* The fields of a connection have their types: what is wanted is never    *)
(* negative, and nothing is handed over that was not sent.                 *)
THEOREM CliTypeCorrect == CliSpec => []CliTypeOK
<1>1. CliInv => CliTypeOK
  BY DEF CliInv
<1> QED
  BY <1>1, CliInvariance, PTL

(* Whatever the sizes and the pieces they arrive in, io_callback() reads   *)
(* the bytes of the message under way and no others.                       *)
THEOREM ReadingCorrect == CliSpec => []NothingSkipped
<1>1. CliInv => NothingSkipped
  <2> SUFFICES ASSUME CliInv, clisize # Nil
               PROVE  NothingSkipped
    BY DEF NothingSkipped
  <2>1. /\ Len(received) \in Nat /\ Len(received) + 1 \in 1 .. Len(sent)
        /\ Data(want) = sent[Len(received) + 1]
        /\ taken + want = Start(Len(received) + 2)
    BY WantedIsSent, DataIsMessage
  <2>2. Len(received) < Len(sent)
    <3>1. Len(sent) \in Nat
      BY DEF CliInv, CliTypeOK
    <3> QED
      BY <2>1, <3>1
  <2> QED
    BY <2>1, <2>2 DEF NothingSkipped, Data
<1> QED
  BY <1>1, CliInvariance, PTL

(* However many replies are queued and however little a write takes, the   *)
(* client gets their bytes in order, and the descriptor is polled for      *)
(* writing exactly while there are some left.                              *)
THEOREM RepliesCorrect == CliSpec => []RepliesExact
<1>1. CliInv => RepliesExact
  BY DEF CliInv
<1> QED
  BY <1>1, CliInvariance, PTL

(* A connection implements the channel: every step of io_callback() and    *)
(* of the client is one of the channel's, or none.                         *)
THEOREM ConnectionIsChannel == CliSpec => ImplementsChannel
<1>1. CliInit => Abstract!Init
  BY DEF CliInit, Abstract!Init
<1>2. CliInv /\ [CliNext]_cliVars => [Abstract!Next]_<<sent, received>>
  <2> SUFFICES ASSUME CliInv, [CliNext]_cliVars
               PROVE  Abstract!Next \/ UNCHANGED <<sent, received>>
    OBVIOUS
  <2>1. ASSUME NEW len \in Sizes, ClientSend(len)
        PROVE  Abstract!Next
    <3>1. PICK k : k = Len(sent) + 1
      OBVIOUS
    <3>2. sent' = Append(sent, Payload(k, len)) /\ received' = received
      BY <2>1, <3>1 DEF ClientSend, input
    <3>3. k \in 1 .. MaxMessages
      <4>1. Len(sent) \in Nat /\ Len(sent) < MaxMessages
        BY <2>1 DEF ClientSend, CliInv, CliTypeOK
      <4> QED
        BY <3>1, <4>1, CliAssumption
    <3>4. Payload(k, len) \in Message
      BY <3>3 DEF Message
    <3> QED
      BY <3>2, <3>4 DEF Abstract!Next, Abstract!Send
  <2>2. CASE ReadData
    BY <2>2, ReadDataInv DEF Abstract!Next, Abstract!Deliver
  <2>3. CASE ClientHangUp \/ ReadEnd \/ IoError \/ Writes \/ UNCHANGED cliVars
    BY <2>3 DEF ClientHangUp, ReadEnd, IoError, Writes, Write, Puts, cliVars, client, input
  <2>4. ASSUME NEW n \in Pieces, ReadPart(n)
        PROVE  UNCHANGED <<sent, received>>
    BY <2>4 DEF ReadPart, Reads, client
  <2>5. CASE ReadFirst \/ ReadSize
    BY <2>5 DEF ReadFirst, ReadSize, Reads, client
  <2>6. ASSUME NEW len \in ReplySizes, Send(len)
        PROVE  UNCHANGED <<sent, received>>
    BY <2>6 DEF Send, client, input
  <2>7. ASSUME NEW n \in 1 .. Room, ClientReads(n)
        PROVE  UNCHANGED <<sent, received>>
    BY <2>7 DEF ClientReads, client, input
  <2> QED
    BY <2>1, <2>2, <2>3, <2>4, <2>5, <2>6, <2>7 DEF CliNext, Read
<1> QED
  BY <1>1, <1>2, CliInvariance, PTL DEF CliSpec, ImplementsChannel, Abstract!Spec
=============================================================================
