----------------------------- MODULE SizeCodec ------------------------------
(***************************************************************************)
(* size_encode() and size_decode() of lib/cli.lua: the length of a message *)
(* in one to five bytes, the number of bytes told by the top bits of the   *)
(* first.  string.pack and string.unpack are big endian.                   *)
(***************************************************************************)
EXTENDS Naturals, Sequences

Byte == 0 .. 255

\* Mutant: the first boundary is one too high.
SizeEncodeOffByOne(len) ==
    IF len <= 128 THEN <<len>> ELSE <<128 + len \div 256, len % 256>>

\* Bits or-ed to the length are bits of its first byte, which is below them.
SizeEncode(len) ==
    IF len < 128 THEN <<len>>
    ELSE IF len < 16384 THEN <<128 + len \div 256, len % 256>>
    ELSE IF len < 2097152 THEN
        <<192 + len \div 65536, (len \div 256) % 256, len % 256>>
    ELSE IF len < 268435456 THEN
        <<224 + len \div 16777216, (len \div 65536) % 256, (len \div 256) % 256, len % 256>>
    ELSE
        <<240, (len \div 16777216) % 256, (len \div 65536) % 256, (len \div 256) % 256, len % 256>>

\* How many bytes are still needed, and the first byte without its tag.  For
\* a byte above 247, which no encoder writes, nothing is returned; the
\* comparison in lib/cli.lua:137 then raises an error (see MainLoop).
SizeDecode(byte) ==
    IF byte < 128 THEN [want |-> 0, byte |-> byte]
    ELSE IF byte < 192 THEN [want |-> 1, byte |-> byte - 128]
    ELSE IF byte < 224 THEN [want |-> 2, byte |-> byte - 192]
    ELSE IF byte < 240 THEN [want |-> 3, byte |-> byte - 224]
    ELSE IF byte < 248 THEN [want |-> 4, byte |-> 0]
    ELSE [want |-> "nil", byte |-> "nil"]

\* string.unpack with the template of as many bytes.
Unpack(s) ==
    IF Len(s) = 1 THEN s[1]
    ELSE IF Len(s) = 2 THEN s[1] * 256 + s[2]
    ELSE IF Len(s) = 3 THEN (s[1] * 256 + s[2]) * 256 + s[3]
    ELSE IF Len(s) = 4 THEN ((s[1] * 256 + s[2]) * 256 + s[3]) * 256 + s[4]
    ELSE (((s[1] * 256 + s[2]) * 256 + s[3]) * 256 + s[4]) * 256 + s[5]
=============================================================================
