----------------------------- MODULE CliStream ------------------------------
(***************************************************************************)
(* One connection of the CLI server (lib/cli.lua): the state machine of    *)
(* io_callback() that cuts the byte stream of the client into messages,    *)
(* and the queue of replies that it writes in pieces.                      *)
(*                                                                         *)
(* A byte is a pair: <<0, b>> is byte b of a size, <<i, j>> byte j of      *)
(* message i.  inbuf is the concatenation of the chunks in the Lua table   *)
(* of that name, and the template is told by the bytes read since, so only *)
(* whether it is set matters.  A callback that is ready both ways is a     *)
(* write step followed by a read step: nothing else of the daemon runs     *)
(* between them.  The descriptor blocks: a write() for which the socket    *)
(* has too little room waits until the client has read, and the daemon     *)
(* with it.                                                                *)
(***************************************************************************)
EXTENDS SizeCodec

CONSTANTS
    Sizes,          \* lengths of the client's messages
    Pieces,         \* how much a read may return, besides all it asked for
    ReplySizes,     \* lengths of the replies
    MaxMessages,    \* bound on the messages of the client
    MaxReplies,     \* bound on the replies
    Room,           \* bytes the socket holds until the client reads them
    Nil

\* string.pack() refuses a length of 2^32 and more.
Packable(len) == len \in Nat /\ len \div 16777216 < 256

ASSUME CliAssumption ==
    /\ \A len \in Sizes \cup ReplySizes : Packable(len)
    /\ Pieces \subseteq Nat
    /\ MaxMessages \in Nat /\ MaxReplies \in Nat /\ Room \in Nat
    /\ Nil \notin Nat

VARIABLES
    sent, received,     \* messages of the client, messages handed to the CLI
    stream, starts,     \* bytes of the client, and how many precede a message
    taken,              \* how many of its bytes were read
    hup,                \* the client has closed its end
    open,               \* the daemon has the descriptor, and polls it
    want, template, clisize, inbuf,     \* fields of fdt, for reading
    replies, queued,    \* calls of send() so far, and the bytes they queued
    outbuf, armed,      \* fdt.outbuf and fdt.events.OUT
    writing,            \* the daemon waits in write() for room
    outwire, unread     \* bytes written to the client, and how many it has not read

client  == <<sent, stream, starts, hup>>
input   == <<received, taken, want, template, clisize, inbuf>>
output  == <<replies, queued, outbuf, armed, writing, outwire, unread>>
cliVars == <<client, open, input, output>>

\* The bytes of the i-th message of a direction, and its frame.
Payload(i, len) == [j \in 1 .. len |-> <<i, j>>]
Frame(i, len)   == [j \in 1 .. Len(SizeEncode(len)) |-> <<0, SizeEncode(len)[j]>>] \o Payload(i, len)

Message == {Payload(i, len) : i \in 1 .. MaxMessages, len \in Sizes}

Octet == Nat \X Nat

(* The fields of the connection have their types, and no more messages are *)
(* handed over than were sent.                                             *)
CliTypeOK ==
    /\ sent \in Seq(Seq(Octet)) /\ Len(sent) <= MaxMessages
    /\ received \in Seq(Seq(Octet)) /\ Len(received) <= Len(sent)
    /\ stream \in Seq(Octet) /\ starts \in Seq(Nat) /\ taken \in 0 .. Len(stream)
    /\ hup \in BOOLEAN /\ open \in BOOLEAN /\ armed \in BOOLEAN /\ template \in BOOLEAN
    /\ want \in Nat /\ clisize \in Nat \cup {Nil} /\ inbuf \in Seq(Octet)
    /\ replies \in 0 .. MaxReplies /\ queued \in Seq(Octet)
    /\ outbuf \in Seq(Seq(Octet)) /\ outwire \in Seq(Octet)
    /\ writing \in BOOLEAN /\ unread \in 0 .. Room

\* cli_accept(): the fields of a new connection.
CliInit ==
    /\ sent = <<>> /\ stream = <<>> /\ starts = <<>>
    /\ hup = FALSE /\ open = TRUE
    /\ received = <<>> /\ taken = 0
    /\ want = 1 /\ template = FALSE /\ clisize = Nil /\ inbuf = <<>>
    /\ replies = 0 /\ queued = <<>> /\ outbuf = <<>> /\ armed = FALSE
    /\ writing = FALSE /\ outwire = <<>> /\ unread = 0

-----------------------------------------------------------------------------
(* The client, external: it sends whole frames, which arrive in any        *)
(* pieces, reads when it likes, and may hang up.                           *)

ClientSend(len) ==
    /\ ~hup /\ Len(sent) < MaxMessages
    /\ sent' = Append(sent, Payload(Len(sent) + 1, len))
    /\ stream' = stream \o Frame(Len(sent) + 1, len)
    /\ starts' = Append(starts, Len(stream))
    /\ UNCHANGED <<hup, open, input, output>>

ClientHangUp ==
    /\ ~hup
    /\ hup' = TRUE
    /\ UNCHANGED <<sent, stream, starts, open, input, output>>

ClientReads(n) ==
    /\ ~hup /\ n \in 1 .. unread
    /\ unread' = unread - n
    /\ UNCHANGED <<client, open, input, replies, queued, outbuf, armed, writing, outwire>>

-----------------------------------------------------------------------------
(* The IN part of io_callback().  It reads nothing when it wants nothing,  *)
(* else at most what it wants.                                             *)

Readable == open /\ (taken < Len(stream) \/ hup)

Reads(n) ==
    /\ Readable /\ ~writing
    /\ IF want = 0 THEN n = 0 ELSE n \in 1 .. Len(stream) - taken /\ n <= want
    /\ taken' = taken + n
    /\ UNCHANGED <<client, open, output>>

Data(n) == inbuf \o SubSeq(stream, taken + 1, taken + n)

First(n) == SizeDecode(Data(n)[1][2])

\* Mutant: all that is buffered is taken off what is wanted.
ReadPartTotal(n) ==
    /\ n < want
    /\ Reads(n)
    /\ want' = want - Len(Data(n))
    /\ inbuf' = Data(n)
    /\ UNCHANGED <<received, template, clisize>>

ReadPart(n) ==
    /\ n < want
    /\ Reads(n)
    /\ want' = want - n
    /\ inbuf' = Data(n)
    /\ UNCHANGED <<received, template, clisize>>

\* The first byte of a size of several bytes.
ReadFirst ==
    /\ ~template
    /\ Reads(want)
    /\ First(want).want > 0
    /\ template' = TRUE
    /\ want' = First(want).want
    /\ inbuf' = <<<<0, First(want).byte>>>>
    /\ UNCHANGED <<received, clisize>>

\* The last byte of a size: the only one, or the last one wanted.
ReadSize ==
    /\ clisize = Nil
    /\ Reads(want)
    /\ ~template => First(want).want = 0
    /\ template' = TRUE
    /\ clisize' = Unpack([j \in 1 .. Len(Data(want)) |-> Data(want)[j][2]])
    /\ want' = clisize'
    /\ inbuf' = <<>>
    /\ UNCHANGED received

\* Mutant: the template of the last message is kept.
ReadDataKeeps ==
    /\ clisize # Nil
    /\ Reads(want)
    /\ received' = Append(received, Data(want))
    /\ clisize' = Nil
    /\ want' = 1
    /\ inbuf' = <<>>
    /\ UNCHANGED template

ReadData ==
    /\ clisize # Nil
    /\ Reads(want)
    /\ received' = Append(received, Data(want))
    /\ template' = FALSE
    /\ clisize' = Nil
    /\ want' = 1
    /\ inbuf' = <<>>

\* End of the stream: nothing to read and something wanted.
ReadEnd ==
    /\ open /\ ~writing /\ hup /\ taken = Len(stream) /\ want > 0
    /\ open' = FALSE
    /\ UNCHANGED <<client, input, output>>

Read ==
    \/ \E n \in Pieces : ReadPart(n)
    \/ ReadFirst
    \/ ReadSize
    \/ ReadData
    \/ ReadEnd

-----------------------------------------------------------------------------
(* send(), and the OUT part of io_callback().                              *)

Send(len) ==
    /\ open /\ ~writing /\ replies < MaxReplies
    /\ replies' = replies + 1
    /\ queued' = queued \o Frame(replies + 1, len)
    /\ outbuf' = Append(outbuf, Frame(replies + 1, len))
    /\ armed' = TRUE
    /\ UNCHANGED <<client, open, input, writing, outwire, unread>>

\* n bytes of the first chunk go out.
Puts(n) ==
    /\ open /\ armed
    /\ n \in 1 .. Len(outbuf[1]) /\ unread + n <= Room
    /\ outwire' = outwire \o SubSeq(outbuf[1], 1, n)
    /\ unread' = unread + n
    /\ UNCHANGED <<client, open, input, replies, queued>>

\* Mutant: the chunk is dropped after a write that took only part of it.
WriteDrops(n) ==
    /\ Puts(n)
    /\ outbuf' = Tail(outbuf)
    /\ armed' = (Len(outbuf) > 1)
    /\ writing' = FALSE

\* Mutant: the descriptor is disarmed after the first chunk.
WriteDisarms(n) ==
    /\ Puts(n)
    /\ IF n = Len(outbuf[1])
         THEN outbuf' = Tail(outbuf) /\ armed' = FALSE /\ writing' = FALSE
         ELSE /\ outbuf' = [outbuf EXCEPT ![1] = SubSeq(@, n + 1, Len(@))] /\ armed' = TRUE
              /\ writing' \in BOOLEAN

\* A write() that has not taken the whole chunk waits for room, or returns
\* early because a signal came.
Write(n) ==
    /\ Puts(n)
    /\ IF n = Len(outbuf[1])
         THEN outbuf' = Tail(outbuf) /\ armed' = (Len(outbuf) > 1) /\ writing' = FALSE
         ELSE /\ outbuf' = [outbuf EXCEPT ![1] = SubSeq(@, n + 1, Len(@))] /\ armed' = TRUE
              /\ writing' \in BOOLEAN

Writes == outbuf # <<>> /\ \E n \in 1 .. Len(outbuf[1]) : Write(n)

\* Once the client is gone a read may fail and close the connection, and a
\* write raises SIGPIPE, which nothing ignores: the daemon ends, and the
\* connection with it.
IoError ==
    /\ open /\ hup
    /\ open' = FALSE
    /\ UNCHANGED <<client, input, output>>

CliNext ==
    \/ \E len \in Sizes : ClientSend(len)
    \/ ClientHangUp
    \/ \E n \in 1 .. Room : ClientReads(n)
    \/ Read
    \/ \E len \in ReplySizes : Send(len)
    \/ Writes
    \/ IoError

CliSpec == CliInit /\ [][CliNext]_cliVars

\* poll() calls back every descriptor that is ready, in each turn.
CliFairSpec ==
    /\ CliSpec
    /\ WF_cliVars(Read)
    /\ WF_cliVars(Writes)

-----------------------------------------------------------------------------
(* Properties.                                                             *)

Abstract == INSTANCE Channel WITH Message <- Message, sent <- sent, received <- received

(* Whatever the pieces the bytes arrive in, io_callback() hands over the   *)
(* messages of the client whole, once and in order: the connection         *)
(* implements the channel.                                                 *)
ImplementsChannel == Abstract!Spec

\* Where message i begins on the stream.
Start(i) == IF i <= Len(sent) THEN starts[i] ELSE Len(stream)

(* While the bytes of a message are read, what is buffered and what is     *)
(* still wanted are that message, all of it, and the size of the next one  *)
(* comes right after: no byte of the stream is skipped or read twice.      *)
NothingSkipped ==
    clisize # Nil =>
        /\ Len(received) < Len(sent)
        /\ inbuf \o SubSeq(stream, taken + 1, taken + want) = sent[Len(received) + 1]
        /\ taken + want = Start(Len(received) + 2)

\* The chunks, one after the other, are what bytes holds after the first from.
Laid(chunks, bytes, from) ==
    \E p \in [1 .. Len(chunks) + 1 -> 0 .. Len(bytes)] :
        /\ p[1] = from /\ p[Len(chunks) + 1] = Len(bytes)
        /\ \A i \in 1 .. Len(chunks) :
            /\ p[i + 1] = p[i] + Len(chunks[i])
            /\ \A j \in 1 .. Len(chunks[i]) : chunks[i][j] = bytes[p[i] + j]

(* What was written and what is queued are the replies in order, no byte   *)
(* lost or repeated by a write that took only part of a chunk, and the     *)
(* descriptor is polled for writing exactly while something is queued.     *)
RepliesExact ==
    /\ outwire = SubSeq(queued, 1, Len(outwire))
    /\ Laid(outbuf, queued, Len(outwire))
    /\ armed <=> outbuf # <<>>

(* Every message is handed over, an empty one once something follows it    *)
(* (nothing else makes the descriptor readable), unless the connection     *)
(* ends or the daemon waits for ever in write() for the client to read.    *)
MessageArrives ==
    \A i \in 1 .. MaxMessages :
        (Len(sent) >= i /\ (Len(sent[i]) > 0 \/ Len(sent) > i \/ hup))
            ~> (Len(received) >= i \/ ~open \/ []writing)

(* Every reply queued is written in full, unless the connection ends or    *)
(* the client leaves the socket full for ever.                             *)
RepliesLeave == (outbuf # <<>>) ~> (outbuf = <<>> \/ ~open \/ [](unread = Room))

-----------------------------------------------------------------------------
(* The inductive invariant behind the safety properties.                   *)

\* The frames of the messages, one after the other, are the stream.
StreamInv ==
    /\ Len(starts) = Len(sent) /\ Start(1) = 0
    /\ \A i \in 1 .. Len(sent) :
        LET len == Len(sent[i])
        IN  /\ len \in Sizes /\ sent[i] = Payload(i, len)
            /\ Start(i + 1) = Start(i) + Len(Frame(i, len)) /\ Start(i + 1) <= Len(stream)
            /\ \A j \in 1 .. Len(Frame(i, len)) : stream[Start(i) + j] = Frame(i, len)[j]

\* Where io_callback() is in the frame of the message under way: before it,
\* in its size, or in its bytes.
PositionInv ==
    LET c    == Len(received) + 1
        size == SizeEncode(Len(sent[c]))
    IN  /\ c > Len(sent) => ~template
        /\ ~template => clisize = Nil /\ inbuf = <<>> /\ want = 1 /\ taken = Start(c)
        /\ template /\ clisize = Nil =>
            /\ Len(inbuf) > 0 /\ want > 0 /\ Len(inbuf) + want = Len(size)
            /\ taken = Start(c) + Len(inbuf)
            /\ \A j \in 1 .. Len(inbuf) :
                  inbuf[j] = <<0, IF j = 1 THEN SizeDecode(size[1]).byte ELSE size[j]>>
        /\ template /\ clisize # Nil =>
            /\ clisize = Len(sent[c]) /\ Len(inbuf) + want = clisize
            /\ taken = Start(c) + Len(size) + Len(inbuf)
            /\ \A j \in 1 .. Len(inbuf) : inbuf[j] = <<c, j>>
        /\ clisize # Nil => template

CliInv ==
    /\ CliTypeOK
    /\ StreamInv
    /\ received = SubSeq(sent, 1, Len(received))
    /\ PositionInv
    /\ RepliesExact
=============================================================================
