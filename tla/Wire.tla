-------------------------------- MODULE Wire --------------------------------
(***************************************************************************)
(* The byte stream of one connection after another: how the worker frames  *)
(* a payload (src/src/proto.rs, write_record), hands the frame over in     *)
(* pieces, and how the other end finds the frames again, whatever the      *)
(* pieces it reads, and hangs up on what it does not accept.  The other    *)
(* end is handle of src/examples/mock_server.rs, which decodes and         *)
(* validates as the server does.  Module Client takes a frame as whole;    *)
(* this module is why it may.                                              *)
(*                                                                         *)
(* A byte is a digit of base Base, 256 in the code.                        *)
(***************************************************************************)
EXTENDS Integers, SequencesExt

CONSTANTS
  Base,                \* the values of a byte
  CmdBanner, CmdLog,   \* the two commands
  MaxPayload,          \* MAX_PAYLOAD_SIZE
  Prefix, AppName,     \* what the banner begins with, and the client's name
  Payloads,            \* what records serialise to
  ChunkSize,           \* the most one read returns
  MaxRecords,          \* bound on the records written in one behaviour
  MaxConnects          \* bound on the connections

Byte == 0 .. Base - 1

ASSUME BaseAssumption == Base \in Nat /\ Base > 1
ASSUME PayloadAssumption ==
  /\ MaxPayload \in Nat /\ MaxPayload < Base * Base * Base * Base
  /\ Payloads \subseteq Seq(Byte)
ASSUME BannerAssumption ==   \* the code does not test the banner's size
  /\ Prefix \in Seq(Byte) /\ AppName \in Seq(Byte)
  /\ Len(Prefix) + Len(AppName) <= MaxPayload
  /\ CmdBanner \in Byte /\ CmdLog \in Byte /\ CmdBanner # CmdLog
ASSUME BoundAssumption ==
  ChunkSize \in Nat /\ MaxRecords \in Nat /\ MaxConnects \in Nat

VARIABLES
  frame,     \* the worker's frame buffer, used again for each frame
  rest,      \* the part of it that write_all has not handed over yet
  link,      \* the connection: none, open or dropped
  pipe,      \* bytes handed over and not read yet
  buffer,    \* the reader's bytes
  offset,    \* how many of them it has decoded
  frames,    \* the frames it has found on this connection
  seen,      \* seen_banner
  refused,   \* whether it hung up on the client
  records,   \* records written so far, all connections together
  connects,  \* connections so far
  begun      \* history: the frames begun on this connection

sender == <<frame, rest, begun>>
reader == <<buffer, offset, frames, seen, refused>>
wireVars == <<sender, reader, link, pipe, records, connects>>

Init ==
  /\ frame = <<>> /\ rest = <<>> /\ link = "none" /\ pipe = <<>>
  /\ buffer = <<>> /\ offset = 0 /\ frames = <<>>
  /\ seen = FALSE /\ refused = FALSE
  /\ records = 0 /\ connects = 0 /\ begun = <<>>

-----------------------------------------------------------------------------
(* Frames.                                                                 *)

\* (n as u32).to_be_bytes()
LenBytes(n) ==
  LET q1 == n \div Base  q2 == q1 \div Base  q3 == q2 \div Base
  IN  <<q3 % Base, q2 % Base, q1 % Base, n % Base>>

\* mutant: does not clear the buffer it is given
EncodeAppending(out, command, payload) ==
  out \o <<command>> \o LenBytes(Len(payload)) \o payload

\* A whole frame, replacing what the buffer held.
Encode(out, command, payload) ==
  <<command>> \o LenBytes(Len(payload)) \o payload

\* u32::from_be_bytes of the length field of a frame that begins after the
\* first k bytes of b.
Declared(b, k) == ((b[k + 2] * Base + b[k + 3]) * Base + b[k + 4]) * Base + b[k + 5]

HasHeader(b, k) == Len(b) >= k + 5

Complete(b, k) == HasHeader(b, k) /\ Len(b) >= k + 5 + Declared(b, k)

FrameAt(b, k) ==
  [command |-> b[k + 1], payload |-> SubSeq(b, k + 6, k + 5 + Declared(b, k))]

-----------------------------------------------------------------------------
(* The worker.                                                             *)

\* banner_payload
Banner == Prefix \o AppName

Begin(command, payload) ==
  /\ frame' = Encode(frame, command, payload)
  /\ rest' = frame'
  /\ begun' = Append(IF command = CmdBanner THEN <<>> ELSE begun,
                     [command |-> command, payload |-> payload])

\* A new connection, with a reader of its own, and the banner first.
Connect ==
  /\ link # "open" /\ connects < MaxConnects
  /\ link' = "open" /\ connects' = connects + 1
  /\ pipe' = <<>> /\ buffer' = <<>> /\ offset' = 0 /\ frames' = <<>>
  /\ seen' = FALSE /\ refused' = FALSE
  /\ Begin(CmdBanner, Banner)
  /\ UNCHANGED records

\* mutant: sends whatever the record serialised to
FitsAlways(json) == TRUE
Fits(json) == Len(json) <= MaxPayload

\* write_record: an oversized payload is reported and never framed.
WriteRecord(json) ==
  /\ link = "open" /\ rest = <<>> /\ records < MaxRecords
  /\ records' = records + 1
  /\ \/ Fits(json) /\ Begin(CmdLog, json)
     \/ ~Fits(json) /\ UNCHANGED sender
  /\ UNCHANGED <<reader, link, pipe, connects>>

\* write_all gives the system the next n bytes.
HandOver(n) ==
  /\ link = "open" /\ n <= Len(rest)
  /\ pipe' = pipe \o SubSeq(rest, 1, n)
  /\ rest' = SubSeq(rest, n + 1, Len(rest))
  /\ UNCHANGED <<frame, begun, reader, link, records, connects>>

\* The connection breaks, inside a frame or not, and may take bytes with it
\* that were handed over.  A frame cut short is not among those written.
Break ==
  /\ link = "open" /\ link' = "dropped"
  /\ rest' = <<>>
  /\ begun' = IF rest = <<>> THEN begun ELSE Front(begun)
  /\ pipe' \in Prefixes(pipe)
  /\ UNCHANGED <<frame, reader, records, connects>>

-----------------------------------------------------------------------------
(* The other end: read, decode all there is, drain.                        *)

\* The header at the offset declares more than the server takes.
TooLong(k) == HasHeader(buffer, k) /\ Declared(buffer, k) > MaxPayload

Stalls(k) == ~refused /\ ~Complete(buffer, k) /\ ~TooLong(k)

Read(n) ==
  /\ offset = 0 /\ Stalls(0)
  /\ n <= Len(pipe)
  /\ buffer' = buffer \o SubSeq(pipe, 1, n)
  /\ pipe' = SubSeq(pipe, n + 1, Len(pipe))
  /\ UNCHANGED <<sender, offset, frames, seen, refused, link, records, connects>>

\* It hangs up on a length over the limit, before all of the frame has come, on
\* a second banner, and on one without the prefix.
DecodeFrame ==
  /\ ~refused
  /\ IF TooLong(offset)
     THEN refused' = TRUE /\ UNCHANGED <<frames, seen, offset>>
     ELSE LET next == FrameAt(buffer, offset)
              isBanner == next.command = CmdBanner
          IN  /\ Complete(buffer, offset)
              /\ frames' = Append(frames, next)
              /\ seen' = (seen \/ isBanner)
              /\ refused' = (isBanner /\ (seen \/ ~IsPrefix(Prefix, next.payload)))
              /\ offset' = offset + 5 + Declared(buffer, offset)
  /\ UNCHANGED <<sender, buffer, link, pipe, records, connects>>

\* mutant: keeps nothing of a frame that has only begun to arrive
DrainAll ==
  /\ offset > 0 /\ Stalls(offset)
  /\ buffer' = <<>>
  /\ offset' = 0
  /\ UNCHANGED <<sender, frames, seen, refused, link, pipe, records, connects>>

\* mutant: the offset outlives the loop that counted it
DrainKeepsOffset ==
  /\ offset > 0 /\ Stalls(offset)
  /\ buffer' = SubSeq(buffer, offset + 1, Len(buffer))
  /\ UNCHANGED <<sender, offset, frames, seen, refused, link, pipe, records, connects>>

Drain ==
  /\ offset > 0 /\ Stalls(offset)
  /\ buffer' = SubSeq(buffer, offset + 1, Len(buffer))
  /\ offset' = 0
  /\ UNCHANGED <<sender, frames, seen, refused, link, pipe, records, connects>>

Next ==
  \/ Connect \/ Break
  \/ \E json \in Payloads : WriteRecord(json)
  \/ \E n \in 1 .. Len(rest) : HandOver(n)
  \/ \E n \in 1 .. ChunkSize : Read(n)
  \/ DecodeFrame \/ Drain

WireSpec == Init /\ [][Next]_wireVars

-----------------------------------------------------------------------------
\* Bytes are bytes, and the reader is never past the end of what it has.
WireTypeOK ==
  /\ frame \in Seq(Byte) /\ rest \in Seq(Byte) /\ pipe \in Seq(Byte)
  /\ buffer \in Seq(Byte) /\ offset \in 0 .. Len(buffer)
  /\ seen \in BOOLEAN /\ refused \in BOOLEAN
  /\ link \in {"none", "open", "dropped"}
  /\ records \in 0 .. MaxRecords /\ connects \in 0 .. MaxConnects

\* The frames that were handed over to their last byte.
Whole == IF rest = <<>> THEN begun ELSE Front(begun)

\* The reader finds the very frames that were written, in their order, from
\* the banner on, and never one that was not written to its end: however the
\* bytes were split or run together, and wherever the connection broke.
Framed == IsPrefix(frames, Whole)

\* Where the connection held and all bytes were read, all frames were found:
\* none is waiting for bytes of the next.
AllFound ==
  link = "open" /\ rest = <<>> /\ pipe = <<>> /\ offset = 0 /\ ~Complete(buffer, 0)
    => frames = begun /\ buffer = <<>>

\* The server never hangs up, and so takes no entry down with a connection: no
\* frame is over the limit (proto.rs:33), a banner comes first, with its prefix
\* and once per connection (client.rs:400), and every command is one of the
\* two, whatever the breaks and however often the worker connected before.
NeverRefused ==
  /\ ~refused
  /\ \A k \in DOMAIN frames :
       frames[k].command = IF k = 1 THEN CmdBanner ELSE CmdLog
=============================================================================
