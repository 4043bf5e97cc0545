--------------------------------- MODULE Wire ---------------------------------
(***************************************************************************)
(* The way of a packet: TLV fields and packet header are encoded, the      *)
(* bytes wait in the sender's output Buffer, reach the socket and the peer *)
(* in pieces of any size, and the peer's FrameDecoder cuts them into       *)
(* packets whose body is parsed into fields again.                         *)
(*                                                                         *)
(* Every fixed-width number is one unit, so a packet header is <<magic,    *)
(* body length>> and a TLV header is <<type, value length>>; what          *)
(* distinguishes good from bad magic, version and flags is the magic, and  *)
(* message type and sequence number travel with the body.                  *)
(***************************************************************************)
EXTENDS Integers, Sequences

CONSTANTS
    Magic,          \* kPacketMagic
    MaxBody,        \* kMaxPacketBodyLength
    MaxValue,       \* kMaxTlvValueLength
    InitialSize,    \* size of a new output buffer
    Bodies,         \* bound: the lists of fields that are sent
    MaxPackets      \* bound: packets sent

ASSUME WireAssumption ==
    /\ Magic \in Nat /\ MaxBody \in Nat /\ MaxValue \in Nat /\ MaxPackets \in Nat
    /\ InitialSize \in Nat \ {0}
    /\ Bodies \subseteq Seq([type : Nat, value : Seq(Nat)])

VARIABLES
    buffer,     \* Buffer: its storage, read_index_ and write_index_
    network,    \* bytes written and not yet read
    decoder,    \* FrameDecoder: buffer_ and error_
    closed,     \* the reader has closed the connection
    sent,       \* history: what was sent, a bad header among it
    received    \* history: what the reader's handlers got

wireVars == <<buffer, network, decoder, closed, sent, received>>

HeaderSize == 2
Types == UNION {{body[i].type : i \in DOMAIN body} : body \in Bodies}

-----------------------------------------------------------------------------
\* appendString, appendUint64: refused when the value is too long.
EncodeField(f) == <<f.type, Len(f.value)>> \o f.value
EncodeFields(fields) ==
    LET output[i \in 0..Len(fields)] ==
            IF i = 0 THEN <<>> ELSE output[i - 1] \o EncodeField(fields[i])
    IN  output[Len(fields)]
Encodable(fields) ==
    /\ \A i \in DOMAIN fields : Len(fields[i].value) <= MaxValue
    /\ Len(EncodeFields(fields)) <= MaxBody

\* encodePacket.
EncodePacket(body) == <<Magic, Len(body)>> \o body

\* parseHeader and validateHeader.
ValidHeader(header) == header[1] = Magic /\ header[2] <= MaxBody

\* The map of a body: the values of each type, in their order.
NoFields == [t \in Types |-> <<>>]
ByType(fields) ==
    LET from[i \in 0..Len(fields)] ==
            IF i = Len(fields) THEN NoFields
            ELSE [from[i + 1] EXCEPT ![fields[i + 1].type] = <<fields[i + 1].value>> \o @]
    IN  from[0]

\* parseTlvMap, from the offset i on.
ParseTlvMap(body) ==
    LET parse[i \in 0..Len(body)] ==
            IF i = Len(body) THEN [ok |-> TRUE, fields |-> NoFields]
            ELSE IF Len(body) - i < HeaderSize \/ body[i + 2] > MaxValue
                    \/ body[i + 2] > Len(body) - i - HeaderSize
              THEN [ok |-> FALSE, fields |-> NoFields]
            ELSE LET end   == i + HeaderSize + body[i + 2]
                     value == SubSeq(body, i + HeaderSize + 1, end)
                 IN  [parse[end] EXCEPT !.fields[body[i + 1]] = <<value>> \o @]
    IN  parse[0]

-----------------------------------------------------------------------------
Readable(b) == SubSeq(b.bytes, b.read + 1, b.write)
Writable(b) == Len(b.bytes) - b.write

\* ensureWritableBytes: move the unread bytes to the front if that makes
\* room, else grow the storage.
Compacted(b) ==
    [bytes |-> Readable(b) \o SubSeq(b.bytes, b.write - b.read + 1, Len(b.bytes)),
     read |-> 0, write |-> b.write - b.read]
EnsureWritableBytes(b, len) ==
    IF Writable(b) >= len THEN b
    ELSE IF b.read + Writable(b) >= len THEN Compacted(b)
    ELSE LET c == Compacted(b)
         IN  [c EXCEPT !.bytes = SubSeq(@, 1, c.write) \o [i \in 1..len |-> 0]]

\* Buffer::append copies behind write_index_.
BufferAppend(b, data) ==
    LET c == EnsureWritableBytes(b, Len(data))
    IN  [c EXCEPT !.write = @ + Len(data),
                  !.bytes = [i \in DOMAIN @ |-> IF i - c.write \in DOMAIN data
                                                  THEN data[i - c.write] ELSE @[i]]]

\* Buffer::retrieve: the indices go back to the start once all is read.
BufferRetrieve(b, len) ==
    IF len = b.write - b.read THEN [b EXCEPT !.read = 0, !.write = 0]
    ELSE [b EXCEPT !.read = @ + len]

-----------------------------------------------------------------------------
\* Variant: the loop below with an off-by-one in its second length test.
ScanLate(bytes) ==
    LET scan[i \in 0..Len(bytes)] ==
            IF Len(bytes) - i < HeaderSize
              THEN [packets |-> <<>>, next |-> i, bad |-> FALSE]
            ELSE IF ~ValidHeader(SubSeq(bytes, i + 1, i + HeaderSize))
              THEN [packets |-> <<>>, next |-> i, bad |-> TRUE]
            ELSE LET end == i + HeaderSize + bytes[i + 2]
                 IN  IF Len(bytes) <= end
                       THEN [packets |-> <<>>, next |-> i, bad |-> FALSE]
                     ELSE [scan[end] EXCEPT !.packets = <<SubSeq(bytes, i + HeaderSize + 1, end)>> \o @]
    IN  scan[0]

\* The loop of FrameDecoder::feed over the bytes, from read_index i on.
Scan(bytes) ==
    LET scan[i \in 0..Len(bytes)] ==
            IF Len(bytes) - i < HeaderSize
              THEN [packets |-> <<>>, next |-> i, bad |-> FALSE]
            ELSE IF ~ValidHeader(SubSeq(bytes, i + 1, i + HeaderSize))
              THEN [packets |-> <<>>, next |-> i, bad |-> TRUE]
            ELSE LET end == i + HeaderSize + bytes[i + 2]
                 IN  IF Len(bytes) < end
                       THEN [packets |-> <<>>, next |-> i, bad |-> FALSE]
                     ELSE [scan[end] EXCEPT !.packets = <<SubSeq(bytes, i + HeaderSize + 1, end)>> \o @]
    IN  scan[0]

-----------------------------------------------------------------------------
WireInit ==
    /\ buffer = [bytes |-> [i \in 1..InitialSize |-> 0], read |-> 0, write |-> 0]
    /\ network = <<>>
    /\ decoder = [bytes |-> <<>>, error |-> FALSE]
    /\ closed = FALSE
    /\ sent = <<>> /\ received = <<>>

\* sendEncodedInLoop: the encoded packet goes into the output buffer.
SendFields(fields) ==
    /\ Len(sent) < MaxPackets
    /\ Encodable(fields)
    /\ buffer' = BufferAppend(buffer, EncodePacket(EncodeFields(fields)))
    /\ sent' = Append(sent, [ok |-> TRUE, fields |-> ByType(fields)])
    /\ UNCHANGED <<network, decoder, closed, received>>

\* A sender of another protocol version: a header that does not validate.
SendBadHeader ==
    /\ Len(sent) < MaxPackets
    /\ \E header \in {<<Magic + 1, 0>>, <<Magic, MaxBody + 1>>} :
          buffer' = BufferAppend(buffer, header)
    /\ sent' = Append(sent, [ok |-> FALSE, fields |-> NoFields])
    /\ UNCHANGED <<network, decoder, closed, received>>

\* handleWrite: the socket takes some of the readable bytes.
WriteSome ==
    /\ \E n \in 1..Len(Readable(buffer)) :
          /\ network' = network \o SubSeq(Readable(buffer), 1, n)
          /\ buffer' = BufferRetrieve(buffer, n)
    /\ UNCHANGED <<decoder, closed, sent, received>>

\* handleRead: the bytes read go through feed.  A bad header closes the
\* connection and loses the packets of the same read; otherwise the packets
\* are handled in order, each parsed by the router.
ReadSome ==
    /\ ~closed
    /\ \E n \in 1..Len(network) :
          LET bytes == decoder.bytes \o SubSeq(network, 1, n)
              scan  == Scan(bytes)
          IN  /\ network' = SubSeq(network, n + 1, Len(network))
              /\ decoder' = [bytes |-> SubSeq(bytes, scan.next + 1, Len(bytes)), error |-> scan.bad]
              /\ closed' = scan.bad
              /\ received' = IF scan.bad THEN received
                             ELSE received \o [i \in DOMAIN scan.packets |-> ParseTlvMap(scan.packets[i])]
    /\ UNCHANGED <<buffer, sent>>

WireNext ==
    \/ \E fields \in Bodies : SendFields(fields)
    \/ SendBadHeader \/ WriteSome \/ ReadSome

WireSpec == WireInit /\ [][WireNext]_wireVars

\* However the stream is cut by partial writes and short reads, and however
\* the output buffer was compacted or grown meanwhile, the handlers get exactly
\* the fields that were sent, in order: all of them once nothing is under way,
\* and nothing at or after a header that does not validate.
ReceivedIsSent ==
    /\ Len(received) <= Len(sent) /\ received = SubSeq(sent, 1, Len(received))
    /\ \A i \in DOMAIN received : received[i].ok
    /\ (~closed /\ network = <<>> /\ Readable(buffer) = <<>>) => received = sent

=============================================================================
