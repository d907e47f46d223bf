------------------------------- MODULE RtpFile -------------------------------
(***************************************************************************)
(* The `.rtp' file format: what rtp.Writer puts into a file and what       *)
(* ReadHeader and ReadPacket find in it (internal/rtp/writer.go).          *)
(*                                                                         *)
(* A file is first a sequence of items, the header or a packet, and then   *)
(* the sequence of their fields, which is all a reader sees.  A packet is  *)
(* a number that stands for its timestamp and for each byte of its data.   *)
(***************************************************************************)
EXTENDS Integers, Sequences, SequencesExt

CONSTANTS
  PayloadLength,  \* the length of the data of each packet
  LengthBits      \* width of PacketRecord.Length

(* (The second conjunct follows from the first.)                            *)
ASSUME FormatAssumption ==
  /\ LengthBits \in Nat
  /\ 2^LengthBits \in Nat \ {0}
  /\ \A n \in DOMAIN PayloadLength : n \in Nat \ {0} /\ PayloadLength[n] \in Nat

-----------------------------------------------------------------------------
Header == 0
HeaderSize == 32
RecordSize == 10  \* eight bytes of timestamp and two of length

ItemBytes(item) == IF item = Header THEN HeaderSize ELSE RecordSize + PayloadLength[item]
Bytes(items) == FoldSeq(LAMBDA item, n : ItemBytes(item) + n, 0, items)

StoredLength(n) == PayloadLength[n] % 2^LengthBits
Oversize(n) == StoredLength(n) # PayloadLength[n]

Field(name, value) == [field |-> name, value |-> value]

(* Writer.writeHeader and the three writes of Writer.WritePacket: the       *)
(* length loses its upper bits, the data is written in full.                *)
Fields(item) ==
  IF item = Header THEN <<Field("header", 0)>>
  ELSE <<Field("timestamp", item), Field("length", StoredLength(item))>>
         \o [i \in 1..PayloadLength[item] |-> Field("data", item)]

File(items) == FlattenSeq([k \in DOMAIN items |-> Fields(items[k])])

-----------------------------------------------------------------------------
(* Reading                                                                  *)

Packet(timestamp, data) == [timestamp |-> timestamp, data |-> data]

(* What ReadPacket makes of bytes that are not a timestamp and a length: it *)
(* notices nothing, and what it returns from there on is arbitrary.         *)
Misread == Packet(-1, <<>>)

ReadHeader(file) == file # <<>> /\ file[1].field = "header"

(* The packets that successive calls of ReadPacket return from position p   *)
(* on, until the file ends, be it inside a packet.                          *)
ReadPackets(file) ==
  LET Read[p \in 1..Len(file) + 1] ==
        IF p + 1 > Len(file) THEN <<>>
        ELSE IF file[p].field # "timestamp" \/ file[p + 1].field # "length" THEN <<Misread>>
        ELSE LET next == p + 2 + file[p + 1].value
             IN  IF next > Len(file) + 1 THEN <<>>
                 ELSE <<Packet(file[p].value,
                               [i \in 1..file[p + 1].value |-> file[p + 1 + i].value])>>
                        \o Read[next]
  IN  IF file = <<>> THEN <<>> ELSE Read[2]

-----------------------------------------------------------------------------
(* What the format is for                                                   *)

(* The items other than the header, in order.                               *)
PacketsOf(items) ==
  LET packets[k \in 0..Len(items)] ==
        IF k = 0 THEN <<>>
        ELSE IF items[k] = Header THEN packets[k - 1]
        ELSE Append(packets[k - 1], items[k])
  IN  packets[Len(items)]

Written(n) == Packet(n, [i \in 1..PayloadLength[n] |-> n])

(* The packets before the first one that is too long are read as they were  *)
(* written, and nothing else is when none is too long.                      *)
ReadsBack(items) ==
  LET packets == PacketsOf(items)
      sound == CHOOSE k \in 0..Len(packets) :
                 /\ \A i \in 1..k : ~Oversize(packets[i])
                 /\ k < Len(packets) => Oversize(packets[k + 1])
      found == ReadPackets(File(items))
  IN  /\ sound <= Len(found)
      /\ \A i \in 1..sound : found[i] = Written(packets[i])
      /\ sound = Len(packets) => Len(found) = sound
==============================================================================
