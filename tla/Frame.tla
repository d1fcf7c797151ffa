------------------------------- MODULE Frame -------------------------------
(***************************************************************************)
(* include/asionet/Frame.h, Utils.h and ConstBuffer.h: a message travels   *)
(* as a frame, four bytes with the number of its bytes, most significant   *)
(* first, and then the bytes themselves.  A byte is a number below         *)
(* ByteRange, 256 in the code; small instances have smaller bytes and keep *)
(* the four of them.  A buffer is the sequence of the bytes in it.         *)
(***************************************************************************)
EXTENDS Integers, Sequences

CONSTANT ByteRange  \* values of a std::uint8_t

ASSUME ByteRangeAssumption == ByteRange \in Nat \ {0, 1}

Byte == 0 .. ByteRange - 1

(* Frame::HEADER_SIZE                                                      *)
HeaderSize == 4

(* The values of a std::uint32_t are those below HeaderLimit.              *)
HeaderLimit == ByteRange * (ByteRange * (ByteRange * ByteRange))

(* Defect: the bytes of the header in the machine's order.                 *)
ToLittleEndian(n) ==
    << n % ByteRange,
       (n \div ByteRange) % ByteRange,
       ((n \div ByteRange) \div ByteRange) % ByteRange,
       (((n \div ByteRange) \div ByteRange) \div ByteRange) % ByteRange >>

(* toBigEndian<4>: shift right by three, two, one and no bytes, and mask.  *)
ToBigEndian(n) ==
    << (((n \div ByteRange) \div ByteRange) \div ByteRange) % ByteRange,
       ((n \div ByteRange) \div ByteRange) % ByteRange,
       (n \div ByteRange) % ByteRange,
       n % ByteRange >>

(* fromBigEndian<4> of the first four bytes.                               *)
FromBigEndian(bytes) ==
    bytes[4] + ByteRange *
        (bytes[3] + ByteRange * (bytes[2] + ByteRange * bytes[1]))

(* The constructor of Frame takes the size of the data as a 32 bit number. *)
NumDataBytes(message) == Len(message) % HeaderLimit

(* Frame::getBuffers: the header and that many bytes of the data.          *)
FrameOf(message) ==
    ToBigEndian(NumDataBytes(message))
        \o SubSeq(message, 1, NumDataBytes(message))

(* Defect: the offset is not added.                                        *)
ViewFromFront(buffer, numBytes, offset) == SubSeq(buffer, 1, numBytes)

(* ConstStreamBuffer, ConstVectorBuffer: numBytes bytes after offset.      *)
View(buffer, numBytes, offset) == SubSeq(buffer, offset + 1, offset + numBytes)

(* numDataBytesFromBuffer of Socket.h: whether what was received of a      *)
(* datagram holds a header and all the bytes that the header announces.    *)
ValidDatagram(received) ==
    /\ Len(received) >= HeaderSize
    /\ Len(received) >= HeaderSize + FromBigEndian(received)
=============================================================================
