------------------------------- MODULE Stream -------------------------------
(***************************************************************************)
(* include/asionet/Stream.h: asyncWrite at one end of a connection and     *)
(* asyncRead at the other, byte by byte.  A read is two timed operations   *)
(* on one streambuf, for the header of a frame and for its data; the frame *)
(* is consumed from the streambuf only after the user's handler returned.  *)
(*                                                                         *)
(* TCP keeps the order of the bytes and cuts them anywhere.  A timeout, or *)
(* the owner, closes either end at any time (module TimedOperation has the *)
(* steps of that); a closed end stands for a broken connection, too.  One  *)
(* write and one read are begun at a time, as asio demands, and a user who *)
(* got an error does not go on.                                            *)
(*                                                                         *)
(* async_read stops early when the streambuf, which never holds more than  *)
(* Capacity bytes, is full: it then completes without an error.            *)
(***************************************************************************)
EXTENDS Frame, FiniteSets, SequencesExt

CONSTANTS
    Messages,        \* what the writer sends
    MaxSent,         \* bound: messages written
    MaxMessageSize,  \* maxMessageSize of ServiceClient and ServiceServer
    Nested           \* TRUE: a read may complete before the handler of the
                     \* read before it has returned, as it may with two
                     \* workers or when that handler awaits

(* Sizes that do not fit the header are cut by Frame's constructor; no     *)
(* caller of it looks, so that they fit is up to the user.                 *)
ASSUME StreamAssumption ==
    /\ Messages \subseteq Seq(Byte)
    /\ \A m \in Messages : Len(m) < HeaderLimit
    /\ MaxSent \in Nat /\ MaxMessageSize \in Nat
    /\ Nested \in BOOLEAN

VARIABLES
    sent,           \* messages given to asyncWrite
    writer,         \* the writing end: idle, writing, failed
    writing,        \* bytes of the frame not yet handed to the system
    writerOpen,     \* is_open() at the writing end
    wire,           \* bytes on their way
    readerOpen,     \* is_open() at the reading end
    buffer,         \* the streambuf
    reader,         \* the reading end: idle, header, data, failed
    goal,           \* bytes that the running async_read wants
    transferred,    \* bytes that it has got
    full,           \* it met a full streambuf
    late,           \* bytes to consume when the running handler has returned
    result,         \* error of the last read
    delivered       \* messages handed to the user's handler

writerVars == <<sent, writer, writing, writerOpen>>
readerVars ==
    <<readerOpen, buffer, reader, goal, transferred, full, late, result, delivered>>
streamVars == <<writerVars, wire, readerVars>>

(* The streambuf of ServiceClient and ServiceServer.                       *)
Capacity == MaxMessageSize + HeaderSize

StreamInit ==
    /\ sent = <<>> /\ delivered = <<>>
    /\ writer = "idle" /\ reader = "idle"
    /\ writing = <<>> /\ wire = <<>> /\ buffer = <<>>
    /\ writerOpen = TRUE /\ readerOpen = TRUE
    /\ goal = 0 /\ transferred = 0 /\ late = 0
    /\ full = FALSE
    /\ result = "none"

-----------------------------------------------------------------------------
(* The writing end.                                                        *)

(* asyncWrite: the frame shares the data, async_write is initiated.        *)
AsyncWrite(m) ==
    /\ writer = "idle" /\ Len(sent) < MaxSent
    /\ sent' = Append(sent, m)
    /\ writer' = "writing"
    /\ writing' = FrameOf(m)
    /\ UNCHANGED <<writerOpen, wire, readerVars>>

(* The system takes a byte of the frame.                                   *)
HandOver ==
    /\ writer = "writing" /\ writing # <<>>
    /\ writerOpen /\ readerOpen
    /\ wire' = Append(wire, Head(writing))
    /\ writing' = Tail(writing)
    /\ UNCHANGED <<sent, writer, writerOpen, readerVars>>

(* The handler of asyncWrite: a frame that is not transferred completely   *)
(* is a failed operation, one that is may still be aborted.                *)
WriteHandler ==
    /\ writer = "writing"
    /\ \/ writing = <<>>
       \/ ~writerOpen \/ ~readerOpen
    /\ writer' = IF writing = <<>> /\ writerOpen THEN "idle" ELSE "failed"
    /\ UNCHANGED <<sent, writing, writerOpen, wire, readerVars>>

(* A timeout or the owner closes the writing end, or the connection breaks.*)
CloseWriter ==
    /\ writerOpen
    /\ writerOpen' = FALSE
    /\ UNCHANGED <<sent, writer, writing, wire, readerVars>>

-----------------------------------------------------------------------------
(* The reading end.                                                        *)

Room == Capacity - Len(buffer)

(* async_read of n bytes into the streambuf is initiated.                  *)
InitiateRead(stage, n) ==
    /\ reader' = stage
    /\ goal' = n
    /\ transferred' = 0
    /\ full' = (Room = 0)

(* asyncRead, also from within the handler of the read before.             *)
AsyncRead ==
    /\ reader = "idle"
    /\ InitiateRead("header", HeaderSize)
    /\ result' = "none"
    /\ UNCHANGED <<writerVars, wire, readerOpen, buffer, late, delivered>>

(* Steps of async_read and completion handlers need the worker, which is   *)
(* in the user's handler until that has returned.                          *)
WorkerFree == late = 0 \/ Nested

Reading == reader \in {"header", "data"}

(* Defect: async_read does not look at the maximum of the streambuf.       *)
ReadWithoutLimit ==
    /\ Reading /\ WorkerFree
    /\ readerOpen /\ wire # <<>> /\ transferred < goal
    /\ buffer' = Append(buffer, Head(wire))
    /\ wire' = Tail(wire)
    /\ transferred' = transferred + 1
    /\ UNCHANGED <<writerVars, readerOpen, reader, goal, full, late, result, delivered>>

(* A byte arrives in the streambuf, and async_read looks for room again.   *)
ReadSome ==
    /\ Reading /\ WorkerFree
    /\ readerOpen /\ wire # <<>> /\ ~full /\ transferred < goal
    /\ buffer' = Append(buffer, Head(wire))
    /\ wire' = Tail(wire)
    /\ transferred' = transferred + 1
    /\ full' = (transferred' < goal /\ Len(buffer') = Capacity)
    /\ UNCHANGED <<writerVars, readerOpen, reader, goal, late, result, delivered>>

(* The user's handler is called with error e; that many bytes are consumed *)
(* when it has returned.                                                   *)
CallHandler(e, consumed) ==
    /\ result' = e
    /\ late' = late + consumed
    /\ reader' = IF e = "success" THEN "idle" ELSE "failed"
    /\ goal' = 0 /\ transferred' = 0 /\ full' = FALSE
    /\ UNCHANGED <<writerVars, wire, readerOpen, buffer>>

(* Bytes of the streambuf that belong to the frame that is read.           *)
FrameBytes == IF reader = "data" THEN HeaderSize + transferred ELSE transferred

(* The read completes with an error, or finds its object closed.           *)
ReadFails ==
    /\ Reading /\ WorkerFree
    /\ \/ ~readerOpen /\ CallHandler("aborted", FrameBytes)
       \/ /\ readerOpen /\ ~writerOpen /\ ~full /\ transferred < goal
          /\ CallHandler("failedOperation", FrameBytes)
    /\ UNCHANGED delivered

(* The read completes without an error and without all of its bytes.       *)
ReadInvalid ==
    /\ Reading /\ WorkerFree /\ readerOpen /\ full
    /\ CallHandler("invalidFrame", FrameBytes)
    /\ UNCHANGED delivered

Completed(stage) ==
    reader = stage /\ WorkerFree /\ readerOpen /\ transferred = goal

(* numDataBytesFromBuffer of Stream.h: the header is taken from the front. *)
NumDataBytesFromBuffer == FromBigEndian(buffer)

(* The handler of the header's read: an empty message is complete.         *)
EmptyMessage ==
    /\ Completed("header") /\ NumDataBytesFromBuffer = 0
    /\ CallHandler("success", HeaderSize)
    /\ delivered' = Append(delivered, View(buffer, 0, 0))

(* Defect: the size of the header is counted among the data.              *)
HeaderCountedTwice ==
    /\ Completed("header") /\ NumDataBytesFromBuffer > 0
    /\ InitiateRead("data", HeaderSize + NumDataBytesFromBuffer)
    /\ UNCHANGED <<writerVars, wire, readerOpen, buffer, late, result, delivered>>

(* Otherwise the data are read behind the header, which stays.             *)
HeaderComplete ==
    /\ Completed("header") /\ NumDataBytesFromBuffer > 0
    /\ InitiateRead("data", NumDataBytesFromBuffer)
    /\ UNCHANGED <<writerVars, wire, readerOpen, buffer, late, result, delivered>>

(* Defect: only the data are consumed.                                     *)
DataWithoutHeader ==
    /\ Completed("data")
    /\ CallHandler("success", transferred)
    /\ delivered' = Append(delivered, View(buffer, goal, HeaderSize))

(* The handler of the data's read: the user gets a view on the data.       *)
DataComplete ==
    /\ Completed("data")
    /\ CallHandler("success", HeaderSize + transferred)
    /\ delivered' = Append(delivered, View(buffer, goal, HeaderSize))

(* The user's handler returns: buffer.consume().                           *)
Consume ==
    /\ late > 0
    /\ buffer' = SubSeq(buffer, late + 1, Len(buffer))
    /\ late' = 0
    /\ UNCHANGED <<writerVars, wire, readerOpen, reader, goal, transferred,
                   full, result, delivered>>

(* A timeout or the owner closes the reading end.                          *)
CloseReader ==
    /\ readerOpen
    /\ readerOpen' = FALSE
    /\ UNCHANGED <<writerVars, wire, buffer, reader, goal, transferred, full,
                   late, result, delivered>>

ReadStep ==
    \/ ReadSome \/ ReadFails \/ ReadInvalid
    \/ EmptyMessage \/ HeaderComplete \/ DataComplete \/ Consume

StreamNext ==
    \/ \E m \in Messages : AsyncWrite(m)
    \/ HandOver \/ WriteHandler \/ CloseWriter
    \/ AsyncRead \/ ReadStep \/ CloseReader

StreamSafety == StreamInit /\ [][StreamNext]_streamVars

(* The system moves the bytes of an intact connection, the workers run     *)
(* what is queued, and the reader reads again while there is no error.     *)
StreamSpec ==
    /\ StreamSafety
    /\ WF_streamVars(HandOver) /\ WF_streamVars(WriteHandler)
    /\ WF_streamVars(ReadStep) /\ WF_streamVars(AsyncRead)

-----------------------------------------------------------------------------

(* The types of the state; the streambuf never outgrows its maximum.       *)
StreamTypeOK ==
    /\ sent \in Seq(Messages) /\ Len(sent) <= MaxSent
    /\ delivered \in Seq(Seq(Byte))
    /\ writer \in {"idle", "writing", "failed"}
    /\ reader \in {"idle", "header", "data", "failed"}
    /\ {writing, wire, buffer} \subseteq Seq(Byte)
    /\ {writerOpen, readerOpen, full} \subseteq BOOLEAN
    /\ goal \in 0 .. HeaderLimit - 1 /\ transferred \in 0 .. goal
    /\ late \in 0 .. Capacity
    /\ Len(buffer) <= Capacity
    /\ result \in {"none", "success", "aborted", "failedOperation", "invalidFrame"}

(* The messages handed to the reader are those written, whole, in order    *)
(* and each once, wherever the connection cuts the bytes and whenever the  *)
(* next read is begun.                                                     *)
TheChannel == INSTANCE Channel WITH received <- delivered
InOrder == TheChannel!ChannelSafety

(* The frames of the messages that have not been delivered.                *)
FramesLeft ==
    FlattenSeq([i \in 1 .. Len(sent) - Len(delivered) |->
                    FrameOf(sent[Len(delivered) + i])])

(* The stream stays aligned: while the reader has met no error, what it    *)
(* has not consumed, what is on its way and what is yet to be handed over  *)
(* are together the frames of the undelivered messages, so that every read *)
(* begins at a header.                                                     *)
Aligned ==
    reader # "failed" =>
        SubSeq(buffer, late + 1, Len(buffer)) \o wire \o writing = FramesLeft

(* A read is told of an invalid frame only if the message is larger than   *)
(* the maximum, or if it was begun in the handler of a message of exactly  *)
(* the maximum size, which still fills the streambuf.                      *)
InvalidOnlyIfTooLarge ==
    result = "invalidFrame" =>
        \/ /\ Len(delivered) < Len(sent)
           /\ Len(sent[Len(delivered) + 1]) > MaxMessageSize
        \/ delivered # <<>> /\ Len(Last(delivered)) = MaxMessageSize

(* Every message written arrives, unless an end is closed or a read found  *)
(* a frame invalid.                                                        *)
MessagesArrive ==
    \A n \in 1 .. MaxSent :
        Len(sent) >= n ~>
            \/ Len(delivered) >= n
            \/ ~writerOpen \/ ~readerOpen \/ result = "invalidFrame"
=============================================================================
