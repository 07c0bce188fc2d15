---------------------------- MODULE SMETransfer -----------------------------
(***************************************************************************)
(* One report on its way to the server: TCPSender, the TCP connection and  *)
(* SMEAsyncReceiver.Receive up to the point where the file is stored.      *)
(*                                                                         *)
(* The connection is a byte stream.  Wire is everything the sender writes  *)
(* in a complete transfer; `written' and `pos' say how much of it has been *)
(* written and how much the receiver has taken.  A Read returns any number *)
(* of the bytes that are there, so that a header field can come in pieces, *)
(* and the receiver ignores how many bytes its header Reads return.        *)
(*                                                                         *)
(* Sizes are scaled: a byte has Base values, an int IntSize bytes, a long  *)
(* LongSize bytes, the buffer of the two file loops Chunk bytes.           *)
(***************************************************************************)
EXTENDS Integers, Sequences, FiniteSetsExt

CONSTANTS
    Base, IntSize, LongSize, Chunk,
    BufferSize,     \* what the two socket buffers of the connection hold
    FileLengths,    \* file sizes to send
    Names,          \* file names to send, as sequences of non-zero bytes
    Extension,      \* the byte that stands for ".xml" or ".dmp" in a name
    Keys            \* API keys to send

VARIABLES
    length, name, key,      \* the file being sent, its name and the API key
    spc, i, written,        \* TCPSender: place, FileSend's counter, bytes written
    link,                   \* the connection, as the sender leaves it
    rpc, pos,               \* Receive: place, bytes taken from the stream
    fileLength, fileNameLength, fileName, apikey,
    fileStart,              \* where in the stream the stored file begins
    totalLength

sentVars == <<length, name, key>>
senderVars == <<spc, i, written>>
headerVars == <<fileLength, fileNameLength, fileName, apikey>>
bodyVars == <<fileStart, totalLength>>
receiverVars == <<rpc, pos, headerVars, bodyVars>>
vars == <<sentVars, senderVars, link, receiverVars>>

-----------------------------------------------------------------------------
(* BitConverter and the wire format.                                       *)

\* GetBytes: least significant byte first.
GetBytes(v, size) == [b \in 1 .. size |-> (v \div Base ^ (b - 1)) % Base]

\* ToInt32 takes the first IntSize bytes of a buffer, as a signed number.
ToInt32(buffer) ==
    LET unsigned == MapThenSumSet(LAMBDA b : buffer[b] * Base ^ (b - 1), 1 .. IntSize)
    IN  IF unsigned < Base ^ IntSize \div 2 THEN unsigned
                                            ELSE unsigned - Base ^ IntSize

HeaderValues == FileLengths \cup Keys \cup {Len(n) : n \in Names}

\* A number that an int can hold.
IsInt32(v) == v < Base ^ IntSize \div 2

\* The top byte of a name's length is zero; the four characters of an extension do
\* not come up in a number.
ASSUME SizesAssumption ==
    /\ Base \in Nat \ {0, 1} /\ IntSize \in Nat \ {0} /\ Chunk \in Nat \ {0}
    /\ LongSize \in Nat /\ LongSize > IntSize
    /\ FileLengths \subseteq 0 .. Base ^ LongSize - 1
    /\ Keys \subseteq Nat /\ \A v \in Keys : IsInt32(v)
    /\ \A n \in Names :
          /\ n \in Seq(1 .. Base - 1)
          /\ IsInt32(Len(n)) /\ GetBytes(Len(n), IntSize)[IntSize] = 0
          /\ IntSize + Len(n) <= BufferSize
    /\ Extension \in 1 .. Base - 1
    /\ \A v \in HeaderValues : Extension \notin Range(GetBytes(v, LongSize))
    /\ LongSize <= BufferSize /\ Chunk <= BufferSize

\* What BitConverter promises: GetBytes makes bytes, ToInt32 makes an int of any
\* bytes and gives back what GetBytes was given, if it is an int.
ASSUME BitConverterAssumption ==
    \A size \in {IntSize, LongSize} :
        /\ \A v \in HeaderValues :
              /\ GetBytes(v, size) \in [1 .. size -> 0 .. Base - 1]
              /\ IsInt32(v) => ToInt32(GetBytes(v, size)) = v
        /\ \A buffer \in [1 .. size -> 0 .. Base - 1] :
              ToInt32(buffer) \in -(Base ^ IntSize) .. Base ^ IntSize

\* The bytes of the file itself: each could be part of a name.
Content == [b \in 1 .. length |-> Extension]

Header ==
    GetBytes(length, LongSize) \o GetBytes(Len(name), IntSize) \o name
        \o GetBytes(key, IntSize)

Wire == Header \o Content

\* FileSend's number of rounds.
Count == length \div Chunk + 1

TypeOK ==
    /\ length \in FileLengths /\ name \in Names /\ key \in Keys
    /\ spc \in {"length", "name", "apikey", "FileSend", "Close", "closed", "caught"}
    /\ i \in 0 .. Count
    /\ written \in 0 .. Len(Wire)
    /\ link \in {"open", "fin", "reset"}
    /\ rpc \in {"length", "namelength", "name", "apikey", "create", "body",
                "record", "caught", "disposed"}
    /\ pos \in 0 .. written
    /\ fileLength \in -(Base ^ IntSize) .. Base ^ IntSize
    /\ fileNameLength \in -(Base ^ IntSize) .. Base ^ IntSize
    /\ fileName \in Seq(0 .. Base - 1)
    /\ apikey \in -(Base ^ IntSize) .. Base ^ IntSize
    /\ fileStart \in 0 .. pos
    /\ totalLength \in 0 .. pos

Init ==
    /\ length \in FileLengths /\ name \in Names /\ key \in Keys
    /\ spc = "length" /\ i = 0 /\ written = 0
    /\ link = "open"
    /\ rpc = "length" /\ pos = 0
    /\ fileLength = 0 /\ fileNameLength = 0 /\ fileName = <<>> /\ apikey = 0
    /\ fileStart = 0 /\ totalLength = 0

-----------------------------------------------------------------------------
(* TCPSender.                                                              *)

\* The bytes of the Write that comes next; the name follows its length.
NextWrite ==
    CASE spc = "length"   -> LongSize
      [] spc = "name"     -> IntSize + Len(name)
      [] spc = "apikey"   -> IntSize
      [] spc = "FileSend" -> Min({Chunk, length - i * Chunk})
      [] OTHER            -> 0

\* Write returns once the socket buffers have taken all of it.
Write(from, to) ==
    /\ spc = from
    /\ link = "open"
    /\ rpc = "disposed" \/ written + NextWrite <= pos + BufferSize
    /\ written' = written + NextWrite
    /\ spc' = to
    /\ UNCHANGED <<sentVars, link, receiverVars>>

SendLength == Write("length", "name") /\ UNCHANGED i
SendName == Write("name", "apikey") /\ UNCHANGED i
SendApikey == Write("apikey", "FileSend") /\ UNCHANGED i

\* One round of FileSend's loop.
FileSend ==
    /\ i < Count
    /\ Write("FileSend", IF i + 1 = Count THEN "Close" ELSE "FileSend")
    /\ i' = i + 1

Close ==
    /\ spc = "Close"
    /\ spc' = "closed"
    /\ link' = IF link = "open" THEN "fin" ELSE link
    /\ UNCHANGED <<sentVars, i, written, receiverVars>>

\* Any call of the constructor throws, with part of a Write done; the catch
\* block leaves the connection open.
SenderThrows ==
    /\ spc \notin {"closed", "caught"}
    /\ \E n \in 0 .. NextWrite : written' = written + n
    /\ spc' = "caught"
    /\ UNCHANGED <<sentVars, i, link, receiverVars>>

\* The finalizer, or the end of the client process, closes it.
SenderFinalized ==
    /\ spc = "caught" /\ link = "open"
    /\ link' = "fin"
    /\ UNCHANGED <<sentVars, senderVars, receiverVars>>

\* The connection breaks.
Reset ==
    /\ link # "reset"
    /\ link' = "reset"
    /\ UNCHANGED <<sentVars, senderVars, receiverVars>>

-----------------------------------------------------------------------------
(* SMEAsyncReceiver.Receive.                                               *)

\* How many bytes a Read of n bytes may return: none at the end of the stream.
ReadCounts(n) ==
    CASE n = 0                        -> {0}
      [] n > 0 /\ pos < written       -> 1 .. Min({n, written - pos})
      [] n > 0 /\ pos = written       -> IF link = "fin" THEN {0} ELSE {}
      [] OTHER                        -> {}

\* A new buffer of n bytes after a Read that returned m.
Buffer(n, m) ==
    [b \in 1 .. n |-> IF b <= m THEN Wire[pos + b] ELSE 0]

Receiving(from, to) ==
    /\ rpc = from
    /\ rpc' = to
    /\ UNCHANGED <<sentVars, senderVars, link>>

\* The catch block of Receive.
Throws(from) ==
    /\ Receiving(from, "caught")
    /\ UNCHANGED <<pos, headerVars, bodyVars>>

ReceiveLength ==
    \E m \in ReadCounts(LongSize) :
        /\ Receiving("length", "namelength")
        /\ fileLength' = ToInt32(Buffer(LongSize, m))
        /\ pos' = pos + m
        /\ UNCHANGED <<fileNameLength, fileName, apikey, bodyVars>>

ReceiveNameLength ==
    \E m \in ReadCounts(IntSize) :
        /\ Receiving("namelength", "name")
        /\ fileNameLength' = ToInt32(Buffer(IntSize, m))
        /\ pos' = pos + m
        /\ UNCHANGED <<fileLength, fileName, apikey, bodyVars>>

\* Mutant: zero bytes are stripped from the name.
ReceiveNameTrimmed ==
    \/ /\ fileNameLength < 0
       /\ Throws("name")
    \/ \E m \in ReadCounts(fileNameLength) :
          LET received == SelectSeq(Buffer(fileNameLength, m), LAMBDA b : b # 0) IN
          /\ Receiving("name", IF Extension \in Range(received) THEN "apikey" ELSE "caught")
          /\ fileName' = received
          /\ pos' = pos + m
          /\ UNCHANGED <<fileLength, fileNameLength, apikey, bodyVars>>

\* A negative length cannot be allocated; a name needs a known extension.
ReceiveName ==
    \/ /\ fileNameLength < 0
       /\ Throws("name")
    \/ \E m \in ReadCounts(fileNameLength) :
          LET received == Buffer(fileNameLength, m) IN
          /\ Receiving("name", IF Extension \in Range(received) THEN "apikey" ELSE "caught")
          /\ fileName' = received
          /\ pos' = pos + m
          /\ UNCHANGED <<fileLength, fileNameLength, apikey, bodyVars>>

ReceiveApikey ==
    \E m \in ReadCounts(IntSize) :
        /\ Receiving("apikey", "create")
        /\ apikey' = ToInt32(Buffer(IntSize, m))
        /\ pos' = pos + m
        /\ UNCHANGED <<fileLength, fileNameLength, fileName, bodyVars>>

\* new FileStream(fileName, FileMode.Create): a zero byte is not legal in a path,
\* and the file may be in use.
CreateFile ==
    \/ /\ 0 \notin Range(fileName)
       /\ Receiving("create", "body")
       /\ fileStart' = pos
       /\ UNCHANGED <<pos, headerVars, totalLength>>
    \/ Throws("create")

\* One round of the loop.  At the end of the stream it changes nothing and the
\* loop goes on.
ReceiveBody ==
    /\ totalLength < fileLength
    /\ \E m \in ReadCounts(Chunk) :
          /\ Receiving("body", "body")
          /\ pos' = pos + m
          /\ totalLength' = totalLength + m
          /\ UNCHANGED <<headerVars, fileStart>>

\* Mutant: the loop also ends at the end of the stream.
BodyReceivedAtEnd ==
    /\ totalLength >= fileLength \/ (pos = written /\ link = "fin")
    /\ Receiving("body", "record")
    /\ UNCHANGED <<pos, headerVars, bodyVars>>

\* Mutant: the loop runs while totalLength <= fileLength.
BodyReceivedLate ==
    /\ totalLength > fileLength
    /\ Receiving("body", "record")
    /\ UNCHANGED <<pos, headerVars, bodyVars>>

\* The loop ends and the file is closed.
BodyReceived ==
    /\ totalLength >= fileLength
    /\ Receiving("body", "record")
    /\ UNCHANGED <<pos, headerVars, bodyVars>>

\* A Read on a broken connection throws.
ReadThrows ==
    \E place \in {"length", "namelength", "name", "apikey", "body"} :
        /\ link = "reset"
        /\ Throws(place)

\* A write to the file fails.
WriteThrows == totalLength < fileLength /\ Throws("body")

\* Mutant: the connection is left open.
DisposeFileOnly ==
    \E place \in {"record", "caught"} :
        /\ Receiving(place, "leaked")
        /\ UNCHANGED <<pos, headerVars, bodyVars>>

\* The finally block, after the database work or the catch block.
Dispose ==
    \E place \in {"record", "caught"} :
        /\ Receiving(place, "disposed")
        /\ UNCHANGED <<pos, headerVars, bodyVars>>

-----------------------------------------------------------------------------
Sender == SendLength \/ SendName \/ SendApikey \/ FileSend \/ Close

Receive ==
    \/ ReceiveLength \/ ReceiveNameLength \/ ReceiveName \/ ReceiveApikey
    \/ CreateFile \/ ReceiveBody \/ BodyReceived \/ ReadThrows \/ Dispose

Next ==
    Sender \/ SenderThrows \/ SenderFinalized \/ Reset \/ Receive \/ WriteThrows

Spec == Init /\ [][Next]_vars

\* Both threads run while they can, and a Write on a broken connection throws;
\* the network and the clean-up of a failed sender are free.
FairSpec ==
    /\ Spec
    /\ WF_vars(Sender \/ (link = "reset" /\ SenderThrows))
    /\ WF_vars(Receive)

-----------------------------------------------------------------------------
(* Properties.                                                             *)

\* However the header was cut up, a file is created only under the name it was
\* sent with and only with the length it was sent with (as an int), and the only
\* header bytes that can slip into it are those of the API key: everything else
\* that goes wrong in the unchecked Reads ends in the catch block.
OnlyKeyBytesSlip ==
    rpc \in {"body", "record"} =>
        /\ fileName = name
        /\ fileLength = ToInt32(GetBytes(length, LongSize))
        /\ Len(Header) - IntSize <= fileStart /\ fileStart <= Len(Header)

\* A file that reaches the database is the whole file that was sent, with its
\* key, if the API key came in one piece and the length fits an int: a transfer
\* that a client broke off is never recorded.
RecordedFileIsWhole ==
    rpc = "record" /\ fileStart = Len(Header) /\ IsInt32(length) =>
        totalLength = length /\ written = Len(Wire) /\ apikey = key

\* When the sender has sent all and closed, Receive ends, whatever the pieces the
\* bytes came in.
ReceiveEnds == spc = "closed" ~> rpc = "disposed"

\* The sender, and with it the client's exception handler, is not blocked for
\* ever by full socket buffers: it closes the connection or catches an exception.
SenderEnds == <>(spc \in {"closed", "caught"})

\* "receive the file size", the comment on the first Read: afterwards fileLength
\* is the size of the file that is being sent.
FileLengthReceived ==
    rpc \notin {"length", "caught", "disposed"} => fileLength = length

-----------------------------------------------------------------------------
\* Names for a small instance: one that ends with the extension, one that goes on
\* after it and one that has none.
SmallNames == {<<1, Extension>>, <<1, Extension, 2>>, <<2, 1>>}
=============================================================================
