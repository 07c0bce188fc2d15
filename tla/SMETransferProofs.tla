-------------------------- MODULE SMETransferProofs -------------------------
(***************************************************************************)
(* Proofs about SMETransfer, for all sizes of a byte, an int, a long and   *)
(* the buffers, all files, names and API keys.                             *)
(***************************************************************************)
EXTENDS SMETransfer, TLAPS

Sent == length \in FileLengths /\ name \in Names /\ key \in Keys

\* Where the fields of the header begin, and where it ends.
NameAt == LongSize + IntSize
KeyAt == NameAt + Len(name)
BodyAt == KeyAt + IntSize

LEMMA SeqSubset ==
    ASSUME NEW S, NEW T, S \subseteq T, NEW s \in Seq(S)
    PROVE  s \in Seq(T)
OBVIOUS

LEMMA SeqElement ==
    ASSUME NEW S, NEW s \in Seq(S), NEW b \in 1 .. Len(s)
    PROVE  s[b] \in S
OBVIOUS

LEMMA FunctionIsSeq ==
    ASSUME NEW S, NEW m \in Nat, NEW s \in [1 .. m -> S]
    PROVE  s \in Seq(S) /\ Len(s) = m
OBVIOUS

LEMMA MinOfTwo ==
    ASSUME NEW a \in Int, NEW b \in Int
    PROVE  Min({a, b}) = IF a <= b THEN a ELSE b
BY DEF Min

\* Two sequences, one after the other, and what stands where in them.
Cat(s, t) == s \o t
Part(s, at, t, n) == \A b \in 1 .. n : s[at + b] = t[b]

LEMMA CatSeq ==
    ASSUME NEW S, NEW s \in Seq(S), NEW t \in Seq(S), NEW m \in Nat, NEW n \in Nat,
           Len(s) = m, Len(t) = n
    PROVE  /\ Cat(s, t) \in Seq(S) /\ Len(Cat(s, t)) = m + n
           /\ Part(Cat(s, t), 0, s, m) /\ Part(Cat(s, t), m, t, n)
BY DEF Cat, Part

LEMMA CatKeeps ==
    ASSUME NEW S, NEW s \in Seq(S), NEW t \in Seq(S), NEW at \in Nat, NEW u, NEW n \in Nat,
           at + n <= Len(s), Part(s, at, u, n)
    PROVE  Part(Cat(s, t), at, u, n)
BY DEF Cat, Part

\* The bytes of a number.
LEMMA Numbers ==
    ASSUME NEW v \in HeaderValues, NEW size \in {IntSize, LongSize}
    PROVE  /\ GetBytes(v, size) \in Seq(0 .. Base - 1)
           /\ Len(GetBytes(v, size)) = size
           /\ \A b \in 1 .. size : GetBytes(v, size)[b] # Extension
<1>1. size \in Nat /\ size <= LongSize
    BY SizesAssumption
<1>2. GetBytes(v, size) \in [1 .. size -> 0 .. Base - 1]
    BY BitConverterAssumption
<1>3. \A b \in 1 .. size : GetBytes(v, size)[b] # Extension
    <2>. SUFFICES ASSUME NEW b \in 1 .. size PROVE GetBytes(v, size)[b] # Extension
        OBVIOUS
    <2>1. b \in 1 .. LongSize /\ GetBytes(v, size)[b] = GetBytes(v, LongSize)[b]
        BY <1>1, SizesAssumption DEF GetBytes
    <2>2. GetBytes(v, LongSize)[b] \in Range(GetBytes(v, LongSize))
        BY <2>1 DEF Range, GetBytes
    <2>. QED
        BY <2>1, <2>2, SizesAssumption
<1>. QED
    BY <1>1, <1>2, <1>3, FunctionIsSeq, Zenon

LEMMA SentTypes ==
    ASSUME Sent
    PROVE  /\ length \in Nat /\ key \in Nat /\ name \in Seq(1 .. Base - 1)
           /\ Len(name) \in Nat /\ LongSize \in Nat /\ IntSize \in Nat
           /\ {length, key, Len(name)} \subseteq HeaderValues
           /\ NameAt \in Nat /\ KeyAt \in Nat /\ BodyAt \in Nat
<1>1. length \in Nat /\ key \in Nat /\ name \in Seq(1 .. Base - 1)
    BY SizesAssumption DEF Sent
<1>2. Len(name) \in Nat /\ LongSize \in Nat /\ IntSize \in Nat
    BY <1>1, SizesAssumption
<1>. QED
    BY <1>1, <1>2 DEF Sent, HeaderValues, NameAt, KeyAt, BodyAt

\* What is where in the stream.
LEMMA WireBytes ==
    ASSUME Sent
    PROVE  /\ Wire \in Seq(0 .. Base - 1)
           /\ Len(Header) = BodyAt /\ Len(Wire) = BodyAt + length
           /\ Part(Wire, 0, GetBytes(length, LongSize), LongSize)
           /\ Part(Wire, LongSize, GetBytes(Len(name), IntSize), IntSize)
           /\ Part(Wire, NameAt, name, Len(name))
           /\ Part(Wire, KeyAt, GetBytes(key, IntSize), IntSize)
<1>. DEFINE Bytes == 0 .. Base - 1
            s1 == GetBytes(length, LongSize)
            s2 == GetBytes(Len(name), IntSize)
            s4 == GetBytes(key, IntSize)
<1>1. /\ s1 \in Seq(Bytes) /\ Len(s1) = LongSize
      /\ s2 \in Seq(Bytes) /\ Len(s2) = IntSize
      /\ s4 \in Seq(Bytes) /\ Len(s4) = IntSize
    BY SentTypes, Numbers
<1>2. name \in Seq(Bytes) /\ Len(name) \in Nat
    <2>1. 1 .. Base - 1 \subseteq Bytes
        BY SizesAssumption
    <2>. HIDE DEF Bytes
    <2>2. name \in Seq(Bytes)
        BY <2>1, SentTypes, SeqSubset, Zenon
    <2>. QED
        BY <2>2, SentTypes
<1>3. Content \in Seq(Bytes) /\ Len(Content) = length
    <2>1. length \in Nat /\ Extension \in Bytes
        BY SentTypes, SizesAssumption
    <2>2. Content \in [1 .. length -> Bytes]
        BY <2>1 DEF Content
    <2>. QED
        BY <2>1, <2>2, FunctionIsSeq, Zenon
<1>4. /\ LongSize \in Nat /\ IntSize \in Nat /\ length \in Nat
      /\ NameAt \in Nat /\ KeyAt \in Nat /\ BodyAt \in Nat
      /\ NameAt = LongSize + IntSize /\ KeyAt = NameAt + Len(name)
      /\ BodyAt = KeyAt + IntSize
    BY SentTypes DEF NameAt, KeyAt, BodyAt
<1>. DEFINE h2 == Cat(s1, s2)
            h3 == Cat(h2, name)
            h4 == Cat(h3, s4)
            w == Cat(h4, Content)
<1>5. Wire = w /\ Header = h4
    BY DEF Wire, Header, Cat
<1>. HIDE DEF s1, s2, s4, Bytes
<1>6. /\ h2 \in Seq(Bytes) /\ Len(h2) = NameAt
      /\ Part(h2, 0, s1, LongSize) /\ Part(h2, LongSize, s2, IntSize)
    BY <1>1, <1>4, CatSeq
<1>. HIDE DEF h2
<1>7. /\ h3 \in Seq(Bytes) /\ Len(h3) = KeyAt
      /\ Part(h3, 0, s1, LongSize) /\ Part(h3, LongSize, s2, IntSize)
      /\ Part(h3, NameAt, name, Len(name))
    BY <1>2, <1>4, <1>6, CatSeq, CatKeeps
<1>. HIDE DEF h3
<1>8. /\ h4 \in Seq(Bytes) /\ Len(h4) = BodyAt
      /\ Part(h4, 0, s1, LongSize) /\ Part(h4, LongSize, s2, IntSize)
      /\ Part(h4, NameAt, name, Len(name)) /\ Part(h4, KeyAt, s4, IntSize)
    <2>1. /\ h4 \in Seq(Bytes) /\ Len(h4) = BodyAt /\ Part(h4, KeyAt, s4, IntSize)
        BY <1>1, <1>4, <1>7, CatSeq
    <2>2. 0 + LongSize <= Len(h3) /\ LongSize + IntSize <= Len(h3)
        BY <1>2, <1>4, <1>7
    <2>3. Part(h4, 0, s1, LongSize) /\ Part(h4, LongSize, s2, IntSize)
        BY <1>1, <1>4, <1>7, <2>2, CatKeeps
    <2>4. Part(h4, NameAt, name, Len(name))
        BY <1>1, <1>2, <1>4, <1>7, CatKeeps
    <2>. QED
        BY <2>1, <2>3, <2>4
<1>. HIDE DEF h4
<1>9. /\ w \in Seq(Bytes) /\ Len(w) = BodyAt + length
      /\ Part(w, 0, s1, LongSize) /\ Part(w, LongSize, s2, IntSize)
      /\ Part(w, NameAt, name, Len(name)) /\ Part(w, KeyAt, s4, IntSize)
    <2>1. w \in Seq(Bytes) /\ Len(w) = BodyAt + length
        BY <1>3, <1>4, <1>8, CatSeq
    <2>2. /\ 0 + LongSize <= Len(h4) /\ LongSize + IntSize <= Len(h4)
          /\ NameAt + Len(name) <= Len(h4) /\ KeyAt + IntSize <= Len(h4)
        BY <1>2, <1>4, <1>8
    <2>3. Part(w, 0, s1, LongSize) /\ Part(w, LongSize, s2, IntSize)
        BY <1>3, <1>4, <1>8, <2>2, CatKeeps
    <2>4. Part(w, NameAt, name, Len(name)) /\ Part(w, KeyAt, s4, IntSize)
        BY <1>2, <1>3, <1>4, <1>8, <2>2, CatKeeps
    <2>. QED
        BY <2>1, <2>3, <2>4
<1>. HIDE DEF w
<1>. QED
    BY <1>5, <1>8, <1>9 DEF s1, s2, s4, Bytes

-----------------------------------------------------------------------------
(* The invariant.                                                          *)

SenderPlaces == {"length", "name", "apikey", "FileSend", "Close", "closed", "caught"}
ReceiverPlaces == {"length", "namelength", "name", "apikey", "create", "body", "record",
                   "caught", "disposed"}

\* How much each place of the sender means has been written: whole fields, whole
\* chunks, never more than there is.
SenderInv ==
    /\ Sent
    /\ spc \in SenderPlaces /\ i \in Nat
    /\ written \in Nat /\ written <= BodyAt + length
    /\ spc \in {"length", "name", "apikey"} => i = 0
    /\ spc = "length" => written = 0
    /\ spc = "name" => written = LongSize
    /\ spc = "apikey" => written = KeyAt
    /\ spc = "FileSend" => i * Chunk <= length /\ written = BodyAt + i * Chunk

\* The name and the length are those that were sent.
Named == fileName = name /\ fileLength = ToInt32(GetBytes(length, LongSize))

\* What the receiver has, by its place.  As long as all Reads were full, it has
\* what was sent.  After a Read that was not, it is behind its place, and the name
\* it takes has a zero in it: the padding of a short Read, or the top byte of the
\* name's length, which lies between it and the extension it looks for.
ReceiverInv ==
    /\ rpc \in ReceiverPlaces
    /\ pos \in Nat /\ pos <= written
    /\ fileLength \in Int /\ fileNameLength \in Int
    /\ fileStart \in Nat /\ totalLength \in Nat
    /\ rpc \in {"length", "namelength", "name", "apikey", "create"} => totalLength = 0
    /\ rpc = "length" => pos = 0
    /\ rpc = "namelength" =>
          /\ pos <= LongSize
          /\ pos = LongSize => fileLength = ToInt32(GetBytes(length, LongSize))
    /\ rpc = "name" =>
          /\ pos <= NameAt
          /\ pos = NameAt => /\ fileLength = ToInt32(GetBytes(length, LongSize))
                             /\ fileNameLength = Len(name)
    /\ rpc = "apikey" => 0 \in Range(fileName) \/ (Named /\ pos = KeyAt)
    /\ rpc = "create" =>
          \/ 0 \in Range(fileName)
          \/ /\ Named /\ KeyAt <= pos /\ pos <= BodyAt
             /\ pos = BodyAt => apikey = key
    /\ rpc \in {"body", "record"} =>
          /\ Named /\ KeyAt <= fileStart /\ fileStart <= BodyAt
          /\ fileStart = BodyAt => apikey = key
          /\ pos = fileStart + totalLength
    /\ rpc = "record" => totalLength >= fileLength

TransferInv == SenderInv /\ ReceiverInv

-----------------------------------------------------------------------------
(* The sender.                                                             *)

\* A round of FileSend's loop that is not the last has a full chunk to send.
LEMMA Rounds ==
    ASSUME NEW l \in Nat, NEW c \in Nat \ {0}, NEW k \in Nat, k <= l \div c
    PROVE  k * c <= l
<1>. DEFINE q == l \div c
<1>1. q \in Nat /\ q * c <= l
    OBVIOUS
<1>. HIDE DEF q
<1>2. k * c <= q * c
    BY <1>1 DEF q
<1>. QED
    BY <1>1, <1>2

LEMMA NextWriteFits ==
    ASSUME SenderInv
    PROVE  /\ NextWrite \in Nat /\ written + NextWrite <= BodyAt + length
           /\ spc = "length" => NextWrite = LongSize
           /\ spc = "name" => NextWrite = IntSize + Len(name)
           /\ spc = "apikey" => NextWrite = IntSize
           /\ spc = "FileSend" => NextWrite = IF Chunk <= length - i * Chunk THEN Chunk
                                              ELSE length - i * Chunk
<1>1. /\ length \in Nat /\ Len(name) \in Nat /\ LongSize \in Nat /\ IntSize \in Nat
      /\ Chunk \in Nat \ {0}
    BY SentTypes, SizesAssumption DEF SenderInv
<1>2. i * Chunk \in Nat
    BY <1>1 DEF SenderInv
<1>3. Min({Chunk, length - i * Chunk}) = IF Chunk <= length - i * Chunk THEN Chunk
                                         ELSE length - i * Chunk
    BY <1>1, <1>2, MinOfTwo
<1>4. /\ spc = "length" => NextWrite = LongSize
      /\ spc = "name" => NextWrite = IntSize + Len(name)
      /\ spc = "apikey" => NextWrite = IntSize
      /\ spc = "FileSend" => NextWrite = IF Chunk <= length - i * Chunk THEN Chunk
                                         ELSE length - i * Chunk
      /\ spc \in {"Close", "closed", "caught"} => NextWrite = 0
    BY <1>3 DEF NextWrite
<1>. QED
    BY <1>1, <1>2, <1>4 DEF SenderInv, SenderPlaces, NameAt, KeyAt, BodyAt

LEMMA SenderStep ==
    ASSUME SenderInv, UNCHANGED sentVars,
           Sender \/ SenderThrows \/ SenderFinalized \/ Reset
    PROVE  SenderInv' /\ written <= written'
<1>1. /\ length \in Nat /\ Len(name) \in Nat /\ LongSize \in Nat /\ IntSize \in Nat
      /\ Chunk \in Nat \ {0} /\ NameAt \in Nat /\ KeyAt \in Nat /\ BodyAt \in Nat
    BY SentTypes, SizesAssumption DEF SenderInv
<1>2. /\ UNCHANGED <<length, name, key, NameAt, KeyAt, BodyAt>> /\ Sent'
    BY DEF sentVars, SenderInv, Sent, NameAt, KeyAt, BodyAt
<1>3. /\ NextWrite \in Nat /\ written + NextWrite <= BodyAt + length
      /\ spc \in SenderPlaces /\ i \in Nat /\ written \in Nat
    BY NextWriteFits DEF SenderInv
<1>4. CASE SendLength
    <2>1. spc' = "name" /\ i' = 0 /\ written = 0 /\ written' = LongSize
        BY <1>1, <1>4, NextWriteFits DEF SendLength, Write, SenderInv
    <2>. QED
        BY <1>1, <1>2, <1>3, <2>1 DEF SenderInv, SenderPlaces, BodyAt, KeyAt, NameAt
<1>5. CASE SendName
    <2>1. spc' = "apikey" /\ i' = 0 /\ written = LongSize /\ written' = KeyAt
        BY <1>1, <1>5, NextWriteFits DEF SendName, Write, SenderInv, KeyAt, NameAt
    <2>. QED
        BY <1>1, <1>2, <1>3, <2>1 DEF SenderInv, SenderPlaces, BodyAt, KeyAt, NameAt
<1>6. CASE SendApikey
    <2>1. spc' = "FileSend" /\ i' = 0 /\ written = KeyAt /\ written' = BodyAt
        BY <1>1, <1>6, NextWriteFits DEF SendApikey, Write, SenderInv, BodyAt
    <2>2. 0 * Chunk = 0
        BY <1>1
    <2>. QED
        BY <1>1, <1>2, <1>3, <2>1, <2>2 DEF SenderInv, SenderPlaces, BodyAt
<1>7. CASE FileSend
    <2>1. /\ spc = "FileSend" /\ i' = i + 1 /\ written' = written + NextWrite
          /\ spc' = IF i + 1 = Count THEN "Close" ELSE "FileSend"
          /\ i < Count
        BY <1>7 DEF FileSend, Write
    <2>2. i * Chunk \in Nat /\ i * Chunk <= length /\ written = BodyAt + i * Chunk
        BY <1>1, <1>3, <2>1 DEF SenderInv
    <2>3. CASE i + 1 = Count
        BY <1>1, <1>2, <1>3, <2>1, <2>3 DEF SenderInv, SenderPlaces
    <2>4. CASE i + 1 # Count
        <3>1. length \div Chunk \in Nat
            BY <1>1
        <3>2. i + 1 <= length \div Chunk
            BY <1>3, <2>1, <2>4, <3>1 DEF Count
        <3>3. (i + 1) * Chunk <= length /\ (i + 1) * Chunk = i * Chunk + Chunk
            BY <1>1, <1>3, <3>2, Rounds
        <3>4. NextWrite = Chunk
            <4>1. NextWrite = IF Chunk <= length - i * Chunk THEN Chunk
                              ELSE length - i * Chunk
                BY <2>1, NextWriteFits
            <4>. DEFINE done == i * Chunk
            <4>2. done \in Nat /\ done + Chunk <= length
                BY <2>2, <3>3
            <4>. HIDE DEF done
            <4>3. Chunk <= length - done
                BY <1>1, <4>2
            <4>. QED
                BY <4>1, <4>3, Zenon DEF done
        <3>. QED
            BY <1>1, <1>2, <1>3, <2>1, <2>2, <2>4, <3>3, <3>4 DEF SenderInv, SenderPlaces
    <2>. QED
        BY <2>3, <2>4
<1>8. CASE Close
    BY <1>1, <1>2, <1>3, <1>8 DEF Close, SenderInv, SenderPlaces
<1>9. CASE SenderThrows
    <2>1. PICK n \in 0 .. NextWrite : written' = written + n
        BY <1>9 DEF SenderThrows
    <2>2. written' \in Nat /\ written <= written' /\ written' <= BodyAt + length
        BY <1>1, <1>3, <2>1
    <2>. QED
        BY <1>1, <1>2, <1>3, <1>9, <2>2 DEF SenderThrows, SenderInv, SenderPlaces
<1>10. CASE SenderFinalized \/ Reset
    BY <1>2, <1>3, <1>10 DEF SenderFinalized, Reset, senderVars, SenderInv
<1>. QED
    BY <1>4, <1>5, <1>6, <1>7, <1>8, <1>9, <1>10 DEF Sender

\* What the sender does changes nothing the receiver has.
LEMMA ReceiverKeeps ==
    ASSUME SenderInv, SenderInv', ReceiverInv, UNCHANGED <<sentVars, receiverVars>>,
           written <= written'
    PROVE  ReceiverInv'
<1>1. /\ UNCHANGED <<length, name, key, rpc, pos, fileLength, fileNameLength, fileName,
                     apikey, fileStart, totalLength>>
    BY DEF sentVars, receiverVars, headerVars, bodyVars
<1>2. UNCHANGED <<NameAt, KeyAt, BodyAt, Named>>
    BY <1>1 DEF NameAt, KeyAt, BodyAt, Named
<1>3. pos' \in Nat /\ pos' <= written'
    BY <1>1 DEF SenderInv, ReceiverInv
<1>. QED
    BY <1>1, <1>2, <1>3 DEF ReceiverInv

-----------------------------------------------------------------------------
(* The receiver.                                                           *)

\* A Read takes what has been written, and no more than it asks for.
LEMMA Reads ==
    ASSUME SenderInv, ReceiverInv, NEW n \in Int, NEW m \in ReadCounts(n)
    PROVE  m \in Nat /\ n \in Nat /\ m <= n /\ pos + m <= written
<1>1. pos \in Nat /\ written \in Nat /\ pos <= written
    BY DEF SenderInv, ReceiverInv
<1>2. Min({n, written - pos}) = IF n <= written - pos THEN n ELSE written - pos
    BY <1>1, MinOfTwo
<1>. QED
    BY <1>1, <1>2 DEF ReadCounts

LEMMA BufferBytes ==
    ASSUME SenderInv, ReceiverInv, NEW n \in Nat, NEW m \in Nat, pos + m <= written
    PROVE  Buffer(n, m) \in [1 .. n -> 0 .. Base - 1]
<1>1. /\ pos \in Nat /\ written \in Nat /\ length \in Nat /\ BodyAt \in Nat
      /\ written <= BodyAt + length
    BY SentTypes DEF SenderInv, ReceiverInv
<1>2. Wire \in Seq(0 .. Base - 1) /\ Len(Wire) = BodyAt + length
    BY WireBytes DEF SenderInv
<1>3. \A b \in 1 .. Len(Wire) : Wire[b] \in 0 .. Base - 1
    BY <1>2, SeqElement, Zenon
<1>4. 0 \in 0 .. Base - 1
    BY SizesAssumption
<1>5. ASSUME NEW b \in 1 .. n, b <= m PROVE Wire[pos + b] \in 0 .. Base - 1
    <2>1. pos + b \in 1 .. Len(Wire)
        BY <1>1, <1>2, <1>5
    <2>. QED
        BY <1>3, <2>1
<1>. QED
    BY <1>4, <1>5 DEF Buffer

\* A Read that returns all it asked for gives what is in the stream.
LEMMA BufferFull ==
    ASSUME NEW n \in Nat, NEW S, NEW s \in Seq(S), Len(s) = n, Part(Wire, pos, s, n)
    PROVE  Buffer(n, n) = s
<1>1. s \in [1 .. n -> S]
    OBVIOUS
<1>. QED
    BY <1>1 DEF Buffer, Part

\* A number that is read is an int, and the one that was sent if all of it came.
LEMMA NumberRead ==
    ASSUME SenderInv, ReceiverInv, NEW size \in {IntSize, LongSize},
           NEW m \in ReadCounts(size)
    PROVE  /\ m \in Nat /\ m <= size /\ pos + m <= written
           /\ ToInt32(Buffer(size, m)) \in Int
           /\ \A v \in HeaderValues :
                 m = size /\ Part(Wire, pos, GetBytes(v, size), size) =>
                     Buffer(size, m) = GetBytes(v, size)
<1>1. size \in Nat
    BY SizesAssumption
<1>2. m \in Nat /\ m <= size /\ pos + m <= written
    BY <1>1, Reads
<1>3. Buffer(size, m) \in [1 .. size -> 0 .. Base - 1]
    BY <1>1, <1>2, BufferBytes
<1>4. ToInt32(Buffer(size, m)) \in -(Base ^ IntSize) .. Base ^ IntSize
    BY <1>3, BitConverterAssumption
<1>5. ASSUME NEW v \in HeaderValues, m = size, Part(Wire, pos, GetBytes(v, size), size)
      PROVE  Buffer(size, m) = GetBytes(v, size)
    BY <1>1, <1>5, Numbers, BufferFull
<1>. QED
    BY <1>2, <1>4, <1>5

\* A name that is read from before its place, or not in full, has a zero in it if
\* it has an extension; else it is the name that was sent.
LEMMA NameRead ==
    ASSUME SenderInv, ReceiverInv, rpc = "name", NEW m \in ReadCounts(fileNameLength),
           Extension \in Range(Buffer(fileNameLength, m))
    PROVE  \/ 0 \in Range(Buffer(fileNameLength, m))
           \/ pos = NameAt /\ m = Len(name) /\ Buffer(fileNameLength, m) = name
<1>. DEFINE n == fileNameLength
            received == Buffer(n, m)
<1>1. m \in Nat /\ n \in Nat /\ m <= n /\ pos \in Nat /\ pos <= NameAt
    BY Reads DEF ReceiverInv
<1>2. DOMAIN received = 1 .. n /\ \A b \in 1 .. n :
          received[b] = IF b <= m THEN Wire[pos + b] ELSE 0
    BY DEF Buffer
<1>. HIDE DEF received
<1>3. \A b \in 1 .. n : received[b] \in Range(received)
    BY <1>2 DEF Range
<1>4. /\ length \in HeaderValues /\ Len(name) \in HeaderValues /\ Len(name) \in Nat
      /\ LongSize \in Nat /\ IntSize \in Nat \ {0} /\ NameAt = LongSize + IntSize
      /\ Extension # 0
    BY SentTypes, SizesAssumption DEF SenderInv, NameAt
<1>5. /\ \A b \in 1 .. LongSize : Wire[0 + b] = GetBytes(length, LongSize)[b]
      /\ \A b \in 1 .. IntSize : Wire[LongSize + b] = GetBytes(Len(name), IntSize)[b]
    BY WireBytes DEF SenderInv, Part
<1>6. ASSUME NEW b \in 1 .. NameAt PROVE Wire[b] # Extension
    <2>1. CASE b <= LongSize
        <3>1. b \in 1 .. LongSize /\ 0 + b = b
            BY <1>4, <2>1
        <3>. QED
            BY <1>4, <1>5, <3>1, Numbers
    <2>2. CASE b > LongSize
        <3>1. b - LongSize \in 1 .. IntSize /\ LongSize + (b - LongSize) = b
            BY <1>4, <2>2
        <3>. QED
            BY <1>4, <1>5, <3>1, Numbers, Zenon
    <2>. QED
        BY <1>4, <2>1, <2>2
<1>7. Wire[NameAt] = 0
    <2>1. name \in Names
        BY DEF SenderInv, Sent
    <2>2. GetBytes(Len(name), IntSize)[IntSize] = 0
        BY <2>1, SizesAssumption
    <2>3. IntSize \in 1 .. IntSize
        BY <1>4
    <2>. QED
        BY <1>4, <1>5, <2>2, <2>3
<1>8. CASE m < n
    <2>1. n \in 1 .. n /\ received[n] = 0
        BY <1>1, <1>2, <1>8
    <2>. QED
        BY <1>3, <2>1 DEF received
<1>9. CASE pos < NameAt
    <2>1. PICK e \in 1 .. n : received[e] = Extension
        BY <1>2 DEF Range, received
    <2>2. e <= m /\ Wire[pos + e] = Extension
        BY <1>2, <1>4, <2>1
    <2>3. pos + e > NameAt
        BY <1>1, <1>4, <1>6, <2>2
    <2>4. NameAt - pos \in 1 .. n /\ NameAt - pos <= m /\ pos + (NameAt - pos) = NameAt
        BY <1>1, <1>4, <1>9, <2>2, <2>3
    <2>5. received[NameAt - pos] = 0
        BY <1>2, <1>7, <2>4
    <2>. QED
        BY <1>3, <2>4, <2>5 DEF received
<1>10. CASE pos = NameAt /\ m = n
    <2>1. n = Len(name)
        BY <1>10 DEF ReceiverInv
    <2>2. Part(Wire, pos, name, Len(name)) /\ name \in Seq(1 .. Base - 1)
        BY <1>10, WireBytes, SentTypes DEF SenderInv
    <2>. QED
        BY <1>4, <1>10, <2>1, <2>2, BufferFull
<1>. QED
    BY <1>1, <1>4, <1>8, <1>9, <1>10

\* What all steps of the receiver leave alone.
LEMMA ReceiverLeaves ==
    ASSUME SenderInv, UNCHANGED <<sentVars, senderVars>>
    PROVE  /\ SenderInv' /\ UNCHANGED <<length, name, key, written, NameAt, KeyAt, BodyAt>>
           /\ NameAt \in Nat /\ KeyAt \in Nat /\ BodyAt \in Nat /\ written \in Nat
           /\ LongSize \in Nat /\ IntSize \in Nat
           /\ NameAt = LongSize + IntSize /\ BodyAt = KeyAt + IntSize
           /\ KeyAt = NameAt + Len(name) /\ Len(name) \in Nat
<1>1. UNCHANGED <<length, name, key, spc, i, written>>
    BY DEF sentVars, senderVars
<1>2. UNCHANGED <<NameAt, KeyAt, BodyAt>>
    BY <1>1 DEF NameAt, KeyAt, BodyAt
<1>3. SenderInv'
    BY <1>1, <1>2 DEF SenderInv, Sent
<1>. QED
    BY <1>1, <1>2, <1>3, SentTypes DEF SenderInv, NameAt, KeyAt, BodyAt

\* An exception, and Dispose, end the transfer without a file that is recorded.
LEMMA Ends ==
    ASSUME SenderInv, ReceiverInv, UNCHANGED <<sentVars, senderVars, pos, headerVars, bodyVars>>,
           rpc' \in {"caught", "disposed"}
    PROVE  ReceiverInv'
<1>1. UNCHANGED <<written, pos, fileLength, fileNameLength, fileStart, totalLength>>
    BY DEF senderVars, headerVars, bodyVars
<1>. QED
    BY <1>1 DEF ReceiverInv, ReceiverPlaces

LEMMA ReceiveLengthStep ==
    ASSUME SenderInv, ReceiverInv, ReceiveLength
    PROVE  SenderInv' /\ ReceiverInv'
<1>1. PICK m \in ReadCounts(LongSize) :
          /\ rpc = "length" /\ rpc' = "namelength"
          /\ UNCHANGED <<sentVars, senderVars, link>>
          /\ fileLength' = ToInt32(Buffer(LongSize, m)) /\ pos' = pos + m
          /\ UNCHANGED <<fileNameLength, fileName, apikey, bodyVars>>
    BY DEF ReceiveLength, Receiving
<1>2. /\ SenderInv' /\ UNCHANGED <<length, written>> /\ written \in Nat
      /\ LongSize \in Nat
    BY <1>1, ReceiverLeaves
<1>3. /\ m \in Nat /\ m <= LongSize /\ pos + m <= written /\ fileLength' \in Int
    BY <1>1, NumberRead
<1>4. pos = 0 /\ totalLength = 0 /\ UNCHANGED <<fileStart, totalLength>>
    BY <1>1 DEF ReceiverInv, bodyVars
<1>5. pos' = LongSize => fileLength' = ToInt32(GetBytes(length, LongSize))
    <2>1. Part(Wire, 0, GetBytes(length, LongSize), LongSize) /\ length \in HeaderValues
        BY WireBytes, SentTypes DEF SenderInv
    <2>2. pos' = m
        BY <1>1, <1>3, <1>4
    <2>. QED
        BY <1>1, <1>4, <2>1, <2>2, NumberRead
<1>. QED
    BY <1>1, <1>2, <1>3, <1>4, <1>5 DEF ReceiverInv, ReceiverPlaces

LEMMA ReceiveNameLengthStep ==
    ASSUME SenderInv, ReceiverInv, ReceiveNameLength
    PROVE  SenderInv' /\ ReceiverInv'
<1>1. PICK m \in ReadCounts(IntSize) :
          /\ rpc = "namelength" /\ rpc' = "name"
          /\ UNCHANGED <<sentVars, senderVars, link>>
          /\ fileNameLength' = ToInt32(Buffer(IntSize, m)) /\ pos' = pos + m
          /\ UNCHANGED <<fileLength, fileName, apikey, bodyVars>>
    BY DEF ReceiveNameLength, Receiving
<1>2. /\ SenderInv' /\ UNCHANGED <<length, name, written, NameAt>> /\ written \in Nat
      /\ LongSize \in Nat /\ IntSize \in Nat /\ NameAt = LongSize + IntSize
    BY <1>1, ReceiverLeaves
<1>3. m \in Nat /\ m <= IntSize /\ pos + m <= written /\ fileNameLength' \in Int
    BY <1>1, NumberRead
<1>4. /\ pos \in Nat /\ pos <= LongSize /\ totalLength = 0
      /\ pos = LongSize => fileLength = ToInt32(GetBytes(length, LongSize))
      /\ UNCHANGED <<fileStart, totalLength>>
    BY <1>1 DEF ReceiverInv, bodyVars
<1>5. ASSUME pos' = NameAt
      PROVE  fileLength' = ToInt32(GetBytes(length, LongSize)) /\ fileNameLength' = Len(name)
    <2>1. pos = LongSize /\ m = IntSize
        BY <1>1, <1>2, <1>3, <1>4, <1>5
    <2>2. /\ Part(Wire, LongSize, GetBytes(Len(name), IntSize), IntSize)
          /\ Len(name) \in HeaderValues
        BY WireBytes, SentTypes DEF SenderInv
    <2>3. Buffer(IntSize, m) = GetBytes(Len(name), IntSize)
        BY <2>1, <2>2, NumberRead
    <2>4. IsInt32(Len(name))
        BY SizesAssumption DEF SenderInv, Sent
    <2>5. ToInt32(GetBytes(Len(name), IntSize)) = Len(name)
        BY <2>2, <2>4, BitConverterAssumption
    <2>. QED
        BY <1>1, <1>4, <2>1, <2>3, <2>5
<1>. QED
    BY <1>1, <1>2, <1>3, <1>4, <1>5 DEF ReceiverInv, ReceiverPlaces

LEMMA ReceiveNameStep ==
    ASSUME SenderInv, ReceiverInv, ReceiveName
    PROVE  SenderInv' /\ ReceiverInv'
<1>1. CASE Throws("name")
    BY <1>1, ReceiverLeaves, Ends DEF Throws, Receiving
<1>2. ASSUME NEW m \in ReadCounts(fileNameLength),
             /\ Receiving("name", IF Extension \in Range(Buffer(fileNameLength, m))
                                  THEN "apikey" ELSE "caught")
             /\ fileName' = Buffer(fileNameLength, m)
             /\ pos' = pos + m
             /\ UNCHANGED <<fileLength, fileNameLength, apikey, bodyVars>>
      PROVE  SenderInv' /\ ReceiverInv'
    <2>1. /\ rpc = "name" /\ UNCHANGED <<sentVars, senderVars, fileStart, totalLength>>
          /\ rpc' = IF Extension \in Range(Buffer(fileNameLength, m))
                    THEN "apikey" ELSE "caught"
        BY <1>2 DEF Receiving, bodyVars
    <2>2. /\ SenderInv' /\ UNCHANGED <<length, name, written, KeyAt>> /\ written \in Nat
          /\ KeyAt = NameAt + Len(name) /\ Len(name) \in Nat /\ NameAt \in Nat
        BY <2>1, ReceiverLeaves
    <2>3. /\ pos \in Nat /\ totalLength = 0 /\ fileNameLength \in Int /\ fileLength \in Int
          /\ pos = NameAt => fileLength = ToInt32(GetBytes(length, LongSize))
          /\ fileStart \in Nat
        BY <2>1 DEF ReceiverInv
    <2>4. m \in Nat /\ pos + m <= written
        BY <2>3, Reads
    <2>5. pos' \in Nat /\ pos' <= written'
        BY <1>2, <2>2, <2>3, <2>4
    <2>6. ASSUME rpc' = "apikey"
          PROVE  0 \in Range(fileName') \/ (Named' /\ pos' = KeyAt')
        <3>1. Extension \in Range(Buffer(fileNameLength, m))
            BY <2>1, <2>6
        <3>2. \/ 0 \in Range(Buffer(fileNameLength, m))
              \/ pos = NameAt /\ m = Len(name) /\ Buffer(fileNameLength, m) = name
            BY <2>1, <3>1, NameRead
        <3>. QED
            BY <1>2, <2>2, <2>3, <3>2 DEF Named
    <2>. QED
        BY <1>2, <2>1, <2>2, <2>3, <2>5, <2>6 DEF ReceiverInv, ReceiverPlaces
<1>. QED
    BY <1>1, <1>2 DEF ReceiveName

LEMMA ReceiveApikeyStep ==
    ASSUME SenderInv, ReceiverInv, ReceiveApikey
    PROVE  SenderInv' /\ ReceiverInv'
<1>1. PICK m \in ReadCounts(IntSize) :
          /\ rpc = "apikey" /\ rpc' = "create"
          /\ UNCHANGED <<sentVars, senderVars, link>>
          /\ apikey' = ToInt32(Buffer(IntSize, m)) /\ pos' = pos + m
          /\ UNCHANGED <<fileLength, fileNameLength, fileName, bodyVars>>
    BY DEF ReceiveApikey, Receiving
<1>2. /\ SenderInv' /\ UNCHANGED <<length, name, key, written, KeyAt, BodyAt>>
      /\ written \in Nat /\ IntSize \in Nat /\ KeyAt \in Nat /\ BodyAt = KeyAt + IntSize
    BY <1>1, ReceiverLeaves
<1>3. m \in Nat /\ m <= IntSize /\ pos + m <= written
    BY <1>1, NumberRead
<1>4. /\ pos \in Nat /\ totalLength = 0 /\ UNCHANGED <<fileStart, totalLength>>
      /\ 0 \in Range(fileName) \/ (Named /\ pos = KeyAt)
    BY <1>1 DEF ReceiverInv, bodyVars
<1>5. Named => Named'
    BY <1>1, <1>2 DEF Named
<1>6. ASSUME pos = KeyAt, pos' = BodyAt PROVE apikey' = key'
    <2>1. m = IntSize
        BY <1>1, <1>2, <1>3, <1>6
    <2>2. Part(Wire, KeyAt, GetBytes(key, IntSize), IntSize) /\ key \in HeaderValues
        BY WireBytes, SentTypes DEF SenderInv
    <2>3. Buffer(IntSize, m) = GetBytes(key, IntSize)
        BY <1>6, <2>1, <2>2, NumberRead
    <2>4. ToInt32(GetBytes(key, IntSize)) = key
        BY <2>2, SizesAssumption, BitConverterAssumption DEF SenderInv, Sent
    <2>. QED
        BY <1>1, <1>2, <2>3, <2>4
<1>7. \/ 0 \in Range(fileName')
      \/ /\ Named' /\ KeyAt' <= pos' /\ pos' <= BodyAt'
         /\ pos' = BodyAt' => apikey' = key'
    BY <1>1, <1>2, <1>3, <1>4, <1>5, <1>6
<1>. QED
    BY <1>1, <1>2, <1>3, <1>4, <1>7 DEF ReceiverInv, ReceiverPlaces

LEMMA CreateFileStep ==
    ASSUME SenderInv, ReceiverInv, CreateFile
    PROVE  SenderInv' /\ ReceiverInv'
<1>1. CASE Throws("create")
    BY <1>1, ReceiverLeaves, Ends DEF Throws, Receiving
<1>2. CASE /\ 0 \notin Range(fileName) /\ Receiving("create", "body")
           /\ fileStart' = pos /\ UNCHANGED <<pos, headerVars, totalLength>>
    <2>1. /\ rpc = "create" /\ rpc' = "body" /\ fileStart' = pos
          /\ UNCHANGED <<sentVars, senderVars>>
          /\ UNCHANGED <<pos, fileLength, fileNameLength, fileName, apikey, totalLength>>
        BY <1>2 DEF Receiving, headerVars
    <2>2. SenderInv' /\ UNCHANGED <<length, name, key, written, KeyAt, BodyAt>>
        BY <2>1, ReceiverLeaves
    <2>3. /\ Named /\ KeyAt <= pos /\ pos <= BodyAt /\ totalLength = 0
          /\ pos = BodyAt => apikey = key
        BY <1>2, <2>1 DEF ReceiverInv
    <2>4. Named'
        BY <2>1, <2>2, <2>3 DEF Named
    <2>. QED
        BY <2>1, <2>2, <2>3, <2>4 DEF ReceiverInv, ReceiverPlaces
<1>. QED
    BY <1>1, <1>2 DEF CreateFile

LEMMA ReceiveBodyStep ==
    ASSUME SenderInv, ReceiverInv, ReceiveBody
    PROVE  SenderInv' /\ ReceiverInv'
<1>1. PICK m \in ReadCounts(Chunk) :
          /\ rpc = "body" /\ rpc' = "body" /\ UNCHANGED <<sentVars, senderVars>>
          /\ pos' = pos + m /\ totalLength' = totalLength + m
          /\ UNCHANGED <<fileLength, fileNameLength, fileName, apikey, fileStart>>
    BY DEF ReceiveBody, Receiving, headerVars
<1>2. /\ SenderInv' /\ UNCHANGED <<length, name, key, written, KeyAt, BodyAt>>
      /\ written \in Nat
    BY <1>1, ReceiverLeaves
<1>3. m \in Nat /\ pos + m <= written
    BY Reads, SizesAssumption
<1>4. /\ Named /\ KeyAt <= fileStart /\ fileStart <= BodyAt
      /\ fileStart = BodyAt => apikey = key
      /\ pos = fileStart + totalLength
      /\ pos \in Nat /\ fileStart \in Nat /\ totalLength \in Nat
      /\ fileLength \in Int /\ fileNameLength \in Int
    BY <1>1 DEF ReceiverInv
<1>5. Named'
    BY <1>1, <1>2, <1>4 DEF Named
<1>6. /\ pos' \in Nat /\ pos' <= written' /\ totalLength' \in Nat
      /\ pos' = fileStart' + totalLength'
    BY <1>1, <1>2, <1>3, <1>4
<1>7. rpc' = "body" /\ rpc' \in ReceiverPlaces
    BY <1>1 DEF ReceiverPlaces
<1>. QED
    BY <1>1, <1>2, <1>4, <1>5, <1>6, <1>7 DEF ReceiverInv

LEMMA BodyReceivedStep ==
    ASSUME SenderInv, ReceiverInv, BodyReceived
    PROVE  SenderInv' /\ ReceiverInv'
<1>1. /\ rpc = "body" /\ rpc' = "record" /\ UNCHANGED <<sentVars, senderVars>>
      /\ totalLength >= fileLength
      /\ UNCHANGED <<pos, fileLength, fileNameLength, fileName, apikey, fileStart, totalLength>>
    BY DEF BodyReceived, Receiving, headerVars, bodyVars
<1>2. SenderInv' /\ UNCHANGED <<length, name, key, written, KeyAt, BodyAt>>
    BY <1>1, ReceiverLeaves
<1>3. UNCHANGED Named
    BY <1>1, <1>2 DEF Named
<1>. QED
    BY <1>1, <1>2, <1>3 DEF ReceiverInv, ReceiverPlaces

-----------------------------------------------------------------------------
LEMMA TransferInvInit == Init => TransferInv
<1>. SUFFICES ASSUME Init PROVE TransferInv
    OBVIOUS
<1>1. Sent /\ length \in Nat /\ BodyAt \in Nat
    BY SentTypes DEF Init, Sent
<1>. QED
    BY <1>1 DEF Init, TransferInv, SenderInv, ReceiverInv, SenderPlaces, ReceiverPlaces

LEMMA TransferInvNext == TransferInv /\ [Next]_vars => TransferInv'
<1>. SUFFICES ASSUME SenderInv, ReceiverInv, [Next]_vars PROVE SenderInv' /\ ReceiverInv'
    BY DEF TransferInv
<1>1. CASE Sender \/ SenderThrows \/ SenderFinalized \/ Reset
    <2>1. UNCHANGED <<sentVars, receiverVars>>
        BY <1>1 DEF Sender, SendLength, SendName, SendApikey, FileSend, Write, Close,
                    SenderThrows, SenderFinalized, Reset
    <2>. QED
        BY <1>1, <2>1, SenderStep, ReceiverKeeps
<1>2. CASE ReceiveLength
    BY <1>2, ReceiveLengthStep
<1>3. CASE ReceiveNameLength
    BY <1>3, ReceiveNameLengthStep
<1>4. CASE ReceiveName
    BY <1>4, ReceiveNameStep
<1>5. CASE ReceiveApikey
    BY <1>5, ReceiveApikeyStep
<1>6. CASE CreateFile
    BY <1>6, CreateFileStep
<1>7. CASE ReceiveBody
    BY <1>7, ReceiveBodyStep
<1>8. CASE BodyReceived
    BY <1>8, BodyReceivedStep
<1>9. CASE ReadThrows \/ WriteThrows \/ Dispose
    <2>1. /\ UNCHANGED <<sentVars, senderVars, pos, headerVars, bodyVars>>
          /\ rpc' \in {"caught", "disposed"}
        BY <1>9 DEF ReadThrows, WriteThrows, Dispose, Throws, Receiving
    <2>. QED
        BY <2>1, ReceiverLeaves, Ends
<1>10. CASE UNCHANGED vars
    <2>1. UNCHANGED <<sentVars, senderVars, receiverVars>>
        BY <1>10 DEF vars
    <2>2. SenderInv' /\ written' = written /\ written \in Nat
        BY <2>1, ReceiverLeaves
    <2>. QED
        BY <2>1, <2>2, ReceiverKeeps
<1>. QED
    BY <1>1, <1>2, <1>3, <1>4, <1>5, <1>6, <1>7, <1>8, <1>9, <1>10 DEF Next, Receive

LEMMA TransferInvHolds == Spec => []TransferInv
BY TransferInvInit, TransferInvNext, PTL DEF Spec

\* Receive creates a file only under the name and with the length that were sent,
\* and no header bytes but those of the API key can end up in it, however the
\* stream is cut up by Reads whose results Receive does not look at, and wherever
\* the sender or the connection fails.
THEOREM HeaderReadRight == Spec => []OnlyKeyBytesSlip
<1>1. TransferInv => OnlyKeyBytesSlip
    <2>. SUFFICES ASSUME TransferInv, rpc \in {"body", "record"}
                  PROVE  /\ fileName = name
                         /\ fileLength = ToInt32(GetBytes(length, LongSize))
                         /\ Len(Header) - IntSize <= fileStart /\ fileStart <= Len(Header)
        BY DEF OnlyKeyBytesSlip
    <2>1. /\ Named /\ KeyAt <= fileStart /\ fileStart <= BodyAt
        BY DEF TransferInv, ReceiverInv
    <2>2. Len(Header) = BodyAt /\ BodyAt = KeyAt + IntSize /\ KeyAt \in Nat /\ IntSize \in Nat
        BY WireBytes, SentTypes DEF TransferInv, SenderInv, BodyAt
    <2>. QED
        BY <2>1, <2>2 DEF Named
<1>. QED
    BY <1>1, TransferInvHolds, PTL

\* A file that Receive hands to the database, with its API key taken in one piece
\* and a length that fits an int, is the whole file: the loop ends only when the
\* last byte has come, and the sender never writes one more.
THEOREM BrokenTransferNotRecorded == Spec => []RecordedFileIsWhole
<1>1. TransferInv => RecordedFileIsWhole
    <2>. SUFFICES ASSUME TransferInv, rpc = "record", fileStart = Len(Header), IsInt32(length)
                  PROVE  totalLength = length /\ written = Len(Wire) /\ apikey = key
        BY DEF RecordedFileIsWhole
    <2>1. /\ Len(Header) = BodyAt /\ Len(Wire) = BodyAt + length
          /\ BodyAt \in Nat /\ length \in Nat /\ length \in HeaderValues
        BY WireBytes, SentTypes DEF TransferInv, SenderInv
    <2>2. ToInt32(GetBytes(length, LongSize)) = length
        BY <2>1, BitConverterAssumption
    <2>3. /\ fileLength = length /\ totalLength >= fileLength
          /\ fileStart = BodyAt /\ apikey = key /\ pos = fileStart + totalLength
          /\ pos <= written /\ totalLength \in Nat /\ pos \in Nat
        BY <2>1, <2>2 DEF TransferInv, ReceiverInv, Named
    <2>4. written \in Nat /\ written <= BodyAt + length
        BY DEF TransferInv, SenderInv
    <2>. QED
        BY <2>1, <2>3, <2>4
<1>. QED
    BY <1>1, TransferInvHolds, PTL
=============================================================================
