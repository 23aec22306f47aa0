------------------------ MODULE EchoConnectionProofs ------------------------
(***************************************************************************)
(* For values, strings and streams of every size: no loop of a connection  *)
(* leaves its buffer, nothing is left over in a request that is read       *)
(* again, the client gets back what it wrote, and the connection           *)
(* implements EchoService.                                                 *)
(***************************************************************************)
EXTENDS EchoConnection, SequenceTheorems, TLAPS

(* The bytes that the buffers and the streams may hold.  Only sizes of     *)
(* texts that the model bounds are ever encoded.                           *)
Byte ==
  {TextByte(m, k) : m \in Nat, k \in Nat}
    \cup {SizeByte(n, k) : n \in 0..MaxText, k \in Nat} \cup {ZeroByte}

Buffer == [data : Seq(Byte), extracted : Nat]

-----------------------------------------------------------------------------
(* The buffers. *)

LEMMA SequenceOfLength ==
  ASSUME NEW S, NEW n \in Nat, NEW f \in [1..n -> S]
  PROVE  f \in Seq(S) /\ Len(f) = n
<1>1. f \in Seq(S)
  BY SeqDef
<1>2. QED
  BY <1>1, LenProperties

LEMMA SubSeqType ==
  ASSUME NEW S, NEW s \in Seq(S), NEW j \in Nat, NEW k \in Nat, j <= k, k <= Len(s)
  PROVE  /\ SubSeq(s, j + 1, k) \in Seq(S)
         /\ Len(SubSeq(s, j + 1, k)) = k - j
         /\ \A i \in 1..(k - j) : SubSeq(s, j + 1, k)[i] = s[j + i]
<1>1. \A i \in (j + 1)..k : s[i] \in S
  BY LenProperties
<1>2. /\ SubSeq(s, j + 1, k) \in Seq(S)
      /\ Len(SubSeq(s, j + 1, k)) = IF j + 1 <= k THEN k - (j + 1) + 1 ELSE 0
      /\ \A i \in 1..(k - (j + 1) + 1) : SubSeq(s, j + 1, k)[i] = s[(j + 1) + i - 1]
  BY <1>1, SubSeqProperties
<1>3. QED
  BY <1>2

LEMMA ByteType ==
  /\ ZeroByte \in Byte
  /\ \A m, k \in Nat : TextByte(m, k) \in Byte
  /\ \A n \in 0..MaxText, k \in Nat : SizeByte(n, k) \in Byte
BY DEF Byte

(* resize makes a buffer of the new length whose bytes, as far as it had   *)
(* any, are the old ones.                                                  *)
LEMMA ResizeType ==
  ASSUME NEW q \in Buffer, NEW n \in Nat
  PROVE  /\ Resize(q, n) \in Buffer
         /\ Resize(q, n).extracted = q.extracted
         /\ Len(Resize(q, n).data) = n
<1> DEFINE f == [i \in 1..n |-> IF i <= Len(q.data) THEN q.data[i] ELSE ZeroByte]
<1>1. Resize(q, n) = [q EXCEPT !.data = f]
  BY DEF Resize
<1>2. \A i \in 1..n : i <= Len(q.data) => q.data[i] \in Byte
  BY LenProperties DEF Buffer
<1>3. f \in [1..n -> Byte]
  BY <1>2, ByteType
<1>4. f \in Seq(Byte) /\ Len(f) = n
  BY <1>3, SequenceOfLength
<1> HIDE DEF f
<1>5. QED
  BY <1>1, <1>4 DEF Buffer

(* The bytes that a socket delivers go where the loop has come to. *)
LEMMA StoreType ==
  ASSUME NEW q \in Buffer, NEW at \in Nat, NEW bytes \in Seq(Byte),
         at + Len(bytes) <= Len(q.data)
  PROVE  /\ Store(q, at, bytes) \in Buffer
         /\ Store(q, at, bytes).extracted = q.extracted
         /\ Len(Store(q, at, bytes).data) = Len(q.data)
         /\ \A j \in 1..at : Store(q, at, bytes).data[j] = q.data[j]
         /\ \A j \in 1..Len(bytes) : Store(q, at, bytes).data[at + j] = bytes[j]
<1> DEFINE f == [j \in 1..Len(q.data) |->
                   IF j \in at + 1 .. at + Len(bytes) THEN bytes[j - at] ELSE q.data[j]]
<1>1. Store(q, at, bytes) = [q EXCEPT !.data = f]
  BY DEF Store
<1>2. Len(q.data) \in Nat /\ Len(bytes) \in Nat
  BY LenProperties DEF Buffer
<1>3. \A j \in 1..Len(q.data) : q.data[j] \in Byte
  BY LenProperties DEF Buffer
<1>4. \A j \in 1..Len(bytes) : bytes[j] \in Byte
  BY LenProperties
<1>5. \A j \in at + 1 .. at + Len(bytes) : j - at \in 1..Len(bytes)
  BY <1>2
<1>6. f \in [1..Len(q.data) -> Byte]
  BY <1>3, <1>4, <1>5
<1>7. f \in Seq(Byte) /\ Len(f) = Len(q.data)
  BY <1>2, <1>6, SequenceOfLength
<1>8. \A j \in 1..at : f[j] = q.data[j]
  BY <1>2
<1>9. \A j \in 1..Len(bytes) : f[at + j] = bytes[j]
  <2> TAKE j \in 1..Len(bytes)
  <2>1. at + j \in 1..Len(q.data) /\ at + j \in at + 1 .. at + Len(bytes)
        /\ (at + j) - at = j
    BY <1>2
  <2>2. QED
    BY <2>1
<1> HIDE DEF f
<1>10. QED
  BY <1>1, <1>7, <1>8, <1>9 DEF Buffer

(* A buffer whose bytes were all extracted is empty once it is shrunk. *)
LEMMA ShrinkEmpties ==
  ASSUME NEW q \in Buffer, q.extracted = Len(q.data)
  PROVE  Shrink(q) = Empty
<1>1. Len(q.data) \in Nat
  BY LenProperties DEF Buffer
<1>2. SubSeq(q.data, q.extracted + 1, Len(q.data)) = <<>>
  BY <1>1, SubSeqEmpty
<1>3. QED
  BY <1>2 DEF Shrink, Empty

LEMMA ExtractType ==
  ASSUME NEW q \in Buffer, NEW n \in Nat, HasData(q, n)
  PROVE  /\ Extract(q, n) \in Buffer
         /\ Extract(q, n).extracted = q.extracted + n
         /\ Extract(q, n).data = q.data
         /\ Extracted(q, n) \in Seq(Byte) /\ Len(Extracted(q, n)) = n
         /\ \A i \in 1..n : Extracted(q, n)[i] = q.data[q.extracted + i]
<1>1. /\ q.extracted \in Nat /\ q.extracted + n \in Nat
      /\ q.extracted <= q.extracted + n /\ q.extracted + n <= Len(q.data)
      /\ (q.extracted + n) - q.extracted = n
      /\ q.data \in Seq(Byte)
  BY DEF Buffer, HasData
<1>2. Extract(q, n) = [data |-> q.data, extracted |-> q.extracted + n]
  BY DEF Extract, Buffer
<1>3. /\ SubSeq(q.data, q.extracted + 1, q.extracted + n) \in Seq(Byte)
      /\ Len(SubSeq(q.data, q.extracted + 1, q.extracted + n)) = n
      /\ \A i \in 1..n :
           SubSeq(q.data, q.extracted + 1, q.extracted + n)[i] = q.data[q.extracted + i]
  <2>1. PICK d \in Seq(Byte), j \in Nat, k \in Nat :
          d = q.data /\ j = q.extracted /\ k = q.extracted + n
    BY <1>1
  <2>2. j <= k /\ k <= Len(d) /\ k - j = n
    BY <1>1, <2>1
  <2>3. /\ SubSeq(d, j + 1, k) \in Seq(Byte) /\ Len(SubSeq(d, j + 1, k)) = k - j
        /\ \A i \in 1..(k - j) : SubSeq(d, j + 1, k)[i] = d[j + i]
    BY <2>2, SubSeqType
  <2>4. QED
    BY <2>1, <2>2, <2>3
<1>4. /\ Extract(q, n) \in Buffer
      /\ Extract(q, n).extracted = q.extracted + n /\ Extract(q, n).data = q.data
  BY <1>1, <1>2 DEF Buffer
<1>5. QED
  BY <1>3, <1>4 DEF Extracted

(* put_data at the end of a response appends. *)
LEMMA PutAtEnd ==
  ASSUME NEW s \in Seq(Byte), NEW bytes
  PROVE  PutData(s, bytes, Len(s)) = {s \o bytes}
<1>1. Len(s) \in Nat
  BY LenProperties
<1>2. QED
  BY <1>1 DEF PutData

LEMMA EmptyBuffer == Empty \in Buffer /\ Empty.extracted = 0 /\ Len(Empty.data) = 0
BY EmptySeq DEF Empty, Buffer

-----------------------------------------------------------------------------
(* The encoding. *)

LEMMA SizeType ==
  ASSUME NEW n \in 0..MaxText
  PROVE  /\ Size(n) \in Seq(Byte) /\ Len(Size(n)) = SizeBytes
         /\ \A k \in 1..SizeBytes : Size(n)[k] = SizeByte(n, k)
<1>1. Size(n) \in [1..SizeBytes -> Byte]
  BY ByteType, SizeBytesAssumption DEF Size
<1>2. QED
  BY <1>1, SequenceOfLength, SizeBytesAssumption DEF Size

LEMMA TextType ==
  ASSUME NEW m \in Nat, NEW n \in Nat
  PROVE  Text(m, n) \in Seq(Byte) /\ Len(Text(m, n)) = n
<1>1. Text(m, n) \in [1..n -> Byte]
  BY ByteType DEF Text
<1>2. QED
  BY <1>1, SequenceOfLength

(* The bytes of a number decode to it, and whatever bytes are decoded, the *)
(* number is one that may have been encoded, or the other one.             *)
LEMMA NumberOfSize ==
  ASSUME NEW n \in 0..MaxText, NEW other
  PROVE  Number(Size(n), other) = n
<1>1. Size(n)[1] = SizeByte(n, 1)
  BY SizeBytesAssumption DEF Size
<1>2. Size(n)[1][2] = n
  BY <1>1 DEF SizeByte
<1>3. QED
  BY <1>2 DEF Number

LEMMA NumberType ==
  ASSUME NEW bytes \in Seq(Byte), Len(bytes) = SizeBytes
  PROVE  Number(bytes, MaxText) \in 0..MaxText
<1> DEFINE n == bytes[1][2]
<1>1. CASE bytes = Size(n)
  <2>1. bytes[1] = SizeByte(n, 1)
    BY <1>1, SizeBytesAssumption DEF Size
  <2>2. bytes[1] \in Byte
    BY LenProperties, SizeBytesAssumption
  <2>3. PICK k \in 0..MaxText, j \in Nat : bytes[1] = SizeByte(k, j)
    BY <2>1, <2>2 DEF Byte, TextByte, SizeByte, ZeroByte
  <2>4. n = k
    BY <2>3 DEF SizeByte
  <2>5. QED
    BY <1>1, <2>4 DEF Number
<1>2. CASE bytes # Size(n)
  BY <1>2, BoundAssumption DEF Number
<1>3. QED
  BY <1>1, <1>2

(* A value is written as it is, a string behind its size. *)
LEMMA EncodedType ==
  ASSUME NEW text \in Seq(Byte), processor = "value" \/ Len(text) <= MaxText
  PROVE  /\ Encoded(text) \in Seq(Byte)
         /\ processor = "value" => Encoded(text) = text
         /\ processor # "value" =>
              /\ Encoded(text) = Size(Len(text)) \o text
              /\ Len(Encoded(text)) = SizeBytes + Len(text)
<1>1. Len(text) \in Nat
  BY LenProperties
<1>2. CASE processor = "value"
  BY <1>2 DEF Encoded
<1>3. CASE processor # "value"
  <2>1. Len(text) \in 0..MaxText
    BY <1>1, <1>3, BoundAssumption
  <2>2. Size(Len(text)) \in Seq(Byte) /\ Len(Size(Len(text))) = SizeBytes
    BY <2>1, SizeType
  <2>3. QED
    BY <1>3, <2>2, ConcatProperties DEF Encoded, String
<1>4. QED
  BY <1>2, <1>3

-----------------------------------------------------------------------------
(* The first invariant: types, and how full each buffer is. *)

BytesOK ==
  /\ wrote \in Seq(Seq(Byte)) /\ got \in Seq(Seq(Byte))
  /\ response \in Seq(Byte) /\ response_ \in Seq(Byte)
  /\ toServer \in Seq(Byte) /\ toClient \in Seq(Byte)
  /\ request \in Buffer /\ request_ \in Buffer
  /\ moved \in Nat /\ transferred \in Nat

(* The calls that wait for a value. *)
Busy == doing \in {"extracting", "sending", "receiving", "received"}

(* The client's request is used up when it is written to, and holds, from  *)
(* then on, room for exactly what is missing.                              *)
ClientBuffers ==
  /\ clientOpen <=> doing # "gone"
  /\ Busy => \/ part = FirstPart /\ need = FirstBytes
             \/ part = "text" /\ processor = "string" /\ need <= MaxText
  /\ doing \in {"idle", "extracting", "sending"} =>
       request.extracted = Len(request.data)
  /\ doing \in {"receiving", "received"} =>
       request.extracted = 0 /\ Len(request.data) = need
  /\ doing = "received" => moved = need

(* The request of the server is read from its beginning. *)
ServerBuffers ==
  /\ serverOpen <=> op # "none"
  /\ reading => request_.extracted = 0
  /\ op = "read_value" => processor = "value" /\ Len(request_.data) = ValueBytes
  /\ op = "read_size" => processor = "string" /\ Len(request_.data) = SizeBytes
  /\ op = "read_text" => processor = "string" /\ Len(request_.data) <= MaxText

BufferInv == TypeOK /\ BytesOK /\ ClientBuffers /\ ServerBuffers

(* What a step of one end leaves to the other. *)
LEMMA ServerUntouched ==
  ASSUME ServerBuffers, UNCHANGED <<server, serverOpen, processor>>
  PROVE  ServerBuffers'
BY DEF ServerBuffers, server, reading

LEMMA ClientUntouched ==
  ASSUME ClientBuffers, UNCHANGED <<client, clientOpen, processor>>
  PROVE  ClientBuffers'
BY DEF ClientBuffers, client, Busy, FirstPart, FirstBytes

(* What TypeOK says of the client, of the server, and of the rest. *)
ClientTypes ==
  /\ doing \in {"idle", "extracting", "sending", "receiving", "received",
                "closing", "gone"}
  /\ part \in {"value", "size", "text"} /\ need \in 0..MaxText + SizeBytes + ValueBytes
  /\ doing \in {"sending", "closing"} => moved <= Len(response)
  /\ doing = "receiving" => moved <= Len(request.data)
  /\ request.extracted <= Len(request.data)

ServerTypes ==
  /\ op \in {"read_value", "read_size", "read_text", "write", "none"}
  /\ reading => transferred <= Len(request_.data)
  /\ op = "write" => transferred <= Len(response_)
  /\ request_.extracted <= Len(request_.data)

SocketTypes ==
  /\ processor \in {"value", "string"} /\ closes \in BOOLEAN
  /\ Len(toServer) <= Capacity /\ Len(toClient) <= Capacity
  /\ clientOpen \in BOOLEAN /\ serverOpen \in BOOLEAN /\ reset \in BOOLEAN

LEMMA TypesSplit == TypeOK <=> ClientTypes /\ ServerTypes /\ SocketTypes
BY DEF TypeOK, ClientTypes, ServerTypes, SocketTypes

LEMMA ServerTypesUntouched ==
  ASSUME ServerTypes, UNCHANGED server
  PROVE  ServerTypes'
BY DEF ServerTypes, server, reading

LEMMA ClientTypesUntouched ==
  ASSUME ClientTypes, UNCHANGED client
  PROVE  ClientTypes'
BY DEF ClientTypes, client

(* The lengths that an action compares are numbers. *)
LEMMA Lengths ==
  ASSUME BytesOK
  PROVE  /\ Len(response) \in Nat /\ Len(response_) \in Nat
         /\ Len(toServer) \in Nat /\ Len(toClient) \in Nat
         /\ request.data \in Seq(Byte) /\ Len(request.data) \in Nat
         /\ request.extracted \in Nat
         /\ request_.data \in Seq(Byte) /\ Len(request_.data) \in Nat
         /\ request_.extracted \in Nat
         /\ Len(got) \in Nat /\ Len(wrote) \in Nat
BY LenProperties DEF BytesOK, Buffer

(* The loops over send and receive: k bytes leave the front of one         *)
(* sequence, and the end of another gains them.                            *)
LEMMA TakeFront ==
  ASSUME NEW s \in Seq(Byte), NEW k \in Nat, k <= Len(s)
  PROVE  /\ SubSeq(s, 1, k) \in Seq(Byte) /\ Len(SubSeq(s, 1, k)) = k
         /\ \A j \in 1..k : SubSeq(s, 1, k)[j] = s[j]
         /\ SubSeq(s, k + 1, Len(s)) \in Seq(Byte)
         /\ Len(SubSeq(s, k + 1, Len(s))) = Len(s) - k
         /\ \A j \in 1..(Len(s) - k) : SubSeq(s, k + 1, Len(s))[j] = s[k + j]
<1>1. Len(s) \in Nat /\ 0 \in Nat /\ 0 <= k /\ 0 + 1 = 1 /\ k - 0 = k
  BY LenProperties
<1>2. /\ SubSeq(s, 0 + 1, k) \in Seq(Byte) /\ Len(SubSeq(s, 0 + 1, k)) = k - 0
      /\ \A j \in 1..(k - 0) : SubSeq(s, 0 + 1, k)[j] = s[0 + j]
  BY <1>1, SubSeqType
<1>3. \A j \in 1..k : 0 + j = j
  OBVIOUS
<1>4. QED
  BY <1>1, <1>2, <1>3, SubSeqType

LEMMA AppendPiece ==
  ASSUME NEW t \in Seq(Byte), NEW s \in Seq(Byte), NEW at \in Nat, NEW k \in Nat,
         at + k <= Len(s)
  PROVE  /\ t \o SubSeq(s, at + 1, at + k) \in Seq(Byte)
         /\ Len(t \o SubSeq(s, at + 1, at + k)) = Len(t) + k
         /\ \A j \in 1..Len(t) : (t \o SubSeq(s, at + 1, at + k))[j] = t[j]
         /\ \A j \in 1..k : (t \o SubSeq(s, at + 1, at + k))[Len(t) + j] = s[at + j]
<1> DEFINE u == SubSeq(s, at + 1, at + k)
<1>1. at + k \in Nat /\ at <= at + k /\ (at + k) - at = k /\ Len(t) \in Nat
  BY LenProperties
<1>2. u \in Seq(Byte) /\ Len(u) = k /\ \A j \in 1..k : u[j] = s[at + j]
  BY <1>1, SubSeqType
<1> HIDE DEF u
<1>3. /\ t \o u \in Seq(Byte) /\ Len(t \o u) = Len(t) + k
      /\ \A j \in 1..(Len(t) + k) :
           (t \o u)[j] = IF j <= Len(t) THEN t[j] ELSE u[j - Len(t)]
  BY <1>2, ConcatProperties
<1>4. \A j \in 1..Len(t) : (t \o u)[j] = t[j]
  BY <1>1, <1>3
<1>5. \A j \in 1..k : (t \o u)[Len(t) + j] = u[j]
  BY <1>1, <1>3
<1>6. QED
  BY <1>2, <1>3, <1>4, <1>5 DEF u

-----------------------------------------------------------------------------
LEMMA ClientSteps ==
  ASSUME BufferInv, UNCHANGED <<processor, closes, server, serverOpen>>,
         ClientTypes', SocketTypes', BytesOK', ClientBuffers'
  PROVE  BufferInv'
<1>1. ServerTypes' /\ ServerBuffers'
  BY TypesSplit, ServerTypesUntouched, ServerUntouched DEF BufferInv
<1>2. TypeOK'
  BY <1>1 DEF TypeOK, ClientTypes, ServerTypes, SocketTypes
<1>3. QED
  BY <1>1, <1>2 DEF BufferInv

LEMMA ServerSteps ==
  ASSUME BufferInv, UNCHANGED <<processor, closes, client, clientOpen>>,
         ServerTypes', SocketTypes', BytesOK', ServerBuffers'
  PROVE  BufferInv'
<1>1. ClientTypes' /\ ClientBuffers'
  BY TypesSplit, ClientTypesUntouched, ClientUntouched DEF BufferInv
<1>2. TypeOK'
  BY <1>1 DEF TypeOK, ClientTypes, ServerTypes, SocketTypes
<1>3. QED
  BY <1>1, <1>2 DEF BufferInv

LEMMA FirstNeed ==
  ASSUME SocketTypes
  PROVE  /\ FirstBytes \in Nat \ {0} /\ FirstBytes <= MaxText + SizeBytes + ValueBytes
         /\ FirstBytes \in 0..MaxText + SizeBytes + ValueBytes
         /\ FirstPart \in {"value", "size"} /\ FirstRead \in {"read_value", "read_size"}
BY BoundAssumption, SizeBytesAssumption DEF FirstBytes, FirstPart, FirstRead

(* A written value: its text, and what it adds to the response. *)
LEMMA WriteAdds ==
  ASSUME BufferInv, Write
  PROVE  \E text \in Seq(Byte) :
           /\ processor = "value" => Len(text) = ValueBytes
           /\ processor # "value" => Len(text) <= MaxText
           /\ wrote' = Append(wrote, text)
           /\ response' = response \o Encoded(text)
           /\ Encoded(text) \in Seq(Byte)
<1>1. PICK n \in IF processor = "value" THEN {ValueBytes} ELSE 0..MaxText :
        LET text == Text(Len(wrote) + 1, n)
        IN /\ wrote' = Append(wrote, text)
           /\ response' \in PutData(response, Encoded(text), Len(response))
  BY DEF Write
<1> DEFINE text == Text(Len(wrote) + 1, n)
<1>2. n \in Nat /\ (processor = "value" => n = ValueBytes)
      /\ (processor # "value" => n <= MaxText)
  BY BoundAssumption
<1>3. Len(wrote) + 1 \in Nat
  BY Lengths DEF BufferInv
<1>4. text \in Seq(Byte) /\ Len(text) = n
  BY <1>2, <1>3, TextType
<1> HIDE DEF text
<1>5. Encoded(text) \in Seq(Byte)
  BY <1>2, <1>4, EncodedType
<1>6. wrote' = Append(wrote, text) /\ response' = response \o Encoded(text)
  BY <1>1, PutAtEnd DEF text, BufferInv, BytesOK
<1>7. QED
  BY <1>2, <1>4, <1>5, <1>6

LEMMA BufWrite ==
  ASSUME BufferInv, UNCHANGED <<processor, closes>>, Write
  PROVE  BufferInv'
<1>1. PICK text \in Seq(Byte) :
        /\ wrote' = Append(wrote, text)
        /\ response' = response \o Encoded(text)
        /\ Encoded(text) \in Seq(Byte)
  BY WriteAdds
<1>2. wrote' \in Seq(Seq(Byte)) /\ response' \in Seq(Byte)
  BY <1>1, AppendProperties, ConcatProperties DEF BufferInv, BytesOK
<1>3. BytesOK'
  BY <1>2 DEF BufferInv, BytesOK, Write, socket, server
<1>4. ClientTypes' /\ SocketTypes'
  BY TypesSplit DEF BufferInv, ClientTypes, SocketTypes, Write, socket
<1>5. ClientBuffers'
  BY DEF BufferInv, ClientBuffers, Busy, Write, socket
<1>6. QED
  BY <1>3, <1>4, <1>5, ClientSteps DEF Write, socket

LEMMA BufRead ==
  ASSUME BufferInv, UNCHANGED <<processor, closes>>, Read
  PROVE  BufferInv'
<1>1. ClientTypes /\ SocketTypes
  BY TypesSplit DEF BufferInv
<1>2. BytesOK'
  BY DEF BufferInv, BytesOK, Read, user, socket, server
<1>3. ClientTypes' /\ SocketTypes'
  BY <1>1, FirstNeed DEF ClientTypes, SocketTypes, Read, socket
<1>4. ClientBuffers'
  BY DEF BufferInv, ClientBuffers, Busy, Read, socket, FirstPart, FirstBytes
<1>5. QED
  BY <1>2, <1>3, <1>4, ClientSteps DEF Read, socket

(* extract_data finds its bytes: they are all that is left in the request. *)
LEMMA ExtractionTakesAll ==
  ASSUME BufferInv, Extraction
  PROVE  /\ request' \in Buffer /\ request'.extracted = Len(request'.data)
         /\ request'.data = request.data
         /\ Extracted(request, need) \in Seq(Byte)
         /\ Len(Extracted(request, need)) = need /\ need \in Nat
         /\ doing = "extracting" => need = 0
         /\ part = "size" => need = SizeBytes
<1>1. ClientTypes /\ SocketTypes
  BY TypesSplit DEF BufferInv
<1>2. need \in Nat /\ request \in Buffer /\ HasData(request, need)
  BY <1>1, BoundAssumption, SizeBytesAssumption
     DEF ClientTypes, BufferInv, BytesOK, Extraction
<1>3. /\ request' \in Buffer /\ request'.extracted = request.extracted + need
      /\ request'.data = request.data
      /\ Extracted(request, need) \in Seq(Byte) /\ Len(Extracted(request, need)) = need
  BY <1>2, ExtractType DEF Extraction
<1>4. Len(request.data) \in Nat /\ request.extracted \in Nat
  BY Lengths DEF BufferInv
<1>5. doing = "extracting" => need = 0
  BY <1>2, <1>4 DEF BufferInv, ClientBuffers, HasData
<1>6. request'.extracted = Len(request'.data)
  BY <1>2, <1>3, <1>4, <1>5 DEF BufferInv, ClientBuffers, Extraction
<1>7. part = "size" => need = SizeBytes
  BY <1>1, FirstNeed
     DEF BufferInv, ClientBuffers, Busy, Extraction, FirstPart, FirstBytes, SocketTypes
<1>8. QED
  BY <1>2, <1>3, <1>5, <1>6, <1>7

LEMMA BufExtraction ==
  ASSUME BufferInv, UNCHANGED <<processor, closes>>, Extraction
  PROVE  BufferInv'
<1> DEFINE bytes == Extracted(request, need)
<1>1. ClientTypes /\ SocketTypes
  BY TypesSplit DEF BufferInv
<1>2. /\ request' \in Buffer /\ request'.extracted = Len(request'.data)
      /\ bytes \in Seq(Byte) /\ Len(bytes) = need
      /\ part = "size" => need = SizeBytes
  BY ExtractionTakesAll
<1>3. CASE part = "size"
  <2>1. Number(bytes, MaxText) \in 0..MaxText
    BY <1>2, <1>3, NumberType
  <2>2. /\ doing' = "extracting" /\ part' = "text" /\ need' = Number(bytes, MaxText)
        /\ UNCHANGED <<wrote, got, response, moved, socket, server>>
    BY <1>3 DEF Extraction
  <2>3. need' \in 0..MaxText + SizeBytes + ValueBytes /\ need' <= MaxText
    BY <2>1, <2>2, BoundAssumption, SizeBytesAssumption
  <2>4. processor = "string"
    BY <1>1, <1>3, FirstNeed
       DEF BufferInv, ClientBuffers, Busy, Extraction, FirstPart, SocketTypes
  <2>5. BytesOK'
    BY <1>2, <2>2 DEF BufferInv, BytesOK, socket, server
  <2>6. ClientTypes' /\ SocketTypes'
    BY <1>1, <1>2, <2>2, <2>3, Lengths DEF ClientTypes, SocketTypes, socket, BufferInv
  <2>7. ClientBuffers'
    BY <1>2, <2>2, <2>3, <2>4 DEF BufferInv, ClientBuffers, Busy, socket, Extraction
  <2>8. QED
    BY <2>2, <2>5, <2>6, <2>7, ClientSteps DEF socket
<1>4. CASE part # "size"
  <2>1. /\ doing' = "idle" /\ got' = Append(got, bytes)
        /\ UNCHANGED <<wrote, part, need, response, moved, socket, server>>
    BY <1>4 DEF Extraction
  <2>2. got' \in Seq(Seq(Byte))
    BY <1>2, <2>1, AppendProperties DEF BufferInv, BytesOK
  <2>3. BytesOK'
    BY <1>2, <2>1, <2>2 DEF BufferInv, BytesOK, socket, server
  <2>4. ClientTypes' /\ SocketTypes'
    BY <1>1, <1>2, <2>1 DEF ClientTypes, SocketTypes, socket
  <2>5. ClientBuffers'
    BY <1>2, <2>1 DEF BufferInv, ClientBuffers, Busy, socket, Extraction
  <2>6. QED
    BY <2>1, <2>3, <2>4, <2>5, ClientSteps DEF socket
<1>5. QED
  BY <1>3, <1>4

LEMMA BufMissing ==
  ASSUME BufferInv, UNCHANGED <<processor, closes>>, Missing
  PROVE  BufferInv'
<1>1. ClientTypes /\ SocketTypes
  BY TypesSplit DEF BufferInv
<1>2. BytesOK'
  BY DEF BufferInv, BytesOK, Missing, user, socket, server
<1>3. ClientTypes' /\ SocketTypes'
  BY <1>1, Lengths DEF BufferInv, ClientTypes, SocketTypes, Missing, socket
<1>4. ClientBuffers'
  BY DEF BufferInv, ClientBuffers, Busy, Missing, socket, FirstPart, FirstBytes
<1>5. QED
  BY <1>2, <1>3, <1>4, ClientSteps DEF Missing, socket

-----------------------------------------------------------------------------
LEMMA LeastBounds ==
  ASSUME NEW a \in Int, NEW b \in Int, NEW k \in 1..Least(a, b)
  PROVE  k \in Nat \ {0} /\ k <= a /\ k <= b
BY DEF Least

LEMMA BufSend ==
  ASSUME BufferInv, UNCHANGED <<processor, closes>>, Send
  PROVE  BufferInv'
<1>1. ClientTypes /\ SocketTypes /\ BytesOK /\ Capacity \in Nat /\ moved \in Nat
  BY TypesSplit, BoundAssumption DEF BufferInv, BytesOK
<1>2. CASE serverOpen
  <2>1. PICK k \in 1..Least(Len(response) - moved, Capacity - Len(toServer)) :
          /\ toServer' = toServer \o SubSeq(response, moved + 1, moved + k)
          /\ moved' = moved + k
          /\ UNCHANGED reset
    BY <1>2 DEF Send
  <2>2. /\ k \in Nat \ {0} /\ moved + k <= Len(response)
        /\ Len(toServer) + k <= Capacity
    BY <1>1, Lengths, LeastBounds
  <2>3. /\ toServer' \in Seq(Byte) /\ Len(toServer)' = Len(toServer) + k
    BY <1>1, <2>1, <2>2, AppendPiece DEF BytesOK
  <2>4. BytesOK'
    BY <1>1, <2>1, <2>2, <2>3 DEF BytesOK, Send, user, server
  <2>5. ClientTypes' /\ SocketTypes'
    BY <1>1, <2>1, <2>2, <2>3 DEF ClientTypes, SocketTypes, Send
  <2>6. ClientBuffers'
    BY DEF BufferInv, ClientBuffers, Busy, Send, FirstPart, FirstBytes
  <2>7. QED
    BY <2>4, <2>5, <2>6, ClientSteps DEF Send
<1>3. CASE ~serverOpen
  <2>1. moved' = Len(response) /\ reset' = TRUE /\ UNCHANGED toServer
    BY <1>3 DEF Send
  <2>2. BytesOK'
    BY <1>1, <2>1, Lengths DEF BytesOK, Send, user, server
  <2>3. ClientTypes' /\ SocketTypes'
    BY <1>1, <2>1, Lengths DEF ClientTypes, SocketTypes, Send
  <2>4. ClientBuffers'
    BY DEF BufferInv, ClientBuffers, Busy, Send, FirstPart, FirstBytes
  <2>5. QED
    BY <2>2, <2>3, <2>4, ClientSteps DEF Send
<1>4. QED
  BY <1>2, <1>3

(* The room that read makes is exactly what is missing, because nothing is *)
(* left over.                                                              *)
LEMMA SentMakesRoom ==
  ASSUME BufferInv, Sent
  PROVE  /\ request' \in Buffer /\ request'.extracted = 0
         /\ Len(request'.data) = need /\ need \in Nat
<1>1. /\ need \in Nat /\ request \in Buffer
      /\ request.extracted = Len(request.data) /\ Len(request.data) \in Nat
  BY TypesSplit, Lengths, BoundAssumption, SizeBytesAssumption
     DEF BufferInv, BytesOK, ClientTypes, ClientBuffers, Sent
<1>2. need + request.extracted - Len(request.data) = need
  BY <1>1
<1>3. request' = Resize(Empty, need)
  BY <1>1, <1>2, ShrinkEmpties DEF Sent
<1>4. QED
  BY <1>1, <1>3, EmptyBuffer, ResizeType

LEMMA BufSent ==
  ASSUME BufferInv, UNCHANGED <<processor, closes>>, Sent
  PROVE  BufferInv'
<1>1. /\ request' \in Buffer /\ request'.extracted = 0
      /\ Len(request'.data) = need /\ need \in Nat
      /\ response' = <<>> /\ response' \in Seq(Byte)
  BY SentMakesRoom, EmptySeq DEF Sent
<1>2. BytesOK'
  BY <1>1 DEF BufferInv, BytesOK, Sent, user, socket, server
<1>3. ClientTypes' /\ SocketTypes'
  BY <1>1, TypesSplit DEF BufferInv, ClientTypes, SocketTypes, Sent, socket
<1>4. ClientBuffers'
  BY <1>1 DEF BufferInv, ClientBuffers, Busy, Sent, socket, FirstPart, FirstBytes
<1>5. QED
  BY <1>2, <1>3, <1>4, ClientSteps DEF Sent, socket

(* A turn of the loop over receive. *)
LEMMA ReceiveMoves ==
  ASSUME BufferInv, Receive
  PROVE  \E k \in Nat \ {0} :
           /\ k <= Len(toClient) /\ moved' = moved + k /\ moved' <= Len(request.data)
           /\ request' \in Buffer /\ request'.extracted = request.extracted
           /\ Len(request'.data) = Len(request.data)
           /\ \A j \in 1..moved : request'.data[j] = request.data[j]
           /\ \A j \in 1..k : request'.data[moved + j] = toClient[j]
           /\ toClient' \in Seq(Byte) /\ Len(toClient') = Len(toClient) - k
           /\ \A j \in 1..(Len(toClient) - k) : toClient'[j] = toClient[k + j]
<1>1. BytesOK /\ moved \in Nat
  BY DEF BufferInv, BytesOK
<1>2. PICK k \in 1..Least(Len(request.data) - moved, Len(toClient)) :
        /\ request' = Store(request, moved, SubSeq(toClient, 1, k))
        /\ toClient' = SubSeq(toClient, k + 1, Len(toClient))
        /\ moved' = moved + k
  BY DEF Receive
<1>3. k \in Nat \ {0} /\ k <= Len(toClient) /\ moved + k <= Len(request.data)
  BY <1>1, Lengths, LeastBounds
<1> DEFINE piece == SubSeq(toClient, 1, k)
<1>4. /\ piece \in Seq(Byte) /\ Len(piece) = k
      /\ \A j \in 1..k : piece[j] = toClient[j]
      /\ toClient' \in Seq(Byte) /\ Len(toClient') = Len(toClient) - k
      /\ \A j \in 1..(Len(toClient) - k) : toClient'[j] = toClient[k + j]
  BY <1>1, <1>2, <1>3, TakeFront DEF BytesOK
<1> HIDE DEF piece
<1>5. request' = Store(request, moved, piece)
  BY <1>2 DEF piece
<1>6. request \in Buffer /\ moved + Len(piece) <= Len(request.data)
  BY <1>1, <1>3, <1>4 DEF BytesOK
<1>7. /\ Store(request, moved, piece) \in Buffer
      /\ Store(request, moved, piece).extracted = request.extracted
      /\ Len(Store(request, moved, piece).data) = Len(request.data)
      /\ \A j \in 1..moved : Store(request, moved, piece).data[j] = request.data[j]
      /\ \A j \in 1..Len(piece) :
           Store(request, moved, piece).data[moved + j] = piece[j]
  BY <1>1, <1>4, <1>6, StoreType
<1>8. /\ request' \in Buffer /\ request'.extracted = request.extracted
      /\ Len(request'.data) = Len(request.data)
      /\ \A j \in 1..moved : request'.data[j] = request.data[j]
      /\ \A j \in 1..k : request'.data[moved + j] = toClient[j]
  BY <1>4, <1>5, <1>7
<1>9. moved' = moved + k /\ moved' <= Len(request.data)
  BY <1>2, <1>3
<1>10. QED
  BY <1>3, <1>4, <1>8, <1>9

LEMMA BufReceive ==
  ASSUME BufferInv, UNCHANGED <<processor, closes>>, Receive
  PROVE  BufferInv'
<1>1. PICK k \in Nat \ {0} :
        /\ k <= Len(toClient) /\ moved' = moved + k /\ moved' <= Len(request.data)
        /\ request' \in Buffer /\ request'.extracted = request.extracted
        /\ Len(request'.data) = Len(request.data)
        /\ toClient' \in Seq(Byte) /\ Len(toClient') = Len(toClient) - k
  BY ReceiveMoves
<1>2. BytesOK'
  BY <1>1 DEF BufferInv, BytesOK, Receive, user, server
<1>3. ClientTypes' /\ SocketTypes'
  BY <1>1, TypesSplit, Lengths, BoundAssumption
     DEF BufferInv, ClientTypes, SocketTypes, Receive
<1>4. ClientBuffers'
  BY <1>1 DEF BufferInv, ClientBuffers, Busy, Receive, FirstPart, FirstBytes
<1>5. QED
  BY <1>2, <1>3, <1>4, ClientSteps DEF Receive

LEMMA BufReceived ==
  ASSUME BufferInv, UNCHANGED <<processor, closes>>, Received
  PROVE  BufferInv'
<1>1. BytesOK'
  BY DEF BufferInv, BytesOK, Received, user, socket, server
<1>2. ClientTypes' /\ SocketTypes'
  BY TypesSplit DEF BufferInv, ClientTypes, SocketTypes, Received, socket
<1>3. ClientBuffers'
  BY DEF BufferInv, ClientBuffers, Busy, Received, socket, FirstPart, FirstBytes
<1>4. QED
  BY <1>1, <1>2, <1>3, ClientSteps DEF Received, socket

LEMMA BufFail ==
  ASSUME BufferInv, UNCHANGED <<processor, closes>>, Fail
  PROVE  BufferInv'
<1>1. BytesOK'
  BY DEF BufferInv, BytesOK, Fail, user, server
<1>2. ClientTypes' /\ SocketTypes'
  BY TypesSplit DEF BufferInv, ClientTypes, SocketTypes, Fail, CloseClient
<1>3. ClientBuffers'
  BY DEF BufferInv, ClientBuffers, Busy, Fail, CloseClient
<1>4. QED
  BY <1>1, <1>2, <1>3, ClientSteps DEF Fail

LEMMA BufClose ==
  ASSUME BufferInv, UNCHANGED <<processor, closes>>, Close
  PROVE  BufferInv'
<1>1. BytesOK'
  BY DEF BufferInv, BytesOK, Close, user, socket, server
<1>2. ClientTypes' /\ SocketTypes'
  BY TypesSplit, Lengths DEF BufferInv, ClientTypes, SocketTypes, Close, socket
<1>3. ClientBuffers'
  BY DEF BufferInv, ClientBuffers, Busy, Close, socket
<1>4. QED
  BY <1>1, <1>2, <1>3, ClientSteps DEF Close, socket

LEMMA BufClosed ==
  ASSUME BufferInv, UNCHANGED <<processor, closes>>, Closed
  PROVE  BufferInv'
<1>1. BytesOK'
  BY EmptySeq DEF BufferInv, BytesOK, Closed, user, server
<1>2. ClientTypes' /\ SocketTypes'
  BY TypesSplit DEF BufferInv, ClientTypes, SocketTypes, Closed, CloseClient
<1>3. ClientBuffers'
  BY DEF BufferInv, ClientBuffers, Busy, Closed, CloseClient
<1>4. QED
  BY <1>1, <1>2, <1>3, ClientSteps DEF Closed

-----------------------------------------------------------------------------
(* A turn of async_read. *)
LEMMA ServerReceiveMoves ==
  ASSUME BufferInv, ServerReceives
  PROVE  \E k \in Nat \ {0} :
           /\ k <= Len(toServer) /\ transferred' = transferred + k
           /\ transferred' <= Len(request_.data)
           /\ request_' \in Buffer /\ request_'.extracted = request_.extracted
           /\ Len(request_'.data) = Len(request_.data)
           /\ \A j \in 1..transferred : request_'.data[j] = request_.data[j]
           /\ \A j \in 1..k : request_'.data[transferred + j] = toServer[j]
           /\ toServer' \in Seq(Byte) /\ Len(toServer') = Len(toServer) - k
           /\ \A j \in 1..(Len(toServer) - k) : toServer'[j] = toServer[k + j]
<1>1. BytesOK /\ transferred \in Nat
  BY DEF BufferInv, BytesOK
<1>2. PICK k \in 1..Least(Len(request_.data) - transferred, Len(toServer)) :
        /\ request_' = Store(request_, transferred, SubSeq(toServer, 1, k))
        /\ toServer' = SubSeq(toServer, k + 1, Len(toServer))
        /\ transferred' = transferred + k
  BY DEF ServerReceives
<1>3. k \in Nat \ {0} /\ k <= Len(toServer) /\ transferred + k <= Len(request_.data)
  BY <1>1, Lengths, LeastBounds
<1> DEFINE piece == SubSeq(toServer, 1, k)
<1>4. /\ piece \in Seq(Byte) /\ Len(piece) = k
      /\ \A j \in 1..k : piece[j] = toServer[j]
      /\ toServer' \in Seq(Byte) /\ Len(toServer') = Len(toServer) - k
      /\ \A j \in 1..(Len(toServer) - k) : toServer'[j] = toServer[k + j]
  BY <1>1, <1>2, <1>3, TakeFront DEF BytesOK
<1> HIDE DEF piece
<1>5. request_' = Store(request_, transferred, piece)
  BY <1>2 DEF piece
<1>6. request_ \in Buffer /\ transferred + Len(piece) <= Len(request_.data)
  BY <1>1, <1>3, <1>4 DEF BytesOK
<1>7. /\ Store(request_, transferred, piece) \in Buffer
      /\ Store(request_, transferred, piece).extracted = request_.extracted
      /\ Len(Store(request_, transferred, piece).data) = Len(request_.data)
      /\ \A j \in 1..transferred :
           Store(request_, transferred, piece).data[j] = request_.data[j]
      /\ \A j \in 1..Len(piece) :
           Store(request_, transferred, piece).data[transferred + j] = piece[j]
  BY <1>1, <1>4, <1>6, StoreType
<1>8. /\ request_' \in Buffer /\ request_'.extracted = request_.extracted
      /\ Len(request_'.data) = Len(request_.data)
      /\ \A j \in 1..transferred : request_'.data[j] = request_.data[j]
      /\ \A j \in 1..k : request_'.data[transferred + j] = toServer[j]
  BY <1>4, <1>5, <1>7
<1>9. transferred' = transferred + k /\ transferred' <= Len(request_.data)
  BY <1>2, <1>3
<1>10. QED
  BY <1>3, <1>4, <1>8, <1>9

LEMMA BufServerReceives ==
  ASSUME BufferInv, UNCHANGED <<processor, closes>>, ServerReceives
  PROVE  BufferInv'
<1>1. PICK k \in Nat \ {0} :
        /\ k <= Len(toServer) /\ transferred' = transferred + k
        /\ transferred' <= Len(request_.data)
        /\ request_' \in Buffer /\ request_'.extracted = request_.extracted
        /\ Len(request_'.data) = Len(request_.data)
        /\ toServer' \in Seq(Byte) /\ Len(toServer') = Len(toServer) - k
  BY ServerReceiveMoves
<1>2. BytesOK'
  BY <1>1 DEF BufferInv, BytesOK, ServerReceives, user, client
<1>3. ServerTypes' /\ SocketTypes'
  BY <1>1, TypesSplit, Lengths, BoundAssumption
     DEF BufferInv, ServerTypes, SocketTypes, ServerReceives, reading
<1>4. ServerBuffers'
  BY <1>1 DEF BufferInv, ServerBuffers, ServerReceives, reading
<1>5. QED
  BY <1>2, <1>3, <1>4, ServerSteps DEF ServerReceives

(* What a finished read puts into the response: the bytes of the request,  *)
(* behind their number if they are a string.                               *)
LEMMA OnReadPuts ==
  ASSUME BufferInv, OnRead
  PROVE  /\ response_' = response_ \o Encoded(request_.data)
         /\ Encoded(request_.data) \in Seq(Byte) /\ response_' \in Seq(Byte)
         /\ request_' \in Buffer /\ request_'.extracted <= Len(request_'.data)
<1>1. request_ \in Buffer /\ request_.data \in Seq(Byte) /\ response_ \in Seq(Byte)
  BY DEF BufferInv, BytesOK, Buffer
<1>2. processor = "value" \/ Len(request_.data) <= MaxText
  BY DEF BufferInv, ServerBuffers, OnRead
<1>3. Encoded(request_.data) \in Seq(Byte)
  BY <1>1, <1>2, EncodedType
<1>4. response_' = response_ \o Encoded(request_.data)
  BY <1>1, PutAtEnd DEF OnRead
<1>5. request_' \in Buffer /\ request_'.extracted <= Len(request_'.data)
  <2>1. CASE op = "read_value"
    <3>1. ValueBytes \in Nat /\ HasData(request_, ValueBytes) /\ request_.extracted = 0
          /\ Len(request_.data) = ValueBytes
      BY <2>1, BoundAssumption DEF BufferInv, ServerBuffers, reading, HasData
    <3>2. /\ Extract(request_, ValueBytes) \in Buffer
          /\ Extract(request_, ValueBytes).extracted = request_.extracted + ValueBytes
          /\ Extract(request_, ValueBytes).data = request_.data
      BY <1>1, <3>1, ExtractType
    <3>3. request_' = Extract(request_, ValueBytes)
      BY <2>1 DEF OnRead
    <3>4. QED
      BY <3>1, <3>2, <3>3
  <2>2. CASE op # "read_value"
    BY <1>1, <2>2, TypesSplit DEF OnRead, BufferInv, ServerTypes
  <2>3. QED
    BY <2>1, <2>2
<1>6. response_' \in Seq(Byte)
  BY <1>1, <1>3, <1>4, ConcatProperties
<1>7. QED
  BY <1>3, <1>4, <1>5, <1>6

LEMMA BufOnRead ==
  ASSUME BufferInv, UNCHANGED <<processor, closes>>, OnRead
  PROVE  BufferInv'
<1>1. /\ response_' \in Seq(Byte) /\ Len(response_') \in Nat
      /\ request_' \in Buffer /\ request_'.extracted <= Len(request_'.data)
      /\ op' = "write" /\ transferred' = 0
  BY OnReadPuts, LenProperties DEF OnRead, AsyncWrite
<1>2. BytesOK'
  BY <1>1 DEF BufferInv, BytesOK, OnRead, user, client, socket
<1>3. ServerTypes' /\ SocketTypes'
  BY <1>1, TypesSplit DEF BufferInv, ServerTypes, SocketTypes, OnRead, reading, socket
<1>4. ServerBuffers'
  BY <1>1 DEF BufferInv, ServerBuffers, OnRead, reading, socket
<1>5. QED
  BY <1>2, <1>3, <1>4, ServerSteps DEF OnRead, socket

(* async_read makes an empty request of the size asked for. *)
LEMMA AsyncReadType ==
  ASSUME NEW kind, NEW n \in Nat, AsyncRead(kind, n)
  PROVE  /\ op' = kind /\ transferred' = 0
         /\ request_' \in Buffer /\ request_'.extracted = 0
         /\ Len(request_'.data) = n
BY EmptyBuffer, ResizeType DEF AsyncRead

LEMMA BufOnRead1 ==
  ASSUME BufferInv, UNCHANGED <<processor, closes>>, OnRead1
  PROVE  BufferInv'
<1> DEFINE n == Number(Extracted(request_, SizeBytes), MaxText)
<1>1. /\ request_ \in Buffer /\ HasData(request_, SizeBytes) /\ SizeBytes \in Nat
      /\ processor = "string"
  BY SizeBytesAssumption
     DEF BufferInv, BytesOK, ServerBuffers, OnRead1, reading, HasData
<1>2. n \in 0..MaxText
  BY <1>1, ExtractType, NumberType
<1>3. n \in Nat /\ n <= MaxText
  BY <1>2, BoundAssumption
<1>4. AsyncRead("read_text", n) /\ UNCHANGED <<user, client, socket, response_>>
  BY DEF OnRead1
<1> HIDE DEF n
<1>5. /\ op' = "read_text" /\ transferred' = 0
      /\ request_' \in Buffer /\ request_'.extracted = 0
      /\ Len(request_'.data) = n
  BY <1>3, <1>4, AsyncReadType
<1>6. BytesOK'
  BY <1>4, <1>5 DEF BufferInv, BytesOK, user, client, socket
<1>7. ServerTypes' /\ SocketTypes'
  BY <1>3, <1>4, <1>5, TypesSplit DEF BufferInv, ServerTypes, SocketTypes, reading, socket
<1>8. ServerBuffers'
  BY <1>1, <1>3, <1>4, <1>5 DEF BufferInv, ServerBuffers, OnRead1, reading, socket
<1>9. QED
  BY <1>4, <1>6, <1>7, <1>8, ServerSteps DEF socket

LEMMA BufOnReadError ==
  ASSUME BufferInv, UNCHANGED <<processor, closes>>, OnReadError
  PROVE  BufferInv'
<1>1. BytesOK'
  BY DEF BufferInv, BytesOK, OnReadError, user, client
<1>2. ServerTypes' /\ SocketTypes'
  BY TypesSplit
     DEF BufferInv, ServerTypes, SocketTypes, OnReadError, Release, CloseServer, reading
<1>3. ServerBuffers'
  BY DEF BufferInv, ServerBuffers, OnReadError, Release, CloseServer, reading
<1>4. QED
  BY <1>1, <1>2, <1>3, ServerSteps DEF OnReadError

LEMMA BufServerSends ==
  ASSUME BufferInv, UNCHANGED <<processor, closes>>, ServerSends
  PROVE  BufferInv'
<1>1. ServerTypes /\ SocketTypes /\ BytesOK /\ Capacity \in Nat /\ transferred \in Nat
  BY TypesSplit, BoundAssumption DEF BufferInv, BytesOK
<1>2. CASE clientOpen
  <2>1. PICK k \in 1..Least(Len(response_) - transferred, Capacity - Len(toClient)) :
          /\ toClient' = toClient \o SubSeq(response_, transferred + 1, transferred + k)
          /\ transferred' = transferred + k
          /\ UNCHANGED reset
    BY <1>2 DEF ServerSends
  <2>2. /\ k \in Nat \ {0} /\ transferred + k <= Len(response_)
        /\ Len(toClient) + k <= Capacity
    BY <1>1, Lengths, LeastBounds
  <2>3. toClient' \in Seq(Byte) /\ Len(toClient)' = Len(toClient) + k
    BY <1>1, <2>1, <2>2, AppendPiece DEF BytesOK
  <2>4. BytesOK'
    BY <1>1, <2>1, <2>2, <2>3 DEF BytesOK, ServerSends, user, client
  <2>5. ServerTypes' /\ SocketTypes'
    BY <1>1, <2>1, <2>2, <2>3 DEF ServerTypes, SocketTypes, ServerSends, reading
  <2>6. ServerBuffers'
    BY DEF BufferInv, ServerBuffers, ServerSends, reading
  <2>7. QED
    BY <2>4, <2>5, <2>6, ServerSteps DEF ServerSends
<1>3. CASE ~clientOpen
  <2>1. transferred' = Len(response_) /\ reset' = TRUE /\ UNCHANGED toClient
    BY <1>3 DEF ServerSends
  <2>2. BytesOK'
    BY <1>1, <2>1, Lengths DEF BytesOK, ServerSends, user, client
  <2>3. ServerTypes' /\ SocketTypes'
    BY <1>1, <2>1, Lengths DEF ServerTypes, SocketTypes, ServerSends, reading
  <2>4. ServerBuffers'
    BY DEF BufferInv, ServerBuffers, ServerSends, reading
  <2>5. QED
    BY <2>2, <2>3, <2>4, ServerSteps DEF ServerSends
<1>4. QED
  BY <1>2, <1>3

LEMMA BufOnWrite ==
  ASSUME BufferInv, UNCHANGED <<processor, closes>>, OnWrite
  PROVE  BufferInv'
<1>1. response_' = <<>> /\ response_' \in Seq(Byte) /\ ServerTypes /\ SocketTypes
  BY EmptySeq, TypesSplit DEF OnWrite, BufferInv
<1>2. CASE closes
  <2>1. BytesOK'
    BY <1>1, <1>2 DEF BufferInv, BytesOK, OnWrite, user, client
  <2>2. ServerTypes' /\ SocketTypes'
    BY <1>1, <1>2 DEF ServerTypes, SocketTypes, OnWrite, Release, CloseServer, reading
  <2>3. ServerBuffers'
    BY <1>2 DEF BufferInv, ServerBuffers, OnWrite, Release, CloseServer, reading
  <2>4. QED
    BY <2>1, <2>2, <2>3, ServerSteps DEF OnWrite
<1>3. CASE ~closes
  <2>1. /\ op' = FirstRead /\ transferred' = 0
        /\ request_' \in Buffer /\ request_'.extracted = 0
        /\ Len(request_'.data) = FirstBytes /\ FirstBytes \in Nat
    BY <1>1, <1>3, FirstNeed, AsyncReadType DEF OnWrite
  <2>2. BytesOK'
    BY <1>1, <1>3, <2>1 DEF BufferInv, BytesOK, OnWrite, user, client
  <2>3. ServerTypes' /\ SocketTypes'
    BY <1>1, <1>3, <2>1, FirstNeed DEF ServerTypes, SocketTypes, OnWrite, reading
  <2>4. ServerBuffers'
    BY <1>1, <1>3, <2>1
       DEF BufferInv, ServerBuffers, OnWrite, reading, FirstRead, FirstBytes, SocketTypes
  <2>5. QED
    BY <1>3, <2>2, <2>3, <2>4, ServerSteps DEF OnWrite
<1>4. QED
  BY <1>2, <1>3

LEMMA BufOnWriteError ==
  ASSUME BufferInv, UNCHANGED <<processor, closes>>, OnWriteError
  PROVE  BufferInv'
<1>1. BytesOK'
  BY EmptySeq DEF BufferInv, BytesOK, OnWriteError, user, client
<1>2. ServerTypes' /\ SocketTypes'
  BY TypesSplit
     DEF BufferInv, ServerTypes, SocketTypes, OnWriteError, Release, CloseServer, reading
<1>3. ServerBuffers'
  BY DEF BufferInv, ServerBuffers, OnWriteError, Release, CloseServer, reading
<1>4. QED
  BY <1>1, <1>2, <1>3, ServerSteps DEF OnWriteError

-----------------------------------------------------------------------------
LEMMA InitBufferInv == Init => BufferInv
<1> SUFFICES ASSUME Init PROVE BufferInv
  OBVIOUS
<1>1. FirstBytes \in Nat /\ Empty \in Buffer /\ SocketTypes
  <2>1. Len(toServer) <= Capacity /\ Len(toClient) <= Capacity
    BY BoundAssumption DEF Init
  <2>2. SocketTypes
    BY <2>1 DEF Init, SocketTypes
  <2>3. QED
    BY <2>2, FirstNeed, EmptyBuffer
<1>2. /\ request_ \in Buffer /\ request_.extracted = 0
      /\ Len(request_.data) = FirstBytes
  BY <1>1, EmptyBuffer, ResizeType DEF Init
<1>3. /\ <<>> \in Seq(Byte) /\ <<>> \in Seq(Seq(Byte)) /\ Len(<<>>) = 0
      /\ 0 \in 0..MaxText + SizeBytes + ValueBytes
  BY EmptySeq, BoundAssumption, SizeBytesAssumption
<1>4. BytesOK
  BY <1>1, <1>2, <1>3 DEF Init, BytesOK
<1>5. ClientTypes
  BY <1>3, EmptyBuffer DEF Init, ClientTypes
<1>6. ServerTypes
  BY <1>1, <1>2, FirstNeed DEF Init, ServerTypes, reading
<1>7. ClientBuffers
  BY EmptyBuffer DEF Init, ClientBuffers, Busy
<1>8. ServerBuffers
  BY <1>2 DEF Init, ServerBuffers, reading, FirstRead, FirstBytes
<1>9. QED
  BY <1>1, <1>4, <1>5, <1>6, <1>7, <1>8, TypesSplit DEF BufferInv

LEMMA NextBufferInv == BufferInv /\ [Next]_vars => BufferInv'
<1> SUFFICES ASSUME BufferInv, [Next]_vars PROVE BufferInv'
  OBVIOUS
<1>1. CASE UNCHANGED vars
  <2>1. TypeOK'
    BY <1>1 DEF BufferInv, TypeOK, reading, vars, user, client, socket, server
  <2>2. BytesOK'
    BY <1>1 DEF BufferInv, BytesOK, vars, user, client, socket, server
  <2>3. ClientBuffers' /\ ServerBuffers'
    BY <1>1, ClientUntouched, ServerUntouched DEF BufferInv, vars, socket
  <2>4. QED
    BY <2>1, <2>2, <2>3 DEF BufferInv
<1>2. CASE User /\ UNCHANGED <<processor, closes>>
  BY <1>2, BufWrite, BufRead, BufClose DEF User
<1>3. CASE Client /\ UNCHANGED <<processor, closes>>
  BY <1>3, BufExtraction, BufMissing, BufSend, BufSent, BufReceive, BufReceived,
     BufFail, BufClosed DEF Client
<1>4. CASE Server /\ UNCHANGED <<processor, closes>>
  BY <1>4, BufServerReceives, BufOnRead, BufOnRead1, BufOnReadError,
     BufServerSends, BufOnWrite, BufOnWriteError DEF Server
<1>5. QED
  BY <1>1, <1>2, <1>3, <1>4 DEF Next

(* The buffers are as full as each operation believes, in every state. *)
THEOREM BuffersInvariant == Spec => []BufferInv
<1>1. QED
  BY InitBufferInv, NextBufferInv, PTL DEF Spec

(* No loop over send, receive, async_read or async_write moves more bytes  *)
(* than its buffer has, and no stream holds more than it can.              *)
THEOREM ConnectionTypes == Spec => []TypeOK
<1>1. BufferInv => TypeOK
  BY DEF BufferInv
<1>2. QED
  BY <1>1, BuffersInvariant, PTL

(* A read over the beginning of the request finds nothing left in it, and  *)
(* afterwards extract_data finds all it needs.                             *)
THEOREM NothingIsLeftOver == Spec => []NothingLeftOver
<1>1. BufferInv => NothingLeftOver
  <2> SUFFICES ASSUME BufferInv PROVE NothingLeftOver
    OBVIOUS
  <2>1. Len(request.data) \in Nat /\ need \in Nat
    BY Lengths, TypesSplit, BoundAssumption, SizeBytesAssumption DEF BufferInv, ClientTypes
  <2>2. QED
    BY <2>1 DEF BufferInv, ClientBuffers, NothingLeftOver, HasData
<1>2. QED
  BY <1>1, BuffersInvariant, PTL

-----------------------------------------------------------------------------
(* The second invariant.  All that the client has written is one sequence  *)
(* of bytes, W, in which value m ends at off[m].  While both ends live,    *)
(* what the client has read, its request, the stream to it, the response   *)
(* and the request of the server, the stream to the server and the         *)
(* response of the client are, in this order, consecutive parts of W.      *)

(* The first n elements of s are those of W behind position at. *)
Holds(W, at, s, n) == at + n <= Len(W) /\ \A k \in 1..n : s[k] = W[at + k]

Written(W, off) ==
  /\ W \in Seq(Byte) /\ off \in [0..Len(wrote) -> Nat]
  /\ off[0] = 0 /\ off[Len(wrote)] = Len(W)
  /\ \A m \in 1..Len(wrote) :
       /\ off[m] = off[m - 1] + Len(Encoded(wrote[m]))
       /\ Holds(W, off[m - 1], Encoded(wrote[m]), Len(Encoded(wrote[m])))
       /\ processor = "value" => Len(wrote[m]) = ValueBytes
       /\ processor # "value" => Len(wrote[m]) <= MaxText

(* Where the client has come to in W, and what its request has of the rest. *)
Consumed(off) == off[Len(got)] + IF Busy /\ part = "text" THEN SizeBytes ELSE 0
Arrived == IF doing \in {"receiving", "received"} THEN moved ELSE 0
Answered(off) == Consumed(off) + Arrived + Len(toClient)

ClientEnd(W, off) ==
  /\ Len(got) <= Len(wrote) /\ (Busy => Len(got) < Len(wrote))
  /\ Busy /\ part = "text" => need = Len(wrote[Len(got) + 1])
  /\ Holds(W, Consumed(off), request.data, Arrived)
  /\ Holds(W, Consumed(off) + Arrived, toClient, Len(toClient))

(* The server has echoed s values; where its request begins in W, and the  *)
(* stream to it.                                                           *)
Reads(off, s) == off[s] + IF op = "read_text" THEN SizeBytes ELSE 0
Taken(off, s) == IF op = "write" THEN off[s + 1] ELSE Reads(off, s) + transferred
SentBytes == IF doing \in {"sending", "closing"} THEN moved ELSE 0

ServerEnd(W, off, s) ==
  /\ s \in 0..Len(wrote) /\ (closes => s = 0)
  /\ op \in {"write", "read_text"} => s < Len(wrote)
  /\ op = "write" => /\ response_ = Encoded(wrote[s + 1])
                     /\ Answered(off) = off[s] + transferred
  /\ reading => /\ response_ = <<>> /\ Answered(off) = off[s]
                /\ Holds(W, Reads(off, s), request_.data, transferred)
  /\ op = "read_text" => Len(request_.data) = Len(wrote[s + 1])
  /\ Holds(W, Taken(off, s), toServer, Len(toServer))
  /\ Len(response) <= Len(W)
  /\ Holds(W, Len(W) - Len(response), response, Len(response))
  /\ Taken(off, s) + Len(toServer) + Len(response) = Len(W) + SentBytes

(* Of a processor that closes the client gets no byte behind its first     *)
(* value.                                                                  *)
OneAnswer(off) == closes /\ Len(wrote) > 0 => Answered(off) <= off[1]

Pipeline(W, off) ==
  /\ Written(W, off) /\ ClientEnd(W, off) /\ OneAnswer(off)
  /\ op # "none" => \E s \in 0..Len(wrote) : ServerEnd(W, off, s)

EchoInv ==
  /\ BufferInv /\ EchoIntact /\ (closes => Len(got) <= 1)
  /\ doing # "gone" => \E W, off : Pipeline(W, off)

-----------------------------------------------------------------------------
(* What W says of a value: its bytes stand between the ends of the one     *)
(* before and its own, a string's behind its size.                         *)
LEMMA WrittenTypes ==
  ASSUME BufferInv, NEW W, NEW off, Written(W, off), NEW m \in 1..Len(wrote)
  PROVE  /\ off[m - 1] \in Nat /\ off[m] \in Nat /\ Len(W) \in Nat
         /\ wrote[m] \in Seq(Byte) /\ Len(wrote[m]) \in Nat
         /\ processor = "value" => /\ Encoded(wrote[m]) = wrote[m]
                                   /\ off[m] = off[m - 1] + ValueBytes
         /\ processor # "value" =>
              /\ Encoded(wrote[m]) = Size(Len(wrote[m])) \o wrote[m]
              /\ Len(Encoded(wrote[m])) = SizeBytes + Len(wrote[m])
              /\ off[m] = off[m - 1] + SizeBytes + Len(wrote[m])
              /\ Len(wrote[m]) \in 0..MaxText
<1>1. Len(wrote) \in Nat /\ wrote \in Seq(Seq(Byte))
  BY Lengths DEF BufferInv, BytesOK
<1>2. wrote[m] \in Seq(Byte)
  BY <1>1, LenProperties
<1>3. Len(wrote[m]) \in Nat /\ Len(W) \in Nat
  BY <1>2, LenProperties DEF Written
<1>4. m - 1 \in 0..Len(wrote) /\ m \in 0..Len(wrote)
  BY <1>1
<1>5. off[m - 1] \in Nat /\ off[m] \in Nat
  BY <1>4 DEF Written
<1>6. /\ off[m] = off[m - 1] + Len(Encoded(wrote[m]))
      /\ processor = "value" => Len(wrote[m]) = ValueBytes
      /\ processor # "value" => Len(wrote[m]) <= MaxText
  BY DEF Written
<1>7. /\ processor = "value" => Encoded(wrote[m]) = wrote[m]
      /\ processor # "value" =>
           /\ Encoded(wrote[m]) = Size(Len(wrote[m])) \o wrote[m]
           /\ Len(Encoded(wrote[m])) = SizeBytes + Len(wrote[m])
  BY <1>2, <1>6, EncodedType
<1>8. processor = "value" => off[m] = off[m - 1] + ValueBytes
  BY <1>6, <1>7
<1>9. processor # "value" => /\ off[m] = off[m - 1] + (SizeBytes + Len(wrote[m]))
                            /\ Len(wrote[m]) \in 0..MaxText
  BY <1>3, <1>6, <1>7, BoundAssumption
<1>10. off[m - 1] + (SizeBytes + Len(wrote[m])) = off[m - 1] + SizeBytes + Len(wrote[m])
  BY <1>3, <1>5, SizeBytesAssumption
<1>11. QED
  BY <1>2, <1>3, <1>5, <1>7, <1>8, <1>9, <1>10

(* Bytes of the length of a text that stand where it stands are the text. *)
LEMMA WholeText ==
  ASSUME BufferInv, NEW W, NEW off, Written(W, off), NEW m \in 1..Len(wrote),
         NEW d \in Seq(Byte), Len(d) = Len(wrote[m]), NEW at \in Nat,
         at = off[m - 1] + IF processor = "value" THEN 0 ELSE SizeBytes,
         Holds(W, at, d, Len(d))
  PROVE  d = wrote[m]
<1> DEFINE e == Encoded(wrote[m])
<1>1. /\ wrote[m] \in Seq(Byte) /\ Len(wrote[m]) \in Nat
      /\ off[m - 1] \in Nat /\ SizeBytes \in Nat
  BY WrittenTypes, SizeBytesAssumption
<1>2. \A k \in 1..Len(e) : e[k] = W[off[m - 1] + k]
  BY DEF Written, Holds
<1>3. CASE processor = "value"
  <2>1. e = wrote[m] /\ at = off[m - 1]
    BY <1>1, <1>3, WrittenTypes
  <2>2. \A k \in 1..Len(d) : d[k] = wrote[m][k]
    BY <1>2, <2>1 DEF Holds
  <2>3. QED
    BY <1>1, <2>2, SeqEqual
<1>4. CASE processor # "value"
  <2>1. /\ e = Size(Len(wrote[m])) \o wrote[m] /\ Len(e) = SizeBytes + Len(wrote[m])
        /\ Len(wrote[m]) \in 0..MaxText /\ at = off[m - 1] + SizeBytes
    BY <1>1, <1>4, WrittenTypes
  <2>2. /\ Size(Len(wrote[m])) \in Seq(Byte)
        /\ Len(Size(Len(wrote[m]))) = SizeBytes
    BY <2>1, SizeType
  <2> HIDE DEF e
  <2>3. \A k \in 1..(SizeBytes + Len(wrote[m])) :
          e[k] = IF k <= SizeBytes THEN Size(Len(wrote[m]))[k] ELSE wrote[m][k - SizeBytes]
    BY <1>1, <2>1, <2>2, ConcatProperties
  <2>4. \A k \in 1..Len(wrote[m]) : wrote[m][k] = W[at + k]
    <3> TAKE k \in 1..Len(wrote[m])
    <3>1. SizeBytes \in Nat /\ k \in Nat /\ off[m - 1] \in Nat /\ at = off[m - 1] + SizeBytes
      BY <1>1, <2>1
    <3>2. /\ SizeBytes + k \in 1..(SizeBytes + Len(wrote[m]))
          /\ ~(SizeBytes + k <= SizeBytes) /\ (SizeBytes + k) - SizeBytes = k
      BY <1>1, <3>1
    <3>3. off[m - 1] + (SizeBytes + k) = at + k
      BY <3>1
    <3>4. /\ SizeBytes + k \in 1..(SizeBytes + Len(wrote[m]))
          /\ ~(SizeBytes + k <= SizeBytes) /\ (SizeBytes + k) - SizeBytes = k
          /\ off[m - 1] + (SizeBytes + k) = at + k
      BY <3>2, <3>3
    <3>5. e[SizeBytes + k] = wrote[m][k]
      BY <2>3, <3>4
    <3>6. e[SizeBytes + k] = W[at + k]
      BY <1>2, <2>1, <3>4
    <3>7. QED
      BY <3>5, <3>6
  <2>5. \A k \in 1..Len(d) : d[k] = wrote[m][k]
    BY <2>4 DEF Holds
  <2>6. QED
    BY <1>1, <2>5, SeqEqual
<1>5. QED
  BY <1>3, <1>4

(* So are the bytes of a size. *)
LEMMA WholeSize ==
  ASSUME BufferInv, NEW W, NEW off, Written(W, off), NEW m \in 1..Len(wrote),
         processor # "value", NEW d \in Seq(Byte), Len(d) = SizeBytes,
         Holds(W, off[m - 1], d, SizeBytes)
  PROVE  d = Size(Len(wrote[m])) /\ Number(d, MaxText) = Len(wrote[m])
<1> DEFINE e == Encoded(wrote[m])
           z == Size(Len(wrote[m]))
<1>1. /\ wrote[m] \in Seq(Byte) /\ Len(wrote[m]) \in 0..MaxText
      /\ SizeBytes \in Nat /\ e = z \o wrote[m]
      /\ Len(e) = SizeBytes + Len(wrote[m]) /\ Len(wrote[m]) \in Nat
  BY WrittenTypes, SizeBytesAssumption
<1>2. z \in Seq(Byte) /\ Len(z) = SizeBytes
  BY <1>1, SizeType
<1>3. \A k \in 1..Len(e) : e[k] = W[off[m - 1] + k]
  BY DEF Written, Holds
<1> HIDE DEF e, z
<1>4. \A k \in 1..SizeBytes : e[k] = z[k]
  BY <1>1, <1>2, ConcatProperties
<1>5. \A k \in 1..Len(d) : d[k] = z[k]
  BY <1>1, <1>3, <1>4 DEF Holds
<1>6. d = z
  BY <1>2, <1>5, SeqEqual
<1>7. QED
  BY <1>1, <1>6, NumberOfSize DEF z

(* Positions are numbers. *)
LEMMA Positions ==
  ASSUME BufferInv, NEW W, NEW off, Written(W, off), ClientEnd(W, off)
  PROVE  /\ Len(W) \in Nat /\ Len(got) \in 0..Len(wrote)
         /\ off[Len(got)] \in Nat /\ Consumed(off) \in Nat
         /\ Arrived \in Nat /\ Answered(off) \in Nat /\ SentBytes \in Nat
<1>1. Len(W) \in Nat /\ Len(got) \in 0..Len(wrote) /\ Len(toClient) \in Nat
      /\ moved \in Nat /\ SizeBytes \in Nat
  BY Lengths, LenProperties, SizeBytesAssumption
     DEF BufferInv, BytesOK, Written, ClientEnd
<1>2. off[Len(got)] \in Nat
  BY <1>1 DEF Written
<1>3. Consumed(off) \in Nat
  BY <1>1, <1>2 DEF Consumed
<1>4. Arrived \in Nat /\ SentBytes \in Nat
  BY <1>1 DEF Arrived, SentBytes
<1>5. Answered(off) \in Nat
  BY <1>1, <1>3, <1>4 DEF Answered
<1>6. QED
  BY <1>1, <1>2, <1>3, <1>4, <1>5

LEMMA TakenIsThere ==
  ASSUME BufferInv, NEW W, Len(W) \in Nat, NEW off, NEW s, ServerEnd(W, off, s),
         Taken(off, s) \in Nat
  PROVE  Taken(off, s) <= Len(W)
<1>1. Taken(off, s) + Len(toServer) <= Len(W)
  BY DEF ServerEnd, Holds
<1>2. Len(toServer) \in Nat
  BY Lengths DEF BufferInv
<1>3. QED
  BY <1>1, <1>2

LEMMA ServerPositions ==
  ASSUME BufferInv, NEW W, NEW off, Written(W, off), NEW s, ServerEnd(W, off, s)
  PROVE  /\ s \in Nat /\ s <= Len(wrote) /\ Len(wrote) \in Nat
         /\ off[s] \in Nat /\ Reads(off, s) \in Nat /\ transferred \in Nat
         /\ op # "none" => Taken(off, s) \in Nat
<1>1. s \in 0..Len(wrote) /\ Len(wrote) \in Nat /\ transferred \in Nat
      /\ SizeBytes \in Nat
  BY Lengths, SizeBytesAssumption DEF BufferInv, BytesOK, ServerEnd
<1>2. off[s] \in Nat
  BY <1>1 DEF Written
<1>3. op = "write" => off[s + 1] \in Nat
  <2>1. op = "write" => s < Len(wrote)
    BY DEF ServerEnd
  <2>2. op = "write" => s + 1 \in 0..Len(wrote)
    BY <1>1, <2>1
  <2>3. QED
    BY <2>2 DEF Written
<1>4. QED
  BY <1>1, <1>2, <1>3 DEF Reads, Taken

-----------------------------------------------------------------------------
(* A buffer that holds a part of W and gains what follows, and one that    *)
(* loses its beginning.                                                    *)
LEMMA HoldsMore ==
  ASSUME NEW W, Len(W) \in Nat, NEW at \in Nat, NEW n \in Nat, NEW k \in Nat,
         NEW s, NEW u, Holds(W, at, s, n), \A j \in 1..n : u[j] = s[j],
         \A j \in 1..k : u[n + j] = W[at + n + j], at + n + k <= Len(W)
  PROVE  Holds(W, at, u, n + k)
<1>1. \A j \in 1..(n + k) : u[j] = W[at + j]
  <2> TAKE j \in 1..(n + k)
  <2>1. CASE j <= n
    BY <2>1 DEF Holds
  <2>2. CASE j > n
    <3>1. j - n \in 1..k /\ n + (j - n) = j /\ at + n + (j - n) = at + j
      BY <2>2
    <3>2. u[n + (j - n)] = W[at + n + (j - n)]
      BY <3>1
    <3>3. QED
      BY <3>1, <3>2
  <2>3. QED
    BY <2>1, <2>2
<1>2. QED
  BY <1>1 DEF Holds

LEMMA HoldsRest ==
  ASSUME NEW W, Len(W) \in Nat, NEW at \in Nat, NEW n \in Nat, NEW k \in Nat,
         k <= n, NEW s, NEW u, Holds(W, at, s, n),
         \A j \in 1..(n - k) : u[j] = s[k + j]
  PROVE  Holds(W, at + k, u, n - k)
<1>1. \A j \in 1..(n - k) : u[j] = W[(at + k) + j]
  <2> TAKE j \in 1..(n - k)
  <2>1. k + j \in 1..n /\ at + (k + j) = (at + k) + j
    OBVIOUS
  <2>2. QED
    BY <2>1 DEF Holds
<1>2. QED
  BY <1>1 DEF Holds

-----------------------------------------------------------------------------
(* What a step that does not concern a part of the pipeline leaves of it. *)
LEMMA WrittenStays ==
  ASSUME NEW W, NEW off, Written(W, off), UNCHANGED <<wrote, processor>>
  PROVE  Written(W, off)'
BY DEF Written, Encoded

LEMMA ServerEndStays ==
  ASSUME NEW W, NEW off, NEW s, ServerEnd(W, off, s),
         UNCHANGED <<wrote, processor, closes, server, toServer, response>>,
         Answered(off)' = Answered(off), SentBytes' = SentBytes
  PROVE  ServerEnd(W, off, s)'
BY DEF ServerEnd, server, reading, Reads, Taken, Encoded

LEMMA ClientEndStays ==
  ASSUME NEW W, NEW off, ClientEnd(W, off),
         UNCHANGED <<user, client, toClient, processor>>
  PROVE  /\ ClientEnd(W, off)' /\ Consumed(off)' = Consumed(off)
         /\ Answered(off)' = Answered(off) /\ SentBytes' = SentBytes
         /\ Arrived' = Arrived
BY DEF ClientEnd, user, client, Busy, Consumed, Arrived, Answered, SentBytes

(* A step of the client that leaves the server and the stream to it alone. *)
LEMMA ClientTurns ==
  ASSUME NEW W, NEW off, Pipeline(W, off), ClientEnd(W, off)',
         UNCHANGED <<wrote, processor, closes, server, toServer, response>>,
         Answered(off)' = Answered(off), SentBytes' = SentBytes
  PROVE  Pipeline(W, off)'
<1>1. Written(W, off)'
  BY WrittenStays DEF Pipeline
<1>2. ASSUME op' # "none" PROVE \E s \in 0..Len(wrote)' : ServerEnd(W, off, s)'
  <2>1. PICK s \in 0..Len(wrote) : ServerEnd(W, off, s)
    BY <1>2 DEF Pipeline, server
  <2>2. ServerEnd(W, off, s)'
    BY <2>1, ServerEndStays
  <2>3. QED
    BY <2>2
<1>3. OneAnswer(off)'
  BY DEF Pipeline, OneAnswer
<1>4. QED
  BY <1>1, <1>2, <1>3 DEF Pipeline

LEMMA PipeRead ==
  ASSUME BufferInv, UNCHANGED <<processor, closes>>, Read,
         NEW W, NEW off, Pipeline(W, off)
  PROVE  Pipeline(W, off)'
<1>1. SocketTypes /\ Written(W, off) /\ ClientEnd(W, off)
  BY TypesSplit DEF BufferInv, Pipeline
<1>2. part' # "text" /\ doing = "idle" /\ doing' = "extracting"
      /\ UNCHANGED <<user, response, request, moved, socket, server>>
  BY <1>1, FirstNeed DEF Read
<1>3. Consumed(off)' = Consumed(off)
  BY <1>1, <1>2, Positions, SizeBytesAssumption DEF Consumed, Busy, user
<1>4. Arrived' = Arrived /\ SentBytes' = SentBytes
  BY <1>2 DEF Arrived, SentBytes
<1>5. Answered(off)' = Answered(off)
  BY <1>2, <1>3, <1>4 DEF Answered, socket
<1>6. ClientEnd(W, off)'
  BY <1>1, <1>2, <1>3, <1>4 DEF ClientEnd, user, socket, Read
<1>7. QED
  BY <1>2, <1>4, <1>5, <1>6, ClientTurns DEF user, socket

LEMMA PipeMissing ==
  ASSUME BufferInv, UNCHANGED <<processor, closes>>, Missing,
         NEW W, NEW off, Pipeline(W, off)
  PROVE  Pipeline(W, off)'
<1>1. ClientEnd(W, off)
  BY DEF Pipeline
<1>2. doing = "extracting" /\ doing' = "sending" /\ moved' = 0
      /\ UNCHANGED <<user, response, request, part, need, socket, server>>
  BY DEF Missing
<1>3. Consumed(off)' = Consumed(off) /\ Busy' /\ Busy
  BY <1>2 DEF Consumed, Busy, user
<1>4. Arrived' = Arrived /\ SentBytes' = SentBytes
  BY <1>2 DEF Arrived, SentBytes
<1>5. Answered(off)' = Answered(off)
  BY <1>2, <1>3, <1>4 DEF Answered, socket
<1>6. ClientEnd(W, off)'
  BY <1>1, <1>2, <1>3, <1>4 DEF ClientEnd, user, socket
<1>7. QED
  BY <1>2, <1>4, <1>5, <1>6, ClientTurns DEF user, socket

LEMMA PipeClose ==
  ASSUME BufferInv, UNCHANGED <<processor, closes>>, Close,
         NEW W, NEW off, Pipeline(W, off)
  PROVE  Pipeline(W, off)'
<1>1. ClientEnd(W, off)
  BY DEF Pipeline
<1>2. doing = "idle" /\ doing' = "closing" /\ moved' = 0
      /\ UNCHANGED <<user, response, request, part, need, socket, server>>
  BY DEF Close
<1>3. Consumed(off)' = Consumed(off) /\ ~Busy' /\ ~Busy
  BY <1>2 DEF Consumed, Busy, user
<1>4. Arrived' = Arrived /\ SentBytes' = SentBytes
  BY <1>2 DEF Arrived, SentBytes
<1>5. Answered(off)' = Answered(off)
  BY <1>2, <1>3, <1>4 DEF Answered, socket
<1>6. ClientEnd(W, off)'
  BY <1>1, <1>2, <1>3, <1>4 DEF ClientEnd, user, socket
<1>7. QED
  BY <1>2, <1>4, <1>5, <1>6, ClientTurns DEF user, socket

LEMMA PipeReceived ==
  ASSUME BufferInv, UNCHANGED <<processor, closes>>, Received,
         NEW W, NEW off, Pipeline(W, off)
  PROVE  Pipeline(W, off)'
<1>1. ClientEnd(W, off)
  BY DEF Pipeline
<1>2. doing = "receiving" /\ doing' = "received"
      /\ UNCHANGED <<user, response, request, part, need, moved, socket, server>>
  BY DEF Received
<1>3. Consumed(off)' = Consumed(off) /\ Busy' /\ Busy
  BY <1>2 DEF Consumed, Busy, user
<1>4. Arrived' = Arrived /\ SentBytes' = SentBytes
  BY <1>2 DEF Arrived, SentBytes
<1>5. Answered(off)' = Answered(off)
  BY <1>2, <1>3, <1>4 DEF Answered, socket
<1>6. ClientEnd(W, off)'
  BY <1>1, <1>2, <1>3, <1>4 DEF ClientEnd, user, socket
<1>7. QED
  BY <1>2, <1>4, <1>5, <1>6, ClientTurns DEF user, socket

(* A turn of the loop over receive: what was in the stream is now in the   *)
(* request, behind what was there.                                         *)
LEMMA PipeReceive ==
  ASSUME BufferInv, UNCHANGED <<processor, closes>>, Receive,
         NEW W, NEW off, Pipeline(W, off)
  PROVE  Pipeline(W, off)'
<1> DEFINE c == Consumed(off)
<1>1. /\ ClientEnd(W, off) /\ c \in Nat /\ moved \in Nat /\ Len(toClient) \in Nat
  BY Positions, Lengths DEF Pipeline, BufferInv, BytesOK
<1>2. doing = "receiving" /\ UNCHANGED <<user, response, doing, part, need>>
      /\ UNCHANGED <<toServer, clientOpen, serverOpen, reset, server>>
  BY DEF Receive
<1>3. PICK k \in Nat \ {0} :
        /\ k <= Len(toClient) /\ moved' = moved + k
        /\ \A j \in 1..moved : request'.data[j] = request.data[j]
        /\ \A j \in 1..k : request'.data[moved + j] = toClient[j]
        /\ Len(toClient') = Len(toClient) - k
        /\ \A j \in 1..(Len(toClient) - k) : toClient'[j] = toClient[k + j]
  BY ReceiveMoves
<1>4. Arrived = moved /\ Arrived' = moved + k /\ SentBytes' = SentBytes
  BY <1>2, <1>3 DEF Arrived, SentBytes
<1>5. Consumed(off)' = c
  BY <1>2 DEF Consumed, Busy, user
<1>6. Answered(off)' = Answered(off)
  BY <1>1, <1>3, <1>4, <1>5 DEF Answered
<1>7. /\ Holds(W, c, request.data, moved)
      /\ Holds(W, c + moved, toClient, Len(toClient)) /\ Len(W) \in Nat
  BY <1>1, <1>4, Positions DEF ClientEnd, Pipeline
<1> HIDE DEF c
<1>8. Holds(W, c, request'.data, moved + k)
  <2>1. \A j \in 1..k : request'.data[moved + j] = W[c + moved + j]
    <3> TAKE j \in 1..k
    <3>1. j \in 1..Len(toClient)
      BY <1>1, <1>3
    <3>2. QED
      BY <1>3, <1>7, <3>1 DEF Holds
  <2>2. c + moved + k <= Len(W)
    BY <1>1, <1>3, <1>7 DEF Holds
  <2>3. QED
    BY <1>1, <1>3, <1>7, <2>1, <2>2, HoldsMore
<1>9. Holds(W, (c + moved) + k, toClient', Len(toClient) - k)
  <2>1. c + moved \in Nat /\ k \in Nat
    BY <1>1
  <2>2. QED
    BY <1>1, <1>3, <1>7, <2>1, HoldsRest
<1>10. (c + moved) + k = c + (moved + k)
  BY <1>1
<1>11. Holds(W, Consumed(off), request.data, Arrived)'
  BY <1>4, <1>5, <1>8 DEF Holds
<1>12. Holds(W, Consumed(off) + Arrived, toClient, Len(toClient))'
  BY <1>3, <1>4, <1>5, <1>9, <1>10 DEF Holds
<1>13. ClientEnd(W, off)'
  BY <1>1, <1>2, <1>11, <1>12 DEF ClientEnd, Busy, user
<1>14. QED
  BY <1>2, <1>4, <1>6, <1>13, ClientTurns DEF user

(* What extract_data gives: the size of the next text, or the next value.  *)
LEMMA ExtractionReads ==
  ASSUME BufferInv, Extraction, NEW W, NEW off, Written(W, off), ClientEnd(W, off)
  PROVE  LET g == Len(got) + 1
             bytes == Extracted(request, need)
         IN /\ g \in 1..Len(wrote) /\ Busy /\ Arrived = need
            /\ part = "size" => /\ Number(bytes, MaxText) = Len(wrote[g])
                                /\ processor = "string" /\ need = SizeBytes
            /\ part # "size" => bytes = wrote[g]
            /\ part = "value" => processor = "value" /\ need = ValueBytes
            /\ part = "text" => processor = "string" /\ need = Len(wrote[g])
<1> DEFINE g == Len(got) + 1
           bytes == Extracted(request, need)
<1>1. SocketTypes /\ ClientTypes /\ BytesOK
  BY TypesSplit DEF BufferInv
<1>2. Busy /\ g \in 1..Len(wrote) /\ g - 1 = Len(got)
  BY <1>1, Lengths DEF Extraction, Busy, ClientEnd
<1>3. /\ bytes \in Seq(Byte) /\ Len(bytes) = need /\ need \in Nat
      /\ doing = "extracting" => need = 0
      /\ part = "size" => need = SizeBytes
  BY ExtractionTakesAll
<1>4. Arrived = need
  BY <1>3 DEF Extraction, Arrived, BufferInv, ClientBuffers
<1>5. \A k \in 1..need : bytes[k] = request.data[k]
  <2>1. need \in Nat /\ request \in Buffer /\ HasData(request, need)
    BY <1>1, <1>3 DEF BytesOK, Extraction
  <2>2. \A k \in 1..need : bytes[k] = request.data[request.extracted + k]
    BY <2>1, ExtractType
  <2>3. CASE doing = "received"
    <3>1. request.extracted = 0
      BY <2>3 DEF BufferInv, ClientBuffers
    <3>2. \A k \in 1..need : 0 + k = k
      BY <1>3
    <3>3. QED
      BY <2>2, <3>1, <3>2
  <2>4. CASE doing = "extracting"
    BY <1>3, <2>4
  <2>5. QED
    BY <2>3, <2>4 DEF Extraction
<1>6. Holds(W, Consumed(off), bytes, need)
  BY <1>4, <1>5 DEF ClientEnd, Holds
<1>7. /\ part = "value" => processor = "value" /\ need = ValueBytes
      /\ part = "text" => processor = "string" /\ need = Len(wrote[g])
      /\ part = "size" => processor = "string"
  BY <1>1, <1>2 DEF BufferInv, ClientBuffers, ClientEnd, FirstPart, FirstBytes, SocketTypes
<1> HIDE DEF bytes
<1>8. off[g - 1] \in Nat /\ Written(W, off)
  BY <1>2, WrittenTypes
<1>9. CASE part = "size"
  <2>1. Consumed(off) = off[g - 1]
    BY <1>2, <1>8, <1>9 DEF Consumed
  <2>2. Number(bytes, MaxText) = Len(wrote[g])
    BY <1>2, <1>3, <1>6, <1>7, <1>9, <2>1, WholeSize
  <2>3. QED
    BY <1>2, <1>3, <1>4, <1>7, <1>9, <2>2 DEF bytes
<1>10. CASE part # "size"
  <2>1. Consumed(off) \in Nat
    BY Positions
  <2>2. Consumed(off) = off[g - 1] + IF processor = "value" THEN 0 ELSE SizeBytes
    BY <1>1, <1>2, <1>7, <1>8, <1>10 DEF Consumed, ClientTypes
  <2>3. Len(bytes) = Len(wrote[g])
    BY <1>1, <1>2, <1>3, <1>7, <1>10 DEF ClientTypes, Written
  <2>4. bytes = wrote[g]
    BY <1>2, <1>3, <1>6, <2>1, <2>2, <2>3, WholeText
  <2>5. QED
    BY <1>2, <1>4, <1>7, <1>10, <2>4 DEF bytes
<1>11. QED
  BY <1>9, <1>10

(* What is extracted moves the client on by its length. *)
LEMMA PipeExtraction ==
  ASSUME BufferInv, UNCHANGED <<processor, closes>>, Extraction,
         NEW W, NEW off, Pipeline(W, off)
  PROVE  Pipeline(W, off)'
<1> DEFINE g == Len(got) + 1
           bytes == Extracted(request, need)
<1>1. /\ Written(W, off) /\ ClientEnd(W, off) /\ got \in Seq(Seq(Byte))
      /\ Len(got) \in Nat /\ Len(wrote) \in Nat /\ Len(toClient) \in Nat
      /\ Len(W) \in Nat /\ ClientTypes
  BY Positions, Lengths, TypesSplit DEF Pipeline, BufferInv, BytesOK
<1>2. /\ g \in 1..Len(wrote) /\ Busy /\ Arrived = need
      /\ part = "size" => /\ Number(bytes, MaxText) = Len(wrote[g])
                          /\ processor = "string" /\ need = SizeBytes
      /\ part # "size" => bytes = wrote[g]
      /\ part = "value" => processor = "value" /\ need = ValueBytes
      /\ part = "text" => processor = "string" /\ need = Len(wrote[g])
  BY <1>1, ExtractionReads
<1>3. /\ off[g - 1] \in Nat /\ g - 1 = Len(got)
      /\ processor = "value" => off[g] = off[g - 1] + ValueBytes
      /\ processor # "value" => off[g] = off[g - 1] + SizeBytes + Len(wrote[g])
  <2>1. g \in 1..Len(wrote) /\ Written(W, off) /\ g - 1 = Len(got)
    BY <1>1, <1>2
  <2> HIDE DEF g
  <2>2. QED
    BY <2>1, WrittenTypes
<1>4. bytes \in Seq(Byte) /\ need \in Nat
  BY ExtractionTakesAll
<1>5. UNCHANGED <<wrote, response, moved, socket, server>>
  BY DEF Extraction
<1>6. /\ Consumed(off)' = Consumed(off) + Arrived /\ Arrived' = 0
      /\ SentBytes' = SentBytes
      /\ Len(got') <= Len(wrote) /\ (Busy' => Len(got') < Len(wrote))
      /\ (Busy /\ part = "text" => need = Len(wrote[Len(got) + 1]))'
  <2>1. CASE part = "size"
    <3>1. /\ doing' = "extracting" /\ part' = "text" /\ got' = got
          /\ need' = Number(bytes, MaxText)
      BY <2>1 DEF Extraction
    <3>2. Consumed(off)' = off[g - 1] + SizeBytes /\ Consumed(off) = off[g - 1]
      BY <1>3, <2>1, <3>1, SizeBytesAssumption DEF Consumed, Busy
    <3>3. Arrived' = 0 /\ SentBytes' = SentBytes
      BY <3>1 DEF Arrived, SentBytes, Extraction
    <3>4. QED
      BY <1>1, <1>2, <1>5, <2>1, <3>1, <3>2, <3>3
  <2>2. CASE part # "size"
    <3>1. doing' = "idle" /\ got' = Append(got, bytes)
      BY <2>2 DEF Extraction
    <3>2. Len(got') = g
      BY <1>1, <1>4, <3>1, AppendProperties
    <3>3. Consumed(off)' = off[g]
      <4>1. off[g] \in Nat
        BY <1>1, <1>2, WrittenTypes
      <4>2. QED
        BY <3>1, <3>2, <4>1 DEF Consumed, Busy
    <3>4. off[g] = Consumed(off) + need
      BY <1>1, <1>2, <1>3, <1>4, <2>2, SizeBytesAssumption DEF Consumed, ClientTypes
    <3>5. Arrived' = 0 /\ SentBytes' = SentBytes /\ ~Busy'
      BY <3>1 DEF Arrived, SentBytes, Extraction, Busy
    <3>6. QED
      BY <1>1, <1>2, <3>2, <3>3, <3>4, <3>5
  <2>3. QED
    BY <2>1, <2>2
<1>7. Consumed(off) \in Nat /\ Arrived \in Nat
  BY <1>1, Positions
<1>8. Answered(off)' = Answered(off)
  BY <1>1, <1>5, <1>6, <1>7 DEF Answered, socket
<1>9. Holds(W, Consumed(off) + Arrived, toClient, Len(toClient))
  BY <1>1 DEF ClientEnd
<1>10. Holds(W, Consumed(off), request.data, Arrived)'
  BY <1>1, <1>6, <1>7, <1>9 DEF Holds
<1>11. Holds(W, Consumed(off) + Arrived, toClient, Len(toClient))'
  BY <1>5, <1>6, <1>7, <1>9 DEF Holds, socket
<1>12. ClientEnd(W, off)'
  BY <1>5, <1>6, <1>10, <1>11 DEF ClientEnd
<1>13. QED
  BY <1>5, <1>6, <1>8, <1>12, ClientTurns DEF socket

(* The client stays where it is while it sends. *)
LEMMA SenderStays ==
  ASSUME NEW W, NEW off, ClientEnd(W, off), doing \in {"sending", "closing"},
         UNCHANGED <<user, doing, part, need, toClient, processor>>
  PROVE  ClientEnd(W, off)' /\ Answered(off)' = Answered(off)
<1>1. /\ Consumed(off)' = Consumed(off) /\ (Busy' <=> Busy)
      /\ Arrived = 0 /\ Arrived' = 0
  BY DEF Consumed, Arrived, Busy, user
<1>2. Answered(off)' = Answered(off)
  BY <1>1 DEF Answered
<1>3. Holds(W, Consumed(off), request.data, Arrived)'
  BY <1>1 DEF ClientEnd, Holds
<1>4. QED
  BY <1>1, <1>2, <1>3 DEF ClientEnd, user

LEMMA PipeSend ==
  ASSUME BufferInv, UNCHANGED <<processor, closes>>, Send,
         NEW W, NEW off, Pipeline(W, off)
  PROVE  Pipeline(W, off)'
<1>1. /\ BytesOK /\ moved \in Nat /\ Capacity \in Nat
      /\ Written(W, off) /\ ClientEnd(W, off) /\ Len(W) \in Nat
  BY Positions, BoundAssumption DEF BufferInv, BytesOK, Pipeline
<1>2. doing \in {"sending", "closing"} /\ moved < Len(response)
      /\ UNCHANGED <<user, response, request, doing, part, need>>
      /\ UNCHANGED <<toClient, clientOpen, serverOpen, server>>
  BY DEF Send
<1>3. ClientEnd(W, off)' /\ Answered(off)' = Answered(off) /\ Written(W, off)'
  BY <1>1, <1>2, SenderStays, WrittenStays DEF user
<1>4. ASSUME op' # "none" PROVE \E s \in 0..Len(wrote)' : ServerEnd(W, off, s)'
  <2>1. op # "none" /\ serverOpen
    BY <1>2, <1>4 DEF server, BufferInv, ServerBuffers
  <2>2. PICK s \in 0..Len(wrote) : ServerEnd(W, off, s)
    BY <2>1 DEF Pipeline
  <2>3. PICK k \in 1..Least(Len(response) - moved, Capacity - Len(toServer)) :
          /\ toServer' = toServer \o SubSeq(response, moved + 1, moved + k)
          /\ moved' = moved + k
    BY <2>1 DEF Send
  <2>4. k \in Nat \ {0} /\ moved + k <= Len(response)
    BY <1>1, Lengths, LeastBounds
  <2>5. /\ Len(toServer') = Len(toServer) + k
        /\ \A j \in 1..Len(toServer) : toServer'[j] = toServer[j]
        /\ \A j \in 1..k : toServer'[Len(toServer) + j] = response[moved + j]
    BY <1>1, <2>3, <2>4, AppendPiece DEF BytesOK
  <2>6. Taken(off, s)' = Taken(off, s)
    BY <1>2 DEF Taken, Reads, server
  <2> DEFINE t == Taken(off, s)
  <2>7. /\ t \in Nat /\ SentBytes = moved /\ SentBytes' = moved + k
        /\ Len(toServer) \in Nat /\ Len(response) \in Nat
    BY <1>1, <1>2, <2>1, <2>2, <2>3, ServerPositions, Lengths DEF SentBytes
  <2>8. \A j \in 1..Len(response) : response[j] = W[(Len(W) - Len(response)) + j]
    BY <2>2, <2>7 DEF ServerEnd, Holds
  <2>9. t + Len(toServer) + Len(response) = Len(W) + moved
    BY <2>2, <2>7 DEF ServerEnd
  <2> HIDE DEF t
  <2>10. t + Len(toServer) = (Len(W) - Len(response)) + moved
    BY <1>1, <2>7, <2>9
  <2>11. \A j \in 1..k : toServer'[Len(toServer) + j] = W[t + Len(toServer) + j]
    <3> TAKE j \in 1..k
    <3>1. moved + j \in 1..Len(response)
      BY <1>1, <2>4, <2>7
    <3>2. (Len(W) - Len(response)) + (moved + j) = t + Len(toServer) + j
      BY <1>1, <2>7, <2>10
    <3>3. response[moved + j] = W[(Len(W) - Len(response)) + (moved + j)]
      BY <2>8, <3>1
    <3>4. QED
      BY <2>5, <3>2, <3>3
  <2>12. t + Len(toServer) + k <= Len(W)
    BY <1>1, <2>4, <2>7, <2>9
  <2>13. Holds(W, t, toServer', Len(toServer) + k)
    <3>1. Holds(W, t, toServer, Len(toServer))
      BY <2>2 DEF ServerEnd, t
    <3>2. QED
      BY <1>1, <2>4, <2>5, <2>7, <2>11, <2>12, <3>1, HoldsMore
  <2>14. Holds(W, Taken(off, s), toServer, Len(toServer))'
    BY <2>5, <2>6, <2>13 DEF Holds, t
  <2>15. (Taken(off, s) + Len(toServer) + Len(response) = Len(W) + SentBytes)'
    <3>1. t + (Len(toServer) + k) + Len(response) = Len(W) + (moved + k)
      BY <1>1, <2>4, <2>7, <2>9
    <3>2. QED
      BY <1>2, <2>5, <2>6, <2>7, <3>1 DEF t
  <2>16. ServerEnd(W, off, s)'
    BY <1>2, <1>3, <2>2, <2>15, <2>14
       DEF ServerEnd, server, user, reading, Reads, Encoded, Holds
  <2>17. QED
    BY <1>2, <2>16 DEF user
<1>5. OneAnswer(off)'
  BY <1>2, <1>3 DEF Pipeline, OneAnswer, user
<1>6. QED
  BY <1>3, <1>4, <1>5 DEF Pipeline

LEMMA PipeSent ==
  ASSUME BufferInv, UNCHANGED <<processor, closes>>, Sent,
         NEW W, NEW off, Pipeline(W, off)
  PROVE  Pipeline(W, off)'
<1>1. /\ Written(W, off) /\ ClientEnd(W, off) /\ Len(W) \in Nat
      /\ Consumed(off) \in Nat /\ Len(response) \in Nat
  BY Positions, Lengths DEF BufferInv, Pipeline
<1>2. /\ doing = "sending" /\ doing' = "receiving" /\ moved = Len(response)
      /\ moved' = 0 /\ response' = <<>>
      /\ UNCHANGED <<user, part, need, socket, server>>
  BY DEF Sent
<1>3. /\ Consumed(off)' = Consumed(off) /\ Busy /\ Busy'
      /\ Arrived = 0 /\ Arrived' = 0
  BY <1>2 DEF Consumed, Arrived, Busy, user
<1>4. Answered(off)' = Answered(off)
  BY <1>2, <1>3 DEF Answered, socket
<1>5. Holds(W, Consumed(off), request.data, Arrived)'
  BY <1>1, <1>3 DEF ClientEnd, Holds
<1>6. ClientEnd(W, off)'
  BY <1>1, <1>2, <1>3, <1>5 DEF ClientEnd, user, socket
<1>7. Written(W, off)'
  BY <1>1, <1>2, WrittenStays DEF user
<1>8. ASSUME op' # "none" PROVE \E s \in 0..Len(wrote)' : ServerEnd(W, off, s)'
  <2>1. PICK s \in 0..Len(wrote) : ServerEnd(W, off, s)
    BY <1>2, <1>8 DEF Pipeline, server
  <2>2. /\ Taken(off, s)' = Taken(off, s) /\ Len(toServer) \in Nat
        /\ Taken(off, s) \in Nat
    BY <1>1, <1>2, <1>8, <2>1, ServerPositions, Lengths
       DEF Taken, Reads, server, BufferInv
  <2>3. Len(response') = 0 /\ SentBytes' = 0 /\ SentBytes = Len(response)
    BY <1>2 DEF SentBytes
  <2>4. Holds(W, Len(W) - Len(response), response, Len(response))'
    BY <1>1, <2>3 DEF Holds
  <2>5. Taken(off, s) + Len(toServer) = Len(W)
    BY <1>1, <2>1, <2>2, <2>3 DEF ServerEnd
  <2>6. (Taken(off, s) + Len(toServer) + Len(response) = Len(W) + SentBytes)'
    BY <1>1, <1>2, <2>2, <2>3, <2>5 DEF socket
  <2>7. ServerEnd(W, off, s)'
    BY <1>1, <1>2, <1>4, <2>1, <2>2, <2>3, <2>4, <2>6
       DEF ServerEnd, server, user, socket, reading, Reads, Encoded
  <2>8. QED
    BY <1>2, <2>7 DEF user
<1>9. OneAnswer(off)'
  BY <1>2, <1>4 DEF Pipeline, OneAnswer, user
<1>10. QED
  BY <1>6, <1>7, <1>8, <1>9 DEF Pipeline

-----------------------------------------------------------------------------
(* A step of the server that leaves the client and its stream alone. *)
LEMMA ServerTurns ==
  ASSUME NEW W, NEW off, Pipeline(W, off),
         UNCHANGED <<user, client, toClient, processor, closes>>,
         op' # "none" => \E s \in 0..Len(wrote) : ServerEnd(W, off, s)'
  PROVE  Pipeline(W, off)'
<1>1. Written(W, off)' /\ ClientEnd(W, off)' /\ wrote' = wrote
  BY WrittenStays, ClientEndStays DEF Pipeline, user
<1>2. OneAnswer(off)'
  BY <1>1, ClientEndStays DEF Pipeline, OneAnswer
<1>3. QED
  BY <1>1, <1>2 DEF Pipeline

(* What a step of the server leaves of the stream to it and of what the    *)
(* client has yet to send.                                                 *)
LEMMA StreamStays ==
  ASSUME NEW W, NEW off, NEW s, NEW r, ServerEnd(W, off, s),
         UNCHANGED <<user, client, toServer, processor>>,
         Taken(off, r)' = Taken(off, s)
  PROVE  /\ Holds(W, Taken(off, r), toServer, Len(toServer))'
         /\ (Len(response) <= Len(W))'
         /\ Holds(W, Len(W) - Len(response), response, Len(response))'
         /\ (Taken(off, r) + Len(toServer) + Len(response) = Len(W) + SentBytes)'
<1>1. SentBytes' = SentBytes /\ response' = response
  BY DEF SentBytes, client
<1>2. QED
  BY <1>1 DEF ServerEnd, Holds

LEMMA PipeServerReceives ==
  ASSUME BufferInv, UNCHANGED <<processor, closes>>, ServerReceives,
         NEW W, NEW off, Pipeline(W, off)
  PROVE  Pipeline(W, off)'
<1>1. /\ Written(W, off) /\ ClientEnd(W, off) /\ Len(W) \in Nat
      /\ Len(toServer) \in Nat /\ Len(response) \in Nat /\ SentBytes \in Nat
  BY Positions, Lengths DEF BufferInv, Pipeline
<1>2. /\ reading /\ op # "none" /\ op # "write"
      /\ UNCHANGED <<user, client, toClient, clientOpen, serverOpen, reset, response_, op>>
  BY DEF ServerReceives, reading
<1>3. PICK s \in 0..Len(wrote) : ServerEnd(W, off, s)
  BY <1>2 DEF Pipeline
<1>4. PICK k \in Nat \ {0} :
        /\ k <= Len(toServer) /\ transferred' = transferred + k
        /\ Len(request_'.data) = Len(request_.data)
        /\ \A j \in 1..transferred : request_'.data[j] = request_.data[j]
        /\ \A j \in 1..k : request_'.data[transferred + j] = toServer[j]
        /\ Len(toServer') = Len(toServer) - k
        /\ \A j \in 1..(Len(toServer) - k) : toServer'[j] = toServer[k + j]
  BY ServerReceiveMoves
<1> DEFINE b == Reads(off, s)
<1>5. b \in Nat /\ transferred \in Nat /\ b + transferred \in Nat
  BY <1>1, <1>3, ServerPositions
<1>6. Reads(off, s)' = b /\ Taken(off, s) = b + transferred
      /\ Taken(off, s)' = b + (transferred + k)
  BY <1>2, <1>4 DEF Reads, Taken
<1>7. /\ Holds(W, b, request_.data, transferred)
      /\ Holds(W, b + transferred, toServer, Len(toServer))
      /\ b + transferred + Len(toServer) + Len(response) = Len(W) + SentBytes
  BY <1>2, <1>3, <1>6 DEF ServerEnd
<1> HIDE DEF b
<1>8. Holds(W, b, request_'.data, transferred + k)
  <2>1. \A j \in 1..k : request_'.data[transferred + j] = W[b + transferred + j]
    <3> TAKE j \in 1..k
    <3>1. j \in 1..Len(toServer)
      BY <1>1, <1>4
    <3>2. QED
      BY <1>4, <1>7, <3>1 DEF Holds
  <2>2. b + transferred + k <= Len(W)
    BY <1>1, <1>4, <1>5, <1>7 DEF Holds
  <2>3. QED
    BY <1>1, <1>4, <1>5, <1>7, <2>1, <2>2, HoldsMore
<1>9. Holds(W, (b + transferred) + k, toServer', Len(toServer) - k)
  BY <1>1, <1>4, <1>5, <1>7, HoldsRest
<1>10. (b + transferred) + k = b + (transferred + k)
  BY <1>5
<1>11. Holds(W, Reads(off, s), request_.data, transferred)'
  BY <1>4, <1>6, <1>8 DEF Holds
<1>12. Holds(W, Taken(off, s), toServer, Len(toServer))'
  BY <1>4, <1>6, <1>9, <1>10 DEF Holds
<1>13. (Taken(off, s) + Len(toServer) + Len(response) = Len(W) + SentBytes)'
  <2>1. b + (transferred + k) + (Len(toServer) - k) + Len(response) = Len(W) + SentBytes
    <3>1. b + transferred + Len(toServer) + Len(response) = Len(W) + SentBytes
      BY <1>7
    <3>2. QED
      BY <1>1, <1>5, <3>1
  <2>2. SentBytes' = SentBytes /\ response' = response
    BY <1>2 DEF SentBytes, client
  <2>3. QED
    BY <1>4, <1>6, <2>1, <2>2
<1>14. Answered(off)' = Answered(off)
  BY <1>1, <1>2, ClientEndStays
<1>15. ServerEnd(W, off, s)'
  BY <1>2, <1>3, <1>4, <1>11, <1>12, <1>13, <1>14
     DEF ServerEnd, reading, user, client, Holds
<1>16. QED
  BY <1>2, <1>3, <1>15, ServerTurns DEF user

(* A read is over: the request holds the next value. *)
LEMMA RequestRead ==
  ASSUME BufferInv, NEW W, NEW off, Written(W, off), ClientEnd(W, off),
         NEW s, ServerEnd(W, off, s), reading, readDone, op # "none"
  PROVE  /\ s < Len(wrote) /\ s + 1 \in 1..Len(wrote) /\ (s + 1) - 1 = s
         /\ op = "read_value" => request_.data = wrote[s + 1]
         /\ op = "read_size" =>
              Number(Extracted(request_, SizeBytes), MaxText) = Len(wrote[s + 1])
         /\ op = "read_text" => request_.data = wrote[s + 1]
<1> DEFINE d == request_.data
<1>1. /\ s \in Nat /\ s <= Len(wrote) /\ Len(wrote) \in Nat /\ off[s] \in Nat
      /\ Reads(off, s) \in Nat /\ transferred \in Nat
      /\ d \in Seq(Byte) /\ Len(d) = transferred /\ Len(W) \in Nat
      /\ off[Len(wrote)] = Len(W)
  BY ServerPositions, Lengths, Positions DEF BufferInv, readDone, Written
<1>2. Holds(W, Reads(off, s), d, Len(d))
  BY <1>1 DEF ServerEnd
<1>3. op \in {"read_value", "read_size", "read_text"}
  BY TypesSplit DEF BufferInv, ServerTypes, reading
<1>4. s < Len(wrote)
  <2>1. CASE op = "read_text"
    BY <2>1 DEF ServerEnd
  <2>2. CASE op # "read_text"
    <3>1. Reads(off, s) = off[s] /\ Len(d) > 0
      BY <1>1, <1>3, <2>2, BoundAssumption, SizeBytesAssumption
         DEF Reads, BufferInv, ServerBuffers
    <3>2. off[s] < Len(W)
      BY <1>1, <1>2, <3>1 DEF Holds
    <3>3. QED
      BY <1>1, <3>2
  <2>3. QED
    BY <2>1, <2>2
<1> DEFINE m == s + 1
<1>5. m \in 1..Len(wrote) /\ m - 1 = s
  BY <1>1, <1>4
<1> HIDE DEF d, m
<1>6. off[m - 1] = off[s]
  BY <1>5
<1>7. CASE op = "read_value"
  <2>1. processor = "value" /\ Len(d) = ValueBytes /\ Reads(off, s) = off[s]
    BY <1>1, <1>7 DEF BufferInv, ServerBuffers, Reads, d
  <2>2. Len(d) = Len(wrote[m])
    BY <1>5, <2>1 DEF Written
  <2>3. off[s] = off[m - 1] + IF processor = "value" THEN 0 ELSE SizeBytes
    BY <1>1, <1>6, <2>1
  <2>4. d = wrote[m]
    BY <1>1, <1>2, <1>5, <2>1, <2>2, <2>3, WholeText
  <2>5. QED
    BY <1>4, <1>5, <1>7, <2>4 DEF d, m
<1>8. CASE op = "read_size"
  <2>1. processor # "value" /\ Len(d) = SizeBytes /\ Reads(off, s) = off[s]
    BY <1>1, <1>8 DEF BufferInv, ServerBuffers, Reads, d
  <2>2. Extracted(request_, SizeBytes) = d
    <3>1. /\ request_ \in Buffer /\ SizeBytes \in Nat /\ HasData(request_, SizeBytes)
          /\ request_.extracted = 0
      BY <1>8, <2>1, SizeBytesAssumption
         DEF BufferInv, BytesOK, ServerBuffers, reading, HasData, d
    <3>2. /\ Extracted(request_, SizeBytes) \in Seq(Byte)
          /\ Len(Extracted(request_, SizeBytes)) = SizeBytes
          /\ \A k \in 1..SizeBytes :
               Extracted(request_, SizeBytes)[k] = d[request_.extracted + k]
      BY <3>1, ExtractType DEF d
    <3>3. \A k \in 1..SizeBytes : Extracted(request_, SizeBytes)[k] = d[k]
      <4>1. \A k \in 1..SizeBytes : 0 + k = k
        BY <3>1
      <4>2. QED
        BY <3>1, <3>2, <4>1
    <3>4. QED
      BY <1>1, <2>1, <3>2, <3>3, SeqEqual
  <2>3. Holds(W, off[m - 1], d, SizeBytes)
    BY <1>2, <1>6, <2>1
  <2>4. Number(d, MaxText) = Len(wrote[m])
    BY <1>1, <1>5, <2>1, <2>3, WholeSize
  <2>5. QED
    BY <1>4, <1>5, <1>8, <2>2, <2>4 DEF m
<1>9. CASE op = "read_text"
  <2>1. processor # "value" /\ Len(d) = Len(wrote[m])
        /\ Reads(off, s) = off[s] + SizeBytes
    BY <1>9 DEF BufferInv, ServerBuffers, Reads, ServerEnd, d, m
  <2>2. Reads(off, s) = off[m - 1] + IF processor = "value" THEN 0 ELSE SizeBytes
    BY <1>6, <2>1
  <2>3. d = wrote[m]
    BY <1>1, <1>2, <1>5, <2>1, <2>2, WholeText
  <2>4. QED
    BY <1>4, <1>5, <1>9, <2>3 DEF d, m
<1>10. QED
  BY <1>3, <1>7, <1>8, <1>9

(* The value that was read is the response, and the stream begins behind   *)
(* it.                                                                     *)
LEMMA PipeOnRead ==
  ASSUME BufferInv, UNCHANGED <<processor, closes>>, OnRead,
         NEW W, NEW off, Pipeline(W, off)
  PROVE  Pipeline(W, off)'
<1>1. /\ Written(W, off) /\ ClientEnd(W, off)
      /\ op \in {"read_value", "read_text"} /\ readDone /\ reading
      /\ op' = "write" /\ transferred' = 0 /\ UNCHANGED <<user, client, socket>>
  BY DEF Pipeline, OnRead, AsyncWrite, reading
<1>2. PICK s \in 0..Len(wrote) : ServerEnd(W, off, s)
  BY <1>1 DEF Pipeline
<1>3. /\ s < Len(wrote) /\ s + 1 \in 1..Len(wrote) /\ (s + 1) - 1 = s
      /\ request_.data = wrote[s + 1]
  BY <1>1, <1>2, RequestRead
<1>4. /\ off[(s + 1) - 1] \in Nat
      /\ processor = "value" => off[s + 1] = off[(s + 1) - 1] + ValueBytes
      /\ processor # "value" =>
           off[s + 1] = off[(s + 1) - 1] + SizeBytes + Len(wrote[s + 1])
  BY <1>1, <1>3, WrittenTypes
<1>5. Taken(off, s)' = Taken(off, s)
  <2>1. transferred = Len(wrote[s + 1]) /\ Len(wrote[s + 1]) \in Nat
    BY <1>1, <1>3, WrittenTypes DEF readDone
  <2>2. CASE op = "read_value"
    BY <1>1, <1>3, <1>4, <2>1, <2>2
       DEF Taken, Reads, BufferInv, ServerBuffers, readDone
  <2>3. CASE op = "read_text"
    BY <1>1, <1>3, <1>4, <2>1, <2>3
       DEF Taken, Reads, BufferInv, ServerBuffers
  <2>4. QED
    BY <1>1, <2>2, <2>3
<1>6. /\ Holds(W, Taken(off, s), toServer, Len(toServer))'
      /\ (Len(response) <= Len(W))'
      /\ Holds(W, Len(W) - Len(response), response, Len(response))'
      /\ (Taken(off, s) + Len(toServer) + Len(response) = Len(W) + SentBytes)'
  BY <1>1, <1>2, <1>5, StreamStays DEF socket
<1>7. response_' = Encoded(wrote[s + 1])
  <2>1. /\ response_' = response_ \o Encoded(request_.data)
        /\ Encoded(request_.data) \in Seq(Byte) /\ response_ = <<>>
    BY <1>1, <1>2, OnReadPuts DEF ServerEnd
  <2>2. QED
    BY <1>3, <2>1, ConcatEmptySeq
<1>8. Answered(off)' = Answered(off) /\ Answered(off) = off[s] /\ off[s] \in Nat
  BY <1>1, <1>2, <1>3, <1>4, ClientEndStays DEF socket, ServerEnd
<1>9. ServerEnd(W, off, s)'
  BY <1>1, <1>2, <1>3, <1>6, <1>7, <1>8 DEF ServerEnd, reading, user, Encoded
<1>10. QED
  BY <1>1, <1>2, <1>9, ServerTurns DEF user, socket

(* The size that was read is that of the next text. *)
LEMMA PipeOnRead1 ==
  ASSUME BufferInv, UNCHANGED <<processor, closes>>, OnRead1,
         NEW W, NEW off, Pipeline(W, off)
  PROVE  Pipeline(W, off)'
<1>1. /\ Written(W, off) /\ ClientEnd(W, off)
      /\ op = "read_size" /\ readDone /\ reading
      /\ UNCHANGED <<user, client, socket, response_>>
  BY DEF Pipeline, OnRead1, reading
<1>2. PICK s \in 0..Len(wrote) : ServerEnd(W, off, s)
  BY <1>1 DEF Pipeline
<1>3. /\ s < Len(wrote) /\ s + 1 \in 1..Len(wrote)
      /\ Number(Extracted(request_, SizeBytes), MaxText) = Len(wrote[s + 1])
  BY <1>1, <1>2, RequestRead
<1>4. Len(wrote[s + 1]) \in Nat
  BY <1>1, <1>3, WrittenTypes
<1>5. /\ op' = "read_text" /\ transferred' = 0
      /\ Len(request_'.data) = Len(wrote[s + 1])
  BY <1>3, <1>4, AsyncReadType DEF OnRead1
<1>6. transferred = SizeBytes /\ off[s] \in Nat /\ SizeBytes \in Nat
  BY <1>1, <1>2, ServerPositions, SizeBytesAssumption
     DEF BufferInv, ServerBuffers, readDone
<1>7. /\ Taken(off, s)' = Taken(off, s) /\ Reads(off, s)' = off[s] + SizeBytes
      /\ Taken(off, s) = off[s] + SizeBytes
  BY <1>1, <1>5, <1>6 DEF Taken, Reads
<1>8. /\ Holds(W, Taken(off, s), toServer, Len(toServer))'
      /\ (Len(response) <= Len(W))'
      /\ Holds(W, Len(W) - Len(response), response, Len(response))'
      /\ (Taken(off, s) + Len(toServer) + Len(response) = Len(W) + SentBytes)'
  BY <1>1, <1>2, <1>7, StreamStays DEF socket
<1>9. Holds(W, Reads(off, s), request_.data, transferred)'
  <2>1. Len(W) \in Nat /\ Taken(off, s) \in Nat
    BY <1>1, <1>6, <1>7, Positions
  <2>2. Taken(off, s) <= Len(W)
    BY <1>2, <2>1, TakenIsThere
  <2>3. Reads(off, s)' + 0 <= Len(W)
    BY <1>6, <1>7, <2>1, <2>2
  <2>4. QED
    BY <1>5, <2>3 DEF Holds
<1>10. Answered(off)' = Answered(off) /\ response_ = <<>> /\ Answered(off) = off[s]
  BY <1>1, <1>2, ClientEndStays DEF socket, ServerEnd
<1>11. ServerEnd(W, off, s)'
  BY <1>1, <1>2, <1>3, <1>5, <1>8, <1>9, <1>10 DEF ServerEnd, reading, user
<1>12. QED
  BY <1>1, <1>2, <1>11, ServerTurns DEF user, socket

LEMMA PipeOnReadError ==
  ASSUME OnReadError, UNCHANGED <<processor, closes>>,
         NEW W, NEW off, Pipeline(W, off)
  PROVE  Pipeline(W, off)'
BY ServerTurns DEF OnReadError, Release

LEMMA PipeOnWriteError ==
  ASSUME OnWriteError, UNCHANGED <<processor, closes>>,
         NEW W, NEW off, Pipeline(W, off)
  PROVE  Pipeline(W, off)'
BY ServerTurns DEF OnWriteError, Release

(* A turn of async_write: the stream to the client gains what the response *)
(* loses.                                                                  *)
LEMMA PipeServerSends ==
  ASSUME BufferInv, UNCHANGED <<processor, closes>>, ServerSends, doing # "gone",
         NEW W, NEW off, Pipeline(W, off)
  PROVE  Pipeline(W, off)'
<1>1. /\ Written(W, off) /\ ClientEnd(W, off) /\ Len(W) \in Nat
      /\ Consumed(off) \in Nat /\ Arrived \in Nat /\ transferred \in Nat
      /\ Len(toClient) \in Nat /\ Capacity \in Nat /\ Len(response_) \in Nat
      /\ BytesOK
  BY Positions, Lengths, BoundAssumption DEF BufferInv, Pipeline, BytesOK
<1>2. /\ op = "write" /\ clientOpen /\ transferred < Len(response_)
      /\ UNCHANGED <<user, client, toServer, clientOpen, serverOpen,
                     request_, response_, op>>
  BY DEF ServerSends, BufferInv, ClientBuffers
<1>3. PICK s \in 0..Len(wrote) : ServerEnd(W, off, s)
  BY <1>2 DEF Pipeline
<1>4. PICK k \in 1..Least(Len(response_) - transferred, Capacity - Len(toClient)) :
        /\ toClient' = toClient \o SubSeq(response_, transferred + 1, transferred + k)
        /\ transferred' = transferred + k
  BY <1>2 DEF ServerSends
<1>5. k \in Nat \ {0} /\ transferred + k <= Len(response_)
  BY <1>1, LeastBounds
<1>6. /\ Len(toClient') = Len(toClient) + k
      /\ \A j \in 1..Len(toClient) : toClient'[j] = toClient[j]
      /\ \A j \in 1..k : toClient'[Len(toClient) + j] = response_[transferred + j]
  BY <1>1, <1>4, <1>5, AppendPiece DEF BytesOK
<1> DEFINE c == Consumed(off) + Arrived
<1>7. /\ Consumed(off)' = Consumed(off) /\ Arrived' = Arrived
      /\ SentBytes' = SentBytes /\ (Busy' <=> Busy)
  BY <1>2 DEF Consumed, Arrived, SentBytes, Busy, user, client
<1>8. /\ s + 1 \in 1..Len(wrote) /\ (s + 1) - 1 = s
      /\ response_ = Encoded(wrote[s + 1])
      /\ c + Len(toClient) = off[s] + transferred
  BY <1>1, <1>2, <1>3, ServerPositions DEF ServerEnd, Answered
<1>9. /\ Holds(W, off[s], response_, Len(response_)) /\ off[s] \in Nat
      /\ Holds(W, c, toClient, Len(toClient)) /\ c \in Nat
  <2>1. Holds(W, off[(s + 1) - 1], Encoded(wrote[s + 1]), Len(Encoded(wrote[s + 1])))
    BY <1>1, <1>8 DEF Written
  <2>2. Holds(W, off[s], response_, Len(response_))
    BY <1>8, <2>1
  <2>3. off[s] \in Nat
    BY <1>1, <1>3, ServerPositions
  <2>4. Holds(W, c, toClient, Len(toClient))
    BY <1>1 DEF ClientEnd
  <2>5. c \in Nat
    BY <1>1
  <2>6. QED
    BY <2>2, <2>3, <2>4, <2>5
<1>10. c + Len(toClient) = off[s] + transferred
  BY <1>8
<1> HIDE DEF c
<1>11. Holds(W, c, toClient', Len(toClient) + k)
  <2>1. \A j \in 1..k : toClient'[Len(toClient) + j] = W[c + Len(toClient) + j]
    <3> TAKE j \in 1..k
    <3>1. transferred + j \in 1..Len(response_)
      BY <1>1, <1>5
    <3>2. off[s] + (transferred + j) = c + Len(toClient) + j
      <4> DEFINE l == Len(toClient)
                 o == off[s]
                 t == transferred
      <4>1. o \in Nat /\ t \in Nat /\ c \in Nat /\ l \in Nat /\ j \in Nat
        BY <1>1, <1>5, <1>9
      <4>2. c + l = o + t
        BY <1>10
      <4> HIDE DEF l, o, t
      <4>3. o + (t + j) = c + l + j
        BY <4>1, <4>2
      <4>4. QED
        BY <4>3 DEF l, o, t
    <3>3. response_[transferred + j] = W[off[s] + (transferred + j)]
      BY <1>9, <3>1 DEF Holds
    <3>4. QED
      BY <1>6, <3>2, <3>3
  <2>2. c + Len(toClient) + k <= Len(W)
    <3> DEFINE l == Len(toClient)
               o == off[s]
               t == transferred
               r == Len(response_)
               w == Len(W)
    <3>1. o + r <= w
      BY <1>9 DEF Holds
    <3>2. /\ o \in Nat /\ t \in Nat /\ c \in Nat /\ w \in Nat /\ l \in Nat
          /\ r \in Nat /\ k \in Nat
      BY <1>1, <1>5, <1>9
    <3>3. c + l = o + t /\ t + k <= r
      BY <1>5, <1>10
    <3> HIDE DEF l, o, t, r, w
    <3>4. c + l + k <= w
      BY <3>1, <3>2, <3>3
    <3>5. QED
      BY <3>4 DEF l, w
  <2>3. QED
    BY <1>1, <1>5, <1>6, <1>9, <2>1, <2>2, HoldsMore
<1>12. Holds(W, Consumed(off) + Arrived, toClient, Len(toClient))'
  BY <1>6, <1>7, <1>11 DEF Holds, c
<1>13. Holds(W, Consumed(off), request.data, Arrived)'
  BY <1>1, <1>2, <1>7 DEF ClientEnd, Holds, client
<1>14. ClientEnd(W, off)'
  BY <1>1, <1>2, <1>7, <1>12, <1>13 DEF ClientEnd, user, client
<1>15. Answered(off)' = off[s] + transferred'
  <2>1. c + (Len(toClient) + k) = off[s] + (transferred + k)
    <3> DEFINE l == Len(toClient)
               o == off[s]
               t == transferred
    <3>1. o \in Nat /\ t \in Nat /\ c \in Nat /\ l \in Nat /\ k \in Nat
      BY <1>1, <1>5, <1>9
    <3>2. c + l = o + t
      BY <1>10
    <3> HIDE DEF l, o, t
    <3>3. c + (l + k) = o + (t + k)
      BY <3>1, <3>2
    <3>4. QED
      BY <3>3 DEF l, o, t
  <2>2. QED
    BY <1>4, <1>6, <1>7, <2>1 DEF Answered, c
<1>16. OneAnswer(off)'
  <2>1. closes => off[s] = 0 /\ s + 1 = 1
    BY <1>1, <1>3 DEF ServerEnd, Written
  <2>2. off[s] + Len(response_) = off[s + 1]
    <3>1. off[s + 1] = off[(s + 1) - 1] + Len(Encoded(wrote[s + 1]))
      BY <1>1, <1>8 DEF Written
    <3>2. QED
      BY <1>8, <3>1
  <2>3. closes => transferred' <= off[1] /\ Answered(off)' = transferred'
    <3>1. transferred' <= Len(response_) /\ transferred' \in Nat
      BY <1>1, <1>4, <1>5
    <3>2. closes => Len(response_) = off[1]
      BY <1>1, <2>1, <2>2
    <3>3. closes => Answered(off)' = transferred'
      BY <1>15, <2>1, <3>1
    <3>4. QED
      BY <3>1, <3>2, <3>3
  <2>4. QED
    BY <2>3 DEF OneAnswer
<1>17. Taken(off, s)' = Taken(off, s)
  BY <1>2 DEF Taken
<1>18. ServerEnd(W, off, s)'
  BY <1>2, <1>3, <1>7, <1>15, <1>17
     DEF ServerEnd, reading, user, client, Holds, Encoded
<1>19. Written(W, off)' /\ wrote' = wrote
  BY <1>1, <1>2, WrittenStays DEF user
<1>20. QED
  BY <1>3, <1>14, <1>18, <1>19, <1>16 DEF Pipeline

(* The response is sent: one more value is echoed. *)
LEMMA PipeOnWrite ==
  ASSUME BufferInv, UNCHANGED <<processor, closes>>, OnWrite,
         NEW W, NEW off, Pipeline(W, off)
  PROVE  Pipeline(W, off)'
<1>1. /\ Written(W, off) /\ ClientEnd(W, off) /\ SocketTypes
      /\ op = "write" /\ transferred = Len(response_) /\ response_' = <<>>
      /\ UNCHANGED <<user, client, toServer, toClient, clientOpen>>
  BY TypesSplit DEF Pipeline, OnWrite, BufferInv
<1>2. CASE closes
  BY <1>1, <1>2, ServerTurns DEF OnWrite, Release
<1>3. CASE ~closes
  <2>1. PICK s \in 0..Len(wrote) : ServerEnd(W, off, s)
    BY <1>1 DEF Pipeline
  <2>2. /\ op' = FirstRead /\ transferred' = 0
    BY <1>1, <1>3, FirstNeed, AsyncReadType DEF OnWrite
  <2>3. /\ s < Len(wrote) /\ s + 1 \in 1..Len(wrote) /\ (s + 1) - 1 = s
        /\ off[s] + Len(Encoded(wrote[s + 1])) = off[s + 1]
        /\ off[s + 1] \in Nat
    <3>1. s < Len(wrote) /\ s + 1 \in 1..Len(wrote) /\ (s + 1) - 1 = s
      BY <1>1, <2>1, ServerPositions DEF ServerEnd
    <3>2. off[s + 1] = off[(s + 1) - 1] + Len(Encoded(wrote[s + 1]))
          /\ off[s + 1] \in Nat
      BY <1>1, <3>1, WrittenTypes DEF Written
    <3>3. QED
      BY <3>1, <3>2
  <2>4. op' # "read_text" /\ op' # "write" /\ op' # "none"
    BY <1>1, <2>2, FirstNeed
  <2>5. /\ Reads(off, s + 1)' = off[s + 1] /\ Taken(off, s + 1)' = off[s + 1]
        /\ Taken(off, s) = off[s + 1]
    BY <1>1, <2>2, <2>3, <2>4 DEF Reads, Taken
  <2>6. /\ Holds(W, Taken(off, s + 1), toServer, Len(toServer))'
        /\ (Len(response) <= Len(W))'
        /\ Holds(W, Len(W) - Len(response), response, Len(response))'
        /\ (Taken(off, s + 1) + Len(toServer) + Len(response) = Len(W) + SentBytes)'
    BY <1>1, <2>1, <2>5, StreamStays
  <2>7. Answered(off)' = off[s + 1]
    BY <1>1, <2>1, <2>3, ClientEndStays DEF ServerEnd
  <2>8. Holds(W, Reads(off, s + 1), request_.data, transferred)'
    <3>1. Len(W) \in Nat /\ Taken(off, s) \in Nat
      BY <1>1, <2>3, <2>5, Positions
    <3>2. Taken(off, s) <= Len(W)
      BY <2>1, <3>1, TakenIsThere
    <3>3. Reads(off, s + 1)' + 0 <= Len(W)
      BY <2>3, <2>5, <3>1, <3>2
    <3>4. QED
      BY <2>2, <3>3 DEF Holds
  <2>9. ServerEnd(W, off, s + 1)'
    <3>1. s + 1 \in 0..Len(wrote') /\ ~closes'
      BY <1>1, <1>3, <2>3 DEF user
    <3>2. op' # "read_text" /\ op' # "write" /\ response_' = <<>>
      BY <1>1, <2>4
    <3>3. QED
      BY <2>6, <2>7, <2>8, <3>1, <3>2 DEF ServerEnd
  <2>10. QED
    BY <1>1, <2>3, <2>9, ServerTurns
<1>4. QED
  BY <1>2, <1>3

-----------------------------------------------------------------------------
(* The client writes: W grows at its end, and whatever held a part of it   *)
(* still does.                                                             *)
LEMMA HoldsLonger ==
  ASSUME NEW W \in Seq(Byte), NEW x \in Seq(Byte), NEW at \in Nat, NEW n \in Nat,
         NEW s, Holds(W, at, s, n)
  PROVE  Holds(W \o x, at, s, n)
<1>1. /\ Len(W) \in Nat /\ Len(x) \in Nat /\ Len(W \o x) = Len(W) + Len(x)
      /\ \A i \in 1..(Len(W) + Len(x)) : (W \o x)[i] = IF i <= Len(W) THEN W[i] ELSE x[i - Len(W)]
  BY ConcatProperties, LenProperties
<1>2. at + n <= Len(W) /\ \A k \in 1..n : s[k] = W[at + k]
  BY DEF Holds
<1>3. at + n <= Len(W \o x)
  BY <1>1, <1>2
<1>4. \A k \in 1..n : (W \o x)[at + k] = W[at + k]
  BY <1>1, <1>2
<1>5. QED
  BY <1>2, <1>3, <1>4 DEF Holds

LEMMA LongerFunction ==
  ASSUME NEW n \in Nat, NEW f \in [0..n -> Nat], NEW v \in Nat
  PROVE  \E g \in [0..(n + 1) -> Nat] : g[n + 1] = v /\ \A m \in 0..n : g[m] = f[m]
<1> DEFINE g == [m \in 0..(n + 1) |-> IF m <= n THEN f[m] ELSE v]
<1>1. \A m \in 0..n : m \in 0..(n + 1) /\ m <= n /\ f[m] \in Nat
  OBVIOUS
<1>2. \A m \in 0..n : g[m] = f[m]
  BY <1>1
<1>3. n + 1 \in 0..(n + 1) /\ ~(n + 1 <= n)
  OBVIOUS
<1>4. g[n + 1] = v
  BY <1>3
<1>5. \A m \in 0..(n + 1) : (IF m <= n THEN f[m] ELSE v) \in Nat
  OBVIOUS
<1>6. g \in [0..(n + 1) -> Nat]
  BY <1>5
<1>7. QED
  BY <1>2, <1>4, <1>6

LEMMA WriteExtends ==
  ASSUME BufferInv, UNCHANGED processor, NEW W, NEW off, Written(W, off),
         NEW text \in Seq(Byte), NEW e \in Seq(Byte), e = Encoded(text),
         NEW W2, W2 = W \o e,
         processor = "value" => Len(text) = ValueBytes,
         processor # "value" => Len(text) <= MaxText,
         wrote' = Append(wrote, text),
         NEW off2 \in [0..(Len(wrote) + 1) -> Nat],
         off2[Len(wrote) + 1] = Len(W) + Len(e),
         \A m \in 0..Len(wrote) : off2[m] = off[m]
  PROVE  Written(W2, off2)'
<1> DEFINE n == Len(wrote)
<1>1. /\ wrote \in Seq(Seq(Byte)) /\ n \in Nat /\ W \in Seq(Byte)
      /\ Len(W) \in Nat /\ Len(e) \in Nat /\ e \in Seq(Byte)
      /\ off \in [0..n -> Nat] /\ off[0] = 0 /\ off[n] = Len(W)
  BY Lengths, LenProperties DEF BufferInv, BytesOK, Written
<1>2. /\ Len(wrote') = n + 1 /\ wrote'[n + 1] = text
      /\ \A m \in 1..n : wrote'[m] = wrote[m]
  BY <1>1, AppendProperties
<1>3. /\ Len(W \o e) = Len(W) + Len(e) /\ W \o e \in Seq(Byte)
      /\ \A i \in 1..(Len(W) + Len(e)) : (W \o e)[i] = IF i <= Len(W) THEN W[i] ELSE e[i - Len(W)]
  BY <1>1, ConcatProperties
<1>4. /\ \A m \in 0..n : off2[m] = off[m]
      /\ off2[n + 1] = Len(W) + Len(e) /\ off2 \in [0..(n + 1) -> Nat]
  OBVIOUS
<1>5. ASSUME NEW m \in 1..(n + 1)
      PROVE  /\ off2[m] = off2[m - 1] + Len(Encoded(wrote[m])')
             /\ Holds(W \o e, off2[m - 1], Encoded(wrote[m])', Len(Encoded(wrote[m])'))
             /\ processor = "value" => Len(wrote'[m]) = ValueBytes
             /\ processor # "value" => Len(wrote'[m]) <= MaxText
  <2>1. CASE m <= n
    <3>1. m \in 1..n /\ m - 1 \in 0..n /\ m \in 0..n
      BY <1>1, <2>1
    <3>2. /\ off[m] = off[m - 1] + Len(Encoded(wrote[m]))
          /\ Holds(W, off[m - 1], Encoded(wrote[m]), Len(Encoded(wrote[m])))
          /\ processor = "value" => Len(wrote[m]) = ValueBytes
          /\ processor # "value" => Len(wrote[m]) <= MaxText
      BY <3>1 DEF Written
    <3>3. wrote[m] \in Seq(Byte)
      BY <3>1, WrittenTypes
    <3>4. Encoded(wrote[m]) \in Seq(Byte)
      BY <3>2, <3>3, EncodedType
    <3>5. Len(Encoded(wrote[m])) \in Nat /\ off[m - 1] \in Nat
      BY <1>1, <3>1, <3>4, LenProperties
    <3>6. Holds(W \o e, off[m - 1], Encoded(wrote[m]), Len(Encoded(wrote[m])))
      BY <1>1, <3>2, <3>5, HoldsLonger
    <3>7. Encoded(wrote[m])' = Encoded(wrote[m]) /\ wrote'[m] = wrote[m]
      BY <1>2, <3>1 DEF Encoded
    <3>8. off2[m] = off[m] /\ off2[m - 1] = off[m - 1]
      BY <1>4, <3>1
    <3>9. QED
      BY <3>2, <3>6, <3>7, <3>8
  <2>2. CASE m = n + 1
    <3>1. Encoded(wrote[m])' = e /\ wrote'[m] = text /\ m - 1 = n
      BY <1>1, <1>2, <2>2 DEF Encoded
    <3>2. off2[m - 1] = Len(W) /\ off2[m] = Len(W) + Len(e)
      <4>1. n \in 0..n /\ off[n] = Len(W)
        BY <1>1
      <4>2. off2[n] = Len(W) /\ off2[n + 1] = Len(W) + Len(e)
        BY <1>4, <4>1
      <4>3. QED
        BY <2>2, <3>1, <4>2
    <3>3. \A k \in 1..Len(e) : e[k] = (W \o e)[Len(W) + k]
      <4> TAKE k \in 1..Len(e)
      <4>1. /\ Len(W) + k \in 1..(Len(W) + Len(e)) /\ ~(Len(W) + k <= Len(W))
            /\ (Len(W) + k) - Len(W) = k
        BY <1>1
      <4>2. QED
        BY <1>3, <4>1
    <3>4. Holds(W \o e, Len(W), e, Len(e))
      BY <1>1, <1>3, <3>3 DEF Holds
    <3>5. QED
      BY <3>1, <3>2, <3>4
  <2>3. m <= n \/ m = n + 1
    BY <1>1
  <2>4. QED
    BY <2>1, <2>2, <2>3
<1>6. Written(W \o e, off2)'
  <2>1. off2[0] = 0 /\ off2[n + 1] = Len(W \o e)
    BY <1>1, <1>3, <1>4
  <2>2. QED
    BY <1>2, <1>3, <1>4, <1>5, <2>1 DEF Written
<1>7. QED
  BY <1>6

LEMMA PipeWrite ==
  ASSUME BufferInv, UNCHANGED <<processor, closes>>, Write,
         NEW W, NEW off, Pipeline(W, off)
  PROVE  \E W2, off2 : Pipeline(W2, off2)'
<1>1. PICK text \in Seq(Byte) :
        /\ processor = "value" => Len(text) = ValueBytes
        /\ processor # "value" => Len(text) <= MaxText
        /\ wrote' = Append(wrote, text)
        /\ response' = response \o Encoded(text)
        /\ Encoded(text) \in Seq(Byte)
  BY WriteAdds
<1>2. PICK e : e = Encoded(text)
  OBVIOUS
<1>3. PICK W2 : W2 = W \o e
  OBVIOUS
<1>4. /\ Written(W, off) /\ ClientEnd(W, off) /\ BytesOK /\ W \in Seq(Byte)
      /\ Len(W) \in Nat /\ Len(got) \in 0..Len(wrote) /\ Len(wrote) \in Nat
      /\ Consumed(off) \in Nat /\ Len(toClient) \in Nat /\ Len(toServer) \in Nat
      /\ Len(response) \in Nat /\ response \in Seq(Byte)
  BY Positions, Lengths, LenProperties DEF BufferInv, BytesOK, Pipeline, Written
<1>5. e \in Seq(Byte) /\ Len(W) + Len(e) \in Nat /\ off \in [0..Len(wrote) -> Nat]
  BY <1>1, <1>2, <1>4, LenProperties DEF Written
<1>6. PICK off2 \in [0..(Len(wrote) + 1) -> Nat] :
        /\ off2[Len(wrote) + 1] = Len(W) + Len(e)
        /\ \A m \in 0..Len(wrote) : off2[m] = off[m]
  <2>1. Len(wrote) \in Nat
    BY <1>4
  <2> DEFINE n == Len(wrote)
             v == Len(W) + Len(e)
  <2>2. n \in Nat /\ v \in Nat /\ off \in [0..n -> Nat]
    BY <1>5, <2>1
  <2> HIDE DEF n, v
  <2>3. \E g \in [0..(n + 1) -> Nat] : g[n + 1] = v /\ \A m \in 0..n : g[m] = off[m]
    BY <2>2, LongerFunction, ZenonT(30)
  <2>4. QED
    BY <2>3 DEF n, v
<1>7. /\ Len(wrote') = Len(wrote) + 1
      /\ \A m \in 1..Len(wrote) : wrote'[m] = wrote[m]
      /\ Written(W2, off2)'
      /\ \A m \in 0..Len(wrote) : off2[m] = off[m]
  <2>1. /\ UNCHANGED processor /\ W2 = W \o e /\ Written(W, off)
        /\ e \in Seq(Byte) /\ e = Encoded(text) /\ text \in Seq(Byte)
        /\ processor = "value" => Len(text) = ValueBytes
        /\ processor # "value" => Len(text) <= MaxText
        /\ wrote' = Append(wrote, text)
    BY <1>1, <1>2, <1>3, <1>4, <1>5
  <2>2. Written(W2, off2)'
    BY <1>6, <2>1, WriteExtends, ZenonT(30)
  <2>3. Len(wrote') = Len(wrote) + 1 /\ \A m \in 1..Len(wrote) : wrote'[m] = wrote[m]
    BY <1>1, <1>4, AppendProperties DEF BytesOK
  <2>4. QED
    BY <1>6, <2>2, <2>3
<1>8. /\ e \in Seq(Byte) /\ Len(e) \in Nat /\ Len(W2) = Len(W) + Len(e)
      /\ response' = response \o e
      /\ \A i \in 1..(Len(W) + Len(e)) : W2[i] = IF i <= Len(W) THEN W[i] ELSE e[i - Len(W)]
  BY <1>1, <1>2, <1>3, <1>4, ConcatProperties, LenProperties
<1>9. /\ Len(response') = Len(response) + Len(e)
      /\ \A i \in 1..(Len(response) + Len(e)) :
           response'[i] = IF i <= Len(response) THEN response[i] ELSE e[i - Len(response)]
  BY <1>4, <1>8, ConcatProperties
<1>10. doing = "idle" /\ doing' = "idle"
      /\ UNCHANGED <<got, request, part, need, moved, socket, server>>
  BY DEF Write
<1>11. ASSUME NEW at \in Nat, NEW n \in Nat, NEW s, Holds(W, at, s, n)
      PROVE  Holds(W2, at, s, n)
  BY <1>4, <1>3, <1>8, <1>11, HoldsLonger
<1>12. /\ Consumed(off2)' = Consumed(off) /\ Arrived = 0 /\ Arrived' = 0
      /\ SentBytes = 0 /\ SentBytes' = 0 /\ ~Busy /\ ~Busy'
  <2>1. ~Busy /\ ~Busy' /\ Arrived = 0 /\ Arrived' = 0 /\ SentBytes = 0 /\ SentBytes' = 0
    BY <1>10 DEF Busy, Arrived, SentBytes
  <2>2. off2[Len(got)] = off[Len(got)]
    BY <1>4, <1>7
  <2>3. Consumed(off2)' = Consumed(off)
    BY <1>10, <2>1, <2>2 DEF Consumed
  <2>4. QED
    BY <2>1, <2>3
<1>13. Answered(off2)' = Answered(off)
  BY <1>10, <1>12 DEF Answered, socket
<1>14. ClientEnd(W2, off2)'
  <2>1. Holds(W, Consumed(off), toClient, Len(toClient))
    BY <1>4, <1>12 DEF ClientEnd
  <2>2. Holds(W2, Consumed(off), toClient, Len(toClient))
    BY <1>4, <1>11, <2>1
  <2>3. Holds(W2, Consumed(off), request.data, 0)
    <3>1. Consumed(off) + Len(toClient) <= Len(W2)
      BY <2>2 DEF Holds
    <3>2. Len(W2) \in Nat
      BY <1>4, <1>8
    <3>3. Consumed(off) + 0 <= Len(W2)
      BY <1>4, <3>1, <3>2
    <3>4. QED
      BY <3>3 DEF Holds
  <2>4. Holds(W2, Consumed(off2), request.data, Arrived)'
    BY <1>10, <1>12, <2>3 DEF Holds
  <2>5. Consumed(off2)' + Arrived' = Consumed(off)
    BY <1>4, <1>12
  <2>6. Holds(W2, Consumed(off2) + Arrived, toClient, Len(toClient))'
    BY <1>10, <2>2, <2>5 DEF Holds, socket
  <2>7. Len(got') <= Len(wrote')
    BY <1>4, <1>7, <1>10
  <2>8. QED
    BY <1>12, <2>4, <2>6, <2>7 DEF ClientEnd
<1>15. ASSUME NEW s \in 0..Len(wrote), ServerEnd(W, off, s), op # "none"
       PROVE  ServerEnd(W2, off2, s)'
  <2>1. /\ off2[s] = off[s] /\ off[s] \in Nat /\ transferred \in Nat
        /\ Reads(off, s) \in Nat /\ Taken(off, s) \in Nat
    BY <1>4, <1>7, <1>15, ServerPositions
  <2>2. op \in {"write", "read_text"} =>
          /\ s < Len(wrote) /\ s + 1 \in 1..Len(wrote) /\ off2[s + 1] = off[s + 1]
          /\ wrote'[s + 1] = wrote[s + 1]
    <3>1. op \in {"write", "read_text"} =>
            s < Len(wrote) /\ s + 1 \in 1..Len(wrote) /\ s + 1 \in 0..Len(wrote)
      BY <1>4, <1>15 DEF ServerEnd
    <3>2. QED
      BY <1>7, <3>1
  <2>3. Reads(off2, s)' = Reads(off, s) /\ Taken(off2, s)' = Taken(off, s)
    BY <1>10, <2>1, <2>2 DEF Reads, Taken, server
  <2>4. closes' => s = 0
    BY <1>15 DEF ServerEnd
  <2>5. /\ s \in 0..Len(wrote')
        /\ op' \in {"write", "read_text"} => s < Len(wrote')
    BY <1>4, <1>7
  <2>6. op' = "write" => /\ response_' = Encoded(wrote[s + 1])'
                         /\ Answered(off2)' = off2[s] + transferred'
    BY <1>10, <1>13, <1>15, <2>1, <2>2 DEF ServerEnd, Encoded, server
  <2>7. reading' => /\ response_' = <<>> /\ Answered(off2)' = off2[s]
                    /\ Holds(W2, Reads(off2, s), request_.data, transferred)'
    <3>1. reading => Holds(W, Reads(off, s), request_.data, transferred)
      BY <1>15 DEF ServerEnd
    <3>2. reading => Holds(W2, Reads(off, s), request_.data, transferred)
      BY <1>11, <2>1, <3>1
    <3>3. reading => Holds(W2, Reads(off2, s), request_.data, transferred)'
      BY <1>10, <2>3, <3>2 DEF Holds, server
    <3>4. reading => response_ = <<>> /\ Answered(off) = off[s]
      BY <1>15 DEF ServerEnd
    <3>5. reading' = reading /\ response_' = response_
      BY <1>10 DEF reading, server
    <3>6. QED
      BY <1>13, <2>1, <3>3, <3>4, <3>5
  <2>8. op' = "read_text" => Len(request_'.data) = Len(wrote'[s + 1])
    BY <1>10, <1>15, <2>2 DEF ServerEnd, server
  <2>9. Holds(W2, Taken(off2, s), toServer, Len(toServer))'
    <3>1. Holds(W, Taken(off, s), toServer, Len(toServer))
      BY <1>15 DEF ServerEnd
    <3>2. Holds(W2, Taken(off, s), toServer, Len(toServer))
      BY <1>4, <1>11, <2>1, <3>1
    <3>3. QED
      BY <1>10, <2>3, <3>2 DEF Holds, socket
  <2>10. Len(response) <= Len(W)
    BY <1>15 DEF ServerEnd
  <2> DEFINE at == Len(W) - Len(response)
  <2>11. /\ at \in Nat /\ at = Len(W2) - Len(response') /\ Len(response') <= Len(W2)
         /\ at + Len(response) = Len(W) /\ at + Len(response) + Len(e) <= Len(W2)
         /\ Len(W2) \in Nat
    BY <1>4, <1>8, <1>9, <2>10
  <2>12. Holds(W, at, response, Len(response))
    BY <1>15 DEF ServerEnd
  <2> HIDE DEF at
  <2>13. Holds(W2, at, response, Len(response))
    BY <1>4, <1>11, <2>11, <2>12
  <2>14. \A j \in 1..Len(response) : response'[j] = response[j]
    BY <1>4, <1>8, <1>9
  <2>15. \A j \in 1..Len(e) : response'[Len(response) + j] = W2[at + Len(response) + j]
    <3> TAKE j \in 1..Len(e)
    <3>1. j \in 1..Len(e) /\ Len(e) \in Nat /\ Len(response) \in Nat /\ Len(W) \in Nat
      BY <1>4, <1>8
    <3>2. /\ Len(response) + j \in 1..(Len(response) + Len(e))
          /\ ~(Len(response) + j <= Len(response)) /\ (Len(response) + j) - Len(response) = j
      BY <3>1
    <3>3. /\ Len(W) + j \in 1..(Len(W) + Len(e))
          /\ ~(Len(W) + j <= Len(W)) /\ (Len(W) + j) - Len(W) = j
      BY <3>1
    <3>4. response'[Len(response) + j] = e[j]
      BY <1>9, <3>2
    <3>5. W2[Len(W) + j] = e[j]
      BY <1>8, <3>3
    <3>6. QED
      BY <2>11, <3>4, <3>5
  <2>16. Holds(W2, at, response', Len(response) + Len(e))
    <3>1. /\ Len(W2) \in Nat /\ at \in Nat /\ Len(response) \in Nat /\ Len(e) \in Nat
          /\ at + Len(response) + Len(e) <= Len(W2)
      BY <1>4, <1>8, <2>11
    <3>2. QED
      BY <2>13, <2>14, <2>15, <3>1, HoldsMore
  <2>17. Holds(W2, Len(W2) - Len(response), response, Len(response))'
    BY <1>9, <2>11, <2>16 DEF Holds
  <2>18. (Taken(off2, s) + Len(toServer) + Len(response) = Len(W2) + SentBytes)'
    <3>1. Taken(off, s) + Len(toServer) + Len(response) = Len(W) + SentBytes
      BY <1>15 DEF ServerEnd
    <3>2. Taken(off, s) + Len(toServer) + (Len(response) + Len(e)) = (Len(W) + Len(e)) + 0
      <4> DEFINE a == Taken(off, s)
                 b == Len(toServer)
                 c == Len(response)
                 d == Len(e)
                 w == Len(W)
      <4>1. a \in Nat /\ b \in Nat /\ c \in Nat /\ d \in Nat /\ w \in Nat
        BY <1>4, <1>8, <2>1
      <4>2. a + b + c = w + 0
        BY <1>12, <3>1
      <4> HIDE DEF a, b, c, d, w
      <4>3. a + b + (c + d) = (w + d) + 0
        BY <4>1, <4>2
      <4>4. QED
        BY <4>3 DEF a, b, c, d, w
    <3>3. toServer' = toServer
      BY <1>10 DEF socket
    <3>4. QED
      BY <1>8, <1>9, <1>12, <2>3, <3>2, <3>3
  <2>19. (Len(response) <= Len(W2))'
    BY <2>11
  <2>20. QED
    BY <2>4, <2>5, <2>6, <2>7, <2>8, <2>9, <2>17, <2>18, <2>19 DEF ServerEnd
<1>16. ASSUME op' # "none" PROVE \E s \in 0..Len(wrote') : ServerEnd(W2, off2, s)'
  <2>1. op # "none"
    BY <1>10, <1>16 DEF server
  <2>2. PICK s \in 0..Len(wrote) : ServerEnd(W, off, s)
    BY <2>1 DEF Pipeline
  <2>3. s \in 0..Len(wrote') /\ ServerEnd(W2, off2, s)'
    <3>1. s \in 0..Len(wrote')
      BY <1>4, <1>7
    <3>2. ServerEnd(W2, off2, s)'
      BY <1>15, <2>1, <2>2
    <3>3. QED
      BY <3>1, <3>2
  <2>4. QED
    BY <2>3
<1>17. OneAnswer(off2)'
  <2>1. CASE Len(wrote) > 0
    <3>1. 1 \in 0..Len(wrote)
      BY <1>4, <2>1
    <3>2. off2[1] = off[1]
      BY <1>7, <3>1
    <3>3. QED
      BY <1>13, <2>1, <3>2 DEF Pipeline, OneAnswer
  <2>2. CASE Len(wrote) = 0
    <3>1. off[Len(wrote)] = Len(W) /\ off[0] = 0
      BY <1>4 DEF Written
    <3>2. Len(W) = 0
      BY <2>2, <3>1
    <3>3. Consumed(off) + Arrived + Len(toClient) <= Len(W)
      BY <1>4 DEF ClientEnd, Holds
    <3>4. Answered(off) <= 0
      BY <3>2, <3>3 DEF Answered
    <3>5. 1 \in 0..(Len(wrote) + 1)
      BY <1>4
    <3>6. off2[1] \in Nat
      BY <1>6, <3>5
    <3>7. Answered(off2)' = Answered(off) /\ Answered(off) \in Nat
      BY <1>4, <1>12, <1>13 DEF Answered
    <3>8. QED
      BY <3>4, <3>6, <3>7 DEF OneAnswer
  <2>3. QED
    BY <1>4, <2>1, <2>2
<1>18. Pipeline(W2, off2)'
  BY <1>7, <1>14, <1>16, <1>17 DEF Pipeline
<1>19. QED
  BY <1>18

-----------------------------------------------------------------------------
(* At the beginning nothing is under way. *)
LEMMA InitPipeline == Init => \E W, off : Pipeline(W, off)
<1> SUFFICES ASSUME Init PROVE \E W, off : Pipeline(W, off)
  OBVIOUS
<1> DEFINE W == <<>>
           off == [m \in 0..0 |-> 0]
<1>1. /\ W \in Seq(Byte) /\ Len(W) = 0 /\ off[0] = 0 /\ off \in [0..0 -> Nat]
      /\ 0 + 0 <= 0 /\ 0 - 0 = 0
  BY EmptySeq
<1>2. /\ wrote = <<>> /\ got = <<>> /\ Len(wrote) = 0 /\ Len(got) = 0
      /\ response = <<>> /\ Len(response) = 0 /\ toServer = <<>> /\ toClient = <<>>
      /\ Len(toServer) = 0 /\ Len(toClient) = 0 /\ response_ = <<>>
      /\ doing = "idle" /\ transferred = 0 /\ op = FirstRead
      /\ processor \in {"value", "string"}
  BY EmptySeq DEF Init
<1>3. op \notin {"write", "read_text", "none"}
  BY <1>2 DEF FirstRead
<1>4. ~Busy /\ Arrived = 0 /\ SentBytes = 0
  BY <1>2 DEF Busy, Arrived, SentBytes
<1> HIDE DEF W, off
<1>5. Written(W, off)
  BY <1>1, <1>2 DEF Written
<1>6. Consumed(off) = 0 /\ Answered(off) = 0 /\ Reads(off, 0) = 0 /\ Taken(off, 0) = 0
  BY <1>1, <1>2, <1>4 DEF Consumed, Answered, Reads, Taken
<1>7. \A u : Holds(W, 0, u, 0)
  BY <1>1 DEF Holds
<1>8. ClientEnd(W, off)
  BY <1>1, <1>2, <1>4, <1>6, <1>7 DEF ClientEnd
<1>9. ServerEnd(W, off, 0)
  BY <1>1, <1>2, <1>4, <1>6, <1>7 DEF ServerEnd
<1>10. OneAnswer(off)
  BY <1>2 DEF OneAnswer
<1>11. 0 \in 0..Len(wrote)
  BY <1>2
<1>12. QED
  BY <1>5, <1>8, <1>9, <1>11, <1>10 DEF Pipeline

-----------------------------------------------------------------------------
(* Every step keeps the pipeline while the client lives; the W of a write  *)
(* is longer.                                                              *)
LEMMA NextPipeline ==
  ASSUME BufferInv, [Next]_vars, doing' # "gone",
         doing # "gone" => \E W, off : Pipeline(W, off)
  PROVE  \E W, off : Pipeline(W, off)'
<1>1. doing # "gone"
  BY DEF Next, User, Client, Server, Write, Read, Close, Extraction, Missing, Send,
         Sent, Receive, Received, Fail, Closed, ServerReceives, OnRead, OnRead1,
         OnReadError, ServerSends, OnWrite, OnWriteError, vars, client
<1>2. PICK W, off : Pipeline(W, off)
  BY <1>1
<1>3. CASE UNCHANGED vars
  <2>1. ClientEnd(W, off) /\ UNCHANGED <<user, client, toClient, processor>>
        /\ UNCHANGED <<wrote, processor, closes, server, toServer, response>>
    BY <1>2, <1>3 DEF vars, user, client, socket, Pipeline
  <2>2. /\ ClientEnd(W, off)' /\ Answered(off)' = Answered(off)
        /\ SentBytes' = SentBytes
    BY <2>1, ClientEndStays
  <2>3. QED
    BY <1>2, <2>1, <2>2, ClientTurns
<1>4. CASE User /\ UNCHANGED <<processor, closes>>
  BY <1>2, <1>4, PipeWrite, PipeRead, PipeClose DEF User
<1>5. CASE Client /\ UNCHANGED <<processor, closes>>
  <2>1. ~Fail /\ ~Closed
    BY DEF Fail, Closed
  <2>2. QED
    BY <1>2, <1>5, <2>1, PipeExtraction, PipeMissing, PipeSend, PipeSent,
       PipeReceive, PipeReceived DEF Client
<1>6. CASE Server /\ UNCHANGED <<processor, closes>>
  BY <1>1, <1>2, <1>6, PipeServerReceives, PipeOnRead, PipeOnRead1,
     PipeOnReadError, PipeServerSends, PipeOnWrite, PipeOnWriteError DEF Server
<1>7. QED
  BY <1>3, <1>4, <1>5, <1>6 DEF Next

-----------------------------------------------------------------------------
(* A prefix, element by element. *)
LEMMA PrefixElements ==
  ASSUME NEW S, NEW s \in Seq(S), NEW t \in Seq(S)
  PROVE  IsPrefix(s, t) <=> Len(s) <= Len(t) /\ \A m \in 1..Len(s) : s[m] = t[m]
<1>1. Len(s) \in Nat /\ Len(t) \in Nat
  BY LenProperties
<1>2. /\ SubSeq(s, 1, Len(s)) \in Seq(S) /\ Len(SubSeq(s, 1, Len(s))) = Len(s)
      /\ \A m \in 1..Len(s) : SubSeq(s, 1, Len(s))[m] = s[m]
  BY <1>1
<1>3. ASSUME Len(s) <= Len(t)
      PROVE  /\ SubSeq(t, 1, Len(s)) \in Seq(S) /\ Len(SubSeq(t, 1, Len(s))) = Len(s)
             /\ \A m \in 1..Len(s) : SubSeq(t, 1, Len(s))[m] = t[m]
  BY <1>1, <1>3
<1>4. ASSUME IsPrefix(s, t)
      PROVE  Len(s) <= Len(t) /\ \A m \in 1..Len(s) : s[m] = t[m]
  <2>1. Len(s) <= Len(t) /\ SubSeq(s, 1, Len(s)) = SubSeq(t, 1, Len(s))
    BY <1>4 DEF IsPrefix
  <2>2. QED
    BY <1>2, <1>3, <2>1
<1>5. ASSUME Len(s) <= Len(t), \A m \in 1..Len(s) : s[m] = t[m]
      PROVE  IsPrefix(s, t)
  <2>1. SubSeq(s, 1, Len(s)) = SubSeq(t, 1, Len(s))
    BY <1>2, <1>3, <1>5, SeqEqual
  <2>2. QED
    BY <1>5, <2>1 DEF IsPrefix
<1>6. QED
  BY <1>4, <1>5

(* A write makes the texts written longer; what an extraction adds to the  *)
(* texts read is the text that was written in its place.                   *)
LEMMA WriteIntact ==
  ASSUME BufferInv, EchoIntact, Write
  PROVE  EchoIntact'
<1>1. PICK text \in Seq(Byte) : wrote' = Append(wrote, text)
  BY WriteAdds
<1>2. /\ wrote \in Seq(Seq(Byte)) /\ got \in Seq(Seq(Byte))
      /\ Len(wrote) \in Nat /\ Len(got) \in Nat /\ got' = got
  BY Lengths DEF BufferInv, BytesOK, Write
<1>3. /\ wrote' \in Seq(Seq(Byte)) /\ Len(wrote') = Len(wrote) + 1
      /\ \A m \in 1..Len(wrote) : wrote'[m] = wrote[m]
  BY <1>1, <1>2, AppendProperties
<1>4. Len(got) <= Len(wrote) /\ \A m \in 1..Len(got) : got[m] = wrote[m]
  BY <1>2, PrefixElements DEF EchoIntact
<1>5. Len(got') <= Len(wrote') /\ \A m \in 1..Len(got') : got'[m] = wrote'[m]
  BY <1>2, <1>3, <1>4
<1>6. got' \in Seq(Seq(Byte))
  BY <1>2
<1>7. IsPrefix(got', wrote')
  BY <1>3, <1>5, <1>6, PrefixElements
<1>8. QED
  BY <1>7 DEF EchoIntact

LEMMA ExtractionIntact ==
  ASSUME BufferInv, EchoIntact, Extraction, NEW W, NEW off, Pipeline(W, off)
  PROVE  EchoIntact'
<1> DEFINE g == Len(got) + 1
           bytes == Extracted(request, need)
<1>1. /\ wrote \in Seq(Seq(Byte)) /\ got \in Seq(Seq(Byte))
      /\ Len(wrote) \in Nat /\ Len(got) \in Nat /\ wrote' = wrote
      /\ Written(W, off) /\ ClientEnd(W, off)
  BY Lengths DEF BufferInv, BytesOK, Extraction, Pipeline
<1>2. g \in 1..Len(wrote) /\ (part # "size" => bytes = wrote[g])
  BY <1>1, ExtractionReads
<1>3. Len(got) <= Len(wrote) /\ \A m \in 1..Len(got) : got[m] = wrote[m]
  BY <1>1, PrefixElements DEF EchoIntact
<1>4. CASE part = "size"
  BY <1>1, <1>4 DEF Extraction, EchoIntact
<1>5. CASE part # "size"
  <2>1. got' = Append(got, wrote[g]) /\ wrote[g] \in Seq(Byte)
    BY <1>1, <1>2, <1>5 DEF Extraction
  <2> HIDE DEF bytes
  <2>2. /\ got' \in Seq(Seq(Byte)) /\ Len(got') = g /\ got'[g] = wrote[g]
        /\ \A m \in 1..Len(got) : got'[m] = got[m]
    BY <1>1, <2>1, AppendProperties
  <2>3. \A m \in 1..Len(got') : got'[m] = wrote'[m]
    <3> TAKE m \in 1..Len(got')
    <3>1. m = g \/ m \in 1..Len(got)
      BY <1>1, <2>2
    <3>2. QED
      BY <1>1, <1>3, <2>2, <3>1
  <2>4. Len(got') <= Len(wrote')
    BY <1>1, <1>2, <2>2
  <2>5. IsPrefix(got', wrote')
    BY <1>1, <2>2, <2>3, <2>4, PrefixElements
  <2>6. QED
    BY <2>5 DEF EchoIntact
<1>6. QED
  BY <1>4, <1>5

(* A processor that closes has answered with one value at most: nothing of *)
(* a second can have arrived.                                              *)
LEMMA ExtractionOnce ==
  ASSUME BufferInv, Extraction, part # "size", closes, Len(got) <= 1,
         NEW W, NEW off, Pipeline(W, off)
  PROVE  got = <<>>
<1>1. /\ Written(W, off) /\ ClientEnd(W, off) /\ OneAnswer(off) /\ ClientTypes
      /\ got \in Seq(Seq(Byte)) /\ Len(got) \in Nat /\ Len(toClient) \in Nat
  BY Lengths, TypesSplit DEF BufferInv, BytesOK, Pipeline
<1>2. /\ Len(got) + 1 \in 1..Len(wrote) /\ Busy /\ Arrived = need
      /\ part = "value" => need = ValueBytes
  BY <1>1, ExtractionReads
<1>3. Len(wrote) > 0 /\ off[Len(got)] \in Nat /\ need \in Nat
  BY <1>1, <1>2, Positions
<1>4. Answered(off) <= off[1]
  BY <1>1, <1>3 DEF OneAnswer
<1>5. ASSUME Len(got) = 1 PROVE FALSE
  <2>1. Answered(off)
          = off[1] + (IF part = "text" THEN SizeBytes ELSE 0) + need + Len(toClient)
    BY <1>2, <1>5 DEF Answered, Consumed
  <2>2. off[1] \in Nat
    BY <1>3, <1>5
  <2>3. CASE part = "value"
    <3>1. need > 0
      BY <1>2, <2>3, BoundAssumption
    <3>2. Answered(off) = off[1] + 0 + need + Len(toClient)
      BY <2>1, <2>3
    <3>3. QED
      BY <1>1, <1>3, <1>4, <2>2, <3>1, <3>2
  <2>4. CASE part = "text"
    <3>1. Answered(off) = off[1] + SizeBytes + need + Len(toClient)
      BY <2>1, <2>4
    <3>2. QED
      BY <1>1, <1>3, <1>4, <2>2, <3>1, SizeBytesAssumption
  <2>5. QED
    BY <1>1, <2>3, <2>4 DEF ClientTypes
<1>6. Len(got) = 0
  <2>1. Len(got) \in Nat /\ Len(got) <= 1 /\ Len(got) # 1
    BY <1>1, <1>5
  <2>2. QED
    BY <2>1
<1>7. QED
  BY <1>1, <1>6, EmptySeq

(* So what it adds to nothing is the only answer of such a processor. *)
LEMMA ExtractionKeepsOnce ==
  ASSUME BufferInv, Extraction, closes => Len(got) <= 1, UNCHANGED closes,
         NEW W, NEW off, Pipeline(W, off)
  PROVE  closes' => Len(got') <= 1
<1>1. CASE part = "size"
  BY <1>1 DEF Extraction
<1>2. CASE part # "size" /\ closes
  <2>1. got = <<>> /\ got \in Seq(Seq(Byte)) /\ Len(got) = 0
    BY <1>2, ExtractionOnce, EmptySeq DEF BufferInv, BytesOK
  <2>2. got' = Append(got, Extracted(request, need))
    BY <1>2 DEF Extraction
  <2>3. Extracted(request, need) \in Seq(Byte)
    BY ExtractionTakesAll
  <2>4. Len(got') = Len(got) + 1
    BY <2>1, <2>2, <2>3, AppendProperties
  <2>5. QED
    BY <2>1, <2>4
<1>3. QED
  BY <1>1, <1>2

LEMMA InitEchoInv == Init => EchoInv
<1> SUFFICES ASSUME Init PROVE EchoInv
  OBVIOUS
<1>1. got = <<>> /\ wrote = <<>>
  BY DEF Init
<1>2. EchoIntact
  BY <1>1 DEF EchoIntact, IsPrefix
<1>3. Len(got) <= 1
  BY <1>1, EmptySeq
<1>4. QED
  BY <1>2, <1>3, InitBufferInv, InitPipeline DEF EchoInv

LEMMA NextEchoInv == EchoInv /\ [Next]_vars => EchoInv'
<1> SUFFICES ASSUME EchoInv, [Next]_vars PROVE EchoInv'
  OBVIOUS
<1>1. BufferInv /\ EchoIntact /\ BufferInv' /\ (closes => Len(got) <= 1)
  BY NextBufferInv DEF EchoInv
<1>2. EchoIntact' /\ (closes' => Len(got') <= 1)
  <2> closes' = closes
    BY DEF Next, vars
  <2>1. CASE Write
    <3>1. EchoIntact'
      BY <1>1, <2>1, WriteIntact
    <3>2. got' = got
      BY <2>1 DEF Write
    <3>3. QED
      BY <1>1, <3>1, <3>2
  <2>2. CASE Extraction
    <3>1. PICK W, off : Pipeline(W, off)
      BY <2>2 DEF EchoInv, Extraction
    <3>2. EchoIntact'
      BY <1>1, <2>2, <3>1, ExtractionIntact
    <3>3. closes' => Len(got') <= 1
      BY <1>1, <2>2, <3>1, ExtractionKeepsOnce
    <3>4. QED
      BY <3>2, <3>3
  <2>3. CASE UNCHANGED user
    <3>1. EchoIntact'
      BY <1>1, <2>3 DEF EchoIntact, user
    <3>2. QED
      BY <1>1, <2>3, <3>1 DEF user
  <2>4. Write \/ Extraction \/ UNCHANGED user
    BY DEF Next, User, Client, Server, Read, Close, Missing, Send, Sent, Receive,
           Received, Fail, Closed, ServerReceives, OnRead, OnRead1, OnReadError,
           ServerSends, OnWrite, OnWriteError, vars
  <2>5. QED
    BY <2>1, <2>2, <2>3, <2>4
<1>3. ASSUME doing' # "gone" PROVE (\E W, off : Pipeline(W, off))'
  <2>1. doing # "gone" => \E W, off : Pipeline(W, off)
    BY DEF EchoInv
  <2>2. \E W, off : Pipeline(W, off)'
    BY <1>1, <1>3, <2>1, NextPipeline
  <2>3. QED
    BY <2>2
<1>4. QED
  BY <1>1, <1>2, <1>3 DEF EchoInv

(* While the client lives, everything between its two ends is what it has  *)
(* written, in order and without a gap, in every state.                    *)
THEOREM EchoInvariant == Spec => []EchoInv
<1>1. QED
  BY InitEchoInv, NextEchoInv, PTL DEF Spec

(* What the client reads back is what it wrote, in its order, however the  *)
(* streams cut the values and however often the buffers of the two         *)
(* connections are used again.                                             *)
THEOREM EchoComesBackIntact == Spec => []EchoIntact
<1>1. EchoInv => EchoIntact
  BY DEF EchoInv
<1>2. QED
  BY <1>1, EchoInvariant, PTL

-----------------------------------------------------------------------------
(* EchoConnection implements EchoService: a write is its Write, the end of *)
(* an extraction its Answer, the end of the connection its Leave, and      *)
(* every other step is invisible.                                          *)
LEMMA WriteRefines ==
  ASSUME BufferInv, Write, UNCHANGED closes
  PROVE  Service!Next
<1>1. /\ clientOpen /\ clientOpen' = clientOpen /\ got' = got
      /\ Len(wrote) \in Nat /\ Len(wrote) < MaxMessages
  BY Lengths DEF BufferInv, ClientBuffers, Write, socket
<1>2. PICK n \in IF processor = "value" THEN {ValueBytes} ELSE 0..MaxText :
        wrote' = Append(wrote, Text(Len(wrote) + 1, n))
  BY DEF Write
<1>3. n \in 0..MaxText \cup {ValueBytes} /\ Len(wrote) + 1 \in 1..MaxMessages
  BY <1>1, <1>2, BoundAssumption
<1>4. Text(Len(wrote) + 1, n) \in Values
  BY <1>3 DEF Values
<1>5. Service!Write(Text(Len(wrote) + 1, n))
  BY <1>1, <1>2 DEF Service!Write
<1>6. QED
  BY <1>4, <1>5 DEF Service!Next, Values

LEMMA ExtractionRefines ==
  ASSUME EchoInv, Extraction, UNCHANGED closes
  PROVE  Service!Next \/ UNCHANGED Service!vars
<1>1. PICK W, off : Pipeline(W, off)
  BY DEF EchoInv, Extraction
<1>2. /\ BufferInv /\ Written(W, off) /\ ClientEnd(W, off)
      /\ closes => Len(got) <= 1
  BY <1>1 DEF EchoInv, Pipeline
<1>3. /\ clientOpen /\ clientOpen' = clientOpen /\ wrote' = wrote
      /\ Len(got) \in Nat /\ Len(wrote) \in Nat
  BY <1>2, Lengths DEF BufferInv, ClientBuffers, Extraction, socket
<1>4. CASE part = "size"
  <2>1. got' = got
    BY <1>4 DEF Extraction
  <2>2. QED
    BY <1>3, <2>1 DEF Service!vars
<1>5. CASE part # "size"
  <2>1. Len(got) + 1 \in 1..Len(wrote) /\ Extracted(request, need) = wrote[Len(got) + 1]
    BY <1>2, <1>5, ExtractionReads
  <2>2. Len(got) < Len(wrote)
    BY <1>3, <2>1
  <2>3. closes => got = <<>>
    BY <1>1, <1>2, <1>5, ExtractionOnce
  <2>4. got' = Append(got, wrote[Len(got) + 1])
    BY <1>5, <2>1 DEF Extraction
  <2>5. Service!Answer
    BY <1>3, <2>2, <2>3, <2>4 DEF Service!Answer
  <2>6. QED
    BY <2>5 DEF Service!Next
<1>6. QED
  BY <1>4, <1>5

LEMMA LeaveRefines ==
  ASSUME BufferInv, Fail \/ Closed, UNCHANGED closes
  PROVE  Service!Next
<1>1. /\ clientOpen /\ clientOpen' = FALSE /\ UNCHANGED <<wrote, got>>
  BY DEF BufferInv, ClientBuffers, Fail, Closed, CloseClient, user
<1>2. Service!Leave
  BY <1>1 DEF Service!Leave
<1>3. QED
  BY <1>2 DEF Service!Next

LEMMA EchoStepRefines == EchoInv /\ [Next]_vars => [Service!Next]_(Service!vars)
<1> SUFFICES ASSUME EchoInv, [Next]_vars PROVE [Service!Next]_(Service!vars)
  OBVIOUS
<1>1. BufferInv /\ closes' = closes
  BY DEF EchoInv, Next, vars
<1>2. CASE Write
  BY <1>1, <1>2, WriteRefines
<1>3. CASE Extraction
  BY <1>1, <1>3, ExtractionRefines
<1>4. CASE Fail \/ Closed
  BY <1>1, <1>4, LeaveRefines
<1>5. CASE UNCHANGED <<user, clientOpen>>
  BY <1>1, <1>5 DEF Service!vars, user
<1>6. Write \/ Extraction \/ Fail \/ Closed \/ UNCHANGED <<user, clientOpen>>
  BY DEF Next, User, Client, Server, Read, Close, Missing, Send, Sent, Receive,
         Received, ServerReceives, OnRead, OnRead1, OnReadError, ServerSends,
         OnWrite, OnWriteError, vars, socket
<1>7. QED
  BY <1>2, <1>3, <1>4, <1>5, <1>6

(* A connection to an echo processor is an EchoService: each value the     *)
(* client reads is the next of those it wrote, a processor that closes     *)
(* answers once, and a client that has left reads nothing more.            *)
THEOREM EchoImplementsService == Spec => EchoSpec
<1>1. Init => Service!Init
  BY DEF Init, Service!Init
<1>2. EchoInv /\ [Next]_vars => [Service!Next]_(Service!vars)
  BY EchoStepRefines
<1>3. QED
  BY EchoInvariant, <1>1, <1>2, PTL DEF Spec, EchoSpec, Service!Spec
=============================================================================
