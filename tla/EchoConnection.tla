--------------------------- MODULE EchoConnection ---------------------------
(***************************************************************************)
(* One connection from end to end: a tcp_connection_raw (or its ssl twin)  *)
(* that a client blocks on, the two byte streams of the socket, and an     *)
(* async_connection_fast served by one of the echo processors of           *)
(* src/tests.  Sockets take and give the bytes in pieces; either end may   *)
(* close at any time.                                                      *)
(*                                                                         *)
(* The client writes as the tests do: any number of values, then their     *)
(* echoes.  Nothing limits it in the code, but the processor stops reading *)
(* while it writes, so a client with more bytes under way than the streams *)
(* hold would block for ever; Fits keeps it within that limit.             *)
(***************************************************************************)
EXTENDS StackBuffers, SequencesExt

CONSTANTS
  ValueBytes,   \* sizeof(T) of the echoed numbers
  MaxText,      \* bound of the model: bytes of a string
  MaxMessages,  \* bound of the model: values the client writes
  Capacity      \* bytes a stream holds

ASSUME BoundAssumption ==
  /\ ValueBytes \in Nat \ {0} /\ MaxText \in Nat
  /\ MaxMessages \in Nat /\ Capacity \in Nat \ {0}

VARIABLES
  processor,   \* "value" or "string": which echo processor serves
  closes,      \* its template argument Close
  wrote,       \* the texts the client has written
  got,         \* the texts it has read back
  response,    \* response_ of the client
  request,     \* the client's stack_request
  doing,       \* what the client is in: "idle", "extracting",
               \* "sending", "receiving" and "received" of extract_data,
               \* "closing", "gone"
  part,        \* what is extracted: "value", "size" or "text"
  need,        \* the bytes of it
  moved,       \* bytes of the loop over send or receive so far
  toServer, toClient,        \* the streams
  clientOpen, serverOpen,    \* the two ends
  reset,       \* an RST is under way: undelivered bytes may be lost
  request_, response_,  \* of the asynchronous connection
  op,          \* its operation: "read_value", "read_size", "read_text",
               \* "write", or "none" and the connection is destroyed
  transferred  \* bytes of the operation so far

user == <<wrote, got>>
client == <<response, request, doing, part, need, moved>>
socket == <<toServer, toClient, clientOpen, serverOpen, reset>>
server == <<request_, response_, op, transferred>>
vars == <<processor, closes, user, client, socket, server>>

Least(a, b) == IF a < b THEN a ELSE b

FirstPart == IF processor = "value" THEN "value" ELSE "size"
FirstBytes == IF processor = "value" THEN ValueBytes ELSE SizeBytes
FirstRead == IF processor = "value" THEN "read_value" ELSE "read_size"

Encoded(text) == IF processor = "value" THEN text ELSE String(text)

(* async_read: request_ is cleared, resized, and filled by the operation.  *)
AsyncRead(kind, n) ==
  op' = kind /\ request_' = Resize(Empty, n) /\ transferred' = 0

AsyncWrite == op' = "write" /\ transferred' = 0

(* The processor is called for the new connection: it reads.               *)
Init ==
  /\ processor \in {"value", "string"} /\ closes \in BOOLEAN
  /\ wrote = <<>> /\ got = <<>>
  /\ response = <<>> /\ request = Empty
  /\ doing = "idle" /\ part = "value" /\ need = 0 /\ moved = 0
  /\ toServer = <<>> /\ toClient = <<>>
  /\ clientOpen = TRUE /\ serverOpen = TRUE /\ reset = FALSE
  /\ request_ = Resize(Empty, FirstBytes) /\ response_ = <<>>
  /\ op = FirstRead /\ transferred = 0

-----------------------------------------------------------------------------
(* The client.                                                             *)

Total(texts) == FoldLeft(LAMBDA sum, text : sum + Len(Encoded(text)), 0, texts)

(* The user of the connection keeps what is under way within a stream.     *)
Fits(text) ==
  LET underWay == SubSeq(wrote, Len(got) + 1, Len(wrote))
  IN underWay = <<>> \/ Total(Append(underWay, text)) <= Capacity

(* connection << value. *)
Write ==
  /\ doing = "idle" /\ Len(wrote) < MaxMessages
  /\ \E n \in IF processor = "value" THEN {ValueBytes} ELSE 0..MaxText :
       LET text == Text(Len(wrote) + 1, n)
       IN /\ Fits(text)
          /\ wrote' = Append(wrote, text)
          /\ response' \in PutData(response, Encoded(text), Len(response))
  /\ UNCHANGED <<got, request, doing, part, need, moved, socket, server>>

(* connection >> value. *)
Read ==
  /\ doing = "idle" /\ Len(got) < Len(wrote)
  /\ doing' = "extracting" /\ part' = FirstPart /\ need' = FirstBytes
  /\ UNCHANGED <<user, response, request, moved, socket, server>>

(* extract_data, when there is enough: the number or the text has been     *)
(* read, or the size and the text is next.                                 *)
Extraction ==
  LET bytes == Extracted(request, need)
  IN /\ doing \in {"extracting", "received"} /\ HasData(request, need)
     /\ request' = Extract(request, need)
     /\ IF part = "size"
        THEN /\ doing' = "extracting" /\ part' = "text"
             /\ need' = Number(bytes, MaxText)
             /\ UNCHANGED got
        ELSE /\ doing' = "idle" /\ got' = Append(got, bytes)
             /\ UNCHANGED <<part, need>>
     /\ UNCHANGED <<wrote, response, moved, socket, server>>

(* A faulty variant: what was written is not sent first. *)
MissingUnsent ==
  /\ doing = "extracting" /\ ~HasData(request, need)
  /\ doing' = "sending" /\ moved' = Len(response)
  /\ UNCHANGED <<user, response, request, part, need, socket, server>>

(* extract_data, when there is not: it calls read, which calls write.      *)
Missing ==
  /\ doing = "extracting" /\ ~HasData(request, need)
  /\ doing' = "sending" /\ moved' = 0
  /\ UNCHANGED <<user, response, request, part, need, socket, server>>

(* The loop over send.  To a peer that has closed, a first send succeeds   *)
(* and provokes a reset.                                                   *)
Send ==
  /\ doing \in {"sending", "closing"} /\ moved < Len(response) /\ ~reset
  /\ IF serverOpen
     THEN \E k \in 1..Least(Len(response) - moved, Capacity - Len(toServer)) :
            /\ toServer' = toServer \o SubSeq(response, moved + 1, moved + k)
            /\ moved' = moved + k
            /\ UNCHANGED reset
     ELSE /\ moved' = Len(response) /\ reset' = TRUE
          /\ UNCHANGED toServer
  /\ UNCHANGED <<user, response, request, doing, part, need>>
  /\ UNCHANGED <<toClient, clientOpen, serverOpen, server>>

(* A faulty variant: the loop over receive goes on where that over send    *)
(* ended.                                                                  *)
SentOffsetKept ==
  /\ doing = "sending" /\ moved = Len(response)
  /\ response' = <<>>
  /\ request' = Resize(Shrink(request), need + request.extracted - Len(request.data))
  /\ doing' = "receiving" /\ UNCHANGED moved
  /\ UNCHANGED <<user, part, need, socket, server>>

(* write has sent everything; read_without_size makes room for the bytes   *)
(* that were missing, whatever is still in the request.                    *)
Sent ==
  /\ doing = "sending" /\ moved = Len(response)
  /\ response' = <<>>
  /\ request' = Resize(Shrink(request), need + request.extracted - Len(request.data))
  /\ doing' = "receiving" /\ moved' = 0
  /\ UNCHANGED <<user, part, need, socket, server>>

(* The loop over receive. *)
Receive ==
  /\ doing = "receiving"
  /\ \E k \in 1..Least(Len(request.data) - moved, Len(toClient)) :
       /\ request' = Store(request, moved, SubSeq(toClient, 1, k))
       /\ toClient' = SubSeq(toClient, k + 1, Len(toClient))
       /\ moved' = moved + k
  /\ UNCHANGED <<user, response, doing, part, need>>
  /\ UNCHANGED <<toServer, clientOpen, serverOpen, reset, server>>

Received ==
  /\ doing = "receiving" /\ moved = Len(request.data)
  /\ doing' = "received"
  /\ UNCHANGED <<user, response, request, part, need, moved, socket, server>>

(* What the kernel does when a side closes: unread bytes make it reset the *)
(* connection.                                                             *)
CloseClient == clientOpen' = FALSE /\ reset' = (reset \/ toClient # <<>>)
CloseServer == serverOpen' = FALSE /\ reset' = (reset \/ toServer # <<>>)

(* send or receive throws; the user gives the connection up.  Its          *)
(* destructor calls write once more, which throws as well.                 *)
Fail ==
  /\ \/ doing \in {"sending", "closing"} /\ moved < Len(response) /\ reset
     \/ /\ doing = "receiving" /\ moved < Len(request.data)
        /\ reset \/ (~serverOpen /\ toClient = <<>>)
  /\ doing' = "gone" /\ CloseClient
  /\ UNCHANGED <<user, response, request, part, need, moved>>
  /\ UNCHANGED <<toServer, toClient, serverOpen, server>>

(* close, by the user or by the destructor: write, then shut down.         *)
Close ==
  /\ doing = "idle" /\ doing' = "closing" /\ moved' = 0
  /\ UNCHANGED <<user, response, request, part, need, socket, server>>

Closed ==
  /\ doing = "closing" /\ moved = Len(response)
  /\ doing' = "gone" /\ response' = <<>> /\ CloseClient
  /\ UNCHANGED <<user, request, part, need, moved>>
  /\ UNCHANGED <<toServer, toClient, serverOpen, server>>

-----------------------------------------------------------------------------
(* The connection of the server.                                           *)

reading == op \notin {"write", "none"}

ServerReceives ==
  /\ reading
  /\ \E k \in 1..Least(Len(request_.data) - transferred, Len(toServer)) :
       /\ request_' = Store(request_, transferred, SubSeq(toServer, 1, k))
       /\ toServer' = SubSeq(toServer, k + 1, Len(toServer))
       /\ transferred' = transferred + k
  /\ UNCHANGED <<user, client, toClient, clientOpen, serverOpen, reset, response_, op>>

readDone == transferred = Len(request_.data)

(* A callback that starts no operation drops the last reference to the     *)
(* connection, whose destructor closes the socket.  (That of tcp_ssl waits *)
(* first for the close_notify of its peer, which is not modelled.)         *)
Release == op' = "none" /\ CloseServer

(* echo_connection_processor::on_read and on_read2: the value is put into  *)
(* the response and written.                                               *)
OnRead ==
  /\ op \in {"read_value", "read_text"} /\ readDone
  /\ response_' \in PutData(response_, Encoded(request_.data), Len(response_))
  /\ request_' = IF op = "read_value" THEN Extract(request_, ValueBytes) ELSE request_
  /\ AsyncWrite
  /\ UNCHANGED <<user, client, socket>>

(* echo_connection_processor_string::on_read1: the text is read.           *)
OnRead1 ==
  /\ op = "read_size" /\ readDone
  /\ AsyncRead("read_text", Number(Extracted(request_, SizeBytes), MaxText))
  /\ UNCHANGED <<user, client, socket, response_>>

readFails ==
  /\ reading /\ ~readDone
  /\ reset \/ (~clientOpen /\ toServer = <<>>)

(* A faulty variant: the read is started again. *)
OnReadErrorRetries ==
  /\ readFails
  /\ AsyncRead(op, Len(request_.data))
  /\ UNCHANGED <<user, client, socket, response_>>

(* The read callbacks return at once on an error. *)
OnReadError ==
  /\ readFails /\ Release
  /\ UNCHANGED <<user, client, toServer, toClient, clientOpen, request_, response_, transferred>>

ServerSends ==
  /\ op = "write" /\ transferred < Len(response_) /\ ~reset
  /\ IF clientOpen
     THEN \E k \in 1..Least(Len(response_) - transferred, Capacity - Len(toClient)) :
            /\ toClient' = toClient \o SubSeq(response_, transferred + 1, transferred + k)
            /\ transferred' = transferred + k
            /\ UNCHANGED reset
     ELSE /\ transferred' = Len(response_) /\ reset' = TRUE
          /\ UNCHANGED toClient
  /\ UNCHANGED <<user, client, toServer, clientOpen, serverOpen, request_, response_, op>>

(* A faulty variant: callback_write_wrapped leaves the response. *)
OnWriteUncleared ==
  /\ op = "write" /\ transferred = Len(response_)
  /\ IF closes THEN Release /\ UNCHANGED <<request_, transferred>>
               ELSE AsyncRead(FirstRead, FirstBytes) /\ UNCHANGED <<serverOpen, reset>>
  /\ UNCHANGED <<user, client, toServer, toClient, clientOpen, response_>>

(* The write callback clears the response; then on_write closes the        *)
(* connection or reads the next value.                                     *)
OnWrite ==
  /\ op = "write" /\ transferred = Len(response_)
  /\ response_' = <<>>
  /\ IF closes THEN Release /\ UNCHANGED <<request_, transferred>>
               ELSE AsyncRead(FirstRead, FirstBytes) /\ UNCHANGED <<serverOpen, reset>>
  /\ UNCHANGED <<user, client, toServer, toClient, clientOpen>>

(* on_write with an error closes the connection; close may throw because   *)
(* the peer is gone, which the destructor makes up for.                    *)
OnWriteError ==
  /\ op = "write" /\ transferred < Len(response_) /\ reset
  /\ response_' = <<>> /\ Release
  /\ UNCHANGED <<user, client, toServer, toClient, clientOpen, request_, transferred>>

-----------------------------------------------------------------------------
User == Write \/ Read \/ Close

Client == Extraction \/ Missing \/ Send \/ Sent \/ Receive \/ Received \/ Fail \/ Closed

Server ==
  \/ ServerReceives \/ OnRead \/ OnRead1 \/ OnReadError
  \/ ServerSends \/ OnWrite \/ OnWriteError

Next == (User \/ Client \/ Server) /\ UNCHANGED <<processor, closes>>

Spec == Init /\ [][Next]_vars

(* A call of the client runs to its end as far as the socket lets it, and  *)
(* so do the operations of the server: its pool has threads.               *)
FairSpec == Spec /\ WF_vars(Client /\ UNCHANGED <<processor, closes>>)
                 /\ WF_vars(Server /\ UNCHANGED <<processor, closes>>)

-----------------------------------------------------------------------------
(* Types and bounds: no loop moves more bytes than its buffer has, and no  *)
(* stream holds more than it can.                                          *)
TypeOK ==
  /\ processor \in {"value", "string"} /\ closes \in BOOLEAN
  /\ doing \in {"idle", "extracting", "sending", "receiving", "received",
                "closing", "gone"}
  /\ part \in {"value", "size", "text"} /\ need \in 0..MaxText + SizeBytes + ValueBytes
  /\ doing \in {"sending", "closing"} => moved <= Len(response)
  /\ doing = "receiving" => moved <= Len(request.data)
  /\ op \in {"read_value", "read_size", "read_text", "write", "none"}
  /\ reading => transferred <= Len(request_.data)
  /\ op = "write" => transferred <= Len(response_)
  /\ Len(toServer) <= Capacity /\ Len(toClient) <= Capacity
  /\ {clientOpen, serverOpen, reset} \subseteq BOOLEAN
  /\ \A r \in {request, request_} : r.extracted <= Len(r.data)

(* What the client reads is what it wrote, in its order: no byte is lost,  *)
(* repeated or taken for part of a neighbour, however the streams cut the  *)
(* values and however often the buffers are used again.                    *)
EchoIntact == IsPrefix(got, wrote)

(* read_without_size resizes the request to the bytes that are missing and *)
(* reads over its beginning, so nothing may be left in it: then what       *)
(* extract_data needs is there after every read.                           *)
NothingLeftOver ==
  /\ doing \in {"idle", "sending"} => request.extracted = Len(request.data)
  /\ doing = "received" => HasData(request, need)

(* A call of the client that waits for an echo returns or throws: neither  *)
(* side waits for the other for ever.                                      *)
RoundTripsEnd == doing = "extracting" ~> doing \in {"idle", "gone"}

(* The server lets go of a connection whose client has left: no callback   *)
(* keeps its shared_ptr for ever.                                          *)
ConnectionReleased == ~clientOpen ~> op = "none"

(* What the connection promises its client is EchoService: each >> returns *)
(* the next value, a processor with Close answers once, and nothing is     *)
(* read after the client has given the connection up.                      *)
Values == {Text(m, n) : m \in 1..MaxMessages, n \in 0..MaxText \cup {ValueBytes}}
Service == INSTANCE EchoService WITH Value <- Values, once <- closes, left <- ~clientOpen
EchoSpec == Service!Spec
=============================================================================
