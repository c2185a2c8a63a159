----------------------------- MODULE HttpConnection -----------------------------
(***************************************************************************)
(* One connection to the HTTP server: process_new_connection, getreq,      *)
(* read_request, pull, mg_read and handle_request of mongoose.c, and       *)
(* HttpServer::callback.  enable_keep_alive is left at "no", so a          *)
(* connection carries one request.  What the client sends is a stream of   *)
(* numbered bytes: the head, then the body; it is cut into packets at will *)
(* and may end early.                                                      *)
(***************************************************************************)
EXTENDS Integers, Sequences

CONSTANTS
    Message,    \* what clients send: see IsMessage
    File,       \* what the path of a request leads to
    BufSize,    \* MAX_REQUEST_SIZE
    IntMax,     \* the largest int
    LongMax,    \* the largest long, and the largest long long
    NoLength,   \* the length of a message without Content-Length
    showSpec    \* whether GET is answered by the specification

Junk == 0       \* a byte of the heap that nothing has been written to

\* head and body are the bytes sent; length is the value of Content-Length, zero for a
\* text that is not a number; wrong tells what is the matter with the request line;
\* guarded tells that a passwords file asks for what the client has not.
IsMessage(m) ==
    /\ m.head \in Nat \ {0} /\ m.body \in Nat
    /\ m.length = NoLength \/ m.length \in Int
    /\ m.method \in {"GET", "HEAD", "POST", "PUT", "DELETE", "OPTIONS", "PROPFIND", "CONNECT"}
    /\ m.wrong \in {"", "character", "method", "uri", "version"}
    /\ m.guarded \in BOOLEAN

ConnectionAssumption ==
    /\ \A m \in Message : IsMessage(m)
    /\ File \subseteq {"none", "hidden", "directory", "directory/", "indexed", "indexed/",
                      "file", "same", "cgi"}
    /\ BufSize \in Int /\ showSpec \in BOOLEAN
    /\ IntMax \in Nat /\ LongMax \in Nat /\ IntMax <= LongMax

VARIABLES
    message, file,
    came,           \* bytes that have arrived and can be received
    ended,          \* whether the client has closed its end
    stopped,        \* whether the server's stop_flag is set
    stage,          \* where the worker is
    taken,          \* bytes that have been received
    data_len,       \* bytes in the buffer
    read,           \* the bytes of the body that mg_read has copied, in order
    failed,         \* whether a recv was cut off by the client, a timeout or the stop
    handed,         \* what OnRequest was given
    status          \* the status that was answered: 0 for none yet

connection == <<message, file, came, ended, stopped, stage, taken, data_len, read, failed,
                handed, status>>
sender == <<message, file, came, ended, stopped>>

ConnectionInit ==
    /\ message \in Message /\ file \in File
    /\ came = 0 /\ ended = FALSE /\ stopped = FALSE
    /\ stage = "head" /\ taken = 0 /\ data_len = 0 /\ read = <<>> /\ failed = FALSE
    /\ handed = <<>> /\ status = 0

--------------------------------------------------------------------------------
(* The client and the thread that stops the server. *)

worker == <<stage, taken, data_len, read, failed, handed, status>>

Send ==
    /\ ~ ended /\ came < message.head + message.body
    /\ \E n \in 1 .. message.head + message.body - came : came' = came + n
    /\ UNCHANGED <<message, file, ended, stopped, worker>>

End ==
    /\ ~ ended /\ ended' = TRUE
    /\ UNCHANGED <<message, file, came, stopped, worker>>

Stop ==
    /\ ~ stopped /\ stopped' = TRUE
    /\ UNCHANGED <<message, file, came, ended, worker>>

--------------------------------------------------------------------------------
(* The worker. *)

Running == stage \notin {"closed", "died"}

\* pull: some of what has arrived; without anything it waits, until the timeout of the
\* socket.  What was received after the stop is forgotten.
Receives(room, got) ==
    \/ ~ stopped /\ got > 0 /\ got <= room /\ got <= came - taken
    \/ got = 0 /\ (stopped \/ taken = came)

\* read_request: the whole head, or a head that cannot be, or no room for more.
HeadWhole == data_len >= message.head
Malformed == message.wrong = "character" /\ data_len > 1

RoomLeft == BufSize - data_len

ReadHead ==
    /\ stage = "head" /\ ~ HeadWhole /\ ~ Malformed
    /\ IF RoomLeft <= 0 THEN stage' = "wrong" /\ UNCHANGED <<taken, data_len, failed>>
       ELSE \E n \in 0 .. RoomLeft :
              /\ Receives(RoomLeft, n)
              /\ taken' = taken + n /\ data_len' = data_len + n
              /\ stage' = IF n = 0 THEN "wrong" ELSE "head"
              /\ failed' = (n = 0)
    /\ UNCHANGED <<sender, read, handed, status>>

IsPutOrDelete == message.method \in {"PUT", "DELETE"}
Answered(by) == status' = by /\ stage' = "closed"

\* handle_request behind the callback: what the options leave of it when none of them
\* is set but the ports and threads.
FileStatus ==
    CASE message.method = "OPTIONS" -> 200
      [] IsPutOrDelete -> 401       \* put_delete_auth_file is not set
      [] message.method \notin {"OPTIONS", "PUT", "DELETE"} ->
           CASE file \in {"none", "hidden"} -> 404
             [] file \in {"directory", "indexed"} -> 301
             [] file \in {"directory/", "indexed/"} /\ message.method = "PROPFIND" -> 207
             [] file = "directory/" /\ message.method # "PROPFIND" -> 200
             [] file \in {"file", "same", "cgi", "indexed/"} ->
                  CASE message.method = "PROPFIND" -> 207
                    [] file = "cgi" /\ message.method \notin {"PROPFIND", "GET", "HEAD"} -> 501
                    [] file = "same" /\ message.method # "PROPFIND" -> 304
                    [] OTHER -> 200

\* getreq and process_new_connection, up to the handler.
GetRequest ==
    /\ stage = "head" /\ (HeadWhole \/ Malformed)
    /\ CASE message.wrong \in {"character", "method"} -> Answered(500)
         [] message.wrong = "uri" -> Answered(400)
         [] message.wrong = "version" -> Answered(505)
         [] message.wrong = "" /\ ~ IsPutOrDelete /\ message.guarded -> Answered(401)
         [] message.wrong = "" /\ (IsPutOrDelete \/ ~ message.guarded) ->
              CASE message.method = "GET" /\ showSpec -> Answered(200)
                [] message.method = "POST" -> stage' = "post" /\ UNCHANGED status
                [] OTHER -> Answered(FileStatus)
    /\ UNCHANGED <<sender, taken, data_len, read, failed, handed>>

\* Too large, or the client is gone: the answer may not arrive.
GetWrong ==
    /\ stage = "wrong" /\ Answered(500)
    /\ UNCHANGED <<sender, taken, data_len, read, failed, handed>>

\* Content-Length is read twice: getreq takes it with strtoll, which stops at the ends of
\* a long; callback takes it with sscanf and "%d", which stops there as well and then
\* keeps what fits an int.
Limited(x) == IF x > LongMax THEN LongMax ELSE IF x < -LongMax - 1 THEN -LongMax - 1 ELSE x
CutToInt(x) == ((x + IntMax + 1) % (2 * IntMax + 2)) - IntMax - 1

content_len == IF message.length = NoLength THEN -1 ELSE Limited(message.length)
postSize == IF message.length = NoLength THEN 0 ELSE CutToInt(Limited(message.length))

Bytes(from, n) == [x \in 1 .. n |-> from + x]

\* A slip: the head counts as well.
BufferedAll == data_len
BufferedBody == data_len - message.head

\* mg_read takes postSize for unsigned, so that a negative one has no bound.
HasContent == content_len > 0
Buffered ==
    IF ~ HasContent THEN 0
    ELSE IF postSize < 0 \/ BufferedBody < postSize THEN BufferedBody ELSE postSize

\* The program may end here: there is no memory for a negative number of bytes, of which
\* no string can be made; postSize + 1 overflows; or mg_read copies into no bytes at all.
\* The last two may as well go on.
MustDie == postSize < -1
MayDie == MustDie \/ postSize = IntMax \/ (postSize = -1 /\ Buffered > 0)

\* callback allocates postSize + 1 bytes; mg_read copies what is in the buffer already.
ReadBuffered ==
    /\ stage = "post"
    /\ \/ ~ MustDie /\ stage' = "body" /\ read' = Bytes(message.head, Buffered)
       \/ MayDie /\ stage' = "died" /\ UNCHANGED read
    /\ UNCHANGED <<sender, taken, data_len, failed, handed, status>>

Left == IF HasContent THEN postSize - Len(read) ELSE 0

\* pull_all: the rest from the socket.
ReadBody ==
    /\ stage = "body" /\ Left > 0
    /\ \E n \in 0 .. Left :
         /\ Receives(Left, n)
         /\ read' = read \o Bytes(taken, n) /\ taken' = taken + n
         /\ stage' = IF n = 0 THEN "called" ELSE "body"
         /\ failed' = (n = 0)
    /\ UNCHANGED <<sender, data_len, handed, status>>

\* OnRequest is given the text up to the first zero: the byte behind the body, and
\* what a failed mg_read has left out, are as they were allocated.
Call ==
    /\ stage = "called" \/ (stage = "body" /\ Left <= 0)
    /\ \E junk \in 0 .. (IF message.length = NoLength THEN 0
                         ELSE IF postSize < Len(read) THEN 1 ELSE postSize + 1 - Len(read)) :
         handed' = read \o [x \in 1 .. junk |-> Junk]
    /\ Answered(200)
    /\ UNCHANGED <<sender, taken, data_len, read, failed>>

ServeNext == ReadHead \/ GetRequest \/ GetWrong \/ ReadBuffered \/ ReadBody \/ Call
ConnectionNext == Send \/ End \/ Stop \/ ServeNext

ConnectionSpec == ConnectionInit /\ [][ConnectionNext]_connection

\* The worker runs on: a recv returns at the latest after request_timeout_ms.
ConnectionFairness == WF_connection(ServeNext)

--------------------------------------------------------------------------------
\* The length of the body as it is told, and whether the program keeps all of it.
Told == IF message.length = NoLength THEN 0 ELSE message.length
ToldExactly == Told \in 0 .. IntMax

\* What a method is called with begins with the body that the client sent, each byte
\* once and in order, and bytes that nobody has sent come only behind it.  As far as
\* Content-Length says the body is there whole unless a recv failed, if an int holds that
\* length; of any other length the body may be cut though nothing failed (mg_read,
\* HttpServer::callback).
BodyFirst ==
    stage = "closed" /\ message.method = "POST" /\ status = 200 =>
        \E n \in 0 .. Len(handed) :
          /\ SubSeq(handed, 1, n) = Bytes(message.head, n)
          /\ \A x \in n + 1 .. Len(handed) : handed[x] = Junk
          /\ ToldExactly => n <= Told /\ (n < Told => failed)

\* A request that fits the buffer and comes whole is not refused for its size or as
\* gone, and its method is answered with what the request line asks for (read_request).
HeadsFit ==
    stage = "closed" /\ ~ failed /\ message.head <= BufSize /\ message.wrong = "" =>
        status # 500

\* A request is taken for what it is, and its body for what was sent.
RequestsHold == BodyFirst /\ HeadsFit

\* Every connection ends with an answer, unless Content-Length leaves callback with a
\* postSize that it has no memory for or whose successor overflows: then the server may
\* end (callback, process_new_connection).
ConnectionEnds ==
    <>((stage = "closed" /\ status # 0) \/ (stage = "died" /\ postSize \notin 0 .. IntMax - 1))
================================================================================
