---------------------------- MODULE HttpRequest -----------------------------
(***************************************************************************)
(* One session of the HTTP server (esp32_camera_web_server3/idf), byte by  *)
(* byte: httpd_parse.c reads blocks into the scratch buffer and lets       *)
(* http_parser run over them.  Where the headers begin it pauses, pushes   *)
(* what it has read back as pending data and starts at the buffer's        *)
(* beginning again, so that the buffer holds nothing but headers; where    *)
(* they end it pauses again and pushes back the body and whatever follows. *)
(* httpd_uri.c calls the handler, httpd_txrx.c sends the response, and     *)
(* httpd_req_delete() reads the rest of the body.                          *)
(*                                                                         *)
(* A byte is its position in what the client sends; stream says what it is *)
(* part of and of which request.  http_parser and the sockets are external.*)
(***************************************************************************)
EXTENDS Naturals, SequencesExt

CONSTANTS
  Streams,            \* what clients send (bound)
  PARSER_BLOCK_SIZE,
  SCRATCH_SIZE,       \* sizeof(raux->scratch)
  PURGE_BUF_LEN,      \* CONFIG_HTTPD_PURGE_BUF_LEN
  RESP_HDRS           \* headers that the handler adds to its response

\* The parts of a request: the method, the target and version, a header's name
\* and value, the two line ends behind the headers; a body of known length; or the
\* sizes and the data of chunks, and the last chunk, which is empty.  Chunks that
\* nobody read are parsed as the next request; it is supposed that none of their
\* bytes is a method.
Parts == {"method", "url", "field", "value", "end", "body", "size", "chunk", "last"}

ASSUME HttpRequestAssumption ==
  /\ {PARSER_BLOCK_SIZE, SCRATCH_SIZE, PURGE_BUF_LEN} \subseteq Nat \ {0}
  /\ PARSER_BLOCK_SIZE <= SCRATCH_SIZE
  /\ RESP_HDRS \in Nat
  /\ \A s \in Streams : s \in Seq([of : Nat \ {0}, is : Parts])

VARIABLES
  stream,        \* the bytes of this client: of which request and which part
  arrived,       \* how many of them have reached the server
  ended,         \* the client has ended its side
  socket,        \* what recv() has
  pending,       \* pending_data
  pc,            \* where the task is
  scratch,       \* the buffer, as far as it was written
  offset,        \* where the next block goes
  at,            \* how much of the buffer http_parser has seen
  status,        \* parser_data.status
  before,        \* http_parser's state: the part before
  paused, pre_parsed, last_at, error,   \* parser_data
  remaining_len, req_hdrs_count,        \* httpd_req_aux
  reply,         \* pieces of the response that were sent
  parsed,        \* history: the bytes this request was made of
  answers        \* history: the requests that were answered

conn   == <<stream, arrived, ended>>
buffer == <<scratch, offset, at>>
parser == <<status, before, paused, pre_parsed, last_at, error, parsed>>
aux    == <<remaining_len, req_hdrs_count, reply>>
vars   == <<conn, socket, pending, pc, buffer, parser, aux, answers>>

Is(p) == stream[p].is
\* Has request r a chunked body; content_len, which for the code is then 0.
Chunked(r) == \E p \in DOMAIN stream : stream[p] = [of |-> r, is |-> "size"]
BodyLen(r) ==
  IF Chunked(r) THEN 0
  ELSE Cardinality({p \in DOMAIN stream : stream[p] = [of |-> r, is |-> "body"]})
From(s, i) == SubSeq(s, i, Len(s))
Upto(s, i) == SubSeq(s, 1, i)

-----------------------------------------------------------------------------
(* Receiving, httpd_txrx.c.                                                *)

\* httpd_unrecv: what is in the buffer behind i becomes the pending data, as far
\* as there is room.
httpd_unrecv(i) ==
  pending' = Upto(From(scratch, i + 1), Min({PARSER_BLOCK_SIZE, Len(scratch) - i}))

\* read_block's bound.  (Mutant: the buffer's end is not looked at.)
BlockOnly == PARSER_BLOCK_SIZE
BlockLen == Min({PARSER_BLOCK_SIZE, SCRATCH_SIZE - offset})

\* httpd_recv_with_opt with halt_after_pending: the pending data or the socket's,
\* never both.
RecvBlock(n) ==
  IF pending # <<>>
  THEN [data |-> Upto(pending, Min({n, Len(pending)})), socket |-> socket,
        pending |-> From(pending, Min({n, Len(pending)}) + 1)]
  ELSE [data |-> Upto(socket, Min({n, Len(socket)})), pending |-> pending,
        socket |-> From(socket, Min({n, Len(socket)}) + 1)]

\* httpd_recv: the pending data and then the socket's.
Recv(n) ==
  LET p == Min({n, Len(pending)})
      q == Min({n - p, Len(socket)})
  IN  [data |-> Upto(pending, p) \o Upto(socket, q),
       pending |-> From(pending, p + 1), socket |-> From(socket, q + 1)]

-----------------------------------------------------------------------------
(* Parsing, httpd_parse.c.                                                 *)

\* httpd_req_new and parse_init.
NewRequest ==
  /\ scratch' = <<>> /\ offset' = 0 /\ at' = 0
  /\ status' = "IDLE" /\ before' = "none" /\ paused' = FALSE
  /\ pre_parsed' = 0 /\ last_at' = 0 /\ error' = "none" /\ parsed' = <<>>
  /\ remaining_len' = 0 /\ req_hdrs_count' = 0 /\ reply' = <<>>

\* httpd_server: select() has the session's descriptor, ...
\* (Mutant: the socket is left alone while there is pending data.)
Process ==
  /\ pc = "select"
  /\ pc' = "read" /\ NewRequest
  /\ UNCHANGED <<conn, socket, pending, answers>>
ReadableIfNothingKept == Process /\ pending = <<>> /\ (socket # <<>> \/ ended)
Readable == Process /\ (socket # <<>> \/ ended)

\* ... or another one, and the session has pending data.
OtherReadable == Process /\ pending # <<>>

Close ==
  /\ pc' = "closed"
  /\ UNCHANGED <<conn, socket, pending, buffer, parser, aux, answers>>

\* httpd_req_handle_err with no handler registered: the error's response is
\* built in the scratch buffer and sent, successfully or not; then the session
\* is closed.
Refuse(e) ==
  /\ error' = e /\ pc' = "closed"
  /\ req_hdrs_count' = 0
  /\ UNCHANGED <<conn, socket, pending, buffer, status, before, paused, pre_parsed,
                 last_at, parsed, remaining_len, reply, answers>>

\* read_block, and parse_block up to http_parser_execute: with pre-parsed data
\* parsing goes on behind it.
Skip(n) == IF paused THEN Min({n, pre_parsed}) ELSE 0

ReadBlock ==
  LET r == RecvBlock(BlockLen)
      n == Len(r.data)
  IN  /\ pc = "read" /\ BlockLen > 0 /\ n > 0
      /\ scratch' = Upto(scratch, offset) \o r.data
      /\ pending' = r.pending /\ socket' = r.socket
      /\ at' = offset + Skip(n)
      /\ pre_parsed' = pre_parsed - Skip(n) /\ paused' = FALSE
      /\ pc' = "parse"
      /\ UNCHANGED <<conn, offset, status, before, last_at, error, parsed, aux, answers>>

\* The buffer is full.
TooLong ==
  /\ pc = "read" /\ BlockLen = 0
  /\ Refuse(CASE status = "URL" -> "414"
              [] status \in {"HDR_FIELD", "HDR_VALUE"} -> "431"
              [] OTHER -> "500")

\* recv() finds the end of the stream, ...
Waiting == pc = "read" /\ BlockLen > 0 /\ pending = <<>> /\ socket = <<>>
EndOfStream == Waiting /\ ended /\ Close

\* ... or nothing before the timeout.
Timeout == Waiting /\ ~ended /\ Refuse("408")

\* The block is parsed.
BlockDone ==
  /\ pc = "parse" /\ at = Len(scratch)
  /\ offset' = at /\ pc' = "read"
  /\ UNCHANGED <<conn, socket, pending, scratch, at, parser, aux, answers>>

-----------------------------------------------------------------------------
(* http_parser's callbacks, one byte at a time.                            *)

unit == scratch[at + 1]
Next_(part) == pc = "parse" /\ at < Len(scratch) /\ Is(unit) = part
Seen == parsed' = Append(parsed, unit) /\ before' = Is(unit)

\* What http_parser accepts behind what it has seen.
Grammar == [none |-> {"method"}, method |-> {"url"}, url |-> {"url", "field", "end"},
            field |-> {"field", "value"}, value |-> {"value", "field", "end"},
            end |-> {"body", "size"}, size |-> {"size", "chunk", "last"},
            body |-> {}, chunk |-> {}, last |-> {}]
Fits == Is(unit) \in Grammar[before]

\* parse_block: http_parser stopped before the block's end.
Misread ==
  /\ pc = "parse" /\ at < Len(scratch) /\ ~Fits
  /\ Refuse("400")

\* http_parser has no callback for the method that the code uses.
Method ==
  /\ Next_("method") /\ Fits
  /\ Seen /\ at' = at + 1
  /\ UNCHANGED <<conn, socket, pending, pc, scratch, offset, status, paused, pre_parsed,
                 last_at, error, aux, answers>>

cb_url ==
  /\ Next_("url") /\ Fits
  /\ status' = "URL" /\ last_at' = IF status = "IDLE" THEN at ELSE last_at
  /\ Seen /\ at' = at + 1
  /\ UNCHANGED <<conn, socket, pending, pc, scratch, offset, paused, pre_parsed, error,
                 aux, answers>>

\* cb_url finds that the target is too long for HTTPD_MAX_URI_LEN.
LongTarget == Next_("url") /\ Fits /\ Refuse("url")

\* verify_url fails: the method, the version or the target's form, or its length.
BadUrl ==
  /\ Next_("field") \/ Next_("end")
  /\ Fits /\ status = "URL"
  /\ Refuse("url")

\* pause_parsing: what is in the buffer behind i is pushed back; it must fit.
CanPause(i) == Len(scratch) - i <= PARSER_BLOCK_SIZE
pause_parsing(i) ==
  /\ CanPause(i)
  /\ IF i < Len(scratch) THEN httpd_unrecv(i) ELSE UNCHANGED pending
  /\ paused' = TRUE /\ offset' = 0

\* The field that begins here, as far as the block goes.
FieldLen ==
  Max({n \in 1..(Len(scratch) - at) : \A i \in 1..n : Is(scratch[at + i]) = "field"})

\* cb_header_field at the first header.  http_parser returns behind the field
\* only, so that this much of what is pushed back is parsed already; the headers
\* are read to the buffer's beginning.
\* (Mutant of PreParsed: all that was pushed back.)
AllUnparsed == Len(scratch) - at
PreParsed == FieldLen
FirstHeader ==
  /\ Next_("field") /\ Fits /\ status = "URL"
  /\ pause_parsing(at) /\ pre_parsed' = PreParsed
  /\ status' = "HDR_FIELD" /\ last_at' = 0 /\ pc' = "read"
  /\ parsed' = parsed \o SubSeq(scratch, at + 1, at + FieldLen) /\ before' = "field"
  /\ UNCHANGED <<conn, socket, scratch, at, error, aux, answers>>

cb_header_field ==
  /\ Next_("field") /\ Fits /\ status \in {"HDR_FIELD", "HDR_VALUE"}
  /\ req_hdrs_count' = IF status = "HDR_VALUE" THEN req_hdrs_count + 1 ELSE req_hdrs_count
  /\ last_at' = IF status = "HDR_VALUE" THEN at ELSE last_at
  /\ status' = "HDR_FIELD"
  /\ Seen /\ at' = at + 1
  /\ UNCHANGED <<conn, socket, pending, pc, scratch, offset, paused, pre_parsed, error,
                 remaining_len, reply, answers>>

cb_header_value ==
  /\ Next_("value") /\ Fits
  /\ last_at' = IF status = "HDR_FIELD" THEN at ELSE last_at
  /\ status' = "HDR_VALUE"
  /\ Seen /\ at' = at + 1
  /\ UNCHANGED <<conn, socket, pending, pc, scratch, offset, paused, pre_parsed, error,
                 aux, answers>>

\* cb_headers_complete; last_at stays at the target when there is no header.  That
\* the two line ends are in the buffer needs no check: http_parser calls this at
\* the last of them.
Behind == IF status = "URL" THEN last_at ELSE at + 1
cb_headers_complete ==
  /\ Next_("end") /\ Fits
  /\ Seen /\ at' = at + 1
  /\ req_hdrs_count' = IF status = "HDR_VALUE" THEN req_hdrs_count + 1 ELSE req_hdrs_count
  /\ remaining_len' = BodyLen(stream[unit].of)
  /\ UNCHANGED <<conn, socket, scratch, pre_parsed, error, reply, answers>>

HeadersBeforeBody ==
  /\ cb_headers_complete /\ (remaining_len' > 0 \/ Chunked(stream[unit].of))
  /\ status' = "BODY" /\ last_at' = Behind
  /\ UNCHANGED <<pending, pc, offset, paused>>

\* cb_no_body follows at once: what is behind the headers is pushed back ...
NoBody ==
  /\ cb_headers_complete /\ remaining_len' = 0 /\ ~Chunked(stream[unit].of)
  /\ pause_parsing(Behind)
  /\ status' = "COMPLETE" /\ last_at' = 0 /\ pc' = "handler"

\* ... if it has room.
PauseFails ==
  /\ Next_("end") /\ Fits /\ BodyLen(stream[unit].of) = 0 /\ ~Chunked(stream[unit].of)
  /\ ~CanPause(Behind)
  /\ Refuse("500")

\* The headers ask for an upgrade of the protocol.
Upgrade == Next_("end") /\ Fits /\ Refuse("upgrade")

\* A chunk's size has no callback.
ChunkSize ==
  /\ Next_("size") /\ Fits
  /\ Seen /\ at' = at + 1
  /\ UNCHANGED <<conn, socket, pending, pc, scratch, offset, status, paused, pre_parsed,
                 last_at, error, aux, answers>>

\* cb_no_body behind chunks that are all empty: last_at is still where the
\* headers end, so that the chunks are pushed back, too, if they have room.
LastChunk ==
  /\ Next_("last") /\ Fits /\ status = "BODY"
  /\ pause_parsing(last_at)
  /\ status' = "COMPLETE" /\ last_at' = 0 /\ pc' = "handler"
  /\ Seen /\ at' = at + 1
  /\ UNCHANGED <<conn, socket, scratch, pre_parsed, error, aux, answers>>

LastFails ==
  /\ Next_("last") /\ Fits /\ ~CanPause(last_at)
  /\ Refuse("500")

\* cb_on_body: the body is pushed back, or the chunks from the first one's data on.
\* (Mutant: its first byte is not.)
LoseFirst == at + 1
BodyAt == at
cb_on_body ==
  /\ Next_("body") \/ Next_("chunk")
  /\ Fits /\ status = "BODY"
  /\ pause_parsing(BodyAt)
  /\ status' = "COMPLETE" /\ before' = Is(unit) /\ last_at' = 0 /\ pc' = "handler"
  /\ UNCHANGED <<conn, socket, scratch, at, pre_parsed, error, parsed, aux, answers>>

-----------------------------------------------------------------------------
(* The handler and its response: httpd_uri.c, httpd_txrx.c and the         *)
(* snapshot's handler of camera_web_server.cpp.                            *)

\* httpd_uri has no handler for the request, or the handler has no image: an
\* error is sent, and the session closed.
NoAnswer == pc = "handler" /\ Refuse("handler")

\* httpd_resp_send: the response's head is written to the scratch buffer, and
\* the request's headers are gone.  (Mutant: their number is kept.)
KeepCount == req_hdrs_count
HeadersLeft == 0
httpd_resp_send ==
  /\ pc = "handler"
  /\ scratch' = <<>> /\ req_hdrs_count' = HeadersLeft /\ pc' = "send"
  /\ UNCHANGED <<conn, socket, pending, offset, at, parser, remaining_len, reply, answers>>

\* It sends piece by piece.
Pieces == <<"head">> \o [i \in 1..RESP_HDRS |-> "header"] \o <<"line end", "content">>
Send ==
  /\ pc = "send" /\ reply # Pieces
  /\ reply' = Append(reply, Pieces[Len(reply) + 1])
  /\ UNCHANGED <<conn, socket, pending, pc, buffer, parser, remaining_len,
                 req_hdrs_count, answers>>

\* send() fails: so does the handler.
SendFails == pc = "send" /\ reply # Pieces /\ Close

\* What was answered: a whole request, from its first byte to its headers' last,
\* and the sizes of chunks that were seen behind them.
Whole(us) ==
  /\ us # <<>>
  /\ Is(us[1]) = "method" /\ Is(us[Len(us)]) \in {"end", "size", "last"}
  /\ \A i \in 1..Len(us) : us[i] = us[1] + i - 1 /\ stream[us[i]].of = stream[us[1]].of
Request == IF reply = Pieces /\ Whole(parsed) THEN stream[parsed[1]].of ELSE 0

Sent ==
  /\ pc = "send" /\ reply = Pieces
  /\ pc' = "leftover" /\ answers' = Append(answers, Request)
  /\ UNCHANGED <<conn, socket, pending, buffer, parser, aux>>

-----------------------------------------------------------------------------
(* httpd_req_delete: what the handler left of the body is read.            *)

\* recv() returns something.
PurgeLen == Min({PURGE_BUF_LEN, remaining_len})
Purge ==
  LET r == Recv(PurgeLen)
  IN  /\ pc = "leftover" /\ remaining_len > 0
      /\ r.data # <<>>
      /\ pending' = r.pending /\ socket' = r.socket
      /\ remaining_len' = remaining_len - Len(r.data)
      /\ UNCHANGED <<conn, pc, buffer, parser, req_hdrs_count, reply, answers>>

\* Or fails at its timeout.  (At the end of the stream it returns 0, which the
\* loop does not take for a failure: it goes round without a step.)
PurgeFails ==
  /\ pc = "leftover" /\ remaining_len > 0
  /\ pending = <<>> /\ socket = <<>> /\ ~ended
  /\ Close

\* recv() fails otherwise: the session is closed, and pending data that was read
\* just now is gone with it.
RecvFails ==
  /\ \/ pc = "read" /\ BlockLen > 0 /\ pending = <<>>
     \/ pc = "leftover" /\ PurgeLen > Len(pending)
  /\ Close

\* httpd_sess_process returns ESP_OK.
Finish ==
  /\ pc = "leftover" /\ remaining_len = 0
  /\ pc' = "select"
  /\ UNCHANGED <<conn, socket, pending, buffer, parser, aux, answers>>

-----------------------------------------------------------------------------
(* The client.                                                             *)

Arrive ==
  /\ arrived < Len(stream) /\ ~ended /\ pc # "closed"
  /\ arrived' = arrived + 1 /\ socket' = Append(socket, arrived + 1)
  /\ UNCHANGED <<stream, ended, pending, pc, buffer, parser, aux, answers>>

Leave ==
  /\ ~ended /\ pc # "closed"
  /\ ended' = TRUE
  /\ UNCHANGED <<stream, arrived, socket, pending, pc, buffer, parser, aux, answers>>

Init ==
  /\ stream \in Streams /\ arrived = 0 /\ ended = FALSE /\ socket = <<>>
  /\ pending = <<>> /\ pc = "select" /\ scratch = <<>> /\ offset = 0 /\ at = 0
  /\ status = "IDLE" /\ before = "none" /\ paused = FALSE /\ pre_parsed = 0
  /\ last_at = 0 /\ error = "none" /\ parsed = <<>>
  /\ remaining_len = 0 /\ req_hdrs_count = 0 /\ reply = <<>> /\ answers = <<>>

Parser == Misread \/ Method \/ cb_url \/ LongTarget \/ BadUrl \/ FirstHeader \/ cb_header_field
          \/ cb_header_value \/ HeadersBeforeBody \/ NoBody \/ PauseFails \/ Upgrade
          \/ ChunkSize \/ LastChunk \/ LastFails \/ cb_on_body
Server == Readable \/ ReadBlock \/ TooLong \/ EndOfStream \/ Timeout \/ BlockDone
          \/ Parser \/ NoAnswer \/ httpd_resp_send \/ Send \/ SendFails \/ Sent
          \/ Purge \/ PurgeFails \/ Finish

Next == Server \/ OtherReadable \/ RecvFails \/ Arrive \/ Leave

Spec == Init /\ [][Next]_vars

\* The task is scheduled, and recv() and send() end at their timeouts.  Nothing
\* is assumed of the client, of other sessions, or of recv()'s errors.
FairSpec == Spec /\ WF_vars(Server)

-----------------------------------------------------------------------------
(* Properties.                                                             *)

\* Every variable has its type; no buffer holds more than its size.
TypeOK ==
  /\ arrived \in 0..Len(stream) /\ ended \in BOOLEAN /\ paused \in BOOLEAN
  /\ \A b \in {socket, pending, scratch, parsed} : b \in Seq(1..arrived)
  /\ Len(pending) <= PARSER_BLOCK_SIZE /\ Len(scratch) <= SCRATCH_SIZE
  /\ offset \in 0..SCRATCH_SIZE /\ at \in 0..SCRATCH_SIZE
  /\ pre_parsed \in 0..PARSER_BLOCK_SIZE /\ last_at \in 0..SCRATCH_SIZE
  /\ pc \in {"select", "read", "parse", "handler", "send", "leftover", "closed"}
  /\ status \in {"IDLE", "URL", "HDR_FIELD", "HDR_VALUE", "BODY", "COMPLETE"}
  /\ before \in DOMAIN Grammar
  /\ error \in {"none", "400", "408", "414", "431", "500", "url", "upgrade", "handler"}
  /\ remaining_len \in 0..Len(stream) /\ req_hdrs_count \in 0..Len(stream)
  /\ answers \in Seq(Nat)

\* A client that keeps to HTTP sends requests one after the other, the last one
\* perhaps cut short within its headers: each byte goes on with its request, or
\* begins the next one behind a whole one.
Follows(part) ==
  CASE part = "body" -> {"body"} [] part = "chunk" -> {"chunk", "size"} [] OTHER -> Grammar[part]
KeepsToHttp(s) ==
  /\ s # <<>> => s[1] = [of |-> 1, is |-> "method"]
  /\ \A p \in 2..Len(s) :
       \/ s[p].of = s[p - 1].of /\ s[p].is \in Follows(s[p - 1].is)
       \/ /\ s[p] = [of |-> s[p - 1].of + 1, is |-> "method"]
          /\ s[p - 1].is \in {"end", "body", "last"}
ClientsKeepToHttp == \A s \in Streams : KeepsToHttp(s)

\* Request r is whole and has headers and no chunks, as those before it, and each
\* part of it that the server keeps in the buffer at once has room there.
PartLen(r, parts) == Cardinality({p \in DOMAIN stream : stream[p].of = r /\ Is(p) \in parts})
InBounds(r) ==
  /\ \A q \in 1..r : PartLen(q, {"field"}) > 0 /\ ~Chunked(q)
  /\ PartLen(r, {"method", "url"}) < SCRATCH_SIZE
  /\ PartLen(r, {"end"}) > 0
  /\ PartLen(r, {"field", "value", "end"}) + (IF BodyLen(r) > 0 THEN 1 ELSE 0) <= SCRATCH_SIZE

\* A client that sends requests with headers and bodies of known length is not told
\* that what it sent is no request, nor that one which has room is too long: the
\* parser begins each request at its first byte, wherever blocks end, data was
\* pushed back, and bodies were left unread.  What the request asks for is another
\* matter: its target and version ("url") or an upgrade can be refused at any time.
\* A chunked body is never taken from the connection: the server goes on inside it.
WellRead ==
  error \in {"400", "414", "431", "500"} => ~InBounds(Len(answers) + 1)

\* As long as the handler may look at the headers, the buffer begins with all of
\* them and holds those of this request only, and they are counted.
Targets(k) == \A i \in DOMAIN parsed : Is(parsed[i]) \in {"method", "url"} <=> i <= k
FirstBytes == {i \in DOMAIN parsed :
                 Is(parsed[i]) = "field" /\ (i = 1 \/ Is(parsed[i - 1]) # "field")}
HeadersAvailable ==
  pc \in {"handler", "send"} /\ req_hdrs_count > 0
    => /\ Whole(parsed)
       /\ \E k \in 0..Len(parsed) : Targets(k) /\ IsPrefix(From(parsed, k + 1), scratch)
       /\ req_hdrs_count = Cardinality(FirstBytes)

\* The session is what a client may suppose of it.
AbstractStream == INSTANCE RequestStream WITH open <- (pc # "closed")
ImplementsStream == AbstractStream!Spec

\* A request that has arrived is answered or the session closed, but for two
\* cases: it was read with the one before and waits for another descriptor, or
\* the client ended its side before a body's end.
Received(r) == {p \in DOMAIN stream : stream[p].of = r /\ p <= arrived}
WholeArrived(r) == Cardinality(Received(r)) = PartLen(r, Parts) /\ Received(r) # {}
Kept == pc = "select" /\ socket = <<>> /\ pending # <<>> /\ ~ended
BodyCut == pc = "leftover" /\ pending = <<>> /\ socket = <<>> /\ ended
RequestAnswered ==
  \A r \in 1..2 : WholeArrived(r) ~> (Len(answers) >= r \/ pc = "closed" \/ Kept \/ BodyCut)

=============================================================================
