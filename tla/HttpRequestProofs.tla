------------------------- MODULE HttpRequestProofs --------------------------
(***************************************************************************)
(* Theorems about HttpRequest for any sizes of the block and the buffers:  *)
(* TypeCorrect for whatever bytes the clients send, the others for clients *)
(* that keep to HTTP.  The invariant has four parts, each resting on those *)
(* before it: BytesInv says which bytes the buffers hold, HeadersInv where *)
(* the request's headers are in them, RequestsInv where the requests begin *)
(* and end, WellRead what is refused.                                      *)
(***************************************************************************)
EXTENDS HttpRequest, SequenceTheorems, FiniteSetTheorems, WellFoundedInduction, TLAPS

\* The bytes that were taken from both the socket and the pending data.
Taken == arrived - Len(socket) - Len(pending)

\* The bytes behind position a, one after the other.
Run(q, a) == \A i \in DOMAIN q : q[i] = a + i

\* No byte is lost on its way.
InTransit ==
  /\ stream \in Seq([of : Nat \ {0}, is : Parts]) /\ stream \in Streams
  /\ Taken \in Nat
  /\ Run(socket, arrived - Len(socket)) /\ Run(pending, Taken)

\* While a request is read, the buffer holds the bytes that were taken last ...
Buffered ==
  /\ Len(scratch) <= Taken /\ Run(scratch, Taken - Len(scratch))
  /\ offset <= at /\ at <= Len(scratch) /\ Len(scratch) - offset <= PARSER_BLOCK_SIZE
  /\ ~paused /\ pre_parsed = 0
  /\ pending # <<>> => offset = 0
  /\ status \in {"URL", "BODY"} => last_at <= at

\* ... or begins anew with those that were pushed back, some of them parsed.
Repeated ==
  /\ offset = 0 /\ pre_parsed > 0 /\ pre_parsed <= Len(pending)
  /\ status = "HDR_FIELD"

Reading ==
  /\ pc = "read" => IF paused THEN Repeated ELSE Buffered /\ offset = Len(scratch)
  /\ pc = "parse" => Buffered /\ pending = <<>>

\* The last byte that was parsed; the parsed ones are one after the other.
ParsedUpTo == IF pc = "parse" THEN Taken - (Len(scratch) - at) ELSE Taken + pre_parsed
ParsedInOrder ==
  /\ \A i \in DOMAIN parsed : parsed[i] = parsed[1] + i - 1
  /\ pc \in {"read", "parse"} /\ parsed # <<>> => parsed[Len(parsed)] = ParsedUpTo
  /\ req_hdrs_count <= Len(parsed)

\* What the parser is in is what it saw last.
After == [none |-> "IDLE", method |-> "IDLE", url |-> "URL", field |-> "HDR_FIELD",
          value |-> "HDR_VALUE", end |-> "BODY", size |-> "BODY"]
Phase ==
  pc \in {"read", "parse"} =>
    /\ before \in DOMAIN After /\ status = After[before]
    /\ before = IF parsed = <<>> THEN "none" ELSE Is(parsed[Len(parsed)])

BytesInv == TypeOK /\ InTransit /\ Reading /\ ParsedInOrder /\ Phase

\* The buffer holds the request's beginning until there is a header, and from then
\* on its headers; those that have begun are counted when they end.
InHeaders == status \in {"HDR_FIELD", "HDR_VALUE"}
Held == IF paused THEN pre_parsed ELSE at
NoHeader == at = Len(parsed) /\ req_hdrs_count = 0 /\ FirstBytes = {}
Composed ==
  IF status \in {"IDLE", "URL"} THEN NoHeader /\ Targets(Len(parsed))
  ELSE \/ Held <= Len(parsed) /\ Targets(Len(parsed) - Held)
       \/ status = "BODY" /\ NoHeader
Counted == Cardinality(FirstBytes) = req_hdrs_count + (IF InHeaders THEN 1 ELSE 0)

\* The handler finds them.
HeadersFound ==
  req_hdrs_count > 0 =>
    /\ \E k \in 0..Len(parsed) : Targets(k) /\ IsPrefix(From(parsed, k + 1), scratch)
    /\ req_hdrs_count = Cardinality(FirstBytes)

HeadersInv ==
  /\ pc \in {"read", "parse"} => Composed /\ Counted
  /\ pc = "handler" => HeadersFound
  /\ pc = "send" => req_hdrs_count = 0

\* Position c is where the requests before r end; ...
Boundary(c, r) == \A p \in DOMAIN stream : p <= c <=> stream[p].of < r
\* ... or the server has gone astray: request r had no headers and its beginning was
\* pushed back, or its chunks were.
Astray(c, r) ==
  /\ c + 1 \in DOMAIN stream /\ Is(c + 1) # "method"
  /\ r > 0 /\ (PartLen(r, {"field"}) = 0 \/ Chunked(r))

Current == Len(answers) + 1
AtNext(c) == Boundary(c, Current) \/ Astray(c, Len(answers))
InRequest ==
  /\ Is(parsed[1]) = "method"
  /\ \A i \in DOMAIN parsed : stream[parsed[i]].of = Current
UrlAt ==
  status = "URL" => last_at + 1 \in DOMAIN parsed /\ Is(parsed[last_at + 1]) = "url"
\* What cb_no_body would push back behind the last chunk.
BodyStart == ParsedUpTo - (at - last_at)
NoneBegins ==
  /\ BodyStart < ParsedUpTo => BodyStart \in Nat /\ Is(BodyStart + 1) # "method"
  /\ before = "size" => BodyStart < ParsedUpTo
Ahead(r) ==
  \/ Boundary(Taken + remaining_len, r + 1)
  \/ remaining_len = 0 /\ Astray(Taken, r)

RequestsInv ==
  /\ pc = "select" => AtNext(Taken)
  /\ pc \in {"read", "parse"} =>
       (IF parsed = <<>> THEN AtNext(ParsedUpTo) ELSE InRequest) /\ UrlAt
  /\ pc \in {"read", "parse"} /\ status = "BODY" =>
       remaining_len = BodyLen(Current) /\ (remaining_len > 0 \/ Chunked(Current)) /\ NoneBegins
  /\ pc \in {"handler", "send"} =>
       Whole(parsed) /\ stream[parsed[1]].of = Current /\ Ahead(Current)
  /\ pc = "leftover" => Ahead(Len(answers))
  /\ pc # "closed" => error = "none"

IndInv == BytesInv /\ HeadersInv /\ RequestsInv /\ WellRead

-----------------------------------------------------------------------------
(* Operators.                                                              *)

\* The lesser of two numbers.
LEMMA MinOfTwo ==
  ASSUME NEW a \in Int, NEW b \in Int
  PROVE  Min({a, b}) = IF a <= b THEN a ELSE b
<1> DEFINE c == IF a <= b THEN a ELSE b
<1>1. c \in {a, b} /\ \A y \in {a, b} : c <= y
  OBVIOUS
<1>2. \A x \in {a, b} : (\A y \in {a, b} : x <= y) => x = c
  OBVIOUS
<1> QED
  BY <1>1, <1>2 DEF Min

\* A part of a run of bytes is a run.
LEMMA RunPart ==
  ASSUME NEW S, NEW q \in Seq(S), NEW a \in Int, Run(q, a),
         NEW m \in Nat, NEW n \in Nat, m >= 1, n + 1 >= m, n <= Len(q)
  PROVE  /\ SubSeq(q, m, n) \in Seq(S) /\ Len(SubSeq(q, m, n)) = n + 1 - m
         /\ Run(SubSeq(q, m, n), a + m - 1)
<1>1. \A i \in m..n : q[i] \in S
  OBVIOUS
<1>2. /\ SubSeq(q, m, n) \in Seq(S)
      /\ Len(SubSeq(q, m, n)) = IF m <= n THEN n - m + 1 ELSE 0
      /\ \A i \in 1..(n - m + 1) : SubSeq(q, m, n)[i] = q[m + i - 1]
  BY <1>1, SubSeqProperties
<1>3. Len(SubSeq(q, m, n)) = n + 1 - m
  BY <1>2
<1>4. ASSUME NEW i \in DOMAIN SubSeq(q, m, n)
      PROVE  SubSeq(q, m, n)[i] = (a + m - 1) + i
  <2>1. i \in 1..(n - m + 1) /\ m + i - 1 \in DOMAIN q
    BY <1>2, <1>3
  <2> QED
    BY <1>2, <2>1 DEF Run
<1> QED
  BY <1>2, <1>3, <1>4 DEF Run

\* So is its beginning.
LEMMA RunUpto ==
  ASSUME NEW S, NEW q \in Seq(S), NEW a \in Int, Run(q, a), NEW i \in 0..Len(q)
  PROVE  Upto(q, i) \in Seq(S) /\ Len(Upto(q, i)) = i /\ Run(Upto(q, i), a)
<1>1. i \in Nat /\ i <= Len(q) /\ Len(q) \in Nat
  OBVIOUS
<1>2. a + 1 - 1 = a /\ i + 1 - 1 = i
  BY <1>1
<1>3. /\ SubSeq(q, 1, i) \in Seq(S) /\ Len(SubSeq(q, 1, i)) = i + 1 - 1
      /\ Run(SubSeq(q, 1, i), a + 1 - 1)
  BY <1>1, RunPart
<1> QED
  BY <1>2, <1>3 DEF Upto

\* And its end.
LEMMA RunFrom ==
  ASSUME NEW S, NEW q \in Seq(S), NEW a \in Int, Run(q, a), NEW i \in 0..Len(q)
  PROVE  /\ From(q, i + 1) \in Seq(S) /\ Len(From(q, i + 1)) = Len(q) - i
         /\ Run(From(q, i + 1), a + i)
<1>1. i \in Nat /\ i <= Len(q) /\ Len(q) \in Nat
  OBVIOUS
<1>2. a + (i + 1) - 1 = a + i /\ Len(q) + 1 - (i + 1) = Len(q) - i
  BY <1>1
<1>3. /\ SubSeq(q, i + 1, Len(q)) \in Seq(S)
      /\ Len(SubSeq(q, i + 1, Len(q))) = Len(q) + 1 - (i + 1)
      /\ Run(SubSeq(q, i + 1, Len(q)), a + (i + 1) - 1)
  BY <1>1, RunPart
<1> QED
  BY <1>2, <1>3 DEF From

\* Two runs where the second begins behind the first are one.
LEMMA RunConcat ==
  ASSUME NEW S, NEW q \in Seq(S), NEW r \in Seq(S), NEW a \in Int,
         Run(q, a), Run(r, a + Len(q))
  PROVE  q \o r \in Seq(S) /\ Len(q \o r) = Len(q) + Len(r) /\ Run(q \o r, a)
<1>1. /\ q \o r \in Seq(S) /\ Len(q \o r) = Len(q) + Len(r)
      /\ \A i \in 1..(Len(q) + Len(r)) :
           (q \o r)[i] = IF i <= Len(q) THEN q[i] ELSE r[i - Len(q)]
  BY ConcatProperties
<1>2. ASSUME NEW i \in DOMAIN (q \o r) PROVE (q \o r)[i] = a + i
  <2>1. i \in 1..(Len(q) + Len(r))
    BY <1>1
  <2>2. CASE i <= Len(q)
    BY <1>1, <2>1, <2>2 DEF Run
  <2>3. CASE i > Len(q)
    <3>1. i - Len(q) \in DOMAIN r
      BY <2>1, <2>3
    <3>2. r[i - Len(q)] = (a + Len(q)) + (i - Len(q))
      BY <3>1 DEF Run
    <3> QED
      BY <1>1, <2>1, <2>3, <3>2
  <2> QED
    BY <2>1, <2>2, <2>3
<1> QED
  BY <1>1, <1>2 DEF Run

\* A run and the next byte are a run.
LEMMA RunAppend ==
  ASSUME NEW S, NEW q \in Seq(S), NEW a \in Int, NEW e \in S, Run(q, a), e = a + Len(q) + 1
  PROVE  /\ Append(q, e) \in Seq(S) /\ Len(Append(q, e)) = Len(q) + 1
         /\ Run(Append(q, e), a)
<1>1. /\ Append(q, e) \in Seq(S) /\ Len(Append(q, e)) = Len(q) + 1
      /\ \A i \in 1..Len(q) : Append(q, e)[i] = q[i]
      /\ Append(q, e)[Len(q) + 1] = e
  BY AppendProperties
<1>2. ASSUME NEW i \in DOMAIN Append(q, e) PROVE Append(q, e)[i] = a + i
  <2>1. i \in 1..(Len(q) + 1)
    BY <1>1
  <2>2. CASE i <= Len(q)
    BY <1>1, <2>1, <2>2 DEF Run
  <2>3. CASE i = Len(q) + 1
    BY <1>1, <2>3
  <2> QED
    BY <2>1, <2>2, <2>3
<1> QED
  BY <1>1, <1>2 DEF Run

\* The empty sequence is a run from anywhere.
LEMMA RunEmpty == \A a : Run(<<>>, a)
BY DEF Run

-----------------------------------------------------------------------------
(* Receiving.                                                              *)

\* What a read of at most n bytes leaves: the bytes it returns are those behind the
\* ones taken before, and nothing else is taken.
Read(r, n) ==
  /\ r.data \in Seq(1..arrived) /\ Len(r.data) <= n /\ Run(r.data, Taken)
  /\ r.socket \in Seq(1..arrived) /\ r.pending \in Seq(1..arrived)
  /\ Len(r.pending) <= Len(pending) /\ Len(r.socket) <= Len(socket)
  /\ arrived - Len(r.socket) - Len(r.pending) = Taken + Len(r.data)
  /\ Run(r.socket, arrived - Len(r.socket)) /\ Run(r.pending, Taken + Len(r.data))

\* What it takes to be such a read.
LEMMA ReadOf ==
  ASSUME NEW n, NEW d \in Seq(1..arrived), NEW s \in Seq(1..arrived),
         NEW p \in Seq(1..arrived), NEW l, Len(d) = l, l <= n, Run(d, Taken),
         Len(p) <= Len(pending), Len(s) <= Len(socket),
         arrived - Len(s) - Len(p) = Taken + l,
         Run(s, arrived - Len(s)), Run(p, Taken + l)
  PROVE  Read([data |-> d, socket |-> s, pending |-> p], n)
BY DEF Read

\* The lengths and positions are numbers, the sequences have their type.
LEMMA Numbers ==
  ASSUME TypeOK, InTransit
  PROVE  /\ arrived \in Nat /\ Taken \in Nat
         /\ socket \in Seq(1..arrived) /\ pending \in Seq(1..arrived)
         /\ scratch \in Seq(1..arrived) /\ parsed \in Seq(1..arrived)
         /\ Len(socket) \in Nat /\ Len(pending) \in Nat /\ Len(scratch) \in Nat
         /\ Len(parsed) \in Nat /\ Taken + Len(pending) = arrived - Len(socket)
         /\ Len(stream) \in Nat /\ DOMAIN stream = 1..Len(stream)
         /\ arrived <= Len(stream)
<1>1. Len(stream) \in Nat /\ DOMAIN stream = 1..Len(stream)
  BY LenProperties DEF InTransit
<1>2. arrived \in Nat /\ arrived <= Len(stream)
  BY <1>1 DEF TypeOK
<1>3. /\ socket \in Seq(1..arrived) /\ pending \in Seq(1..arrived)
      /\ scratch \in Seq(1..arrived) /\ parsed \in Seq(1..arrived)
  BY DEF TypeOK
<1>4. /\ Len(socket) \in Nat /\ Len(pending) \in Nat /\ Len(scratch) \in Nat
      /\ Len(parsed) \in Nat
  BY <1>3, LenProperties
<1> QED
  BY <1>1, <1>2, <1>3, <1>4 DEF Taken, InTransit

\* A block comes from the pending data or from the socket.
LEMMA BlockRead ==
  ASSUME TypeOK, InTransit, NEW n \in Nat
  PROVE  /\ Read(RecvBlock(n), n)
         /\ pending # <<>> /\ Len(pending) <= n =>
              Len(RecvBlock(n).data) = Len(pending) /\ RecvBlock(n).pending = <<>>
         /\ pending = <<>> => RecvBlock(n).pending = <<>>
<1> DEFINE p == Min({n, Len(pending)})
           s == Min({n, Len(socket)})
<1>1. /\ arrived \in Nat /\ Taken \in Nat
      /\ Len(socket) \in Nat /\ Len(pending) \in Nat
      /\ Taken + Len(pending) = arrived - Len(socket)
  BY Numbers
<1>2. socket \in Seq(1..arrived) /\ pending \in Seq(1..arrived)
  BY Numbers
<1>3. Run(socket, arrived - Len(socket)) /\ Run(pending, Taken)
  BY DEF InTransit
<1>4. n \in Int /\ Len(pending) \in Int /\ Len(socket) \in Int /\ Taken \in Int
  BY <1>1
<1>5. /\ p = IF n <= Len(pending) THEN n ELSE Len(pending)
      /\ s = IF n <= Len(socket) THEN n ELSE Len(socket)
  BY <1>4, MinOfTwo
<1>6. pending # <<>> => RecvBlock(n) = [data |-> Upto(pending, p), socket |-> socket,
                                        pending |-> From(pending, p + 1)]
  BY DEF RecvBlock
<1>7. pending = <<>> => RecvBlock(n) = [data |-> Upto(socket, s), pending |-> pending,
                                        socket |-> From(socket, s + 1)]
  BY DEF RecvBlock
<1> HIDE DEF p, s
<1>8. p \in 0..Len(pending) /\ s \in 0..Len(socket) /\ p <= n /\ s <= n
  BY <1>1, <1>5
<1>9. p \in Nat /\ s \in Nat
  BY <1>1, <1>8
<1>10. CASE pending # <<>>
  <2>1. /\ Upto(pending, p) \in Seq(1..arrived) /\ Len(Upto(pending, p)) = p
        /\ Run(Upto(pending, p), Taken)
    BY <1>2, <1>3, <1>4, <1>8, RunUpto
  <2>2. /\ From(pending, p + 1) \in Seq(1..arrived)
        /\ Len(From(pending, p + 1)) = Len(pending) - p
        /\ Run(From(pending, p + 1), Taken + p)
    BY <1>2, <1>3, <1>4, <1>8, RunFrom
  <2>3. /\ arrived - Len(socket) - (Len(pending) - p) = Taken + p
        /\ Len(pending) - p <= Len(pending) /\ Len(socket) <= Len(socket)
    BY <1>1, <1>9
  <2>4. /\ arrived - Len(socket) - Len(From(pending, p + 1)) = Taken + p
        /\ Len(From(pending, p + 1)) <= Len(pending) /\ Len(socket) <= Len(socket)
    BY <2>2, <2>3
  <2>5. Read([data |-> Upto(pending, p), socket |-> socket,
              pending |-> From(pending, p + 1)], n)
    BY <1>2, <1>3, <1>8, <2>1, <2>2, <2>4, ReadOf
  <2> QED
    <3>1. Len(pending) <= n => p = Len(pending)
      BY <1>1, <1>5
    <3>2. Len(pending) <= n => Len(From(pending, p + 1)) = 0
      BY <1>1, <2>2, <3>1
    <3>3. Len(pending) <= n => From(pending, p + 1) = <<>>
      BY <2>2, <3>2, EmptySeq
    <3>4. RecvBlock(n).data = Upto(pending, p) /\ RecvBlock(n).pending = From(pending, p + 1)
      BY <1>6, <1>10
    <3> QED
      BY <1>6, <1>10, <2>1, <2>5, <3>1, <3>3, <3>4
<1>11. CASE pending = <<>>
  <2>1. Len(pending) = 0
    BY <1>11
  <2>2. Taken = arrived - Len(socket)
    BY <1>1, <2>1
  <2>3. /\ Upto(socket, s) \in Seq(1..arrived) /\ Len(Upto(socket, s)) = s
        /\ Run(Upto(socket, s), Taken)
    BY <1>2, <1>3, <1>4, <1>8, <2>2, RunUpto
  <2>4. /\ From(socket, s + 1) \in Seq(1..arrived)
        /\ Len(From(socket, s + 1)) = Len(socket) - s
        /\ Run(From(socket, s + 1), Taken + s)
    BY <1>2, <1>3, <1>4, <1>8, <2>2, RunFrom
  <2>5. /\ arrived - (Len(socket) - s) = Taken + s /\ (Taken + s) - 0 = Taken + s
        /\ Len(socket) - s <= Len(socket) /\ Len(pending) <= Len(pending)
    BY <1>1, <1>9, <2>2
  <2>6. Run(pending, Taken + s)
    BY <1>11, RunEmpty
  <2>7. /\ arrived - Len(From(socket, s + 1)) - Len(pending) = Taken + s
        /\ arrived - Len(From(socket, s + 1)) = Taken + s
        /\ Len(From(socket, s + 1)) <= Len(socket)
    BY <2>1, <2>4, <2>5
  <2>8. Run(From(socket, s + 1), arrived - Len(From(socket, s + 1)))
    BY <2>4, <2>7
  <2>9. Read([data |-> Upto(socket, s), socket |-> From(socket, s + 1),
              pending |-> pending], n)
    BY <1>2, <1>8, <2>3, <2>4, <2>5, <2>6, <2>7, <2>8, ReadOf
  <2> QED
    BY <1>7, <1>11, <2>9
<1> QED
  BY <1>10, <1>11

\* The body is read from the pending data and then from the socket.
LEMMA BodyRead ==
  ASSUME TypeOK, InTransit, NEW n \in Nat
  PROVE  Read(Recv(n), n)
<1> DEFINE p == Min({n, Len(pending)})
           q == Min({n - p, Len(socket)})
<1>1. /\ arrived \in Nat /\ Taken \in Nat
      /\ Len(socket) \in Nat /\ Len(pending) \in Nat
      /\ Taken + Len(pending) = arrived - Len(socket)
  BY Numbers
<1>2. socket \in Seq(1..arrived) /\ pending \in Seq(1..arrived)
  BY Numbers
<1>3. Run(socket, arrived - Len(socket)) /\ Run(pending, Taken)
  BY DEF InTransit
<1>4. n \in Int /\ Len(pending) \in Int /\ Len(socket) \in Int /\ Taken \in Int
  BY <1>1
<1>5. p = IF n <= Len(pending) THEN n ELSE Len(pending)
  BY <1>4, MinOfTwo
<1>6. Recv(n) = [data |-> Upto(pending, p) \o Upto(socket, q),
                 pending |-> From(pending, p + 1), socket |-> From(socket, q + 1)]
  BY DEF Recv
<1> HIDE DEF p
<1>7. p \in Nat /\ p <= Len(pending) /\ p <= n /\ n - p \in Int
  BY <1>1, <1>5
<1>8. q = IF n - p <= Len(socket) THEN n - p ELSE Len(socket)
  BY <1>4, <1>7, MinOfTwo
<1> HIDE DEF q
<1>9. q \in Nat /\ q <= Len(socket) /\ p + q <= n /\ (p < Len(pending) => q = 0)
  <2>1. n - p \in Nat /\ Len(socket) \in Nat
    BY <1>1, <1>7
  <2>2. q \in Nat /\ q <= Len(socket) /\ q <= n - p
    BY <1>8, <2>1
  <2>3. p < Len(pending) => n - p = 0
    BY <1>1, <1>5
  <2>4. p < Len(pending) => q = 0
    BY <2>1, <2>2, <2>3
  <2> QED
    BY <1>7, <2>2, <2>4
<1>10. p \in 0..Len(pending) /\ q \in 0..Len(socket)
  BY <1>1, <1>7, <1>9
<1>11. /\ Upto(pending, p) \in Seq(1..arrived) /\ Len(Upto(pending, p)) = p
       /\ Run(Upto(pending, p), Taken)
  BY <1>2, <1>3, <1>4, <1>10, RunUpto
<1>12. /\ From(pending, p + 1) \in Seq(1..arrived)
       /\ Len(From(pending, p + 1)) = Len(pending) - p
       /\ Run(From(pending, p + 1), Taken + p)
  BY <1>2, <1>3, <1>4, <1>10, RunFrom
<1>13. arrived - Len(socket) \in Int
  BY <1>1
<1>14. /\ Upto(socket, q) \in Seq(1..arrived) /\ Len(Upto(socket, q)) = q
       /\ Run(Upto(socket, q), arrived - Len(socket))
  BY <1>2, <1>3, <1>13, <1>10, RunUpto
<1>15. /\ From(socket, q + 1) \in Seq(1..arrived)
       /\ Len(From(socket, q + 1)) = Len(socket) - q
       /\ Run(From(socket, q + 1), arrived - Len(socket) + q)
  BY <1>2, <1>3, <1>13, <1>10, RunFrom
<1>16. /\ Run(Upto(socket, q), Taken + p)
       /\ Run(From(pending, p + 1), Taken + (p + q))
  <2>1. p < Len(pending) \/ p = Len(pending)
    BY <1>1, <1>7
  <2>2. CASE p < Len(pending)
    <3>1. Upto(socket, q) = <<>> /\ q = 0
      BY <1>9, <1>14, <2>2, EmptySeq
    <3>2. Run(Upto(socket, q), Taken + p)
      BY <3>1, RunEmpty
    <3>3. Taken + (p + q) = Taken + p
      BY <1>1, <1>7, <3>1
    <3> QED
      BY <1>12, <3>2, <3>3
  <2>3. CASE p = Len(pending)
    <3>1. Taken + p = arrived - Len(socket)
      BY <1>1, <2>3
    <3>2. Len(pending) - p = 0
      BY <1>1, <2>3
    <3>3. From(pending, p + 1) = <<>>
      BY <1>12, <3>2, EmptySeq
    <3>4. Run(From(pending, p + 1), Taken + (p + q))
      BY <3>3, RunEmpty
    <3> QED
      BY <1>14, <3>1, <3>4
  <2> QED
    BY <2>1, <2>2, <2>3
<1>17. /\ Upto(pending, p) \o Upto(socket, q) \in Seq(1..arrived)
       /\ Len(Upto(pending, p) \o Upto(socket, q)) = p + q
       /\ Run(Upto(pending, p) \o Upto(socket, q), Taken)
  BY <1>4, <1>11, <1>14, <1>16, RunConcat
<1>18. /\ arrived - (Len(socket) - q) - (Len(pending) - p) = Taken + (p + q)
       /\ arrived - (Len(socket) - q) = arrived - Len(socket) + q
       /\ Len(socket) - q <= Len(socket) /\ Len(pending) - p <= Len(pending)
  BY <1>1, <1>7, <1>9
<1>19. /\ arrived - Len(From(socket, q + 1)) - Len(From(pending, p + 1)) = Taken + (p + q)
       /\ arrived - Len(From(socket, q + 1)) = arrived - Len(socket) + q
       /\ Len(From(socket, q + 1)) <= Len(socket)
       /\ Len(From(pending, p + 1)) <= Len(pending)
  BY <1>12, <1>15, <1>18
<1>20. Run(From(socket, q + 1), arrived - Len(From(socket, q + 1)))
  BY <1>15, <1>19
<1>21. Read([data |-> Upto(pending, p) \o Upto(socket, q), socket |-> From(socket, q + 1),
             pending |-> From(pending, p + 1)], n)
  BY <1>9, <1>12, <1>15, <1>16, <1>17, <1>19, <1>20, ReadOf
<1> QED
  BY <1>6, <1>21

-----------------------------------------------------------------------------
(* The bytes in the buffers.                                               *)

\* A set of numbers has a least one: well-foundedness stands in for induction.
LEMMA LeastExists ==
  ASSUME NEW S \in SUBSET Nat, S # {}
  PROVE  \E x \in S : \A y \in S : x <= y
<1> DEFINE R == OpToRel(<, Nat)
<1>1. IsWellFoundedOn(R, Nat)
  BY NatLessThanWellFounded
<1> HIDE DEF R
<1>2. PICK x \in S : \A y \in S : <<y, x>> \notin R
  BY <1>1, WFMin
<1>3. ASSUME NEW y \in S PROVE x <= y
  <2>1. x \in Nat /\ y \in Nat
    OBVIOUS
  <2>2. ~(y < x)
    BY <1>2, <2>1 DEF R, OpToRel
  <2> QED
    BY <2>1, <2>2
<1> QED
  BY <1>3

\* A bounded one has a greatest.
LEMMA MaxExists ==
  ASSUME NEW n \in Nat, NEW S \in SUBSET (0..n), S # {}
  PROVE  Max(S) \in S /\ \A x \in S : x <= Max(S)
<1> DEFINE T == {n - x : x \in S}
<1>1. \A x \in S : x \in Nat /\ x <= n
  OBVIOUS
<1>2. T \in SUBSET Nat
  <2> SUFFICES ASSUME NEW x \in S PROVE n - x \in Nat
    OBVIOUS
  <2> QED
    BY <1>1
<1>3. T # {}
  OBVIOUS
<1> HIDE DEF T
<1>4. PICK z \in T : \A y \in T : z <= y
  BY <1>2, <1>3, LeastExists
<1>5. PICK x \in S : z = n - x
  BY <1>4 DEF T
<1>6. ASSUME NEW y \in S PROVE y <= x
  <2>1. n - y \in T
    BY DEF T
  <2>2. n - x <= n - y
    BY <1>4, <1>5, <2>1
  <2> QED
    BY <1>1, <2>2
<1>7. \A y \in S : x >= y
  BY <1>1, <1>6
<1>8. Max(S) \in S /\ \A y \in S : Max(S) >= y
  BY <1>7 DEF Max
<1> QED
  BY <1>1, <1>8

\* The field that begins at the parser's position.
LEMMA FieldCounted ==
  ASSUME BytesInv, pc = "parse", at < Len(scratch), Is(unit) = "field"
  PROVE  /\ FieldLen \in Nat /\ FieldLen >= 1 /\ at + FieldLen <= Len(scratch)
         /\ \A i \in 1..FieldLen : Is(scratch[at + i]) = "field"
<1> DEFINE S == {n \in 1..(Len(scratch) - at) :
                   \A i \in 1..n : Is(scratch[at + i]) = "field"}
<1>1. at \in Nat /\ Len(scratch) \in Nat /\ Len(scratch) - at \in Nat
  BY Numbers DEF BytesInv, TypeOK
<1>2. 1 \in S
  <2>1. 1 \in 1..(Len(scratch) - at)
    BY <1>1
  <2>2. \A i \in 1..1 : i = 1
    OBVIOUS
  <2>3. \A i \in 1..1 : Is(scratch[at + i]) = "field"
    BY <2>2 DEF unit
  <2> QED
    BY <2>1, <2>3
<1>3. S \in SUBSET (0..(Len(scratch) - at))
  BY <1>1
<1>4. FieldLen = Max(S)
  BY DEF FieldLen
<1>5. Max(S) \in S
  BY <1>1, <1>2, <1>3, MaxExists
<1>6. FieldLen \in S
  BY <1>4, <1>5
<1> QED
  BY <1>1, <1>6

\* Its bytes as they are in the buffer.
LEMMA FieldRead ==
  ASSUME BytesInv, pc = "parse", at < Len(scratch), Is(unit) = "field"
  PROVE  LET f == SubSeq(scratch, at + 1, at + FieldLen)
         IN  /\ f \in Seq(1..arrived) /\ Len(f) = FieldLen
             /\ \A i \in 1..FieldLen : f[i] = scratch[at + i]
<1> DEFINE f == SubSeq(scratch, at + 1, at + FieldLen)
<1>1. /\ FieldLen \in Nat /\ FieldLen >= 1 /\ at + FieldLen <= Len(scratch) /\ at \in Nat
      /\ Len(scratch) \in Nat /\ scratch \in Seq(1..arrived)
  BY FieldCounted, Numbers DEF BytesInv, TypeOK
<1>2. \A i \in (at + 1)..(at + FieldLen) : scratch[i] \in 1..arrived
  <2>1. \A i \in (at + 1)..(at + FieldLen) : i \in 1..Len(scratch)
    BY <1>1
  <2> QED
    BY <1>1, <2>1, ElementOfSeq
<1>3. /\ at + 1 \in Int /\ at + FieldLen \in Int /\ at + 1 <= at + FieldLen
      /\ (at + FieldLen) - (at + 1) + 1 = FieldLen
      /\ \A i \in 1..FieldLen : (at + 1) + i - 1 = at + i
  BY <1>1
<1>4. /\ f \in Seq(1..arrived)
      /\ Len(f) = IF at + 1 <= at + FieldLen THEN (at + FieldLen) - (at + 1) + 1 ELSE 0
      /\ \A i \in 1..((at + FieldLen) - (at + 1) + 1) : f[i] = scratch[(at + 1) + i - 1]
  BY <1>2, <1>3, SubSeqProperties
<1> QED
  BY <1>3, <1>4

\* The block is a place in the buffer.
LEMMA BlockFits ==
  ASSUME TypeOK
  PROVE  /\ BlockLen \in Nat /\ offset + BlockLen <= SCRATCH_SIZE
         /\ BlockLen <= PARSER_BLOCK_SIZE
         /\ offset = 0 => BlockLen = PARSER_BLOCK_SIZE
         /\ BlockLen = 0 => offset = SCRATCH_SIZE
<1>1. /\ PARSER_BLOCK_SIZE \in Nat /\ SCRATCH_SIZE \in Nat /\ PARSER_BLOCK_SIZE > 0
      /\ PARSER_BLOCK_SIZE <= SCRATCH_SIZE
  BY HttpRequestAssumption
<1>2. offset \in Nat /\ offset <= SCRATCH_SIZE
  BY <1>1 DEF TypeOK
<1>3. PARSER_BLOCK_SIZE \in Int /\ SCRATCH_SIZE - offset \in Int
  BY <1>1, <1>2
<1>4. BlockLen = IF PARSER_BLOCK_SIZE <= SCRATCH_SIZE - offset THEN PARSER_BLOCK_SIZE
                 ELSE SCRATCH_SIZE - offset
  BY <1>3, MinOfTwo DEF BlockLen
<1> QED
  BY <1>1, <1>2, <1>4

\* What was parsed of the request that is being read ends where the parser is.
LEMMA ParsedRun ==
  ASSUME BytesInv, pc \in {"read", "parse"}
  PROVE  /\ ParsedUpTo \in Int /\ parsed \in Seq(1..arrived) /\ Len(parsed) \in Nat
         /\ Run(parsed, ParsedUpTo - Len(parsed))
<1>1. /\ parsed \in Seq(1..arrived) /\ Len(parsed) \in Nat /\ Taken \in Nat
      /\ Len(scratch) \in Nat
  BY Numbers DEF BytesInv
<1>2. ParsedUpTo \in Int
  BY <1>1 DEF ParsedUpTo, BytesInv, TypeOK
<1>3. CASE parsed = <<>>
  BY <1>1, <1>2, <1>3, RunEmpty
<1>4. CASE parsed # <<>>
  <2>1. \A i \in DOMAIN parsed : parsed[i] = parsed[1] + i - 1
    BY DEF BytesInv, ParsedInOrder
  <2>2. parsed[Len(parsed)] = ParsedUpTo
    BY <1>4 DEF BytesInv, ParsedInOrder
  <2>3. Len(parsed) \in DOMAIN parsed /\ 1 \in DOMAIN parsed
    BY <1>1, <1>4
  <2>4. parsed[1] \in Int
    <3>1. parsed[1] \in 1..arrived
      <4>1. 1 \in 1..Len(parsed)
        BY <1>1, <2>3
      <4> QED
        BY <1>1, <4>1, ElementOfSeq
    <3>2. arrived \in Nat
      BY DEF BytesInv, TypeOK
    <3> QED
      BY <3>1, <3>2
  <2>5. parsed[1] = ParsedUpTo - Len(parsed) + 1
    <3>1. parsed[Len(parsed)] = parsed[1] + Len(parsed) - 1
      BY <2>1, <2>3
    <3>2. parsed[1] + Len(parsed) - 1 = ParsedUpTo /\ Len(parsed) \in Int
      BY <1>1, <2>2, <3>1
    <3> QED
      BY <1>2, <2>4, <3>2
  <2>6. ASSUME NEW i \in DOMAIN parsed PROVE parsed[i] = ParsedUpTo - Len(parsed) + i
    <3>1. i \in Int
      BY <1>1
    <3>2. parsed[i] = parsed[1] + i - 1
      BY <2>1
    <3> QED
      BY <1>1, <1>2, <2>5, <3>1, <3>2
  <2> QED
    BY <1>1, <1>2, <2>6 DEF Run
<1> QED
  BY <1>3, <1>4

\* The converse.
LEMMA RunParsed ==
  ASSUME NEW n \in Int, NEW q \in Seq(Int), Run(q, n - Len(q))
  PROVE  /\ \A i \in DOMAIN q : q[i] = q[1] + i - 1
         /\ q # <<>> => q[Len(q)] = n
<1>1. Len(q) \in Nat /\ DOMAIN q = 1..Len(q)
  OBVIOUS
<1>2. \A i \in 1..Len(q) : q[i] = n - Len(q) + i
  BY <1>1 DEF Run
<1>3. q # <<>> => 1 \in 1..Len(q) /\ Len(q) \in 1..Len(q)
  BY <1>1
<1>4. ASSUME NEW i \in DOMAIN q PROVE q[i] = q[1] + i - 1
  <2>1. i \in 1..Len(q) /\ 1 \in 1..Len(q) /\ i \in Int
    BY <1>1
  <2>2. q[i] = n - Len(q) + i /\ q[1] = n - Len(q) + 1
    BY <1>2, <2>1
  <2> QED
    BY <1>1, <2>1, <2>2
<1>5. q # <<>> => q[Len(q)] = n
  BY <1>1, <1>2, <1>3
<1> QED
  BY <1>4, <1>5

\* No more bytes were parsed than arrived.
LEMMA ParsedArrived ==
  ASSUME NEW n \in Nat, NEW q \in Seq(1..n), \A i \in DOMAIN q : q[i] = q[1] + i - 1
  PROVE  Len(q) <= n
<1>1. Len(q) \in Nat /\ DOMAIN q = 1..Len(q)
  OBVIOUS
<1>2. CASE Len(q) = 0
  BY <1>2
<1>3. CASE Len(q) > 0
  <2>1. 1 \in DOMAIN q /\ Len(q) \in DOMAIN q
    BY <1>1, <1>3
  <2>2. q[1] \in 1..n /\ q[Len(q)] \in 1..n /\ q[Len(q)] = q[1] + Len(q) - 1
    BY <2>1
  <2> QED
    BY <1>1, <2>2
<1> QED
  BY <1>1, <1>2, <1>3

-----------------------------------------------------------------------------
(* BytesInv is inductive, an action at a time.                             *)

\* What the parser may have seen last.
LEMMA ParserStates ==
  DOMAIN Grammar = {"none", "method", "url", "field", "value", "end", "body", "size",
                    "chunk", "last"}
BY DEF Grammar

\* It holds at the beginning.
LEMMA BytesInit ==
  Init => BytesInv
<1> SUFFICES ASSUME Init PROVE BytesInv
  OBVIOUS
<1>1. /\ PARSER_BLOCK_SIZE \in Nat /\ SCRATCH_SIZE \in Nat
      /\ \A s \in Streams : s \in Seq([of : Nat \ {0}, is : Parts])
  BY HttpRequestAssumption
<1>2. stream \in Seq([of : Nat \ {0}, is : Parts]) /\ Len(stream) \in Nat
  <2>1. stream \in Seq([of : Nat \ {0}, is : Parts])
    BY <1>1 DEF Init
  <2> QED
    BY <2>1, LenProperties
<1>3. TypeOK
  <2>1. \A b \in {socket, pending, scratch, parsed} : b = <<>>
    BY DEF Init
  <2>2. \A b \in {socket, pending, scratch, parsed} : b \in Seq(1..arrived)
    BY <2>1, EmptySeq
  <2>3. Len(pending) <= PARSER_BLOCK_SIZE /\ Len(scratch) <= SCRATCH_SIZE
    BY <1>1, <2>1
  <2> QED
    <3>1. arrived \in 0..Len(stream) /\ ended \in BOOLEAN /\ paused \in BOOLEAN
      <4>1. arrived = 0 /\ ended = FALSE /\ paused = FALSE
        BY DEF Init
      <4>2. arrived \in 0..Len(stream)
        BY <1>2, <4>1
      <4>3. ended \in BOOLEAN /\ paused \in BOOLEAN
        BY <4>1
      <4> QED
        BY <4>2, <4>3
    <3>2. /\ offset \in 0..SCRATCH_SIZE /\ at \in 0..SCRATCH_SIZE
          /\ pre_parsed \in 0..PARSER_BLOCK_SIZE /\ last_at \in 0..SCRATCH_SIZE
      BY <1>1 DEF Init
    <3>3. before \in DOMAIN Grammar
      BY ParserStates DEF Init
    <3>4. remaining_len \in 0..Len(stream) /\ req_hdrs_count \in 0..Len(stream)
      BY <1>2 DEF Init
    <3>5. answers \in Seq(Nat)
      BY EmptySeq DEF Init
    <3> QED
      BY <2>2, <2>3, <3>1, <3>2, <3>3, <3>4, <3>5 DEF TypeOK, Init
<1>4. Taken = 0
  <2>1. Len(socket) = 0 /\ Len(pending) = 0 /\ arrived = 0
    BY DEF Init
  <2> QED
    BY <2>1 DEF Taken
<1>5. InTransit
  BY <1>2, <1>4, RunEmpty DEF InTransit, Init
<1>6. Reading /\ ParsedInOrder /\ Phase
  BY DEF Reading, ParsedInOrder, Phase, Init
<1> QED
  BY <1>3, <1>5, <1>6 DEF BytesInv

\* Nothing is received and nothing is taken.
LEMMA TransitFrame ==
  ASSUME InTransit, UNCHANGED <<stream, arrived, socket, pending>>
  PROVE  InTransit' /\ Taken' = Taken
BY DEF InTransit, Taken, Run

\* A request is begun.
LEMMA ProcessBytes ==
  ASSUME BytesInv, Process
  PROVE  BytesInv'
<1> USE DEF BytesInv
<1>1. PARSER_BLOCK_SIZE \in Nat /\ SCRATCH_SIZE \in Nat /\ Len(stream) \in Nat
  BY HttpRequestAssumption, Numbers
<1>2. TypeOK'
  <2>1. scratch' \in Seq(1..arrived) /\ parsed' \in Seq(1..arrived) /\ Len(scratch') = 0
    BY DEF Process, NewRequest
  <2>2. \A b \in {socket', pending', scratch', parsed'} : b \in Seq(1..arrived')
    BY <2>1 DEF Process, conn, TypeOK
  <2> QED
    <3>1. /\ offset' \in 0..SCRATCH_SIZE /\ at' \in 0..SCRATCH_SIZE
          /\ pre_parsed' \in 0..PARSER_BLOCK_SIZE /\ last_at' \in 0..SCRATCH_SIZE
      BY <1>1 DEF Process, NewRequest
    <3>2. before' \in DOMAIN Grammar
      BY ParserStates DEF Process, NewRequest
    <3>3. remaining_len' \in 0..Len(stream') /\ req_hdrs_count' \in 0..Len(stream')
      BY <1>1 DEF Process, NewRequest, conn
    <3>4. /\ UNCHANGED <<stream, arrived, ended, pending, answers>> /\ paused' = FALSE
          /\ pc' = "read" /\ status' = "IDLE" /\ error' = "none"
      BY DEF Process, NewRequest, conn
    <3>5. Len(scratch') <= SCRATCH_SIZE
      BY <1>1, <2>1
    <3> QED
      BY <2>2, <3>1, <3>2, <3>3, <3>4, <3>5 DEF TypeOK
<1>3. InTransit' /\ Taken' = Taken /\ Taken \in Nat
  BY TransitFrame, Numbers DEF Process, conn
<1>4. Reading'
  <2>1. Len(scratch') = 0 /\ Run(scratch', Taken' - Len(scratch'))
    BY RunEmpty DEF Process, NewRequest
  <2> QED
    BY <1>1, <1>3, <2>1 DEF Reading, Buffered, Process, NewRequest
<1>5. ParsedInOrder' /\ Phase'
  BY DEF ParsedInOrder, Phase, After, Process, NewRequest
<1> QED
  BY <1>2, <1>3, <1>4, <1>5

\* The session is closed, an error sent.
LEMMA RefuseBytes ==
  ASSUME BytesInv, NEW e \in {"400", "408", "414", "431", "500", "url", "upgrade", "handler"},
         Refuse(e)
  PROVE  BytesInv'
<1> USE DEF BytesInv
<1>1. Len(stream) \in Nat /\ Len(parsed) \in Nat
  BY Numbers
<1>2. TypeOK'
  BY <1>1 DEF TypeOK, Refuse, conn, buffer
<1>3. InTransit'
  BY TransitFrame DEF Refuse, conn
<1>4. Reading' /\ ParsedInOrder' /\ Phase'
  BY <1>1 DEF Reading, ParsedInOrder, Phase, Refuse
<1> QED
  BY <1>2, <1>3, <1>4

\* The session is closed without a word.
LEMMA CloseBytes ==
  ASSUME BytesInv, Close
  PROVE  BytesInv'
<1> USE DEF BytesInv
<1>1. TypeOK'
  BY DEF TypeOK, Close, conn, buffer, parser, aux
<1>2. InTransit'
  BY TransitFrame DEF Close, conn
<1>3. Reading' /\ ParsedInOrder' /\ Phase'
  BY DEF Reading, ParsedInOrder, Phase, Close, parser, aux
<1> QED
  BY <1>1, <1>2, <1>3

\* The handler's steps.
LEMMA HandlerBytes ==
  ASSUME BytesInv, httpd_resp_send \/ Send \/ Sent \/ Finish
  PROVE  BytesInv'
<1> USE DEF BytesInv
<1>1. /\ Len(stream) \in Nat /\ Len(parsed) \in Nat
      /\ SCRATCH_SIZE \in Nat
  BY Numbers, HttpRequestAssumption
<1>2. CASE httpd_resp_send
  <2>1. TypeOK'
    BY <1>1, <1>2 DEF TypeOK, httpd_resp_send, HeadersLeft, conn, parser
  <2>2. InTransit'
    BY <1>2, TransitFrame DEF httpd_resp_send, conn
  <2>3. Reading' /\ ParsedInOrder' /\ Phase'
    BY <1>1, <1>2 DEF Reading, ParsedInOrder, Phase, httpd_resp_send, HeadersLeft, parser
  <2> QED
    BY <2>1, <2>2, <2>3
<1>3. CASE Send
  <2>1. TypeOK'
    BY <1>3 DEF TypeOK, Send, conn, buffer, parser
  <2>2. InTransit'
    BY <1>3, TransitFrame DEF Send, conn
  <2>3. Reading' /\ ParsedInOrder' /\ Phase'
    BY <1>3 DEF Reading, ParsedInOrder, Phase, Send, parser
  <2> QED
    BY <2>1, <2>2, <2>3
<1>4. CASE Sent
  <2>1. Request \in Nat
    <3>1. CASE Whole(parsed)
      <4>1. parsed \in Seq(1..arrived) /\ DOMAIN stream = 1..Len(stream) /\ arrived <= Len(stream)
            /\ arrived \in Nat /\ stream \in Seq([of : Nat \ {0}, is : Parts])
        BY Numbers DEF InTransit
      <4>2. 1 \in 1..Len(parsed)
        BY <1>1, <3>1, <4>1 DEF Whole
      <4>3. parsed[1] \in 1..arrived
        BY <4>1, <4>2, ElementOfSeq
      <4>4. parsed[1] \in 1..Len(stream)
        BY <1>1, <4>1, <4>3
      <4>5. stream[parsed[1]] \in [of : Nat \ {0}, is : Parts]
        BY <4>1, <4>4, ElementOfSeq
      <4> QED
        BY <4>5 DEF Request
    <3> QED
      BY <3>1 DEF Request
  <2>2. answers' \in Seq(Nat)
    BY <1>4, <2>1 DEF Sent, TypeOK
  <2>3. TypeOK'
    BY <1>4, <2>2 DEF TypeOK, Sent, conn, buffer, parser, aux
  <2>4. InTransit'
    BY <1>4, TransitFrame DEF Sent, conn
  <2>5. Reading' /\ ParsedInOrder' /\ Phase'
    BY <1>4 DEF Reading, ParsedInOrder, Phase, Sent, parser, aux
  <2> QED
    BY <2>3, <2>4, <2>5
<1>5. CASE Finish
  <2>1. TypeOK'
    BY <1>5 DEF TypeOK, Finish, conn, buffer, parser, aux
  <2>2. InTransit'
    BY <1>5, TransitFrame DEF Finish, conn
  <2>3. Reading' /\ ParsedInOrder' /\ Phase'
    BY <1>5 DEF Reading, ParsedInOrder, Phase, Finish, parser, aux
  <2> QED
    BY <2>1, <2>2, <2>3
<1> QED
  BY <1>2, <1>3, <1>4, <1>5

\* The rest of the body is read.
LEMMA PurgeBytes ==
  ASSUME BytesInv, Purge
  PROVE  BytesInv'
<1> USE DEF BytesInv
<1>1. /\ Len(stream) \in Nat /\ Len(pending) \in Nat /\ Taken \in Nat /\ arrived \in Nat
      /\ Len(socket) \in Nat /\ PURGE_BUF_LEN \in Nat
  BY Numbers, HttpRequestAssumption
<1>2. remaining_len \in Nat /\ remaining_len <= Len(stream)
  BY <1>1 DEF TypeOK
<1>3. PurgeLen \in Nat /\ PurgeLen <= remaining_len
  <2>1. PURGE_BUF_LEN \in Int /\ remaining_len \in Int
    BY <1>1, <1>2
  <2>2. PurgeLen = IF PURGE_BUF_LEN <= remaining_len THEN PURGE_BUF_LEN ELSE remaining_len
    BY <2>1, MinOfTwo DEF PurgeLen
  <2> QED
    BY <1>1, <1>2, <2>2
<1> DEFINE r == Recv(PurgeLen)
<1>4. Read(r, PurgeLen)
  BY <1>3, BodyRead
<1>5. /\ pc = "leftover" /\ pending' = r.pending /\ socket' = r.socket
      /\ remaining_len' = remaining_len - Len(r.data)
      /\ UNCHANGED <<conn, pc, buffer, parser, req_hdrs_count, reply, answers>>
  BY DEF Purge
<1> HIDE DEF r
<1>6. Len(r.data) \in Nat /\ Len(r.data) <= PurgeLen
  BY <1>4 DEF Read
<1>7. remaining_len' \in Nat /\ remaining_len' <= Len(stream)
  BY <1>1, <1>2, <1>3, <1>5, <1>6
<1>8. /\ socket' \in Seq(1..arrived) /\ pending' \in Seq(1..arrived)
      /\ Len(pending') <= Len(pending)
  BY <1>4, <1>5 DEF Read
<1>9. TypeOK'
  <2>1. Len(pending') \in Nat /\ Len(pending') <= PARSER_BLOCK_SIZE
    <3>1. Len(pending) <= PARSER_BLOCK_SIZE /\ PARSER_BLOCK_SIZE \in Nat
      BY HttpRequestAssumption DEF TypeOK
    <3>2. Len(pending') \in Nat
      BY <1>8, LenProperties
    <3> QED
      BY <1>1, <1>8, <3>1, <3>2
  <2> QED
    BY <1>1, <1>5, <1>7, <1>8, <2>1 DEF TypeOK, conn, buffer, parser
<1>10. Taken' = Taken + Len(r.data)
  BY <1>4, <1>5 DEF Read, Taken, conn
<1>11. InTransit'
  <2>1. Taken' \in Nat
    BY <1>1, <1>6, <1>10
  <2>2. Run(socket', arrived' - Len(socket')) /\ Run(pending', Taken')
    BY <1>4, <1>5, <1>10 DEF Read, conn
  <2> QED
    BY <1>5, <2>1, <2>2 DEF InTransit, conn
<1>12. Reading' /\ ParsedInOrder' /\ Phase'
  BY <1>5 DEF Reading, ParsedInOrder, Phase, parser
<1> QED
  BY <1>9, <1>11, <1>12

\* A block is read: the parser goes on where it was.
LEMMA ReadBlockBytes ==
  ASSUME BytesInv, ReadBlock
  PROVE  BytesInv' /\ ParsedUpTo' = ParsedUpTo /\ at' = Held
<1> USE DEF BytesInv
<1> DEFINE r == RecvBlock(BlockLen)
           n == Len(r.data)
<1>1. /\ arrived \in Nat /\ Taken \in Nat /\ Len(pending) \in Nat /\ Len(scratch) \in Nat
      /\ Len(socket) \in Nat /\ Taken + Len(pending) = arrived - Len(socket)
  BY Numbers
<1>2. scratch \in Seq(1..arrived)
  BY Numbers
<1>3. /\ PARSER_BLOCK_SIZE \in Nat /\ SCRATCH_SIZE \in Nat
      /\ PARSER_BLOCK_SIZE <= SCRATCH_SIZE
  BY HttpRequestAssumption
<1>4. /\ offset \in Nat /\ at \in Nat /\ pre_parsed \in Nat /\ paused \in BOOLEAN
      /\ Len(pending) <= PARSER_BLOCK_SIZE
  BY <1>3 DEF TypeOK
<1>5. /\ BlockLen \in Nat /\ offset + BlockLen <= SCRATCH_SIZE
      /\ BlockLen <= PARSER_BLOCK_SIZE
      /\ offset = 0 => BlockLen = PARSER_BLOCK_SIZE
  BY BlockFits
<1>6. Read(r, BlockLen)
  BY <1>5, BlockRead
<1>7. /\ pending # <<>> /\ Len(pending) <= BlockLen => n = Len(pending) /\ r.pending = <<>>
      /\ pending = <<>> => r.pending = <<>>
  BY <1>5, BlockRead
<1>8. /\ pc = "read" /\ n > 0 /\ scratch' = Upto(scratch, offset) \o r.data
      /\ pending' = r.pending /\ socket' = r.socket /\ at' = offset + Skip(n)
      /\ pre_parsed' = pre_parsed - Skip(n) /\ paused' = FALSE /\ pc' = "parse"
      /\ UNCHANGED <<stream, arrived, ended, offset, status, before, last_at, error, parsed,
                     remaining_len, req_hdrs_count, answers>>
  BY DEF ReadBlock, conn, aux
<1> HIDE DEF r
<1>9. /\ r.data \in Seq(1..arrived) /\ n \in Nat /\ n <= BlockLen /\ Run(r.data, Taken)
      /\ r.socket \in Seq(1..arrived) /\ r.pending \in Seq(1..arrived)
      /\ arrived - Len(r.socket) - Len(r.pending) = Taken + n
      /\ Run(r.socket, arrived - Len(r.socket)) /\ Run(r.pending, Taken + n)
  BY <1>6 DEF Read
<1> HIDE DEF n
<1>10. pending # <<>> => offset = 0
  BY <1>8 DEF Reading, Buffered, Repeated
<1>11. pending' = <<>> /\ (pending # <<>> => n = Len(pending))
  BY <1>3, <1>4, <1>5, <1>7, <1>8, <1>10
<1>12. /\ Upto(scratch, offset) \in Seq(1..arrived) /\ Len(Upto(scratch, offset)) = offset
       /\ Run(Upto(scratch, offset), Taken - offset)
       /\ offset <= Taken
  <2>1. CASE offset = 0
    <3>1. Upto(scratch, 0) = <<>>
      BY SubSeqEmpty DEF Upto
    <3>2. Len(Upto(scratch, 0)) = 0 /\ Upto(scratch, 0) \in Seq(1..arrived)
      BY <3>1, EmptySeq
    <3>3. Run(Upto(scratch, 0), Taken - offset)
      BY <3>1, RunEmpty
    <3> QED
      BY <1>1, <2>1, <3>2, <3>3
  <2>2. CASE offset # 0
    <3>1. offset = Len(scratch) /\ Run(scratch, Taken - Len(scratch)) /\ Len(scratch) <= Taken
      BY <1>8, <2>2 DEF Reading, Buffered, Repeated
    <3>2. Upto(scratch, offset) = scratch
      BY <1>2, <3>1, SubSeqFull DEF Upto
    <3> QED
      BY <1>2, <3>1, <3>2
  <2> QED
    BY <2>1, <2>2
<1>13. Taken' = Taken + n
  BY <1>8, <1>9 DEF Taken
<1>14. /\ scratch' \in Seq(1..arrived) /\ Len(scratch') = offset + n
       /\ Run(scratch', Taken' - Len(scratch'))
  <2>1. (Taken - offset) + offset = Taken /\ Taken - offset \in Int
    BY <1>1, <1>4
  <2>2. /\ Upto(scratch, offset) \o r.data \in Seq(1..arrived)
        /\ Len(Upto(scratch, offset) \o r.data) = offset + n
        /\ Run(Upto(scratch, offset) \o r.data, Taken - offset)
    BY <1>9, <1>12, <2>1, RunConcat DEF n
  <2>3. Taken' - (offset + n) = Taken - offset
    BY <1>1, <1>4, <1>9, <1>13
  <2> QED
    BY <1>8, <2>2, <2>3
<1>15. /\ at' \in Nat /\ offset <= at' /\ at' <= Len(scratch') /\ pre_parsed' = 0
       /\ Len(scratch') - at' = n - pre_parsed /\ at' = Held
       /\ status \in {"URL", "BODY"} => last_at <= at'
  <2>1. CASE paused
    <3>1. offset = 0 /\ pre_parsed > 0 /\ pre_parsed <= Len(pending) /\ status = "HDR_FIELD"
      BY <1>8, <2>1 DEF Reading, Repeated
    <3>2. Len(pending) > 0 /\ pending # <<>>
      BY <1>1, <1>4, <3>1
    <3>3. n = Len(pending) /\ pre_parsed <= n
      BY <1>11, <3>1, <3>2
    <3>4. n \in Int /\ pre_parsed \in Int
      BY <1>4, <1>9
    <3>5. Min({n, pre_parsed}) = IF n <= pre_parsed THEN n ELSE pre_parsed
      BY <3>4, MinOfTwo
    <3>6. Skip(n) = pre_parsed
      BY <2>1, <3>3, <3>4, <3>5 DEF Skip
    <3>7. at' = pre_parsed /\ pre_parsed' = 0 /\ Len(scratch') = n
      BY <1>4, <1>8, <1>9, <1>14, <3>1, <3>6
    <3> QED
      BY <1>4, <1>9, <2>1, <3>1, <3>3, <3>7 DEF Held
  <2>2. CASE ~paused
    <3>1. /\ offset = Len(scratch) /\ offset <= at /\ at <= Len(scratch) /\ pre_parsed = 0
          /\ status \in {"URL", "BODY"} => last_at <= at
      BY <1>8, <2>2 DEF Reading, Buffered
    <3>2. Skip(n) = 0
      BY <2>2 DEF Skip
    <3>3. at' = offset /\ at = offset /\ pre_parsed' = 0
      BY <1>1, <1>4, <1>8, <3>1, <3>2
    <3> QED
      BY <1>4, <1>9, <1>14, <2>2, <3>1, <3>3 DEF Held
  <2> QED
    BY <1>4, <2>1, <2>2
<1>16. TypeOK'
  <2>1. Len(pending') = 0
    BY <1>11
  <2>2. Len(scratch') <= SCRATCH_SIZE /\ at' \in 0..SCRATCH_SIZE
    BY <1>3, <1>4, <1>5, <1>9, <1>14, <1>15
  <2>3. \A b \in {socket', pending', scratch', parsed'} : b \in Seq(1..arrived')
    BY <1>8, <1>9, <1>14 DEF TypeOK
  <2>4. pre_parsed' \in 0..PARSER_BLOCK_SIZE /\ Len(pending') <= PARSER_BLOCK_SIZE
    BY <1>3, <1>15, <2>1
  <2> QED
    BY <1>8, <2>2, <2>3, <2>4 DEF TypeOK
<1>17. InTransit'
  <2>1. Taken' \in Nat
    BY <1>1, <1>9, <1>13
  <2>2. Run(socket', arrived' - Len(socket')) /\ Run(pending', Taken')
    BY <1>8, <1>9, <1>13
  <2> QED
    BY <1>8, <2>1, <2>2 DEF InTransit
<1>18. Buffered'
  <2>1. Len(scratch') <= Taken' /\ Len(scratch') - offset' <= PARSER_BLOCK_SIZE
    BY <1>1, <1>3, <1>4, <1>5, <1>8, <1>9, <1>12, <1>13, <1>14
  <2> QED
    BY <1>8, <1>11, <1>14, <1>15, <2>1 DEF Buffered
<1>19. ParsedUpTo' = ParsedUpTo
  <2>1. ParsedUpTo' = (Taken + n) - (n - pre_parsed)
    BY <1>8, <1>13, <1>15 DEF ParsedUpTo
  <2>2. ParsedUpTo = Taken + pre_parsed
    BY <1>8 DEF ParsedUpTo
  <2> QED
    BY <1>1, <1>4, <1>9, <2>1, <2>2
<1>20. Reading' /\ ParsedInOrder' /\ Phase'
  BY <1>8, <1>11, <1>18, <1>19 DEF Reading, ParsedInOrder, Phase, Is
<1> QED
  BY <1>15, <1>16, <1>17, <1>19, <1>20

\* The block is done, and parsing goes on with the next.
LEMMA BlockDoneBytes ==
  ASSUME BytesInv, BlockDone
  PROVE  BytesInv' /\ ParsedUpTo' = ParsedUpTo
<1> USE DEF BytesInv
<1>1. /\ Len(scratch) \in Nat /\ Taken \in Nat /\ at \in Nat /\ PARSER_BLOCK_SIZE \in Nat
      /\ at \in 0..SCRATCH_SIZE
  BY Numbers, HttpRequestAssumption DEF TypeOK
<1>2. /\ pc = "parse" /\ at = Len(scratch) /\ offset' = at /\ pc' = "read"
      /\ UNCHANGED <<stream, arrived, ended, socket, pending, scratch, at, status, before,
                     paused, pre_parsed, last_at, error, parsed, remaining_len,
                     req_hdrs_count, reply, answers>>
  BY DEF BlockDone, conn, parser, aux
<1>3. TypeOK'
  BY <1>1, <1>2 DEF TypeOK
<1>4. InTransit' /\ Taken' = Taken
  BY <1>2, TransitFrame
<1>5. Buffered /\ pending = <<>>
  BY <1>2 DEF Reading
<1>6. Buffered' /\ offset' = Len(scratch') /\ ~paused'
  BY <1>1, <1>2, <1>4, <1>5 DEF Buffered, Run
<1>7. ParsedUpTo' = ParsedUpTo
  BY <1>1, <1>2, <1>4, <1>5 DEF ParsedUpTo, Buffered
<1>8. Reading' /\ ParsedInOrder' /\ Phase'
  BY <1>2, <1>6, <1>7 DEF Reading, ParsedInOrder, Phase, Is
<1> QED
  BY <1>3, <1>4, <1>7, <1>8

\* The byte that is parsed next is the next one.
LEMMA UnitIsNext ==
  ASSUME BytesInv, pc = "parse", at < Len(scratch)
  PROVE  /\ at \in Nat /\ at + 1 <= Len(scratch) /\ unit \in 1..arrived
         /\ unit = ParsedUpTo + 1 /\ ParsedUpTo \in Nat
         /\ Len(scratch) <= SCRATCH_SIZE /\ SCRATCH_SIZE \in Nat
<1>1. /\ Len(scratch) \in Nat /\ Taken \in Nat /\ at \in Nat /\ SCRATCH_SIZE \in Nat
      /\ Len(scratch) <= SCRATCH_SIZE
  BY Numbers, HttpRequestAssumption DEF BytesInv, TypeOK
<1>2. scratch \in Seq(1..arrived)
  BY Numbers DEF BytesInv
<1>3. at + 1 \in 1..Len(scratch)
  BY <1>1
<1>4. Run(scratch, Taken - Len(scratch)) /\ Len(scratch) <= Taken
  BY DEF BytesInv, Reading, Buffered
<1>5. unit = Taken - Len(scratch) + (at + 1)
  BY <1>2, <1>3, <1>4 DEF unit, Run
<1>6. ParsedUpTo = Taken - (Len(scratch) - at)
  BY DEF ParsedUpTo
<1>7. unit = ParsedUpTo + 1 /\ ParsedUpTo \in Nat
  BY <1>1, <1>4, <1>5, <1>6
<1>8. unit \in 1..arrived
  BY <1>2, <1>3, ElementOfSeq DEF unit
<1> QED
  BY <1>1, <1>3, <1>7, <1>8

\* One byte more was parsed.
LEMMA SeenBytes ==
  ASSUME BytesInv, pc = "parse", at < Len(scratch), Seen
  PROVE  /\ parsed' \in Seq(1..arrived) /\ Len(parsed') = Len(parsed) + 1
         /\ Len(parsed) \in Nat /\ parsed' # <<>> /\ Len(parsed') <= arrived
         /\ parsed'[Len(parsed')] = unit
         /\ \A i \in DOMAIN parsed' : parsed'[i] = parsed'[1] + i - 1
         /\ \A i \in 1..Len(parsed) : parsed'[i] = parsed[i]
         /\ Run(parsed', unit - Len(parsed'))
<1>1. /\ unit \in 1..arrived /\ unit = ParsedUpTo + 1 /\ ParsedUpTo \in Nat
      /\ arrived \in Nat
  BY UnitIsNext, Numbers DEF BytesInv
<1>2. /\ parsed \in Seq(1..arrived) /\ Len(parsed) \in Nat
      /\ Run(parsed, ParsedUpTo - Len(parsed))
  BY ParsedRun
<1>3. parsed' = Append(parsed, unit)
  BY DEF Seen
<1>4. ParsedUpTo - Len(parsed) \in Int /\ unit = (ParsedUpTo - Len(parsed)) + Len(parsed) + 1
  BY <1>1, <1>2
<1>5. /\ parsed' \in Seq(1..arrived) /\ Len(parsed') = Len(parsed) + 1
      /\ Run(parsed', ParsedUpTo - Len(parsed))
  BY <1>1, <1>2, <1>3, <1>4, RunAppend
<1>6. \A i \in 1..Len(parsed) : parsed'[i] = parsed[i]
  BY <1>1, <1>2, <1>3, AppendProperties
<1>7. ParsedUpTo - Len(parsed) = (ParsedUpTo + 1) - Len(parsed')
  BY <1>1, <1>2, <1>5
<1>8. parsed' \in Seq(Int)
  <2>1. 1..arrived \subseteq Int
    OBVIOUS
  <2> QED
    BY <1>5, <2>1, SeqMonotonic
<1>9. parsed' # <<>>
  BY <1>2, <1>5
<1>10. /\ \A i \in DOMAIN parsed' : parsed'[i] = parsed'[1] + i - 1
       /\ parsed'[Len(parsed')] = ParsedUpTo + 1
  <2>1. ParsedUpTo + 1 \in Int
    BY <1>1
  <2>2. Run(parsed', (ParsedUpTo + 1) - Len(parsed'))
    BY <1>5, <1>7
  <2> QED
    BY <1>8, <1>9, <2>1, <2>2, RunParsed
<1>11. Len(parsed') <= arrived
  BY <1>1, <1>5, <1>10, ParsedArrived
<1> QED
  BY <1>1, <1>2, <1>5, <1>6, <1>9, <1>10, <1>11

\* A byte was parsed, and parsing goes on behind it.
GoesOn ==
  /\ pc = "parse" /\ at < Len(scratch) /\ Seen /\ at' = at + 1
  /\ UNCHANGED <<stream, arrived, ended, socket, pending, pc, scratch, offset, paused,
                 pre_parsed, error, answers>>
  /\ Is(unit) \in DOMAIN After /\ status' = After[Is(unit)]
  /\ last_at' \in {at, at + 1, last_at}
  /\ status' = "URL" => last_at' = at \/ (status = "URL" /\ last_at' = last_at)
  /\ Is(unit) = "end" => last_at' = IF status = "URL" THEN last_at ELSE at + 1
  /\ Is(unit) = "size" => status = "BODY" /\ last_at' = last_at
  /\ req_hdrs_count' \in {req_hdrs_count, req_hdrs_count + 1}
  /\ remaining_len' \in 0..Len(stream)

\* What the parser may be in.
LEMMA Phases ==
  /\ DOMAIN After = {"none", "method", "url", "field", "value", "end", "size"}
  /\ \A x \in DOMAIN After : After[x] \in {"IDLE", "URL", "HDR_FIELD", "HDR_VALUE", "BODY"}
  /\ After["none"] = "IDLE" /\ After["method"] = "IDLE" /\ After["url"] = "URL"
  /\ After["field"] = "HDR_FIELD" /\ After["value"] = "HDR_VALUE" /\ After["end"] = "BODY"
  /\ After["size"] = "BODY"
  /\ \A x \in DOMAIN After : After[x] = "BODY" => x \in {"end", "size"}
BY DEF After

\* Such a step keeps the bytes in order.
LEMMA GoesOnBytes ==
  ASSUME BytesInv, GoesOn
  PROVE  BytesInv' /\ ParsedUpTo' = unit /\ Taken' = Taken
<1> USE DEF BytesInv
<1>1. /\ at \in Nat /\ at + 1 <= Len(scratch) /\ unit \in 1..arrived
      /\ unit = ParsedUpTo + 1 /\ ParsedUpTo \in Nat
      /\ Len(scratch) <= SCRATCH_SIZE /\ SCRATCH_SIZE \in Nat
  BY UnitIsNext DEF GoesOn
<1>2. /\ Len(scratch) \in Nat /\ Taken \in Nat /\ arrived \in Nat /\ arrived <= Len(stream)
      /\ Len(stream) \in Nat /\ last_at \in 0..SCRATCH_SIZE
      /\ req_hdrs_count \in 0..Len(stream)
  BY Numbers DEF TypeOK
<1>3. /\ parsed' \in Seq(1..arrived) /\ Len(parsed') = Len(parsed) + 1
      /\ Len(parsed) \in Nat /\ parsed' # <<>> /\ Len(parsed') <= arrived
      /\ parsed'[Len(parsed')] = unit
      /\ \A i \in DOMAIN parsed' : parsed'[i] = parsed'[1] + i - 1
  BY SeenBytes DEF GoesOn
<1>4. req_hdrs_count <= Len(parsed)
  BY DEF ParsedInOrder
<1>5. req_hdrs_count' <= Len(parsed') /\ req_hdrs_count' \in Nat
  BY <1>2, <1>3, <1>4 DEF GoesOn
<1>6. TypeOK'
  <2>1. at' \in 0..SCRATCH_SIZE /\ last_at' \in 0..SCRATCH_SIZE
    BY <1>1, <1>2 DEF GoesOn
  <2>2. req_hdrs_count' \in 0..Len(stream')
    BY <1>2, <1>3, <1>5 DEF GoesOn
  <2>3. remaining_len' \in 0..Len(stream') /\ before' \in DOMAIN Grammar
    BY Phases, ParserStates DEF GoesOn, Seen
  <2>4. status' \in {"IDLE", "URL", "HDR_FIELD", "HDR_VALUE", "BODY", "COMPLETE"}
    BY Phases DEF GoesOn
  <2>5. \A b \in {socket', pending', scratch', parsed'} : b \in Seq(1..arrived')
    BY <1>3 DEF GoesOn, TypeOK
  <2> QED
    BY <2>1, <2>2, <2>3, <2>4, <2>5 DEF GoesOn, TypeOK
<1>7. InTransit' /\ Taken' = Taken
  BY TransitFrame DEF GoesOn
<1>8. Buffered /\ pending = <<>>
  BY DEF Reading, GoesOn
<1>9. Buffered'
  <2>1. /\ offset' <= at' /\ at' <= Len(scratch')
        /\ status' \in {"URL", "BODY"} => last_at' <= at'
    <3>1. offset \in Nat
      BY <1>1 DEF TypeOK
    <3>2. offset <= at /\ (status \in {"URL", "BODY"} => last_at <= at)
      BY <1>8 DEF Buffered
    <3>3. status' = "BODY" => Is(unit) \in {"end", "size"}
      BY Phases DEF GoesOn
    <3>4. status' \in {"URL", "BODY"} => last_at' \in {at, at + 1}
                                        \/ (status \in {"URL", "BODY"} /\ last_at' = last_at)
      BY <3>3 DEF GoesOn
    <3>5. last_at \in Nat
      BY <1>2
    <3> QED
      BY <1>1, <3>1, <3>2, <3>4, <3>5 DEF GoesOn
  <2> QED
    BY <1>7, <1>8, <2>1 DEF Buffered, GoesOn, Run
<1>10. ParsedUpTo' = unit
  <2>1. ParsedUpTo' = Taken - (Len(scratch) - (at + 1)) /\ ParsedUpTo = Taken - (Len(scratch) - at)
    BY <1>7 DEF ParsedUpTo, GoesOn
  <2> QED
    BY <1>1, <1>2, <2>1
<1>11. Reading' /\ ParsedInOrder'
  BY <1>3, <1>5, <1>8, <1>9, <1>10 DEF Reading, ParsedInOrder, GoesOn
<1>12. Phase'
  BY <1>3 DEF Phase, GoesOn, Seen, Is
<1> QED
  BY <1>6, <1>7, <1>10, <1>11, <1>12

\* The bytes of a request are finitely many.
LEMMA PartsFinite ==
  ASSUME InTransit
  PROVE  /\ Len(stream) \in Nat /\ DOMAIN stream = 1..Len(stream)
         /\ \A S \in SUBSET DOMAIN stream :
              IsFiniteSet(S) /\ Cardinality(S) \in Nat /\ Cardinality(S) <= Len(stream)
<1>1. Len(stream) \in Nat /\ DOMAIN stream = 1..Len(stream)
  BY LenProperties DEF InTransit
<1>2. 1 \in Int /\ Len(stream) \in Int /\ Len(stream) - 1 + 1 = Len(stream)
  BY <1>1
<1>3. IsFiniteSet(1..Len(stream)) /\ Cardinality(1..Len(stream)) = Len(stream)
  <2>1. /\ IsFiniteSet(1..Len(stream))
        /\ Cardinality(1..Len(stream)) = IF 1 > Len(stream) THEN 0 ELSE Len(stream) - 1 + 1
    BY <1>2, FS_Interval
  <2> QED
    BY <1>1, <1>2, <2>1
<1>4. ASSUME NEW S \in SUBSET DOMAIN stream
      PROVE  IsFiniteSet(S) /\ Cardinality(S) \in Nat /\ Cardinality(S) <= Len(stream)
  BY <1>1, <1>3, FS_Subset, FS_CardinalityType
<1> QED
  BY <1>1, <1>4

\* So are those of its body.
LEMMA BodyLenBound ==
  ASSUME InTransit, NEW r
  PROVE  BodyLen(r) \in 0..Len(stream)
<1> DEFINE S == {p \in DOMAIN stream : stream[p] = [of |-> r, is |-> "body"]}
<1>1. S \in SUBSET DOMAIN stream
  OBVIOUS
<1>2. BodyLen(r) = IF Chunked(r) THEN 0 ELSE Cardinality(S)
  BY DEF BodyLen
<1> HIDE DEF S
<1>3. Cardinality(S) \in Nat /\ Cardinality(S) <= Len(stream) /\ Len(stream) \in Nat
  BY <1>1, PartsFinite
<1> QED
  BY <1>2, <1>3

\* The actions that parse a byte and go on.
LEMMA BytesGoOn ==
  ASSUME BytesInv,
         Method \/ cb_url \/ cb_header_field \/ cb_header_value \/ HeadersBeforeBody \/ ChunkSize
  PROVE  GoesOn
<1> USE DEF BytesInv
<1>1. /\ pc = "parse" /\ at < Len(scratch) /\ Seen /\ at' = at + 1
      /\ Is(unit) \in {"method", "url", "field", "value", "end", "size"}
      /\ UNCHANGED <<stream, arrived, ended, socket, pending, pc, scratch, offset, paused,
                     pre_parsed, error, answers>>
  <2>1. CASE Method
    BY <2>1 DEF Method, Next_, conn, aux
  <2>2. CASE cb_url
    BY <2>2 DEF cb_url, Next_, conn, aux
  <2>3. CASE cb_header_field
    BY <2>3 DEF cb_header_field, Next_, conn
  <2>4. CASE cb_header_value
    BY <2>4 DEF cb_header_value, Next_, conn, aux
  <2>5. CASE HeadersBeforeBody
    BY <2>5 DEF HeadersBeforeBody, cb_headers_complete, Next_, conn
  <2>6. CASE ChunkSize
    BY <2>6 DEF ChunkSize, Next_, conn, aux
  <2> QED
    BY <2>1, <2>2, <2>3, <2>4, <2>5, <2>6
<1>2. before \in DOMAIN After /\ status = After[before]
  BY <1>1 DEF Phase
<1>3. at \in Nat /\ remaining_len \in 0..Len(stream)
  BY UnitIsNext, <1>1 DEF TypeOK
<1>4. /\ Is(unit) \in DOMAIN After /\ status' = After[Is(unit)]
      /\ last_at' \in {at, at + 1, last_at}
      /\ status' = "URL" => last_at' = at \/ (status = "URL" /\ last_at' = last_at)
      /\ Is(unit) = "end" => last_at' = IF status = "URL" THEN last_at ELSE at + 1
      /\ Is(unit) = "size" => status = "BODY" /\ last_at' = last_at
      /\ req_hdrs_count' \in {req_hdrs_count, req_hdrs_count + 1}
      /\ remaining_len' \in 0..Len(stream)
  <2>1. CASE Method
    <3>1. before = "none"
      BY <1>2, <2>1, Phases DEF Method, Fits, Grammar, Next_
    <3> QED
      BY <1>2, <1>3, <2>1, <3>1, Phases DEF Method, Next_, aux
  <2>2. CASE cb_url
    <3>1. before \in {"method", "url"}
      BY <1>2, <2>2, Phases DEF cb_url, Fits, Grammar, Next_
    <3> QED
      BY <1>2, <1>3, <2>2, <3>1, Phases DEF cb_url, Next_, aux
  <2>3. CASE cb_header_field
    BY <1>3, <2>3, Phases DEF cb_header_field, Next_
  <2>4. CASE cb_header_value
    BY <1>3, <2>4, Phases DEF cb_header_value, Next_, aux
  <2>5. CASE HeadersBeforeBody
    <3>1. status = "URL" => last_at' = last_at
      BY <2>5 DEF HeadersBeforeBody, cb_headers_complete, Behind
    <3>2. status # "URL" => last_at' = at + 1
      BY <2>5 DEF HeadersBeforeBody, cb_headers_complete, Behind
    <3>3. remaining_len' \in 0..Len(stream)
      BY <2>5, BodyLenBound DEF HeadersBeforeBody, cb_headers_complete
    <3> QED
      BY <1>3, <2>5, <3>1, <3>2, <3>3, Phases
         DEF HeadersBeforeBody, cb_headers_complete, Next_
  <2>6. CASE ChunkSize
    <3>1. before \in {"end", "size"}
      BY <1>2, <2>6, Phases DEF ChunkSize, Fits, Grammar, Next_
    <3> QED
      BY <1>2, <1>3, <2>6, <3>1, Phases DEF ChunkSize, Next_, aux
  <2> QED
    BY <2>1, <2>2, <2>3, <2>4, <2>5, <2>6
<1> QED
  BY <1>1, <1>4 DEF GoesOn

\* What is behind place i of the buffer is pushed back.
LEMMA PauseBytes ==
  ASSUME BytesInv, pc = "parse", NEW i \in Nat, i <= Len(scratch), pause_parsing(i),
         UNCHANGED <<stream, arrived, socket>>
  PROVE  /\ InTransit' /\ Taken' = Taken - (Len(scratch) - i) /\ paused' = TRUE /\ offset' = 0
         /\ pending' \in Seq(1..arrived) /\ Len(pending') = Len(scratch) - i
         /\ Len(pending') <= PARSER_BLOCK_SIZE
<1> USE DEF BytesInv
<1>1. /\ Len(scratch) \in Nat /\ Taken \in Nat /\ arrived \in Nat /\ Len(socket) \in Nat
      /\ Taken + Len(pending) = arrived - Len(socket) /\ PARSER_BLOCK_SIZE \in Nat
  BY Numbers, HttpRequestAssumption
<1>2. scratch \in Seq(1..arrived)
  BY Numbers
<1>3. Run(scratch, Taken - Len(scratch)) /\ Len(scratch) <= Taken /\ pending = <<>>
  BY DEF Reading, Buffered
<1>4. Len(scratch) - i <= PARSER_BLOCK_SIZE /\ paused' = TRUE /\ offset' = 0
  BY DEF pause_parsing, CanPause
<1>5. i \in 0..Len(scratch) /\ Taken - Len(scratch) \in Int /\ Taken = arrived - Len(socket)
  BY <1>1, <1>3
<1>6. /\ From(scratch, i + 1) \in Seq(1..arrived)
      /\ Len(From(scratch, i + 1)) = Len(scratch) - i
      /\ Run(From(scratch, i + 1), (Taken - Len(scratch)) + i)
  BY <1>2, <1>3, <1>5, RunFrom
<1>7. pending' = From(scratch, i + 1)
  <2>1. CASE i < Len(scratch)
    <3>1. PARSER_BLOCK_SIZE \in Int /\ Len(scratch) - i \in Int
      BY <1>1
    <3>2. Min({PARSER_BLOCK_SIZE, Len(scratch) - i}) = Len(scratch) - i
      <4>1. Min({PARSER_BLOCK_SIZE, Len(scratch) - i})
              = IF PARSER_BLOCK_SIZE <= Len(scratch) - i THEN PARSER_BLOCK_SIZE
                ELSE Len(scratch) - i
        BY <3>1, MinOfTwo
      <4> QED
        BY <1>4, <3>1, <4>1
    <3>3. pending' = Upto(From(scratch, i + 1), Len(scratch) - i)
      BY <2>1, <3>2 DEF pause_parsing, httpd_unrecv
    <3>4. Upto(From(scratch, i + 1), Len(From(scratch, i + 1))) = From(scratch, i + 1)
      BY <1>6, SubSeqFull DEF Upto
    <3> QED
      BY <1>6, <3>3, <3>4
  <2>2. CASE i = Len(scratch)
    <3>1. pending' = <<>>
      BY <1>1, <1>3, <2>2 DEF pause_parsing
    <3>2. Len(From(scratch, i + 1)) = 0
      BY <1>1, <1>6, <2>2
    <3>3. From(scratch, i + 1) = <<>>
      BY <1>6, <3>2, EmptySeq
    <3> QED
      BY <3>1, <3>3
  <2> QED
    BY <1>1, <2>1, <2>2
<1>8. Taken' = Taken - (Len(scratch) - i) /\ Taken' \in Nat
      /\ Taken' = (Taken - Len(scratch)) + i
  <2>1. Taken' = arrived - Len(socket) - Len(pending')
    BY DEF Taken
  <2> QED
    BY <1>1, <1>3, <1>5, <1>6, <1>7, <2>1
<1>9. Run(pending', Taken')
  BY <1>6, <1>7, <1>8
<1>10. InTransit'
  BY <1>8, <1>9 DEF InTransit, Run
<1> QED
  BY <1>4, <1>6, <1>7, <1>8, <1>10

\* The first header is found: its name is pushed back, parsed.
LEMMA FirstHeaderBytes ==
  ASSUME BytesInv, FirstHeader
  PROVE  BytesInv'
<1> USE DEF BytesInv
<1>1. /\ pc = "parse" /\ at < Len(scratch) /\ Is(unit) = "field" /\ pause_parsing(at)
      /\ pre_parsed' = FieldLen /\ status' = "HDR_FIELD" /\ last_at' = 0 /\ pc' = "read"
      /\ parsed' = parsed \o SubSeq(scratch, at + 1, at + FieldLen) /\ before' = "field"
      /\ UNCHANGED <<stream, arrived, ended, socket, scratch, at, error, remaining_len,
                     req_hdrs_count, reply, answers>>
  BY DEF FirstHeader, Next_, PreParsed, conn, aux
<1>2. /\ at \in Nat /\ Len(scratch) \in Nat /\ Taken \in Nat /\ arrived \in Nat
      /\ Len(stream) \in Nat /\ arrived <= Len(stream) /\ PARSER_BLOCK_SIZE \in Nat
      /\ SCRATCH_SIZE \in Nat
  BY <1>1, UnitIsNext, Numbers, HttpRequestAssumption
<1>3. scratch \in Seq(1..arrived)
  BY Numbers
<1>4. /\ FieldLen \in Nat /\ FieldLen >= 1 /\ at + FieldLen <= Len(scratch)
      /\ \A i \in 1..FieldLen : Is(scratch[at + i]) = "field"
  BY <1>1, FieldCounted
<1>5. /\ InTransit' /\ Taken' = Taken - (Len(scratch) - at) /\ paused' = TRUE /\ offset' = 0
      /\ pending' \in Seq(1..arrived) /\ Len(pending') = Len(scratch) - at
      /\ Len(pending') <= PARSER_BLOCK_SIZE
  <2>1. at <= Len(scratch) /\ UNCHANGED <<stream, arrived, socket>>
    BY <1>1, <1>2
  <2> QED
    BY <1>1, <1>2, <2>1, PauseBytes
<1>6. ParsedUpTo = Taken - (Len(scratch) - at)
  BY <1>1 DEF ParsedUpTo
<1>7. Run(scratch, Taken - Len(scratch)) /\ Taken - Len(scratch) \in Int
  BY <1>1, <1>2 DEF Reading, Buffered
<1>8. /\ parsed \in Seq(1..arrived) /\ Len(parsed) \in Nat
      /\ Run(parsed, ParsedUpTo - Len(parsed)) /\ ParsedUpTo \in Int
  BY <1>1, ParsedRun
<1> DEFINE f == SubSeq(scratch, at + 1, at + FieldLen)
<1>9. f \in Seq(1..arrived) /\ Len(f) = FieldLen /\ Run(f, ParsedUpTo)
  <2>1. /\ at + 1 \in Nat /\ at + FieldLen \in Nat /\ at + 1 >= 1
        /\ (at + FieldLen) + 1 >= at + 1 /\ (at + FieldLen) + 1 - (at + 1) = FieldLen
        /\ (Taken - Len(scratch)) + (at + 1) - 1 = ParsedUpTo
    BY <1>2, <1>4, <1>6
  <2>2. /\ f \in Seq(1..arrived) /\ Len(f) = (at + FieldLen) + 1 - (at + 1)
        /\ Run(f, (Taken - Len(scratch)) + (at + 1) - 1)
    BY <1>3, <1>4, <1>7, <2>1, RunPart
  <2> QED
    BY <2>1, <2>2
<1> HIDE DEF f
<1>10. /\ parsed' \in Seq(1..arrived) /\ Len(parsed') = Len(parsed) + FieldLen
       /\ Run(parsed', ParsedUpTo - Len(parsed))
  <2>1. (ParsedUpTo - Len(parsed)) + Len(parsed) = ParsedUpTo /\ ParsedUpTo - Len(parsed) \in Int
    BY <1>8
  <2>2. /\ parsed \o f \in Seq(1..arrived) /\ Len(parsed \o f) = Len(parsed) + Len(f)
        /\ Run(parsed \o f, ParsedUpTo - Len(parsed))
    BY <1>8, <1>9, <2>1, RunConcat
  <2>3. parsed' = parsed \o f
    BY <1>1 DEF f
  <2> QED
    BY <1>9, <2>2, <2>3
<1>11. /\ \A i \in DOMAIN parsed' : parsed'[i] = parsed'[1] + i - 1
       /\ parsed' # <<>> /\ parsed'[Len(parsed')] = ParsedUpTo + FieldLen
  <2>1. parsed' \in Seq(Int)
    <3>1. 1..arrived \subseteq Int
      OBVIOUS
    <3> QED
      BY <1>10, <3>1, SeqMonotonic
  <2>2. ParsedUpTo + FieldLen \in Int
        /\ ParsedUpTo - Len(parsed) = (ParsedUpTo + FieldLen) - Len(parsed')
    BY <1>4, <1>8, <1>10
  <2>3. Run(parsed', (ParsedUpTo + FieldLen) - Len(parsed'))
    BY <1>10, <2>2
  <2>4. parsed' # <<>>
    BY <1>4, <1>8, <1>10
  <2> QED
    BY <2>1, <2>2, <2>3, <2>4, RunParsed
<1>12. ParsedUpTo' = ParsedUpTo + FieldLen
  BY <1>1, <1>5, <1>6 DEF ParsedUpTo
<1>13. TypeOK'
  <2>1. pre_parsed' \in 0..PARSER_BLOCK_SIZE
    BY <1>1, <1>2, <1>4, <1>5
  <2>2. \A b \in {socket', pending', scratch', parsed'} : b \in Seq(1..arrived')
    BY <1>1, <1>5, <1>10 DEF TypeOK
  <2>3. /\ offset' \in 0..SCRATCH_SIZE /\ last_at' \in 0..SCRATCH_SIZE
        /\ before' \in DOMAIN Grammar /\ Len(pending') <= PARSER_BLOCK_SIZE
        /\ paused' \in BOOLEAN
    BY <1>1, <1>2, <1>5, ParserStates
  <2> QED
    BY <1>1, <2>1, <2>2, <2>3 DEF TypeOK
<1>14. Repeated'
  BY <1>1, <1>2, <1>4, <1>5 DEF Repeated
<1>15. Phase'
  <2>1. parsed'[Len(parsed')] = scratch[at + FieldLen]
    <3>1. scratch[at + FieldLen] = (Taken - Len(scratch)) + (at + FieldLen)
      <4>1. at + FieldLen \in DOMAIN scratch
        BY <1>2, <1>3, <1>4
      <4> QED
        BY <1>7, <4>1 DEF Run
    <3> QED
      BY <1>2, <1>4, <1>6, <1>11, <3>1
  <2>2. Is(scratch[at + FieldLen]) = "field"
    BY <1>4
  <2>3. stream'[parsed'[Len(parsed')]].is = "field"
    BY <1>1, <2>1, <2>2 DEF Is
  <2>4. before' \in DOMAIN After /\ status' = After[before'] /\ parsed' # <<>>
    BY <1>1, <1>11, Phases
  <2> QED
    BY <1>1, <2>3, <2>4 DEF Phase, Is
<1>16. ParsedInOrder'
  <2>1. req_hdrs_count \in Nat /\ req_hdrs_count <= Len(parsed)
    BY <1>2 DEF TypeOK, ParsedInOrder
  <2>2. req_hdrs_count' <= Len(parsed')
    BY <1>1, <1>4, <1>8, <1>10, <2>1
  <2> QED
    BY <1>11, <1>12, <2>2 DEF ParsedInOrder
<1>17. Reading'
  BY <1>1, <1>5, <1>14 DEF Reading
<1> QED
  BY <1>5, <1>13, <1>15, <1>16, <1>17

\* A request was read: what is not of its headers is pushed back.
LEMMA CompleteBytes ==
  ASSUME BytesInv, NoBody \/ cb_on_body \/ LastChunk
  PROVE  /\ BytesInv' /\ pc = "parse" /\ at < Len(scratch) /\ pc' = "handler"
         /\ cb_on_body => Taken' = ParsedUpTo
         /\ NoBody /\ status # "URL" => Taken' = unit
         /\ (NoBody /\ status = "URL") \/ LastChunk =>
              Taken' = ParsedUpTo - (at - last_at) /\ last_at <= at /\ last_at \in Nat
<1> USE DEF BytesInv
<1>1. /\ pc = "parse" /\ at < Len(scratch) /\ pc' = "handler" /\ status' = "COMPLETE"
      /\ UNCHANGED <<stream, arrived, ended, socket, scratch, pre_parsed, error, answers>>
      /\ at' \in {at, at + 1}
  BY DEF NoBody, cb_on_body, LastChunk, cb_headers_complete, Next_, conn, aux
<1>2. /\ at \in Nat /\ at + 1 <= Len(scratch) /\ unit = ParsedUpTo + 1 /\ ParsedUpTo \in Nat
      /\ Len(scratch) <= SCRATCH_SIZE /\ SCRATCH_SIZE \in Nat
  BY <1>1, UnitIsNext
<1>3. /\ Len(scratch) \in Nat /\ Taken \in Nat /\ arrived \in Nat /\ Len(stream) \in Nat
      /\ arrived <= Len(stream)
  BY Numbers
<1>4. ParsedUpTo = Taken - (Len(scratch) - at)
  BY <1>1 DEF ParsedUpTo
<1>5. last_at \in Nat /\ (status \in {"URL", "BODY"} => last_at <= at)
  BY <1>1, <1>2 DEF TypeOK, Reading, Buffered
<1>6. ASSUME NEW i \in Nat, i <= Len(scratch), pause_parsing(i)
      PROVE  /\ InTransit' /\ Taken' = ParsedUpTo + (i - at) /\ paused' = TRUE /\ offset' = 0
             /\ pending' \in Seq(1..arrived) /\ Len(pending') <= PARSER_BLOCK_SIZE
  <2>1. UNCHANGED <<stream, arrived, socket>>
    BY <1>1
  <2>2. /\ InTransit' /\ Taken' = Taken - (Len(scratch) - i) /\ paused' = TRUE /\ offset' = 0
        /\ pending' \in Seq(1..arrived) /\ Len(pending') <= PARSER_BLOCK_SIZE
    BY <1>1, <1>6, <2>1, PauseBytes
  <2>3. Taken - (Len(scratch) - i) = ParsedUpTo + (i - at)
    BY <1>2, <1>3, <1>4
  <2> QED
    BY <2>2, <2>3
<1>7. CASE cb_on_body
  <2>1. /\ pause_parsing(at) /\ before' \in {"body", "chunk"} /\ last_at' = 0 /\ at' = at
        /\ UNCHANGED <<parsed, remaining_len, req_hdrs_count>> /\ ~NoBody /\ ~LastChunk
    BY <1>7 DEF cb_on_body, BodyAt, aux, NoBody, LastChunk, cb_headers_complete, Next_
  <2>2. at <= Len(scratch) /\ ParsedUpTo + (at - at) = ParsedUpTo
    BY <1>2, <1>3
  <2>3. /\ InTransit' /\ Taken' = ParsedUpTo /\ paused' = TRUE /\ offset' = 0
        /\ pending' \in Seq(1..arrived) /\ Len(pending') <= PARSER_BLOCK_SIZE
    BY <1>2, <1>6, <2>1, <2>2
  <2>4. TypeOK'
    <3>1. \A b \in {socket', pending', scratch', parsed'} : b \in Seq(1..arrived')
      BY <1>1, <2>1, <2>3 DEF TypeOK
    <3>2. before' \in DOMAIN Grammar /\ last_at' \in 0..SCRATCH_SIZE /\ offset' \in 0..SCRATCH_SIZE
      BY <1>2, <2>1, <2>3, ParserStates
    <3> QED
      BY <1>1, <2>1, <2>3, <3>1, <3>2 DEF TypeOK
  <2>5. Reading' /\ ParsedInOrder' /\ Phase'
    BY <1>1, <2>1 DEF Reading, ParsedInOrder, Phase
  <2> QED
    BY <1>1, <2>1, <2>3, <2>4, <2>5
<1>8. CASE NoBody
  <2>1. /\ pause_parsing(Behind) /\ Seen /\ at' = at + 1 /\ last_at' = 0
        /\ req_hdrs_count' \in {req_hdrs_count, req_hdrs_count + 1}
        /\ remaining_len' = BodyLen(stream[unit].of) /\ Is(unit) = "end" /\ ~cb_on_body
        /\ ~LastChunk
    BY <1>8 DEF NoBody, cb_on_body, LastChunk, cb_headers_complete, Next_
  <2>2. /\ status = "URL" => Behind = last_at
        /\ status # "URL" => Behind = at + 1
    BY DEF Behind
  <2>3. Behind \in Nat /\ Behind <= Len(scratch)
    BY <1>2, <1>3, <1>5, <2>2
  <2>4. /\ InTransit' /\ Taken' = ParsedUpTo + (Behind - at) /\ paused' = TRUE /\ offset' = 0
        /\ pending' \in Seq(1..arrived) /\ Len(pending') <= PARSER_BLOCK_SIZE
    BY <1>6, <2>1, <2>3
  <2>5. /\ status # "URL" => Taken' = unit
        /\ status = "URL" => Taken' = ParsedUpTo - (at - last_at)
    BY <1>2, <1>5, <2>2, <2>4
  <2>6. /\ parsed' \in Seq(1..arrived) /\ Len(parsed') = Len(parsed) + 1
        /\ Len(parsed) \in Nat /\ Len(parsed') <= arrived
        /\ \A i \in DOMAIN parsed' : parsed'[i] = parsed'[1] + i - 1
    BY <1>1, <2>1, SeenBytes
  <2>7. req_hdrs_count' \in Nat /\ req_hdrs_count' <= Len(parsed')
    <3>1. req_hdrs_count \in Nat /\ req_hdrs_count <= Len(parsed)
      BY <1>3 DEF TypeOK, ParsedInOrder
    <3> QED
      BY <2>1, <2>6, <3>1
  <2>8. TypeOK'
    <3>1. \A b \in {socket', pending', scratch', parsed'} : b \in Seq(1..arrived')
      BY <1>1, <2>4, <2>6 DEF TypeOK
    <3>2. before' \in DOMAIN Grammar
      BY <2>1, ParserStates DEF Seen
    <3>3. last_at' \in 0..SCRATCH_SIZE /\ offset' \in 0..SCRATCH_SIZE /\ at' \in 0..SCRATCH_SIZE
      BY <1>2, <1>3, <2>1, <2>3, <2>4
    <3>4. remaining_len' \in 0..Len(stream') /\ req_hdrs_count' \in 0..Len(stream')
      BY <1>1, <1>3, <2>1, <2>6, <2>7, BodyLenBound
    <3> QED
      BY <1>1, <2>4, <3>1, <3>2, <3>3, <3>4 DEF TypeOK
  <2>9. Reading' /\ ParsedInOrder' /\ Phase'
    BY <1>1, <2>6, <2>7 DEF Reading, ParsedInOrder, Phase
  <2> QED
    BY <1>1, <1>5, <2>1, <2>4, <2>5, <2>8, <2>9
<1>9. CASE LastChunk
  <2>1. /\ pause_parsing(last_at) /\ Seen /\ at' = at + 1 /\ last_at' = 0
        /\ UNCHANGED <<remaining_len, req_hdrs_count>> /\ status = "BODY"
        /\ ~cb_on_body /\ ~NoBody
    BY <1>9 DEF NoBody, cb_on_body, LastChunk, cb_headers_complete, Next_, aux
  <2>2. last_at \in Nat /\ last_at <= at /\ last_at <= Len(scratch)
    BY <1>2, <1>3, <1>5, <2>1
  <2>3. /\ InTransit' /\ Taken' = ParsedUpTo + (last_at - at) /\ paused' = TRUE /\ offset' = 0
        /\ pending' \in Seq(1..arrived) /\ Len(pending') <= PARSER_BLOCK_SIZE
    BY <1>6, <2>1, <2>2
  <2>4. Taken' = ParsedUpTo - (at - last_at)
    BY <1>2, <2>2, <2>3
  <2>5. /\ parsed' \in Seq(1..arrived) /\ Len(parsed') = Len(parsed) + 1
        /\ Len(parsed) \in Nat /\ Len(parsed') <= arrived
        /\ \A i \in DOMAIN parsed' : parsed'[i] = parsed'[1] + i - 1
    BY <1>1, <2>1, SeenBytes
  <2>6. req_hdrs_count' \in Nat /\ req_hdrs_count' <= Len(parsed')
    BY <1>3, <2>1, <2>5 DEF TypeOK, ParsedInOrder
  <2>7. TypeOK'
    <3>1. \A b \in {socket', pending', scratch', parsed'} : b \in Seq(1..arrived')
      BY <1>1, <2>3, <2>5 DEF TypeOK
    <3>2. before' \in DOMAIN Grammar
      BY <1>9, ParserStates DEF LastChunk, Next_, Seen
    <3>3. last_at' \in 0..SCRATCH_SIZE /\ offset' \in 0..SCRATCH_SIZE /\ at' \in 0..SCRATCH_SIZE
      BY <1>2, <1>3, <2>1, <2>3
    <3> QED
      BY <1>1, <2>1, <2>3, <3>1, <3>2, <3>3 DEF TypeOK
  <2>8. Reading' /\ ParsedInOrder' /\ Phase'
    BY <1>1, <2>5, <2>6 DEF Reading, ParsedInOrder, Phase
  <2> QED
    BY <1>1, <2>1, <2>2, <2>3, <2>4, <2>7, <2>8
<1> QED
  BY <1>7, <1>8, <1>9

\* A byte arrives.
LEMMA ArriveBytes ==
  ASSUME BytesInv, Arrive
  PROVE  BytesInv' /\ Taken' = Taken /\ ParsedUpTo' = ParsedUpTo
<1> USE DEF BytesInv
<1>1. /\ arrived \in Nat /\ Taken \in Nat /\ Len(pending) \in Nat /\ Len(socket) \in Nat
      /\ Len(stream) \in Nat
  BY Numbers
<1>2. /\ arrived < Len(stream) /\ arrived' = arrived + 1
      /\ socket' = Append(socket, arrived + 1)
      /\ UNCHANGED <<stream, ended, pending, pc, scratch, offset, at, status, before, paused,
                     pre_parsed, last_at, error, parsed, remaining_len, req_hdrs_count,
                     reply, answers>>
  BY DEF Arrive, buffer, parser, aux
<1>3. 1..arrived \subseteq 1..arrived' /\ arrived' \in 1..arrived'
  BY <1>1, <1>2
<1>4. \A b \in {socket, pending, scratch, parsed} : b \in Seq(1..arrived')
  <2>1. \A b \in {socket, pending, scratch, parsed} : b \in Seq(1..arrived)
    BY DEF TypeOK
  <2> QED
    BY <1>3, <2>1, SeqMonotonic
<1>5. /\ socket' \in Seq(1..arrived') /\ Len(socket') = Len(socket) + 1
      /\ Run(socket', arrived - Len(socket))
  <2>1. socket \in Seq(1..arrived') /\ Run(socket, arrived - Len(socket))
    BY <1>4 DEF InTransit
  <2>2. /\ arrived - Len(socket) \in Int
        /\ arrived' = (arrived - Len(socket)) + Len(socket) + 1
    BY <1>1, <1>2
  <2>3. socket' = Append(socket, arrived')
    BY <1>2
  <2> QED
    BY <1>3, <2>1, <2>2, <2>3, RunAppend
<1>6. arrived' - Len(socket') = arrived - Len(socket)
  BY <1>1, <1>2, <1>5
<1>7. Taken' = Taken
  BY <1>2, <1>6 DEF Taken
<1>8. InTransit'
  BY <1>1, <1>2, <1>5, <1>6, <1>7 DEF InTransit, Run
<1>9. TypeOK'
  <2>1. \A b \in {socket', pending', scratch', parsed'} : b \in Seq(1..arrived')
    BY <1>2, <1>4, <1>5
  <2>2. arrived' \in 0..Len(stream')
    BY <1>1, <1>2
  <2> QED
    BY <1>2, <2>1, <2>2 DEF TypeOK
<1>10. ParsedUpTo' = ParsedUpTo
  BY <1>2, <1>7 DEF ParsedUpTo
<1>11. Reading' /\ ParsedInOrder' /\ Phase'
  <2>1. Buffered => Buffered'
    BY <1>2, <1>7 DEF Buffered, Run
  <2>2. Repeated => Repeated'
    BY <1>2 DEF Repeated
  <2>3. Reading'
    BY <1>2, <2>1, <2>2 DEF Reading
  <2> QED
    BY <1>2, <1>10, <2>3 DEF ParsedInOrder, Phase, Is
<1> QED
  BY <1>7, <1>8, <1>9, <1>10, <1>11

\* The client ends its side, or nothing happens.
LEMMA StillBytes ==
  ASSUME BytesInv, Leave \/ UNCHANGED vars
  PROVE  BytesInv'
<1> USE DEF BytesInv
<1>1. /\ ended' \in BOOLEAN
      /\ UNCHANGED <<stream, arrived, socket, pending, pc, scratch, offset, at, status, before,
                     paused, pre_parsed, last_at, error, parsed, remaining_len,
                     req_hdrs_count, reply, answers>>
  BY DEF Leave, vars, conn, buffer, parser, aux, TypeOK
<1>2. TypeOK'
  BY <1>1 DEF TypeOK
<1>3. InTransit' /\ Taken' = Taken
  BY <1>1, TransitFrame
<1>4. ParsedUpTo' = ParsedUpTo /\ Buffered' = Buffered /\ Repeated' = Repeated
  BY <1>1, <1>3 DEF ParsedUpTo, Buffered, Repeated, Run
<1>5. Reading' /\ ParsedInOrder' /\ Phase'
  BY <1>1, <1>4 DEF Reading, ParsedInOrder, Phase, Is
<1> QED
  BY <1>2, <1>3, <1>5

\* The actions that end in closing the session.
Closing ==
  Close \/ \E e \in {"400", "408", "414", "431", "500", "url", "upgrade", "handler"} : Refuse(e)

\* They are these.
LEMMA Closings ==
  ASSUME TooLong \/ EndOfStream \/ Timeout \/ Misread \/ LongTarget \/ BadUrl \/ PauseFails
         \/ Upgrade \/ LastFails \/ NoAnswer \/ SendFails \/ PurgeFails \/ RecvFails
  PROVE  Closing
BY DEF TooLong, EndOfStream, Timeout, Misread, LongTarget, BadUrl, PauseFails, Upgrade,
       LastFails, NoAnswer, SendFails, PurgeFails, RecvFails, Closing

\* Every step keeps the bytes in order.
LEMMA BytesStep ==
  ASSUME BytesInv, [Next]_vars
  PROVE  BytesInv'
<1>1. CASE Process
  BY <1>1, ProcessBytes
<1>2. CASE ReadBlock
  BY <1>2, ReadBlockBytes
<1>3. CASE Closing
  BY <1>3, RefuseBytes, CloseBytes DEF Closing
<1>4. CASE BlockDone
  BY <1>4, BlockDoneBytes
<1>5. CASE Method \/ cb_url \/ cb_header_field \/ cb_header_value \/ HeadersBeforeBody
           \/ ChunkSize
  BY <1>5, BytesGoOn, GoesOnBytes
<1>6. CASE FirstHeader
  BY <1>6, FirstHeaderBytes
<1>7. CASE NoBody \/ cb_on_body \/ LastChunk
  BY <1>7, CompleteBytes
<1>8. CASE httpd_resp_send \/ Send \/ Sent \/ Finish
  BY <1>8, HandlerBytes
<1>9. CASE Purge
  BY <1>9, PurgeBytes
<1>10. CASE Arrive
  BY <1>10, ArriveBytes
<1>11. CASE Leave \/ UNCHANGED vars
  BY <1>11, StillBytes
<1> QED
  BY <1>1, <1>2, <1>3, <1>4, <1>5, <1>6, <1>7, <1>8, <1>9, <1>10, <1>11, Closings
     DEF Next, Server, Parser, Readable, OtherReadable

\* Every variable has its type and no buffer holds more than its size, whatever
\* bytes the client sends and wherever blocks end: what is pushed back has room,
\* and nothing is read while there is none.
THEOREM TypeCorrect == Spec => []TypeOK
<1>1. Init => BytesInv
  BY BytesInit
<1>2. BytesInv /\ [Next]_vars => BytesInv'
  BY BytesStep
<1>3. BytesInv => TypeOK
  BY DEF BytesInv
<1> QED
  BY <1>1, <1>2, <1>3, PTL DEF Spec

\* No byte is lost, read twice or out of its order on its way from the client to the
\* parser's buffer, whatever is read, pushed back (httpd_unrecv) and read again:
\* those that are pending and those that the socket holds go on where the server is.
THEOREM NoByteLost == Spec => []InTransit
<1>1. Init => BytesInv
  BY BytesInit
<1>2. BytesInv /\ [Next]_vars => BytesInv'
  BY BytesStep
<1>3. BytesInv => InTransit
  BY DEF BytesInv
<1> QED
  BY <1>1, <1>2, <1>3, PTL DEF Spec

-----------------------------------------------------------------------------
(* The headers of the request.                                             *)

\* Two runs from the same byte: the shorter is the longer one's beginning.
LEMMA RunPrefix ==
  ASSUME NEW S, NEW q \in Seq(S), NEW s \in Seq(S), NEW a \in Int,
         Run(q, a), Run(s, a), Len(q) <= Len(s)
  PROVE  IsPrefix(q, s)
<1>1. Len(q) \in Nat /\ Len(s) \in Nat
  OBVIOUS
<1>2. Len(q) \in 0..Len(q) /\ Len(q) \in 0..Len(s)
  BY <1>1
<1>3. /\ Upto(q, Len(q)) \in Seq(S) /\ Len(Upto(q, Len(q))) = Len(q)
      /\ Run(Upto(q, Len(q)), a)
  BY <1>2, RunUpto
<1>4. /\ Upto(s, Len(q)) \in Seq(S) /\ Len(Upto(s, Len(q))) = Len(q)
      /\ Run(Upto(s, Len(q)), a)
  BY <1>2, RunUpto
<1>5. \A i \in 1..Len(q) : Upto(q, Len(q))[i] = a + i /\ Upto(s, Len(q))[i] = a + i
  BY <1>3, <1>4 DEF Run
<1>6. Upto(q, Len(q)) = Upto(s, Len(q))
  BY <1>3, <1>4, <1>5, SeqEqual
<1> QED
  BY <1>6 DEF IsPrefix, Upto

\* The headers' first bytes are finitely many.
LEMMA FirstBytesFinite ==
  ASSUME BytesInv
  PROVE  /\ parsed \in Seq(1..arrived) /\ DOMAIN parsed = 1..Len(parsed) /\ Len(parsed) \in Nat
         /\ FirstBytes \in SUBSET (1..Len(parsed)) /\ IsFiniteSet(FirstBytes)
<1>1. parsed \in Seq(1..arrived) /\ DOMAIN parsed = 1..Len(parsed) /\ Len(parsed) \in Nat
  BY Numbers, LenProperties DEF BytesInv
<1>2. FirstBytes \in SUBSET (1..Len(parsed))
  BY <1>1 DEF FirstBytes
<1>3. 1 \in Int /\ Len(parsed) \in Int
  BY <1>1
<1>4. IsFiniteSet(1..Len(parsed))
  BY <1>3, FS_Interval
<1>5. IsFiniteSet(FirstBytes)
  BY <1>2, <1>4, FS_Subset
<1> QED
  BY <1>1, <1>2, <1>5

\* One byte more begins a header, or not; what the target is stays.
LEMMA SeenHeaders ==
  ASSUME BytesInv, pc = "parse", at < Len(scratch), Seen, UNCHANGED stream
  PROVE  /\ IF Is(unit) = "field" /\ before # "field"
            THEN FirstBytes' = FirstBytes \cup {Len(parsed) + 1} /\ Len(parsed) + 1 \notin FirstBytes
            ELSE FirstBytes' = FirstBytes
         /\ Is(unit) \notin {"method", "url"} =>
              \A k \in Int : k <= Len(parsed) /\ Targets(k) => Targets(k)'
         /\ Is(unit) \in {"method", "url"} /\ Targets(Len(parsed)) => Targets(Len(parsed))'
<1>1. /\ parsed' \in Seq(1..arrived) /\ Len(parsed') = Len(parsed) + 1
      /\ Len(parsed) \in Nat /\ parsed'[Len(parsed')] = unit
      /\ \A i \in 1..Len(parsed) : parsed'[i] = parsed[i]
  BY SeenBytes
<1>2. DOMAIN parsed = 1..Len(parsed) /\ FirstBytes \in SUBSET (1..Len(parsed))
  BY FirstBytesFinite
<1>3. DOMAIN parsed' = 1..(Len(parsed) + 1)
  BY <1>1, LenProperties
<1> DEFINE n == Len(parsed)
           part(i) == stream[parsed[i]].is
           part1(i) == stream[parsed'[i]].is
<1>4. n \in Nat /\ n + 1 \notin 1..n
  BY <1>1
<1>5. \A i \in 1..n : part1(i) = part(i)
  BY <1>1
<1>6. part1(n + 1) = Is(unit)
  BY <1>1 DEF Is
<1>7. n > 0 => before = part(n)
  BY <1>1 DEF BytesInv, Phase, Is
<1>8. FirstBytes = {i \in 1..n : part(i) = "field" /\ (i = 1 \/ part(i - 1) # "field")}
  BY <1>2 DEF FirstBytes, Is
<1>9. FirstBytes' = {i \in 1..(n + 1) : part1(i) = "field" /\ (i = 1 \/ part1(i - 1) # "field")}
  BY <1>3 DEF FirstBytes, Is
<1>10. \A k : Targets(k) <=> \A i \in 1..n : part(i) \in {"method", "url"} <=> i <= k
  BY <1>2 DEF Targets, Is
<1>11. \A k : Targets(k)' <=> \A i \in 1..(n + 1) : part1(i) \in {"method", "url"} <=> i <= k
  BY <1>3 DEF Targets, Is
<1>12. n = 0 => before = "none"
  BY <1>1 DEF BytesInv, Phase
<1> HIDE DEF n, part, part1
<1>13. \A i \in 1..n : (part1(i) = "field" /\ (i = 1 \/ part1(i - 1) # "field"))
                        <=> (part(i) = "field" /\ (i = 1 \/ part(i - 1) # "field"))
  <2> SUFFICES ASSUME NEW i \in 1..n
               PROVE  part1(i) = part(i) /\ (i # 1 => part1(i - 1) = part(i - 1))
    OBVIOUS
  <2>1. i # 1 => i - 1 \in 1..n
    BY <1>4
  <2> QED
    BY <1>5, <2>1
<1>14. \A i \in 1..(n + 1) : i \in 1..n \/ i = n + 1
  BY <1>4
<1>15. (part1(n + 1) = "field" /\ (n + 1 = 1 \/ part1(n + 1 - 1) # "field"))
         <=> (Is(unit) = "field" /\ before # "field")
  <2>1. CASE n = 0
    BY <1>6, <1>12, <2>1
  <2>2. CASE n > 0
    <3>1. n + 1 # 1 /\ n + 1 - 1 = n /\ n \in 1..n
      BY <1>4, <2>2
    <3> QED
      BY <1>5, <1>6, <1>7, <2>2, <3>1
  <2> QED
    BY <1>4, <2>1, <2>2
<1>16. 1..n \subseteq 1..(n + 1) /\ n + 1 \in 1..(n + 1)
  BY <1>4
<1>17. IF Is(unit) = "field" /\ before # "field"
       THEN FirstBytes' = FirstBytes \cup {n + 1} /\ n + 1 \notin FirstBytes
       ELSE FirstBytes' = FirstBytes
  BY <1>4, <1>8, <1>9, <1>13, <1>14, <1>15, <1>16
<1>18. ASSUME Is(unit) \notin {"method", "url"}, NEW k \in Int, k <= n, Targets(k)
       PROVE  Targets(k)'
  <2>1. ~(n + 1 <= k)
    BY <1>4, <1>18
  <2> QED
    BY <1>5, <1>6, <1>10, <1>11, <1>14, <1>18, <2>1
<1>19. ASSUME Is(unit) \in {"method", "url"}, Targets(n), NEW k \in Int, k = n + 1
       PROVE  Targets(k)'
  <2>1. \A i \in 1..(n + 1) : i <= n + 1
    BY <1>4
  <2>2. \A i \in 1..n : part(i) \in {"method", "url"}
    <3>1. \A i \in 1..n : i <= n
      BY <1>4
    <3> QED
      BY <1>10, <1>19, <3>1
  <2>3. \A i \in 1..(n + 1) : part1(i) \in {"method", "url"}
    BY <1>5, <1>6, <1>14, <1>19, <2>2
  <2> QED
    BY <1>11, <1>19, <2>1, <2>3
<1>20. Is(unit) \in {"method", "url"} /\ Targets(Len(parsed)) => Targets(Len(parsed))'
  <2> SUFFICES ASSUME Is(unit) \in {"method", "url"}, Targets(Len(parsed))
               PROVE  Targets(Len(parsed))'
    OBVIOUS
  <2>1. PICK k \in Int : k = n + 1
    BY <1>4
  <2>2. Targets(k)'
    BY <1>19, <2>1 DEF n
  <2>3. k = Len(parsed')
    BY <1>1, <2>1 DEF n
  <2> QED
    BY <2>2, <2>3 DEF Targets
<1>21. ASSUME NEW k \in Int, Is(unit) \notin {"method", "url"}, k <= Len(parsed), Targets(k)
       PROVE  Targets(k)'
  BY <1>18, <1>21 DEF n
<1> QED
  BY <1>17, <1>20, <1>21 DEF n

-----------------------------------------------------------------------------
(* HeadersInv is inductive.                                                *)

\* Nothing is parsed, and the buffer's part is the same.
LEMMA HeadersFrame ==
  ASSUME BytesInv, HeadersInv, pc \in {"read", "parse"}, Held' = Held,
         UNCHANGED <<stream, parsed, status, req_hdrs_count>>,
         status = "HDR_FIELD" \/ at' = at
  PROVE  Composed' /\ Counted'
<1>1. FirstBytes' = FirstBytes
  BY DEF FirstBytes, Is
<1>2. \A k : Targets(k)' <=> Targets(k)
  BY DEF Targets, Is
<1>3. Composed /\ Counted
  BY DEF HeadersInv
<1>4. Counted'
  BY <1>1, <1>3 DEF Counted, InHeaders
<1>5. CASE status = "HDR_FIELD"
  <2>1. Held <= Len(parsed) /\ Targets(Len(parsed) - Held)
    BY <1>3, <1>5 DEF Composed
  <2>2. Held' <= Len(parsed)' /\ Targets(Len(parsed) - Held)'
    BY <2>1 DEF Targets, Is
  <2> QED
    BY <1>4, <1>5, <2>2 DEF Composed
<1>6. CASE at' = at
  <2>1. NoHeader => NoHeader'
    BY <1>1, <1>6 DEF NoHeader
  <2>2. Targets(Len(parsed)) => Targets(Len(parsed))'
    BY DEF Targets, Is
  <2>3. Targets(Len(parsed) - Held) => Targets(Len(parsed) - Held)'
    BY DEF Targets, Is
  <2> QED
    BY <1>3, <1>4, <2>1, <2>2, <2>3 DEF Composed
<1> QED
  BY <1>5, <1>6

\* A request is begun: nothing was parsed.
LEMMA ProcessHeaders ==
  ASSUME BytesInv, Process
  PROVE  HeadersInv'
<1>1. /\ pc' = "read" /\ parsed' = <<>> /\ at' = 0 /\ paused' = FALSE /\ status' = "IDLE"
      /\ req_hdrs_count' = 0
  BY DEF Process, NewRequest
<1>2. DOMAIN parsed' = {} /\ Len(parsed') = 0
  BY <1>1
<1>3. FirstBytes' = {} /\ Cardinality(FirstBytes') = 0
  BY <1>2, FS_EmptySet DEF FirstBytes
<1>4. Targets(Len(parsed))'
  BY <1>2 DEF Targets
<1>5. Composed' /\ Counted'
  BY <1>1, <1>2, <1>3, <1>4 DEF Composed, NoHeader, Counted, InHeaders
<1> QED
  BY <1>1, <1>5 DEF HeadersInv

\* A byte is parsed, and parsing goes on behind it.
LEMMA GoesOnHeaders ==
  ASSUME BytesInv, HeadersInv,
         Method \/ cb_url \/ cb_header_field \/ cb_header_value \/ HeadersBeforeBody \/ ChunkSize
  PROVE  HeadersInv'
<1> USE DEF BytesInv
<1>1. GoesOn
  BY BytesGoOn
<1>2. /\ pc = "parse" /\ at < Len(scratch) /\ Seen /\ at' = at + 1
      /\ UNCHANGED <<stream, pc, paused, pre_parsed>>
      /\ Is(unit) \in DOMAIN After /\ status' = After[Is(unit)]
  BY <1>1 DEF GoesOn
<1>3. /\ Len(parsed') = Len(parsed) + 1 /\ Len(parsed) \in Nat /\ at \in Nat
      /\ FirstBytes \in SUBSET (1..Len(parsed)) /\ IsFiniteSet(FirstBytes)
  BY <1>2, SeenBytes, UnitIsNext, FirstBytesFinite
<1>4. /\ IF Is(unit) = "field" /\ before # "field"
         THEN FirstBytes' = FirstBytes \cup {Len(parsed) + 1} /\ Len(parsed) + 1 \notin FirstBytes
         ELSE FirstBytes' = FirstBytes
      /\ Is(unit) \notin {"method", "url"} =>
           \A k \in Int : k <= Len(parsed) /\ Targets(k) => Targets(k)'
      /\ Is(unit) \in {"method", "url"} /\ Targets(Len(parsed)) => Targets(Len(parsed))'
  BY <1>2, SeenHeaders
<1>5. ~paused /\ Held = at /\ Held' = at + 1
  BY <1>2 DEF Held, Reading, Buffered
<1>6. Composed /\ Counted
  BY <1>2 DEF HeadersInv
<1>7. before \in DOMAIN After /\ status = After[before]
  BY <1>2 DEF Phase
<1>8. Fits
  BY DEF Method, cb_url, cb_header_field, cb_header_value, HeadersBeforeBody,
         ChunkSize, cb_headers_complete
<1>9. Len(parsed') - Held' = Len(parsed) - Held
  BY <1>3, <1>5
<1>10. ASSUME Held <= Len(parsed), Targets(Len(parsed) - Held), Is(unit) \notin {"method", "url"}
       PROVE  Held' <= Len(parsed') /\ Targets(Len(parsed) - Held)'
  <2>1. PICK k \in Int : k = Len(parsed) - Held
    BY <1>3, <1>5
  <2>2. k <= Len(parsed) /\ Held' <= Len(parsed')
    BY <1>3, <1>5, <1>10, <2>1
  <2>3. Targets(k)'
    BY <1>4, <1>10, <2>1, <2>2
  <2>4. k = Len(parsed') - Held'
    BY <1>9, <2>1
  <2> QED
    BY <2>2, <2>3, <2>4 DEF Targets
<1>11. req_hdrs_count \in Nat
  <2>1. Len(stream) \in Nat
    BY Numbers
  <2> QED
    BY <2>1 DEF TypeOK
<1>12. CASE Is(unit) \in {"method", "url"}
  <2>1. before \in {"none", "method", "url"}
    BY <1>7, <1>8, <1>12, Phases DEF Fits, Grammar
  <2>2. status \in {"IDLE", "URL"} /\ status' \in {"IDLE", "URL"}
    BY <1>2, <1>7, <1>12, <2>1, Phases
  <2>3. NoHeader /\ Targets(Len(parsed)) /\ Cardinality(FirstBytes) = req_hdrs_count
    BY <1>6, <1>11, <2>2 DEF Composed, Counted, InHeaders
  <2>4. req_hdrs_count' = req_hdrs_count
    BY <1>12 DEF Method, cb_url, cb_header_field, cb_header_value, HeadersBeforeBody,
                 ChunkSize, cb_headers_complete, Next_, aux
  <2>5. FirstBytes' = FirstBytes /\ Targets(Len(parsed))'
    BY <1>4, <1>12, <2>3
  <2>6. NoHeader'
    BY <1>2, <1>3, <2>3, <2>4, <2>5 DEF NoHeader
  <2> QED
    BY <1>2, <2>2, <2>3, <2>4, <2>5, <2>6 DEF HeadersInv, Composed, Counted, InHeaders
<1>13. CASE Is(unit) = "field"
  <2>1. cb_header_field
    BY <1>13 DEF Method, cb_url, cb_header_field, cb_header_value, HeadersBeforeBody,
                 ChunkSize, cb_headers_complete, Next_
  <2>2. /\ status \in {"HDR_FIELD", "HDR_VALUE"} /\ status' = "HDR_FIELD"
        /\ req_hdrs_count' = IF status = "HDR_VALUE" THEN req_hdrs_count + 1 ELSE req_hdrs_count
    BY <2>1 DEF cb_header_field
  <2>3. Held <= Len(parsed) /\ Targets(Len(parsed) - Held)
    BY <1>6, <2>2 DEF Composed
  <2>4. Held' <= Len(parsed') /\ Targets(Len(parsed) - Held)'
    BY <1>10, <1>13, <2>3
  <2>5. status = "HDR_FIELD" <=> before = "field"
    BY <1>7, <2>2, Phases
  <2>6. Cardinality(FirstBytes) = req_hdrs_count + 1
    BY <1>6, <2>2 DEF Counted, InHeaders
  <2>7. Cardinality(FirstBytes') = req_hdrs_count' + 1
    <3>1. CASE before = "field"
      BY <1>4, <2>2, <2>5, <2>6, <3>1
    <3>2. CASE before # "field"
      <4>1. FirstBytes' = FirstBytes \cup {Len(parsed) + 1} /\ Len(parsed) + 1 \notin FirstBytes
        BY <1>4, <1>13, <3>2
      <4>2. Cardinality(FirstBytes') = Cardinality(FirstBytes) + 1
        BY <1>3, <4>1, FS_AddElement
      <4> QED
        BY <2>2, <2>5, <2>6, <3>2, <4>2
    <3> QED
      BY <3>1, <3>2
  <2> QED
    BY <1>2, <2>2, <2>4, <2>7 DEF HeadersInv, Composed, Counted, InHeaders
<1>14. CASE Is(unit) = "value"
  <2>1. cb_header_value
    BY <1>14 DEF Method, cb_url, cb_header_field, cb_header_value, HeadersBeforeBody,
                 ChunkSize, cb_headers_complete, Next_
  <2>2. before \in {"field", "value"} /\ status \in {"HDR_FIELD", "HDR_VALUE"}
    BY <1>7, <1>8, <1>14, Phases DEF Fits, Grammar
  <2>3. status' = "HDR_VALUE" /\ req_hdrs_count' = req_hdrs_count
    BY <2>1 DEF cb_header_value, aux
  <2>4. Held <= Len(parsed) /\ Targets(Len(parsed) - Held)
    BY <1>6, <2>2 DEF Composed
  <2>5. Held' <= Len(parsed') /\ Targets(Len(parsed) - Held)'
    BY <1>10, <1>14, <2>4
  <2>6. FirstBytes' = FirstBytes
    BY <1>4, <1>14
  <2> QED
    BY <1>2, <1>6, <2>2, <2>3, <2>5, <2>6 DEF HeadersInv, Composed, Counted, InHeaders
<1>15. CASE Is(unit) = "end"
  <2>1. HeadersBeforeBody
    BY <1>15 DEF Method, cb_url, cb_header_field, cb_header_value, HeadersBeforeBody,
                 ChunkSize, cb_headers_complete, Next_
  <2>2. before \in {"url", "value"} /\ status \in {"URL", "HDR_VALUE"}
    BY <1>7, <1>8, <1>15, Phases DEF Fits, Grammar
  <2>3. /\ status' = "BODY"
        /\ req_hdrs_count' = IF status = "HDR_VALUE" THEN req_hdrs_count + 1 ELSE req_hdrs_count
    BY <2>1 DEF HeadersBeforeBody, cb_headers_complete
  <2>4. FirstBytes' = FirstBytes
    BY <1>4, <1>15
  <2>5. Cardinality(FirstBytes') = req_hdrs_count'
    BY <1>6, <1>11, <2>2, <2>3, <2>4 DEF Counted, InHeaders
  <2>6. CASE status = "URL"
    <3>1. NoHeader'
      BY <1>2, <1>3, <1>6, <2>3, <2>4, <2>6 DEF Composed, NoHeader
    <3> QED
      BY <1>2, <1>11, <2>3, <2>5, <2>6, <3>1 DEF HeadersInv, Composed, Counted, InHeaders
  <2>7. CASE status = "HDR_VALUE"
    <3>1. Held <= Len(parsed) /\ Targets(Len(parsed) - Held)
      BY <1>6, <2>7 DEF Composed
    <3>2. Held' <= Len(parsed') /\ Targets(Len(parsed) - Held)'
      BY <1>10, <1>15, <3>1
    <3> QED
      BY <1>2, <1>11, <2>3, <2>5, <2>7, <3>2 DEF HeadersInv, Composed, Counted, InHeaders
  <2> QED
    BY <2>2, <2>6, <2>7
<1>16. CASE Is(unit) = "size"
  <2>1. ChunkSize
    BY <1>16 DEF Method, cb_url, cb_header_field, cb_header_value, HeadersBeforeBody,
                 ChunkSize, cb_headers_complete, Next_
  <2>2. before \in {"end", "size"} /\ status = "BODY" /\ status' = "BODY"
    BY <1>2, <1>7, <1>8, <1>16, Phases DEF Fits, Grammar
  <2>3. req_hdrs_count' = req_hdrs_count /\ FirstBytes' = FirstBytes
    BY <1>4, <1>16, <2>1 DEF ChunkSize, aux
  <2>4. Counted'
    BY <1>6, <2>2, <2>3 DEF Counted, InHeaders
  <2>5. CASE NoHeader
    <3>1. NoHeader'
      BY <1>2, <1>3, <2>3, <2>5 DEF NoHeader
    <3> QED
      BY <1>2, <2>2, <2>4, <3>1 DEF HeadersInv, Composed
  <2>6. CASE Held <= Len(parsed) /\ Targets(Len(parsed) - Held)
    <3>1. Held' <= Len(parsed') /\ Targets(Len(parsed) - Held)'
      BY <1>10, <1>16, <2>6
    <3> QED
      BY <1>2, <2>2, <2>4, <3>1 DEF HeadersInv, Composed
  <2> QED
    BY <1>6, <2>2, <2>5, <2>6 DEF Composed
<1>17. Is(unit) \in {"method", "url", "field", "value", "end", "size"}
  BY DEF Method, cb_url, cb_header_field, cb_header_value, HeadersBeforeBody,
         ChunkSize, cb_headers_complete, Next_
<1> QED
  BY <1>12, <1>13, <1>14, <1>15, <1>16, <1>17

\* The first header's name is all that the buffer is about to hold.
LEMMA FirstHeaderHeaders ==
  ASSUME BytesInv, HeadersInv, FirstHeader
  PROVE  HeadersInv'
<1> USE DEF BytesInv
<1>1. /\ pc = "parse" /\ at < Len(scratch) /\ Is(unit) = "field" /\ status = "URL"
      /\ pre_parsed' = FieldLen /\ status' = "HDR_FIELD" /\ pc' = "read" /\ paused' = TRUE
      /\ parsed' = parsed \o SubSeq(scratch, at + 1, at + FieldLen)
      /\ UNCHANGED <<stream, scratch, at, req_hdrs_count>>
  BY DEF FirstHeader, Next_, PreParsed, pause_parsing, conn, aux
<1>2. /\ FieldLen \in Nat /\ FieldLen >= 1 /\ at + FieldLen <= Len(scratch)
      /\ \A i \in 1..FieldLen : Is(scratch[at + i]) = "field"
      /\ at \in Nat /\ Len(scratch) \in Nat /\ Len(parsed) \in Nat
  BY <1>1, FieldCounted, UnitIsNext, Numbers
<1>3. parsed \in Seq(1..arrived) /\ scratch \in Seq(1..arrived)
  BY Numbers
<1> DEFINE f == SubSeq(scratch, at + 1, at + FieldLen)
           n == Len(parsed)
           part(i) == stream[parsed[i]].is
           part1(i) == stream[parsed'[i]].is
<1>4. /\ f \in Seq(1..arrived) /\ Len(f) = FieldLen
      /\ \A i \in 1..FieldLen : f[i] = scratch[at + i]
  BY <1>1, FieldRead
<1>5. parsed' = parsed \o f
  BY <1>1
<1> HIDE DEF f
<1>6. /\ parsed' \in Seq(1..arrived) /\ Len(parsed') = n + FieldLen
      /\ \A i \in 1..(n + FieldLen) : parsed'[i] = IF i <= n THEN parsed[i] ELSE f[i - n]
  BY <1>3, <1>4, <1>5, ConcatProperties
<1>7. DOMAIN parsed' = 1..(n + FieldLen) /\ DOMAIN parsed = 1..n
  BY <1>3, <1>6, LenProperties
<1>8. NoHeader /\ Targets(Len(parsed)) /\ req_hdrs_count = 0
  BY <1>1 DEF HeadersInv, Composed, NoHeader
<1>9. \A i \in 1..n : part(i) \in {"method", "url"}
  <2>1. \A i \in 1..n : i <= n
    BY <1>2
  <2> QED
    BY <1>7, <1>8, <2>1 DEF Targets, Is
<1>10. \A i \in 1..n : part1(i) \in {"method", "url"}
  <2>1. \A i \in 1..n : i \in 1..(n + FieldLen) /\ i <= n
    BY <1>2
  <2>2. \A i \in 1..n : parsed'[i] = parsed[i]
    BY <1>6, <2>1
  <2> QED
    BY <1>9, <2>2
<1>11. ASSUME NEW i \in (n + 1)..(n + FieldLen) PROVE part1(i) = "field"
  <2>1. i \in 1..(n + FieldLen) /\ ~(i <= n) /\ i - n \in 1..FieldLen
    BY <1>2
  <2>2. parsed'[i] = scratch[at + (i - n)]
    BY <1>4, <1>6, <2>1
  <2>3. Is(scratch[at + (i - n)]) = "field"
    BY <1>2, <2>1
  <2> QED
    BY <2>2, <2>3 DEF Is
<1>12. FirstBytes' = {i \in 1..(n + FieldLen) :
                        part1(i) = "field" /\ (i = 1 \/ part1(i - 1) # "field")}
  BY <1>1, <1>7 DEF FirstBytes, Is
<1>13. \A k : Targets(k)' <=>
         \A i \in 1..(n + FieldLen) : part1(i) \in {"method", "url"} <=> i <= k
  BY <1>1, <1>7 DEF Targets, Is
<1>14. n \in Nat
  BY <1>2
<1>15. \A i \in 1..(n + FieldLen) : i \in 1..n \/ i \in (n + 1)..(n + FieldLen)
  BY <1>2
<1>16. PICK k \in Int : k = n
  BY <1>2
<1>17. Targets(k)'
  <2>1. /\ \A i \in 1..n : i <= n
        /\ \A i \in (n + 1)..(n + FieldLen) : ~(i <= n)
    BY <1>2
  <2> QED
    BY <1>10, <1>11, <1>13, <1>15, <1>16, <2>1
<1>18. FirstBytes' = {n + 1}
  <2>1. part1(n + 1) = "field" /\ (n + 1 = 1 \/ part1(n + 1 - 1) # "field")
        /\ n + 1 \in 1..(n + FieldLen)
    <3>1. n + 1 \in (n + 1)..(n + FieldLen) /\ n + 1 \in 1..(n + FieldLen)
      BY <1>2
    <3>2. part1(n + 1) = "field"
      BY <1>11, <3>1
    <3>3. n + 1 # 1 => n + 1 - 1 \in 1..n
      BY <1>2
    <3> QED
      BY <1>10, <3>1, <3>2, <3>3
  <2>2. ASSUME NEW i \in 1..(n + FieldLen), part1(i) = "field",
               i = 1 \/ part1(i - 1) # "field"
        PROVE  i = n + 1
    <3>1. i \in (n + 1)..(n + FieldLen)
      BY <1>10, <1>15, <2>2
    <3>2. SUFFICES ASSUME i # n + 1 PROVE FALSE
      OBVIOUS
    <3>3. i - 1 \in (n + 1)..(n + FieldLen) /\ i # 1
      BY <1>2, <3>1, <3>2
    <3> QED
      BY <1>11, <2>2, <3>3
  <2> QED
    BY <1>12, <2>1, <2>2
<1>19. Cardinality(FirstBytes') = 1
  BY <1>18, FS_Singleton
<1>20. Held' = FieldLen
  BY <1>1 DEF Held
<1>21. k = Len(parsed') - Held' /\ Held' <= Len(parsed')
  BY <1>2, <1>6, <1>16, <1>20
<1>22. Composed'
  BY <1>1, <1>17, <1>21 DEF Composed, Targets
<1>23. Counted'
  BY <1>1, <1>8, <1>19 DEF Counted, InHeaders
<1> QED
  BY <1>1, <1>22, <1>23 DEF HeadersInv

\* The handler finds the headers where they were parsed.
LEMMA CompleteHeaders ==
  ASSUME BytesInv, HeadersInv, NoBody \/ cb_on_body \/ LastChunk
  PROVE  HeadersInv'
<1> USE DEF BytesInv
<1>1. pc = "parse" /\ at < Len(scratch) /\ pc' = "handler" /\ UNCHANGED <<stream, scratch>>
  BY CompleteBytes DEF NoBody, cb_on_body, LastChunk, cb_headers_complete, conn
<1>2. /\ at \in Nat /\ at + 1 <= Len(scratch) /\ unit = ParsedUpTo + 1 /\ ParsedUpTo \in Nat
      /\ Len(scratch) \in Nat /\ Taken \in Nat
  BY <1>1, UnitIsNext, Numbers
<1>3. /\ parsed \in Seq(1..arrived) /\ scratch \in Seq(1..arrived) /\ Len(parsed) \in Nat
  BY Numbers
<1>4. /\ Run(scratch, Taken - Len(scratch)) /\ Held = at
      /\ ParsedUpTo = Taken - (Len(scratch) - at)
  BY <1>1 DEF Reading, Buffered, Held, ParsedUpTo
<1>5. before \in DOMAIN After /\ status = After[before] /\ Composed /\ Counted
  BY <1>1 DEF Phase, HeadersInv
<1>6. ASSUME NEW q \in Seq(1..arrived), NEW l \in Nat, l <= Len(q), l <= Len(scratch),
             Run(q, (Taken - Len(scratch)) + l - Len(q))
      PROVE  IsPrefix(From(q, Len(q) - l + 1), scratch)
  <2>1. /\ Len(q) \in Nat /\ Len(q) - l \in 0..Len(q)
        /\ (Taken - Len(scratch)) + l - Len(q) \in Int /\ Len(q) - (Len(q) - l) = l
        /\ ((Taken - Len(scratch)) + l - Len(q)) + (Len(q) - l) = Taken - Len(scratch)
        /\ Taken - Len(scratch) \in Int
    BY <1>2, <1>6
  <2>2. /\ From(q, Len(q) - l + 1) \in Seq(1..arrived)
        /\ Len(From(q, Len(q) - l + 1)) = Len(q) - (Len(q) - l)
        /\ Run(From(q, Len(q) - l + 1),
               ((Taken - Len(scratch)) + l - Len(q)) + (Len(q) - l))
    BY <1>6, <2>1, RunFrom
  <2> QED
    BY <1>3, <1>4, <1>6, <2>1, <2>2, RunPrefix
<1>7. CASE cb_on_body
  <2>1. /\ status = "BODY" /\ UNCHANGED <<parsed, req_hdrs_count>>
    BY <1>7 DEF cb_on_body, aux
  <2>2. FirstBytes' = FirstBytes
    BY <1>1, <2>1 DEF FirstBytes, Is
  <2>3. req_hdrs_count \in Nat
    BY Numbers DEF TypeOK
  <2>4. Cardinality(FirstBytes) = req_hdrs_count
    BY <1>5, <2>1, <2>3 DEF Counted, InHeaders
  <2>5. SUFFICES ASSUME req_hdrs_count > 0
                 PROVE  \E k \in 0..Len(parsed') :
                          Targets(k)' /\ IsPrefix(From(parsed', k + 1), scratch')
    BY <1>1, <2>1, <2>2, <2>4 DEF HeadersInv, HeadersFound
  <2>6. at <= Len(parsed) /\ Targets(Len(parsed) - at)
    BY <1>4, <1>5, <2>1, <2>3, <2>5 DEF Composed, NoHeader
  <2>7. Run(parsed, ParsedUpTo - Len(parsed))
    BY <1>1, ParsedRun
  <2>8. ParsedUpTo = (Taken - Len(scratch)) + at
    BY <1>2, <1>4
  <2>9. IsPrefix(From(parsed, Len(parsed) - at + 1), scratch)
    BY <1>2, <1>3, <1>6, <2>6, <2>7, <2>8
  <2>10. PICK k \in Int : k = Len(parsed) - at
    BY <1>2, <1>3
  <2>11. k \in 0..Len(parsed)
    BY <1>2, <1>3, <2>6, <2>10
  <2>12. Targets(k)'
    BY <1>1, <2>1, <2>6, <2>10 DEF Targets, Is
  <2> QED
    BY <1>1, <2>1, <2>9, <2>10, <2>11, <2>12
<1>8. CASE NoBody
  <2>1. /\ Seen /\ Is(unit) = "end" /\ Fits
        /\ req_hdrs_count' = IF status = "HDR_VALUE" THEN req_hdrs_count + 1 ELSE req_hdrs_count
    BY <1>8 DEF NoBody, cb_headers_complete, Next_
  <2>2. before \in {"url", "value"} /\ status \in {"URL", "HDR_VALUE"}
    BY <1>5, <2>1, Phases DEF Fits, Grammar
  <2>3. FirstBytes' = FirstBytes
        /\ \A k \in Int : k <= Len(parsed) /\ Targets(k) => Targets(k)'
    BY <1>1, <2>1, SeenHeaders
  <2>4. /\ parsed' \in Seq(1..arrived) /\ Len(parsed') = Len(parsed) + 1
        /\ Run(parsed', unit - Len(parsed'))
    BY <1>1, <2>1, SeenBytes
  <2>5. CASE status = "URL"
    <3>1. req_hdrs_count = 0
      BY <1>5, <2>5 DEF Composed, NoHeader
    <3>2. req_hdrs_count' = 0
      BY <2>1, <2>5, <3>1
    <3> QED
      BY <1>1, <3>2 DEF HeadersInv, HeadersFound
  <2>6. CASE status = "HDR_VALUE"
    <3>1. Cardinality(FirstBytes') = req_hdrs_count'
      BY <1>5, <2>1, <2>3, <2>6 DEF Counted, InHeaders
    <3>2. at <= Len(parsed) /\ Targets(Len(parsed) - at)
      BY <1>4, <1>5, <2>6 DEF Composed
    <3>3. PICK k \in Int : k = Len(parsed) - at
      BY <1>2, <1>3
    <3>4. k \in 0..Len(parsed') /\ k <= Len(parsed) /\ k = Len(parsed') - (at + 1)
      BY <1>2, <1>3, <2>4, <3>2, <3>3
    <3>5. Targets(k)'
      BY <2>3, <3>2, <3>3, <3>4
    <3>6. unit = (Taken - Len(scratch)) + (at + 1)
      BY <1>2, <1>4
    <3>7. at + 1 \in Nat /\ at + 1 <= Len(parsed')
      BY <1>2, <1>3, <2>4, <3>2
    <3>8. IsPrefix(From(parsed', Len(parsed') - (at + 1) + 1), scratch)
      <4>1. unit - Len(parsed') = (Taken - Len(scratch)) + (at + 1) - Len(parsed')
        BY <1>2, <1>3, <2>4, <3>6
      <4>2. Run(parsed', (Taken - Len(scratch)) + (at + 1) - Len(parsed'))
        BY <2>4, <4>1
      <4> QED
        BY <1>2, <1>6, <2>4, <3>7, <4>2
    <3> QED
      BY <1>1, <3>1, <3>4, <3>5, <3>8 DEF HeadersInv, HeadersFound
  <2> QED
    BY <2>2, <2>5, <2>6
<1>9. CASE LastChunk
  <2>1. Seen /\ Is(unit) = "last" /\ status = "BODY" /\ UNCHANGED req_hdrs_count
    BY <1>9 DEF LastChunk, Next_, aux
  <2>2. FirstBytes' = FirstBytes
        /\ \A k \in Int : k <= Len(parsed) /\ Targets(k) => Targets(k)'
    BY <1>1, <2>1, SeenHeaders
  <2>3. /\ parsed' \in Seq(1..arrived) /\ Len(parsed') = Len(parsed) + 1
        /\ Run(parsed', unit - Len(parsed'))
    BY <1>1, <2>1, SeenBytes
  <2>4. req_hdrs_count \in Nat
    BY Numbers DEF TypeOK
  <2>5. Cardinality(FirstBytes') = req_hdrs_count'
    BY <1>5, <2>1, <2>2, <2>4 DEF Counted, InHeaders
  <2>6. SUFFICES ASSUME req_hdrs_count > 0
                 PROVE  \E k \in 0..Len(parsed') :
                          Targets(k)' /\ IsPrefix(From(parsed', k + 1), scratch')
    BY <1>1, <2>1, <2>5 DEF HeadersInv, HeadersFound
  <2>7. at <= Len(parsed) /\ Targets(Len(parsed) - at)
    BY <1>4, <1>5, <2>1, <2>4, <2>6 DEF Composed, NoHeader
  <2>8. PICK k \in Int : k = Len(parsed) - at
    BY <1>2, <1>3
  <2>9. k \in 0..Len(parsed') /\ k <= Len(parsed) /\ k = Len(parsed') - (at + 1)
    BY <1>2, <1>3, <2>3, <2>7, <2>8
  <2>10. Targets(k)'
    BY <2>2, <2>7, <2>8, <2>9
  <2>11. IsPrefix(From(parsed', Len(parsed') - (at + 1) + 1), scratch)
    <3>1. at + 1 \in Nat /\ at + 1 <= Len(parsed')
      BY <1>2, <1>3, <2>3, <2>7
    <3>2. unit - Len(parsed') = (Taken - Len(scratch)) + (at + 1) - Len(parsed')
      BY <1>2, <1>3, <1>4, <2>3
    <3>3. Run(parsed', (Taken - Len(scratch)) + (at + 1) - Len(parsed'))
      BY <2>3, <3>2
    <3> QED
      BY <1>2, <1>6, <2>3, <3>1, <3>3
  <2> QED
    BY <1>1, <2>9, <2>10, <2>11
<1> QED
  BY <1>7, <1>8, <1>9

\* Nothing of the request changes.
LEMMA QuietHeaders ==
  ASSUME BytesInv, HeadersInv, UNCHANGED <<stream, parsed, status, req_hdrs_count, pc, at, paused,
                                           pre_parsed, scratch>>
  PROVE  HeadersInv'
<1>1. Held' = Held
  BY DEF Held
<1>2. pc \in {"read", "parse"} => Composed' /\ Counted'
  BY <1>1, HeadersFrame
<1>3. FirstBytes' = FirstBytes
  BY DEF FirstBytes, Is
<1>4. HeadersFound => HeadersFound'
  BY <1>3 DEF HeadersFound, Targets, Is
<1> QED
  BY <1>2, <1>4 DEF HeadersInv

\* Every step keeps to the headers.
LEMMA HeadersStep ==
  ASSUME BytesInv, HeadersInv, [Next]_vars
  PROVE  HeadersInv'
<1>1. CASE Process
  BY <1>1, ProcessHeaders
<1>2. CASE ReadBlock
  <2>1. /\ pc = "read" /\ pc' = "parse" /\ paused' = FALSE /\ at' = Held
        /\ UNCHANGED <<stream, parsed, status, req_hdrs_count>>
    BY <1>2, ReadBlockBytes DEF ReadBlock, conn, aux
  <2>2. Held' = Held
    BY <2>1 DEF Held
  <2>3. status = "HDR_FIELD" \/ at' = at
    BY <2>1 DEF Held, BytesInv, Reading, Repeated
  <2> QED
    BY <2>1, <2>2, <2>3, HeadersFrame DEF HeadersInv
<1>3. CASE Closing
  <2>1. pc' = "closed"
    BY <1>3 DEF Closing, Close, Refuse
  <2> QED
    BY <2>1 DEF HeadersInv
<1>4. CASE BlockDone
  <2>1. /\ pc = "parse" /\ pc' = "read"
        /\ UNCHANGED <<stream, parsed, status, req_hdrs_count, at, paused, pre_parsed>>
    BY <1>4 DEF BlockDone, conn, parser, aux
  <2>2. Held' = Held
    BY <2>1 DEF Held
  <2> QED
    BY <2>1, <2>2, HeadersFrame DEF HeadersInv
<1>5. CASE Method \/ cb_url \/ cb_header_field \/ cb_header_value \/ HeadersBeforeBody
           \/ ChunkSize
  BY <1>5, GoesOnHeaders
<1>6. CASE FirstHeader
  BY <1>6, FirstHeaderHeaders
<1>7. CASE NoBody \/ cb_on_body \/ LastChunk
  BY <1>7, CompleteHeaders
<1>8. CASE httpd_resp_send \/ Send \/ Sent \/ Finish
  BY <1>8 DEF httpd_resp_send, Send, Sent, Finish, HeadersLeft, HeadersInv, aux
<1>9. CASE Purge
  BY <1>9 DEF Purge, HeadersInv
<1>10. CASE Arrive \/ Leave \/ UNCHANGED vars
  <2>1. UNCHANGED <<stream, parsed, status, req_hdrs_count, pc, at, paused, pre_parsed, scratch>>
    BY <1>10 DEF Arrive, Leave, vars, conn, buffer, parser, aux
  <2> QED
    BY <2>1, QuietHeaders
<1> QED
  BY <1>1, <1>2, <1>3, <1>4, <1>5, <1>6, <1>7, <1>8, <1>9, <1>10, Closings
     DEF Next, Server, Parser, Readable, OtherReadable

-----------------------------------------------------------------------------
(* What a client that keeps to HTTP sends.                                 *)

\* Each byte has its request and its part.
LEMMA ByteType ==
  ASSUME InTransit, NEW p \in DOMAIN stream
  PROVE  /\ p \in Nat /\ p >= 1 /\ p <= Len(stream) /\ Len(stream) \in Nat
         /\ stream[p] = [of |-> stream[p].of, is |-> Is(p)]
         /\ stream[p].of \in Nat /\ stream[p].of >= 1 /\ Is(p) \in Parts
<1>1. Len(stream) \in Nat /\ DOMAIN stream = 1..Len(stream)
  BY LenProperties DEF InTransit
<1>2. stream[p] \in [of : Nat \ {0}, is : Parts]
  BY <1>1, ElementOfSeq DEF InTransit
<1> QED
  BY <1>1, <1>2 DEF Is

\* A byte goes on with the request of the one before it, or begins the next.
LEMMA NextByte ==
  ASSUME InTransit, KeepsToHttp(stream), NEW p \in DOMAIN stream, p > 1
  PROVE  /\ p - 1 \in DOMAIN stream
         /\ \/ /\ stream[p].of = stream[p - 1].of
               /\ Is(p) \in Follows(Is(p - 1)) /\ Is(p) # "method"
            \/ /\ stream[p].of = stream[p - 1].of + 1 /\ Is(p) = "method"
               /\ Is(p - 1) \in {"end", "body", "last"}
<1>1. p \in Nat /\ p <= Len(stream) /\ Len(stream) \in Nat /\ DOMAIN stream = 1..Len(stream)
  BY ByteType, LenProperties DEF InTransit
<1>2. p \in 2..Len(stream) /\ p - 1 \in DOMAIN stream
  BY <1>1
<1>3. Is(p - 1) \in Parts
  BY <1>2, ByteType
<1>4. \/ /\ stream[p].of = stream[p - 1].of
         /\ stream[p].is \in Follows(stream[p - 1].is)
      \/ /\ stream[p] = [of |-> stream[p - 1].of + 1, is |-> "method"]
         /\ stream[p - 1].is \in {"end", "body", "last"}
  BY <1>2 DEF KeepsToHttp
<1>5. \A x \in Parts : "method" \notin Follows(x)
  BY DEF Parts, Grammar, Follows
<1> QED
  BY <1>2, <1>3, <1>4, <1>5 DEF Is

\* Requests come in order.
LEMMA RequestsInOrder ==
  ASSUME InTransit, KeepsToHttp(stream), NEW p \in DOMAIN stream, NEW q \in DOMAIN stream,
         p <= q
  PROVE  stream[p].of <= stream[q].of
<1> DEFINE S == {x \in DOMAIN stream : p <= x /\ ~(stream[p].of <= stream[x].of)}
<1>1. \A x \in DOMAIN stream : x \in Nat /\ x >= 1 /\ stream[x].of \in Nat
  BY ByteType
<1>2. S \in SUBSET Nat
  BY <1>1
<1>3. SUFFICES ASSUME S # {} PROVE FALSE
  OBVIOUS
<1>4. PICK z \in S : \A y \in S : z <= y
  BY <1>2, <1>3, LeastExists
<1>5. z \in DOMAIN stream /\ p <= z /\ ~(stream[p].of <= stream[z].of)
  BY <1>4
<1>6. p # z /\ z > 1 /\ z - 1 >= p
  BY <1>1, <1>5
<1>7. z - 1 \in DOMAIN stream /\ stream[z - 1].of <= stream[z].of
  BY <1>1, <1>5, <1>6, NextByte
<1>8. ~(stream[p].of <= stream[z - 1].of)
  BY <1>1, <1>5, <1>7
<1>9. z - 1 \in S
  BY <1>6, <1>7, <1>8
<1>10. z <= z - 1 /\ z \in Nat
  BY <1>1, <1>4, <1>5, <1>9
<1> QED
  BY <1>10

\* Only a method begins another request.
LEMMA SameRequest ==
  ASSUME InTransit, KeepsToHttp(stream), NEW p \in DOMAIN stream, NEW q \in DOMAIN stream,
         p <= q, \A x \in DOMAIN stream : p < x /\ x <= q => Is(x) # "method"
  PROVE  stream[q].of = stream[p].of
<1> DEFINE S == {x \in DOMAIN stream : p <= x /\ x <= q /\ stream[x].of # stream[p].of}
<1>1. \A x \in DOMAIN stream : x \in Nat /\ x >= 1
  BY ByteType
<1>2. S \in SUBSET Nat
  BY <1>1
<1>3. SUFFICES ASSUME S # {} PROVE FALSE
  BY <1>1
<1>4. PICK z \in S : \A y \in S : z <= y
  BY <1>2, <1>3, LeastExists
<1>5. z \in DOMAIN stream /\ p <= z /\ z <= q /\ stream[z].of # stream[p].of
  BY <1>4
<1>6. z > 1 /\ p < z /\ p <= z - 1 /\ z - 1 <= q
  BY <1>1, <1>5
<1>7. Is(z) # "method"
  BY <1>5, <1>6
<1>8. z - 1 \in DOMAIN stream /\ stream[z].of = stream[z - 1].of
  BY <1>5, <1>6, <1>7, NextByte
<1>9. z - 1 \in S
  BY <1>5, <1>6, <1>8
<1>10. z <= z - 1 /\ z \in Nat
  BY <1>1, <1>4, <1>5, <1>9
<1> QED
  BY <1>10

\* A request begins with its method.
LEMMA MethodFirst ==
  ASSUME InTransit, KeepsToHttp(stream), NEW p \in DOMAIN stream, Is(p) = "method",
         NEW q \in DOMAIN stream, stream[q].of = stream[p].of
  PROVE  p <= q
<1>1. p \in Nat /\ p >= 1 /\ q \in Nat /\ q >= 1 /\ stream[q].of \in Nat
  BY ByteType
<1>2. SUFFICES ASSUME q < p PROVE FALSE
  BY <1>1
<1>3. p > 1 /\ q <= p - 1
  BY <1>1, <1>2
<1>4. p - 1 \in DOMAIN stream /\ stream[p].of = stream[p - 1].of + 1
  BY <1>3, NextByte
<1>5. stream[q].of <= stream[p - 1].of /\ stream[p - 1].of \in Nat
  BY <1>3, <1>4, RequestsInOrder, ByteType
<1> QED
  BY <1>1, <1>4, <1>5

\* Behind a request's headers there is only its body or its chunks.
BodyParts == {"body", "size", "chunk", "last"}
LEMMA HeadersFirst ==
  ASSUME InTransit, KeepsToHttp(stream), NEW e \in DOMAIN stream,
         Is(e) \in {"end"} \cup BodyParts,
         NEW q \in DOMAIN stream, e < q, stream[q].of = stream[e].of
  PROVE  Is(q) \in BodyParts
<1> DEFINE S == {x \in DOMAIN stream :
                   e < x /\ stream[x].of = stream[e].of /\ Is(x) \notin BodyParts}
<1>1. \A x \in DOMAIN stream : x \in Nat /\ x >= 1 /\ stream[x].of \in Nat
  BY ByteType
<1>2. S \in SUBSET Nat
  BY <1>1
<1>3. SUFFICES ASSUME S # {} PROVE FALSE
  OBVIOUS
<1>4. PICK z \in S : \A y \in S : z <= y
  BY <1>2, <1>3, LeastExists
<1>5. z \in DOMAIN stream /\ e < z /\ stream[z].of = stream[e].of /\ Is(z) \notin BodyParts
  BY <1>4
<1>6. z > 1 /\ e <= z - 1 /\ z - 1 < z
  BY <1>1, <1>5
<1>7. z - 1 \in DOMAIN stream
  BY <1>5, <1>6, NextByte
<1>8. stream[e].of <= stream[z - 1].of /\ stream[z - 1].of <= stream[z].of
  BY <1>1, <1>5, <1>6, <1>7, RequestsInOrder
<1>9. stream[z - 1].of = stream[e].of /\ stream[z].of # stream[z - 1].of + 1
  BY <1>1, <1>5, <1>7, <1>8
<1>10. Is(z) \in Follows(Is(z - 1))
  BY <1>5, <1>6, <1>9, NextByte
<1>11. \A x \in {"end"} \cup BodyParts : Follows(x) \subseteq BodyParts
  BY DEF Grammar, Follows, BodyParts
<1>12. Is(z - 1) \notin {"end"} \cup BodyParts
  BY <1>5, <1>10, <1>11
<1>13. z - 1 # e
  BY <1>12
<1>14. e < z - 1 /\ Is(z - 1) \notin BodyParts
  BY <1>1, <1>5, <1>6, <1>7, <1>12, <1>13
<1>15. z - 1 \in S
  BY <1>7, <1>9, <1>14
<1>16. z <= z - 1 /\ z \in Nat
  BY <1>1, <1>4, <1>5, <1>15
<1> QED
  BY <1>16

\* The size of a chunk makes its request a chunked one.
LEMMA SizeOf ==
  ASSUME InTransit, NEW p \in DOMAIN stream, Is(p) = "size"
  PROVE  Chunked(stream[p].of)
BY ByteType DEF Chunked

\* Behind the end of a request without chunks there is only its body.
LEMMA BodyLast ==
  ASSUME InTransit, KeepsToHttp(stream), NEW e \in DOMAIN stream, Is(e) \in {"end", "body"},
         ~Chunked(stream[e].of),
         NEW q \in DOMAIN stream, e < q, stream[q].of = stream[e].of
  PROVE  Is(q) = "body"
<1> DEFINE S == {x \in DOMAIN stream : e < x /\ stream[x].of = stream[e].of /\ Is(x) # "body"}
<1>1. \A x \in DOMAIN stream : x \in Nat /\ x >= 1 /\ stream[x].of \in Nat
  BY ByteType
<1>2. S \in SUBSET Nat
  BY <1>1
<1>3. SUFFICES ASSUME S # {} PROVE FALSE
  OBVIOUS
<1>4. PICK z \in S : \A y \in S : z <= y
  BY <1>2, <1>3, LeastExists
<1>5. z \in DOMAIN stream /\ e < z /\ stream[z].of = stream[e].of /\ Is(z) # "body"
  BY <1>4
<1>6. z > 1 /\ e <= z - 1 /\ z - 1 < z
  BY <1>1, <1>5
<1>7. z - 1 \in DOMAIN stream
  BY <1>5, <1>6, NextByte
<1>8. stream[e].of <= stream[z - 1].of /\ stream[z - 1].of <= stream[z].of
  BY <1>1, <1>5, <1>6, <1>7, RequestsInOrder
<1>9. stream[z - 1].of = stream[e].of /\ stream[z].of # stream[z - 1].of + 1
  BY <1>1, <1>5, <1>7, <1>8
<1>10. Is(z) \in Follows(Is(z - 1))
  BY <1>5, <1>6, <1>9, NextByte
<1>11. Is(z) # "size"
  BY <1>5, SizeOf
<1>12. Follows("end") = {"body", "size"} /\ Follows("body") = {"body"}
  BY DEF Follows, Grammar
<1>13. Is(z - 1) \notin {"end", "body"}
  BY <1>5, <1>10, <1>11, <1>12
<1>14. z - 1 # e
  BY <1>13
<1>15. e < z - 1 /\ Is(z - 1) # "body"
  BY <1>1, <1>5, <1>6, <1>7, <1>13, <1>14
<1>16. z - 1 \in S
  BY <1>7, <1>9, <1>15
<1>17. z <= z - 1 /\ z \in Nat
  BY <1>1, <1>4, <1>5, <1>16
<1> QED
  BY <1>17

\* A request without chunks ends where its body does.
LEMMA RequestEnds ==
  ASSUME InTransit, KeepsToHttp(stream), NEW e \in DOMAIN stream, Is(e) = "end",
         ~Chunked(stream[e].of)
  PROVE  Boundary(e + BodyLen(stream[e].of), stream[e].of + 1)
<1> DEFINE r == stream[e].of
           S == {x \in DOMAIN stream : stream[x].of <= r}
           B == {x \in DOMAIN stream : stream[x] = [of |-> r, is |-> "body"]}
<1>1. \A x \in DOMAIN stream : /\ x \in Nat /\ x >= 1 /\ x <= Len(stream) /\ stream[x].of \in Nat
                               /\ stream[x] = [of |-> stream[x].of, is |-> Is(x)]
  BY ByteType
<1>2. Len(stream) \in Nat /\ DOMAIN stream = 1..Len(stream)
  BY PartsFinite
<1>3. r \in Nat
  BY <1>1
<1>4. S \in SUBSET (0..Len(stream)) /\ e \in S
  BY <1>1, <1>2, <1>3
<1> DEFINE m == Max(S)
<1>5. m \in S /\ \A x \in S : x <= m
  BY <1>2, <1>4, MaxExists
<1> HIDE DEF m
<1>6. m \in DOMAIN stream /\ m \in Nat /\ e <= m /\ stream[m].of <= r
  BY <1>1, <1>4, <1>5
<1>7. ASSUME NEW x \in DOMAIN stream PROVE x <= m <=> stream[x].of < r + 1
  <2>1. x <= m => stream[x].of <= r
    BY <1>1, <1>3, <1>6, RequestsInOrder
  <2>2. stream[x].of <= r => x <= m
    BY <1>5
  <2> QED
    BY <1>1, <1>3, <2>1, <2>2
<1>8. ASSUME NEW x \in DOMAIN stream PROVE x \in B <=> e + 1 <= x /\ x <= m
  <2>1. e \in Nat /\ x \in Nat
    BY <1>1
  <2>2. CASE x = e
    <3>1. x \notin B
      BY <2>2 DEF Is
    <3> QED
      BY <2>1, <2>2, <3>1
  <2>3. CASE x < e
    <3>1. x \notin B
      <4>1. SUFFICES ASSUME stream[x] = [of |-> r, is |-> "body"] PROVE FALSE
        OBVIOUS
      <4>2. Is(x) = "body" /\ stream[e].of = stream[x].of
        BY <4>1 DEF Is
      <4>3. Is(e) = "body"
        BY <2>3, <4>2, BodyLast
      <4> QED
        BY <4>3
    <3> QED
      BY <2>1, <2>3, <3>1
  <2>4. CASE e < x
    <3>1. stream[e].of <= stream[x].of
      BY <2>1, <2>4, RequestsInOrder
    <3>2. stream[x].of = r => Is(x) = "body"
      BY <2>4, BodyLast
    <3>3. stream[x].of = r => x \in B
      BY <1>1, <3>2
    <3>4. x \in B => stream[x].of = r
      OBVIOUS
    <3>5. stream[x].of = r <=> x <= m
      BY <1>1, <1>3, <1>7, <3>1
    <3> QED
      BY <2>1, <2>4, <3>3, <3>4, <3>5
  <2> QED
    BY <2>1, <2>2, <2>3, <2>4
<1>9. B = (e + 1)..m
  <2>1. \A x \in (e + 1)..m : x \in DOMAIN stream /\ e + 1 <= x /\ x <= m
    BY <1>1, <1>2, <1>6
  <2>2. \A x \in DOMAIN stream : e + 1 <= x /\ x <= m => x \in (e + 1)..m
    BY <1>1, <1>6
  <2>3. \A x \in B : x \in DOMAIN stream
    OBVIOUS
  <2> HIDE DEF B
  <2> QED
    BY <1>8, <2>1, <2>2, <2>3
<1>10. BodyLen(r) = Cardinality(B)
  BY DEF BodyLen
<1> HIDE DEF B
<1>11. Cardinality((e + 1)..m) = m - e
  <2>1. e + 1 \in Int /\ m \in Int /\ e \in Nat
    BY <1>1, <1>6
  <2>2. Cardinality((e + 1)..m) = IF e + 1 > m THEN 0 ELSE m - (e + 1) + 1
    BY <2>1, FS_Interval
  <2> QED
    BY <1>6, <2>1, <2>2
<1>12. e + BodyLen(r) = m
  BY <1>1, <1>6, <1>9, <1>10, <1>11
<1> QED
  BY <1>7, <1>12 DEF Boundary

\* Where the requests before r end, r begins.
LEMMA RequestBegins ==
  ASSUME InTransit, KeepsToHttp(stream), NEW c \in Nat, NEW r \in Nat, r >= 1,
         Boundary(c, r), c + 1 \in DOMAIN stream
  PROVE  stream[c + 1].of = r /\ Is(c + 1) = "method"
<1>1. ~(stream[c + 1].of < r) /\ stream[c + 1].of \in Nat
  BY ByteType DEF Boundary
<1>2. CASE c = 0
  <2>1. c + 1 = 1 /\ stream # <<>>
    BY <1>2
  <2>2. stream[1] = [of |-> 1, is |-> "method"]
    BY <2>1 DEF KeepsToHttp
  <2> QED
    BY <1>1, <2>1, <2>2 DEF Is
<1>3. CASE c > 0
  <2>1. c + 1 > 1 /\ (c + 1) - 1 = c
    BY <1>3
  <2>2. c \in DOMAIN stream
    BY <2>1, NextByte
  <2>3. stream[c].of < r /\ stream[c].of \in Nat
    BY <2>2, ByteType DEF Boundary
  <2>4. stream[c + 1].of = stream[c].of + 1 /\ Is(c + 1) = "method"
    BY <1>1, <2>1, <2>3, NextByte
  <2> QED
    BY <1>1, <2>3, <2>4
<1> QED
  BY <1>2, <1>3

\* A request without a header's first byte between its beginning and its end has
\* none.
LEMMA NoField ==
  ASSUME InTransit, KeepsToHttp(stream), NEW b \in DOMAIN stream, Is(b) = "method",
         NEW e \in DOMAIN stream, Is(e) = "end", stream[e].of = stream[b].of,
         \A x \in DOMAIN stream : b <= x /\ x <= e => Is(x) # "field"
  PROVE  PartLen(stream[b].of, {"field"}) = 0
<1> DEFINE r == stream[b].of
           S == {p \in DOMAIN stream : stream[p].of = r /\ Is(p) \in {"field"}}
<1>1. ASSUME NEW x \in DOMAIN stream, stream[x].of = r PROVE Is(x) # "field"
  <2>1. b <= x
    BY <1>1, MethodFirst
  <2>2. e < x => Is(x) \in BodyParts
    BY <1>1, HeadersFirst
  <2>3. x \in Nat /\ e \in Nat
    BY ByteType
  <2> QED
    BY <2>1, <2>2, <2>3 DEF BodyParts
<1>2. S = {}
  BY <1>1
<1>3. Cardinality(S) = 0
  BY <1>2, FS_EmptySet
<1> QED
  BY <1>3 DEF PartLen

\* A request has at least the bytes that were parsed of it.
LEMMA PartLenBound ==
  ASSUME InTransit, NEW r, NEW parts, NEW a \in Nat, NEW b \in Nat, a <= b,
         \A p \in (a + 1)..b : p \in DOMAIN stream /\ stream[p].of = r /\ Is(p) \in parts
  PROVE  /\ PartLen(r, parts) \in Nat /\ PartLen(r, parts) >= b - a
         /\ \A e \in DOMAIN stream : stream[e].of = r /\ Is(e) \in parts /\ e > b
              => PartLen(r, parts) >= b - a + 1
<1> DEFINE S == {p \in DOMAIN stream : stream[p].of = r /\ Is(p) \in parts}
           T == (a + 1)..b
<1>1. PartLen(r, parts) = Cardinality(S)
  BY DEF PartLen
<1>2. T \in SUBSET S
  OBVIOUS
<1>3. S \in SUBSET DOMAIN stream
  OBVIOUS
<1>4. IsFiniteSet(S) /\ Cardinality(S) \in Nat
  BY <1>3, PartsFinite
<1>5. IsFiniteSet(T) /\ Cardinality(T) = b - a
  <2>1. a + 1 \in Int /\ b \in Int
    OBVIOUS
  <2>2. IsFiniteSet(T) /\ Cardinality(T) = IF a + 1 > b THEN 0 ELSE b - (a + 1) + 1
    BY <2>1, FS_Interval
  <2> HIDE DEF T
  <2> QED
    BY <2>2
<1>6. ASSUME NEW e \in DOMAIN stream, stream[e].of = r, Is(e) \in parts, e > b
      PROVE  Cardinality(S) >= b - a + 1
  <2>1. T \cup {e} \in SUBSET S
    BY <1>2, <1>6
  <2>2. e \notin T
    BY <1>6
  <2> HIDE DEF S, T
  <2>3. Cardinality(T \cup {e}) = Cardinality(T) + 1
    BY <1>5, <2>2, FS_AddElement
  <2>4. Cardinality(T \cup {e}) <= Cardinality(S)
    BY <1>4, <2>1, FS_Subset
  <2> QED
    BY <1>4, <1>5, <2>3, <2>4
<1> HIDE DEF S, T
<1>7. Cardinality(T) <= Cardinality(S)
  BY <1>2, <1>4, FS_Subset
<1>8. Cardinality(S) >= b - a
  BY <1>4, <1>5, <1>7
<1>9. PartLen(r, parts) \in Nat /\ PartLen(r, parts) >= b - a
  BY <1>1, <1>4, <1>8
<1> QED
  BY <1>1, <1>6, <1>9

-----------------------------------------------------------------------------
(* RequestsInv is inductive, if the client keeps to HTTP.                  *)

\* What was parsed are bytes of the stream, the last one where the parser is.
LEMMA ParsedBytes ==
  ASSUME BytesInv, pc \in {"read", "parse"}
  PROVE  /\ Len(parsed) \in Nat /\ DOMAIN parsed = 1..Len(parsed)
         /\ ParsedUpTo \in Nat /\ Len(parsed) <= ParsedUpTo
         /\ \A i \in DOMAIN parsed : /\ parsed[i] \in DOMAIN stream
                                     /\ parsed[i] = ParsedUpTo - Len(parsed) + i
         /\ parsed # <<>> => /\ Len(parsed) > 0 /\ 1 \in DOMAIN parsed
                             /\ Len(parsed) \in DOMAIN parsed
                             /\ parsed[Len(parsed)] = ParsedUpTo
                             /\ ParsedUpTo \in DOMAIN stream /\ Is(ParsedUpTo) = before
<1>1. /\ parsed \in Seq(1..arrived) /\ Len(parsed) \in Nat /\ arrived \in Nat
      /\ DOMAIN stream = 1..Len(stream) /\ arrived <= Len(stream) /\ Len(stream) \in Nat
      /\ Taken \in Nat /\ Len(scratch) \in Nat
  BY Numbers DEF BytesInv
<1>2. DOMAIN parsed = 1..Len(parsed)
  BY <1>1, LenProperties
<1>3. ParsedUpTo \in Int /\ Run(parsed, ParsedUpTo - Len(parsed))
  BY ParsedRun
<1>4. \A i \in DOMAIN parsed : parsed[i] \in 1..arrived
  BY <1>1, <1>2, ElementOfSeq
<1>5. \A i \in DOMAIN parsed : parsed[i] \in DOMAIN stream
  BY <1>1, <1>4
<1>6. \A i \in DOMAIN parsed : parsed[i] = ParsedUpTo - Len(parsed) + i
  BY <1>3 DEF Run
<1>7. ParsedUpTo \in Nat
  <2>1. pre_parsed \in Nat /\ at \in Nat
    BY HttpRequestAssumption DEF BytesInv, TypeOK
  <2>2. pc = "parse" => Len(scratch) <= Taken
    BY DEF BytesInv, Reading, Buffered
  <2> QED
    BY <1>1, <2>1, <2>2 DEF ParsedUpTo
<1>8. parsed # <<>> => Len(parsed) > 0 /\ 1 \in DOMAIN parsed /\ Len(parsed) \in DOMAIN parsed
  BY <1>1, <1>2
<1>9. Len(parsed) <= ParsedUpTo
  <2>1. CASE parsed = <<>>
    BY <1>7, <2>1
  <2>2. CASE parsed # <<>>
    <3>1. parsed[1] \in 1..arrived /\ parsed[1] = ParsedUpTo - Len(parsed) + 1
      BY <1>4, <1>6, <1>8, <2>2
    <3> QED
      BY <1>1, <1>7, <3>1
  <2> QED
    BY <2>1, <2>2
<1>10. parsed # <<>> => /\ parsed[Len(parsed)] = ParsedUpTo
                        /\ ParsedUpTo \in DOMAIN stream /\ Is(ParsedUpTo) = before
  <2>1. parsed # <<>> => parsed[Len(parsed)] = ParsedUpTo
    BY DEF BytesInv, ParsedInOrder
  <2>2. parsed # <<>> => before = Is(parsed[Len(parsed)])
    BY DEF BytesInv, Phase
  <2> QED
    BY <1>5, <1>8, <2>1, <2>2
<1> QED
  BY <1>1, <1>2, <1>5, <1>6, <1>7, <1>8, <1>9, <1>10

\* What is not of the request is not changed.
LEMMA RequestsFrame ==
  ASSUME BytesInv, RequestsInv,
         UNCHANGED <<stream, parsed, status, before, last_at, remaining_len, answers, error>>,
         ParsedUpTo' = ParsedUpTo, status = "BODY" => at' = at,
         \/ pc' = pc /\ Taken' = Taken
         \/ pc \in {"read", "parse"} /\ pc' \in {"read", "parse"}
  PROVE  RequestsInv'
<1>1. Current' = Current
  BY DEF Current
<1>2. \A r, ps : PartLen(r, ps)' = PartLen(r, ps)
  BY DEF PartLen, Is
<1>3. \A r : BodyLen(r)' = BodyLen(r) /\ Chunked(r)' = Chunked(r)
  BY DEF BodyLen, Chunked
<1>4. AtNext(Taken) /\ Taken' = Taken => AtNext(Taken)'
  BY <1>1, <1>2, <1>3 DEF AtNext, Boundary, Astray, Is
<1>5. AtNext(ParsedUpTo) => AtNext(ParsedUpTo)'
  BY <1>1, <1>2, <1>3 DEF AtNext, Boundary, Astray, Is
<1>6. InRequest => InRequest'
  BY <1>1 DEF InRequest, Is
<1>7. UrlAt => UrlAt'
  BY DEF UrlAt, Is
<1>8. Whole(parsed) => Whole(parsed)'
  BY DEF Whole, Is
<1>9. Taken' = Taken /\ Ahead(Current) => Ahead(Current)'
  BY <1>1, <1>2, <1>3 DEF Ahead, Boundary, Astray, Is
<1>10. Taken' = Taken /\ Ahead(Len(answers)) => Ahead(Len(answers))'
  BY <1>2, <1>3 DEF Ahead, Boundary, Astray, Is
<1>11. status = "BODY" /\ NoneBegins => NoneBegins'
  BY DEF NoneBegins, BodyStart, Is
<1>12. CASE pc \in {"read", "parse"} /\ pc' \in {"read", "parse"}
  BY <1>1, <1>3, <1>5, <1>6, <1>7, <1>12, <1>11 DEF RequestsInv
<1>13. CASE pc' = pc /\ Taken' = Taken
  <2>1. pc' = "select" => AtNext(Taken)'
    BY <1>4, <1>13 DEF RequestsInv
  <2>2. pc' \in {"handler", "send"} =>
          Whole(parsed)' /\ stream'[parsed'[1]].of = Current' /\ Ahead(Current)'
    BY <1>1, <1>8, <1>9, <1>13 DEF RequestsInv
  <2>3. pc' = "leftover" => Ahead(Len(answers))'
    BY <1>10, <1>13 DEF RequestsInv
  <2> QED
    BY <1>1, <1>3, <1>5, <1>6, <1>7, <1>13, <1>11, <2>1, <2>2, <2>3 DEF RequestsInv
<1> QED
  BY <1>12, <1>13

\* The server begins the next request at its first byte, or astray.
LEMMA ProcessRequests ==
  ASSUME BytesInv, RequestsInv, Process
  PROVE  RequestsInv'
<1>1. /\ pc = "select" /\ pc' = "read" /\ parsed' = <<>> /\ status' = "IDLE"
      /\ pre_parsed' = 0 /\ error' = "none"
      /\ UNCHANGED <<stream, arrived, socket, pending, answers>>
  BY DEF Process, NewRequest, conn
<1>2. Taken' = Taken /\ Taken \in Nat
  BY <1>1, Numbers DEF Taken, BytesInv
<1>3. ParsedUpTo' = Taken
  BY <1>1, <1>2 DEF ParsedUpTo
<1>4. AtNext(Taken)
  BY <1>1 DEF RequestsInv
<1>5. \A r, ps : PartLen(r, ps)' = PartLen(r, ps) /\ Chunked(r)' = Chunked(r)
  BY <1>1 DEF PartLen, Chunked, Is
<1>6. AtNext(ParsedUpTo)'
  BY <1>1, <1>3, <1>4, <1>5 DEF AtNext, Boundary, Astray, Current, Is
<1> QED
  BY <1>1, <1>6 DEF RequestsInv, UrlAt

\* A byte that the parser takes is of the request that is being read.
LEMMA UnitInRequest ==
  ASSUME BytesInv, RequestsInv, KeepsToHttp(stream), pc = "parse", at < Len(scratch), Fits
  PROVE  /\ unit \in DOMAIN stream /\ stream[unit].of = Current
         /\ parsed = <<>> => Is(unit) = "method"
<1>1. /\ unit = ParsedUpTo + 1 /\ ParsedUpTo \in Nat /\ unit \in DOMAIN stream
  <2>1. unit \in 1..arrived /\ unit = ParsedUpTo + 1 /\ ParsedUpTo \in Nat
    BY UnitIsNext
  <2>2. DOMAIN stream = 1..Len(stream) /\ arrived <= Len(stream) /\ Len(stream) \in Nat
        /\ arrived \in Nat
    BY Numbers DEF BytesInv
  <2> QED
    BY <2>1, <2>2
<1>2. Is(unit) \in Grammar[before] /\ before \in DOMAIN After
  BY DEF Fits, BytesInv, Phase
<1>3. CASE parsed = <<>>
  <2>1. before = "none"
    BY <1>3 DEF BytesInv, Phase
  <2>2. Is(unit) = "method"
    BY <1>2, <2>1 DEF Grammar
  <2>3. AtNext(ParsedUpTo)
    BY <1>3 DEF RequestsInv
  <2>4. Boundary(ParsedUpTo, Current)
    BY <1>1, <2>2, <2>3 DEF AtNext, Astray
  <2>5. Current \in Nat /\ Current >= 1
    <3>1. answers \in Seq(Nat)
      BY DEF BytesInv, TypeOK
    <3> QED
      BY <3>1, LenProperties DEF Current
  <2>6. stream[ParsedUpTo + 1].of = Current
    BY <1>1, <2>4, <2>5, RequestBegins DEF BytesInv
  <2> QED
    BY <1>1, <2>2, <2>6
<1>4. CASE parsed # <<>>
  <2>1. /\ Len(parsed) \in DOMAIN parsed /\ parsed[Len(parsed)] = ParsedUpTo
        /\ ParsedUpTo \in DOMAIN stream /\ Is(ParsedUpTo) = before
    BY <1>4, ParsedBytes
  <2>2. InRequest
    BY <1>4 DEF RequestsInv
  <2>3. stream[ParsedUpTo].of = Current
    BY <2>1, <2>2 DEF InRequest
  <2>4. unit > 1 /\ unit - 1 = ParsedUpTo
    <3>1. ParsedUpTo >= 1
      BY <2>1, ByteType DEF BytesInv
    <3> QED
      BY <1>1, <3>1
  <2>5. Is(unit) # "method"
    <3>1. before \in {"method", "url", "field", "value", "end", "size"}
      <4>1. Is(ParsedUpTo) \in Parts
        BY <2>1, ByteType DEF BytesInv
      <4> QED
        BY <1>2, <2>1, <4>1, Phases DEF Parts
    <3> QED
      BY <1>2, <3>1 DEF Grammar
  <2>6. stream[unit].of = stream[ParsedUpTo].of
    BY <1>1, <2>4, <2>5, NextByte DEF BytesInv
  <2> QED
    BY <1>1, <1>4, <2>3, <2>6
<1> QED
  BY <1>3, <1>4

\* The parser's steps: what was parsed stays in the request.
LEMMA SeenRequests ==
  ASSUME BytesInv, RequestsInv, KeepsToHttp(stream), pc = "parse", at < Len(scratch), Fits,
         Seen, UNCHANGED <<stream, answers>>
  PROVE  InRequest' /\ stream[unit].of = Current
<1>1. /\ parsed' \in Seq(1..arrived) /\ Len(parsed') = Len(parsed) + 1
      /\ Len(parsed) \in Nat /\ parsed'[Len(parsed')] = unit
      /\ \A i \in 1..Len(parsed) : parsed'[i] = parsed[i]
  BY SeenBytes
<1>2. DOMAIN parsed' = 1..(Len(parsed) + 1) /\ DOMAIN parsed = 1..Len(parsed)
  BY <1>1, LenProperties, ParsedBytes
<1>3. stream[unit].of = Current
  BY UnitInRequest
<1>4. ASSUME NEW i \in DOMAIN parsed' PROVE stream[parsed'[i]].of = Current
  <2>1. CASE i \in 1..Len(parsed)
    <3>1. InRequest
      BY <1>1, <2>1 DEF RequestsInv
    <3> QED
      BY <1>1, <1>2, <2>1, <3>1 DEF InRequest
  <2>2. CASE i = Len(parsed) + 1
    BY <1>1, <1>3, <2>2
  <2> QED
    BY <1>1, <1>2, <2>1, <2>2
<1>5. stream[parsed'[1]].is = "method"
  <2>1. CASE parsed = <<>>
    <3>1. Len(parsed') = 1
      BY <1>1, <2>1
    <3>2. parsed'[1] = unit
      BY <1>1, <3>1
    <3>3. Is(unit) = "method"
      BY <2>1, UnitInRequest
    <3> QED
      BY <3>2, <3>3 DEF Is
  <2>2. CASE parsed # <<>>
    <3>1. 1 \in 1..Len(parsed)
      BY <1>1, <2>2, ParsedBytes
    <3>2. Is(parsed[1]) = "method"
      BY <2>2 DEF RequestsInv, InRequest
    <3> QED
      BY <1>1, <3>1, <3>2 DEF Is
  <2> QED
    BY <2>1, <2>2
<1> QED
  BY <1>3, <1>4, <1>5 DEF InRequest, Current, Is

\* A byte is parsed, and parsing goes on behind it.
LEMMA GoesOnRequests ==
  ASSUME BytesInv, HeadersInv, RequestsInv, KeepsToHttp(stream),
         Method \/ cb_url \/ cb_header_field \/ cb_header_value \/ HeadersBeforeBody \/ ChunkSize
  PROVE  RequestsInv'
<1>1. GoesOn
  BY BytesGoOn
<1>2. /\ pc = "parse" /\ pc' = "parse" /\ at < Len(scratch) /\ Seen
      /\ UNCHANGED <<stream, error, answers>>
      /\ Is(unit) \in DOMAIN After /\ status' = After[Is(unit)]
  BY <1>1 DEF GoesOn
<1>3. Fits
  BY DEF Method, cb_url, cb_header_field, cb_header_value, HeadersBeforeBody,
         ChunkSize, cb_headers_complete
<1>4. InRequest' /\ stream[unit].of = Current
  BY <1>2, <1>3, SeenRequests
<1>5. /\ parsed' # <<>> /\ Len(parsed') = Len(parsed) + 1 /\ Len(parsed) \in Nat
      /\ parsed'[Len(parsed')] = unit /\ parsed' \in Seq(1..arrived)
      /\ \A i \in 1..Len(parsed) : parsed'[i] = parsed[i]
  BY <1>2, SeenBytes
<1>6. UrlAt'
  <2>1. SUFFICES ASSUME status' = "URL"
                 PROVE  /\ last_at' + 1 \in DOMAIN parsed'
                        /\ stream[parsed'[last_at' + 1]].is = "url"
    BY <1>2 DEF UrlAt, Is
  <2>2. Is(unit) = "url"
    BY <1>2, <2>1, Phases
  <2>3. cb_url
    BY <2>2 DEF Method, cb_url, cb_header_field, cb_header_value, HeadersBeforeBody,
                ChunkSize, cb_headers_complete, Next_
  <2>4. last_at' = IF status = "IDLE" THEN at ELSE last_at
    BY <2>3 DEF cb_url
  <2>5. status \in {"IDLE", "URL"} /\ Composed
    <3>1. before \in {"method", "url"} /\ status = After[before]
      <4>1. before \in DOMAIN After /\ status = After[before]
        BY <1>2 DEF BytesInv, Phase
      <4> QED
        BY <1>3, <2>2, <4>1, Phases DEF Fits, Grammar
    <3>2. Composed
      BY <1>2 DEF HeadersInv
    <3> QED
      BY <3>1, <3>2, Phases
  <2>6. at = Len(parsed)
    BY <2>5 DEF Composed, NoHeader
  <2>7. DOMAIN parsed' = 1..(Len(parsed) + 1)
    BY <1>5, LenProperties
  <2>8. CASE status = "IDLE"
    <3>1. last_at' + 1 = Len(parsed')
      BY <1>5, <2>4, <2>6, <2>8
    <3>2. Len(parsed') \in DOMAIN parsed'
      BY <1>5, <2>7
    <3> QED
      BY <1>5, <2>2, <3>1, <3>2 DEF Is
  <2>9. CASE status = "URL"
    <3>1. last_at' = last_at /\ last_at + 1 \in DOMAIN parsed /\ Is(parsed[last_at + 1]) = "url"
      BY <1>2, <2>4, <2>9 DEF RequestsInv, UrlAt
    <3>2. last_at + 1 \in 1..Len(parsed) /\ last_at + 1 \in DOMAIN parsed'
      BY <1>2, <1>5, <2>7, <3>1, ParsedBytes
    <3>3. parsed'[last_at + 1] = parsed[last_at + 1]
      BY <1>5, <3>2
    <3> QED
      BY <3>1, <3>2, <3>3 DEF Is
  <2> QED
    BY <2>5, <2>8, <2>9
<1>7. SUFFICES ASSUME status' = "BODY"
               PROVE  /\ remaining_len' = BodyLen(Current)
                      /\ remaining_len' > 0 \/ Chunked(Current)
                      /\ NoneBegins'
  <2>1. \A r : BodyLen(r)' = BodyLen(r) /\ Chunked(r)' = Chunked(r)
    BY <1>2 DEF BodyLen, Chunked
  <2>2. Current' = Current /\ error' = "none"
    BY <1>2 DEF Current, RequestsInv
  <2> QED
    BY <1>2, <1>4, <1>5, <1>6, <2>1, <2>2 DEF RequestsInv
<1>8. /\ unit = ParsedUpTo + 1 /\ ParsedUpTo \in Nat /\ at \in Nat /\ at' = at + 1
      /\ ParsedUpTo' = ParsedUpTo + 1 /\ before' = Is(unit)
  <2>1. unit = ParsedUpTo + 1 /\ ParsedUpTo \in Nat /\ at \in Nat
    BY <1>2, UnitIsNext
  <2>2. ParsedUpTo' = unit
    BY <1>1, GoesOnBytes
  <2> QED
    BY <1>1, <1>2, <2>1, <2>2 DEF GoesOn, Seen
<1>9. last_at \in Nat /\ (status \in {"URL", "BODY"} => last_at <= at)
  <2>1. last_at \in 0..SCRATCH_SIZE /\ SCRATCH_SIZE \in Nat
    BY HttpRequestAssumption DEF BytesInv, TypeOK
  <2> QED
    BY <1>2, <2>1 DEF BytesInv, Reading, Buffered
<1>10. CASE Is(unit) = "end"
  <2>1. HeadersBeforeBody
    BY <1>10 DEF Method, cb_url, cb_header_field, cb_header_value, HeadersBeforeBody,
                 ChunkSize, cb_headers_complete, Next_
  <2>2. /\ remaining_len' = BodyLen(Current)
        /\ remaining_len' > 0 \/ Chunked(Current)
    BY <1>4, <2>1 DEF HeadersBeforeBody, cb_headers_complete
  <2>3. last_at' = IF status = "URL" THEN last_at ELSE at + 1
    BY <1>1, <1>10 DEF GoesOn
  <2>4. CASE status = "URL"
    <3>1. last_at + 1 \in DOMAIN parsed /\ Is(parsed[last_at + 1]) = "url"
      BY <1>2, <2>4 DEF RequestsInv, UrlAt
    <3>2. at = Len(parsed)
      BY <1>2, <2>4 DEF HeadersInv, Composed, NoHeader
    <3>3. /\ parsed[last_at + 1] = ParsedUpTo - Len(parsed) + (last_at + 1)
          /\ Len(parsed) <= ParsedUpTo
      BY <1>2, <3>1, ParsedBytes
    <3>4. BodyStart' = ParsedUpTo - Len(parsed) + last_at /\ BodyStart' \in Nat
      BY <1>8, <1>9, <2>3, <2>4, <3>2, <3>3 DEF BodyStart
    <3>5. BodyStart' + 1 = parsed[last_at + 1]
      BY <1>5, <1>8, <1>9, <3>3, <3>4
    <3>6. stream'[BodyStart' + 1].is # "method"
      BY <1>2, <3>1, <3>5 DEF Is
    <3> QED
      BY <1>8, <1>10, <2>2, <3>4, <3>6 DEF NoneBegins, Is
  <2>5. CASE status # "URL"
    <3>1. BodyStart' = ParsedUpTo'
      BY <1>8, <2>3, <2>5 DEF BodyStart
    <3>2. NoneBegins'
      BY <1>8, <1>10, <3>1 DEF NoneBegins
    <3> QED
      BY <2>2, <3>2
  <2> QED
    BY <2>4, <2>5
<1>11. CASE Is(unit) = "size"
  <2>1. ChunkSize
    BY <1>11 DEF Method, cb_url, cb_header_field, cb_header_value, HeadersBeforeBody,
                 ChunkSize, cb_headers_complete, Next_
  <2>2. status = "BODY" /\ last_at' = last_at
    BY <1>1, <1>11 DEF GoesOn
  <2>3. /\ remaining_len = BodyLen(Current) /\ (remaining_len > 0 \/ Chunked(Current))
        /\ NoneBegins /\ remaining_len' = remaining_len
    BY <1>2, <2>1, <2>2 DEF RequestsInv, ChunkSize, aux
  <2>4. BodyStart' = BodyStart /\ BodyStart <= ParsedUpTo /\ BodyStart \in Int
    BY <1>8, <1>9, <2>2 DEF BodyStart
  <2>5. BodyStart \in Nat /\ Is(BodyStart + 1) # "method"
    <3>1. CASE BodyStart = ParsedUpTo
      BY <1>8, <1>11, <3>1
    <3>2. CASE BodyStart # ParsedUpTo
      <4>1. BodyStart < ParsedUpTo
        BY <1>8, <2>4, <3>2
      <4> QED
        BY <2>3, <4>1 DEF NoneBegins
    <3> QED
      BY <3>1, <3>2
  <2>6. BodyStart' < ParsedUpTo'
    BY <1>8, <2>4
  <2>7. NoneBegins'
    BY <1>2, <2>4, <2>5, <2>6 DEF NoneBegins, Is
  <2> QED
    BY <2>3, <2>7
<1>12. Is(unit) \in {"end", "size"}
  BY <1>2, <1>7, Phases
<1> QED
  BY <1>10, <1>11, <1>12

\* The field that is found at the first header is of the same request.
LEMMA FirstHeaderRequests ==
  ASSUME BytesInv, RequestsInv, KeepsToHttp(stream), FirstHeader
  PROVE  RequestsInv'
<1>1. /\ pc = "parse" /\ at < Len(scratch) /\ Is(unit) = "field" /\ Fits /\ status = "URL"
      /\ status' = "HDR_FIELD" /\ pc' = "read"
      /\ parsed' = parsed \o SubSeq(scratch, at + 1, at + FieldLen)
      /\ UNCHANGED <<stream, error, answers>>
  BY DEF FirstHeader, Next_, conn
<1>2. parsed # <<>>
  <2>1. before \in DOMAIN After /\ status = After[before]
    BY <1>1 DEF BytesInv, Phase
  <2>2. before # "none"
    BY <1>1, <2>1, Phases
  <2> QED
    BY <1>1, <2>2 DEF BytesInv, Phase
<1>3. /\ Len(parsed) \in Nat /\ DOMAIN parsed = 1..Len(parsed) /\ ParsedUpTo \in Nat
      /\ Len(parsed) \in DOMAIN parsed /\ parsed[Len(parsed)] = ParsedUpTo
      /\ ParsedUpTo \in DOMAIN stream /\ 1 \in DOMAIN parsed
  BY <1>1, <1>2, ParsedBytes
<1>4. InRequest
  BY <1>1, <1>2 DEF RequestsInv
<1>5. /\ FieldLen \in Nat /\ FieldLen >= 1 /\ at + FieldLen <= Len(scratch)
      /\ \A i \in 1..FieldLen : Is(scratch[at + i]) = "field"
  BY <1>1, FieldCounted
<1>6. /\ at \in Nat /\ Len(scratch) \in Nat /\ Taken \in Nat /\ DOMAIN stream = 1..Len(stream)
      /\ arrived <= Len(stream) /\ Len(stream) \in Nat /\ arrived \in Nat
      /\ scratch \in Seq(1..arrived) /\ parsed \in Seq(1..arrived)
  BY <1>1, UnitIsNext, Numbers DEF BytesInv
<1>7. ParsedUpTo = Taken - (Len(scratch) - at) /\ Run(scratch, Taken - Len(scratch))
  BY <1>1 DEF ParsedUpTo, BytesInv, Reading, Buffered
<1>8. ASSUME NEW i \in 1..FieldLen
      PROVE  /\ scratch[at + i] = ParsedUpTo + i /\ ParsedUpTo + i \in DOMAIN stream
             /\ Is(ParsedUpTo + i) = "field"
  <2>1. at + i \in 1..Len(scratch) /\ i \in Nat
    BY <1>5, <1>6
  <2>2. scratch[at + i] \in 1..arrived
    BY <1>6, <2>1, ElementOfSeq
  <2>3. scratch[at + i] = Taken - Len(scratch) + (at + i)
    BY <1>6, <1>7, <2>1 DEF Run
  <2>4. scratch[at + i] = ParsedUpTo + i
    BY <1>6, <1>7, <2>1, <2>3
  <2>5. scratch[at + i] \in DOMAIN stream
    BY <1>6, <2>2
  <2> QED
    BY <1>5, <2>4, <2>5
<1>9. ASSUME NEW i \in 1..FieldLen PROVE stream[ParsedUpTo + i].of = Current
  <2>1. ASSUME NEW x \in DOMAIN stream, ParsedUpTo < x, x <= ParsedUpTo + i
        PROVE  Is(x) # "method"
    <3>1. x \in Nat
      BY <1>6
    <3>2. PICK j \in 1..FieldLen : x = ParsedUpTo + j
      <4>1. x - ParsedUpTo \in 1..FieldLen /\ x = ParsedUpTo + (x - ParsedUpTo)
        BY <1>3, <1>5, <2>1, <3>1
      <4> QED
        BY <4>1
    <3> QED
      BY <1>8, <3>2
  <2>2. ParsedUpTo + i \in DOMAIN stream /\ ParsedUpTo <= ParsedUpTo + i
    BY <1>3, <1>8
  <2>3. stream[ParsedUpTo + i].of = stream[ParsedUpTo].of
    BY <1>3, <2>1, <2>2, SameRequest DEF BytesInv
  <2>4. stream[ParsedUpTo].of = Current
    BY <1>3, <1>4 DEF InRequest
  <2> QED
    BY <2>3, <2>4
<1> DEFINE f == SubSeq(scratch, at + 1, at + FieldLen)
<1>10. /\ f \in Seq(1..arrived) /\ Len(f) = FieldLen
       /\ \A i \in 1..FieldLen : f[i] = scratch[at + i]
  BY <1>1, FieldRead
<1>11. parsed' = parsed \o f
  BY <1>1
<1> HIDE DEF f
<1>12. /\ Len(parsed') = Len(parsed) + FieldLen /\ parsed' \in Seq(1..arrived)
       /\ \A i \in 1..(Len(parsed) + FieldLen) :
            parsed'[i] = IF i <= Len(parsed) THEN parsed[i] ELSE f[i - Len(parsed)]
  BY <1>6, <1>10, <1>11, ConcatProperties
<1>13. DOMAIN parsed' = 1..(Len(parsed) + FieldLen)
  BY <1>12, LenProperties
<1>14. ASSUME NEW i \in DOMAIN parsed' PROVE stream[parsed'[i]].of = Current
  <2>1. i \in 1..(Len(parsed) + FieldLen)
    BY <1>13
  <2>2. CASE i <= Len(parsed)
    <3>1. i \in DOMAIN parsed /\ parsed'[i] = parsed[i]
      BY <1>3, <1>12, <2>1, <2>2
    <3> QED
      BY <1>4, <3>1 DEF InRequest
  <2>3. CASE ~(i <= Len(parsed))
    <3>1. i - Len(parsed) \in 1..FieldLen
      BY <1>3, <1>5, <2>1, <2>3
    <3>2. parsed'[i] = ParsedUpTo + (i - Len(parsed))
      BY <1>8, <1>10, <1>12, <2>1, <2>3, <3>1
    <3> QED
      BY <1>9, <3>1, <3>2
  <2> QED
    BY <2>2, <2>3
<1>15. stream[parsed'[1]].is = "method" /\ parsed' # <<>>
  <2>1. 1 \in 1..(Len(parsed) + FieldLen) /\ 1 <= Len(parsed)
    BY <1>3, <1>5
  <2>2. parsed'[1] = parsed[1]
    BY <1>12, <2>1
  <2>3. parsed' # <<>>
    BY <1>3, <1>5, <1>12
  <2> QED
    BY <1>4, <2>2, <2>3 DEF InRequest, Is
<1>16. InRequest'
  BY <1>1, <1>14, <1>15 DEF InRequest, Current, Is
<1>17. error' = "none"
  BY <1>1 DEF RequestsInv
<1> QED
  BY <1>1, <1>15, <1>16, <1>17 DEF RequestsInv, UrlAt

\* A request whose headers ended and of which no header was parsed has none.
LEMMA BareRequest ==
  ASSUME BytesInv, KeepsToHttp(stream), pc \in {"read", "parse"}, parsed # <<>>, InRequest,
         \A i \in DOMAIN parsed : Is(parsed[i]) # "field",
         NEW e \in DOMAIN stream, e \in {ParsedUpTo, ParsedUpTo + 1}, Is(e) = "end",
         stream[e].of = Current
  PROVE  PartLen(Current, {"field"}) = 0
<1>1. /\ Len(parsed) \in Nat /\ DOMAIN parsed = 1..Len(parsed) /\ ParsedUpTo \in Nat
      /\ \A i \in DOMAIN parsed : /\ parsed[i] \in DOMAIN stream
                                  /\ parsed[i] = ParsedUpTo - Len(parsed) + i
      /\ 1 \in DOMAIN parsed
  BY ParsedBytes
<1> DEFINE b == parsed[1]
<1>2. b \in DOMAIN stream /\ Is(b) = "method" /\ stream[b].of = Current
  BY <1>1 DEF InRequest
<1>3. b = ParsedUpTo - Len(parsed) + 1
  BY <1>1
<1> HIDE DEF b
<1>4. ASSUME NEW x \in DOMAIN stream, b <= x, x <= e PROVE Is(x) # "field"
  <2>1. x \in Nat /\ e \in Nat /\ b \in Nat
    BY <1>2, ByteType DEF BytesInv
  <2>2. CASE x = e
    BY <2>2
  <2>3. CASE x # e
    <3>1. x <= ParsedUpTo /\ x - (ParsedUpTo - Len(parsed)) \in 1..Len(parsed)
      BY <1>1, <1>3, <1>4, <2>1, <2>3
    <3>2. PICK i \in DOMAIN parsed : i = x - (ParsedUpTo - Len(parsed))
      BY <1>1, <3>1
    <3>3. parsed[i] = x
      BY <1>1, <2>1, <3>1, <3>2
    <3> QED
      BY <3>3
  <2> QED
    BY <2>2, <2>3
<1>5. PartLen(stream[b].of, {"field"}) = 0
  BY <1>2, <1>4, NoField DEF BytesInv
<1> QED
  BY <1>2, <1>5

\* As long as no header has begun, there is none.
LEMMA NoFieldParsed ==
  ASSUME BytesInv, HeadersInv, pc \in {"read", "parse"}, status = "URL"
  PROVE  \A i \in DOMAIN parsed : Is(parsed[i]) # "field"
<1>1. Targets(Len(parsed))
  BY DEF HeadersInv, Composed
<1>2. \A i \in DOMAIN parsed : i <= Len(parsed)
  BY ParsedBytes
<1> QED
  BY <1>1, <1>2 DEF Targets

\* The handler is called for a whole request, and what was pushed back begins where
\* its headers end; but where it has none, with its target, and where it is chunked,
\* within it.
LEMMA CompleteRequests ==
  ASSUME BytesInv, HeadersInv, RequestsInv, KeepsToHttp(stream),
         NoBody \/ cb_on_body \/ LastChunk
  PROVE  RequestsInv'
<1>1. /\ pc = "parse" /\ at < Len(scratch) /\ pc' = "handler"
      /\ UNCHANGED <<stream, error, answers>> /\ Fits
  BY DEF NoBody, cb_on_body, LastChunk, cb_headers_complete, Next_, conn
<1>2. Current \in Nat /\ Current > 0 /\ Current' = Current
  <2>1. answers \in Seq(Nat)
    BY DEF BytesInv, TypeOK
  <2> QED
    BY <1>1, <2>1, LenProperties DEF Current
<1>3. error' = "none"
  BY <1>1 DEF RequestsInv
<1>4. ASSUME NEW q \in Seq(1..arrived), q # <<>>, stream[q[1]].is = "method",
             stream[q[Len(q)]].is \in {"end", "size", "last"},
             \A i \in DOMAIN q : q[i] = q[1] + i - 1,
             \A i \in DOMAIN q : stream[q[i]].of = Current, q = parsed'
      PROVE  Whole(parsed)' /\ stream'[parsed'[1]].of = Current'
  <2>1. DOMAIN q = 1..Len(q) /\ Len(q) \in Nat /\ 1 \in 1..Len(q)
    BY <1>4
  <2> QED
    BY <1>1, <1>2, <1>4, <2>1 DEF Whole, Is
<1>5. CASE cb_on_body
  <2>1. /\ status = "BODY" /\ UNCHANGED <<parsed, remaining_len>>
        /\ Is(unit) \in {"body", "chunk"}
    BY <1>5 DEF cb_on_body, Next_, aux
  <2>2. before \in {"end", "size"}
    <3>1. before \in DOMAIN After /\ After[before] = "BODY"
      BY <1>1, <2>1 DEF BytesInv, Phase
    <3> QED
      BY <3>1, Phases
  <2>3. parsed # <<>>
    BY <1>1, <2>2 DEF BytesInv, Phase
  <2>4. /\ Len(parsed) \in DOMAIN parsed /\ parsed[Len(parsed)] = ParsedUpTo
        /\ ParsedUpTo \in DOMAIN stream /\ Is(ParsedUpTo) = before /\ ParsedUpTo \in Nat
    BY <1>1, <2>2, <2>3, ParsedBytes
  <2>5. InRequest /\ remaining_len = BodyLen(Current)
    BY <1>1, <2>1, <2>3 DEF RequestsInv
  <2>6. stream[ParsedUpTo].of = Current
    BY <2>4, <2>5 DEF InRequest
  <2>7. Whole(parsed)' /\ stream'[parsed'[1]].of = Current'
    <3>1. parsed \in Seq(1..arrived) /\ \A i \in DOMAIN parsed : parsed[i] = parsed[1] + i - 1
      BY Numbers DEF BytesInv, ParsedInOrder
    <3> QED
      BY <1>4, <2>1, <2>2, <2>3, <2>4, <2>5, <3>1 DEF InRequest, Is
  <2>8. Taken' = ParsedUpTo
    BY <1>5, CompleteBytes
  <2>9. CASE Chunked(Current)
    <3>1. remaining_len' = 0
      BY <2>1, <2>5, <2>9 DEF BodyLen
    <3>2. unit \in DOMAIN stream /\ unit = ParsedUpTo + 1
      BY <1>1, UnitInRequest, UnitIsNext
    <3>3. Is(ParsedUpTo + 1) # "method"
      BY <2>1, <3>2
    <3>4. Astray(Taken, Current)'
      BY <1>1, <1>2, <2>8, <2>9, <3>2, <3>3 DEF Astray, Chunked, Is
    <3>5. Ahead(Current)'
      BY <3>1, <3>4 DEF Ahead
    <3> QED
      BY <1>1, <1>3, <2>7, <3>5 DEF RequestsInv
  <2>10. CASE ~Chunked(Current)
    <3>1. Is(ParsedUpTo) = "end"
      BY <2>2, <2>4, <2>6, <2>10, SizeOf DEF BytesInv
    <3>2. Boundary(ParsedUpTo + remaining_len, Current + 1)
      BY <2>4, <2>5, <2>6, <2>10, <3>1, RequestEnds DEF BytesInv
    <3>3. Ahead(Current)'
      BY <1>1, <1>2, <2>1, <2>8, <3>2 DEF Ahead, Boundary
    <3> QED
      BY <1>1, <1>3, <2>7, <3>3 DEF RequestsInv
  <2> QED
    BY <2>9, <2>10
<1>6. CASE NoBody
  <2>1. /\ Seen /\ Is(unit) = "end" /\ remaining_len' = BodyLen(stream[unit].of)
        /\ remaining_len' = 0 /\ ~Chunked(stream[unit].of)
    BY <1>6 DEF NoBody, cb_headers_complete, Next_
  <2>2. InRequest' /\ stream[unit].of = Current
    BY <1>1, <2>1, SeenRequests
  <2>3. /\ parsed' \in Seq(1..arrived) /\ parsed' # <<>> /\ parsed'[Len(parsed')] = unit
        /\ \A i \in DOMAIN parsed' : parsed'[i] = parsed'[1] + i - 1
    BY <1>1, <2>1, SeenBytes
  <2>4. Whole(parsed)' /\ stream'[parsed'[1]].of = Current'
    <3>1. /\ stream[parsed'[1]].is = "method" /\ stream[parsed'[Len(parsed')]].is = "end"
          /\ \A i \in DOMAIN parsed' : stream[parsed'[i]].of = Current
      BY <1>1, <1>2, <2>1, <2>2, <2>3 DEF InRequest, Is
    <3> QED
      BY <1>4, <2>3, <3>1
  <2>5. unit \in DOMAIN stream
    BY <1>1, UnitInRequest
  <2>6. CASE status # "URL"
    <3>1. Boundary(unit + remaining_len', Current + 1)
      BY <2>1, <2>2, <2>5, RequestEnds DEF BytesInv
    <3>2. Taken' = unit
      BY <1>6, <2>6, CompleteBytes
    <3>3. Ahead(Current)'
      BY <1>1, <1>2, <3>1, <3>2 DEF Ahead, Boundary
    <3> QED
      BY <1>1, <1>3, <2>4, <3>3 DEF RequestsInv
  <2>7. CASE status = "URL"
    <3>1. Taken' = ParsedUpTo - (at - last_at) /\ last_at \in Nat
      BY <1>6, <2>7, CompleteBytes
    <3>2. last_at + 1 \in DOMAIN parsed /\ Is(parsed[last_at + 1]) = "url"
      BY <1>1, <2>7 DEF RequestsInv, UrlAt
    <3>3. /\ Len(parsed) \in Nat /\ DOMAIN parsed = 1..Len(parsed) /\ ParsedUpTo \in Nat
          /\ parsed[last_at + 1] \in DOMAIN stream
          /\ parsed[last_at + 1] = ParsedUpTo - Len(parsed) + (last_at + 1)
      BY <1>1, <3>2, ParsedBytes
    <3>4. at = Len(parsed)
      BY <1>1, <2>7 DEF HeadersInv, Composed, NoHeader
    <3>5. parsed[last_at + 1] = Taken' + 1
      BY <3>1, <3>3, <3>4
    <3>6. parsed # <<>> /\ InRequest
      <4>1. parsed # <<>>
        BY <3>2, <3>3
      <4> QED
        BY <1>1, <4>1 DEF RequestsInv
    <3>7. \A i \in DOMAIN parsed : Is(parsed[i]) # "field"
      BY <1>1, <2>7, NoFieldParsed
    <3>8. unit = ParsedUpTo + 1
      BY <1>1, UnitIsNext
    <3>9. PartLen(Current, {"field"}) = 0
      BY <1>1, <2>1, <2>2, <2>5, <3>6, <3>7, <3>8, BareRequest
    <3>10. PartLen(Current, {"field"})' = 0
      BY <1>1, <1>2, <3>9 DEF PartLen, Is
    <3>11. Astray(Taken, Current)'
      BY <1>1, <1>2, <3>2, <3>3, <3>5, <3>10 DEF Astray, Is
    <3>12. Ahead(Current)'
      BY <2>1, <3>11 DEF Ahead
    <3> QED
      BY <1>1, <1>3, <2>4, <3>12 DEF RequestsInv
  <2> QED
    BY <2>6, <2>7
<1>7. CASE LastChunk
  <2>1. /\ Seen /\ Is(unit) = "last" /\ status = "BODY" /\ UNCHANGED remaining_len
    BY <1>7 DEF LastChunk, Next_, aux
  <2>2. before = "size"
    <3>1. before \in {"end", "size"}
      BY <1>1, <2>1, Phases DEF BytesInv, Phase
    <3> QED
      BY <1>1, <2>1, <3>1 DEF Fits, Grammar
  <2>3. InRequest' /\ stream[unit].of = Current
    BY <1>1, <2>1, SeenRequests
  <2>4. /\ parsed' \in Seq(1..arrived) /\ parsed' # <<>> /\ parsed'[Len(parsed')] = unit
        /\ \A i \in DOMAIN parsed' : parsed'[i] = parsed'[1] + i - 1
    BY <1>1, <2>1, SeenBytes
  <2>5. Whole(parsed)' /\ stream'[parsed'[1]].of = Current'
    <3>1. /\ stream[parsed'[1]].is = "method" /\ stream[parsed'[Len(parsed')]].is = "last"
          /\ \A i \in DOMAIN parsed' : stream[parsed'[i]].of = Current
      BY <1>1, <1>2, <2>1, <2>3, <2>4 DEF InRequest, Is
    <3> QED
      BY <1>4, <2>4, <3>1
  <2>6. /\ ParsedUpTo \in DOMAIN stream /\ Is(ParsedUpTo) = "size"
        /\ stream[ParsedUpTo].of = Current
    <3>1. parsed # <<>>
      BY <1>1, <2>2 DEF BytesInv, Phase
    <3>2. InRequest
      BY <1>1, <3>1 DEF RequestsInv
    <3> QED
      BY <1>1, <2>2, <3>1, <3>2, ParsedBytes DEF InRequest
  <2>7. Chunked(Current)
    BY <2>6, SizeOf DEF BytesInv
  <2>8. remaining_len' = 0
    BY <1>1, <2>1, <2>7 DEF RequestsInv, BodyLen
  <2>9. BodyStart < ParsedUpTo /\ BodyStart \in Nat /\ Is(BodyStart + 1) # "method"
    BY <1>1, <2>1, <2>2 DEF RequestsInv, NoneBegins
  <2>10. Taken' = BodyStart
    BY <1>7, CompleteBytes DEF BodyStart
  <2>11. BodyStart + 1 \in DOMAIN stream
    <3>1. DOMAIN stream = 1..Len(stream) /\ Len(stream) \in Nat
      BY Numbers DEF BytesInv
    <3> QED
      BY <2>6, <2>9, <3>1
  <2>12. Astray(Taken, Current)'
    BY <1>1, <1>2, <2>7, <2>9, <2>10, <2>11 DEF Astray, Chunked, Is
  <2>13. Ahead(Current)'
    BY <2>8, <2>12 DEF Ahead
  <2> QED
    BY <1>1, <1>3, <2>5, <2>13 DEF RequestsInv
<1> QED
  BY <1>5, <1>6, <1>7

\* The request is answered; the next one begins behind it.
LEMMA HandlerRequests ==
  ASSUME BytesInv, RequestsInv, httpd_resp_send \/ Send \/ Sent \/ Finish
  PROVE  RequestsInv'
<1>1. UNCHANGED <<stream, arrived, socket, pending, parsed, remaining_len, error>>
  BY DEF httpd_resp_send, Send, Sent, Finish, conn, parser, aux
<1>2. Taken' = Taken /\ Taken \in Nat /\ error' = error
  BY <1>1, Numbers DEF Taken, BytesInv
<1>3. \A r, ps : PartLen(r, ps)' = PartLen(r, ps) /\ Chunked(r)' = Chunked(r)
  BY <1>1 DEF PartLen, Chunked, Is
<1>4. CASE httpd_resp_send \/ Send
  <2>1. pc \in {"handler", "send"} /\ pc' = "send" /\ UNCHANGED answers
    BY <1>4 DEF httpd_resp_send, Send
  <2>2. Whole(parsed) /\ stream[parsed[1]].of = Current /\ Ahead(Current) /\ error = "none"
    BY <2>1 DEF RequestsInv
  <2>3. Whole(parsed)'
    BY <1>1, <2>2 DEF Whole, Is
  <2>4. Ahead(Current)'
    BY <1>1, <1>2, <1>3, <2>1, <2>2 DEF Ahead, Boundary, Astray, Current, Is
  <2>5. stream'[parsed'[1]].of = Current'
    BY <1>1, <2>1, <2>2 DEF Current
  <2> QED
    BY <1>2, <2>1, <2>2, <2>3, <2>4, <2>5 DEF RequestsInv
<1>5. CASE Sent
  <2>1. pc = "send" /\ pc' = "leftover" /\ answers' = Append(answers, Request)
    BY <1>5 DEF Sent
  <2>2. Ahead(Current) /\ error = "none"
    BY <2>1 DEF RequestsInv
  <2>3. Len(answers') = Current
    <3>1. answers \in Seq(Nat)
      BY DEF BytesInv, TypeOK
    <3> QED
      BY <2>1, <3>1 DEF Current
  <2>4. Ahead(Len(answers))'
    BY <1>1, <1>2, <1>3, <2>2, <2>3 DEF Ahead, Boundary, Astray, Is
  <2> QED
    BY <1>2, <2>1, <2>2, <2>4 DEF RequestsInv
<1>6. CASE Finish
  <2>1. pc = "leftover" /\ remaining_len = 0 /\ pc' = "select" /\ UNCHANGED answers
    BY <1>6 DEF Finish
  <2>2. Ahead(Len(answers)) /\ error = "none"
    BY <2>1 DEF RequestsInv
  <2>3. Taken + remaining_len = Taken
    BY <1>2, <2>1
  <2>4. AtNext(Taken)
    BY <2>2, <2>3 DEF Ahead, AtNext, Current
  <2>5. AtNext(Taken)'
    BY <1>1, <1>2, <1>3, <2>1, <2>4 DEF AtNext, Boundary, Astray, Current, Is
  <2> QED
    BY <1>2, <2>1, <2>2, <2>5 DEF RequestsInv
<1> QED
  BY <1>4, <1>5, <1>6

\* What is read of the body is not read of the next request.
LEMMA PurgeRequests ==
  ASSUME BytesInv, RequestsInv, Purge
  PROVE  RequestsInv'
<1>1. /\ Len(stream) \in Nat /\ Taken \in Nat /\ PURGE_BUF_LEN \in Nat
  BY Numbers, HttpRequestAssumption DEF BytesInv
<1>2. remaining_len \in Nat
  BY <1>1 DEF BytesInv, TypeOK
<1>3. PurgeLen \in Nat
  <2>1. PURGE_BUF_LEN \in Int /\ remaining_len \in Int
    BY <1>1, <1>2
  <2>2. PurgeLen = IF PURGE_BUF_LEN <= remaining_len THEN PURGE_BUF_LEN ELSE remaining_len
    BY <2>1, MinOfTwo DEF PurgeLen
  <2> QED
    BY <1>1, <1>2, <2>2
<1> DEFINE r == Recv(PurgeLen)
<1>4. Read(r, PurgeLen)
  BY <1>3, BodyRead DEF BytesInv
<1>5. /\ pc = "leftover" /\ pc' = "leftover" /\ pending' = r.pending /\ socket' = r.socket
      /\ remaining_len > 0 /\ remaining_len' = remaining_len - Len(r.data)
      /\ UNCHANGED <<stream, arrived, answers, error>>
  BY DEF Purge, conn, parser
<1> HIDE DEF r
<1>6. Taken' = Taken + Len(r.data) /\ Len(r.data) \in Nat
  BY <1>4, <1>5 DEF Read, Taken
<1>7. Taken' + remaining_len' = Taken + remaining_len
  <2>1. PICK n \in Nat : n = Len(r.data)
    BY <1>6
  <2>2. Taken' = Taken + n /\ remaining_len' = remaining_len - n
    BY <1>5, <1>6, <2>1
  <2> QED
    BY <1>1, <1>2, <2>2
<1>8. Ahead(Len(answers)) /\ error = "none"
  BY <1>5 DEF RequestsInv
<1>9. Boundary(Taken + remaining_len, Len(answers) + 1)
  BY <1>2, <1>5, <1>8 DEF Ahead
<1>10. Ahead(Len(answers))'
  BY <1>5, <1>7, <1>9 DEF Ahead, Boundary
<1> QED
  BY <1>5, <1>8, <1>10 DEF RequestsInv

\* Every step keeps to the requests.
LEMMA RequestsStep ==
  ASSUME BytesInv, HeadersInv, RequestsInv, KeepsToHttp(stream), [Next]_vars
  PROVE  RequestsInv'
<1>1. CASE Process
  BY <1>1, ProcessRequests
<1>2. CASE ReadBlock
  <2>1. /\ pc = "read" /\ pc' = "parse"
        /\ UNCHANGED <<stream, parsed, status, before, last_at, remaining_len, answers, error>>
    BY <1>2 DEF ReadBlock, conn, aux
  <2>2. ParsedUpTo' = ParsedUpTo /\ at' = Held
    BY <1>2, ReadBlockBytes
  <2>3. status = "BODY" => at' = at
    BY <2>1, <2>2 DEF Held, BytesInv, Reading, Repeated
  <2> QED
    BY <2>1, <2>2, <2>3, RequestsFrame
<1>3. CASE Closing
  <2>1. pc' = "closed"
    BY <1>3 DEF Closing, Close, Refuse
  <2> QED
    BY <2>1 DEF RequestsInv
<1>4. CASE BlockDone
  <2>1. /\ pc = "parse" /\ pc' = "read" /\ at' = at
        /\ UNCHANGED <<stream, parsed, status, before, last_at, remaining_len, answers, error>>
    BY <1>4 DEF BlockDone, conn, parser, aux
  <2>2. ParsedUpTo' = ParsedUpTo
    BY <1>4, BlockDoneBytes
  <2> QED
    BY <2>1, <2>2, RequestsFrame
<1>5. CASE Method \/ cb_url \/ cb_header_field \/ cb_header_value \/ HeadersBeforeBody
           \/ ChunkSize
  BY <1>5, GoesOnRequests
<1>6. CASE FirstHeader
  BY <1>6, FirstHeaderRequests
<1>7. CASE NoBody \/ cb_on_body \/ LastChunk
  BY <1>7, CompleteRequests
<1>8. CASE httpd_resp_send \/ Send \/ Sent \/ Finish
  BY <1>8, HandlerRequests
<1>9. CASE Purge
  BY <1>9, PurgeRequests
<1>10. CASE Arrive
  <2>1. UNCHANGED <<stream, pc, at, parsed, status, before, last_at, remaining_len, answers, error>>
    BY <1>10 DEF Arrive, buffer, parser, aux
  <2>2. ParsedUpTo' = ParsedUpTo /\ Taken' = Taken
    BY <1>10, ArriveBytes
  <2> QED
    BY <2>1, <2>2, RequestsFrame
<1>11. CASE Leave \/ UNCHANGED vars
  <2>1. /\ UNCHANGED <<stream, arrived, socket, pending, pc, scratch, at, pre_parsed>>
        /\ UNCHANGED <<parsed, status, before, last_at, remaining_len, answers, error>>
    BY <1>11 DEF Leave, vars, conn, buffer, parser, aux
  <2>2. ParsedUpTo' = ParsedUpTo /\ Taken' = Taken
    BY <2>1 DEF ParsedUpTo, Taken
  <2> QED
    BY <2>1, <2>2, RequestsFrame
<1> QED
  BY <1>1, <1>2, <1>3, <1>4, <1>5, <1>6, <1>7, <1>8, <1>9, <1>10, <1>11, Closings
     DEF Next, Server, Parser, Readable, OtherReadable

-----------------------------------------------------------------------------
(* What the server refuses is out of bounds.                               *)

\* The number of the request that is being read.
LEMMA CurrentType ==
  ASSUME BytesInv
  PROVE  Current \in Nat /\ Current >= 1 /\ Len(answers) \in Nat /\ Current = Len(answers) + 1
<1>1. answers \in Seq(Nat)
  BY DEF BytesInv, TypeOK
<1> QED
  BY <1>1, LenProperties DEF Current

\* A request without headers or with chunks is out of bounds, and so are those behind
\* it.
LEMMA AstrayOutOfBounds ==
  ASSUME NEW r \in Nat, NEW q \in 1..r, PartLen(q, {"field"}) = 0 \/ Chunked(q)
  PROVE  ~InBounds(r)
BY DEF InBounds

\* The parser finds something else than what it expects only where it has gone
\* astray.
LEMMA MisreadOutOfBounds ==
  ASSUME BytesInv, RequestsInv, KeepsToHttp(stream), pc = "parse", at < Len(scratch), ~Fits
  PROVE  ~InBounds(Current)
<1>1. /\ unit = ParsedUpTo + 1 /\ ParsedUpTo \in Nat /\ unit \in DOMAIN stream
  <2>1. unit \in 1..arrived /\ unit = ParsedUpTo + 1 /\ ParsedUpTo \in Nat
    BY UnitIsNext
  <2>2. DOMAIN stream = 1..Len(stream) /\ arrived <= Len(stream) /\ Len(stream) \in Nat
        /\ arrived \in Nat
    BY Numbers DEF BytesInv
  <2> QED
    BY <2>1, <2>2
<1>2. Current \in Nat /\ Current >= 1 /\ Len(answers) \in Nat /\ Current = Len(answers) + 1
  BY CurrentType
<1>3. CASE parsed = <<>>
  <2>1. before = "none" /\ Is(unit) # "method"
    <3>1. before = "none"
      BY <1>3 DEF BytesInv, Phase
    <3> QED
      BY <3>1 DEF Fits, Grammar
  <2>2. AtNext(ParsedUpTo)
    BY <1>3 DEF RequestsInv
  <2>3. ~Boundary(ParsedUpTo, Current)
    <3>1. Boundary(ParsedUpTo, Current) => Is(ParsedUpTo + 1) = "method"
      BY <1>1, <1>2, RequestBegins DEF BytesInv
    <3> QED
      BY <1>1, <2>1, <3>1
  <2>4. (PartLen(Len(answers), {"field"}) = 0 \/ Chunked(Len(answers))) /\ Len(answers) > 0
    BY <2>2, <2>3 DEF AtNext, Astray
  <2>5. Len(answers) \in 1..Current
    BY <1>2, <2>4
  <2> QED
    BY <1>2, <2>4, <2>5, AstrayOutOfBounds
<1>4. CASE Chunked(Current)
  BY <1>2, <1>4, AstrayOutOfBounds
<1>5. CASE parsed # <<>> /\ ~Chunked(Current)
  <2>1. /\ Len(parsed) \in DOMAIN parsed /\ parsed[Len(parsed)] = ParsedUpTo
        /\ ParsedUpTo \in DOMAIN stream /\ Is(ParsedUpTo) = before
    BY <1>5, ParsedBytes
  <2>2. before \in DOMAIN After /\ status = After[before] /\ Is(unit) \notin Grammar[before]
    BY DEF BytesInv, Phase, Fits
  <2>3. stream[ParsedUpTo].of = Current
    BY <1>5, <2>1 DEF RequestsInv, InRequest
  <2>4. unit > 1 /\ unit - 1 = ParsedUpTo
    <3>1. ParsedUpTo >= 1
      BY <2>1, ByteType DEF BytesInv
    <3> QED
      BY <1>1, <3>1
  <2>5. before \notin {"body", "chunk", "last"}
    BY <2>2, Phases
  <2>6. stream[unit].of = Current + 1 /\ Is(ParsedUpTo) \in {"end", "body", "last"}
    <3>1. \/ /\ stream[unit].of = stream[unit - 1].of
             /\ Is(unit) \in Follows(Is(unit - 1)) /\ Is(unit) # "method"
          \/ /\ stream[unit].of = stream[unit - 1].of + 1 /\ Is(unit) = "method"
             /\ Is(unit - 1) \in {"end", "body", "last"}
      BY <1>1, <2>4, NextByte DEF BytesInv
    <3>2. Follows(before) = Grammar[before]
      BY <2>5 DEF Follows
    <3> QED
      BY <2>1, <2>2, <2>3, <2>4, <3>1, <3>2
  <2>7. status = "BODY" /\ Is(ParsedUpTo) = "end"
    <3>1. before = "end"
      BY <2>1, <2>5, <2>6
    <3> QED
      BY <2>1, <2>2, <3>1, Phases
  <2>8. BodyLen(Current) > 0 /\ BodyLen(Current) \in Nat
    <3>1. BodyLen(Current) \in 0..Len(stream) /\ Len(stream) \in Nat
      BY BodyLenBound, Numbers DEF BytesInv
    <3> QED
      BY <1>5, <2>7, <3>1 DEF RequestsInv
  <2>9. Boundary(ParsedUpTo + BodyLen(Current), Current + 1)
    BY <1>5, <2>1, <2>3, <2>7, RequestEnds DEF BytesInv
  <2>10. unit <= ParsedUpTo + BodyLen(Current)
    BY <1>1, <2>8
  <2>11. stream[unit].of < Current + 1
    BY <1>1, <2>9, <2>10 DEF Boundary
  <2> QED
    BY <1>2, <2>6, <2>11
<1> QED
  BY <1>3, <1>4, <1>5

\* The bytes that were parsed are of the request, none of them is of its body, if it
\* is not chunked, and only the last can be the headers' end.
LEMMA ParsedParts ==
  ASSUME BytesInv, RequestsInv, KeepsToHttp(stream), pc \in {"read", "parse"}, parsed # <<>>,
         ~Chunked(Current),
         NEW p \in (ParsedUpTo - Len(parsed) + 1)..ParsedUpTo
  PROVE  /\ p \in DOMAIN stream /\ stream[p].of = Current
         /\ Is(p) \in {"method", "url", "field", "value", "end"}
         /\ p - (ParsedUpTo - Len(parsed)) \in DOMAIN parsed
         /\ parsed[p - (ParsedUpTo - Len(parsed))] = p
         /\ Is(p) = "end" => p = ParsedUpTo /\ status = "BODY"
<1>1. /\ Len(parsed) \in Nat /\ DOMAIN parsed = 1..Len(parsed) /\ ParsedUpTo \in Nat
      /\ \A i \in DOMAIN parsed : /\ parsed[i] \in DOMAIN stream
                                  /\ parsed[i] = ParsedUpTo - Len(parsed) + i
      /\ Len(parsed) \in DOMAIN parsed /\ parsed[Len(parsed)] = ParsedUpTo
      /\ ParsedUpTo \in DOMAIN stream /\ Is(ParsedUpTo) = before
  BY ParsedBytes
<1>2. InRequest
  BY DEF RequestsInv
<1>3. PICK i \in DOMAIN parsed : i = p - (ParsedUpTo - Len(parsed))
  <2>1. p - (ParsedUpTo - Len(parsed)) \in 1..Len(parsed)
    BY <1>1
  <2> QED
    BY <1>1, <2>1
<1>4. parsed[i] = p
  BY <1>1, <1>3
<1>5. p \in DOMAIN stream /\ stream[p].of = Current /\ stream[ParsedUpTo].of = Current
  BY <1>1, <1>2, <1>4 DEF InRequest
<1>6. before \in DOMAIN After /\ status = After[before]
  BY DEF BytesInv, Phase
<1>7. p <= ParsedUpTo /\ p \in Nat
  BY <1>1, <1>5, ByteType DEF BytesInv
<1>8. p # ParsedUpTo => Is(p) \notin {"end"} \cup BodyParts
  <2>1. SUFFICES ASSUME p # ParsedUpTo, Is(p) \in {"end"} \cup BodyParts PROVE FALSE
    OBVIOUS
  <2>2. p < ParsedUpTo
    BY <1>1, <1>7, <2>1
  <2>3. Is(ParsedUpTo) \in BodyParts
    BY <1>1, <1>5, <2>1, <2>2, HeadersFirst DEF BytesInv
  <2>4. before = "size"
    BY <1>1, <1>6, <2>3, Phases DEF BodyParts
  <2> QED
    BY <1>1, <1>5, <2>4, SizeOf DEF BytesInv
<1>9. p = ParsedUpTo => Is(p) \notin BodyParts /\ (Is(p) = "end" => status = "BODY")
  <2>1. before # "size"
    BY <1>1, <1>5, SizeOf DEF BytesInv
  <2> QED
    BY <1>1, <1>6, <2>1, Phases DEF BodyParts
<1>10. Is(p) \in Parts
  BY <1>5, ByteType DEF BytesInv
<1> QED
  BY <1>3, <1>4, <1>5, <1>8, <1>9, <1>10 DEF Parts, BodyParts

\* The buffer is full only where the target or the headers do not fit.
LEMMA TooLongOutOfBounds ==
  ASSUME BytesInv, HeadersInv, RequestsInv, KeepsToHttp(stream), pc = "read", BlockLen = 0
  PROVE  ~InBounds(Current)
<1>0. SUFFICES ASSUME ~Chunked(Current) PROVE ~InBounds(Current)
  BY CurrentType, AstrayOutOfBounds
<1>1. SCRATCH_SIZE \in Nat /\ SCRATCH_SIZE > 0 /\ offset = SCRATCH_SIZE
  <2>1. SCRATCH_SIZE \in Nat \ {0}
    BY HttpRequestAssumption
  <2>2. offset = SCRATCH_SIZE
    BY BlockFits DEF BytesInv
  <2> QED
    BY <2>1, <2>2
<1>2. ~paused /\ Buffered /\ offset = Len(scratch)
  BY <1>1 DEF BytesInv, Reading, Repeated
<1>3. at = SCRATCH_SIZE /\ Held = at
  <2>1. offset <= at /\ at <= Len(scratch) /\ at \in Nat
    BY <1>1, <1>2 DEF Buffered, BytesInv, TypeOK
  <2> QED
    BY <1>1, <1>2, <2>1 DEF Held
<1>4. before \in DOMAIN After /\ status = After[before] /\ Composed
  BY DEF BytesInv, Phase, HeadersInv
<1>5. /\ Len(parsed) \in Nat /\ DOMAIN parsed = 1..Len(parsed)
      /\ ParsedUpTo \in Nat /\ Len(parsed) <= ParsedUpTo
  BY ParsedBytes
<1>6. Current \in Nat /\ Current >= 1
  BY CurrentType
<1>7. ASSUME NoHeader, status \in {"IDLE", "URL", "BODY"}
      PROVE  Len(parsed) = SCRATCH_SIZE /\ parsed # <<>>
  <2>1. Len(parsed) = SCRATCH_SIZE
    BY <1>3, <1>7 DEF NoHeader
  <2> QED
    BY <1>1, <2>1
<1>8. CASE status \in {"IDLE", "URL"}
  <2>1. NoHeader /\ Targets(Len(parsed))
    BY <1>4, <1>8 DEF Composed
  <2>2. Len(parsed) = SCRATCH_SIZE /\ parsed # <<>>
    BY <1>7, <1>8, <2>1
  <2>3. ASSUME NEW p \in (ParsedUpTo - Len(parsed) + 1)..ParsedUpTo
        PROVE  p \in DOMAIN stream /\ stream[p].of = Current /\ Is(p) \in {"method", "url"}
    <3>1. /\ p \in DOMAIN stream /\ stream[p].of = Current
          /\ p - (ParsedUpTo - Len(parsed)) \in DOMAIN parsed
          /\ parsed[p - (ParsedUpTo - Len(parsed))] = p
      BY <1>0, <2>2, ParsedParts
    <3>2. p - (ParsedUpTo - Len(parsed)) <= Len(parsed)
      BY <1>5, <3>1
    <3> QED
      BY <2>1, <3>1, <3>2 DEF Targets
  <2>4. PartLen(Current, {"method", "url"}) >= ParsedUpTo - (ParsedUpTo - Len(parsed))
    <3>1. ParsedUpTo - Len(parsed) \in Nat /\ ParsedUpTo - Len(parsed) <= ParsedUpTo
      BY <1>5
    <3> QED
      BY <1>5, <2>3, <3>1, PartLenBound DEF BytesInv
  <2>5. ~(PartLen(Current, {"method", "url"}) < SCRATCH_SIZE)
    <3>1. PartLen(Current, {"method", "url"}) \in Nat
      <4>1. ParsedUpTo - Len(parsed) \in Nat /\ ParsedUpTo - Len(parsed) <= ParsedUpTo
        BY <1>5
      <4> QED
        BY <1>5, <2>3, <4>1, PartLenBound DEF BytesInv
    <3> QED
      BY <1>1, <1>5, <2>2, <2>4, <3>1
  <2> QED
    BY <2>5 DEF InBounds
<1> DEFINE hs == {"field", "value", "end"}
<1>9. ASSUME Held <= Len(parsed), Targets(Len(parsed) - Held)
      PROVE  /\ PartLen(Current, hs) \in Nat /\ PartLen(Current, hs) >= SCRATCH_SIZE
             /\ status # "BODY" /\ PartLen(Current, {"end"}) > 0
                  => PartLen(Current, hs) >= SCRATCH_SIZE + 1
  <2>1. parsed # <<>>
    BY <1>1, <1>3, <1>5, <1>9
  <2>2. /\ ParsedUpTo - at \in Nat /\ ParsedUpTo - at <= ParsedUpTo
        /\ ParsedUpTo - (ParsedUpTo - at) = SCRATCH_SIZE
    BY <1>1, <1>3, <1>5, <1>9
  <2>3. ASSUME NEW p \in ((ParsedUpTo - at) + 1)..ParsedUpTo
        PROVE  p \in DOMAIN stream /\ stream[p].of = Current /\ Is(p) \in hs
    <3>1. p \in (ParsedUpTo - Len(parsed) + 1)..ParsedUpTo
      BY <1>1, <1>3, <1>5, <1>9
    <3>2. /\ p \in DOMAIN stream /\ stream[p].of = Current
          /\ Is(p) \in {"method", "url", "field", "value", "end"}
          /\ p - (ParsedUpTo - Len(parsed)) \in DOMAIN parsed
          /\ parsed[p - (ParsedUpTo - Len(parsed))] = p
      BY <1>0, <2>1, <3>1, ParsedParts
    <3>3. ~(p - (ParsedUpTo - Len(parsed)) <= Len(parsed) - Held)
      BY <1>1, <1>3, <1>5, <1>9
    <3>4. Is(p) \notin {"method", "url"}
      BY <1>9, <3>2, <3>3 DEF Targets
    <3> QED
      BY <3>2, <3>4
  <2> HIDE DEF hs
  <2>4. /\ PartLen(Current, hs) \in Nat
        /\ PartLen(Current, hs) >= ParsedUpTo - (ParsedUpTo - at)
        /\ \A e \in DOMAIN stream : stream[e].of = Current /\ Is(e) \in hs /\ e > ParsedUpTo
             => PartLen(Current, hs) >= ParsedUpTo - (ParsedUpTo - at) + 1
    BY <1>5, <2>2, <2>3, PartLenBound DEF BytesInv
  <2>5. ASSUME status # "BODY", PartLen(Current, {"end"}) > 0
        PROVE  PartLen(Current, hs) >= SCRATCH_SIZE + 1
    <3>1. PICK e \in DOMAIN stream : stream[e].of = Current /\ Is(e) = "end"
      <4>1. {p \in DOMAIN stream : stream[p].of = Current /\ Is(p) \in {"end"}} # {}
        BY <2>5, FS_EmptySet DEF PartLen
      <4> QED
        BY <4>1
    <3>2. e > ParsedUpTo
      <4>1. SUFFICES ASSUME e <= ParsedUpTo PROVE FALSE
        BY <1>5, ByteType DEF BytesInv
      <4>2. /\ ParsedUpTo \in DOMAIN stream /\ Is(ParsedUpTo) = before
            /\ stream[ParsedUpTo].of = Current
        <5>1. /\ ParsedUpTo \in DOMAIN stream /\ Is(ParsedUpTo) = before
              /\ Len(parsed) \in DOMAIN parsed /\ parsed[Len(parsed)] = ParsedUpTo
          BY <2>1, ParsedBytes
        <5> QED
          BY <2>1, <5>1 DEF RequestsInv, InRequest
      <4>3. before \notin {"end"} \cup BodyParts
        BY <1>4, <2>5, Phases DEF BodyParts
      <4>4. e < ParsedUpTo
        BY <1>5, <3>1, <4>1, <4>2, <4>3, ByteType DEF BytesInv
      <4>5. Is(ParsedUpTo) \in BodyParts
        BY <3>1, <4>2, <4>4, HeadersFirst DEF BytesInv
      <4> QED
        BY <4>2, <4>3, <4>5
    <3>3. Is(e) \in hs
      BY <3>1 DEF hs
    <3> QED
      BY <2>2, <2>4, <3>1, <3>2, <3>3
  <2> QED
    BY <2>2, <2>4, <2>5
<1> HIDE DEF hs
<1>10. BodyLen(Current) \in Nat
  <2>1. BodyLen(Current) \in 0..Len(stream) /\ Len(stream) \in Nat
    BY BodyLenBound, Numbers DEF BytesInv
  <2> QED
    BY <2>1
<1>11. CASE InHeaders
  <2>1. Held <= Len(parsed) /\ Targets(Len(parsed) - Held) /\ status # "BODY"
    BY <1>4, <1>11 DEF Composed, InHeaders
  <2>2. SUFFICES ASSUME InBounds(Current) PROVE FALSE
    OBVIOUS
  <2>3. PartLen(Current, {"end"}) > 0
    BY <2>2 DEF InBounds
  <2>4. PartLen(Current, hs) \in Nat /\ PartLen(Current, hs) >= SCRATCH_SIZE + 1
    BY <1>9, <2>1, <2>3
  <2>5. PartLen(Current, hs) + (IF BodyLen(Current) > 0 THEN 1 ELSE 0) <= SCRATCH_SIZE
    BY <2>2 DEF InBounds, hs
  <2> QED
    BY <1>1, <2>4, <2>5
<1>12. CASE status = "BODY"
  <2>1. BodyLen(Current) > 0
    BY <1>0, <1>12 DEF RequestsInv
  <2>2. CASE Held <= Len(parsed) /\ Targets(Len(parsed) - Held)
    <3>1. PartLen(Current, hs) \in Nat /\ PartLen(Current, hs) >= SCRATCH_SIZE
      BY <1>9, <2>2
    <3>2. ~(PartLen(Current, hs) + 1 <= SCRATCH_SIZE)
      BY <1>1, <3>1
    <3> QED
      BY <2>1, <3>2 DEF InBounds, hs
  <2>3. CASE NoHeader
    <3>1. parsed # <<>>
      BY <1>7, <1>12, <2>3
    <3>2. before \in {"end", "size"}
      BY <1>4, <1>12, Phases
    <3>3. /\ ParsedUpTo \in DOMAIN stream /\ Is(ParsedUpTo) = before
          /\ Len(parsed) \in DOMAIN parsed /\ parsed[Len(parsed)] = ParsedUpTo
      BY <3>1, ParsedBytes
    <3>4. InRequest
      BY <3>1 DEF RequestsInv
    <3>5. stream[ParsedUpTo].of = Current /\ Is(ParsedUpTo) = "end"
      <4>1. stream[ParsedUpTo].of = Current
        BY <3>3, <3>4 DEF InRequest
      <4> QED
        BY <1>0, <3>2, <3>3, <4>1, SizeOf DEF BytesInv
    <3>6. \A i \in DOMAIN parsed : Is(parsed[i]) # "field"
      <4> DEFINE S == {i \in DOMAIN parsed : Is(parsed[i]) = "field"}
      <4>1. S \in SUBSET Nat
        BY <1>5
      <4>2. SUFFICES ASSUME S # {} PROVE FALSE
        OBVIOUS
      <4>3. PICK i \in S : \A j \in S : i <= j
        BY <4>1, <4>2, LeastExists
      <4>4. i \in 1..Len(parsed) /\ Is(parsed[i]) = "field"
        BY <1>5, <4>3
      <4>5. i # 1 => i - 1 \in DOMAIN parsed /\ i - 1 \notin S
        <5>1. i # 1 => i - 1 \in 1..Len(parsed)
          BY <1>5, <4>4
        <5>2. ~(i <= i - 1)
          BY <4>4
        <5> QED
          BY <1>5, <4>3, <5>1, <5>2
      <4>6. i \in FirstBytes
        BY <1>5, <4>4, <4>5 DEF FirstBytes
      <4> QED
        BY <2>3, <4>6 DEF NoHeader
    <3>7. PartLen(Current, {"field"}) = 0
      BY <3>1, <3>3, <3>4, <3>5, <3>6, BareRequest
    <3> QED
      BY <1>6, <3>7, AstrayOutOfBounds
  <2> QED
    BY <1>4, <1>12, <2>2, <2>3 DEF Composed
<1> QED
  BY <1>4, <1>8, <1>11, <1>12, Phases DEF InHeaders

\* What is behind the headers has no room among the pending data only where it is
\* the whole buffer, behind a target without headers.
LEMMA PauseFailsOutOfBounds ==
  ASSUME BytesInv, HeadersInv, RequestsInv, KeepsToHttp(stream), PauseFails
  PROVE  ~InBounds(Current)
<1>1. /\ pc = "parse" /\ at < Len(scratch) /\ Is(unit) = "end" /\ Fits /\ ~CanPause(Behind)
  BY DEF PauseFails, Next_
<1>2. /\ at \in Nat /\ Len(scratch) \in Nat /\ offset \in Nat /\ PARSER_BLOCK_SIZE \in Nat
      /\ at + 1 <= Len(scratch) /\ unit = ParsedUpTo + 1
  BY <1>1, UnitIsNext, Numbers, HttpRequestAssumption DEF BytesInv, TypeOK
<1>3. offset <= at /\ Len(scratch) - offset <= PARSER_BLOCK_SIZE
  BY <1>1 DEF BytesInv, Reading, Buffered
<1>4. status = "URL"
  <2>1. SUFFICES ASSUME status # "URL" PROVE FALSE
    OBVIOUS
  <2>2. ~(Len(scratch) - (at + 1) <= PARSER_BLOCK_SIZE)
    BY <1>1, <2>1 DEF CanPause, Behind
  <2> QED
    BY <1>2, <1>3, <2>2
<1>5. unit \in DOMAIN stream /\ stream[unit].of = Current
  BY <1>1, UnitInRequest
<1>6. parsed # <<>> /\ InRequest
  <2>1. parsed # <<>>
    BY <1>1, UnitInRequest
  <2> QED
    BY <1>1, <2>1 DEF RequestsInv
<1>7. \A i \in DOMAIN parsed : Is(parsed[i]) # "field"
  BY <1>1, <1>4, NoFieldParsed
<1>8. PartLen(Current, {"field"}) = 0
  BY <1>1, <1>2, <1>5, <1>6, <1>7, BareRequest
<1>9. Current \in Nat /\ Current \in 1..Current
  BY CurrentType
<1> QED
  BY <1>8, <1>9, AstrayOutOfBounds

\* Where the last chunk is found, there are chunks.
LEMMA LastFailsOutOfBounds ==
  ASSUME BytesInv, RequestsInv, KeepsToHttp(stream), LastFails
  PROVE  ~InBounds(Current)
<1>1. pc = "parse" /\ at < Len(scratch) /\ Is(unit) = "last" /\ Fits
  BY DEF LastFails, Next_
<1>2. before \in DOMAIN After
  BY <1>1 DEF BytesInv, Phase
<1>3. before = "size"
  BY <1>1, <1>2, Phases DEF Fits, Grammar
<1>4. parsed # <<>>
  BY <1>1, <1>3 DEF BytesInv, Phase
<1>5. ParsedUpTo \in DOMAIN stream /\ Is(ParsedUpTo) = "size" /\ stream[ParsedUpTo].of = Current
  <2>1. InRequest
    BY <1>1, <1>4 DEF RequestsInv
  <2> QED
    BY <1>1, <1>3, <1>4, <2>1, ParsedBytes DEF InRequest
<1>6. Chunked(Current)
  BY <1>5, SizeOf DEF BytesInv
<1> QED
  BY <1>6, CurrentType, AstrayOutOfBounds

\* A refusal for the request's sake is of one out of bounds.
LEMMA WellReadStep ==
  ASSUME BytesInv, HeadersInv, RequestsInv, WellRead, KeepsToHttp(stream), [Next]_vars
  PROVE  WellRead'
<1> DEFINE Told == {"400", "414", "431", "500"}
<1>1. \A r : InBounds(r)' <=> InBounds(r)
  <2>1. stream' = stream
    BY DEF Next, Server, Parser, Readable, OtherReadable, Process, ReadBlock, TooLong,
           EndOfStream, Timeout, BlockDone, Misread, Method, cb_url, LongTarget, BadUrl, FirstHeader,
           cb_header_field, cb_header_value, HeadersBeforeBody, NoBody, PauseFails,
           Upgrade, ChunkSize, LastChunk, LastFails, RecvFails, cb_on_body, cb_headers_complete, NoAnswer, httpd_resp_send, Send, SendFails,
           Sent, Purge, PurgeFails, Finish, Arrive, Leave, Close, Refuse, vars, conn
  <2>2. \A r, ps : PartLen(r, ps)' = PartLen(r, ps)
    BY <2>1 DEF PartLen, Is
  <2>3. \A r : BodyLen(r)' = BodyLen(r) /\ Chunked(r)' = Chunked(r)
    BY <2>1 DEF BodyLen, Chunked
  <2> QED
    BY <2>2, <2>3 DEF InBounds
<1>2. ASSUME ~InBounds(Current), UNCHANGED answers
      PROVE  WellRead'
  BY <1>1, <1>2 DEF WellRead, Current
<1>3. ASSUME error' \notin Told
      PROVE  WellRead'
  BY <1>3 DEF WellRead
<1>4. ASSUME pc # "closed", UNCHANGED error
      PROVE  WellRead'
  BY <1>3, <1>4 DEF RequestsInv
<1>5. CASE Misread
  <2>1. ~InBounds(Current)
    BY <1>5, MisreadOutOfBounds DEF Misread
  <2> QED
    BY <1>2, <1>5, <2>1 DEF Misread, Refuse
<1>6. CASE TooLong
  <2>1. ~InBounds(Current)
    BY <1>6, TooLongOutOfBounds DEF TooLong
  <2> QED
    BY <1>2, <1>6, <2>1 DEF TooLong, Refuse
<1>7. CASE PauseFails
  <2>1. ~InBounds(Current)
    BY <1>7, PauseFailsOutOfBounds
  <2> QED
    BY <1>2, <1>7, <2>1 DEF PauseFails, Refuse
<1>8. CASE Timeout \/ LongTarget \/ BadUrl \/ Upgrade \/ NoAnswer
  BY <1>3, <1>8 DEF Timeout, LongTarget, BadUrl, Upgrade, NoAnswer, Refuse
<1>9. CASE Process
  BY <1>3, <1>9 DEF Process, NewRequest
<1>10. CASE EndOfStream \/ SendFails \/ PurgeFails \/ RecvFails
  BY <1>4, <1>10 DEF EndOfStream, SendFails, PurgeFails, RecvFails, Waiting, Close, parser
<1>11. CASE ReadBlock \/ BlockDone
  BY <1>4, <1>11 DEF ReadBlock, BlockDone, parser
<1>12. CASE Method \/ cb_url \/ cb_header_field \/ cb_header_value \/ HeadersBeforeBody
            \/ ChunkSize
  <2>1. GoesOn
    BY <1>12, BytesGoOn
  <2> QED
    BY <1>4, <2>1 DEF GoesOn
<1>13. CASE FirstHeader \/ NoBody \/ cb_on_body \/ LastChunk
  BY <1>4, <1>13 DEF FirstHeader, NoBody, cb_on_body, LastChunk, cb_headers_complete, Next_
<1>14. CASE httpd_resp_send \/ Send \/ Sent \/ Finish
  BY <1>4, <1>14 DEF httpd_resp_send, Send, Sent, Finish, parser
<1>15. CASE Purge \/ Arrive \/ Leave
  BY <1>4, <1>15 DEF Purge, Arrive, Leave, parser
<1>16. CASE UNCHANGED vars
  BY <1>1, <1>16 DEF WellRead, vars, parser
<1>17. CASE LastFails
  <2>1. ~InBounds(Current)
    BY <1>17, LastFailsOutOfBounds
  <2> QED
    BY <1>2, <1>17, <2>1 DEF LastFails, Refuse
<1> QED
  BY <1>5, <1>6, <1>7, <1>8, <1>9, <1>10, <1>11, <1>12, <1>13, <1>14, <1>15, <1>16, <1>17
     DEF Next, Server, Parser, Readable, OtherReadable

-----------------------------------------------------------------------------
(* The session of a client that keeps to HTTP.                             *)

\* At the beginning nothing was read: the first request begins at the first byte.
LEMMA IndInit ==
  ASSUME Init
  PROVE  IndInv
<1>1. BytesInv
  BY BytesInit
<1>2. HeadersInv
  BY DEF Init, HeadersInv
<1>3. AtNext(Taken)
  <2>1. Taken = 0 /\ Current = 1
    <3>1. arrived = 0 /\ Len(socket) = 0 /\ Len(pending) = 0 /\ Len(answers) = 0
      BY DEF Init
    <3> QED
      BY <3>1 DEF Taken, Current
  <2>2. \A p \in DOMAIN stream : ~(p <= 0) /\ ~(stream[p].of < 1)
    BY <1>1, ByteType DEF BytesInv
  <2> QED
    BY <2>1, <2>2 DEF AtNext, Boundary
<1>4. RequestsInv /\ WellRead
  BY <1>3 DEF Init, RequestsInv, WellRead
<1> QED
  BY <1>1, <1>2, <1>4 DEF IndInv

\* No step breaks it.
LEMMA IndStep ==
  ASSUME ClientsKeepToHttp, IndInv, [Next]_vars
  PROVE  IndInv'
<1>1. KeepsToHttp(stream)
  BY DEF ClientsKeepToHttp, IndInv, BytesInv, InTransit
<1> QED
  BY <1>1, BytesStep, HeadersStep, RequestsStep, WellReadStep DEF IndInv

\* A client that sends requests with headers and bodies of known length, and none with
\* chunks, is never told that what it sent is no request, nor that one is too long
\* that has room, wherever blocks end, data is pushed back (cb_header_field,
\* cb_no_body, cb_on_body), and bodies are left to httpd_req_delete().  Refusals of a
\* target, a version or an upgrade, which are for what a request asks, are not meant.
THEOREM RequestsWellRead ==
  ASSUME ClientsKeepToHttp
  PROVE  Spec => []WellRead
<1>1. Init => IndInv
  BY IndInit
<1>2. IndInv /\ [Next]_vars => IndInv'
  BY IndStep
<1>3. IndInv => WellRead
  BY DEF IndInv
<1> QED
  BY <1>1, <1>2, <1>3, PTL DEF Spec

\* Wherever its blocks ended, the handler finds all headers of its request, and of no
\* other, at the buffer's beginning, and their number is right; once the response has
\* overwritten them it finds none (httpd_resp_send).
THEOREM HandlerSeesHeaders ==
  ASSUME ClientsKeepToHttp
  PROVE  Spec => []HeadersAvailable
<1>1. Init => IndInv
  BY IndInit
<1>2. IndInv /\ [Next]_vars => IndInv'
  BY IndStep
<1>3. IndInv => HeadersAvailable
  <2> SUFFICES ASSUME IndInv, pc \in {"handler", "send"}, req_hdrs_count > 0
               PROVE  /\ Whole(parsed)
                      /\ \E k \in 0..Len(parsed) :
                           Targets(k) /\ IsPrefix(From(parsed, k + 1), scratch)
                      /\ req_hdrs_count = Cardinality(FirstBytes)
    BY DEF HeadersAvailable
  <2>1. pc = "handler"
    BY DEF IndInv, HeadersInv
  <2> QED
    BY <2>1 DEF IndInv, HeadersInv, HeadersFound, RequestsInv
<1> QED
  BY <1>1, <1>2, <1>3, PTL DEF Spec

\* A step answers the next request, closes the session, or is none of the stream's.
LEMMA StreamStep ==
  ASSUME IndInv, [Next]_vars
  PROVE  [AbstractStream!Next]_<<answers, pc # "closed">>
<1>1. CASE Sent
  <2>1. /\ pc = "send" /\ reply = Pieces /\ pc' = "leftover"
        /\ answers' = Append(answers, Request)
    BY <1>1 DEF Sent
  <2>2. Whole(parsed) /\ stream[parsed[1]].of = Current
    BY <2>1 DEF IndInv, RequestsInv
  <2>3. Request = Len(answers) + 1
    BY <2>1, <2>2 DEF Request, Current
  <2> QED
    BY <2>1, <2>3 DEF AbstractStream!Next, AbstractStream!Answer
<1>2. CASE Closing
  <2>1. pc' = "closed" /\ UNCHANGED answers
    BY <1>2 DEF Closing, Close, Refuse
  <2> QED
    BY <2>1 DEF AbstractStream!Next, AbstractStream!Close
<1>3. ASSUME UNCHANGED answers, (pc # "closed") = (pc' # "closed")
      PROVE  [AbstractStream!Next]_<<answers, pc # "closed">>
  BY <1>3
<1>4. CASE Process \/ ReadBlock \/ BlockDone
  BY <1>3, <1>4 DEF Process, ReadBlock, BlockDone
<1>5. CASE Method \/ cb_url \/ cb_header_field \/ cb_header_value \/ HeadersBeforeBody
           \/ ChunkSize
  <2>1. GoesOn
    BY <1>5, BytesGoOn DEF IndInv
  <2> QED
    BY <1>3, <2>1 DEF GoesOn
<1>6. CASE FirstHeader \/ NoBody \/ cb_on_body \/ LastChunk
  BY <1>3, <1>6 DEF FirstHeader, NoBody, cb_on_body, LastChunk, cb_headers_complete, Next_
<1>7. CASE httpd_resp_send \/ Send \/ Finish
  BY <1>3, <1>7 DEF httpd_resp_send, Send, Finish
<1>8. CASE Purge \/ Arrive \/ Leave \/ UNCHANGED vars
  BY <1>3, <1>8 DEF Purge, Arrive, Leave, vars
<1> QED
  BY <1>1, <1>2, <1>4, <1>5, <1>6, <1>7, <1>8, Closings
     DEF Next, Server, Parser, Readable, OtherReadable

\* The session implements the stream of requests that a client may suppose: they are
\* answered in the order they were sent, each once and as a whole, until the session is
\* closed.  Behind a request with chunks or without headers there is no answer: the
\* server goes on within it, where no byte is a method (that the data of a chunk begins
\* no request is a supposition of Parts).
THEOREM StreamImplemented ==
  ASSUME ClientsKeepToHttp
  PROVE  Spec => ImplementsStream
<1>1. Init => IndInv
  BY IndInit
<1>2. IndInv /\ [Next]_vars => IndInv'
  BY IndStep
<1>3. Init => AbstractStream!Init
  BY DEF Init, AbstractStream!Init
<1>4. IndInv /\ [Next]_vars => [AbstractStream!Next]_<<answers, pc # "closed">>
  BY StreamStep
<1> QED
  BY <1>1, <1>2, <1>3, <1>4, PTL DEF Spec, ImplementsStream, AbstractStream!Spec
=============================================================================
