--------------------------- MODULE MCHttpRequest ----------------------------
(***************************************************************************)
(* HttpRequest for TLC: two requests one after the other, with what makes  *)
(* a block or the buffer end in every part of them.                        *)
(***************************************************************************)
EXTENDS HttpRequest

m == <<"method">>
u == <<"url">>
f == <<"field">>
v == <<"value">>
e == <<"end">>
b == <<"body">>
s == <<"size">>
c == <<"chunk">>
l == <<"last">>

\* Requests: short, with a long name, with a body, without headers, too long in
\* each of their parts; with chunks, empty ones, and more of them than can be
\* pushed back.
Short    == m \o u \o f \o v \o e
Names    == m \o u \o f \o f \o v \o f \o v \o e
Posted   == m \o u \o u \o f \o v \o e \o b \o b \o b
Bare     == m \o u \o e
LongBare == m \o u \o u \o u \o u \o e
LongUrl  == m \o u \o u \o u \o u \o u \o u \o f \o v \o e
LongHdr  == m \o u \o f \o v \o v \o v \o v \o v \o v \o e
BarePost == m \o u \o e \o b \o b
Cut      == m \o u \o f \o v \o v
FullHdr  == m \o u \o f \o v \o v \o v \o v \o v \o e \o b
Chunks   == m \o u \o f \o v \o e \o s \o c \o s \o c \o s \o l
NoChunk  == m \o u \o f \o v \o e \o s \o l
LongSize == m \o u \o f \o v \o e \o s \o s \o s \o l

Of(r, parts) == [i \in 1..Len(parts) |-> [of |-> r, is |-> parts[i]]]
TwoRequests ==
  {Of(1, p) \o Of(2, q) : p \in {Short, Names, Posted, Bare}, q \in {Short, Posted, Names}}
    \cup {Of(1, Short) \o Of(2, q) : q \in {LongBare, LongUrl, LongHdr, FullHdr}}
    \cup {Of(1, BarePost) \o Of(2, Posted), Of(1, Names) \o Of(2, Cut)}
    \cup {Of(1, p) \o Of(2, Short) : p \in {Chunks, NoChunk, LongSize}}
ASSUME ClientsKeepToHttp

=============================================================================
