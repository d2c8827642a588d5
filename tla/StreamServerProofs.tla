------------------------- MODULE StreamServerProofs -------------------------
(***************************************************************************)
(* Theorems about StreamServer for any number of connections, any bytes    *)
(* and any max_clients: what the clients send reaches the UART once and in *)
(* order; no client gets a chunk twice, and their number keeps its limit.  *)
(***************************************************************************)
EXTENDS StreamServer, SequenceTheorems, FiniteSetTheorems, FunctionTheorems,
        WellFoundedInduction, TLAPS

-----------------------------------------------------------------------------
(* The bytes from the clients to the UART.                                 *)

\* What has been received and not yet written: behind the write it is what the
\* erase will leave.
Waiting == IF pc = "erase" THEN SubSeq(recv_buf_, len + 1, Len(recv_buf_)) ELSE recv_buf_

\* The inductive invariant: the write and the erase that follows it are of the same
\* bytes, since callbacks only append.
UartInv ==
  /\ recv_buf_ \in Seq(Nat) /\ uart \in Seq(Nat) /\ arrived \in Nat
  /\ pc = "erase" => len \in 0..Len(recv_buf_)
  /\ Waiting \in Seq(Nat) /\ UartInOrder

\* Appending to the second of two sequences appends to both together.
LEMMA AppendMovesOut ==
  ASSUME NEW s \in Seq(Nat), NEW t \in Seq(Nat), NEW e \in Nat
  PROVE  s \o Append(t, e) = Append(s \o t, e)
OBVIOUS

\* Where two sequences make the numbers up to n, the next number makes one more.
LEMMA NumbersAppended ==
  ASSUME NEW n \in Nat, NEW s \in Seq(Nat), NEW t \in Seq(Nat), s \o t = [p \in 1..n |-> p]
  PROVE  s \o Append(t, n + 1) = [p \in 1..(n + 1) |-> p]
<1> DEFINE w == s \o t
<1> DEFINE u == Append(w, n + 1)
<1>1. n + 1 \in Nat
  OBVIOUS
<1>2. s \o Append(t, n + 1) = u
  BY <1>1, AppendMovesOut
<1>3. w \in Seq(Nat)
  BY ConcatProperties
<1>4. w = [p \in 1..n |-> p]
  OBVIOUS
<1> HIDE DEF w
<1>5. DOMAIN w = 1..Len(w) /\ Len(w) \in Nat
  BY <1>3, LenProperties
<1>6. Len(w) = n /\ \A p \in 1..n : w[p] = p
  BY <1>4, <1>5
<1>7. /\ u \in Seq(Nat) /\ Len(u) = n + 1 /\ u[n + 1] = n + 1
      /\ \A p \in 1..n : u[p] = w[p]
  BY <1>1, <1>3, <1>6, AppendProperties
<1>8. u \in [1..(n + 1) -> Nat]
  BY <1>7, LenProperties
<1> HIDE DEF u
<1>9. \A p \in 1..(n + 1) : u[p] = p
  BY <1>6, <1>7
<1>10. u = [p \in 1..(n + 1) |-> p]
  BY <1>8, <1>9
<1> QED
  BY <1>2, <1>10

\* The rest behind the first k bytes grows with the buffer.
LEMMA RestAppended ==
  ASSUME NEW b \in Seq(Nat), NEW k \in 0..Len(b), NEW e \in Nat
  PROVE  SubSeq(Append(b, e), k + 1, Len(b) + 1) = Append(SubSeq(b, k + 1, Len(b)), e)
<1> DEFINE r == SubSeq(b, k + 1, Len(b))
<1> DEFINE a == Append(b, e)
<1>1. Len(b) \in Nat /\ k \in Nat /\ k <= Len(b) /\ <<e>> \in Seq(Nat)
  OBVIOUS
<1>2. a \in Seq(Nat) /\ Len(a) = Len(b) + 1 /\ a[Len(b) + 1] = e /\ a = b \o <<e>>
  BY AppendProperties, AppendIsConcat
<1>3. r \in Seq(Nat)
  BY <1>1
<1>4. SubSeq(a, k + 1, Len(b)) = r
  <2>1. CASE k = Len(b)
    BY <1>1, <2>1, SubSeqEmpty
  <2>2. CASE k # Len(b)
    <3>1. k + 1 \in 1..Len(b) /\ Len(b) \in 1..Len(b)
      BY <1>1, <2>2
    <3> QED
      BY <1>1, <1>2, <3>1, SubSeqOfConcat1
  <2> QED
    BY <2>1, <2>2
<1>5. SubSeq(a, k + 1, Len(b) + 1) = SubSeq(a, k + 1, Len(b)) \o <<e>>
  <2>1. k + 1 \in 1..Len(a) /\ Len(a) \in (k + 1)..Len(a) /\ Len(a) - 1 = Len(b)
    BY <1>1, <1>2
  <2> HIDE DEF a
  <2>2. SubSeq(a, k + 1, Len(a)) = SubSeq(a, k + 1, Len(a) - 1) \o <<a[Len(a)]>>
    BY <1>2, <2>1, SubSeqRecursiveSecond
  <2> QED
    BY <1>2, <2>1, <2>2
<1>6. Append(r, e) = r \o <<e>>
  <2> HIDE DEF r
  <2> QED
    BY <1>3, AppendIsConcat
<1> QED
  BY <1>4, <1>5, <1>6

\* A callback's byte joins what is waiting.
LEMMA DataPreserves ==
  ASSUME UartInv, NEW c \in Conns, OnData(c)
  PROVE  UartInv'
<1>1. /\ recv_buf_' = Append(recv_buf_, arrived + 1) /\ arrived' = arrived + 1
      /\ UNCHANGED <<len, uart, pc>>
  BY DEF OnData, at
<1>2. recv_buf_ \in Seq(Nat) /\ uart \in Seq(Nat) /\ arrived \in Nat /\ Waiting \in Seq(Nat)
      /\ uart \o Waiting = [p \in 1..arrived |-> p]
  BY DEF UartInv, UartInOrder, Waiting
<1>3. recv_buf_' \in Seq(Nat) /\ Len(recv_buf_') = Len(recv_buf_) + 1 /\ arrived' \in Nat
  BY <1>1, <1>2
<1>4. Waiting' = Append(Waiting, arrived + 1)
  <2>1. CASE pc = "erase"
    <3>1. len \in 0..Len(recv_buf_)
      BY <2>1 DEF UartInv
    <3>2. arrived + 1 \in Nat
      BY <1>2
    <3>3. SubSeq(Append(recv_buf_, arrived + 1), len + 1, Len(recv_buf_) + 1)
            = Append(SubSeq(recv_buf_, len + 1, Len(recv_buf_)), arrived + 1)
      BY <1>2, <3>1, <3>2, RestAppended, Zenon
    <3> QED
      BY <1>1, <1>3, <2>1, <3>3, Zenon DEF Waiting
  <2>2. CASE pc # "erase"
    BY <1>1, <2>2 DEF Waiting
  <2> QED
    BY <2>1, <2>2
<1>5. uart' \o Waiting' = [p \in 1..arrived' |-> p]
  BY <1>1, <1>2, <1>4, NumbersAppended
<1>6. Waiting' \in Seq(Nat)
  BY <1>2, <1>4
<1>7. pc' = "erase" => len' \in 0..Len(recv_buf_')
  BY <1>1, <1>2, <1>3 DEF UartInv
<1> QED
  BY <1>1, <1>2, <1>3, <1>5, <1>6, <1>7 DEF UartInv, UartInOrder, Waiting

\* All that is waiting is written, and nothing is left for the erase to leave.
LEMMA WritePreserves ==
  ASSUME UartInv, WriteArray
  PROVE  UartInv'
<1>1. /\ pc = "write" /\ pc' = "erase" /\ len' = Len(recv_buf_) /\ uart' = uart \o recv_buf_
      /\ UNCHANGED <<recv_buf_, arrived>>
  BY DEF WriteArray
<1>2. recv_buf_ \in Seq(Nat) /\ uart \in Seq(Nat) /\ arrived \in Nat
      /\ uart \o recv_buf_ = [p \in 1..arrived |-> p]
  BY <1>1 DEF UartInv, UartInOrder
<1>3. Waiting' = <<>>
  BY <1>1, <1>2 DEF Waiting
<1>4. uart' \in Seq(Nat) /\ uart' \o <<>> = uart'
  BY <1>1, <1>2
<1>5. uart' \o Waiting' = [p \in 1..arrived' |-> p]
  BY <1>1, <1>2, <1>3, <1>4
<1> QED
  BY <1>1, <1>2, <1>3, <1>4, <1>5 DEF UartInv, UartInOrder, Waiting

\* The erase leaves what came meanwhile.
LEMMA ErasePreserves ==
  ASSUME UartInv, Erase
  PROVE  UartInv'
<1>1. /\ pc = "erase" /\ pc' = "write" /\ recv_buf_' = Waiting /\ UNCHANGED <<uart, arrived>>
  BY DEF Erase, Waiting
<1>2. Waiting' = Waiting
  BY <1>1 DEF Waiting
<1> QED
  BY <1>1, <1>2 DEF UartInv, UartInOrder, Waiting

\* Nothing else touches the bytes.
LEMMA OthersPreserve ==
  ASSUME UartInv, UNCHANGED toUart, pc # "erase", pc' # "erase"
  PROVE  UartInv'
BY DEF UartInv, UartInOrder, Waiting, toUart

\* Nor do the other callbacks, wherever loop() is.
LEMMA CallbacksPreserve ==
  ASSUME UartInv, UNCHANGED <<toUart, pc>>
  PROVE  UartInv'
BY DEF UartInv, UartInOrder, Waiting, toUart

\* Every step keeps the invariant.
LEMMA NextPreserves == UartInv /\ [Next]_vars => UartInv'
<1> SUFFICES ASSUME UartInv, [Next]_vars PROVE UartInv'
  OBVIOUS
<1>1. CASE UartReceives \/ UNCHANGED vars
  BY <1>1, CallbacksPreserve DEF UartReceives, vars, at
<1>2. ASSUME NEW c \in Conns, OnClient(c) \/ OnDisconnect(c) PROVE UartInv'
  BY <1>2, CallbacksPreserve DEF OnClient, OnDisconnect, at
<1>5. CASE DiscardClients
  BY <1>5, CallbacksPreserve DEF DiscardClients, at
<1>6. CASE Cleanup
  BY <1>6, OthersPreserve DEF Cleanup, FindLost, MoveKept, MoveLost, MovedAll, Resize
<1>3. CASE Send \/ Overflow \/ Flushed \/ ReadChunk \/ ReadFails \/ ReadNothing \/ EndLoop
  BY <1>3, OthersPreserve
     DEF Send, Overflow, Flushed, Flushing, ReadChunk, ReadFails, ReadNothing, EndLoop, at
<1>4. CASE WriteArray \/ Erase
  BY <1>4, WritePreserves, ErasePreserves
<1> QED
  BY <1>1, <1>2, <1>3, <1>4, <1>5, <1>6, DataPreserves DEF Next, Loop, Callback

\* There is nothing waiting at the start.
LEMMA InitUart == Init => UartInv
<1> SUFFICES ASSUME Init PROVE UartInv
  OBVIOUS
<1>1. Waiting = <<>> /\ recv_buf_ = <<>> /\ uart = <<>> /\ arrived = 0 /\ pc # "erase"
  BY DEF Init, Waiting
<1>2. uart \o Waiting = [p \in 1..arrived |-> p]
  BY <1>1
<1> QED
  BY <1>1, <1>2 DEF UartInv, UartInOrder, Waiting

\* The bytes from the clients reach the UART once, all of them and in the order
\* they came, however many they are and whenever the callbacks run.
THEOREM UartFaithful == Spec => []UartInOrder
<1>1. Init => UartInv
  BY InitUart
<1>2. UartInv /\ [Next]_vars => UartInv'
  BY NextPreserves
<1>3. UartInv => UartInOrder
  BY DEF UartInv
<1> QED
  BY <1>1, <1>2, <1>3, PTL DEF Spec

-----------------------------------------------------------------------------
(* The list of clients.                                                    *)

\* A set of numbers has a least one: well-foundedness stands in for induction.
LEMMA LeastExists ==
  ASSUME NEW S \in SUBSET Nat, S # {}
  PROVE  \E x \in S : \A y \in S : x <= y
<1> DEFINE R == OpToRel(<, Nat)
<1>1. IsWellFoundedOn(R, Nat)
  BY NatLessThanWellFounded
<1> HIDE DEF R
<1>2. PICK x \in S : \A y \in S : <<y, x>> \notin R
  BY <1>1, WFMin
<1>3. \A y \in S : x <= y
  <2> SUFFICES ASSUME NEW y \in S PROVE ~(y < x)
    OBVIOUS
  <2>1. <<y, x>> \notin R
    BY <1>2
  <2>2. y \in Nat /\ x \in Nat
    OBVIOUS
  <2> QED
    BY <2>1, <2>2 DEF R, OpToRel
<1> QED
  BY <1>3

\* A bounded set has a greatest one.
LEMMA GreatestExists ==
  ASSUME NEW n \in Nat, NEW S \in SUBSET (1..n), S # {}
  PROVE  \E x \in S : \A y \in S : y <= x
<1> DEFINE T == {n - x : x \in S}
<1>1. T # {}
  OBVIOUS
<1>0. T \in SUBSET Nat
  <2> SUFFICES ASSUME NEW x \in S PROVE n - x \in Nat
    OBVIOUS
  <2>1. x \in 1..n
    OBVIOUS
  <2> QED
    BY <2>1
<1> HIDE DEF T
<1>2. PICK z \in T : \A y \in T : z <= y
  BY <1>1, <1>0, LeastExists
<1>3. PICK x \in S : z = n - x
  BY <1>2 DEF T
<1>4. \A y \in S : n - x <= n - y
  BY <1>2, <1>3 DEF T
<1>5. \A y \in S : y \in Int
  OBVIOUS
<1>6. \A y \in S : y <= x
  BY <1>3, <1>4, <1>5
<1> QED
  BY <1>3, <1>6

-----------------------------------------------------------------------------
(* discard_clients                                                         *)

Client == [conn : Conns, disconnected : BOOLEAN]

\* The connected ones of a list are finitely many places.
LEMMA ConnectedFinite ==
  ASSUME NEW list \in Seq(Client)
  PROVE  /\ Len(list) \in Nat /\ DOMAIN list = 1..Len(list)
         /\ Connected(list) \in SUBSET (1..Len(list))
         /\ \A P \in SUBSET (1..Len(list)) : IsFiniteSet(P) /\ Cardinality(P) \in Nat
<1>1. Len(list) \in Nat /\ DOMAIN list = 1..Len(list) /\ Connected(list) \in SUBSET (1..Len(list))
  BY DEF Connected
<1>2. IsFiniteSet(1..Len(list))
  BY <1>1, FS_Interval
<1>3. ASSUME NEW P \in SUBSET (1..Len(list)) PROVE IsFiniteSet(P) /\ Cardinality(P) \in Nat
  BY <1>2, <1>3, FS_Subset, FS_CardinalityType
<1> QED
  BY <1>1, <1>3

\* Marking some clients of a list as disconnected.
Marked(list, marked) ==
  /\ marked \in Seq(Client) /\ Len(marked) = Len(list)
  /\ \A p \in 1..Len(list) :
       /\ marked[p].conn = list[p].conn
       /\ list[p].disconnected => marked[p].disconnected

\* Marking leaves connected those that were and are not marked.
LEMMA MarkingMarks ==
  ASSUME NEW list \in Seq(Client), NEW gone, NEW kept,
         kept = [p \in DOMAIN list |->
                   [list[p] EXCEPT !.disconnected = list[p].disconnected \/ p \in gone]]
  PROVE  /\ Marked(list, kept)
         /\ Connected(kept) = {p \in Connected(list) : p \notin gone}
<1>1. /\ Len(list) \in Nat /\ DOMAIN list = 1..Len(list)
      /\ \A p \in 1..Len(list) : list[p] \in Client
  OBVIOUS
<1>2. \A p \in 1..Len(list) :
        /\ kept[p] \in Client /\ kept[p].conn = list[p].conn
        /\ kept[p].disconnected = (list[p].disconnected \/ p \in gone)
  <2> TAKE p \in 1..Len(list)
  <2>1. kept[p] = [list[p] EXCEPT !.disconnected = list[p].disconnected \/ p \in gone]
    BY <1>1
  <2>2. list[p] \in [conn : Conns, disconnected : BOOLEAN]
    BY <1>1 DEF Client
  <2>3. (list[p].disconnected \/ p \in gone) \in BOOLEAN
    OBVIOUS
  <2> QED
    BY <2>1, <2>2, <2>3 DEF Client
<1>3. kept \in [1..Len(list) -> Client]
  BY <1>1, <1>2
<1>4. kept \in Seq(Client) /\ Len(kept) = Len(list) /\ DOMAIN kept = 1..Len(list)
  BY <1>1, <1>3
<1> QED
  BY <1>1, <1>2, <1>4 DEF Marked, Connected

\* Places are few if all but one of them are among fewer.
LEMMA FewButOne ==
  ASSUME NEW l \in Nat, NEW C \in SUBSET (1..l), NEW n \in Nat,
         C # {} => \E m \in C, B \in SUBSET (1..l) : C \ {m} \subseteq B /\ Cardinality(B) < n
  PROVE  Cardinality(C) <= n
<1>1. \A Q \in SUBSET (1..l) : IsFiniteSet(Q) /\ Cardinality(Q) \in Nat
  <2> TAKE Q \in SUBSET (1..l)
  <2>1. IsFiniteSet(1..l)
    BY FS_Interval
  <2>2. IsFiniteSet(Q)
    BY <2>1, FS_Subset
  <2> QED
    BY <2>2, FS_CardinalityType
<1>2. CASE C = {}
  BY <1>2, FS_EmptySet
<1>3. CASE C # {}
  <2>1. PICK m \in C, B \in SUBSET (1..l) : C \ {m} \subseteq B /\ Cardinality(B) < n
    BY <1>3
  <2>2. Cardinality(C \ {m}) <= Cardinality(B)
    BY <1>1, <2>1, FS_Subset
  <2>3. Cardinality(C \ {m}) = Cardinality(C) - 1
    BY <1>1, <2>1, FS_RemoveElement
  <2> QED
    BY <1>1, <2>1, <2>2, <2>3
<1> QED
  BY <1>2, <1>3

\* disconnect_over leaves no more than n clients connected: all the others of them
\* come before the last one, ...
LEMMA KeepFirstKeeps ==
  ASSUME NEW list \in Seq(Client), NEW n \in Nat
  PROVE  /\ Marked(list, KeepFirst(list, n))
         /\ Cardinality(Connected(KeepFirst(list, n))) <= n
<1> DEFINE Before(p) == {j \in Connected(list) : j < p}
           over(p) == Cardinality(Before(p)) >= n
           kept == KeepFirst(list, n)
<1>1. /\ Len(list) \in Nat /\ Connected(list) \in SUBSET (1..Len(list))
      /\ \A p : Before(p) \in SUBSET (1..Len(list)) /\ Cardinality(Before(p)) \in Nat
  BY ConnectedFinite
<1>2. kept = [p \in DOMAIN list |->
                [list[p] EXCEPT !.disconnected = list[p].disconnected \/ over(p)]]
  BY DEF KeepFirst
<1>3. \A p, m \in Connected(list) : p <= m /\ p # m => p \in Before(m)
  BY <1>1
<1> HIDE DEF Before, kept
<1>4. /\ Marked(list, kept)
      /\ Connected(kept) = {p \in Connected(list) : ~over(p)}
  <2> DEFINE gone == {p \in DOMAIN list : over(p)}
  <2>1. \A p \in DOMAIN list :
          (list[p].disconnected \/ over(p)) = (list[p].disconnected \/ p \in gone)
    OBVIOUS
  <2>2. kept = [p \in DOMAIN list |->
                  [list[p] EXCEPT !.disconnected = list[p].disconnected \/ p \in gone]]
    BY <1>2, <2>1, Zenon
  <2>3. \A p \in Connected(list) : p \in gone <=> over(p)
    BY DEF Connected
  <2> HIDE DEF gone, over
  <2>4. /\ Marked(list, kept)
        /\ Connected(kept) = {p \in Connected(list) : p \notin gone}
    BY <2>2, MarkingMarks, ZenonT(40)
  <2> QED
    BY <2>3, <2>4
<1>5. Connected(kept) # {} =>
        \E m \in Connected(kept), B \in SUBSET (1..Len(list)) :
          Connected(kept) \ {m} \subseteq B /\ Cardinality(B) < n
  <2> SUFFICES ASSUME Connected(kept) # {}
               PROVE  \E m \in Connected(kept), B \in SUBSET (1..Len(list)) :
                        Connected(kept) \ {m} \subseteq B /\ Cardinality(B) < n
    OBVIOUS
  <2>1. Connected(kept) \in SUBSET (1..Len(list))
    BY <1>1, <1>4
  <2>2. PICK m \in Connected(kept) : \A p \in Connected(kept) : p <= m
    BY <1>1, <2>1, GreatestExists
  <2>3. Connected(kept) \ {m} \subseteq Before(m)
    BY <1>3, <1>4, <2>2
  <2>4. Cardinality(Before(m)) < n
    BY <1>1, <1>4, <2>2
  <2> QED
    BY <1>1, <2>3, <2>4
<1>6. Cardinality(Connected(kept)) <= n
  BY <1>1, <1>4, <1>5, FewButOne
<1> QED
  BY <1>4, <1>6 DEF kept

\* ... or behind the first one.
LEMMA KeepLastKeeps ==
  ASSUME NEW list \in Seq(Client), NEW n \in Nat
  PROVE  /\ Marked(list, KeepLast(list, n))
         /\ Cardinality(Connected(KeepLast(list, n))) <= n
<1> DEFINE Behind(p) == {j \in Connected(list) : j > p}
           over(p) == Cardinality(Behind(p)) >= n
           kept == KeepLast(list, n)
<1>1. /\ Len(list) \in Nat /\ Connected(list) \in SUBSET (1..Len(list))
      /\ \A p : Behind(p) \in SUBSET (1..Len(list)) /\ Cardinality(Behind(p)) \in Nat
  BY ConnectedFinite
<1>2. kept = [p \in DOMAIN list |->
                [list[p] EXCEPT !.disconnected = list[p].disconnected \/ over(p)]]
  BY DEF KeepLast
<1>3. \A p, m \in Connected(list) : m <= p /\ p # m => p \in Behind(m)
  BY <1>1
<1> HIDE DEF Behind, kept
<1>4. /\ Marked(list, kept)
      /\ Connected(kept) = {p \in Connected(list) : ~over(p)}
  <2> DEFINE gone == {p \in DOMAIN list : over(p)}
  <2>1. \A p \in DOMAIN list :
          (list[p].disconnected \/ over(p)) = (list[p].disconnected \/ p \in gone)
    OBVIOUS
  <2>2. kept = [p \in DOMAIN list |->
                  [list[p] EXCEPT !.disconnected = list[p].disconnected \/ p \in gone]]
    BY <1>2, <2>1, Zenon
  <2>3. \A p \in Connected(list) : p \in gone <=> over(p)
    BY DEF Connected
  <2> HIDE DEF gone, over
  <2>4. /\ Marked(list, kept)
        /\ Connected(kept) = {p \in Connected(list) : p \notin gone}
    BY <2>2, MarkingMarks, ZenonT(40)
  <2> QED
    BY <2>3, <2>4
<1>5. Connected(kept) # {} =>
        \E m \in Connected(kept), B \in SUBSET (1..Len(list)) :
          Connected(kept) \ {m} \subseteq B /\ Cardinality(B) < n
  <2> SUFFICES ASSUME Connected(kept) # {}
               PROVE  \E m \in Connected(kept), B \in SUBSET (1..Len(list)) :
                        Connected(kept) \ {m} \subseteq B /\ Cardinality(B) < n
    OBVIOUS
  <2>1. Connected(kept) \in SUBSET Nat
    BY <1>1, <1>4
  <2>2. PICK m \in Connected(kept) : \A p \in Connected(kept) : m <= p
    BY <2>1, LeastExists
  <2>3. Connected(kept) \ {m} \subseteq Behind(m)
    BY <1>3, <1>4, <2>2
  <2>4. Cardinality(Behind(m)) < n
    BY <1>1, <1>4, <2>2
  <2> QED
    BY <1>1, <2>3, <2>4
<1>6. Cardinality(Connected(kept)) <= n
  BY <1>1, <1>4, <1>5, FewButOne
<1> QED
  BY <1>4, <1>6 DEF kept

-----------------------------------------------------------------------------
(* The invariant.                                                          *)

\* A connection is in the list once.
ListedOnce ==
  \A p, q \in DOMAIN clients_ : clients_[p].conn = clients_[q].conn => p = q

\* cleanup()'s locals stay within the list, though it may get longer meanwhile.
Moving == pc \in {"move", "resize"}
CleanupAt ==
  /\ ~Moving => count <= Len(clients_)
  /\ Moving => count <= i /\ i <= Len(clients_)

\* The place that the client at place p will have behind cleanup(), and whether
\* it is one that will not have any.
Place(p)   == IF Moving /\ p > i THEN count + (p - i) ELSE p
Dropped(p) == Moving /\ count < p /\ p <= i

\* A client that has the chunk will be before send_client_: flush() does not come
\* to it again.
NotYetSent ==
  \A p \in DOMAIN clients_ :
    copies[clients_[p].conn] # 0 /\ ~Dropped(p) => Place(p) <= send_client_
Unsent == ~send_buf_ => \A c \in Conns : copies[c] = 0

ListInv == WithinMaxClients /\ ListedOnce /\ CleanupAt /\ NotYetSent /\ Unsent

\* Intervals from one that are the same end at the same number.
LEMMA SameEnds ==
  ASSUME NEW a \in Nat, NEW b \in Nat, 1..a = 1..b
  PROVE  a = b
<1>1. a \in 1..b \/ a = 0
  OBVIOUS
<1>2. b \in 1..a \/ b = 0
  OBVIOUS
<1> QED
  BY <1>1, <1>2

\* Callbacks and write() find in recv_buf_ what UartInOrder says, so no buffer gets
\* longer than what arrived.
LEMMA BufferBounded ==
  ASSUME TypeOK, UartInv, pc = "write"
  PROVE  Len(recv_buf_) \in 0..MaxArrived
<1>1. /\ recv_buf_ \in Seq(Nat) /\ uart \in Seq(Nat) /\ arrived \in 0..MaxArrived
      /\ uart \o recv_buf_ = [p \in 1..arrived |-> p]
  BY DEF TypeOK, UartInv, UartInOrder
<1> DEFINE w == uart \o recv_buf_
<1>2. w \in Seq(Nat) /\ Len(w) = Len(uart) + Len(recv_buf_)
  BY <1>1, ConcatProperties
<1>3. w = [p \in 1..arrived |-> p]
  BY <1>1
<1> HIDE DEF w
<1>4. DOMAIN w = 1..Len(w) /\ DOMAIN w = 1..arrived /\ Len(w) \in Nat /\ arrived \in Nat
  BY <1>1, <1>2, <1>3, StreamServerAssumption
<1>5. Len(w) = arrived
  BY <1>4, SameEnds
<1>6. Len(uart) \in Nat /\ Len(recv_buf_) \in Nat
  BY <1>1
<1> QED
  BY <1>1, <1>2, <1>5, <1>6, StreamServerAssumption

\* discard_clients only marks, and leaves no more than max_clients_.
LEMMA DiscardKeeps ==
  ASSUME NEW list \in Seq(Client), max_clients_ \in Int
  PROVE  /\ Marked(list, Discard(list))
         /\ max_clients_ # 0 =>
              Cardinality(Connected(Discard(list)))
                <= IF max_clients_ > 0 THEN max_clients_ ELSE -max_clients_
<1>1. CASE max_clients_ > 0
  <2>1. max_clients_ \in Nat /\ Discard(list) = KeepFirst(list, max_clients_)
    BY <1>1 DEF Discard
  <2> QED
    BY <1>1, <2>1, KeepFirstKeeps
<1>2. CASE max_clients_ < 0
  <2>1. -max_clients_ \in Nat /\ Discard(list) = KeepLast(list, -max_clients_)
    BY <1>2 DEF Discard
  <2>2. Cardinality(Connected(KeepLast(list, -max_clients_))) <= -max_clients_
    BY <2>1, KeepLastKeeps
  <2>3. Marked(list, KeepLast(list, -max_clients_))
    BY <2>1, KeepLastKeeps
  <2>4. ~(max_clients_ > 0)
    BY <1>2
  <2> QED
    BY <2>1, <2>2, <2>3, <2>4
<1>3. CASE max_clients_ = 0
  <2>1. Discard(list) = list
    BY <1>3 DEF Discard
  <2> QED
    BY <1>3, <2>1 DEF Marked
<1> QED
  BY <1>1, <1>2, <1>3

\* What there is in the list.
LEMMA ListTyped ==
  ASSUME TypeOK
  PROVE  /\ clients_ \in Seq(Client) /\ Len(clients_) \in 0..MaxListed
         /\ DOMAIN clients_ = 1..Len(clients_)
         /\ \A p \in 1..Len(clients_) : clients_[p] \in Client /\ clients_[p].conn \in Conns
<1>1. clients_ \in Seq(Client) /\ Len(clients_) <= MaxListed
  BY DEF TypeOK, Client
<1>2. \A p \in 1..Len(clients_) : clients_[p] \in Client
  BY <1>1
<1>3. \A client \in Client : client.conn \in Conns
  BY DEF Client
<1> QED
  BY <1>1, <1>2, <1>3, StreamServerAssumption

\* The connections of the connected clients are finitely many, and not more than
\* their places.
LEMMA ConnsFew ==
  ASSUME NEW list \in Seq(Client)
  PROVE  LET conns == {list[p].conn : p \in Connected(list)}
         IN  IsFiniteSet(conns) /\ Cardinality(conns) \in Nat
             /\ Cardinality(conns) <= Cardinality(Connected(list))
<1> DEFINE S == Connected(list)
           T == {list[p].conn : p \in S}
           f == [p \in S |-> list[p].conn]
<1>1. IsFiniteSet(S)
  BY ConnectedFinite
<1>2. f \in Surjection(S, T)
  BY DEF Surjection
<1>3. IsFiniteSet(T) /\ Cardinality(T) <= Cardinality(S)
  <2> HIDE DEF S, T, f
  <2> QED
    BY <1>1, <1>2, FS_Surjection
<1>4. Cardinality(T) \in Nat
  BY <1>3, FS_CardinalityType
<1> QED
  BY <1>3, <1>4

\* Fewer connections keep the limit.
LEMMA FewerConnected ==
  ASSUME TypeOK, WithinMaxClients, UNCHANGED <<max_clients_, accepting>>,
         ConnectedConns' \subseteq ConnectedConns
  PROVE  WithinMaxClients'
<1>1. IsFiniteSet(ConnectedConns) /\ Cardinality(ConnectedConns) \in Nat
  BY ListTyped, ConnsFew DEF ConnectedConns
<1>2. Cardinality(ConnectedConns') <= Cardinality(ConnectedConns)
  BY <1>1, FS_Subset
<1>3. IsFiniteSet(ConnectedConns')
  BY <1>1, FS_Subset
<1>4. Cardinality(ConnectedConns') \in Nat
  BY <1>3, FS_CardinalityType
<1>5. max_clients_ \in Int
  BY StreamServerAssumption DEF TypeOK
<1> QED
  BY <1>1, <1>2, <1>4, <1>5 DEF WithinMaxClients, Limit

\* Steps that leave the list and cleanup() as they are.
LEMMA ListAlone ==
  ASSUME ListInv, UNCHANGED <<max_clients_, accepting, clients_, send_client_, copies, count, i>>,
         \/ pc' = pc
         \/ pc \in {"flush", "write"} /\ pc' \in {"write", "erase"}
         \/ pc = "erase" /\ pc' = "write",
         send_buf_ => send_buf_'
  PROVE  ListInv'
BY DEF ListInv, WithinMaxClients, Limit, ConnectedConns, ListedOnce, CleanupAt, Moving, Place,
       Dropped, NotYetSent, Unsent, Connected

\* onClient: the new one is the only one of its connection and has nothing yet.
LEMMA ClientPreserves ==
  ASSUME TypeOK, ListInv, NEW c \in Conns, OnClient(c)
  PROVE  TypeOK' /\ ListInv'
<1> USE StreamServerAssumption
<1> DEFINE l == Len(clients_)
           new == [conn |-> c, disconnected |-> FALSE]
<1>1. /\ clients_ \in Seq(Client) /\ max_clients_ \in Int /\ l \in Nat
      /\ l < MaxListed /\ send_client_ \in 0..MaxListed
      /\ DOMAIN clients_ = 1..l /\ copies \in [Conns -> 0..1]
      /\ \A p \in 1..l : clients_[p] \in Client /\ clients_[p].conn \in Conns
      /\ {count, i} \subseteq 0..MaxListed
  BY ListTyped DEF TypeOK, OnClient
<1>2. /\ clients_' = Append(clients_, new) /\ copies' = [copies EXCEPT ![c] = 0]
      /\ ~accepting /\ accepting' = TRUE
      /\ \A p \in 1..l : clients_[p].conn # c
      /\ UNCHANGED <<max_clients_, send_buf_, send_client_, recv_buf_, len, arrived, uart,
                     available, pc, count, i>>
  BY <1>1 DEF OnClient, toUart, Listed, at
<1>3. /\ clients_' \in Seq(Client) /\ Len(clients_') = l + 1 /\ DOMAIN clients_' = 1..(l + 1)
      /\ \A p \in 1..l : clients_'[p] = clients_[p]
      /\ clients_'[l + 1] = new
  BY <1>1, <1>2 DEF Client
<1>4. TypeOK'
  <2>1. Len(clients_') <= MaxListed
    BY <1>1, <1>3
  <2>2. copies' \in [Conns -> 0..1]
    BY <1>1, <1>2
  <2> QED
    BY <1>2, <1>3, <2>1, <2>2 DEF TypeOK, Client
<1>5. ListedOnce'
  <2> SUFFICES ASSUME NEW p \in 1..(l + 1), NEW q \in 1..(l + 1),
                      clients_'[p].conn = clients_'[q].conn
               PROVE  p = q
    BY <1>3 DEF ListedOnce
  <2>1. (p \in 1..l \/ p = l + 1) /\ (q \in 1..l \/ q = l + 1)
    BY <1>1
  <2>2. CASE p \in 1..l /\ q \in 1..l
    BY <1>1, <1>3, <2>2 DEF ListInv, ListedOnce
  <2> QED
    BY <1>2, <1>3, <2>1, <2>2
<1>6. NotYetSent' /\ Unsent'
  <2>1. ASSUME NEW p \in 1..(l + 1), copies'[clients_'[p].conn] # 0, ~Dropped(p)'
        PROVE  Place(p)' <= send_client_'
    <3>1. p \in 1..l
      BY <1>1, <1>2, <1>3, <2>1
    <3>2. copies[clients_[p].conn] # 0 /\ ~Dropped(p) /\ Place(p)' = Place(p)
      BY <1>1, <1>2, <1>3, <2>1, <3>1 DEF Dropped, Place, Moving
    <3> QED
      BY <1>1, <1>2, <3>1, <3>2 DEF ListInv, NotYetSent
  <2> QED
    BY <1>1, <1>2, <1>3, <2>1 DEF ListInv, NotYetSent, Unsent
<1>7. WithinMaxClients'
  <2>1. ConnectedConns' \subseteq ConnectedConns \cup {c}
    BY <1>1, <1>3 DEF ConnectedConns, Connected
  <2>2. IsFiniteSet(ConnectedConns) /\ Cardinality(ConnectedConns) \in Nat
    BY <1>1, ConnsFew DEF ConnectedConns
  <2>3. /\ IsFiniteSet(ConnectedConns \cup {c})
        /\ Cardinality(ConnectedConns \cup {c}) <= Cardinality(ConnectedConns) + 1
        /\ Cardinality(ConnectedConns \cup {c}) \in Nat
    <3>1. /\ IsFiniteSet(ConnectedConns \cup {c})
          /\ \/ Cardinality(ConnectedConns \cup {c}) = Cardinality(ConnectedConns)
             \/ Cardinality(ConnectedConns \cup {c}) = Cardinality(ConnectedConns) + 1
      BY <2>2, FS_AddElement, Zenon
    <3> QED
      BY <2>2, <3>1
  <2>4. Cardinality(ConnectedConns') <= Cardinality(ConnectedConns) + 1
        /\ Cardinality(ConnectedConns') \in Nat
    <3>1. /\ IsFiniteSet(ConnectedConns')
          /\ Cardinality(ConnectedConns') <= Cardinality(ConnectedConns \cup {c})
      BY <2>1, <2>3, FS_Subset
    <3>2. Cardinality(ConnectedConns') \in Nat
      BY <3>1, FS_CardinalityType
    <3> QED
      BY <2>2, <2>3, <3>1, <3>2
  <2>5. max_clients_ # 0 => Cardinality(ConnectedConns) <= Limit
    BY <1>1, <1>2, <2>2 DEF ListInv, WithinMaxClients, Limit
  <2>6. Limit' = Limit /\ Limit \in Int
    BY <1>1, <1>2 DEF Limit
  <2> QED
    BY <1>2, <2>2, <2>4, <2>5, <2>6 DEF WithinMaxClients
<1>8. CleanupAt'
  BY <1>1, <1>2, <1>3 DEF ListInv, CleanupAt, Moving
<1> QED
  BY <1>4, <1>5, <1>6, <1>7, <1>8 DEF ListInv

\* A list of the same clients, of which some have been marked, is as good.
LEMMA MarkedKeeps ==
  ASSUME TypeOK, ListInv, Marked(clients_, clients_'),
         UNCHANGED <<max_clients_, send_buf_, send_client_, recv_buf_, len, arrived, uart,
                     available, pc, count, i, copies>>,
         accepting' \in BOOLEAN
  PROVE  TypeOK' /\ ListedOnce' /\ CleanupAt' /\ NotYetSent' /\ Unsent'
         /\ ConnectedConns' \subseteq ConnectedConns
<1>1. /\ clients_ \in Seq(Client) /\ Len(clients_) \in Nat /\ DOMAIN clients_ = 1..Len(clients_)
      /\ clients_' \in Seq(Client) /\ Len(clients_') = Len(clients_)
      /\ DOMAIN clients_' = 1..Len(clients_)
      /\ \A p \in 1..Len(clients_) :
           /\ clients_'[p].conn = clients_[p].conn
           /\ clients_[p].disconnected => clients_'[p].disconnected
  BY ListTyped DEF Marked
<1>2. TypeOK'
  BY <1>1 DEF TypeOK, Client
<1>3. ListedOnce' /\ CleanupAt' /\ Unsent'
  BY <1>1 DEF ListInv, ListedOnce, CleanupAt, Moving, Unsent
<1>4. NotYetSent'
  <2>1. \A p : Place(p)' = Place(p) /\ Dropped(p)' = Dropped(p)
    BY DEF Place, Dropped, Moving
  <2> QED
    BY <1>1, <2>1 DEF ListInv, NotYetSent
<1>5. ConnectedConns' \subseteq ConnectedConns
  BY <1>1 DEF ConnectedConns, Connected
<1> QED
  BY <1>2, <1>3, <1>4, <1>5

\* discard_clients applies the limit.
LEMMA DiscardPreserves ==
  ASSUME TypeOK, ListInv, DiscardClients
  PROVE  TypeOK' /\ ListInv'
<1>1. /\ clients_' = Discard(clients_) /\ accepting' = FALSE
      /\ UNCHANGED <<max_clients_, send_buf_, send_client_, recv_buf_, len, arrived, uart,
                     available, pc, count, i, copies>>
  BY DEF DiscardClients, toUart, at
<1>2. max_clients_ \in Int /\ clients_ \in Seq(Client)
  BY ListTyped, StreamServerAssumption DEF TypeOK
<1>3. /\ Marked(clients_, clients_')
      /\ max_clients_ # 0 => Cardinality(Connected(clients_')) <= Limit
  BY <1>1, <1>2, DiscardKeeps DEF Limit
<1>4. TypeOK' /\ ListedOnce' /\ CleanupAt' /\ NotYetSent' /\ Unsent'
  BY <1>1, <1>3, MarkedKeeps
<1>5. WithinMaxClients'
  <2>1. clients_' \in Seq(Client)
    BY <1>3 DEF Marked
  <2>2. ConnectedConns' = {clients_'[p].conn : p \in Connected(clients_')}
    BY DEF ConnectedConns, Connected
  <2>3. Cardinality(ConnectedConns') <= Cardinality(Connected(clients_'))
        /\ Cardinality(ConnectedConns') \in Nat
    BY <2>1, <2>2, ConnsFew
  <2>4. Cardinality(Connected(clients_')) \in Nat
    BY <2>1, ConnectedFinite
  <2>5. Limit' = Limit /\ Limit \in Int
    BY <1>1, <1>2 DEF Limit
  <2>6. max_clients_' # 0 => Cardinality(ConnectedConns') <= Limit'
    BY <1>1, <1>3, <2>3, <2>4, <2>5
  <2> QED
    BY <1>1, <2>3, <2>5, <2>6 DEF WithinMaxClients
<1> QED
  BY <1>4, <1>5 DEF ListInv

\* A client that is lost is one connected client less.
LEMMA DisconnectPreserves ==
  ASSUME TypeOK, ListInv, NEW c \in Conns, OnDisconnect(c)
  PROVE  TypeOK' /\ ListInv'
<1>1. PICK p \in Connected(clients_) : clients_' = [clients_ EXCEPT ![p].disconnected = TRUE]
  BY DEF OnDisconnect
<1>2. UNCHANGED <<max_clients_, send_buf_, send_client_, recv_buf_, len, arrived, uart,
                  available, accepting, pc, count, i, copies>>
  BY DEF OnDisconnect, toUart, at
<1>3. Marked(clients_, clients_')
  <2>1. clients_ \in Seq(Client) /\ p \in 1..Len(clients_) /\ clients_[p] \in Client
    BY ListTyped DEF Connected
  <2>2. [clients_[p] EXCEPT !.disconnected = TRUE] \in Client
    BY <2>1 DEF Client
  <2> QED
    BY <1>1, <2>1, <2>2 DEF Marked, Client
<1>4. accepting' \in BOOLEAN
  BY <1>2 DEF TypeOK
<1>5. TypeOK' /\ ListedOnce' /\ CleanupAt' /\ NotYetSent' /\ Unsent'
      /\ ConnectedConns' \subseteq ConnectedConns
  BY <1>2, <1>3, <1>4, MarkedKeeps
<1>6. WithinMaxClients'
  BY <1>2, <1>5, FewerConnected DEF ListInv
<1> QED
  BY <1>5, <1>6 DEF ListInv

\* cleanup's first loop: behind it i and count are the same place.
LEMMA FindPreserves ==
  ASSUME TypeOK, ListInv, FindLost
  PROVE  TypeOK' /\ ListInv'
<1> USE StreamServerAssumption
<1>1. /\ clients_ \in Seq(Client) /\ Len(clients_) \in 0..MaxListed
      /\ DOMAIN clients_ = 1..Len(clients_)
      /\ {count, i, send_client_} \subseteq 0..MaxListed
  BY ListTyped DEF TypeOK
<1>2. /\ pc = "cleanup" /\ count <= Len(clients_)
      /\ UNCHANGED <<max_clients_, clients_, send_buf_, send_client_, recv_buf_, len, arrived,
                     uart, available, accepting, copies>>
  BY DEF FindLost, lists, toUart, ListInv, CleanupAt, Moving
<1>3. \/ count' = count + 1 /\ count < Len(clients_) /\ pc' = "cleanup" /\ i' = i
      \/ count' = count /\ pc' = "move" /\ i' = count
  BY DEF FindLost
<1>4. TypeOK'
  BY <1>1, <1>2, <1>3 DEF TypeOK
<1>5. CleanupAt'
  BY <1>1, <1>2, <1>3 DEF CleanupAt, Moving
<1>6. \A p \in DOMAIN clients_ : ~Dropped(p)' /\ Place(p)' = p /\ ~Dropped(p) /\ Place(p) = p
  BY <1>1, <1>2, <1>3 DEF Dropped, Place, Moving
<1>7. NotYetSent'
  BY <1>2, <1>6 DEF ListInv, NotYetSent
<1>8. ListedOnce' /\ WithinMaxClients' /\ Unsent'
  BY <1>2 DEF ListInv, ListedOnce, WithinMaxClients, Limit, ConnectedConns, Connected, Unsent
<1> QED
  BY <1>4, <1>5, <1>7, <1>8 DEF ListInv

\* A client that stays moves to the place it was to have.
LEMMA KeptPreserves ==
  ASSUME TypeOK, ListInv, MoveKept
  PROVE  TypeOK' /\ ListInv'
<1> USE StreamServerAssumption
<1> DEFINE l == Len(clients_)
<1>1. /\ clients_ \in Seq(Client) /\ l \in 0..MaxListed
      /\ DOMAIN clients_ = 1..l
      /\ \A p \in 1..l : clients_[p] \in Client /\ clients_[p].conn \in Conns
      /\ {count, i, send_client_} \subseteq 0..MaxListed
  BY ListTyped DEF TypeOK
<1>2. /\ pc = "move" /\ i < l /\ count <= i /\ ~clients_[i + 1].disconnected
      /\ clients_' = [clients_ EXCEPT ![count + 1] = clients_[i + 1],
                                      ![i + 1] = clients_[count + 1]]
      /\ count' = count + 1 /\ i' = i + 1
      /\ UNCHANGED <<max_clients_, send_buf_, send_client_, recv_buf_, len, arrived,
                     uart, available, accepting, pc, copies>>
  BY DEF MoveKept, toUart, ListInv, CleanupAt, Moving
<1>3. count + 1 \in 1..l /\ i + 1 \in 1..l /\ count + 1 <= i + 1
  BY <1>1, <1>2
<1> DEFINE from(p) == IF p = i + 1 THEN count + 1 ELSE IF p = count + 1 THEN i + 1 ELSE p
<1>4. /\ clients_' \in Seq(Client) /\ Len(clients_') = l /\ DOMAIN clients_' = 1..l
      /\ \A p \in 1..l : from(p) \in 1..l /\ clients_'[p] = clients_[from(p)]
  BY <1>1, <1>2, <1>3
<1>5. TypeOK'
  BY <1>1, <1>2, <1>3, <1>4 DEF TypeOK, Client
<1>6. CleanupAt'
  BY <1>1, <1>2, <1>4 DEF CleanupAt, Moving
<1>7. ListedOnce'
  <2> SUFFICES ASSUME NEW p \in 1..l, NEW q \in 1..l, clients_'[p].conn = clients_'[q].conn
               PROVE  p = q
    BY <1>4 DEF ListedOnce
  <2>1. from(p) = from(q)
    BY <1>1, <1>4 DEF ListInv, ListedOnce
  <2> QED
    BY <1>1, <1>3, <2>1
<1>8. NotYetSent'
  <2> SUFFICES ASSUME NEW p \in 1..l, copies[clients_'[p].conn] # 0, ~Dropped(p)'
               PROVE  Place(p)' <= send_client_
    BY <1>2, <1>4 DEF NotYetSent
  <2>1. copies[clients_[from(p)].conn] # 0 /\ from(p) \in 1..l
    BY <1>4
  <2>2. ~Dropped(from(p)) /\ Place(from(p)) = Place(p)'
    <3>1. p <= count + 1 \/ p > i + 1
      BY <1>1, <1>2 DEF Dropped, Moving
    <3>2. CASE p = count + 1
      BY <1>1, <1>2, <3>2 DEF Dropped, Place, Moving
    <3>3. CASE p <= count
      BY <1>1, <1>2, <3>3 DEF Dropped, Place, Moving
    <3>4. CASE p > i + 1
      <4>1. count \in Int /\ i \in Int /\ p \in Int /\ count <= i
        BY <1>1, <1>2
      <4>2. from(p) = p /\ Dropped(from(p)) = Dropped(p) /\ Place(from(p)) = Place(p)
        BY <4>1, <3>4 DEF Dropped, Place
      <4>3. ~Dropped(p) /\ Place(p) = count + p - i
        BY <1>2, <3>4, <4>1 DEF Dropped, Place, Moving
      <4>4. Place(p)' = (count + 1) + p - (i + 1)
        BY <1>2, <3>4, <4>1 DEF Place, Moving
      <4> QED
        BY <4>1, <4>2, <4>3, <4>4
    <3> QED
      BY <1>1, <3>1, <3>2, <3>3, <3>4
  <2> QED
    BY <1>1, <2>1, <2>2 DEF ListInv, NotYetSent
<1>9. WithinMaxClients'
  <2>1. ConnectedConns' \subseteq ConnectedConns
    BY <1>1, <1>4 DEF ConnectedConns, Connected
  <2> QED
    BY <1>2, <2>1, FewerConnected DEF ListInv
<1>10. Unsent'
  BY <1>2 DEF ListInv, Unsent
<1> QED
  BY <1>5, <1>6, <1>7, <1>8, <1>9, <1>10 DEF ListInv

\* A client that goes takes send_client_ back with it, if it is before that: those
\* behind it come one place nearer.
LEMMA LostPreserves ==
  ASSUME TypeOK, ListInv, MoveLost
  PROVE  TypeOK' /\ ListInv'
<1> USE StreamServerAssumption
<1>1. /\ clients_ \in Seq(Client) /\ Len(clients_) \in 0..MaxListed
      /\ DOMAIN clients_ = 1..Len(clients_)
      /\ {count, i, send_client_} \subseteq 0..MaxListed
  BY ListTyped DEF TypeOK
<1>2. /\ pc = "move" /\ i < Len(clients_) /\ count <= i
      /\ send_client_' = Shift /\ i' = i + 1
      /\ UNCHANGED <<max_clients_, clients_, send_buf_, recv_buf_, len, arrived,
                     uart, available, accepting, pc, count, copies>>
  BY DEF MoveLost, toUart, ListInv, CleanupAt, Moving
<1>3. /\ send_client_' \in 0..MaxListed
      /\ send_client_' = IF send_client_ > i THEN send_client_ - 1 ELSE send_client_
  BY <1>1, <1>2 DEF Shift
<1>4. TypeOK'
  BY <1>1, <1>2, <1>3 DEF TypeOK
<1>5. CleanupAt'
  BY <1>1, <1>2 DEF CleanupAt, Moving
<1>6. NotYetSent'
  <2> SUFFICES ASSUME NEW p \in 1..Len(clients_), copies[clients_[p].conn] # 0, ~Dropped(p)'
               PROVE  Place(p)' <= send_client_'
    BY <1>1, <1>2 DEF NotYetSent
  <2>1. ~Dropped(p) /\ (p <= count \/ p > i + 1)
    BY <1>1, <1>2 DEF Dropped, Moving
  <2>2. Place(p) <= send_client_
    BY <1>1, <2>1 DEF ListInv, NotYetSent
  <2>3. CASE p <= count
    BY <1>1, <1>2, <1>3, <2>2, <2>3 DEF Place, Moving
  <2>4. CASE p > i + 1
    BY <1>1, <1>2, <1>3, <2>2, <2>4 DEF Place, Moving
  <2> QED
    BY <2>1, <2>3, <2>4
<1>7. ListedOnce' /\ WithinMaxClients' /\ Unsent'
  BY <1>2 DEF ListInv, ListedOnce, WithinMaxClients, Limit, ConnectedConns, Connected, Unsent
<1> QED
  BY <1>4, <1>5, <1>6, <1>7 DEF ListInv

\* resize() leaves the clients that were moved up.
LEMMA ResizePreserves ==
  ASSUME TypeOK, ListInv, MovedAll \/ Resize
  PROVE  TypeOK' /\ ListInv'
<1> USE StreamServerAssumption
<1>1. /\ clients_ \in Seq(Client) /\ Len(clients_) \in 0..MaxListed
      /\ DOMAIN clients_ = 1..Len(clients_)
      /\ \A p \in 1..Len(clients_) : clients_[p] \in Client
      /\ {count, i, send_client_} \subseteq 0..MaxListed
  BY ListTyped DEF TypeOK
<1>2. /\ count <= i /\ i <= Len(clients_) /\ Moving
      /\ UNCHANGED <<max_clients_, send_buf_, send_client_, recv_buf_, len, arrived,
                     uart, available, accepting, copies>>
  BY DEF MovedAll, Resize, lists, toUart, ListInv, CleanupAt, Moving
<1>3. CASE MovedAll
  <2>1. pc' = "resize" /\ UNCHANGED <<clients_, count, i>>
    BY <1>3 DEF MovedAll, lists
  <2>2. TypeOK'
    BY <1>2, <2>1 DEF TypeOK
  <2>3. ListInv'
    BY <1>2, <2>1 DEF ListInv, WithinMaxClients, Limit, ConnectedConns, Connected, ListedOnce,
       CleanupAt, Moving, Place, Dropped, NotYetSent, Unsent
  <2> QED
    BY <2>2, <2>3
<1>4. CASE Resize
  <2>1. /\ pc' = "flush" /\ count' = 0 /\ i' = 0 /\ clients_' = SubSeq(clients_, 1, count)
        /\ 0 \in 0..MaxListed
    BY <1>4 DEF Resize
  <2>2. /\ clients_' \in Seq(Client) /\ Len(clients_') = count /\ DOMAIN clients_' = 1..count
        /\ \A p \in 1..count : p \in 1..Len(clients_) /\ clients_'[p] = clients_[p]
    BY <1>1, <1>2, <2>1
  <2>3. TypeOK'
    BY <1>1, <1>2, <2>1, <2>2 DEF TypeOK, Client
  <2>4. ListedOnce' /\ CleanupAt' /\ Unsent'
    BY <1>1, <1>2, <2>1, <2>2 DEF ListInv, ListedOnce, CleanupAt, Moving, Unsent
  <2>5. NotYetSent'
    <3> SUFFICES ASSUME NEW p \in 1..count, copies[clients_[p].conn] # 0
                 PROVE  p <= send_client_
      BY <1>2, <2>1, <2>2 DEF NotYetSent, Place, Moving
    <3>1. ~Dropped(p) /\ Place(p) = p /\ p \in DOMAIN clients_
      BY <1>1, <1>2 DEF Dropped, Place
    <3> QED
      BY <3>1 DEF ListInv, NotYetSent
  <2>6. ConnectedConns' \subseteq ConnectedConns
    BY <1>1, <2>2 DEF ConnectedConns, Connected
  <2>7. WithinMaxClients'
    BY <1>2, <2>6, FewerConnected DEF ListInv
  <2> QED
    BY <2>3, <2>4, <2>5, <2>7 DEF ListInv
<1> QED
  BY <1>3, <1>4

\* flush() gives the chunk to the first client that does not have it.
LEMMA SendPreserves ==
  ASSUME TypeOK, ListInv, Send
  PROVE  TypeOK' /\ ListInv'
<1> USE StreamServerAssumption
<1> DEFINE n == send_client_ + 1
           c == clients_[n].conn
<1>1. /\ Len(clients_) \in 0..MaxListed /\ DOMAIN clients_ = 1..Len(clients_)
      /\ send_client_ \in 0..MaxListed /\ send_client_ < Len(clients_)
      /\ copies \in [Conns -> 0..1] /\ send_buf_ /\ pc = "flush"
  BY ListTyped DEF TypeOK, Send, Flushing
<1>2. /\ copies' = [copies EXCEPT ![c] = copies[c] + 1] /\ send_client_' = n
      /\ UNCHANGED <<max_clients_, clients_, send_buf_, recv_buf_, len, arrived, uart,
                     available, accepting, pc, count, i>>
  BY DEF Send, Current, toUart, at
<1>3. n \in 1..Len(clients_) /\ c \in Conns
  <2>1. n \in 1..Len(clients_)
    BY <1>1
  <2> QED
    BY <2>1, ListTyped
<1>4. \A p \in 1..Len(clients_) : ~Dropped(p) /\ Place(p) = p /\ ~Dropped(p)' /\ Place(p)' = p
  BY <1>1, <1>2 DEF Dropped, Place, Moving
<1>5. copies[c] = 0
  <2>1. ~(n <= send_client_)
    BY <1>1
  <2> QED
    BY <1>1, <1>3, <1>4, <2>1 DEF ListInv, NotYetSent
<1> HIDE DEF c
<1>6. TypeOK'
  <2>1. copies' \in [Conns -> 0..1]
    BY <1>1, <1>2, <1>3, <1>5
  <2>2. send_client_' \in 0..MaxListed
    BY <1>1, <1>2
  <2> QED
    BY <1>2, <2>1, <2>2 DEF TypeOK
<1>7. NotYetSent'
  <2> SUFFICES ASSUME NEW p \in 1..Len(clients_), copies'[clients_[p].conn] # 0
               PROVE  p <= n
    BY <1>1, <1>2, <1>4 DEF NotYetSent
  <2>1. CASE p = n
    BY <1>1, <2>1
  <2>2. CASE p # n
    <3>1. clients_[p].conn # c /\ clients_[p].conn \in Conns
      BY <1>1, <1>3, <2>2, ListTyped DEF ListInv, ListedOnce, c
    <3>2. copies[clients_[p].conn] # 0
      BY <1>1, <1>2, <3>1
    <3> QED
      BY <1>1, <1>4, <3>2 DEF ListInv, NotYetSent
  <2> QED
    BY <2>1, <2>2
<1>8. ListedOnce' /\ WithinMaxClients' /\ CleanupAt' /\ Unsent'
  BY <1>1, <1>2 DEF ListInv, ListedOnce, WithinMaxClients, Limit, ConnectedConns, Connected,
     CleanupAt, Moving, Unsent
<1> QED
  BY <1>6, <1>7, <1>8 DEF ListInv

\* A chunk is done with, or a new one begins for nobody.
LEMMA ChunkPreserves ==
  ASSUME TypeOK, ListInv, Flushed \/ ReadChunk
  PROVE  TypeOK' /\ ListInv'
<1> USE StreamServerAssumption
<1>1. /\ pc = "flush" /\ send_client_' = 0 /\ 0 \in 0..MaxListed /\ send_buf_' \in BOOLEAN
      /\ available' \in 0..MaxAvailable
      /\ UNCHANGED <<max_clients_, clients_, recv_buf_, len, arrived, uart, accepting, pc,
                     count, i>>
  <2>1. CASE Flushed
    <3>1. 0 \in 0..MaxListed /\ available \in 0..MaxAvailable
      BY DEF TypeOK
    <3>2. /\ pc = "flush" /\ send_client_' = 0 /\ send_buf_' \in BOOLEAN
          /\ available' = available
          /\ UNCHANGED <<max_clients_, clients_, toUart, accepting, at>>
      BY <2>1 DEF Flushed
    <3> QED
      BY <3>1, <3>2 DEF toUart, at
  <2>2. CASE ReadChunk
    <3>1. available \in Nat /\ available' = available - 1 /\ available > 0
          /\ available <= MaxAvailable
      BY <2>2 DEF ReadChunk, TypeOK
    <3>2. available' \in 0..MaxAvailable
      BY <3>1
    <3> QED
      BY <2>2, <3>2 DEF ReadChunk, toUart, at, TypeOK
  <2> QED
    BY <2>1, <2>2
<1>2. copies' \in [Conns -> 0..1] /\ \A c \in Conns : copies'[c] = 0
  BY DEF Flushed, ReadChunk, TypeOK, ListInv, Unsent
<1>3. TypeOK'
  BY <1>1, <1>2 DEF TypeOK
<1>4. NotYetSent' /\ Unsent'
  BY <1>1, <1>2, ListTyped DEF NotYetSent, Unsent
<1>5. ListedOnce' /\ WithinMaxClients' /\ CleanupAt'
  BY <1>1 DEF ListInv, ListedOnce, WithinMaxClients, Limit, ConnectedConns, Connected,
     CleanupAt, Moving
<1> QED
  BY <1>3, <1>4, <1>5 DEF ListInv

\* Bytes on their way to the UART keep their type: there are never more than came.
LEMMA BytesPreserve ==
  ASSUME TypeOK, UartInv, (\E c \in Conns : OnData(c)) \/ WriteArray \/ Erase
  PROVE  TypeOK'
<1> USE StreamServerAssumption
<1>1. /\ recv_buf_ \in Seq(1..MaxArrived) /\ uart \in Seq(1..MaxArrived)
      /\ arrived \in 0..MaxArrived /\ len \in 0..MaxArrived /\ Len(recv_buf_) \in Nat
  BY DEF TypeOK
<1>2. CASE \E c \in Conns : OnData(c)
  <2>1. /\ arrived < MaxArrived /\ recv_buf_' = Append(recv_buf_, arrived + 1)
        /\ arrived' = arrived + 1
        /\ UNCHANGED <<max_clients_, lists, len, uart, available, accepting, at, copies>>
    BY <1>2 DEF OnData
  <2>2. arrived + 1 \in 1..MaxArrived
    BY <1>1, <2>1
  <2>3. recv_buf_' \in Seq(1..MaxArrived) /\ arrived' \in 0..MaxArrived
    BY <1>1, <2>1, <2>2
  <2> QED
    BY <2>1, <2>3 DEF TypeOK, lists, at
<1>3. CASE WriteArray
  <2>1. len' \in 0..MaxArrived
    BY <1>3, BufferBounded DEF WriteArray
  <2>2. uart' \in Seq(1..MaxArrived)
    BY <1>1, <1>3 DEF WriteArray
  <2> QED
    BY <1>3, <2>1, <2>2 DEF TypeOK, WriteArray, lists
<1>4. CASE Erase
  <2>1. recv_buf_' \in Seq(1..MaxArrived)
    <3>1. len + 1 \in Nat /\ recv_buf_' = SubSeq(recv_buf_, len + 1, Len(recv_buf_))
      BY <1>1, <1>4 DEF Erase
    <3>2. \A p \in (len + 1)..Len(recv_buf_) : recv_buf_[p] \in 1..MaxArrived
      BY <1>1
    <3> QED
      BY <1>1, <3>1, <3>2
  <2> QED
    BY <1>4, <2>1 DEF TypeOK, Erase, lists
<1> QED
  BY <1>2, <1>3, <1>4

\* The other steps of loop() and the UART leave the list as it is.
LEMMA RestPreserves ==
  ASSUME TypeOK, ListInv,
         \/ Overflow \/ ReadFails \/ ReadNothing \/ EndLoop
         \/ UartReceives \/ UNCHANGED vars
  PROVE  TypeOK' /\ ListInv'
<1> USE StreamServerAssumption
<1>0. available \in 0..MaxAvailable
  BY DEF TypeOK
<1>1. CASE Overflow \/ ReadNothing \/ ReadFails \/ UartReceives \/ UNCHANGED vars
  <2>1. /\ UNCHANGED <<max_clients_, clients_, send_client_, recv_buf_, len, arrived, uart,
                       accepting, count, i, copies>>
        /\ pc' = pc \/ (pc = "flush" /\ pc' = "write")
        /\ send_buf_' = send_buf_ \/ send_buf_' = TRUE
        /\ available' \in 0..MaxAvailable
    BY <1>0, <1>1 DEF Overflow, Flushing, ReadFails, ReadNothing, UartReceives, vars, at, lists, toUart
  <2>2. TypeOK'
    BY <2>1 DEF TypeOK
  <2>3. ListInv'
    BY <2>1, ListAlone DEF TypeOK
  <2> QED
    BY <2>2, <2>3
<1>2. CASE EndLoop
  <2>1. /\ pc = "write" /\ pc' = "cleanup"
        /\ UNCHANGED <<max_clients_, clients_, send_client_, send_buf_, recv_buf_, len, arrived,
                       uart, available, accepting, count, i, copies>>
    BY <1>2 DEF EndLoop, lists, toUart
  <2>2. TypeOK'
    BY <2>1 DEF TypeOK
  <2>3. WithinMaxClients' /\ ListedOnce' /\ NotYetSent' /\ Unsent'
    BY <2>1 DEF ListInv, WithinMaxClients, Limit, ConnectedConns, Connected, ListedOnce, Moving,
       Place, Dropped, NotYetSent, Unsent
  <2>4. CleanupAt'
    BY <2>1, ListTyped DEF ListInv, CleanupAt, Moving
  <2> QED
    BY <2>2, <2>3, <2>4 DEF ListInv
<1> QED
  BY <1>1, <1>2

\* The invariant of the list and of the bytes together.
Inv == TypeOK /\ UartInv /\ ListInv

\* Every step keeps it.
LEMMA NextKeeps == Inv /\ [Next]_vars => Inv'
<1> SUFFICES ASSUME Inv, [Next]_vars PROVE Inv'
  OBVIOUS
<1>1. UartInv'
  BY NextPreserves DEF Inv
<1>2. ASSUME NEW c \in Conns, OnData(c) PROVE ListInv'
  BY <1>2, ListAlone DEF OnData, Inv, lists, at
<1>3. CASE WriteArray \/ Erase
  <2>1. ListInv'
    BY <1>3, ListAlone DEF WriteArray, Erase, Inv, lists
  <2> QED
    BY <1>1, <1>3, <2>1, BytesPreserve DEF Inv
<1>4. ASSUME NEW c \in Conns, OnClient(c) \/ OnDisconnect(c) \/ OnData(c) PROVE Inv'
  BY <1>1, <1>2, <1>4, ClientPreserves, DisconnectPreserves, BytesPreserve DEF Inv
<1>5. CASE DiscardClients \/ Cleanup
  BY <1>1, <1>5, DiscardPreserves, FindPreserves, KeptPreserves, LostPreserves, ResizePreserves
     DEF Inv, Cleanup
<1> QED
  BY <1>1, <1>3, <1>4, <1>5, SendPreserves, ChunkPreserves, RestPreserves
     DEF Inv, Next, Loop, Callback

\* It holds at the start.
LEMMA InitKeeps == Init => Inv
<1> SUFFICES ASSUME Init PROVE Inv
  OBVIOUS
<1>1. UartInv
  BY InitUart
<1>2. TypeOK
  <2>1. /\ <<>> \in Seq([conn : Conns, disconnected : BOOLEAN]) /\ <<>> \in Seq(1..MaxArrived)
        /\ Len(<<>>) <= MaxListed
        /\ 0 \in 0..MaxListed /\ 0 \in 0..MaxArrived /\ 0 \in 0..MaxAvailable
    BY StreamServerAssumption
  <2>2. copies \in [Conns -> 0..1]
    BY DEF Init
  <2> QED
    BY <2>1, <2>2 DEF Init, TypeOK
<1>3. /\ DOMAIN clients_ = {} /\ Len(clients_) = 0 /\ max_clients_ \in Int /\ ~accepting
      /\ count = 0 /\ pc = "cleanup"
  BY StreamServerAssumption DEF Init
<1>4. Cardinality(ConnectedConns) = 0
  <2>1. ConnectedConns = {}
    BY <1>3 DEF ConnectedConns, Connected
  <2> QED
    BY <2>1, FS_EmptySet
<1>5. WithinMaxClients
  BY <1>3, <1>4 DEF WithinMaxClients, Limit
<1>6. ListInv
  BY <1>3, <1>5 DEF Init, ListInv, ListedOnce, CleanupAt, Moving, NotYetSent, Unsent
<1> QED
  BY <1>1, <1>2, <1>6 DEF Inv

\* The invariant holds in every reachable state.
LEMMA Invariance == Spec => []Inv
BY InitKeeps, NextKeeps, PTL DEF Spec

\* Every variable has its type; in particular send_client_ never gets below zero,
\* though cleanup() decrements it in a loop.
THEOREM TypeCorrect == Spec => []TypeOK
<1>1. Inv => TypeOK
  BY DEF Inv
<1> QED
  BY <1>1, Invariance, PTL

\* No client gets a chunk twice, however many connect and are lost between any
\* two turns of cleanup()'s loops, and whatever they make of send_client_: it can
\* only skip.
THEOREM ChunkSentOnce == Spec => []SentOnce
<1>1. Inv => SentOnce
  BY DEF Inv, TypeOK, SentOnce
<1> QED
  BY <1>1, Invariance, PTL

\* discard_clients() keeps the number of connected clients within max_clients, from
\* either end of the list and for any limit, though cleanup() swaps clients meanwhile.
THEOREM LimitKept == Spec => []WithinMaxClients
<1>1. Inv => WithinMaxClients
  BY DEF Inv, ListInv
<1> QED
  BY <1>1, Invariance, PTL

=============================================================================
