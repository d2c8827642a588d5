---------------------- MODULE ESP32BLEAnswersProofs ------------------------
(***************************************************************************)
(* Theorems about ESP32BLE for any number of interfaces and any lateness   *)
(* of the events that a theorem does not name.  An answer that is in time  *)
(* is the answer to the request that is waited for.  A client sees the     *)
(* events of its own interfaces only.                                      *)
(***************************************************************************)
EXTENDS ESP32BLEProofs, FunctionTheorems

\* The requests that only a method makes.  The callback task makes the others
\* too, to clean up behind a client.
Solicited == {"REG", "OPEN"} \union LinkRequests

-----------------------------------------------------------------------------
(* Counting what is in a queue.                                            *)

Places(q, ev) == {i \in DOMAIN q : q[i].ev = ev}
Count(q, ev) == Cardinality(Places(q, ev))

\* A queue holds finitely many.
LEMMA PlacesFinite ==
  ASSUME NEW S, NEW q \in Seq(S), NEW ev
  PROVE  /\ IsFiniteSet(Places(q, ev)) /\ Count(q, ev) \in Nat
         /\ Count(q, ev) = 0 <=> Places(q, ev) = {}
<1>1. DOMAIN q = 1..Len(q) /\ Len(q) \in Nat
  OBVIOUS
<1>2. IsFiniteSet(1..Len(q))
  BY <1>1, FS_Interval
<1>3. Places(q, ev) \in SUBSET (1..Len(q))
  BY <1>1 DEF Places
<1>4. IsFiniteSet(Places(q, ev))
  BY <1>2, <1>3, FS_Subset
<1> QED
  BY <1>4, FS_CardinalityType, FS_EmptySet DEF Count

\* One more at the end of a queue is counted, ...
LEMMA CountAppend ==
  ASSUME NEW S, NEW q \in Seq(S), NEW e, NEW ev
  PROVE  Count(Append(q, e), ev) = IF e.ev = ev THEN Count(q, ev) + 1 ELSE Count(q, ev)
<1> DEFINE w == Append(q, e)
<1>0. /\ Len(q) \in Nat /\ DOMAIN q = 1..Len(q) /\ DOMAIN w = 1..(Len(q) + 1)
      /\ w[Len(q) + 1] = e /\ \A i \in 1..Len(q) : w[i] = q[i]
  OBVIOUS
<1> HIDE DEF w
<1>1. CASE e.ev = ev
  <2>1. /\ Places(w, ev) = Places(q, ev) \union {Len(q) + 1}
        /\ Len(q) + 1 \notin Places(q, ev)
    BY <1>0, <1>1 DEF Places
  <2>2. IsFiniteSet(Places(q, ev))
    BY PlacesFinite
  <2> DEFINE P == Places(q, ev)
  <2>3. Cardinality(P \union {Len(q) + 1})
          = IF Len(q) + 1 \in P THEN Cardinality(P) ELSE Cardinality(P) + 1
    BY <2>2, FS_AddElement, Zenon
  <2> QED
    BY <1>1, <2>1, <2>3 DEF Count, w
<1>2. CASE e.ev # ev
  <2>1. Places(w, ev) = Places(q, ev)
    BY <1>0, <1>2 DEF Places
  <2> QED
    BY <1>2, <2>1 DEF Count, w
<1> QED
  BY <1>1, <1>2

\* ... and the first one is not counted when it is taken.
LEMMA CountTail ==
  ASSUME NEW S, NEW q \in Seq(S), q # <<>>, NEW ev
  PROVE  Count(Tail(q), ev) = IF Head(q).ev = ev THEN Count(q, ev) - 1 ELSE Count(q, ev)
<1> DEFINE A == Places(Tail(q), ev)
           B == Places(q, ev) \ {1}
           f == [i \in A |-> i + 1]
<1>1. /\ Len(q) \in Nat \ {0} /\ Tail(q) \in Seq(S) /\ Len(Tail(q)) = Len(q) - 1
      /\ \A i \in 1..(Len(q) - 1) : Tail(q)[i] = q[i + 1]
      /\ Head(q) = q[1]
  OBVIOUS
<1>2. A = {i \in 1..(Len(q) - 1) : q[i + 1].ev = ev}
  BY <1>1 DEF Places
<1>3. B = {j \in 2..Len(q) : q[j].ev = ev}
  BY <1>1 DEF Places
<1>4. f \in Bijection(A, B)
  <2>1. f \in [A -> B]
    <3>1. \A i \in A : i + 1 \in B
      BY <1>1, <1>2, <1>3
    <3> HIDE DEF A, B
    <3> QED
      BY <3>1
  <2>2. \A i, j \in A : f[i] = f[j] => i = j
    BY <1>1, <1>2
  <2>3. \A j \in B : \E i \in A : f[i] = j
    <3> TAKE j \in B
    <3>1. j - 1 \in A /\ f[j - 1] = j
      BY <1>1, <1>2, <1>3
    <3> QED
      BY <3>1
  <2> HIDE DEF A, B, f
  <2> QED
    BY <2>1, <2>2, <2>3, Fun_IsBij, Zenon
<1>5. IsFiniteSet(A) /\ IsFiniteSet(Places(q, ev))
  BY <1>1, PlacesFinite
<1>6. Cardinality(B) = Cardinality(A)
  <2> HIDE DEF A, B, f
  <2> QED
    BY <1>4, <1>5, FS_Bijection DEF ExistsBijection
<1>7. Cardinality(B) = IF 1 \in Places(q, ev) THEN Count(q, ev) - 1 ELSE Count(q, ev)
  BY <1>5, FS_RemoveElement DEF Count
<1>8. 1 \in Places(q, ev) <=> Head(q).ev = ev
  BY <1>1 DEF Places
<1> QED
  BY <1>6, <1>7, <1>8 DEF Count

\* One of another kind does not count.
LEMMA CountOne ==
  ASSUME NEW S, NEW q \in Seq(S), NEW a, NEW ev, a.ev # ev
  PROVE  Count(q \o <<a>>, ev) = Count(q, ev)
<1>1. q \o <<a>> = Append(q, a)
  OBVIOUS
<1>2. Count(Append(q, a), ev) = Count(q, ev)
  BY CountAppend
<1> QED
  BY <1>1, <1>2

\* The first of two is of another kind.
LEMMA CountTwo ==
  ASSUME NEW S, NEW q \in Seq(S), NEW a, NEW b, NEW ev, a.ev # ev
  PROVE  Count(q \o <<a, b>>, ev) = IF b.ev = ev THEN Count(q, ev) + 1 ELSE Count(q, ev)
<1>1. q \o <<a, b>> = Append(Append(q, a), b)
  OBVIOUS
<1>2. Count(Append(q, a), ev) = Count(q, ev)
  BY CountAppend
<1>3. Append(q, a) \in Seq(S \union {a})
  <2>1. q \in Seq(S \union {a})
    BY SeqMonotonic
  <2> QED
    BY <2>1
<1>4. Count(Append(Append(q, a), b), ev)
        = IF b.ev = ev THEN Count(Append(q, a), ev) + 1 ELSE Count(Append(q, a), ev)
  BY <1>3, CountAppend
<1> QED
  BY <1>1, <1>2, <1>4

-----------------------------------------------------------------------------
(* Requests and answers on their way.                                      *)

InHand(ev) == IF btc # Null /\ btc.ev = ev THEN 1 ELSE 0

\* The invariant, for one kind of request: besides what AnswersAreOwn says, a
\* wait that is over has had its answer or will not get one.
AnswerInv(ev) ==
  /\ OwnAnswer(ev)
  /\ phase = "leave" /\ hook = ev => done \/ InFlight(ev) = 0

\* What is in flight is in a queue or in the callback task's hand.
LEMMA FlightParts ==
  ASSUME IndInv, NEW ev
  PROVE  /\ Count(reqs, ev) \in Nat /\ Count(evq, ev) \in Nat /\ InHand(ev) \in {0, 1}
         /\ InFlight(ev) = Count(reqs, ev) + Count(evq, ev) + InHand(ev)
         /\ InFlight(ev) \in Nat
<1>1. reqs \in Seq(RequestType) /\ evq \in Seq(EventType)
  BY DEF IndInv, TypeOK
<1>2. Count(reqs, ev) \in Nat /\ Count(evq, ev) \in Nat
  BY <1>1, PlacesFinite
<1>3. InHand(ev) \in {0, 1}
  BY DEF InHand
<1>4. InFlight(ev) = Count(reqs, ev) + Count(evq, ev) + InHand(ev)
  BY DEF InFlight, Count, Places, InHand
<1> QED
  BY <1>2, <1>3, <1>4

\* The same after a step.
LEMMA FlightPartsNext ==
  ASSUME IndInv', NEW ev
  PROVE  /\ Count(reqs', ev) \in Nat /\ Count(evq', ev) \in Nat /\ InHand(ev)' \in {0, 1}
         /\ InFlight(ev)' = Count(reqs', ev) + Count(evq', ev) + InHand(ev)'
         /\ InFlight(ev)' \in Nat
<1>1. reqs' \in Seq(RequestType) /\ evq' \in Seq(EventType)
  BY DEF IndInv, TypeOK
<1>2. Count(reqs', ev) \in Nat /\ Count(evq', ev) \in Nat
  BY <1>1, PlacesFinite
<1>3. InHand(ev)' \in {0, 1}
  BY DEF InHand
<1>4. InFlight(ev)' = Count(reqs', ev) + Count(evq', ev) + InHand(ev)'
  BY DEF InFlight, Count, Places, InHand
<1> QED
  BY <1>2, <1>3, <1>4

\* A step that brings no more in flight and leaves the wait alone keeps the
\* invariant.
LEMMA NoMoreInFlight ==
  ASSUME IndInv, IndInv', NEW ev, AnswerInv(ev), UNCHANGED <<hook, done, phase>>,
         InFlight(ev)' <= InFlight(ev)
  PROVE  AnswerInv(ev)'
<1>1. InFlight(ev) \in Nat /\ InFlight(ev)' \in Nat
  BY FlightParts, FlightPartsNext
<1>2. InFlight(ev)' <= IF hook' = ev /\ ~done' THEN 1 ELSE 0
  BY <1>1 DEF AnswerInv, OwnAnswer
<1>3. phase' = "leave" /\ hook' = ev => done' \/ InFlight(ev)' = 0
  BY <1>1 DEF AnswerInv
<1> QED
  BY <1>2, <1>3 DEF AnswerInv, OwnAnswer

\* The callback task and the main task, where they leave the queues alone.
LEMMA QueuesAlone ==
  ASSUME IndInv, IndInv', NEW ev, AnswerInv(ev), UNCHANGED <<reqs, evq, btc, hook, done, phase>>
  PROVE  AnswerInv(ev)'
<1>1. InFlight(ev)' = InFlight(ev)
  BY DEF InFlight
<1> QED
  BY <1>1, FlightParts, NoMoreInFlight

-----------------------------------------------------------------------------
(* The steps of the stack and the device.                                  *)

\* The stack takes a request and reports at most one event of its kind.
LEMMA Answered ==
  ASSUME IndInv, IndInv', NEW ev \in Solicited, AnswerInv(ev),
         UNCHANGED <<main, wait, btc>>, reqs # <<>>, reqs' = Tail(reqs),
         \/ Count(evq', ev) = Count(evq, ev)
         \/ Head(reqs).ev = ev /\ Count(evq', ev) = Count(evq, ev) + 1
  PROVE  AnswerInv(ev)'
<1>1. Count(reqs', ev) = IF Head(reqs).ev = ev THEN Count(reqs, ev) - 1 ELSE Count(reqs, ev)
  BY CountTail DEF IndInv, TypeOK
<1>2. InHand(ev)' = InHand(ev)
  BY DEF InHand
<1>3. InFlight(ev)' <= InFlight(ev)
  BY <1>1, <1>2, FlightParts, FlightPartsNext, SMTT(40)
<1> QED
  BY <1>3, NoMoreInFlight DEF main, wait

\* Links that close are reported by events that nobody has to ask for.
LEMMA ClosingUnasked ==
  ASSUME NEW S, NEW q \in Seq(S), NEW g, NEW closed \in Closing(g), NEW ev, ev # "CLOSE"
  PROVE  Count(q \o closed, ev) = Count(q, ev)
<1>1. CASE closed = <<>>
  <2>1. q \o closed = q
    BY <1>1
  <2> QED
    BY <2>1
<1>2. CASE \E x : closed = <<x>> /\ x.ev = "CLOSE"
  BY <1>2, CountOne
<1>3. closed = <<>> \/ \E x : closed = <<x>> /\ x.ev = "CLOSE"
  BY DEF Closing, Event
<1> QED
  BY <1>1, <1>2, <1>3

\* Nor for notifications and services.
LEMMA SolicitedNames ==
  ASSUME NEW ev \in Solicited
  PROVE  ev # "CLOSE" /\ ev # "UNREG" /\ ev # "NOTIFY" /\ ev # "SEARCH_RES"
BY DEF Solicited, LinkRequests

\* The stack, ...
LEMMA StackAnswers ==
  ASSUME IndInv, IndInv', NEW ev \in Solicited, AnswerInv(ev), StackStep
  PROVE  AnswerInv(ev)'
<1>1. evq \in Seq(EventType)
  BY DEF IndInv, TypeOK
<1>2. ev # "CLOSE" /\ ev # "UNREG" /\ ev # "SEARCH_RES"
  BY SolicitedNames
<1>3. ASSUME NEW x, evq' = Append(evq, x)
      PROVE  Count(evq', ev) = IF x.ev = ev THEN Count(evq, ev) + 1 ELSE Count(evq, ev)
  BY <1>1, <1>3, CountAppend
<1>4. CASE StackRegister
  <2>1. /\ reqs # <<>> /\ Head(reqs).ev = "REG" /\ reqs' = Tail(reqs)
        /\ \E x : evq' = Append(evq, x) /\ x.ev = "REG"
        /\ UNCHANGED <<main, wait, btc>>
    <3>1. \/ \E g \in Ifs : evq' = Append(evq, [ev |-> "REG", if |-> g, app |-> Head(reqs).app,
                                                ok |-> TRUE, owner |-> Head(reqs).owner])
          \/ evq' = Append(evq, [ev |-> "REG", if |-> BadIf, app |-> Head(reqs).app,
                                 ok |-> FALSE, owner |-> Head(reqs).owner])
      BY <1>4, Zenon DEF StackRegister
    <3> DEFINE Answer(g, ok) == [ev |-> "REG", if |-> g, app |-> Head(reqs).app, ok |-> ok,
                                 owner |-> Head(reqs).owner]
    <3>2. \A g, ok : Answer(g, ok).ev = "REG"
      OBVIOUS
    <3>3. \E g, ok : evq' = Append(evq, Answer(g, ok))
      BY <3>1, Zenon
    <3> HIDE DEF Answer
    <3>4. \E x : evq' = Append(evq, x) /\ x.ev = "REG"
      BY <3>2, <3>3, Zenon
    <3>5. /\ reqs # <<>> /\ Head(reqs).ev = "REG" /\ reqs' = Tail(reqs)
          /\ UNCHANGED <<main, wait, btc>>
      BY <1>4, Zenon DEF StackRegister
    <3> QED
      BY <3>4, <3>5
  <2> QED
    BY <1>3, <2>1, Answered
<1>5. CASE StackOpen
  <2>1. /\ reqs # <<>> /\ Head(reqs).ev = "OPEN" /\ reqs' = Tail(reqs)
        /\ evq' = evq \/ \E x : evq' = Append(evq, x) /\ x.ev = "OPEN"
        /\ UNCHANGED <<main, wait, btc>>
    BY <1>5 DEF StackOpen, Event
  <2> QED
    BY <1>3, <2>1, Answered
<1>6. CASE StackAnswer
  <2>1. /\ reqs # <<>> /\ reqs' = Tail(reqs)
        /\ UNCHANGED <<main, wait, btc>>
        /\ \/ evq' = evq
           \/ \E x : evq' = Append(evq, x) /\ x.ev = Head(reqs).ev
           \/ \E x, y : evq' = evq \o <<x, y>> /\ x.ev = "SEARCH_RES" /\ y.ev = Head(reqs).ev
    <3> DEFINE r == Head(reqs)
    <3>1. \/ evq' = evq
          \/ evq' = evq \o <<Event("SEARCH_RES", r.if, 0, TRUE), Event(r.ev, r.if, 0, TRUE)>>
          \/ \E ok \in BOOLEAN : evq' = Append(evq, Event(r.ev, r.if, 0, ok))
      BY <1>6 DEF StackAnswer
    <3>2. \A ev1, ok : Event(ev1, r.if, 0, ok).ev = ev1
      BY DEF Event
    <3>3. reqs # <<>> /\ reqs' = Tail(reqs) /\ UNCHANGED <<main, wait, btc>>
      BY <1>6, Zenon DEF StackAnswer
    <3>4. CASE evq' = evq \o <<Event("SEARCH_RES", r.if, 0, TRUE), Event(r.ev, r.if, 0, TRUE)>>
      BY <3>2, <3>3, <3>4, ZenonT(40)
    <3>5. CASE \E ok \in BOOLEAN : evq' = Append(evq, Event(r.ev, r.if, 0, ok))
      BY <3>2, <3>3, <3>5, Zenon
    <3> QED
      BY <3>1, <3>3, <3>4, <3>5, Zenon
  <2>2. ASSUME NEW x, NEW y, evq' = evq \o <<x, y>>, x.ev = "SEARCH_RES"
        PROVE  Count(evq', ev) = IF y.ev = ev THEN Count(evq, ev) + 1 ELSE Count(evq, ev)
    BY <1>1, <1>2, <2>2, CountTwo
  <2> QED
    BY <1>3, <2>1, <2>2, Answered
<1>7. CASE StackCancel
  <2>1. reqs # <<>> /\ reqs' = Tail(reqs) /\ evq' = evq /\ UNCHANGED <<main, wait, btc>>
    BY <1>7 DEF StackCancel
  <2> QED
    BY <2>1, Answered
<1>8. CASE StackClose
  <2>1. /\ reqs # <<>> /\ reqs' = Tail(reqs) /\ UNCHANGED <<main, wait, btc>>
        /\ \E closed \in Closing(Head(reqs).if) : evq' = evq \o closed
    BY <1>8 DEF StackClose
  <2>2. Count(evq', ev) = Count(evq, ev)
    BY <1>1, <1>2, <2>1, ClosingUnasked
  <2> QED
    BY <2>1, <2>2, Answered
<1>9. CASE StackUnregister
  <2>1. /\ reqs # <<>> /\ reqs' = Tail(reqs) /\ UNCHANGED <<main, wait, btc>>
        /\ Head(reqs).if \in AllIfs
        /\ \E closed \in Closing(Head(reqs).if) :
             evq' = evq \o closed \o (IF ifs[Head(reqs).if].used
                                     THEN <<Event("UNREG", Head(reqs).if, 0, TRUE)>> ELSE <<>>)
    BY <1>9, HeadTyped DEF StackUnregister
  <2>2. Count(evq', ev) = Count(evq, ev)
    <3>1. PICK closed \in Closing(Head(reqs).if) :
            evq' = evq \o closed \o (IF ifs[Head(reqs).if].used
                                    THEN <<Event("UNREG", Head(reqs).if, 0, TRUE)>> ELSE <<>>)
      BY <2>1
    <3> DEFINE q == evq \o closed
               x == Event("UNREG", Head(reqs).if, 0, TRUE)
    <3>2. q \in Seq(EventType) /\ x.ev = "UNREG"
      <4>1. closed \in Seq(EventType)
        BY <2>1, ClosingTyped
      <4> QED
        BY <1>1, <4>1 DEF Event
    <3>3. Count(q, ev) = Count(evq, ev)
      BY <1>1, <1>2, ClosingUnasked
    <3>4. evq' = q \o <<x>> \/ evq' = q \o <<>>
      BY <3>1
    <3> HIDE DEF q, x
    <3>5. CASE evq' = q \o <<x>>
      BY <1>2, <3>2, <3>3, <3>5, CountOne
    <3>6. CASE evq' = q \o <<>>
      <4>1. evq' = q
        BY <3>2, <3>6
      <4> QED
        BY <3>3, <4>1
    <3> QED
      BY <3>4, <3>5, <3>6
  <2> QED
    BY <2>1, <2>2, Answered
<1> QED
  BY <1>4, <1>5, <1>6, <1>7, <1>8, <1>9 DEF StackStep

\* ... and the device.
LEMMA PeerAnswers ==
  ASSUME IndInv, IndInv', NEW ev \in Solicited, AnswerInv(ev), PeerStep
  PROVE  AnswerInv(ev)'
<1>1. evq \in Seq(EventType)
  BY DEF IndInv, TypeOK
<1>2. ev # "CLOSE" /\ ev # "NOTIFY"
  BY SolicitedNames
<1>3. UNCHANGED <<main, wait, btc, reqs>> /\ Count(evq', ev) = Count(evq, ev)
  <2>1. PICK g \in Ifs : PeerDrop(g) \/ PeerNotify(g)
    BY DEF PeerStep
  <2>2. CASE PeerDrop(g)
    <3>1. PICK closed \in Closing(g) : evq' = evq \o closed
      BY <2>2 DEF PeerDrop
    <3>2. UNCHANGED <<main, wait, btc, reqs>>
      BY <2>2 DEF PeerDrop
    <3> QED
      BY <1>1, <1>2, <3>1, <3>2, ClosingUnasked
  <2>3. CASE PeerNotify(g)
    <3>1. UNCHANGED <<main, wait, btc, reqs>> /\ \E x : evq' = Append(evq, x) /\ x.ev = "NOTIFY"
      BY <2>3 DEF PeerNotify, Event
    <3> QED
      BY <1>1, <1>2, <3>1, CountAppend
  <2> QED
    BY <2>1, <2>2, <2>3
<1>4. InFlight(ev)' = InFlight(ev)
  <2>1. InHand(ev)' = InHand(ev)
    BY <1>3 DEF InHand
  <2> QED
    BY <1>3, <2>1, FlightParts, FlightPartsNext
<1> QED
  BY <1>3, <1>4, FlightParts, NoMoreInFlight DEF main, wait

-----------------------------------------------------------------------------
(* The steps of the callback task.                                         *)

\* What the callback task requests by itself is none of the solicited ones.
LEMMA CleanupUnasked ==
  ASSUME NEW e \in EventType, NEW ev \in Solicited
  PROVE  Count(reqs \o Cleanup(e), ev) = Count(reqs, ev) \/ reqs \notin Seq(RequestType)
<1> SUFFICES ASSUME reqs \in Seq(RequestType) PROVE Count(reqs \o Cleanup(e), ev) = Count(reqs, ev)
  OBVIOUS
<1>1. ev # "CLOSE" /\ ev # "UNREG"
  BY SolicitedNames
<1>2. \A name : Request(name, e.if).ev = name
  BY DEF Request
<1>3. \/ Cleanup(e) = <<Request("CLOSE", e.if)>> \/ Cleanup(e) = <<Request("UNREG", e.if)>>
      \/ Cleanup(e) = <<>>
  BY Zenon DEF Cleanup
<1>4. CASE Cleanup(e) = <<>>
  <2>1. reqs \o Cleanup(e) = reqs
    BY <1>4
  <2> QED
    BY <2>1
<1>5. CASE Cleanup(e) = <<Request("CLOSE", e.if)>>
  <2>1. Count(reqs \o <<Request("CLOSE", e.if)>>, ev) = Count(reqs, ev)
    BY <1>1, <1>2, CountOne, ZenonT(40)
  <2> QED
    BY <1>5, <2>1
<1>6. CASE Cleanup(e) = <<Request("UNREG", e.if)>>
  <2>1. Count(reqs \o <<Request("UNREG", e.if)>>, ev) = Count(reqs, ev)
    BY <1>1, <1>2, CountOne, ZenonT(40)
  <2> QED
    BY <1>6, <2>1
<1> QED
  BY <1>3, <1>4, <1>5, <1>6

\* ESP32BLE::client_event_handler takes an event from the queue into its hand.
LEMMA PickAnswers ==
  ASSUME IndInv, IndInv', NEW ev \in Solicited, AnswerInv(ev), Pick
  PROVE  AnswerInv(ev)'
<1> DEFINE e == Head(evq)
<1>1. /\ btc = Null /\ evq # <<>> /\ evq' = Tail(evq)
      /\ btc' = Null \/ btc'.ev = e.ev
      /\ reqs' = reqs \o Cleanup(e) \/ reqs' = reqs \o <<>>
      /\ UNCHANGED <<main, wait>>
  BY DEF Pick
<1>2. reqs \in Seq(RequestType) /\ evq \in Seq(EventType) /\ e \in EventType
  BY <1>1 DEF IndInv, TypeOK
<1>3. Count(evq', ev) = IF e.ev = ev THEN Count(evq, ev) - 1 ELSE Count(evq, ev)
  BY <1>1, <1>2, CountTail
<1>4. Count(reqs', ev) = Count(reqs, ev)
  <2>1. reqs \o <<>> = reqs
    BY <1>2
  <2>2. Count(reqs \o Cleanup(e), ev) = Count(reqs, ev)
    BY <1>2, CleanupUnasked
  <2> QED
    BY <1>1, <2>1, <2>2
<1>5. InHand(ev) = 0 /\ (InHand(ev)' = 1 => e.ev = ev)
  BY <1>1 DEF InHand
<1> HIDE DEF e
<1>6. InFlight(ev)' <= InFlight(ev)
  BY <1>3, <1>4, <1>5, FlightParts, FlightPartsNext
<1> QED
  BY <1>1, <1>6, NoMoreInFlight DEF main, wait

\* The event is delivered: to a client that is gone, ...
LEMMA DispatchFreedAnswers ==
  ASSUME IndInv, IndInv', NEW ev, AnswerInv(ev), DispatchFreed
  PROVE  AnswerInv(ev)'
<1>1. btc' = Null /\ UNCHANGED <<main, wait, reqs, evq>>
  BY DEF DispatchFreed, stack
<1>2. InHand(ev)' = 0
  BY <1>1 DEF InHand
<1>3. InFlight(ev)' <= InFlight(ev)
  BY <1>1, <1>2, FlightParts, FlightPartsNext
<1> QED
  BY <1>1, <1>3, NoMoreInFlight DEF main, wait

\* ... or to the one that waits for it: then the lambda has run, and there is no
\* second answer.
LEMMA DispatchAnswers ==
  ASSUME IndInv, IndInv', NEW ev, AnswerInv(ev), Dispatch
  PROVE  AnswerInv(ev)'
<1>1. /\ btc # Null /\ btc' = Null /\ UNCHANGED <<hook, phase, reqs, evq>>
      /\ \/ hook = btc.ev /\ done' = TRUE
         \/ hook # btc.ev /\ done' = done
  BY DEF Dispatch, stack, main
<1>2. InHand(ev)' = 0 /\ InHand(ev) = IF btc.ev = ev THEN 1 ELSE 0
  BY <1>1 DEF InHand
<1>3. InFlight(ev)' = InFlight(ev) - InHand(ev) /\ InFlight(ev)' \in Nat /\ InFlight(ev) \in Nat
  BY <1>1, <1>2, FlightParts, FlightPartsNext
<1>4. CASE hook = ev /\ btc.ev = ev
  <2>1. done' = TRUE /\ InFlight(ev) <= 1
    BY <1>1, <1>3, <1>4 DEF AnswerInv, OwnAnswer
  <2>2. InFlight(ev)' = 0
    BY <1>2, <1>3, <1>4, <2>1
  <2> QED
    BY <2>1, <2>2 DEF AnswerInv, OwnAnswer
<1>5. CASE ~(hook = ev /\ btc.ev = ev)
  <2>1. hook = ev => done' = done
    BY <1>1, <1>5
  <2>2. InFlight(ev)' <= InFlight(ev)
    BY <1>2, <1>3
  <2> QED
    BY <1>1, <1>3, <2>1, <2>2 DEF AnswerInv, OwnAnswer
<1> QED
  BY <1>4, <1>5

-----------------------------------------------------------------------------
(* The steps of the main task.                                             *)

\* While no method waits, no answer is on its way.
LEMMA QuietOutsideWait ==
  ASSUME IndInv, NEW ev \in Solicited, AnswerInv(ev), hook = Null
  PROVE  InFlight(ev) = 0
<1>1. ev # Null
  BY ESP32BLEAssumption DEF Solicited, Requests
<1> QED
  BY <1>1, FlightParts DEF AnswerInv, OwnAnswer

\* A request is made.
LEMMA AskAnswers ==
  ASSUME IndInv, IndInv', NEW ev \in Solicited, AnswerInv(ev), Ask
  PROVE  AnswerInv(ev)'
<1> DEFINE x == IF Head(todo) = "REG"
                THEN [ev |-> "REG", if |-> Null, app |-> cl.app_id, owner |-> me]
                ELSE Request(Head(todo), Target(Head(todo)))
<1>1. /\ todo # <<>> /\ phase = "run" /\ reqs' = Append(reqs, x) /\ hook' = Head(todo)
      /\ done' = FALSE /\ phase' = "wait" /\ UNCHANGED <<btc, evq>>
  BY DEF Ask, Running
<1>2. x.ev = Head(todo)
  BY DEF Request
<1> HIDE DEF x
<1>3. InFlight(ev) = 0
  BY <1>1, QuietOutsideWait DEF IndInv, HookFramed
<1>4. Count(reqs', ev) = IF Head(todo) = ev THEN Count(reqs, ev) + 1 ELSE Count(reqs, ev)
  <2>1. reqs \in Seq(RequestType)
    BY DEF IndInv, TypeOK
  <2> QED
    BY <1>1, <1>2, <2>1, CountAppend
<1>5. InHand(ev)' = InHand(ev) /\ Count(evq', ev) = Count(evq, ev)
  BY <1>1 DEF InHand
<1>6. InFlight(ev)' = IF Head(todo) = ev THEN 1 ELSE 0
  BY <1>3, <1>4, <1>5, FlightParts, FlightPartsNext
<1> QED
  BY <1>1, <1>6 DEF AnswerInv, OwnAnswer

\* A wait that is over without its answer will not get it later.
LEMMA WakeAnswers ==
  ASSUME IndInv, NEW ev \in Solicited \ Timeouts, AnswerInv(ev), Wake
  PROVE  AnswerInv(ev)'
<1>1. /\ phase' = "leave" /\ UNCHANGED <<hook, done, reqs, evq, btc>>
      /\ done \/ hook \in Timeouts \/ ~Coming(hook)
  BY DEF Wake, WaitOver, wait, stack
<1>2. InFlight(ev)' = InFlight(ev)
  BY <1>1 DEF InFlight
<1>3. ASSUME ~Coming(ev) PROVE InFlight(ev) = 0
  <2>1. reqs \in Seq(RequestType) /\ evq \in Seq(EventType)
    BY DEF IndInv, TypeOK
  <2>2. Places(reqs, ev) = {} /\ Places(evq, ev) = {} /\ InHand(ev) = 0
    BY <1>3 DEF Coming, Places, InHand
  <2>3. Count(reqs, ev) = 0 /\ Count(evq, ev) = 0
    BY <2>1, <2>2, PlacesFinite
  <2> QED
    BY <2>2, <2>3, FlightParts
<1>4. phase' = "leave" /\ hook' = ev => done' \/ InFlight(ev)' = 0
  BY <1>1, <1>2, <1>3
<1>5. OwnAnswer(ev)'
  BY <1>1, <1>2 DEF AnswerInv, OwnAnswer
<1> QED
  BY <1>4, <1>5 DEF AnswerInv

\* When wait_for_event returns, nothing is left of its answer.
LEMMA LeaveAnswers ==
  ASSUME IndInv, IndInv', NEW ev \in Solicited, AnswerInv(ev), Leave
  PROVE  AnswerInv(ev)'
<1>1. phase = "leave" /\ phase' = "run" /\ hook' = Null /\ UNCHANGED <<done, reqs, evq, btc>>
  BY DEF Leave, stack
<1>2. InFlight(ev)' = InFlight(ev)
  BY <1>1 DEF InFlight
<1>3. InFlight(ev) = 0
  BY <1>1, FlightParts DEF AnswerInv, OwnAnswer
<1> QED
  BY <1>1, <1>2, <1>3 DEF AnswerInv, OwnAnswer

\* The destructor's last step is not inside a wait.
LEMMA FreeAnswers ==
  ASSUME IndInv, IndInv', NEW ev \in Solicited, AnswerInv(ev), Free
  PROVE  AnswerInv(ev)'
<1>1. /\ todo # <<>> /\ Head(todo) = "free"
      /\ UNCHANGED <<phase, hook, btc, reqs, evq>>
  BY DEF Free, stack
<1>2. hook = Null
  BY <1>1 DEF IndInv, HookFramed, TypeOK, Requests, LinkRequests
<1>3. InFlight(ev) = 0 /\ InFlight(ev)' = InFlight(ev)
  BY <1>1, <1>2, QuietOutsideWait DEF InFlight
<1> QED
  BY <1>3 DEF AnswerInv, OwnAnswer

\* At the start, and after a crash, nothing is on its way.
LEMMA StartAnswers ==
  ASSUME NEW ev
  PROVE  /\ Init => AnswerInv(ev)
         /\ Reboot => AnswerInv(ev)'
<1>1. {i \in DOMAIN <<>> : <<>>[i].ev = ev} = {} /\ Cardinality({}) = 0
  BY FS_EmptySet
<1>2. ASSUME Init PROVE AnswerInv(ev)
  <2>1. reqs = <<>> /\ evq = <<>> /\ btc = Null
    BY <1>2 DEF Init
  <2>2. InFlight(ev) = 0
    BY <1>1, <2>1 DEF InFlight
  <2> QED
    BY <2>2 DEF AnswerInv, OwnAnswer
<1>3. ASSUME Reboot PROVE AnswerInv(ev)'
  <2>1. reqs' = <<>> /\ evq' = <<>> /\ btc' = Null
    BY <1>3 DEF Reboot
  <2>2. InFlight(ev)' = 0
    BY <1>1, <2>1 DEF InFlight
  <2> QED
    BY <2>2 DEF AnswerInv, OwnAnswer
<1> QED
  BY <1>2, <1>3

\* Every step keeps the invariant of each kind of answer that is in time.
LEMMA NextAnswers ==
  ASSUME IndInv, [Next]_vars, NEW ev \in Solicited \ Timeouts, AnswerInv(ev)
  PROVE  AnswerInv(ev)'
<1>1. IndInv'
  BY NextInd
<1>2. ASSUME UNCHANGED <<reqs, evq, btc, hook, done, phase>>
      PROVE  AnswerInv(ev)'
  BY <1>1, <1>2, QueuesAlone
<1>3. CASE Acquire \/ TakeNotifications \/ \E m \in Calls \union {"delete"} : Call(m)
  BY <1>2, <1>3 DEF Acquire, TakeNotifications, Call, wait, stack
<1>4. CASE AcquireNothing \/ UNCHANGED vars
  BY <1>2, <1>4 DEF AcquireNothing, vars, main, wait, stack
<1>5. CASE Skip \/ Refuse \/ Unlock \/ Release
  BY <1>2, <1>5 DEF Skip, Refuse, Unlock, Release, wait, stack
<1>6. CASE Ask \/ Wake \/ Leave \/ Free
  BY <1>1, <1>6, AskAnswers, WakeAnswers, LeaveAnswers, FreeAnswers
<1>7. CASE CallbackStep
  BY <1>1, <1>7, PickAnswers, DispatchAnswers, DispatchFreedAnswers DEF CallbackStep
<1>8. CASE StackStep \/ PeerStep
  BY <1>1, <1>8, StackAnswers, PeerAnswers
<1>9. CASE Reboot
  BY <1>9, StartAnswers
<1> QED
  BY <1>3, <1>4, <1>5, <1>6, <1>7, <1>8, <1>9 DEF Next, MainStep

\* wait_for_event() matches an answer by the kind of its event alone.  Whatever
\* kinds of answers are late, refused or failing: of each kind that is in time and
\* that only methods ask for, no answer is on its way but the one being waited for.
THEOREM AnswersAreAwaited ==
  Spec => [](\A ev \in Solicited \ Timeouts : OwnAnswer(ev))
<1> DEFINE Inv == IndInv /\ \A ev \in Solicited \ Timeouts : AnswerInv(ev)
<1>1. Init => Inv
  BY InitInd, StartAnswers
<1>2. Inv /\ [Next]_vars => Inv'
  <2> SUFFICES ASSUME Inv, [Next]_vars PROVE Inv'
    OBVIOUS
  <2>1. ASSUME NEW ev \in Solicited \ Timeouts PROVE AnswerInv(ev)'
    BY NextAnswers
  <2>2. IndInv'
    BY NextInd
  <2> QED
    BY <2>1, <2>2
<1>3. Inv => \A ev \in Solicited \ Timeouts : OwnAnswer(ev)
  BY DEF AnswerInv
<1> HIDE DEF Inv
<1> QED
  BY <1>1, <1>2, <1>3, PTL DEF Spec

\* A kind that is only at the end of a queue is there once.
LEMMA CountLast ==
  ASSUME NEW S, NEW q \in Seq(S), NEW ev, LastOnly(q, ev)
  PROVE  /\ Has(q, ev) => Count(q, ev) = 1
         /\ ~Has(q, ev) => Count(q, ev) = 0
<1>1. ASSUME Has(q, ev) PROVE Places(q, ev) = {Len(q)}
  BY <1>1 DEF Has, LastOnly, Places
<1>2. ASSUME ~Has(q, ev) PROVE Places(q, ev) = {}
  BY <1>2 DEF Has, Places
<1> QED
  BY <1>1, <1>2, FS_Singleton, FS_EmptySet DEF Count

\* The request to give up the interface comes from the method that waits for its
\* end, and is the last.
LEMMA EndIsAwaited ==
  ASSUME IndInv, SessionInv
  PROVE  OwnAnswer("UNREG")
<1> DEFINE ev == "UNREG"
<1>1. /\ reqs \in Seq(RequestType) /\ evq \in Seq(EventType)
      /\ InFlight(ev) = Count(reqs, ev) + Count(evq, ev) + InHand(ev)
      /\ InHand(ev) = IF btc # Null /\ btc.ev = ev THEN 1 ELSE 0
  BY FlightParts DEF IndInv, TypeOK, InHand
<1>2. Null # "UNREG" /\ Null # "REG"
  BY ESP32BLEAssumption DEF Requests
<1>3. CASE ~Has(reqs, ev) /\ ~Told(evq, btc, ev)
  <2>1. Count(reqs, ev) = 0 /\ Count(evq, ev) = 0
    BY <1>1, <1>3, CountLast DEF Has, Told, LastOnly
  <2> QED
    BY <1>1, <1>3, <2>1 DEF OwnAnswer, Told
<1>4. CASE Has(reqs, ev) \/ Told(evq, btc, ev)
  <2>1. cl.state # "Idle"
    BY <1>2, <1>4 DEF SessionInv, Quiet, Registering, RegAnswered, Has, Told
  <2>2. PICK g : Requested(reqs, g, ifs[g], Pending) /\ Reports(evq, btc, g, cl.state, ifs[g])
    BY <2>1 DEF SessionInv, OneInterface
  <2>3. /\ LastOnly(reqs, ev) /\ LastOnly(evq, ev)
        /\ Pending = ev
        /\ Has(reqs, ev) => ~Told(evq, btc, ev)
        /\ btc # Null /\ btc.ev = ev => ~Has(evq, ev)
    BY <1>4, <2>2 DEF Requested, Reports, Has
  <2>4. /\ Count(reqs, ev) = IF Has(reqs, ev) THEN 1 ELSE 0
        /\ Count(evq, ev) = IF Has(evq, ev) THEN 1 ELSE 0
    BY <1>1, <2>3, CountLast
  <2>5. InFlight(ev) <= 1
    BY <1>1, <2>3, <2>4 DEF Told
  <2>6. hook = ev /\ ~done
    BY <1>2, <2>3 DEF Pending
  <2> QED
    BY <2>5, <2>6 DEF OwnAnswer
<1> QED
  BY <1>3, <1>4

\* When what starts and ends a session is in time and its end does not fail, of every
\* kind of answer that is in time but CLOSE, which comes unasked too, none is on its
\* way but the one that is being waited for.
THEOREM EveryAnswerIsOwn ==
  ASSUME InTime
  PROVE  Spec => []AnswersAreOwn
<1>1. Init => SessionInv
  BY StartSession DEF Init
<1>2. IndInv /\ SessionInv => OwnAnswer("UNREG")
  BY EndIsAwaited
<1>3. IndInv /\ SessionInv /\ [Next]_vars => SessionInv'
  BY NextSession
<1>4. /\ \A ev \in Solicited \ Timeouts : OwnAnswer(ev)
      /\ OwnAnswer("UNREG")
      => AnswersAreOwn
  BY DEF AnswersAreOwn, Solicited, Requests
<1>5. Spec => [](\A ev \in Solicited \ Timeouts : OwnAnswer(ev))
  BY AnswersAreAwaited
<1> QED
  BY InitInd, NextInd, <1>1, <1>2, <1>3, <1>4, <1>5, PTL DEF Spec

-----------------------------------------------------------------------------
(* Whose events they are.  From here on one client exists at a time, and   *)
(* registrations are in time.                                              *)

\* When all events before the i-th of a queue are delivered, gattc_ifs, which is
\* known now, has an entry for g: there is one or one of the events brings it, and
\* none takes it away again.
Entered(known, q, i, g) ==
  \E j \in 0..(i - 1) :
    /\ IF j = 0 THEN known[g] # Null ELSE q[j].if = g /\ q[j].ev # "UNREG"
    /\ \A k \in (j + 1)..(i - 1) : ~(q[k].if = g /\ q[k].ev = "UNREG")

\* Each event but a registration comes while gattc_ifs has the entry, and for the
\* interfaces in use it will be there.
Entries(known, q, links) ==
  /\ \A i \in DOMAIN q : q[i].ev # "REG" => Entered(known, q, i, q[i].if)
  /\ \A g \in AllIfs : links[g].used => Entered(known, q, Len(q) + 1, g)

\* More events do not change what is delivered before.
LEMMA EnteredBefore ==
  ASSUME NEW known, NEW q \in Seq(EventType), NEW e, NEW i \in 1..(Len(q) + 1), NEW g, Entered(known, q, i, g)
  PROVE  Entered(known, Append(q, e), i, g)
<1>1. Len(q) \in Nat /\ \A k \in 1..Len(q) : Append(q, e)[k] = q[k]
  OBVIOUS
<1>2. PICK j \in 0..(i - 1) :
        /\ IF j = 0 THEN known[g] # Null ELSE q[j].if = g /\ q[j].ev # "UNREG"
        /\ \A k \in (j + 1)..(i - 1) : ~(q[k].if = g /\ q[k].ev = "UNREG")
  BY DEF Entered
<1> DEFINE w == Append(q, e)
<1> HIDE DEF w
<1>3. IF j = 0 THEN known[g] # Null ELSE w[j].if = g /\ w[j].ev # "UNREG"
  BY <1>1, <1>2 DEF w
<1>4. \A k \in (j + 1)..(i - 1) : ~(w[k].if = g /\ w[k].ev = "UNREG")
  <2> TAKE k \in (j + 1)..(i - 1)
  <2>1. k \in 1..Len(q)
    BY <1>1, <1>2
  <2> QED
    BY <1>1, <1>2, <2>1 DEF w
<1> QED
  BY <1>2, <1>3, <1>4 DEF Entered, w

\* An event that does not take the entry away leaves it there, and brings it for
\* its own interface.
LEMMA EnteredBehind ==
  ASSUME NEW known, NEW q \in Seq(EventType), NEW e, NEW g,
         \/ Entered(known, q, Len(q) + 1, g) /\ ~(e.if = g /\ e.ev = "UNREG")
         \/ e.if = g /\ e.ev # "UNREG"
  PROVE  Entered(known, Append(q, e), Len(Append(q, e)) + 1, g)
<1> DEFINE w == Append(q, e)
<1>1. /\ Len(q) \in Nat /\ Len(w) = Len(q) + 1 /\ w[Len(q) + 1] = e
      /\ \A k \in 1..Len(q) : w[k] = q[k]
  OBVIOUS
<1> HIDE DEF w
<1>2. CASE e.if = g /\ e.ev # "UNREG"
  <2> DEFINE j == Len(q) + 1
  <2>1. /\ j \in 0..Len(w) /\ j # 0 /\ w[j].if = g /\ w[j].ev # "UNREG"
        /\ (j + 1)..(Len(w) + 1 - 1) = {}
    BY <1>1, <1>2
  <2> QED
    BY <1>1, <2>1 DEF Entered, w
<1>3. CASE Entered(known, q, Len(q) + 1, g) /\ ~(e.if = g /\ e.ev = "UNREG")
  <2>1. PICK j \in 0..Len(q) :
          /\ IF j = 0 THEN known[g] # Null ELSE q[j].if = g /\ q[j].ev # "UNREG"
          /\ \A k \in (j + 1)..Len(q) : ~(q[k].if = g /\ q[k].ev = "UNREG")
    BY <1>1, <1>3 DEF Entered
  <2>2. IF j = 0 THEN known[g] # Null ELSE w[j].if = g /\ w[j].ev # "UNREG"
    BY <1>1, <2>1
  <2>3. \A k \in (j + 1)..Len(w) : ~(w[k].if = g /\ w[k].ev = "UNREG")
    <3> TAKE k \in (j + 1)..Len(w)
    <3>1. k \in (j + 1)..Len(q) \/ k = Len(q) + 1
      BY <1>1, <2>1
    <3>2. k \in (j + 1)..Len(q) => k \in 1..Len(q)
      BY <1>1, <2>1
    <3> QED
      BY <1>1, <1>3, <2>1, <3>1, <3>2
  <2>4. j \in 0..(Len(w) + 1 - 1) /\ (j + 1)..(Len(w) + 1 - 1) = (j + 1)..Len(w)
    BY <1>1, <2>1
  <2> QED
    BY <2>2, <2>3, <2>4 DEF Entered, w
<1> QED
  BY <1>2, <1>3

\* The queue: its events come while the entries are there, and belong to the client.
Orderly(q, links) ==
  /\ q \in Seq(EventType) /\ Entries(gattcIfs, q, links)
  /\ me # Null => \A i \in DOMAIN q : q[i].owner = me

\* One more event, of an interface in use or the one that says it is; behind an
\* UNREG it is not in use.
LEMMA OneMore ==
  ASSUME NEW q, NEW links, Orderly(q, links), NEW e \in EventType,
         e.ev = "REG" \/ links[e.if].used, me # Null => e.owner = me,
         NEW after,
         \A g \in AllIfs : after[g].used => IF g = e.if THEN e.ev # "UNREG" ELSE links[g].used
  PROVE  Orderly(Append(q, e), after)
<1> DEFINE w == Append(q, e)
<1>1. q \in Seq(EventType) /\ e.if \in AllIfs
  BY DEF Orderly, EventType
<1>2. /\ Len(q) \in Nat /\ w \in Seq(EventType) /\ DOMAIN q = 1..Len(q)
      /\ DOMAIN w = 1..(Len(q) + 1)
      /\ w[Len(q) + 1] = e /\ \A k \in 1..Len(q) : w[k] = q[k]
  BY <1>1
<1> HIDE DEF w
<1>3. \A i \in DOMAIN w : w[i].ev # "REG" => Entered(gattcIfs, w, i, w[i].if)
  <2> SUFFICES ASSUME NEW i \in 1..(Len(q) + 1), w[i].ev # "REG"
               PROVE  Entered(gattcIfs, w, i, w[i].if)
    BY <1>2
  <2>1. CASE i \in 1..Len(q)
    <3>1. Entered(gattcIfs, q, i, q[i].if)
      BY <1>2, <2>1 DEF Orderly, Entries
    <3> QED
      BY <1>1, <1>2, <2>1, <3>1, EnteredBefore DEF w
  <2>2. CASE i = Len(q) + 1
    <3>1. Entered(gattcIfs, q, i, e.if)
      BY <1>1, <1>2, <2>2 DEF Orderly, Entries
    <3> QED
      BY <1>1, <1>2, <2>2, <3>1, EnteredBefore DEF w
  <2> QED
    BY <1>2, <2>1, <2>2
<1>4. \A g \in AllIfs : after[g].used => Entered(gattcIfs, w, Len(w) + 1, g)
  <2> SUFFICES ASSUME NEW g \in AllIfs, after[g].used PROVE Entered(gattcIfs, w, Len(w) + 1, g)
    OBVIOUS
  <2>1. links[g].used => Entered(gattcIfs, q, Len(q) + 1, g)
    BY DEF Orderly, Entries
  <2> QED
    BY <1>1, <2>1, EnteredBehind DEF w
<1>5. me # Null => \A i \in DOMAIN w : w[i].owner = me
  BY <1>2 DEF Orderly
<1> QED
  BY <1>2, <1>3, <1>4, <1>5 DEF Orderly, Entries, w

\* Interfaces that are given up, or lose their link.
LEMMA FewerInUse ==
  ASSUME NEW q, NEW links, Orderly(q, links),
         NEW after, \A g \in AllIfs : after[g].used => links[g].used
  PROVE  Orderly(q, after)
BY DEF Orderly, Entries

\* The end of a link is reported, if there is one.
LEMMA OneClosing ==
  ASSUME NEW q, Orderly(q, ifs), NEW g \in AllIfs, ifs[g].open => ifs[g].used,
         NEW closed \in Closing(g), me # Null /\ ifs[g].used => ifs[g].owner = me,
         IndInv
  PROVE  Orderly(q \o closed, ifs)
<1>0. q \in Seq(EventType)
  BY DEF Orderly
<1>1. CASE ~ifs[g].open
  <2>1. closed = <<>> /\ q \o <<>> = q
    BY <1>0, <1>1 DEF Closing
  <2> QED
    BY <2>1
<1>2. CASE ifs[g].open
  <2>1. PICK ok \in BOOLEAN : closed = <<Event("CLOSE", g, 0, ok)>>
    BY <1>2 DEF Closing, Outcomes
  <2> DEFINE e == Event("CLOSE", g, 0, ok)
  <2>2. /\ e.ev = "CLOSE" /\ e.if = g /\ e.owner = ifs[g].owner
        /\ e \in EventType
    BY DEF IndInv, TypeOK, Event, EventType, Events, Requests
  <2> HIDE DEF e
  <2>3. Orderly(Append(q, e), ifs)
    BY <1>2, <2>2, OneMore
  <2>4. q \o closed = Append(q, e)
    BY <1>0, <2>1 DEF e
  <2> QED
    BY <2>3, <2>4
<1> QED
  BY <1>1, <1>2

\* The queue when its first event is delivered: what it says of gattc_ifs is so.
LEMMA OneLess ==
  ASSUME NEW q, Orderly(q, ifs), q # <<>>, NEW known,
         \A g \in AllIfs :
           known[g] = Null <=> IF g = Head(q).if THEN Head(q).ev = "UNREG" ELSE gattcIfs[g] = Null
  PROVE  /\ Tail(q) \in Seq(EventType) /\ Entries(known, Tail(q), ifs)
         /\ me # Null => \A i \in DOMAIN Tail(q) : Tail(q)[i].owner = me
<1> DEFINE w == Tail(q)
<1>1. q \in Seq(EventType) /\ Head(q) = q[1]
  BY DEF Orderly
<1>2. /\ Len(q) \in Nat \ {0} /\ w \in Seq(EventType) /\ Len(w) = Len(q) - 1
      /\ DOMAIN q = 1..Len(q) /\ DOMAIN w = 1..(Len(q) - 1)
      /\ \A k \in 1..(Len(q) - 1) : w[k] = q[k + 1]
  BY <1>1
<1> HIDE DEF w
<1>3. ASSUME NEW i \in 1..Len(q), NEW g \in AllIfs, Entered(gattcIfs, q, i + 1, g)
      PROVE  Entered(known, w, i, g)
  <2>1. PICK j \in 0..i :
          /\ IF j = 0 THEN gattcIfs[g] # Null ELSE q[j].if = g /\ q[j].ev # "UNREG"
          /\ \A k \in (j + 1)..i : ~(q[k].if = g /\ q[k].ev = "UNREG")
    BY <1>3 DEF Entered
  <2> DEFINE m == IF j = 0 THEN 0 ELSE j - 1
  <2>2. m \in 0..(i - 1) /\ i - 1 <= Len(q) - 1
    BY <1>2, <2>1
  <2>3. IF m = 0 THEN known[g] # Null ELSE w[m].if = g /\ w[m].ev # "UNREG"
    <3>1. CASE j = 0
      <4>1. gattcIfs[g] # Null /\ ~(q[1].if = g /\ q[1].ev = "UNREG")
        BY <1>2, <2>1, <3>1
      <4> QED
        BY <1>1, <3>1, <4>1
    <3>2. CASE j = 1
      <4>1. q[1].if = g /\ q[1].ev # "UNREG" /\ m = 0
        BY <2>1, <3>2
      <4> QED
        BY <1>1, <4>1
    <3>3. CASE j > 1
      <4>1. /\ m # 0 /\ m \in 1..(Len(q) - 1) /\ m + 1 = j
            /\ q[j].if = g /\ q[j].ev # "UNREG"
        BY <1>2, <2>1, <3>3
      <4>2. w[m] = q[j]
        BY <1>2, <4>1
      <4> QED
        BY <4>1, <4>2
    <3> QED
      BY <2>1, <3>1, <3>2, <3>3
  <2>4. \A k \in (m + 1)..(i - 1) : ~(w[k].if = g /\ w[k].ev = "UNREG")
    <3> TAKE k \in (m + 1)..(i - 1)
    <3>1. k \in 1..(Len(q) - 1) /\ k + 1 \in (j + 1)..i
      BY <1>2, <2>1
    <3> QED
      BY <1>2, <2>1, <3>1
  <2> HIDE DEF m
  <2> QED
    BY <2>2, <2>3, <2>4 DEF Entered, w
<1>4. ASSUME NEW i \in DOMAIN w, w[i].ev # "REG" PROVE Entered(known, w, i, w[i].if)
  <2>1. /\ i \in 1..Len(q) /\ i + 1 \in DOMAIN q /\ w[i] = q[i + 1]
        /\ w[i] \in EventType
    BY <1>2, <1>4
  <2>2. Entered(gattcIfs, q, i + 1, w[i].if) /\ w[i].if \in AllIfs
    BY <1>4, <2>1 DEF Orderly, Entries, EventType
  <2> QED
    BY <1>3, <2>1, <2>2 DEF w
<1>5. ASSUME NEW g \in AllIfs, ifs[g].used PROVE Entered(known, w, Len(w) + 1, g)
  <2>1. Entered(gattcIfs, q, Len(q) + 1, g) /\ Len(q) \in 1..Len(q) /\ Len(w) + 1 = Len(q)
    BY <1>2, <1>5 DEF Orderly, Entries
  <2> QED
    BY <1>3, <2>1 DEF w
<1>6. me # Null => \A i \in DOMAIN w : w[i].owner = me
  <2> SUFFICES ASSUME me # Null, NEW i \in DOMAIN w PROVE w[i].owner = me
    OBVIOUS
  <2>1. i + 1 \in DOMAIN q /\ w[i] = q[i + 1]
    BY <1>2
  <2> QED
    BY <2>1 DEF Orderly
<1> QED
  BY <1>2, <1>4, <1>5, <1>6 DEF Orderly, Entries, w

\* The invariant: only interfaces in use have links, the queue is orderly, what the
\* stack has been asked to register and what it has registered is the client's.
OwnerInv ==
  /\ \A g \in AllIfs : ifs[g].open => ifs[g].used
  /\ Orderly(evq, ifs)
  /\ me # Null =>
       /\ \A i \in DOMAIN reqs : reqs[i].ev = "REG" => reqs[i].owner = me
       /\ \A g \in AllIfs : ifs[g].used => ifs[g].owner = me
  /\ EventsReachTheirOwner

\* The first request is the client's, and what is asked for after it.
LEMMA FirstRequest ==
  ASSUME IndInv, OwnerInv, reqs # <<>>
  PROVE  /\ Head(reqs) \in RequestType
         /\ Head(reqs).ev # "REG" => Head(reqs).if \in AllIfs
         /\ me # Null /\ Head(reqs).ev = "REG" => Head(reqs).owner = me
         /\ me # Null => \A i \in DOMAIN Tail(reqs) :
                           Tail(reqs)[i].ev = "REG" => Tail(reqs)[i].owner = me
<1>1. /\ reqs \in Seq(RequestType) /\ Head(reqs) = reqs[1] /\ 1 \in DOMAIN reqs
      /\ Len(reqs) \in Nat \ {0} /\ DOMAIN Tail(reqs) = 1..(Len(reqs) - 1)
      /\ \A i \in 1..(Len(reqs) - 1) : Tail(reqs)[i] = reqs[i + 1] /\ i + 1 \in DOMAIN reqs
  BY DEF IndInv, TypeOK
<1>2. Head(reqs) \in RequestType
  BY <1>1
<1>3. Head(reqs).ev # "REG" => Head(reqs).if \in AllIfs
  BY <1>2 DEF RequestType
<1> QED
  BY <1>1, <1>2, <1>3 DEF OwnerInv

\* Steps that take the first request at most, and report events of its interface.
LEMMA StackKeeps ==
  ASSUME IndInv, OwnerInv, reqs' = reqs \/ (reqs # <<>> /\ reqs' = Tail(reqs)),
         UNCHANGED <<me, btc, gattcIfs>>, Orderly(evq', ifs'),
         \A g \in AllIfs : ifs'[g].open => ifs'[g].used,
         me # Null => \A g \in AllIfs : ifs'[g].used => ifs'[g].owner = me
  PROVE  OwnerInv'
<1>1. Orderly(evq, ifs)'
  BY DEF Orderly, Entries, Entered
<1>2. me # Null => \A i \in DOMAIN reqs' : reqs'[i].ev = "REG" => reqs'[i].owner = me
  BY FirstRequest DEF OwnerInv
<1> QED
  BY <1>1, <1>2 DEF OwnerInv, EventsReachTheirOwner

\* The stack registers a client that exists under its own name.
LEMMA RegisterOwns ==
  ASSUME IndInv, OwnerInv, StackRegister
  PROVE  OwnerInv'
<1> DEFINE r == Head(reqs)
           Answer(g, ok) == [ev |-> "REG", if |-> g, app |-> r.app, ok |-> ok, owner |-> r.owner]
<1>1. /\ reqs # <<>> /\ r.ev = "REG" /\ reqs' = Tail(reqs) /\ UNCHANGED <<me, btc, gattcIfs>>
  BY DEF StackRegister, registry, main
<1>2. /\ r \in RequestType
      /\ me # Null => r.owner = me
      /\ ifs \in [AllIfs -> [used : BOOLEAN, open : BOOLEAN, owner : Clients \union {Null}]]
      /\ Orderly(evq, ifs)
  BY <1>1, FirstRequest DEF IndInv, TypeOK, OwnerInv
<1>3. r.app \in AppIds /\ r.owner \in Clients
  BY <1>1, <1>2 DEF RequestType
<1>4. \A g \in AllIfs, ok \in BOOLEAN :
        /\ Answer(g, ok) \in EventType /\ Answer(g, ok).ev = "REG" /\ Answer(g, ok).if = g
        /\ Answer(g, ok).owner = r.owner
  BY <1>3 DEF EventType, Events, Requests
<1>5. \/ \E g \in Ifs :
           /\ ifs' = [ifs EXCEPT ![g] = [used |-> TRUE, open |-> FALSE, owner |-> r.owner]]
           /\ evq' = Append(evq, Answer(g, TRUE))
      \/ ifs' = ifs /\ evq' = Append(evq, Answer(BadIf, FALSE))
  BY DEF StackRegister
<1> HIDE DEF r, Answer
<1>6. CASE ifs' = ifs /\ evq' = Append(evq, Answer(BadIf, FALSE))
  <2>1. BadIf \in AllIfs
    BY DEF AllIfs
  <2>2. Orderly(evq', ifs')
    <3> DEFINE e == Answer(BadIf, FALSE)
    <3>1. e \in EventType /\ e.ev = "REG" /\ e.owner = r.owner /\ evq' = Append(evq, e)
      BY <1>4, <1>6, <2>1
    <3> HIDE DEF e
    <3>2. \A h \in AllIfs : ifs[h].used => IF h = e.if THEN e.ev # "UNREG" ELSE ifs[h].used
      BY <3>1
    <3>3. Orderly(Append(evq, e), ifs)
      BY <1>2, <3>1, <3>2, OneMore
    <3> QED
      BY <1>6, <3>1, <3>3
  <2> QED
    BY <1>1, <1>6, <2>2, StackKeeps DEF OwnerInv
<1>7. ASSUME NEW g \in Ifs,
             ifs' = [ifs EXCEPT ![g] = [used |-> TRUE, open |-> FALSE, owner |-> r.owner]],
             evq' = Append(evq, Answer(g, TRUE))
      PROVE  OwnerInv'
  <2>1. /\ g \in AllIfs /\ ifs'[g].used = TRUE /\ ifs'[g].open = FALSE /\ ifs'[g].owner = r.owner
        /\ \A h \in AllIfs : h # g => ifs'[h] = ifs[h]
    BY <1>2, <1>7 DEF AllIfs
  <2>2. Orderly(evq', ifs')
    <3> DEFINE e == Answer(g, TRUE)
    <3>1. /\ e \in EventType /\ e.ev = "REG" /\ e.if = g /\ e.owner = r.owner
          /\ evq' = Append(evq, e)
      BY <1>4, <1>7, <2>1
    <3> HIDE DEF e
    <3>2. \A h \in AllIfs : ifs'[h].used => IF h = e.if THEN e.ev # "UNREG" ELSE ifs[h].used
      BY <2>1, <3>1
    <3>3. Orderly(Append(evq, e), ifs')
      BY <1>2, <3>1, <3>2, OneMore
    <3> QED
      BY <3>1, <3>3
  <2>3. /\ \A h \in AllIfs : ifs'[h].open => ifs'[h].used
        /\ me # Null => \A h \in AllIfs : ifs'[h].used => ifs'[h].owner = me
    BY <1>2, <2>1 DEF OwnerInv
  <2> QED
    BY <1>1, <2>2, <2>3, StackKeeps
<1> QED
  BY <1>5, <1>6, <1>7

\* An answer of an interface in use.
LEMMA EventOwned ==
  ASSUME IndInv, OwnerInv, NEW g \in AllIfs, ifs[g].used,
         NEW ev \in Events \ {"REG", "UNREG"}, NEW ok \in BOOLEAN,
         NEW q, Orderly(q, ifs)
  PROVE  Orderly(Append(q, Event(ev, g, 0, ok)), ifs)
<1> DEFINE e == Event(ev, g, 0, ok)
<1>1. /\ e.ev = ev /\ e.if = g /\ e.owner = ifs[g].owner /\ e \in EventType
  BY DEF IndInv, TypeOK, Event, EventType
<1>2. me # Null => e.owner = me
  BY <1>1 DEF OwnerInv
<1> HIDE DEF e
<1>3. \A h \in AllIfs : ifs[h].used => IF h = e.if THEN e.ev # "UNREG" ELSE ifs[h].used
  BY <1>1
<1>4. Orderly(Append(q, e), ifs)
  BY <1>1, <1>2, <1>3, OneMore
<1> QED
  BY <1>4 DEF e

\* ... which may change the interfaces' links.
LEMMA LinkKeeps ==
  ASSUME IndInv, OwnerInv, reqs' = reqs \/ (reqs # <<>> /\ reqs' = Tail(reqs)),
         UNCHANGED <<me, btc, gattcIfs>>, Orderly(evq', ifs),
         \A g \in AllIfs : /\ ifs'[g].used = ifs[g].used /\ ifs'[g].owner = ifs[g].owner
                           /\ ifs'[g].open => ifs[g].used
  PROVE  OwnerInv'
<1>1. Orderly(evq', ifs')
  BY FewerInUse
<1>2. /\ \A g \in AllIfs : ifs'[g].open => ifs'[g].used
      /\ me # Null => \A g \in AllIfs : ifs'[g].used => ifs'[g].owner = me
  BY DEF OwnerInv
<1> QED
  BY <1>1, <1>2, StackKeeps

\* The stack opens a link, ...
LEMMA OpenOwns ==
  ASSUME IndInv, OwnerInv, StackOpen
  PROVE  OwnerInv'
<1> DEFINE g == Head(reqs).if
<1>1. /\ reqs # <<>> /\ reqs' = Tail(reqs) /\ UNCHANGED <<me, btc, gattcIfs>>
      /\ g \in AllIfs /\ Orderly(evq, ifs)
  BY FirstRequest DEF StackOpen, registry, main, OwnerInv
<1>2. PICK ok \in BOOLEAN :
        /\ ok => ifs[g].used
        /\ ifs' = [ifs EXCEPT ![g].open = @ \/ ok]
        /\ evq' = IF ifs[g].used THEN Append(evq, Event("OPEN", g, 0, ok)) ELSE evq
  BY DEF StackOpen
<1> HIDE DEF g
<1>3. Orderly(evq', ifs)
  <2>1. "OPEN" \in Events \ {"REG", "UNREG"}
    BY DEF Events, Requests
  <2> QED
    BY <1>1, <1>2, <2>1, EventOwned
<1>4. \A h \in AllIfs : /\ ifs'[h].used = ifs[h].used /\ ifs'[h].owner = ifs[h].owner
                        /\ ifs'[h].open => ifs[h].used
  BY <1>1, <1>2 DEF IndInv, TypeOK, OwnerInv
<1> QED
  BY <1>1, <1>3, <1>4, LinkKeeps

\* ... answers a request that needs one, ...
LEMMA AnswerOwns ==
  ASSUME IndInv, OwnerInv, StackAnswer
  PROVE  OwnerInv'
<1> DEFINE r == Head(reqs)
<1>1. /\ reqs # <<>> /\ reqs' = Tail(reqs) /\ UNCHANGED <<me, btc, gattcIfs, ifs>>
      /\ r.ev \in LinkRequests /\ r.if \in AllIfs /\ Orderly(evq, ifs)
  BY FirstRequest DEF StackAnswer, registry, main, OwnerInv, LinkRequests
<1>2. PICK ok \in BOOLEAN :
        \/ evq' = evq
        \/ /\ ifs[r.if].used
           /\ evq' = evq \o <<Event("SEARCH_RES", r.if, 0, TRUE), Event(r.ev, r.if, 0, TRUE)>>
        \/ ifs[r.if].used /\ evq' = Append(evq, Event(r.ev, r.if, 0, ok))
  BY DEF StackAnswer
<1>3. {r.ev, "SEARCH_RES"} \subseteq Events \ {"REG", "UNREG"}
  BY <1>1 DEF Events, Requests, LinkRequests
<1> HIDE DEF r
<1>4. Orderly(evq', ifs)
  <2>1. CASE evq' = evq
    BY <1>1, <2>1
  <2>2. CASE /\ ifs[r.if].used
             /\ evq' = evq \o <<Event("SEARCH_RES", r.if, 0, TRUE), Event(r.ev, r.if, 0, TRUE)>>
    <3> DEFINE x == Event("SEARCH_RES", r.if, 0, TRUE)
               y == Event(r.ev, r.if, 0, TRUE)
    <3>1. Orderly(Append(evq, x), ifs)
      BY <1>1, <1>3, <2>2, EventOwned
    <3>2. Orderly(Append(Append(evq, x), y), ifs)
      BY <1>1, <1>3, <2>2, <3>1, EventOwned
    <3>3. evq' = evq \o <<x, y>>
      BY <2>2
    <3> HIDE DEF x, y
    <3>4. evq \o <<x, y>> = Append(Append(evq, x), y)
      BY DEF IndInv, TypeOK
    <3> QED
      BY <3>2, <3>3, <3>4
  <2>3. CASE ifs[r.if].used /\ evq' = Append(evq, Event(r.ev, r.if, 0, ok))
    <3>1. Orderly(Append(evq, Event(r.ev, r.if, 0, ok)), ifs)
      BY <1>1, <1>2, <1>3, <2>3, EventOwned
    <3> QED
      BY <2>3, <3>1
  <2> QED
    BY <1>2, <2>1, <2>2, <2>3
<1>5. \A h \in AllIfs : /\ ifs'[h].used = ifs[h].used /\ ifs'[h].owner = ifs[h].owner
                        /\ ifs'[h].open => ifs[h].used
  BY <1>1 DEF OwnerInv
<1> QED
  BY <1>1, <1>4, <1>5, LinkKeeps

\* ... drops a request, ...
LEMMA CancelOwns ==
  ASSUME IndInv, OwnerInv, StackCancel
  PROVE  OwnerInv'
<1>1. /\ reqs # <<>> /\ reqs' = Tail(reqs) /\ UNCHANGED <<me, btc, gattcIfs, evq, ifs>>
      /\ Orderly(evq', ifs)
  BY DEF StackCancel, registry, main, OwnerInv
<1>2. \A h \in AllIfs : /\ ifs'[h].used = ifs[h].used /\ ifs'[h].owner = ifs[h].owner
                        /\ ifs'[h].open => ifs[h].used
  BY <1>1 DEF OwnerInv
<1> QED
  BY <1>1, <1>2, LinkKeeps

\* ... closes the link, as the device can, ...
LEMMA ClosingOwns ==
  ASSUME IndInv, OwnerInv, NEW g \in AllIfs,
         reqs' = reqs \/ (reqs # <<>> /\ reqs' = Tail(reqs)),
         UNCHANGED <<me, btc, gattcIfs>>, ifs' = [ifs EXCEPT ![g].open = FALSE],
         NEW closed \in Closing(g), evq' = evq \o closed
  PROVE  OwnerInv'
<1>1. Orderly(evq \o closed, ifs)
  <2>1. /\ Orderly(evq, ifs)
        /\ ifs[g].open => ifs[g].used
        /\ me # Null /\ ifs[g].used => ifs[g].owner = me
    BY DEF OwnerInv
  <2> QED
    BY <2>1, OneClosing
<1>2. \A h \in AllIfs : /\ ifs'[h].used = ifs[h].used /\ ifs'[h].owner = ifs[h].owner
                        /\ ifs'[h].open => ifs[h].used
  BY DEF IndInv, TypeOK, OwnerInv
<1> QED
  BY <1>1, <1>2, LinkKeeps

\* ... and gives the interface up.
LEMMA UnregisterOwns ==
  ASSUME IndInv, OwnerInv, StackUnregister
  PROVE  OwnerInv'
<1> DEFINE g == Head(reqs).if
           x == Event("UNREG", g, 0, TRUE)
<1>1. /\ reqs # <<>> /\ reqs' = Tail(reqs) /\ UNCHANGED <<me, btc, gattcIfs>>
      /\ g \in AllIfs /\ ifs' = [ifs EXCEPT ![g] = FreeIf]
  BY FirstRequest DEF StackUnregister, registry, main
<1>2. PICK closed \in Closing(g) :
        evq' = evq \o closed \o (IF ifs[g].used THEN <<x>> ELSE <<>>)
  BY DEF StackUnregister
<1>3. /\ x \in EventType /\ x.ev = "UNREG" /\ x.if = g /\ x.owner = ifs[g].owner
  BY <1>1, EventTyped DEF Event, Events, Requests
<1> HIDE DEF g, x
<1>4. Orderly(evq \o closed, ifs)
  <2>1. /\ Orderly(evq, ifs)
        /\ ifs[g].open => ifs[g].used
        /\ me # Null /\ ifs[g].used => ifs[g].owner = me
    BY <1>1 DEF OwnerInv
  <2> QED
    BY <1>1, <1>2, <2>1, OneClosing
<1>5. /\ ~ifs'[g].used /\ ~ifs'[g].open
      /\ \A h \in AllIfs : h # g => ifs'[h] = ifs[h]
  BY <1>1 DEF IndInv, TypeOK, FreeIf
<1>6. Orderly(evq', ifs')
  <2> DEFINE q == evq \o closed
  <2>1. q \in Seq(EventType) /\ Orderly(q, ifs)
    BY <1>4 DEF Orderly
  <2>2. evq' = q \o (IF ifs[g].used THEN <<x>> ELSE <<>>)
    BY <1>2
  <2> HIDE DEF q
  <2>3. CASE ifs[g].used
    <3>1. evq' = Append(q, x)
      BY <2>1, <2>2, <2>3
    <3>2. \A h \in AllIfs : ifs'[h].used => IF h = x.if THEN x.ev # "UNREG" ELSE ifs[h].used
      BY <1>3, <1>5
    <3>3. me # Null => x.owner = me
      BY <1>1, <1>3, <2>3 DEF OwnerInv
    <3>4. Orderly(Append(q, x), ifs')
      BY <1>3, <2>1, <2>3, <3>2, <3>3, OneMore
    <3> QED
      BY <3>1, <3>4
  <2>4. CASE ~ifs[g].used
    <3>1. evq' = q
      BY <2>1, <2>2, <2>4
    <3> QED
      BY <1>5, <2>1, <3>1, FewerInUse
  <2> QED
    BY <2>3, <2>4
<1>7. /\ \A h \in AllIfs : ifs'[h].open => ifs'[h].used
      /\ me # Null => \A h \in AllIfs : ifs'[h].used => ifs'[h].owner = me
  BY <1>5 DEF OwnerInv
<1> QED
  BY <1>1, <1>6, <1>7, StackKeeps

\* Together: the stack's and the device's steps.
LEMMA StackOwns ==
  ASSUME IndInv, OwnerInv, StackStep \/ PeerStep
  PROVE  OwnerInv'
<1>1. CASE StackClose
  <2>1. /\ reqs # <<>> /\ reqs' = Tail(reqs) /\ UNCHANGED <<me, btc, gattcIfs>>
        /\ Head(reqs).if \in AllIfs /\ ifs' = [ifs EXCEPT ![Head(reqs).if].open = FALSE]
        /\ \E closed \in Closing(Head(reqs).if) : evq' = evq \o closed
    BY <1>1, FirstRequest DEF StackClose, registry, main
  <2> QED
    BY <2>1, ClosingOwns
<1>2. CASE PeerStep
  <2>1. PICK g \in Ifs : PeerDrop(g) \/ PeerNotify(g)
    BY <1>2 DEF PeerStep
  <2>2. g \in AllIfs
    BY DEF AllIfs
  <2>3. CASE PeerDrop(g)
    <3>1. /\ reqs' = reqs /\ UNCHANGED <<me, btc, gattcIfs>>
          /\ ifs' = [ifs EXCEPT ![g].open = FALSE]
          /\ \E closed \in Closing(g) : evq' = evq \o closed
      BY <2>3 DEF PeerDrop, registry, main
    <3> QED
      BY <2>2, <3>1, ClosingOwns
  <2>4. CASE PeerNotify(g)
    <3>1. /\ reqs' = reqs /\ UNCHANGED <<me, btc, gattcIfs, ifs>> /\ ifs[g].open
          /\ evq' = Append(evq, Event("NOTIFY", g, 0, TRUE))
      BY <2>4 DEF PeerNotify, registry, main
    <3>2. "NOTIFY" \in Events \ {"REG", "UNREG"} /\ ifs[g].used /\ Orderly(evq, ifs)
      BY <2>2, <3>1 DEF Events, Requests, LinkRequests, OwnerInv
    <3>3. Orderly(Append(evq, Event("NOTIFY", g, 0, TRUE)), ifs)
      BY <2>2, <3>2, EventOwned
    <3>4. \A h \in AllIfs : /\ ifs'[h].used = ifs[h].used /\ ifs'[h].owner = ifs[h].owner
                            /\ ifs'[h].open => ifs[h].used
      BY <3>1 DEF OwnerInv
    <3> QED
      BY <3>1, <3>3, <3>4, LinkKeeps
  <2> QED
    BY <2>1, <2>3, <2>4
<1> QED
  BY <1>1, <1>2, RegisterOwns, OpenOwns, AnswerOwns, CancelOwns, UnregisterOwns DEF StackStep

-----------------------------------------------------------------------------
(* The callback task takes an event; the main task comes and goes.         *)

\* A step that leaves all of it alone.
LEMMA OwnerAlone ==
  ASSUME OwnerInv, UNCHANGED <<me, gattcIfs, reqs, evq, ifs>>, btc' = btc \/ btc' = Null
  PROVE  OwnerInv'
BY DEF OwnerInv, Orderly, Entries, Entered, EventsReachTheirOwner

\* What the callback task requests by itself is no registration.
LEMMA CleanupRegistersNothing ==
  ASSUME NEW e \in EventType, NEW i \in DOMAIN Cleanup(e)
  PROVE  Cleanup(e)[i].ev # "REG"
BY DEF Cleanup, Request

LEMMA PickOwns ==
  ASSUME IndInv, OwnerInv, Pick
  PROVE  OwnerInv'
<1> DEFINE e == Head(evq)
           known == [gattcIfs EXCEPT ![e.if] = IF e.ev = "REG" THEN e.app
                                               ELSE IF @ = Null THEN 0 ELSE @]
           client == AppClient(known[e.if])
<1>1. /\ evq # <<>> /\ evq \in Seq(EventType) /\ e \in EventType /\ evq' = Tail(evq)
      /\ reqs \in Seq(RequestType) /\ Orderly(evq, ifs)
      /\ UNCHANGED <<me, ifs>>
  BY DEF Pick, main, IndInv, TypeOK, OwnerInv
<1>2. /\ gattcIfs' = [known EXCEPT ![e.if] = IF e.ev = "UNREG" THEN Null ELSE @]
      /\ btc' = IF client = Null THEN Null
                ELSE [ev |-> e.ev, if |-> e.if, ok |-> e.ok, owner |-> e.owner,
                      client |-> client]
      /\ reqs' = reqs \o Cleanup(e) \/ reqs' = reqs \o <<>>
  BY DEF Pick
<1>3. \A g \in AllIfs :
        gattcIfs'[g] = Null <=> IF g = e.if THEN e.ev = "UNREG" ELSE gattcIfs[g] = Null
  <2>1. e.if \in AllIfs /\ e.app \in Nat /\ gattcIfs \in [AllIfs -> AppIds \union {0, Null}]
    BY <1>1 DEF EventType, AppIds, IndInv, TypeOK
  <2> HIDE DEF e
  <2> QED
    BY <1>2, <2>1, ESP32BLEAssumption
<1>4. me # Null => client \in {me, Null}
  BY DEF AppClient, IndInv, RegistryOwnsClient
<1>5. me = Null => client = Null
  BY DEF AppClient, IndInv, RegistryOwnsClient
<1>6. me # Null => e.owner = me
  BY <1>1 DEF Orderly
<1> HIDE DEF e, known, client
<1>7. Orderly(evq, ifs)'
  <2>1. Head(evq) = e
    BY DEF e
  <2> QED
    BY <1>1, <1>3, <2>1, OneLess DEF Orderly
<1>8. EventsReachTheirOwner'
  BY <1>2, <1>4, <1>5, <1>6 DEF EventsReachTheirOwner
<1>9. me # Null => \A i \in DOMAIN reqs' : reqs'[i].ev = "REG" => reqs'[i].owner = me
  <2>1. CASE reqs' = reqs \o <<>>
    <3>1. reqs' = reqs
      BY <1>1, <2>1
    <3> QED
      BY <3>1 DEF OwnerInv
  <2>2. CASE reqs' = reqs \o Cleanup(e)
    <3> DEFINE c == Cleanup(e)
    <3>1. c \in Seq(RequestType) /\ \A i \in DOMAIN c : c[i].ev # "REG"
      BY <1>1, CleanupTyped, CleanupRegistersNothing
    <3>2. reqs' = reqs \o c
      BY <2>2
    <3> HIDE DEF c
    <3> SUFFICES ASSUME me # Null, NEW i \in DOMAIN reqs', reqs'[i].ev = "REG"
                 PROVE  reqs'[i].owner = me
      OBVIOUS
    <3>3. \/ i \in DOMAIN reqs /\ reqs'[i] = reqs[i]
          \/ i - Len(reqs) \in DOMAIN c /\ reqs'[i] = c[i - Len(reqs)]
      BY <1>1, <3>1, <3>2
    <3> QED
      BY <3>1, <3>3 DEF OwnerInv
  <2> QED
    BY <1>2, <2>1, <2>2
<1> QED
  BY <1>1, <1>7, <1>8, <1>9 DEF OwnerInv

\* A client registers under its own name.
LEMMA AskOwns ==
  ASSUME IndInv, OwnerInv, Ask
  PROVE  OwnerInv'
<1> DEFINE r == IF Head(todo) = "REG"
                THEN [ev |-> "REG", if |-> Null, app |-> cl.app_id, owner |-> me]
                ELSE Request(Head(todo), Target(Head(todo)))
<1>1. /\ reqs' = Append(reqs, r) /\ reqs \in Seq(RequestType)
      /\ UNCHANGED <<me, btc, gattcIfs, evq, ifs>>
  BY DEF Ask, registry, IndInv, TypeOK
<1>2. r.ev = "REG" => r.owner = me
  BY DEF Request
<1> HIDE DEF r
<1>3. me # Null => \A i \in DOMAIN reqs' : reqs'[i].ev = "REG" => reqs'[i].owner = me
  BY <1>1, <1>2 DEF OwnerInv
<1>4. Orderly(evq, ifs)'
  BY <1>1 DEF OwnerInv, Orderly, Entries, Entered
<1> QED
  BY <1>1, <1>3, <1>4 DEF OwnerInv, EventsReachTheirOwner

\* acquire() finds nothing left of another client: it counts gattc_ifs, and no
\* registration is on its way.
LEMMA AcquireOwns ==
  ASSUME MAX_CLIENTS = 1, IndInv, AnswerInv("REG"), OwnerInv, Acquire
  PROVE  OwnerInv'
<1>1. /\ UNCHANGED <<gattcIfs, btc, reqs, evq, ifs>> /\ hook = Null
      /\ reqs \in Seq(RequestType) /\ evq \in Seq(EventType)
  BY DEF Acquire, stack, IndInv, HookFramed, TypeOK
<1>2. \A g \in AllIfs : gattcIfs[g] = Null
  <2>1. IsFiniteSet(AllIfs)
    BY ESP32BLEAssumption, FS_AddElement DEF AllIfs
  <2>2. Held \subseteq AllIfs
    BY DEF Held
  <2>3. IsFiniteSet(Held) /\ Cardinality(Held) \in Nat /\ Cardinality(Held) < 1
    BY <2>1, <2>2, FS_Subset, FS_CardinalityType DEF Acquire, Room
  <2>4. Cardinality(Held) = 0
    BY <2>3
  <2>5. Held = {}
    BY <2>3, <2>4, FS_EmptySet
  <2> QED
    BY <2>5 DEF Held
<1>3. /\ \A i \in DOMAIN reqs : reqs[i].ev # "REG"
      /\ \A i \in DOMAIN evq : evq[i].ev # "REG"
  <2>1. "REG" \in Solicited
    BY DEF Solicited
  <2>2. InFlight("REG") = 0
    BY <1>1, <2>1, QuietOutsideWait
  <2>3. Count(reqs, "REG") = 0 /\ Count(evq, "REG") = 0
    BY <2>2, FlightParts
  <2> QED
    BY <1>1, <2>3, PlacesFinite DEF Places
<1>4. evq = <<>>
  <2> SUFFICES ASSUME evq # <<>> PROVE FALSE
    OBVIOUS
  <2>1. 1 \in DOMAIN evq /\ evq[1] \in EventType
    BY <1>1
  <2>2. Entered(gattcIfs, evq, 1, evq[1].if) /\ evq[1].if \in AllIfs
    BY <1>3, <2>1 DEF OwnerInv, Orderly, Entries, EventType
  <2> QED
    BY <1>2, <2>2 DEF Entered
<1>5. \A g \in AllIfs : ~ifs[g].used
  <2> SUFFICES ASSUME NEW g \in AllIfs, ifs[g].used PROVE FALSE
    OBVIOUS
  <2>1. Entered(gattcIfs, evq, 1, g)
    BY <1>4 DEF OwnerInv, Orderly, Entries
  <2> QED
    BY <1>2, <2>1 DEF Entered
<1>6. Orderly(evq, ifs)'
  BY <1>1, <1>4, <1>5 DEF Orderly, Entries
<1> QED
  BY <1>1, <1>3, <1>5, <1>6 DEF OwnerInv, EventsReachTheirOwner

\* Without a client, as after delete and after a restart, less is asked for.
LEMMA FreeOwns ==
  ASSUME IndInv, OwnerInv, Free
  PROVE  OwnerInv'
<1>1. me' = Null /\ UNCHANGED <<gattcIfs, btc, reqs, evq, ifs>>
  BY DEF Free, registry, stack
<1>2. Orderly(evq, ifs)'
  BY <1>1 DEF OwnerInv, Orderly, Entries, Entered
<1> QED
  BY <1>1, <1>2 DEF OwnerInv, EventsReachTheirOwner

LEMMA StartOwns ==
  /\ Init => OwnerInv
  /\ Reboot => OwnerInv'
<1>1. ASSUME Init PROVE OwnerInv
  BY <1>1 DEF Init, FreeIf, OwnerInv, Orderly, Entries, EventsReachTheirOwner
<1>2. ASSUME Reboot PROVE OwnerInv'
  BY <1>2 DEF Reboot, FreeIf, OwnerInv, Orderly, Entries, EventsReachTheirOwner
<1> QED
  BY <1>1, <1>2

LEMMA NextOwns ==
  ASSUME MAX_CLIENTS = 1, IndInv, AnswerInv("REG"), OwnerInv, [Next]_vars
  PROVE  OwnerInv'
<1>1. CASE Acquire
  BY <1>1, AcquireOwns
<1>2. ASSUME UNCHANGED <<me, gattcIfs, reqs, evq, ifs>>, btc' = btc \/ btc' = Null
      PROVE  OwnerInv'
  BY <1>2, OwnerAlone
<1>3. CASE TakeNotifications \/ \E m \in Calls \union {"delete"} : Call(m)
  BY <1>2, <1>3 DEF TakeNotifications, Call, registry, stack
<1>4. CASE AcquireNothing \/ UNCHANGED vars
  BY <1>2, <1>4 DEF AcquireNothing, vars, registry, main, stack
<1>5. CASE Skip \/ Refuse \/ Wake \/ Leave \/ Unlock \/ Release
  BY <1>2, <1>5 DEF Skip, Refuse, Wake, Leave, Unlock, Release, registry, stack
<1>6. CASE Ask \/ Free
  BY <1>6, AskOwns, FreeOwns
<1>7. CASE Pick
  BY <1>7, PickOwns
<1>8. CASE Dispatch \/ DispatchFreed
  BY <1>2, <1>8 DEF Dispatch, DispatchFreed, registry, main, stack
<1>9. CASE StackStep \/ PeerStep
  BY <1>9, StackOwns
<1>10. CASE Reboot
  BY <1>10, StartOwns
<1> QED
  BY <1>1, <1>3, <1>4, <1>5, <1>6, <1>7, <1>8, <1>9, <1>10 DEF Next, MainStep, CallbackStep

\* With one client at a time and registrations in time, the callback task never
\* hands a client an event of an interface that a client before it registered,
\* whatever else is late, refused or failing, although app_id 1 and the interface
\* numbers are used again.
THEOREM EventsReachOwner ==
  ASSUME MAX_CLIENTS = 1, "REG" \notin Timeouts
  PROVE  Spec => []EventsReachTheirOwner
<1> DEFINE Inv == IndInv /\ AnswerInv("REG") /\ OwnerInv
<1>1. Init => Inv
  BY InitInd, StartAnswers, StartOwns
<1>2. Inv /\ [Next]_vars => Inv'
  <2> SUFFICES ASSUME Inv, [Next]_vars PROVE Inv'
    OBVIOUS
  <2>1. "REG" \in Solicited \ Timeouts
    BY DEF Solicited
  <2>2. IndInv' /\ AnswerInv("REG")'
    BY <2>1, NextInd, NextAnswers
  <2>3. OwnerInv'
    BY NextOwns
  <2> QED
    BY <2>2, <2>3
<1>3. Inv => EventsReachTheirOwner
  BY DEF OwnerInv
<1> HIDE DEF Inv
<1> QED
  BY <1>1, <1>2, <1>3, PTL DEF Spec

=============================================================================
