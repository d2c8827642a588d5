--------------------------- MODULE ESP32BLEProofs ---------------------------
(***************************************************************************)
(* Theorems about ESP32BLE that hold for every value of its constants:     *)
(* however many clients, interfaces and calls there are.  The first three  *)
(* hold whatever events are late, refused or failing; the last ones, about *)
(* the life of a client, when those that start and end it are in time.     *)
(***************************************************************************)
EXTENDS ESP32BLE, TLAPS, SequenceTheorems, FiniteSetTheorems

\* What the first step of a tuple leaves.
LEMMA TailOfTuple ==
  ASSUME NEW a, NEW b, NEW c, NEW d, NEW e
  PROVE  /\ Tail(<<a>>) = <<>> /\ Tail(<<a, b>>) = <<b>> /\ Tail(<<a, b, c>>) = <<b, c>>
         /\ Tail(<<a, b, c, d>>) = <<b, c, d>> /\ Tail(<<a, b, c, d, e>>) = <<b, c, d, e>>
  OBVIOUS

\* What is left of a method after its first step is again the rest of one.
LEMMA RestOfRemainder ==
  ASSUME NEW t \in Remainders, t # <<>>
  PROVE  /\ Tail(t) \in Remainders
         /\ Head(t) \in Steps
         /\ Head(t) \in Requests => Tail(t) # <<>> /\ Head(Tail(t)) \notin {"release", "free"}
         /\ Head(t) = "unlock" => Tail(t) = <<>> \/ Head(Tail(t)) = "release"
         /\ Head(t) = "release" => Tail(t) = <<"free">>
         /\ Head(t) = "free" => Tail(t) = <<>>
         /\ Tail(t) # <<>> /\ Head(Tail(t)) = "UNREG" => Head(t) = "CLOSE"
         /\ Tail(t) = <<"unlock", "release", "free">> => Head(t) = "UNREG"
         /\ Tail(t) # <<>> /\ Head(Tail(t)) \in {"release", "free"} =>
              t = <<"unlock", "release", "free">> \/ Head(t) = "release"
<1> USE DEF Steps, Requests, LinkRequests
<1>1. CASE t = <<"unlock">>
  <2>1. Head(t) = "unlock" /\ Tail(t) = <<>>
    BY <1>1, TailOfTuple
  <2> QED
    BY <2>1 DEF Remainders
<1>2. CASE t = <<"free">>
  <2>1. Head(t) = "free" /\ Tail(t) = <<>>
    BY <1>2, TailOfTuple
  <2> QED
    BY <2>1 DEF Remainders
<1>3. CASE t = <<"UNREG", "unlock">>
  <2>1. Head(t) = "UNREG" /\ Tail(t) = <<"unlock">>
    BY <1>3, TailOfTuple
  <2> QED
    BY <2>1 DEF Remainders
<1>4. CASE t = <<"release", "free">>
  <2>1. Head(t) = "release" /\ Tail(t) = <<"free">>
    BY <1>4, TailOfTuple
  <2> QED
    BY <2>1 DEF Remainders
<1>5. CASE t = <<"OPEN", "CFG_MTU", "unlock">>
  <2>1. Head(t) = "OPEN" /\ Tail(t) = <<"CFG_MTU", "unlock">>
    BY <1>5, TailOfTuple
  <2> QED
    BY <2>1 DEF Remainders
<1>6. CASE t = <<"CLOSE", "UNREG", "unlock">>
  <2>1. Head(t) = "CLOSE" /\ Tail(t) = <<"UNREG", "unlock">>
    BY <1>6, TailOfTuple
  <2> QED
    BY <2>1 DEF Remainders
<1>7. CASE t = <<"unlock", "release", "free">>
  <2>1. Head(t) = "unlock" /\ Tail(t) = <<"release", "free">>
    BY <1>7, TailOfTuple
  <2> QED
    BY <2>1 DEF Remainders
<1>8. CASE t = <<"REG", "OPEN", "CFG_MTU", "unlock">>
  <2>1. Head(t) = "REG" /\ Tail(t) = <<"OPEN", "CFG_MTU", "unlock">>
    BY <1>8, TailOfTuple
  <2>2. Head(Tail(t)) = "OPEN" /\ Tail(t) # <<"unlock", "release", "free">>
    <3>1. /\ Head(<<"OPEN", "CFG_MTU", "unlock">>) = "OPEN"
          /\ Head(<<"unlock", "release", "free">>) = "unlock"
      OBVIOUS
    <3> QED
      BY <2>1, <3>1, Zenon
  <2>3. Tail(t) \in Remainders /\ Tail(t) # <<>>
    BY <2>1 DEF Remainders
  <2> QED
    BY <2>1, <2>2, <2>3
<1>9. CASE t = <<"UNREG", "unlock", "release", "free">>
  <2>1. Head(t) = "UNREG" /\ Tail(t) = <<"unlock", "release", "free">>
    BY <1>9, TailOfTuple
  <2> QED
    BY <2>1 DEF Remainders
<1>10. CASE t = <<"CLOSE", "UNREG", "unlock", "release", "free">>
  <2>1. Head(t) = "CLOSE" /\ Tail(t) = <<"UNREG", "unlock", "release", "free">>
    BY <1>10, TailOfTuple
  <2> QED
    BY <2>1 DEF Remainders
<1>11. CASE \E ev \in LinkRequests : t = <<ev, "unlock">>
  <2>1. PICK ev \in LinkRequests : t = <<ev, "unlock">>
    BY <1>11
  <2> QED
    BY <2>1, TailOfTuple DEF Remainders
<1> QED
  BY <1>1, <1>2, <1>3, <1>4, <1>5, <1>6, <1>7, <1>8, <1>9, <1>10, <1>11
  DEF Remainders

\* A method starts under the lock.
LEMMA StartOfScript ==
  ASSUME NEW m \in DOMAIN Script
  PROVE  /\ Script[m] \in Remainders /\ Script[m] # <<>>
         /\ Head(Script[m]) \notin {"release", "free"}
  BY DEF Script, Remainders, LinkRequests

-----------------------------------------------------------------------------
(* The inductive invariant.                                                *)

LEMMA InitInd == Init => IndInv
<1> SUFFICES ASSUME Init PROVE IndInv
  OBVIOUS
<1> USE ESP32BLEAssumption DEF Init
<1>1. TypeOK
  <2>1. cl \in ClientType
    BY DEF NoClient, NewClient, ClientType, AppIds
  <2>2. ifs \in [AllIfs -> [used : BOOLEAN, open : BOOLEAN, owner : Clients \union {Null}]]
    BY DEF FreeIf
  <2>3. /\ appIds \in [AppIds -> Clients \union {Null}]
        /\ gattcIfs \in [AllIfs -> AppIds \union {0, Null}]
        /\ nextAppId \in AppIds
    BY DEF AppIds
  <2>4. reqs \in Seq(RequestType) /\ evq \in Seq(EventType)
    OBVIOUS
  <2>5. todo \in Remainders /\ calls \in 0..MaxCalls
    BY DEF Remainders
  <2>6. /\ initialized \in BOOLEAN /\ lock \in BOOLEAN /\ done \in BOOLEAN
        /\ result \in BOOLEAN /\ crashed \in BOOLEAN
        /\ me = Null /\ hook = Null /\ btc = Null /\ phase = "run"
    OBVIOUS
  <2> QED
    BY <2>1, <2>2, <2>3, <2>4, <2>5, <2>6 DEF TypeOK
<1>2. MainShape
  BY DEF MainShape, NoClient, NewClient
<1>3. HookFramed
  BY DEF HookFramed
<1>4. RegistryOwnsClient
  BY DEF RegistryOwnsClient
<1> QED
  BY <1>1, <1>2, <1>3, <1>4 DEF IndInv

LEMMA RebootInd == Reboot => IndInv'
<1> SUFFICES ASSUME Reboot PROVE IndInv'
  OBVIOUS
<1> USE ESP32BLEAssumption DEF Reboot
<1>1. TypeOK'
  <2>1. cl' \in ClientType
    BY DEF NoClient, NewClient, ClientType, AppIds
  <2>2. ifs' \in [AllIfs -> [used : BOOLEAN, open : BOOLEAN, owner : Clients \union {Null}]]
    BY DEF FreeIf
  <2>3. /\ appIds' \in [AppIds -> Clients \union {Null}]
        /\ gattcIfs' \in [AllIfs -> AppIds \union {0, Null}]
        /\ nextAppId' \in AppIds
    BY DEF AppIds
  <2>4. reqs' \in Seq(RequestType) /\ evq' \in Seq(EventType)
    OBVIOUS
  <2>5. todo' \in Remainders /\ calls' \in 0..MaxCalls
    BY DEF Remainders
  <2>6. /\ initialized' \in BOOLEAN /\ lock' \in BOOLEAN /\ done' \in BOOLEAN
        /\ result' \in BOOLEAN /\ crashed' \in BOOLEAN
        /\ me' = Null /\ hook' = Null /\ btc' = Null /\ phase' = "run"
    OBVIOUS
  <2> QED
    BY <2>1, <2>2, <2>3, <2>4, <2>5, <2>6 DEF TypeOK
<1>2. MainShape'
  BY DEF MainShape, NoClient, NewClient
<1>3. HookFramed'
  BY DEF HookFramed
<1>4. RegistryOwnsClient'
  BY DEF RegistryOwnsClient
<1> QED
  BY <1>1, <1>2, <1>3, <1>4 DEF IndInv

LEMMA AcquireInd == IndInv /\ Acquire => IndInv'
<1> SUFFICES ASSUME IndInv, Acquire PROVE IndInv'
  OBVIOUS
<1> USE ESP32BLEAssumption DEF IndInv, Acquire, wait, stack
<1>1. TypeOK'
  BY DEF TypeOK, NewClient, ClientType
<1>2. MainShape'
  BY DEF MainShape, NewClient
<1>3. HookFramed'
  BY DEF HookFramed
<1>4. RegistryOwnsClient'
  <2>1. todo = <<>>
    BY DEF MainShape
  <2> QED
    BY <2>1 DEF RegistryOwnsClient, TypeOK, Released, NewClient
<1> QED
  BY <1>1, <1>2, <1>3, <1>4

LEMMA CallInd ==
  ASSUME NEW m \in Calls \union {"delete"}, IndInv, Call(m)
  PROVE  IndInv'
<1> USE ESP32BLEAssumption DEF IndInv, Call, registry, wait, stack
<1>1. /\ Script[m] \in Remainders /\ Script[m] # <<>>
      /\ Head(Script[m]) \notin {"release", "free"}
  BY StartOfScript DEF Script
<1>2. TypeOK'
  BY <1>1 DEF TypeOK
<1>3. MainShape'
  BY <1>1 DEF MainShape
<1>4. HookFramed'
  BY DEF HookFramed
<1>5. RegistryOwnsClient'
  BY <1>1 DEF RegistryOwnsClient, Released
<1> QED
  BY <1>2, <1>3, <1>4, <1>5

LEMMA TakeNotificationsInd == IndInv /\ TakeNotifications => IndInv'
<1> SUFFICES ASSUME IndInv, TakeNotifications PROVE IndInv'
  OBVIOUS
<1> USE ESP32BLEAssumption DEF IndInv, TakeNotifications, registry, wait, stack
<1>1. TypeOK'
  <2>1. cl' \in ClientType
    <3>1. cl \in ClientType /\ 0 \in 0..MaxNotes
      BY DEF TypeOK
    <3>2. cl' = [cl EXCEPT !.notifications = 0]
      OBVIOUS
    <3> QED
      BY <3>1, <3>2 DEF ClientType
  <2>2. calls' \in 0..MaxCalls
    BY DEF TypeOK
  <2> QED
    BY <2>1, <2>2 DEF TypeOK
<1>2. MainShape'
  BY DEF MainShape, TypeOK, ClientType
<1>3. HookFramed'
  BY DEF HookFramed
<1>4. RegistryOwnsClient'
  BY DEF RegistryOwnsClient, Released, TypeOK, ClientType
<1> QED
  BY <1>1, <1>2, <1>3, <1>4

-----------------------------------------------------------------------------
(* What the main task does inside a method.                                *)

\* What a method clears is neither the client's state nor its ids.
LEMMA ClearedClient ==
  ASSUME NEW ev, NEW b \in BOOLEAN, cl \in ClientType
  PROVE  /\ Cleared(ev, b) \in ClientType
         /\ Cleared(ev, b).app_id = cl.app_id /\ Cleared(ev, b).state = cl.state
         /\ Cleared(ev, b).gattc_if = cl.gattc_if /\ Cleared(ev, b).conn_id = cl.conn_id
<1> USE DEF ClientType
<1>1. 0 \in 0..MaxNotes
  BY ESP32BLEAssumption
<1>2. CASE ev = "OPEN" /\ b
  <2>1. Cleared(ev, b) = [cl EXCEPT !.services = FALSE, !.notifications = 0]
    BY <1>2 DEF Cleared
  <2> QED
    BY <1>1, <2>1
<1>3. CASE ev = "CLOSE"
  <2>1. Cleared(ev, b) = [cl EXCEPT !.notifications = 0]
    BY <1>3 DEF Cleared
  <2> QED
    BY <1>1, <2>1
<1>4. CASE ev = "SEARCH_CMPL"
  <2>1. Cleared(ev, b) = [cl EXCEPT !.services = FALSE]
    BY <1>4 DEF Cleared
  <2> QED
    BY <2>1
<1>5. CASE ~(ev = "OPEN" /\ b) /\ ev # "CLOSE" /\ ev # "SEARCH_CMPL"
  BY <1>5 DEF Cleared
<1> QED
  BY <1>2, <1>3, <1>4, <1>5

\* A step that leaves the head of the method behind: the request was not made
\* or the wait is over.
LEMMA PopInd ==
  ASSUME IndInv, todo # <<>>, Head(todo) \in Requests,
         cl' \in ClientType, cl'.app_id = cl.app_id, cl'.state = cl.state,
         cl'.gattc_if = cl.gattc_if, cl'.conn_id = cl.conn_id,
         todo' = Tail(todo), lock' = TRUE, phase' = "run", hook' = Null,
         done' \in BOOLEAN, result' \in BOOLEAN,
         UNCHANGED <<registry, me, calls, btc, crashed, stack>>
  PROVE  IndInv'
<1> USE ESP32BLEAssumption DEF IndInv, registry, stack
<1>1. /\ Tail(todo) \in Remainders /\ Tail(todo) # <<>>
      /\ Head(Tail(todo)) \notin {"release", "free"}
  BY RestOfRemainder DEF TypeOK
<1>2. TypeOK'
  BY <1>1 DEF TypeOK
<1>3. MainShape'
  BY <1>1 DEF MainShape
<1>4. HookFramed'
  BY DEF HookFramed
<1>5. RegistryOwnsClient'
  <2>1. ~Released /\ ~Released'
    BY <1>1 DEF Released, Requests, LinkRequests
  <2> QED
    BY <2>1 DEF RegistryOwnsClient
<1> QED
  BY <1>2, <1>3, <1>4, <1>5

LEMMA SkipInd == IndInv /\ Skip => IndInv'
<1> SUFFICES ASSUME IndInv, Skip PROVE IndInv'
  OBVIOUS
<1>1. hook = Null
  BY DEF IndInv, HookFramed, Skip, Running
<1> QED
  BY <1>1, PopInd DEF Skip, Running, wait, IndInv, TypeOK

LEMMA RefuseInd == IndInv /\ Refuse => IndInv'
<1> SUFFICES ASSUME IndInv, Refuse PROVE IndInv'
  OBVIOUS
<1>1. hook = Null /\ cl \in ClientType
  BY DEF IndInv, HookFramed, Refuse, Running, TypeOK
<1>2. Head(todo) \in Requests
  BY ESP32BLEAssumption DEF Refuse, Running
<1>3. /\ cl' \in ClientType /\ cl'.app_id = cl.app_id /\ cl'.state = cl.state
      /\ cl'.gattc_if = cl.gattc_if /\ cl'.conn_id = cl.conn_id
  BY <1>1, ClearedClient DEF Refuse
<1> QED
  BY <1>1, <1>2, <1>3, PopInd DEF Refuse, Running, wait, IndInv, TypeOK

LEMMA LeaveInd == IndInv /\ Leave => IndInv'
<1> SUFFICES ASSUME IndInv, Leave PROVE IndInv'
  OBVIOUS
<1>1. todo # <<>> /\ Head(todo) \in Requests
  BY ESP32BLEAssumption DEF IndInv, HookFramed, Leave, TypeOK
<1> QED
  BY <1>1, PopInd DEF Leave, IndInv, TypeOK

\* A request only names ids that are set.
LEMMA RequestTyped ==
  ASSUME TypeOK, MainShape, me # Null, NEW ev \in Requests, cl.state = Needs(ev)
  PROVE  (IF ev = "REG" THEN [ev |-> "REG", if |-> Null, app |-> cl.app_id, owner |-> me]
          ELSE Request(ev, Target(ev))) \in RequestType
<1>1. CASE ev = "REG"
  BY <1>1 DEF TypeOK, ClientType, RequestType
<1>2. CASE ev # "REG"
  <2>1. Needs(ev) # "Idle" /\ (ev \notin {"OPEN", "UNREG"} => Needs(ev) = "Ready")
    BY <1>2 DEF Needs
  <2>2. Target(ev) \in AllIfs
    BY <2>1 DEF Target, MainShape, TypeOK, ClientType
  <2> QED
    BY <1>2, <2>2 DEF Request, RequestType
<1> QED
  BY <1>1, <1>2

LEMMA AskInd == IndInv /\ Ask => IndInv'
<1> SUFFICES ASSUME IndInv, Ask PROVE IndInv'
  OBVIOUS
<1> USE ESP32BLEAssumption DEF IndInv, registry
<1>1. /\ todo # <<>> /\ Head(todo) \in Requests /\ phase = "run" /\ lock
      /\ cl.state = Needs(Head(todo)) /\ me # Null /\ cl \in ClientType
  BY DEF Ask, Running, MainShape, TypeOK
<1>2. /\ cl' \in ClientType /\ cl'.app_id = cl.app_id /\ cl'.state = cl.state
      /\ cl'.gattc_if = cl.gattc_if /\ cl'.conn_id = cl.conn_id
  BY <1>1, ClearedClient DEF Ask
<1>3. reqs' \in Seq(RequestType)
  <2> DEFINE r == IF Head(todo) = "REG"
                    THEN [ev |-> "REG", if |-> Null, app |-> cl.app_id, owner |-> me]
                  ELSE Request(Head(todo), Target(Head(todo)))
  <2>1. r \in RequestType
    BY <1>1, RequestTyped
  <2>2. reqs' = Append(reqs, r)
    BY DEF Ask
  <2> HIDE DEF r
  <2> QED
    BY <2>1, <2>2 DEF TypeOK
<1>4. TypeOK'
  BY <1>1, <1>2, <1>3 DEF Ask, TypeOK
<1>5. MainShape'
  BY <1>1, <1>2 DEF Ask, MainShape
<1>6. HookFramed'
  BY <1>1 DEF Ask, HookFramed
<1>7. RegistryOwnsClient'
  BY <1>2 DEF Ask, RegistryOwnsClient, Released
<1> QED
  BY <1>4, <1>5, <1>6, <1>7

LEMMA WakeInd == IndInv /\ Wake => IndInv'
<1> SUFFICES ASSUME IndInv, Wake PROVE IndInv'
  OBVIOUS
<1> USE DEF IndInv, Wake, registry, wait, stack
<1>1. TypeOK'
  BY DEF TypeOK
<1>2. MainShape' /\ HookFramed'
  BY DEF MainShape, HookFramed
<1>3. RegistryOwnsClient'
  BY DEF RegistryOwnsClient, Released
<1> QED
  BY <1>1, <1>2, <1>3

LEMMA UnlockInd == IndInv /\ Unlock => IndInv'
<1> SUFFICES ASSUME IndInv, Unlock PROVE IndInv'
  OBVIOUS
<1> USE DEF IndInv, Unlock, registry, wait, stack
<1>1. /\ Head(todo) = "unlock" /\ phase = "run" /\ todo # <<>> /\ Tail(todo) \in Remainders
      /\ Tail(todo) = <<>> \/ Head(Tail(todo)) = "release"
  BY RestOfRemainder DEF Running, TypeOK
<1>2. TypeOK'
  BY <1>1 DEF TypeOK
<1>3. MainShape' /\ HookFramed'
  BY <1>1 DEF MainShape, HookFramed
<1>4. RegistryOwnsClient'
  BY <1>1 DEF RegistryOwnsClient, Released
<1> QED
  BY <1>2, <1>3, <1>4

LEMMA ReleaseInd == IndInv /\ Release => IndInv'
<1> SUFFICES ASSUME IndInv, Release PROVE IndInv'
  OBVIOUS
<1> USE ESP32BLEAssumption DEF IndInv, Release, wait, stack
<1>1. /\ Head(todo) = "release" /\ todo # <<>>
      /\ Tail(todo) = <<"free">> /\ Tail(todo) \in Remainders
  BY RestOfRemainder DEF TypeOK
<1>2. TypeOK'
  BY <1>1 DEF TypeOK
<1>3. hook = Null /\ phase = "run" /\ me # Null /\ ~lock
  BY <1>1 DEF HookFramed, MainShape, TypeOK, Requests, LinkRequests
<1>4. todo' # <<>> /\ Head(todo') = "free"
  <2>1. todo' = <<"free">>
    BY <1>1
  <2> QED
    BY <2>1, SMTT(30)
<1>5. MainShape' /\ HookFramed'
  BY <1>1, <1>3, <1>4 DEF MainShape, HookFramed
<1>6. RegistryOwnsClient'
  <2>1. appIds' = [a \in AppIds |-> Null]
    <3>1. cl.app_id \in AppIds /\ appIds[cl.app_id] = me
      BY <1>1, <1>3 DEF RegistryOwnsClient, Released, TypeOK, ClientType
    <3>2. \A a \in AppIds : appIds[a] = me <=> a = cl.app_id
      BY <1>1, <1>3, <3>1 DEF RegistryOwnsClient, Released
    <3>3. appIds' = [appIds EXCEPT ![cl.app_id] = Null]
      BY <3>1, <3>2
    <3> QED
      BY <3>1, <3>2, <3>3 DEF TypeOK, RegistryOwnsClient
  <2> QED
    BY <1>4, <2>1 DEF RegistryOwnsClient, Released
<1> QED
  BY <1>2, <1>5, <1>6

LEMMA FreeInd == IndInv /\ Free => IndInv'
<1> SUFFICES ASSUME IndInv, Free PROVE IndInv'
  OBVIOUS
<1> USE ESP32BLEAssumption DEF IndInv, Free, registry, stack
<1>1. /\ Head(todo) = "free" /\ todo # <<>> /\ Tail(todo) = <<>> /\ Tail(todo) \in Remainders
  BY RestOfRemainder DEF TypeOK
<1>2. NoClient \in ClientType /\ 0 \in 0..MaxCalls
  BY DEF NoClient, NewClient, ClientType, AppIds
<1>3. TypeOK'
  BY <1>1, <1>2 DEF TypeOK
<1>4. hook = Null /\ phase = "run" /\ me # Null /\ ~lock
  BY <1>1 DEF HookFramed, MainShape, TypeOK, Requests, LinkRequests
<1>5. MainShape' /\ HookFramed'
  BY <1>1, <1>4 DEF MainShape, HookFramed, NoClient, NewClient
<1>6. RegistryOwnsClient'
  BY <1>1, <1>4 DEF RegistryOwnsClient, Released
<1> QED
  BY <1>3, <1>5, <1>6

-----------------------------------------------------------------------------
(* The callback task.                                                      *)

\* Handling an event keeps the client's app_id and its ids set.
LEMMA HandledClient ==
  ASSUME NEW d \in ClientType, d.gattc_if # Null, d.state = "Ready" => d.conn_id # Null,
         NEW e \in DeliveryType
  PROVE  /\ Handled(d, e) \in ClientType /\ Handled(d, e).app_id = d.app_id
         /\ Handled(d, e).state # "Idle" => Handled(d, e).gattc_if # Null
         /\ Handled(d, e).state = "Ready" => Handled(d, e).conn_id # Null
<1> DEFINE h == Handled(d, e)
<1>1. e.if \in AllIfs /\ e.if # Null
  BY ESP32BLEAssumption DEF DeliveryType, AllIfs
<1>2. \/ h = [d EXCEPT !.state = "Registered"]
      \/ h = [d EXCEPT !.state = "Ready", !.conn_id = e.if]
      \/ h = [d EXCEPT !.state = "Registered", !.conn_id = Null, !.services = FALSE]
      \/ h = [d EXCEPT !.state = "Registered", !.conn_id = Null]
      \/ h = [d EXCEPT !.state = "Idle", !.gattc_if = Null]
      \/ h = [d EXCEPT !.services = TRUE]
      \/ h = [d EXCEPT !.notifications = IF @ < MaxNotes THEN @ + 1 ELSE @]
      \/ h = d
  BY DEF Handled, DefaultHandled
<1> HIDE DEF h
<1>3. (IF d.notifications < MaxNotes THEN d.notifications + 1 ELSE d.notifications)
        \in 0..MaxNotes
  BY ESP32BLEAssumption DEF ClientType
<1> DEFINE Good(c) == /\ c \in ClientType /\ c.app_id = d.app_id
                      /\ c.state # "Idle" => c.gattc_if # Null
                      /\ c.state = "Ready" => c.conn_id # Null
<1>4. Good([d EXCEPT !.notifications = IF @ < MaxNotes THEN @ + 1 ELSE @])
  BY <1>3 DEF ClientType
<1>5. /\ Good([d EXCEPT !.state = "Registered"])
      /\ Good([d EXCEPT !.state = "Ready", !.conn_id = e.if])
  BY <1>1 DEF ClientType
<1>6. /\ Good([d EXCEPT !.state = "Registered", !.conn_id = Null, !.services = FALSE])
      /\ Good([d EXCEPT !.state = "Registered", !.conn_id = Null])
      /\ Good([d EXCEPT !.state = "Idle", !.gattc_if = Null])
  BY DEF ClientType
<1>7. Good([d EXCEPT !.services = TRUE]) /\ Good(d)
  BY DEF ClientType
<1>8. Good(h)
  <2> HIDE DEF Good
  <2> QED
    BY <1>2, <1>4, <1>5, <1>6, <1>7
<1> QED
  BY <1>8 DEF h

LEMMA DispatchInd == IndInv /\ Dispatch => IndInv'
<1> SUFFICES ASSUME IndInv, Dispatch PROVE IndInv'
  OBVIOUS
<1> USE ESP32BLEAssumption DEF IndInv, registry, main, stack
<1>1. btc \in DeliveryType
  BY DEF Dispatch, TypeOK
<1>2. /\ cl' \in ClientType /\ cl'.app_id = cl.app_id
      /\ cl'.state # "Idle" => cl'.gattc_if # Null
      /\ cl'.state = "Ready" => cl'.conn_id # Null
  <2> DEFINE d == [cl EXCEPT !.gattc_if = btc.if]
  <2>1. /\ d \in ClientType /\ d.app_id = cl.app_id /\ d.gattc_if # Null
        /\ d.state = "Ready" => d.conn_id # Null
    BY <1>1, ZenonT(40) DEF TypeOK, MainShape, ClientType, DeliveryType, AllIfs
  <2>2. cl' = Handled(d, btc)
    BY DEF Dispatch
  <2> HIDE DEF d
  <2> QED
    BY <1>1, <2>1, <2>2, HandledClient
<1>3. done' \in BOOLEAN /\ result' \in BOOLEAN
  BY <1>1 DEF Dispatch, TypeOK, DeliveryType
<1>4. TypeOK'
  BY <1>2, <1>3 DEF Dispatch, TypeOK
<1>5. MainShape' /\ HookFramed'
  BY <1>2 DEF Dispatch, MainShape, HookFramed
<1>6. RegistryOwnsClient'
  BY <1>2 DEF Dispatch, RegistryOwnsClient, Released
<1> QED
  BY <1>4, <1>5, <1>6

\* A step of the stack, or of the callback task before it has the client: only
\* its own variables need a look.
LEMMA EnvironmentInd ==
  ASSUME IndInv, UNCHANGED <<initialized, appIds, nextAppId, main, wait, cl>>,
         gattcIfs' \in [AllIfs -> AppIds \union {0, Null}],
         btc' \in DeliveryType \union {Null}, crashed' \in BOOLEAN,
         reqs' \in Seq(RequestType), evq' \in Seq(EventType),
         ifs' \in [AllIfs -> [used : BOOLEAN, open : BOOLEAN, owner : Clients \union {Null}]]
  PROVE  IndInv'
<1> USE DEF IndInv, main, wait
<1>1. TypeOK'
  BY DEF TypeOK
<1>2. MainShape' /\ HookFramed'
  BY DEF MainShape, HookFramed
<1>3. RegistryOwnsClient'
  BY DEF RegistryOwnsClient, Released
<1> QED
  BY <1>1, <1>2, <1>3

LEMMA DispatchFreedInd == IndInv /\ DispatchFreed => IndInv'
  BY EnvironmentInd DEF DispatchFreed, IndInv, TypeOK, registry, stack

\* The cleanup requests are requests.
LEMMA CleanupTyped ==
  ASSUME NEW e \in EventType
  PROVE  Cleanup(e) \in Seq(RequestType)
<1>1. /\ Request("CLOSE", e.if) \in RequestType
      /\ Request("UNREG", e.if) \in RequestType
  BY DEF Request, RequestType, EventType, Requests
<1> HIDE DEF Request
<1> QED
  BY <1>1 DEF Cleanup

LEMMA PickInd == IndInv /\ Pick => IndInv'
<1> SUFFICES ASSUME IndInv, Pick PROVE IndInv'
  OBVIOUS
<1> DEFINE e == Head(evq)
           known == [gattcIfs EXCEPT ![e.if] = IF e.ev = "REG" THEN e.app
                                               ELSE IF @ = Null THEN 0 ELSE @]
           client == AppClient(known[e.if])
<1>1. e \in EventType /\ Tail(evq) \in Seq(EventType)
  BY DEF Pick, IndInv, TypeOK
<1>2. known \in [AllIfs -> AppIds \union {0, Null}]
  BY <1>1 DEF IndInv, TypeOK, EventType
<1>3. client \in Clients \union {Null}
  BY DEF AppClient, IndInv, TypeOK
<1>4. /\ gattcIfs' = [known EXCEPT ![e.if] = IF e.ev = "UNREG" THEN Null ELSE @]
      /\ btc' = IF client = Null THEN Null
                ELSE [ev |-> e.ev, if |-> e.if, ok |-> e.ok, owner |-> e.owner,
                      client |-> client]
      /\ reqs' = reqs \o (IF client = Null THEN Cleanup(e) ELSE <<>>)
      /\ evq' = Tail(evq) /\ crashed' = crashed /\ ifs' = ifs
      /\ UNCHANGED <<initialized, appIds, nextAppId, main, wait, cl>>
  BY DEF Pick
<1> HIDE DEF e, known, client
<1>5. gattcIfs' \in [AllIfs -> AppIds \union {0, Null}]
  BY <1>1, <1>2, <1>4 DEF EventType
<1>6. btc' \in DeliveryType \union {Null}
  BY <1>1, <1>3, <1>4 DEF EventType, DeliveryType
<1>7. reqs' \in Seq(RequestType)
  BY <1>1, <1>4, CleanupTyped DEF IndInv, TypeOK
<1> QED
  BY <1>1, <1>4, <1>5, <1>6, <1>7, EnvironmentInd DEF IndInv, TypeOK

-----------------------------------------------------------------------------
(* The stack and the device.                                               *)

\* What a step of the stack has to keep.
IfsType == [AllIfs -> [used : BOOLEAN, open : BOOLEAN, owner : Clients \union {Null}]]
StackTyped == reqs \in Seq(RequestType) /\ evq \in Seq(EventType) /\ ifs \in IfsType

LEMMA StackInd ==
  ASSUME IndInv, UNCHANGED <<registry, main, wait, cl, btc, crashed>>, StackTyped'
  PROVE  IndInv'
  BY EnvironmentInd DEF IndInv, TypeOK, registry, StackTyped, IfsType

\* An event about an interface is an event, and the oldest request is one too.
LEMMA EventTyped ==
  ASSUME IndInv, NEW g \in AllIfs, NEW ev \in Events, NEW ok \in BOOLEAN
  PROVE  Event(ev, g, 0, ok) \in EventType
  BY DEF IndInv, TypeOK, Event, EventType

\* Sequences of one and two events, and their concatenations.
LEMMA EventSequences ==
  ASSUME NEW x \in EventType, NEW y \in EventType, NEW s \in Seq(EventType)
  PROVE  /\ <<x>> \in Seq(EventType) /\ Append(s, x) \in Seq(EventType)
         /\ s \o <<x, y>> \in Seq(EventType)
<1>1. <<x>> \in Seq(EventType) /\ <<x, y>> \in Seq(EventType)
  OBVIOUS
<1> QED
  BY <1>1

LEMMA HeadTyped ==
  ASSUME IndInv, reqs # <<>>
  PROVE  /\ Head(reqs) \in RequestType /\ Tail(reqs) \in Seq(RequestType)
         /\ Head(reqs).ev # "REG" => Head(reqs).if \in AllIfs
  BY DEF IndInv, TypeOK, RequestType

LEMMA ClosingTyped ==
  ASSUME IndInv, NEW g \in AllIfs, NEW closed \in Closing(g)
  PROVE  closed \in Seq(EventType)
<1>1. \A ok \in BOOLEAN : Event("CLOSE", g, 0, ok) \in EventType
  BY EventTyped DEF Events, Requests
<1>2. Outcomes("CLOSE") \subseteq BOOLEAN
  BY DEF Outcomes
<1>3. CASE closed = <<>>
  BY <1>3
<1>4. CASE \E ok \in Outcomes("CLOSE") : closed = <<Event("CLOSE", g, 0, ok)>>
  <2>1. PICK ok \in BOOLEAN : closed = <<Event("CLOSE", g, 0, ok)>>
    BY <1>2, <1>4
  <2> DEFINE x == Event("CLOSE", g, 0, ok)
  <2>2. x \in EventType /\ closed = <<x>>
    BY <1>1, <2>1
  <2> HIDE DEF x
  <2> QED
    BY <2>2, EventSequences
<1> QED
  BY <1>3, <1>4 DEF Closing

LEMMA StackRegisterInd == IndInv /\ StackRegister => IndInv'
<1> SUFFICES ASSUME IndInv, StackRegister PROVE IndInv'
  OBVIOUS
<1> DEFINE r == Head(reqs)
           e(g, ok) == [ev |-> "REG", if |-> g, app |-> r.app, ok |-> ok, owner |-> r.owner]
<1>1. /\ r \in RequestType /\ Tail(reqs) \in Seq(RequestType) /\ r.ev = "REG"
      /\ evq \in Seq(EventType) /\ ifs \in IfsType
  BY HeadTyped DEF StackRegister, IndInv, TypeOK, IfsType
<1>2. r.owner \in Clients \union {Null} /\ r.app \in AppIds
  BY <1>1 DEF RequestType
<1>3. \A g \in AllIfs, ok \in BOOLEAN : e(g, ok) \in EventType
  BY <1>2 DEF EventType, Events, Requests
<1>4. \/ \E g \in Ifs : /\ ifs' = [ifs EXCEPT ![g] = [used |-> TRUE, open |-> FALSE,
                                                    owner |-> r.owner]]
                        /\ evq' = Append(evq, e(g, TRUE))
      \/ ifs' = ifs /\ evq' = Append(evq, e(BadIf, FALSE))
  BY DEF StackRegister
<1>5. reqs' \in Seq(RequestType)
  BY <1>1 DEF StackRegister
<1> HIDE DEF e, r
<1>6. CASE \E g \in Ifs : /\ ifs' = [ifs EXCEPT ![g] = [used |-> TRUE, open |-> FALSE,
                                                    owner |-> r.owner]]
                        /\ evq' = Append(evq, e(g, TRUE))
  <2>1. PICK g \in Ifs : /\ ifs' = [ifs EXCEPT ![g] = [used |-> TRUE, open |-> FALSE,
                                                    owner |-> r.owner]]
                         /\ evq' = Append(evq, e(g, TRUE))
    BY <1>6
  <2>2. e(g, TRUE) \in EventType
    BY <1>3 DEF AllIfs
  <2>3. evq' \in Seq(EventType)
    BY <1>1, <2>1, <2>2, EventSequences
  <2>4. ifs' \in IfsType
    BY <1>1, <1>2, <2>1 DEF IfsType
  <2> QED
    BY <1>5, <2>3, <2>4, StackInd DEF StackRegister, StackTyped
<1>7. CASE ifs' = ifs /\ evq' = Append(evq, e(BadIf, FALSE))
  <2>1. e(BadIf, FALSE) \in EventType
    BY <1>3 DEF AllIfs
  <2>2. evq' \in Seq(EventType)
    BY <1>1, <1>7, <2>1, EventSequences
  <2> QED
    BY <1>1, <1>5, <1>7, <2>2, StackInd DEF StackRegister, StackTyped
<1> QED
  BY <1>4, <1>6, <1>7

LEMMA StackOpenInd == IndInv /\ StackOpen => IndInv'
<1> SUFFICES ASSUME IndInv, StackOpen PROVE IndInv'
  OBVIOUS
<1> DEFINE g == Head(reqs).if
<1>1. /\ g \in AllIfs /\ Tail(reqs) \in Seq(RequestType)
      /\ evq \in Seq(EventType) /\ ifs \in IfsType
  BY HeadTyped DEF StackOpen, IndInv, TypeOK, IfsType
<1>2. PICK ok \in BOOLEAN :
        /\ ifs' = [ifs EXCEPT ![g].open = @ \/ ok]
        /\ evq' = IF ifs[g].used THEN Append(evq, Event("OPEN", g, 0, ok)) ELSE evq
  BY DEF StackOpen
<1>3. Event("OPEN", g, 0, ok) \in EventType
  BY <1>1, EventTyped DEF Events, Requests
<1> HIDE DEF g
<1>4. evq' \in Seq(EventType)
  BY <1>1, <1>2, <1>3
<1>5. ifs' \in IfsType
  BY <1>1, <1>2 DEF IfsType
<1> QED
  BY <1>1, <1>4, <1>5, StackInd DEF StackOpen, StackTyped

LEMMA StackAnswerInd == IndInv /\ StackAnswer => IndInv'
<1> SUFFICES ASSUME IndInv, StackAnswer PROVE IndInv'
  OBVIOUS
<1> DEFINE r == Head(reqs)
<1>1. /\ r.if \in AllIfs /\ r.ev \in Events /\ Tail(reqs) \in Seq(RequestType)
      /\ evq \in Seq(EventType) /\ ifs \in IfsType
  BY HeadTyped DEF StackAnswer, IndInv, TypeOK, IfsType, Events, Requests, LinkRequests
<1>2. PICK ok \in BOOLEAN :
        evq' = CASE ~ifs[r.if].used -> evq
                 [] ifs[r.if].used /\ ok /\ r.ev = "SEARCH_CMPL" ->
                      evq \o <<Event("SEARCH_RES", r.if, 0, TRUE),
                               Event(r.ev, r.if, 0, TRUE)>>
                 [] OTHER -> Append(evq, Event(r.ev, r.if, 0, ok))
  BY DEF StackAnswer
<1>3. /\ Event(r.ev, r.if, 0, TRUE) \in EventType /\ Event(r.ev, r.if, 0, ok) \in EventType
      /\ Event("SEARCH_RES", r.if, 0, TRUE) \in EventType
  BY <1>1, EventTyped DEF Events
<1> DEFINE x == Event("SEARCH_RES", r.if, 0, TRUE)
           y == Event(r.ev, r.if, 0, TRUE)
           z == Event(r.ev, r.if, 0, ok)
<1>4. evq' = evq \/ evq' = evq \o <<x, y>> \/ evq' = Append(evq, z)
  BY <1>2
<1>5. x \in EventType /\ y \in EventType /\ z \in EventType
  BY <1>3
<1> HIDE DEF x, y, z
<1>6. evq' \in Seq(EventType)
  BY <1>1, <1>4, <1>5, EventSequences
<1> QED
  BY <1>1, <1>6, StackInd DEF StackAnswer, StackTyped

LEMMA StackCancelInd == IndInv /\ StackCancel => IndInv'
  BY HeadTyped, StackInd DEF StackCancel, StackTyped, IndInv, TypeOK, IfsType

LEMMA StackCloseInd == IndInv /\ StackClose => IndInv'
<1> SUFFICES ASSUME IndInv, StackClose PROVE IndInv'
  OBVIOUS
<1> DEFINE g == Head(reqs).if
<1>1. /\ g \in AllIfs /\ Tail(reqs) \in Seq(RequestType)
      /\ evq \in Seq(EventType) /\ ifs \in IfsType
  BY HeadTyped DEF StackClose, IndInv, TypeOK, IfsType
<1>2. PICK closed \in Closing(g) : evq' = evq \o closed
  BY DEF StackClose
<1>3. ifs' = [ifs EXCEPT ![g].open = FALSE]
  BY DEF StackClose
<1> HIDE DEF g
<1>4. evq' \in Seq(EventType)
  BY <1>1, <1>2, ClosingTyped
<1>5. ifs' \in IfsType
  BY <1>1, <1>3 DEF IfsType
<1> QED
  BY <1>1, <1>4, <1>5, StackInd DEF StackClose, StackTyped

LEMMA StackUnregisterInd == IndInv /\ StackUnregister => IndInv'
<1> SUFFICES ASSUME IndInv, StackUnregister PROVE IndInv'
  OBVIOUS
<1> DEFINE g == Head(reqs).if
           last == IF ifs[g].used THEN <<Event("UNREG", g, 0, TRUE)>> ELSE <<>>
<1>1. /\ g \in AllIfs /\ Tail(reqs) \in Seq(RequestType)
      /\ evq \in Seq(EventType) /\ ifs \in IfsType
  BY HeadTyped DEF StackUnregister, IndInv, TypeOK, IfsType
<1>2. PICK closed \in Closing(g) : evq' = evq \o closed \o last
  BY DEF StackUnregister
<1>3. ifs' = [ifs EXCEPT ![g] = FreeIf]
  BY DEF StackUnregister
<1>4. Event("UNREG", g, 0, TRUE) \in EventType
  BY <1>1, EventTyped DEF Events, Requests
<1>5. last \in Seq(EventType)
  <2> DEFINE x == Event("UNREG", g, 0, TRUE)
  <2>1. x \in EventType /\ (last = <<x>> \/ last = <<>>)
    BY <1>4
  <2> HIDE DEF x, last
  <2>2. <<x>> \in Seq(EventType) /\ <<>> \in Seq(EventType)
    BY <2>1
  <2> QED
    BY <2>1, <2>2
<1> HIDE DEF g, last
<1>6. evq' \in Seq(EventType)
  BY <1>1, <1>2, <1>5, ClosingTyped
<1>7. ifs' \in IfsType
  BY <1>1, <1>3 DEF IfsType, FreeIf
<1> QED
  BY <1>1, <1>6, <1>7, StackInd DEF StackUnregister, StackTyped

LEMMA PeerInd == ASSUME IndInv, NEW g \in Ifs, PeerDrop(g) \/ PeerNotify(g) PROVE IndInv'
<1>1. g \in AllIfs /\ reqs \in Seq(RequestType) /\ evq \in Seq(EventType) /\ ifs \in IfsType
  BY DEF AllIfs, IndInv, TypeOK, IfsType
<1>2. CASE PeerDrop(g)
  <2>1. PICK closed \in Closing(g) : evq' = evq \o closed
    BY <1>2 DEF PeerDrop
  <2>2. evq' \in Seq(EventType)
    BY <1>1, <2>1, ClosingTyped
  <2>3. ifs' \in IfsType
    BY <1>1, <1>2 DEF PeerDrop, IfsType
  <2> QED
    BY <1>1, <1>2, <2>2, <2>3, StackInd DEF PeerDrop, StackTyped
<1>3. CASE PeerNotify(g)
  <2>1. Event("NOTIFY", g, 0, TRUE) \in EventType
    BY <1>1, EventTyped DEF Events
  <2>2. evq' = Append(evq, Event("NOTIFY", g, 0, TRUE))
    BY <1>3 DEF PeerNotify
  <2>3. evq' \in Seq(EventType)
    BY <1>1, <2>1, <2>2, EventSequences
  <2> QED
    BY <1>1, <1>3, <2>3, StackInd DEF PeerNotify, StackTyped
<1> QED
  BY <1>2, <1>3

-----------------------------------------------------------------------------
LEMMA NextInd == IndInv /\ [Next]_vars => IndInv'
<1> SUFFICES ASSUME IndInv, [Next]_vars PROVE IndInv'
  OBVIOUS
<1>1. CASE Acquire
  BY <1>1, AcquireInd
<1>2. CASE UNCHANGED vars
  <2>1. UNCHANGED <<registry, main, wait, cl, btc, crashed>> /\ StackTyped'
    BY <1>2 DEF vars, stack, StackTyped, IndInv, TypeOK, IfsType
  <2> QED
    BY <2>1, StackInd
<1>3. CASE \E m \in Calls \union {"delete"} : Call(m)
  BY <1>3, CallInd
<1>4. CASE TakeNotifications
  BY <1>4, TakeNotificationsInd
<1>5. CASE MainStep
  BY <1>5, SkipInd, RefuseInd, AskInd, WakeInd, LeaveInd, UnlockInd, ReleaseInd, FreeInd
  DEF MainStep
<1>6. CASE CallbackStep
  BY <1>6, PickInd, DispatchInd, DispatchFreedInd DEF CallbackStep
<1>7. CASE StackStep
  BY <1>7, StackRegisterInd, StackOpenInd, StackAnswerInd, StackCancelInd, StackCloseInd,
     StackUnregisterInd DEF StackStep
<1>8. CASE PeerStep
  BY <1>8, PeerInd DEF PeerStep
<1>9. CASE Reboot
  BY <1>9, RebootInd
<1> QED
  BY <1>1, <1>2, <1>3, <1>4, <1>5, <1>6, <1>7, <1>8, <1>9 DEF Next, AcquireNothing

\* In every behaviour, whatever is late, refused or failing, every variable has
\* its type: no request is made for an interface or a connection that is not set.
THEOREM TypeCorrect == Spec => []TypeOK
<1>1. IndInv => TypeOK
  BY DEF IndInv
<1> QED
  BY InitInd, NextInd, <1>1, PTL DEF Spec

\* In every behaviour app_ids holds the living client and nothing else.
THEOREM RegistryCorrect == Spec => []RegistryOwnsClient
<1>1. IndInv => RegistryOwnsClient
  BY DEF IndInv
<1> QED
  BY InitInd, NextInd, <1>1, PTL DEF Spec

\* In every behaviour a handler that captures a stack frame of wait_for_event
\* is gone when that frame is.
THEOREM HandlersFramed == Spec => []HookFramed
<1>1. IndInv => HookFramed
  BY DEF IndInv
<1> QED
  BY InitInd, NextInd, <1>1, PTL DEF Spec

-----------------------------------------------------------------------------
(* The life of a client: what is in the stack and on its way while the     *)
(* client is in each of its states.                                        *)

\* What ends a session has to be accepted and to succeed, and what starts and ends
\* one has to be in time.
InTime == /\ Timeouts \intersect {"REG", "CLOSE", "UNREG"} = {}
          /\ Refused \intersect {"CLOSE", "UNREG"} = {}
          /\ "CLOSE" \notin Failing

Has(q, ev) == \E i \in DOMAIN q : q[i].ev = ev
LastOnly(q, ev) == \A i \in DOMAIN q : q[i].ev = ev => i = Len(q)

\* An event of a kind is in the queue or in the callback task's hand.
Told(q, b, ev) == Has(q, ev) \/ (b # Null /\ b.ev = ev)

\* What the method is still waiting for.
Pending == IF hook # Null /\ ~done THEN hook ELSE Null

\* Nothing is going on.
Quiet == reqs = <<>> /\ evq = <<>> /\ btc = Null /\ \A g \in AllIfs : ~ifs[g].used

\* The client registers, and nothing else is going on: there is the request, its
\* answer, or the answer in the callback task's hand.
RegAnswered(e) ==
  /\ reqs = <<>> /\ e.ev = "REG"
  /\ \A g \in AllIfs : ifs[g].used <=> e.ok /\ g = e.if
Registering ==
  /\ cl.state = "Idle" /\ \A g \in AllIfs : ~ifs[g].open
  /\ \/ /\ Len(reqs) = 1 /\ reqs[1].ev = "REG" /\ reqs[1].app = cl.app_id
        /\ evq = <<>> /\ btc = Null /\ \A g \in AllIfs : ~ifs[g].used
     \/ Len(evq) = 1 /\ btc = Null /\ RegAnswered(evq[1]) /\ evq[1].app = cl.app_id
     \/ evq = <<>> /\ btc # Null /\ RegAnswered(btc) /\ gattcIfs[btc.if] = cl.app_id

\* The client has interface g: what the stack is asked for is about g, which is given
\* up only by the method that waits for it, and nothing is asked for after that.
Requested(q, g, link, pending) ==
  /\ \A i \in DOMAIN q : q[i].if = g /\ q[i].ev # "REG"
  /\ LastOnly(q, "UNREG")
  /\ pending = "UNREG" <=> Has(q, "UNREG") \/ ~link.used
  /\ ~link.used => q = <<>>

\* So is what is reported, the events in q and b in the callback task's hand: the end
\* of the interface is the last event, and a link that the client knows of or will
\* hear of is open or its end is behind.
Reports(q, b, g, state, link) ==
  /\ \A i \in DOMAIN q : q[i].if = g /\ q[i].ev # "REG" /\ (q[i].ev = "CLOSE" => q[i].ok)
  /\ b # Null => b.if = g /\ b.ev # "REG" /\ (b.ev = "CLOSE" => b.ok)
  /\ link.used <=> ~Told(q, b, "UNREG")
  /\ LastOnly(q, "UNREG")
  /\ b # Null /\ b.ev = "UNREG" => q = <<>>
  /\ \A i \in DOMAIN q : q[i].ev = "OPEN" /\ q[i].ok =>
       link.open \/ \E j \in DOMAIN q : i < j /\ q[j].ev = "CLOSE"
  /\ b # Null /\ b.ev = "OPEN" /\ b.ok => link.open \/ Has(q, "CLOSE")
  /\ state = "Ready" => link.open \/ Told(q, b, "CLOSE")

OneInterface ==
  LET g == cl.gattc_if IN
  /\ \A h \in AllIfs : ifs[h].used => h = g
  /\ gattcIfs[g] = cl.app_id \/ (btc # Null /\ btc.ev = "UNREG")
  /\ cl.state = "Ready" => cl.conn_id = g
  /\ Requested(reqs, g, ifs[g], Pending)
  /\ Reports(evq, btc, g, cl.state, ifs[g])

\* What the method that runs knows of the state.
MethodKnows ==
  /\ me = Null => cl.state = "Idle"
  /\ hook = "CLOSE" => IF done THEN cl.state # "Ready"
                       ELSE cl.state = "Ready" /\ (Has(reqs, "CLOSE") \/ Told(evq, btc, "CLOSE"))
  /\ hook = "UNREG" => IF done THEN cl.state = "Idle" ELSE cl.state = "Registered"
  /\ phase = "leave" /\ hook \in {"REG", "CLOSE", "UNREG"} => done
  /\ todo # <<>> /\ phase = "run" /\ Head(todo) = "UNREG" => cl.state # "Ready"
  /\ todo # <<>> /\ Head(todo) \in {"release", "free"} => cl.state = "Idle"
  /\ todo = <<"unlock", "release", "free">> => cl.state = "Idle"

SessionInv ==
  /\ \A g \in AllIfs : ifs[g].open => ifs[g].used
  /\ cl.state = "Idle" /\ Pending # "REG" => Quiet
  /\ Pending = "REG" => Registering
  /\ cl.state # "Idle" => OneInterface
  /\ MethodKnows
  /\ NoUseAfterFree

-----------------------------------------------------------------------------
(* One more in a queue, and one less.                                      *)

\* What is behind the first one is found at the place before.
LEMMA QueueTail ==
  ASSUME NEW S, NEW q \in Seq(S), q # <<>>
  PROVE  /\ Len(q) \in Nat \ {0} /\ Tail(q) \in Seq(S) /\ Head(q) = q[1]
         /\ DOMAIN q = 1..Len(q) /\ Len(Tail(q)) = Len(q) - 1
         /\ DOMAIN Tail(q) = 1..(Len(q) - 1)
         /\ \A i \in 1..(Len(q) - 1) : Tail(q)[i] = q[i + 1]
  OBVIOUS

LEMMA QueueAppend ==
  ASSUME NEW S, NEW q \in Seq(S), NEW x
  PROVE  /\ Len(q) \in Nat /\ DOMAIN q = 1..Len(q)
         /\ DOMAIN Append(q, x) = 1..(Len(q) + 1) /\ Len(Append(q, x)) = Len(q) + 1
         /\ Append(q, x)[Len(q) + 1] = x
         /\ \A i \in 1..Len(q) : Append(q, x)[i] = q[i]
  OBVIOUS

LEMMA HasTail ==
  ASSUME NEW S, NEW q \in Seq(S), q # <<>>, NEW ev
  PROVE  /\ Has(q, ev) <=> Head(q).ev = ev \/ Has(Tail(q), ev)
         /\ LastOnly(q, ev) => LastOnly(Tail(q), ev)
         /\ LastOnly(q, ev) /\ Head(q).ev = ev => Tail(q) = <<>>
<1> DEFINE t == Tail(q)
           n == Len(q)
<1>1. /\ n \in Nat \ {0} /\ t \in Seq(S) /\ Head(q) = q[1] /\ DOMAIN q = 1..n
      /\ Len(t) = n - 1 /\ DOMAIN t = 1..(n - 1)
      /\ \A i \in 1..(n - 1) : t[i] = q[i + 1]
  BY QueueTail
<1>2. Len(q) = n /\ Tail(q) = t
  OBVIOUS
<1> HIDE DEF t, n
<1>3. Has(q, ev) <=> Head(q).ev = ev \/ Has(t, ev)
  <2>1. ASSUME Has(q, ev), Head(q).ev # ev PROVE Has(t, ev)
    <3>1. PICK i \in 1..n : q[i].ev = ev
      BY <1>1, <2>1 DEF Has
    <3>2. i - 1 \in 1..(n - 1) /\ t[i - 1] = q[i]
      BY <1>1, <2>1, <3>1
    <3> QED
      BY <1>1, <3>1, <3>2 DEF Has
  <2>2. ASSUME Has(t, ev) PROVE Has(q, ev)
    <3>1. PICK i \in 1..(n - 1) : t[i].ev = ev
      BY <1>1, <2>2 DEF Has
    <3>2. i + 1 \in 1..n /\ q[i + 1].ev = ev
      BY <1>1, <3>1
    <3> QED
      BY <1>1, <3>2 DEF Has
  <2>3. Head(q).ev = ev => Has(q, ev)
    BY <1>1 DEF Has
  <2> QED
    BY <2>1, <2>2, <2>3
<1>4. LastOnly(q, ev) => LastOnly(t, ev)
  <2> SUFFICES ASSUME LastOnly(q, ev), NEW i \in 1..(n - 1), t[i].ev = ev PROVE i = Len(t)
    BY <1>1 DEF LastOnly
  <2>1. i + 1 \in DOMAIN q /\ q[i + 1].ev = ev
    BY <1>1
  <2>2. i + 1 = n
    BY <1>2, <2>1 DEF LastOnly
  <2> QED
    BY <1>1, <2>2
<1>5. LastOnly(q, ev) /\ Head(q).ev = ev => t = <<>>
  <2> SUFFICES ASSUME LastOnly(q, ev), Head(q).ev = ev PROVE t = <<>>
    OBVIOUS
  <2>1. 1 = n
    BY <1>1, <1>2 DEF LastOnly
  <2> QED
    BY <1>1, <2>1
<1> QED
  BY <1>2, <1>3, <1>4, <1>5

LEMMA HasAppend ==
  ASSUME NEW S, NEW q \in Seq(S), NEW x, NEW ev
  PROVE  /\ Has(Append(q, x), ev) <=> Has(q, ev) \/ x.ev = ev
         /\ ~Has(q, ev) => LastOnly(Append(q, x), ev)
         /\ ~Has(<<>>, ev) /\ LastOnly(<<>>, ev)
<1> DEFINE w == Append(q, x)
           n == Len(q)
<1>1. /\ n \in Nat /\ DOMAIN q = 1..n /\ DOMAIN w = 1..(n + 1) /\ Len(w) = n + 1
      /\ w[n + 1] = x /\ \A i \in 1..n : w[i] = q[i]
  BY QueueAppend
<1> HIDE DEF w, n
<1>2. Has(w, ev) <=> Has(q, ev) \/ x.ev = ev
  <2>1. Has(w, ev) <=> \E i \in 1..(n + 1) : w[i].ev = ev
    BY <1>1 DEF Has
  <2>2. \A i \in 1..(n + 1) : i \in 1..n \/ i = n + 1
    BY <1>1
  <2>3. \A i \in 1..n : i \in 1..(n + 1)
    BY <1>1
  <2>4. n + 1 \in 1..(n + 1)
    BY <1>1
  <2> QED
    BY <1>1, <2>1, <2>2, <2>3, <2>4 DEF Has
<1>3. ~Has(q, ev) => LastOnly(w, ev)
  <2> SUFFICES ASSUME ~Has(q, ev), NEW i \in 1..(n + 1), w[i].ev = ev PROVE i = n + 1
    BY <1>1 DEF LastOnly
  <2>1. i \in 1..n => q[i].ev = ev
    BY <1>1
  <2> QED
    BY <1>1, <2>1 DEF Has
<1>4. ~Has(<<>>, ev) /\ LastOnly(<<>>, ev)
  BY DEF Has, LastOnly
<1> QED
  BY <1>2, <1>3, <1>4 DEF w

\* A report more.  The interface is in use; an event other than its end leaves it so,
\* and the link closes with an event that says so, and opens with one.
LEMMA ReportsAppend ==
  ASSUME NEW S, NEW q \in Seq(S), NEW b, NEW g, NEW state, NEW link, NEW after, NEW x,
         Reports(q, b, g, state, link), link.used, link.used \in BOOLEAN, after.used \in BOOLEAN,
         link.open \in BOOLEAN, after.open \in BOOLEAN,
         x.if = g, x.ev # "REG", x.ev = "CLOSE" => x.ok,
         after.used <=> x.ev # "UNREG",
         link.open => after.open \/ x.ev = "CLOSE",
         x.ev = "OPEN" /\ x.ok => after.open
  PROVE  Reports(Append(q, x), b, g, state, after)
<1> DEFINE w == Append(q, x)
           n == Len(q)
<1>1. /\ n \in Nat /\ DOMAIN q = 1..n /\ DOMAIN w = 1..(n + 1)
      /\ w[n + 1] = x /\ \A i \in 1..n : w[i] = q[i]
  BY QueueAppend
<1>2. \A ev : Has(w, ev) <=> Has(q, ev) \/ x.ev = ev
  BY HasAppend
<1>3. ~Has(q, "UNREG") => LastOnly(w, "UNREG")
  BY HasAppend
<1> HIDE DEF w, n
<1>4. ~Told(q, b, "UNREG")
  BY DEF Reports
<1>5. \A i \in 1..(n + 1) : w[i].if = g /\ w[i].ev # "REG" /\ (w[i].ev = "CLOSE" => w[i].ok)
  <2>1. \A i \in 1..n : w[i].if = g /\ w[i].ev # "REG" /\ (w[i].ev = "CLOSE" => w[i].ok)
    BY <1>1 DEF Reports
  <2> QED
    BY <1>1, <2>1
<1>6. ASSUME NEW i \in 1..(n + 1), w[i].ev = "OPEN", w[i].ok
      PROVE  after.open \/ \E j \in 1..(n + 1) : i < j /\ w[j].ev = "CLOSE"
  <2>1. CASE i = n + 1
    BY <1>1, <1>6, <2>1
  <2>2. CASE i \in 1..n
    <3>1. link.open \/ \E j \in 1..n : i < j /\ q[j].ev = "CLOSE"
      BY <1>1, <1>6, <2>2 DEF Reports
    <3>2. CASE link.open
      <4>1. x.ev = "CLOSE" => n + 1 \in 1..(n + 1) /\ i < n + 1 /\ w[n + 1].ev = "CLOSE"
        BY <1>1, <2>2
      <4> QED
        BY <3>2, <4>1
    <3>3. CASE \E j \in 1..n : i < j /\ q[j].ev = "CLOSE"
      <4>1. PICK j \in 1..n : i < j /\ q[j].ev = "CLOSE"
        BY <3>3
      <4>2. j \in 1..(n + 1) /\ w[j].ev = "CLOSE"
        BY <1>1, <4>1
      <4> QED
        BY <4>1, <4>2
    <3> QED
      BY <3>1, <3>2, <3>3
  <2> QED
    BY <1>1, <2>1, <2>2
<1>7. /\ b # Null => b.if = g /\ b.ev # "REG" /\ (b.ev = "CLOSE" => b.ok)
      /\ b # Null /\ b.ev = "UNREG" => w = <<>>
      /\ b # Null /\ b.ev = "OPEN" /\ b.ok => after.open \/ Has(w, "CLOSE")
  BY <1>2, <1>4 DEF Reports, Told
<1>8. /\ after.used <=> ~Told(w, b, "UNREG")
      /\ state = "Ready" => after.open \/ Told(w, b, "CLOSE")
  BY <1>2, <1>4 DEF Reports, Told
<1>9. LastOnly(w, "UNREG")
  BY <1>3, <1>4 DEF Told
<1> QED
  BY <1>1, <1>5, <1>6, <1>7, <1>8, <1>9 DEF Reports, w

\* The callback task takes the first report.
LEMMA ReportsTail ==
  ASSUME NEW S, NEW q \in Seq(S), q # <<>>, NEW b, b # Null, NEW g, NEW state, NEW link,
         Reports(q, Null, g, state, link),
         b.if = Head(q).if, b.ev = Head(q).ev, b.ok = Head(q).ok
  PROVE  Reports(Tail(q), b, g, state, link)
<1> DEFINE t == Tail(q)
           n == Len(q)
<1>1. /\ n \in Nat \ {0} /\ t \in Seq(S) /\ Head(q) = q[1] /\ DOMAIN q = 1..n
      /\ DOMAIN t = 1..(n - 1)
      /\ \A i \in 1..(n - 1) : t[i] = q[i + 1]
  BY QueueTail
<1>2. /\ \A ev : Has(q, ev) <=> Head(q).ev = ev \/ Has(t, ev)
      /\ LastOnly(q, "UNREG") => LastOnly(t, "UNREG")
      /\ LastOnly(q, "UNREG") /\ Head(q).ev = "UNREG" => t = <<>>
  BY HasTail
<1> HIDE DEF t, n
<1>3. \A ev : Told(t, b, ev) <=> Told(q, Null, ev)
  BY <1>2 DEF Told
<1>4. \A i \in 1..(n - 1) : i + 1 \in 1..n
  BY <1>1
<1>5. \A i \in 1..n : q[i].if = g /\ q[i].ev # "REG" /\ (q[i].ev = "CLOSE" => q[i].ok)
  BY <1>1 DEF Reports
<1>6. ASSUME NEW i \in 1..n, q[i].ev = "OPEN", q[i].ok
      PROVE  link.open \/ \E j \in 1..(n - 1) : i < j + 1 /\ t[j].ev = "CLOSE"
  <2>1. link.open \/ \E j \in 1..n : i < j /\ q[j].ev = "CLOSE"
    BY <1>1, <1>6 DEF Reports
  <2>2. ASSUME NEW j \in 1..n, i < j PROVE j - 1 \in 1..(n - 1) /\ i < (j - 1) + 1 /\ t[j - 1] = q[j]
    BY <1>1, <2>2
  <2> QED
    BY <2>1, <2>2
<1>7. \A i \in 1..(n - 1) : t[i].ev = "OPEN" /\ t[i].ok =>
         link.open \/ \E j \in 1..(n - 1) : i < j /\ t[j].ev = "CLOSE"
  <2> SUFFICES ASSUME NEW i \in 1..(n - 1), t[i].ev = "OPEN", t[i].ok, ~link.open
               PROVE  \E j \in 1..(n - 1) : i < j /\ t[j].ev = "CLOSE"
    OBVIOUS
  <2>1. i + 1 \in 1..n /\ q[i + 1] = t[i]
    BY <1>1, <1>4
  <2>2. PICK j \in 1..(n - 1) : i + 1 < j + 1 /\ t[j].ev = "CLOSE"
    BY <1>6, <2>1
  <2>3. n - 1 \in Int
    BY <1>1
  <2>4. i \in Int /\ j \in Int
    BY <2>3
  <2>5. i < j
    BY <2>2, <2>4
  <2> QED
    BY <2>2, <2>5
<1>8. b.ev = "OPEN" /\ b.ok => link.open \/ Has(t, "CLOSE")
  <2> SUFFICES ASSUME b.ev = "OPEN", b.ok, ~link.open PROVE Has(t, "CLOSE")
    OBVIOUS
  <2>1. 1 \in 1..n /\ q[1].ev = "OPEN" /\ q[1].ok
    BY <1>1
  <2> QED
    BY <1>1, <1>6, <2>1 DEF Has
<1>9. /\ \A i \in 1..(n - 1) : t[i].if = g /\ t[i].ev # "REG" /\ (t[i].ev = "CLOSE" => t[i].ok)
      /\ b.if = g /\ b.ev # "REG" /\ (b.ev = "CLOSE" => b.ok)
  BY <1>1, <1>4, <1>5
<1>10. /\ link.used <=> ~Told(t, b, "UNREG")
       /\ LastOnly(t, "UNREG")
       /\ b.ev = "UNREG" => t = <<>>
       /\ state = "Ready" => link.open \/ Told(t, b, "CLOSE")
  BY <1>2, <1>3 DEF Reports
<1> QED
  BY <1>1, <1>7, <1>8, <1>9, <1>10 DEF Reports, t

\* One request less, and one more.
LEMMA RequestedTail ==
  ASSUME NEW S, NEW q \in Seq(S), q # <<>>, NEW g, NEW link, NEW after, NEW pending,
         Requested(q, g, link, pending), Head(q).ev # "UNREG",
         after.used = link.used
  PROVE  /\ Requested(Tail(q), g, after, pending) /\ link.used
         /\ Head(q).if = g /\ Head(q).ev # "REG"
<1>1. /\ Head(q) = q[1] /\ 1 \in DOMAIN q
      /\ \A i \in DOMAIN Tail(q) : i + 1 \in DOMAIN q /\ Tail(q)[i] = q[i + 1]
  BY QueueTail
<1>2. /\ Has(q, "UNREG") <=> Has(Tail(q), "UNREG")
      /\ LastOnly(q, "UNREG") => LastOnly(Tail(q), "UNREG")
  BY HasTail
<1> QED
  BY <1>1, <1>2 DEF Requested

LEMMA RequestedAppend ==
  ASSUME NEW S, NEW q \in Seq(S), NEW x, NEW g, NEW link, NEW pending,
         Requested(q, g, link, Null), x.if = g, x.ev # "REG",
         pending = x.ev
  PROVE  Requested(Append(q, x), g, link, pending)
<1>1. /\ DOMAIN q = 1..Len(q) /\ DOMAIN Append(q, x) = 1..(Len(q) + 1)
      /\ Len(q) \in Nat /\ Append(q, x)[Len(q) + 1] = x
      /\ \A i \in 1..Len(q) : Append(q, x)[i] = q[i]
  BY QueueAppend
<1>2. Has(Append(q, x), "UNREG") <=> Has(q, "UNREG") \/ x.ev = "UNREG"
  BY HasAppend
<1>3. ~Has(q, "UNREG") /\ link.used
  BY ESP32BLEAssumption DEF Requested, Requests
<1>4. LastOnly(Append(q, x), "UNREG")
  BY <1>3, HasAppend
<1>5. \A i \in 1..(Len(q) + 1) : Append(q, x)[i].if = g /\ Append(q, x)[i].ev # "REG"
  <2> DEFINE w == Append(q, x)
  <2>1. \A i \in 1..Len(q) : w[i].if = g /\ w[i].ev # "REG"
    BY <1>1 DEF Requested
  <2>2. w[Len(q) + 1].if = g /\ w[Len(q) + 1].ev # "REG"
    BY <1>1
  <2> HIDE DEF w
  <2>3. \A i \in 1..(Len(q) + 1) : i \in 1..Len(q) \/ i = Len(q) + 1
    BY <1>1
  <2> QED
    BY <2>1, <2>2, <2>3 DEF w
<1> QED
  BY <1>1, <1>2, <1>3, <1>4, <1>5 DEF Requested

-----------------------------------------------------------------------------
(* The steps of the stack and the device.                                  *)

\* There is something to do for the client's own interface, which is in use.
LEMMA InUse ==
  ASSUME IndInv, SessionInv, reqs # <<>>, Head(reqs).ev # "REG"
  PROVE  /\ cl.state # "Idle" /\ OneInterface /\ Head(reqs).if = cl.gattc_if
         /\ cl.gattc_if \in AllIfs /\ ifs[cl.gattc_if].used
<1>1. /\ reqs \in Seq(RequestType) /\ Head(reqs) = reqs[1] /\ 1 \in DOMAIN reqs
  BY DEF IndInv, TypeOK
<1>2. cl.state # "Idle"
  BY <1>1 DEF SessionInv, Quiet, Registering, RegAnswered
<1>3. OneInterface /\ cl.gattc_if \in AllIfs
  BY <1>2 DEF SessionInv, IndInv, TypeOK, MainShape, ClientType
<1>4. Head(reqs).if = cl.gattc_if /\ ifs[cl.gattc_if].used
  BY <1>1, <1>3 DEF OneInterface, Requested
<1> QED
  BY <1>2, <1>3, <1>4

\* An open link is the one of the client's interface.
LEMMA LinkInUse ==
  ASSUME IndInv, SessionInv, NEW g \in AllIfs, ifs[g].open
  PROVE  cl.state # "Idle" /\ OneInterface /\ g = cl.gattc_if /\ ifs[g].used
<1>1. ifs[g].used
  BY DEF SessionInv
<1>2. cl.state # "Idle"
  BY <1>1 DEF SessionInv, Quiet, Registering
<1> QED
  BY <1>1, <1>2 DEF SessionInv, OneInterface

\* A step of the stack or the device while the client has an interface.
LEMMA SessionMoves ==
  ASSUME IndInv, SessionInv, cl.state # "Idle", NEW g \in AllIfs, g = cl.gattc_if,
         UNCHANGED <<registry, main, wait, cl, btc, crashed>>,
         \A h \in AllIfs : h # g => ifs'[h] = ifs[h],
         ifs'[g].open => ifs'[g].used,
         Requested(reqs', g, ifs'[g], Pending), Reports(evq', btc, g, cl.state, ifs'[g]),
         hook = "CLOSE" /\ ~done => Has(reqs', "CLOSE") \/ Told(evq', btc, "CLOSE")
  PROVE  SessionInv'
<1>1. UNCHANGED <<me, lock, todo, phase, hook, done, cl, btc, crashed, gattcIfs>>
  BY DEF registry, main, wait
<1>2. Pending' = Pending /\ Pending # "REG"
  BY <1>1 DEF Pending, SessionInv, Registering
<1>3. \A h \in AllIfs : ifs'[h].open => ifs'[h].used
  BY DEF SessionInv
<1>4. OneInterface'
  <2>1. \A h \in AllIfs : ifs'[h].used => h = g
    BY DEF SessionInv, OneInterface
  <2>2. /\ gattcIfs'[g] = cl'.app_id \/ (btc' # Null /\ btc'.ev = "UNREG")
        /\ cl'.state = "Ready" => cl'.conn_id = g
    BY <1>1 DEF SessionInv, OneInterface
  <2> QED
    BY <1>1, <1>2, <2>1, <2>2 DEF OneInterface
<1>5. MethodKnows'
  BY <1>1 DEF SessionInv, MethodKnows
<1>6. NoUseAfterFree'
  BY <1>1 DEF SessionInv, NoUseAfterFree
<1> QED
  BY <1>1, <1>2, <1>3, <1>4, <1>5, <1>6 DEF SessionInv

\* A request is executed that does not give up the interface.
LEMMA StackMoves ==
  ASSUME IndInv, SessionInv, reqs # <<>>, Head(reqs).ev \notin {"REG", "UNREG"},
         UNCHANGED <<registry, main, wait, cl, btc, crashed>>, reqs' = Tail(reqs),
         NEW g, g = Head(reqs).if,
         \A h \in AllIfs : h # g => ifs'[h] = ifs[h],
         ifs'[g].used = ifs[g].used,
         Reports(evq', btc, g, cl.state, ifs'[g]), Has(evq, "CLOSE") => Has(evq', "CLOSE"),
         Head(reqs).ev = "CLOSE" => ~ifs'[g].open
  PROVE  SessionInv'
<1>1. /\ cl.state # "Idle" /\ OneInterface /\ g = cl.gattc_if /\ g \in AllIfs /\ ifs[g].used
      /\ reqs \in Seq(RequestType)
  BY InUse DEF IndInv, TypeOK
<1>2. Requested(reqs', g, ifs'[g], Pending)
  <2>1. Requested(reqs, g, ifs[g], Pending)
    BY <1>1 DEF OneInterface
  <2> QED
    BY <1>1, <2>1, RequestedTail
<1>3. hook = "CLOSE" /\ ~done => Has(reqs', "CLOSE") \/ Told(evq', btc, "CLOSE")
  <2> SUFFICES ASSUME hook = "CLOSE", ~done PROVE Has(reqs', "CLOSE") \/ Told(evq', btc, "CLOSE")
    OBVIOUS
  <2>1. cl.state = "Ready" /\ (Has(reqs, "CLOSE") \/ Told(evq, btc, "CLOSE"))
    BY DEF SessionInv, MethodKnows
  <2>2. Has(reqs, "CLOSE") <=> Head(reqs).ev = "CLOSE" \/ Has(reqs', "CLOSE")
    BY <1>1, HasTail
  <2>3. Head(reqs).ev = "CLOSE" => Told(evq', btc, "CLOSE")
    BY <2>1 DEF Reports
  <2> QED
    BY <2>1, <2>2, <2>3 DEF Told
<1> QED
  BY <1>1, <1>2, <1>3, SessionMoves

\* An event about the client's interface.
LEMMA EventFacts ==
  ASSUME NEW ev, NEW g, NEW ok
  PROVE  Event(ev, g, 0, ok).ev = ev /\ Event(ev, g, 0, ok).if = g /\ Event(ev, g, 0, ok).ok = ok
  BY DEF Event

LEMMA OpenSession ==
  ASSUME IndInv, SessionInv, StackOpen
  PROVE  SessionInv'
<1> DEFINE g == Head(reqs).if
<1>1. /\ reqs # <<>> /\ Head(reqs).ev = "OPEN" /\ reqs' = Tail(reqs)
      /\ UNCHANGED <<registry, main, wait, cl, btc, crashed>>
  BY DEF StackOpen
<1>2. /\ g = cl.gattc_if /\ g \in AllIfs /\ ifs[g].used /\ OneInterface
      /\ evq \in Seq(EventType) /\ ifs \in IfsType
  BY <1>1, InUse DEF IndInv, TypeOK, IfsType
<1>3. PICK ok \in BOOLEAN :
        /\ ifs' = [ifs EXCEPT ![g].open = @ \/ ok]
        /\ evq' = IF ifs[g].used THEN Append(evq, Event("OPEN", g, 0, ok)) ELSE evq
  BY DEF StackOpen
<1> DEFINE x == Event("OPEN", g, 0, ok)
<1>4. x.ev = "OPEN" /\ x.if = g /\ x.ok = ok
  BY EventFacts
<1>5. evq' = Append(evq, x)
  BY <1>2, <1>3
<1> HIDE DEF g, x
<1>6. /\ ifs'[g].used = ifs[g].used /\ ifs'[g].open = (ifs[g].open \/ ok)
      /\ ifs'[g].used \in BOOLEAN /\ ifs'[g].open \in BOOLEAN
      /\ ifs[g].used \in BOOLEAN /\ ifs[g].open \in BOOLEAN
      /\ \A h \in AllIfs : h # g => ifs'[h] = ifs[h]
  BY <1>2, <1>3 DEF IfsType
<1>7. Reports(evq, btc, g, cl.state, ifs[g])
  BY <1>2 DEF OneInterface
<1>8. Reports(Append(evq, x), btc, g, cl.state, ifs'[g])
  BY <1>2, <1>4, <1>6, <1>7, ReportsAppend
<1>9. Has(evq, "CLOSE") => Has(Append(evq, x), "CLOSE")
  BY <1>2, HasAppend
<1> QED
  BY <1>1, <1>5, <1>6, <1>8, <1>9, StackMoves DEF g

\* An event that says nothing of the link or the interface.
LEMMA ReportsAnswer ==
  ASSUME IndInv, NEW g \in AllIfs, ifs[g].used, NEW q \in Seq(EventType),
         Reports(q, btc, g, cl.state, ifs[g]),
         NEW ev \in LinkRequests \union {"SEARCH_RES", "NOTIFY"}, NEW ok \in BOOLEAN
  PROVE  /\ Reports(Append(q, Event(ev, g, 0, ok)), btc, g, cl.state, ifs[g])
         /\ Append(q, Event(ev, g, 0, ok)) \in Seq(EventType)
         /\ Has(q, "CLOSE") => Has(Append(q, Event(ev, g, 0, ok)), "CLOSE")
<1> DEFINE x == Event(ev, g, 0, ok)
<1>1. x.ev = ev /\ x.if = g /\ x.ok = ok
  BY EventFacts
<1>2. ev \in Events /\ ev \notin {"REG", "OPEN", "CLOSE", "UNREG"}
  BY DEF Events, Requests, LinkRequests
<1>3. x \in EventType
  BY <1>2, EventTyped
<1> HIDE DEF x
<1>4. ifs[g].used \in BOOLEAN /\ ifs[g].open \in BOOLEAN
  BY DEF IndInv, TypeOK
<1>5. Reports(Append(q, x), btc, g, cl.state, ifs[g])
  BY <1>1, <1>2, <1>4, ReportsAppend
<1>6. Append(q, x) \in Seq(EventType)
  BY <1>3
<1>7. Has(q, "CLOSE") => Has(Append(q, x), "CLOSE")
  BY HasAppend
<1> QED
  BY <1>5, <1>6, <1>7 DEF x

LEMMA AnswerSession ==
  ASSUME IndInv, SessionInv, StackAnswer
  PROVE  SessionInv'
<1> DEFINE g == Head(reqs).if
           ev == Head(reqs).ev
<1>1. /\ reqs # <<>> /\ ev \in LinkRequests /\ reqs' = Tail(reqs) /\ ifs' = ifs
      /\ UNCHANGED <<registry, main, wait, cl, btc, crashed>>
  BY DEF StackAnswer
<1>2. ev \notin {"REG", "UNREG", "CLOSE"}
  BY <1>1 DEF LinkRequests
<1>3. /\ g = cl.gattc_if /\ g \in AllIfs /\ ifs[g].used /\ OneInterface
      /\ evq \in Seq(EventType)
  BY <1>1, <1>2, InUse DEF IndInv, TypeOK
<1>4. PICK ok \in BOOLEAN :
        \/ evq' = evq \o <<Event("SEARCH_RES", g, 0, TRUE), Event(ev, g, 0, TRUE)>>
        \/ evq' = Append(evq, Event(ev, g, 0, ok))
  BY <1>3 DEF StackAnswer
<1>5. Reports(evq, btc, g, cl.state, ifs[g])
  BY <1>3 DEF OneInterface
<1> HIDE DEF g, ev
<1>6. Reports(evq', btc, g, cl.state, ifs[g]) /\ (Has(evq, "CLOSE") => Has(evq', "CLOSE"))
  <2>1. CASE evq' = evq \o <<Event("SEARCH_RES", g, 0, TRUE), Event(ev, g, 0, TRUE)>>
    <3> DEFINE x == Event("SEARCH_RES", g, 0, TRUE)
               y == Event(ev, g, 0, TRUE)
               q == Append(evq, x)
    <3>1. /\ Reports(q, btc, g, cl.state, ifs[g]) /\ q \in Seq(EventType)
          /\ Has(evq, "CLOSE") => Has(q, "CLOSE")
      BY <1>3, <1>5, ReportsAnswer
    <3>2. evq' = evq \o <<x, y>>
      BY <2>1
    <3> HIDE DEF x
    <3>3. evq' = Append(q, y)
      <4> HIDE DEF y
      <4> QED
        BY <1>3, <3>2
    <3> HIDE DEF q
    <3>4. /\ Reports(Append(q, y), btc, g, cl.state, ifs[g])
          /\ Has(q, "CLOSE") => Has(Append(q, y), "CLOSE")
      BY <1>1, <1>3, <3>1, ReportsAnswer
    <3> QED
      BY <3>1, <3>3, <3>4
  <2>2. CASE evq' = Append(evq, Event(ev, g, 0, ok))
    BY <1>1, <1>3, <1>5, <2>2, ReportsAnswer
  <2> QED
    BY <1>4, <2>1, <2>2
<1> QED
  BY <1>1, <1>2, <1>6, StackMoves DEF g, ev

LEMMA CancelSession ==
  ASSUME IndInv, SessionInv, StackCancel
  PROVE  SessionInv'
<1>1. /\ reqs # <<>> /\ Head(reqs).ev \in LinkRequests \union {"OPEN"}
      /\ reqs' = Tail(reqs) /\ UNCHANGED <<evq, ifs>>
      /\ UNCHANGED <<registry, main, wait, cl, btc, crashed>>
  BY DEF StackCancel
<1>2. Head(reqs).ev \notin {"REG", "UNREG", "CLOSE"}
  BY <1>1 DEF LinkRequests
<1>3. Reports(evq, btc, Head(reqs).if, cl.state, ifs[Head(reqs).if])
  BY <1>1, <1>2, InUse DEF OneInterface
<1> QED
  BY <1>1, <1>2, <1>3, StackMoves

\* The end of the link is behind what was reported before.
LEMMA ReportsClosing ==
  ASSUME InTime, IndInv, NEW g \in AllIfs, ifs[g].used,
         Reports(evq, btc, g, cl.state, ifs[g]), NEW closed \in Closing(g)
  PROVE  /\ Reports(evq \o closed, btc, g, cl.state, [ifs[g] EXCEPT !.open = FALSE])
         /\ evq \o closed \in Seq(EventType)
         /\ Has(evq, "CLOSE") => Has(evq \o closed, "CLOSE")
<1>1. /\ evq \in Seq(EventType)
      /\ ifs[g] \in [used : BOOLEAN, open : BOOLEAN, owner : Clients \union {Null}]
  BY DEF IndInv, TypeOK
<1> DEFINE after == [ifs[g] EXCEPT !.open = FALSE]
<1>2. /\ after.used = ifs[g].used /\ after.open = FALSE
      /\ ifs[g].used \in BOOLEAN /\ ifs[g].open \in BOOLEAN
  BY <1>1
<1> HIDE DEF after
<1>3. CASE ~ifs[g].open
  <2>1. evq \o closed = evq
    <3>1. closed = <<>> /\ evq \o <<>> = evq
      BY <1>1, <1>3 DEF Closing
    <3> QED
      BY <3>1
  <2>2. Reports(evq, btc, g, cl.state, after)
    BY <1>2, <1>3 DEF Reports
  <2> QED
    BY <1>1, <2>1, <2>2 DEF after
<1>4. CASE ifs[g].open
  <2> DEFINE x == Event("CLOSE", g, 0, TRUE)
  <2>1. closed = <<x>>
    BY <1>4 DEF Closing, Outcomes, InTime
  <2>2. x.ev = "CLOSE" /\ x.if = g /\ x.ok /\ x \in EventType
    <3>1. "CLOSE" \in Events
      BY DEF Events, Requests
    <3>2. x \in EventType
      BY <3>1, EventTyped
    <3> QED
      BY <3>2 DEF Event
  <2> HIDE DEF x
  <2>3. evq \o closed = Append(evq, x)
    BY <1>1, <2>1
  <2>4. Reports(Append(evq, x), btc, g, cl.state, after)
    BY <1>1, <1>2, <2>2, ReportsAppend
  <2>5. Append(evq, x) \in Seq(EventType) /\ (Has(evq, "CLOSE") => Has(Append(evq, x), "CLOSE"))
    BY <1>1, <2>2, HasAppend
  <2> QED
    BY <2>3, <2>4, <2>5 DEF after
<1> QED
  BY <1>3, <1>4

LEMMA CloseSession ==
  ASSUME InTime, IndInv, SessionInv, StackClose
  PROVE  SessionInv'
<1> DEFINE g == Head(reqs).if
<1>1. /\ reqs # <<>> /\ Head(reqs).ev = "CLOSE" /\ reqs' = Tail(reqs)
      /\ UNCHANGED <<registry, main, wait, cl, btc, crashed>>
      /\ ifs' = [ifs EXCEPT ![g].open = FALSE]
  BY DEF StackClose
<1>2. PICK closed \in Closing(g) : evq' = evq \o closed
  BY DEF StackClose
<1>3. /\ g = cl.gattc_if /\ g \in AllIfs /\ ifs[g].used /\ OneInterface
      /\ ifs \in IfsType
  BY <1>1, InUse DEF IndInv, TypeOK, IfsType
<1>4. Reports(evq, btc, g, cl.state, ifs[g])
  BY <1>3 DEF OneInterface
<1> HIDE DEF g
<1>5. /\ ifs'[g] = [ifs[g] EXCEPT !.open = FALSE]
      /\ ifs'[g].used = ifs[g].used /\ ifs'[g].open = FALSE
      /\ \A h \in AllIfs : h # g => ifs'[h] = ifs[h]
  BY <1>1, <1>3 DEF IfsType
<1>6. Reports(evq', btc, g, cl.state, ifs'[g]) /\ (Has(evq, "CLOSE") => Has(evq', "CLOSE"))
  BY <1>2, <1>3, <1>4, <1>5, ReportsClosing
<1> QED
  BY <1>1, <1>5, <1>6, StackMoves DEF g

LEMMA PeerSession ==
  ASSUME InTime, IndInv, SessionInv, PeerStep
  PROVE  SessionInv'
<1>1. PICK g \in Ifs : PeerDrop(g) \/ PeerNotify(g)
  BY DEF PeerStep
<1>2. /\ g \in AllIfs /\ ifs[g].open
      /\ UNCHANGED <<registry, main, wait, cl, btc, crashed>> /\ reqs' = reqs
  BY <1>1 DEF AllIfs, PeerDrop, PeerNotify
<1>3. /\ cl.state # "Idle" /\ OneInterface /\ g = cl.gattc_if /\ ifs[g].used
      /\ ifs \in IfsType /\ evq \in Seq(EventType)
  BY <1>2, LinkInUse DEF IndInv, TypeOK, IfsType
<1>4. Reports(evq, btc, g, cl.state, ifs[g]) /\ Requested(reqs, g, ifs[g], Pending)
  BY <1>3 DEF OneInterface
<1>5. /\ \A h \in AllIfs : h # g => ifs'[h] = ifs[h]
      /\ ifs'[g].used = ifs[g].used
      /\ Reports(evq', btc, g, cl.state, ifs'[g]) /\ (Has(evq, "CLOSE") => Has(evq', "CLOSE"))
  <2>1. CASE PeerDrop(g)
    <3>1. /\ ifs' = [ifs EXCEPT ![g].open = FALSE]
          /\ \E closed \in Closing(g) : evq' = evq \o closed
      BY <2>1 DEF PeerDrop
    <3>2. /\ ifs'[g] = [ifs[g] EXCEPT !.open = FALSE]
          /\ ifs'[g].used = ifs[g].used
          /\ \A h \in AllIfs : h # g => ifs'[h] = ifs[h]
      BY <1>2, <1>3, <3>1 DEF IfsType
    <3>3. PICK closed \in Closing(g) : evq' = evq \o closed
      BY <3>1
    <3>4. Reports(evq', btc, g, cl.state, ifs'[g]) /\ (Has(evq, "CLOSE") => Has(evq', "CLOSE"))
      BY <1>2, <1>3, <1>4, <3>2, <3>3, ReportsClosing
    <3> QED
      BY <3>2, <3>4
  <2>2. CASE PeerNotify(g)
    <3>1. evq' = Append(evq, Event("NOTIFY", g, 0, TRUE)) /\ ifs' = ifs
      BY <2>2 DEF PeerNotify
    <3> QED
      BY <1>2, <1>3, <1>4, <3>1, ReportsAnswer
  <2> QED
    BY <1>1, <2>1, <2>2
<1>6. Requested(reqs', g, ifs'[g], Pending)
  BY <1>2, <1>4, <1>5 DEF Requested
<1>7. hook = "CLOSE" /\ ~done => Has(reqs', "CLOSE") \/ Told(evq', btc, "CLOSE")
  BY <1>2, <1>5 DEF SessionInv, MethodKnows, Told
<1>8. ifs'[g].open => ifs'[g].used
  BY <1>3, <1>5
<1> QED
  BY <1>2, <1>3, <1>5, <1>6, <1>7, <1>8, SessionMoves

\* The interface is given up: its end is behind everything, and nothing is asked for.
LEMMA UnregisterSession ==
  ASSUME InTime, IndInv, SessionInv, StackUnregister
  PROVE  SessionInv'
<1> DEFINE g == Head(reqs).if
           x == Event("UNREG", g, 0, TRUE)
<1>1. /\ reqs # <<>> /\ Head(reqs).ev = "UNREG" /\ reqs' = Tail(reqs)
      /\ UNCHANGED <<registry, main, wait, cl, btc, crashed>>
      /\ ifs' = [ifs EXCEPT ![g] = FreeIf]
  BY DEF StackUnregister
<1>2. /\ cl.state # "Idle" /\ g = cl.gattc_if /\ g \in AllIfs /\ ifs[g].used /\ OneInterface
      /\ ifs \in IfsType /\ reqs \in Seq(RequestType)
  BY <1>1, InUse DEF IndInv, TypeOK, IfsType
<1>3. PICK closed \in Closing(g) : evq' = evq \o closed \o <<x>>
  BY <1>2 DEF StackUnregister
<1>4. x.ev = "UNREG" /\ x.if = g
  BY DEF Event
<1>5. Reports(evq, btc, g, cl.state, ifs[g]) /\ Requested(reqs, g, ifs[g], Pending)
  BY <1>2 DEF OneInterface
<1> HIDE DEF g, x
<1>6. /\ ifs'[g].used = FALSE /\ ifs'[g].open = FALSE
      /\ \A h \in AllIfs : h # g => ifs'[h] = ifs[h]
  BY <1>1, <1>2 DEF IfsType, FreeIf
<1>7. reqs' = <<>> /\ Pending = "UNREG"
  <2>1. LastOnly(reqs, "UNREG") /\ Has(reqs, "UNREG")
    BY <1>1, <1>2, <1>5, HasTail DEF Requested
  <2> QED
    BY <1>1, <1>2, <1>5, <2>1, HasTail DEF Requested
<1>8. Requested(reqs', g, ifs'[g], Pending)
  BY <1>6, <1>7 DEF Requested, Has, LastOnly
<1>9. Reports(evq', btc, g, cl.state, ifs'[g])
  <2> DEFINE q == evq \o closed
             link == [ifs[g] EXCEPT !.open = FALSE]
  <2>1. Reports(q, btc, g, cl.state, link) /\ q \in Seq(EventType)
    BY <1>2, <1>5, ReportsClosing
  <2>2. link.used = TRUE /\ link.open = FALSE
    BY <1>2 DEF IfsType
  <2>3. evq' = Append(q, x)
    <3>1. evq' = q \o <<x>>
      BY <1>3
    <3> HIDE DEF q
    <3> QED
      BY <2>1, <3>1
  <2> HIDE DEF q, link
  <2>4. Reports(Append(q, x), btc, g, cl.state, ifs'[g])
    BY <1>4, <1>6, <2>1, <2>2, ReportsAppend
  <2> QED
    BY <2>3, <2>4
<1>10. hook # "CLOSE" \/ done
  BY <1>7 DEF Pending
<1> QED
  BY <1>1, <1>2, <1>6, <1>8, <1>9, <1>10, SessionMoves

\* The stack registers the client that waits for it.
LEMMA RegisterSession ==
  ASSUME IndInv, SessionInv, StackRegister
  PROVE  SessionInv'
<1> DEFINE r == Head(reqs)
           x(g, ok) == [ev |-> "REG", if |-> g, app |-> r.app, ok |-> ok, owner |-> r.owner]
<1>1. /\ reqs # <<>> /\ r.ev = "REG" /\ reqs' = Tail(reqs)
      /\ UNCHANGED <<registry, main, wait, cl, btc, crashed>>
      /\ reqs \in Seq(RequestType) /\ ifs \in IfsType
  BY DEF StackRegister, IndInv, TypeOK, IfsType
<1>2. r = reqs[1] /\ 1 \in DOMAIN reqs
  BY <1>1
<1>3. cl.state = "Idle"
  BY <1>2, <1>1 DEF SessionInv, OneInterface, Requested
<1>4. /\ Pending = "REG" /\ Len(reqs) = 1 /\ r.app = cl.app_id
      /\ evq = <<>> /\ btc = Null /\ \A g \in AllIfs : ~ifs[g].used /\ ~ifs[g].open
  BY <1>1, <1>2, <1>3 DEF SessionInv, Quiet, Registering, RegAnswered
<1>5. reqs' = <<>>
  BY <1>1, <1>4
<1>6. \/ \E g \in Ifs : /\ ifs' = [ifs EXCEPT ![g] = [used |-> TRUE, open |-> FALSE,
                                                    owner |-> r.owner]]
                        /\ evq' = Append(evq, x(g, TRUE))
      \/ ifs' = ifs /\ evq' = Append(evq, x(BadIf, FALSE))
  BY DEF StackRegister
<1>7. \A g, ok : x(g, ok).ev = "REG" /\ x(g, ok).if = g /\ x(g, ok).ok = ok /\ x(g, ok).app = r.app
  OBVIOUS
<1> HIDE DEF r, x
<1>8. \E e : /\ evq' = <<e>> /\ e.ev = "REG" /\ e.app = cl.app_id
             /\ \A g \in AllIfs : (ifs'[g].used <=> e.ok /\ g = e.if) /\ ~ifs'[g].open
  <2>1. \A e : Append(evq, e) = <<e>>
    BY <1>4
  <2>2. CASE ifs' = ifs /\ evq' = Append(evq, x(BadIf, FALSE))
    <3>1. /\ evq' = <<x(BadIf, FALSE)>> /\ x(BadIf, FALSE).ev = "REG"
          /\ x(BadIf, FALSE).app = cl.app_id /\ ~x(BadIf, FALSE).ok
      BY <1>4, <1>7, <2>1, <2>2
    <3> QED
      BY <1>4, <2>2, <3>1
  <2>3. ASSUME NEW g \in Ifs,
               ifs' = [ifs EXCEPT ![g] = [used |-> TRUE, open |-> FALSE, owner |-> r.owner]],
               evq' = Append(evq, x(g, TRUE))
        PROVE  \E e : /\ evq' = <<e>> /\ e.ev = "REG" /\ e.app = cl.app_id
                      /\ \A h \in AllIfs : (ifs'[h].used <=> e.ok /\ h = e.if) /\ ~ifs'[h].open
    <3> DEFINE e == x(g, TRUE)
    <3>1. evq' = <<e>> /\ e.ev = "REG" /\ e.app = cl.app_id /\ e.ok /\ e.if = g
      BY <1>4, <1>7, <2>1, <2>3
    <3> HIDE DEF e
    <3>2. \A h \in AllIfs : (ifs'[h].used <=> e.ok /\ h = e.if) /\ ~ifs'[h].open
      BY <1>1, <1>4, <2>3, <3>1 DEF IfsType, AllIfs
    <3> QED
      BY <3>1, <3>2
  <2> QED
    BY <1>6, <2>2, <2>3
<1>9. UNCHANGED <<me, lock, todo, phase, hook, done, cl, btc, crashed>>
  BY <1>1 DEF registry, main, wait
<1>10. Registering'
  <2>1. PICK e : /\ evq' = <<e>> /\ e.ev = "REG" /\ e.app = cl.app_id
                 /\ \A g \in AllIfs : (ifs'[g].used <=> e.ok /\ g = e.if) /\ ~ifs'[g].open
    BY <1>8
  <2>2. Len(evq') = 1 /\ evq'[1] = e
    BY <2>1
  <2> QED
    BY <1>3, <1>4, <1>5, <1>9, <2>1, <2>2 DEF Registering, RegAnswered
<1>11. Pending' = "REG"
  BY <1>4, <1>9 DEF Pending
<1>12. MethodKnows' /\ NoUseAfterFree'
  <2>1. hook = "REG"
    BY <1>4, ESP32BLEAssumption DEF Pending, Requests
  <2> QED
    BY <1>9, <2>1 DEF SessionInv, MethodKnows, NoUseAfterFree
<1> QED
  BY <1>3, <1>8, <1>9, <1>10, <1>11, <1>12 DEF SessionInv

LEMMA StackSession ==
  ASSUME InTime, IndInv, SessionInv, StackStep
  PROVE  SessionInv'
BY RegisterSession, OpenSession, AnswerSession, CancelSession, CloseSession, UnregisterSession
DEF StackStep

-----------------------------------------------------------------------------
(* The callback task's steps.                                              *)

\* Something is going on: the client is alive and registered under its app_id.
LEMMA Alive ==
  ASSUME IndInv, SessionInv, ~Quiet
  PROVE  me # Null /\ cl.app_id \in AppIds /\ appIds[cl.app_id] = me
<1>1. cl.state # "Idle" \/ Pending = "REG"
  BY DEF SessionInv
<1>2. me # Null
  <2>1. CASE cl.state # "Idle"
    BY <2>1 DEF SessionInv, MethodKnows
  <2>2. CASE Pending = "REG"
    BY <2>2, ESP32BLEAssumption DEF Pending, Requests, IndInv, HookFramed
  <2> QED
    BY <1>1, <2>1, <2>2
<1>3. ~Released
  <2> SUFFICES ASSUME Released PROVE FALSE
    OBVIOUS
  <2>1. todo # <<>> /\ Head(todo) = "free" /\ cl.state = "Idle"
    BY DEF Released, SessionInv, MethodKnows
  <2>2. hook = Null
    BY <2>1 DEF IndInv, TypeOK, HookFramed, Requests, LinkRequests
  <2> QED
    BY <1>1, <2>1, <2>2, ESP32BLEAssumption DEF Pending, Requests
<1> QED
  BY <1>2, <1>3 DEF IndInv, TypeOK, ClientType, RegistryOwnsClient

\* An event is taken: there is a client for it, and it is the one that exists.
LEMMA PickSession ==
  ASSUME IndInv, SessionInv, Pick
  PROVE  SessionInv'
<1> DEFINE e == Head(evq)
           known == [gattcIfs EXCEPT ![e.if] = IF e.ev = "REG" THEN e.app
                                               ELSE IF @ = Null THEN 0 ELSE @]
           client == AppClient(known[e.if])
           b == [ev |-> e.ev, if |-> e.if, ok |-> e.ok, owner |-> e.owner, client |-> client]
<1>1. /\ btc = Null /\ evq # <<>> /\ evq \in Seq(EventType) /\ evq' = Tail(evq)
      /\ UNCHANGED <<initialized, appIds, nextAppId, main, wait, cl, crashed, ifs>>
      /\ e = evq[1] /\ 1 \in DOMAIN evq /\ e \in EventType
      /\ reqs \in Seq(RequestType)
      /\ gattcIfs \in [AllIfs -> AppIds \union {0, Null}]
  BY DEF Pick, IndInv, TypeOK
<1>2. /\ gattcIfs' = [known EXCEPT ![e.if] = IF e.ev = "UNREG" THEN Null ELSE @]
      /\ btc' = IF client = Null THEN Null ELSE b
      /\ reqs' = reqs \o (IF client = Null THEN Cleanup(e) ELSE <<>>)
  BY DEF Pick
<1>3. me # Null /\ cl.app_id \in AppIds /\ appIds[cl.app_id] = me
  BY <1>1, Alive DEF Quiet
<1>4. \/ /\ Registering /\ Pending = "REG"
         /\ Len(evq) = 1 /\ RegAnswered(e) /\ e.app = cl.app_id
      \/ cl.state # "Idle" /\ OneInterface
  BY <1>1 DEF SessionInv, Quiet, Registering
<1>5. cl.state # "Idle" => e.if = cl.gattc_if /\ e.ev # "REG" /\ gattcIfs[e.if] = cl.app_id
  BY <1>1 DEF SessionInv, OneInterface, Reports
<1>6. known[e.if] = cl.app_id /\ e.if \in AllIfs /\ known \in [AllIfs -> AppIds \union {0, Null}]
  <2>1. e.if \in AllIfs /\ e.app \in AppIds \union {0}
    BY <1>1 DEF EventType
  <2>2. cl.app_id # Null
    BY <1>3, ESP32BLEAssumption DEF AppIds
  <2>3. e.ev = "REG" => e.app = cl.app_id
    BY <1>4, <1>5
  <2>4. e.ev # "REG" => gattcIfs[e.if] = cl.app_id
    BY <1>4, <1>5 DEF RegAnswered
  <2> HIDE DEF e
  <2> QED
    BY <1>1, <2>1, <2>2, <2>3, <2>4
<1>7. client = me
  BY <1>3, <1>6 DEF AppClient
<1>8. /\ b.ev = e.ev /\ b.if = e.if /\ b.ok = e.ok /\ b.client = me /\ b # Null
  <2>1. b.ev = e.ev /\ b.if = e.if /\ b.ok = e.ok /\ b.client = me
    BY <1>7
  <2>2. b \in DeliveryType
    BY <1>1, <1>3, <1>7 DEF EventType, DeliveryType, IndInv, TypeOK
  <2> QED
    BY <2>1, <2>2, NullAssumption
<1>9. /\ btc' = b /\ evq' = Tail(evq) /\ reqs' = reqs
      /\ UNCHANGED <<me, lock, todo, phase, hook, done, cl, crashed, ifs>>
  BY <1>1, <1>2, <1>3, <1>7 DEF main, wait
<1>10. b.ev # "UNREG" => gattcIfs'[b.if] = cl.app_id
  BY <1>2, <1>6, <1>8
<1> HIDE DEF e, known, client, b
<1>11. \A ev : Told(evq', btc', ev) <=> Told(evq, btc, ev)
  BY <1>1, <1>8, <1>9, HasTail DEF Told
<1>12. Pending' = Pending
  BY <1>9 DEF Pending
<1>13. CASE Registering /\ Pending = "REG" /\ Len(evq) = 1 /\ RegAnswered(e) /\ e.app = cl.app_id
  <2>1. evq' = <<>>
    BY <1>1, <1>9, <1>13
  <2>2. cl.state = "Idle" /\ \A g \in AllIfs : ~ifs[g].open
    BY <1>13 DEF Registering
  <2>3. Registering'
    BY <1>8, <1>9, <1>10, <1>13, <2>1, <2>2 DEF Registering, RegAnswered
  <2>4. hook = "REG"
    BY <1>13, ESP32BLEAssumption DEF Pending, Requests
  <2>5. MethodKnows' /\ NoUseAfterFree'
    BY <1>8, <1>9, <2>4 DEF SessionInv, MethodKnows, NoUseAfterFree
  <2> QED
    BY <1>9, <1>12, <1>13, <2>2, <2>3, <2>5 DEF SessionInv
<1>14. CASE cl.state # "Idle" /\ OneInterface
  <2>1. Reports(evq', btc', cl.gattc_if, cl.state, ifs[cl.gattc_if])
    <3>1. Reports(evq, Null, cl.gattc_if, cl.state, ifs[cl.gattc_if])
      BY <1>1, <1>14 DEF OneInterface
    <3>2. b.if = Head(evq).if /\ b.ev = Head(evq).ev /\ b.ok = Head(evq).ok
      BY <1>8 DEF e
    <3> QED
      BY <1>1, <1>8, <1>9, <3>1, <3>2, ReportsTail
  <2>2. OneInterface'
    BY <1>5, <1>8, <1>9, <1>10, <1>12, <1>14, <2>1 DEF OneInterface
  <2>3. MethodKnows' /\ NoUseAfterFree'
    BY <1>8, <1>9, <1>11 DEF SessionInv, MethodKnows, NoUseAfterFree
  <2>4. Pending # "REG"
    BY <1>14 DEF SessionInv, Registering
  <2> QED
    BY <1>9, <1>12, <1>14, <2>2, <2>3, <2>4 DEF SessionInv
<1> QED
  BY <1>4, <1>13, <1>14

\* What a handler can do to the state of the client.
LEMMA HandledMoves ==
  ASSUME NEW c \in ClientType, NEW e
  PROVE  LET h == Handled(c, e) IN
         /\ h.app_id = c.app_id
         /\ e.ev = "UNREG" /\ hook = "UNREG" => h.state = "Idle"
         /\ e.ev # "UNREG" \/ hook # "UNREG" => h.gattc_if = c.gattc_if
         /\ e.ev = "REG" /\ hook = "REG" =>
              h.state = IF e.ok THEN "Registered" ELSE c.state
         /\ e.ev = "OPEN" /\ hook = "OPEN" /\ e.ok => h.state = "Ready" /\ h.conn_id = e.if
         /\ e.ev = "CLOSE" /\ e.ok => h.state = "Registered"
         /\ e.ev \notin {"REG", "OPEN", "CLOSE", "UNREG"} =>
              h.state = c.state /\ h.conn_id = c.conn_id
         /\ e.ev = "OPEN" /\ ~(hook = "OPEN" /\ e.ok) =>
              h.state = c.state /\ h.conn_id = c.conn_id
BY DEF Handled, DefaultHandled, ClientType

\* An event is handled: the client gets the interface, gets or loses the link, or
\* gives the interface up.
LEMMA DispatchSession ==
  ASSUME IndInv, SessionInv, Dispatch
  PROVE  SessionInv'
<1> DEFINE c == [cl EXCEPT !.gattc_if = btc.if]
<1>1. /\ btc # Null /\ ~lock /\ cl' = Handled(c, btc) /\ btc' = Null
      /\ done' = IF hook = btc.ev THEN TRUE ELSE done
      /\ UNCHANGED <<gattcIfs, me, lock, todo, phase, hook, crashed, reqs, evq, ifs>>
      /\ done \in BOOLEAN
  BY DEF Dispatch, registry, main, stack, IndInv, TypeOK
<1>2. me # Null
  BY <1>1, Alive DEF Quiet
<1>3. /\ c \in ClientType /\ c.gattc_if = btc.if /\ c.state = cl.state
      /\ c.conn_id = cl.conn_id /\ c.app_id = cl.app_id
  BY <1>1 DEF IndInv, TypeOK, DeliveryType, ClientType
<1> HIDE DEF c
<1>4. /\ todo # <<>> => Head(todo) \notin {"release", "free"}
      /\ todo # <<"unlock", "release", "free">>
      /\ phase = "run" /\ todo # <<>> => Head(todo) # "UNREG"
  <2>1. ASSUME todo # <<>>, Head(todo) \in {"release", "free"} PROVE FALSE
    <3>1. cl.state = "Idle" /\ hook = Null
      BY <2>1 DEF SessionInv, MethodKnows, IndInv, TypeOK, HookFramed, Requests, LinkRequests
    <3> QED
      BY <1>1, <3>1, ESP32BLEAssumption DEF SessionInv, Quiet, Pending, Requests
  <2>2. ASSUME todo = <<"unlock", "release", "free">> PROVE FALSE
    <3>1. Head(todo) = "unlock" /\ todo # <<>>
      BY <2>2
    <3>2. hook = Null
      BY <3>1 DEF IndInv, TypeOK, HookFramed, Requests, LinkRequests
    <3>3. phase = "run"
      BY <3>2 DEF IndInv, TypeOK, HookFramed
    <3> QED
      BY <1>1, <3>1, <3>3 DEF IndInv, MainShape
  <2> QED
    BY <1>1, <2>1, <2>2 DEF IndInv, MainShape
<1>5. NoUseAfterFree' /\ \A g \in AllIfs : ifs'[g].open => ifs'[g].used
  BY <1>1 DEF SessionInv, NoUseAfterFree
<1>6. MethodKnows' <=>
        /\ hook = "CLOSE" => IF done' THEN cl'.state # "Ready"
                ELSE cl'.state = "Ready" /\ (Has(reqs, "CLOSE") \/ Told(evq, Null, "CLOSE"))
        /\ hook = "UNREG" => IF done' THEN cl'.state = "Idle" ELSE cl'.state = "Registered"
        /\ phase = "leave" /\ hook \in {"REG", "CLOSE", "UNREG"} => done'
  BY <1>1, <1>2, <1>4 DEF MethodKnows
<1>7. phase = "leave" /\ hook \in {"REG", "CLOSE", "UNREG"} => done'
  BY <1>1 DEF SessionInv, MethodKnows
<1>8. ~Quiet
  BY <1>1 DEF Quiet
<1>9. CASE cl.state = "Idle"
  <2>1. Pending = "REG" /\ Registering
    BY <1>8, <1>9 DEF SessionInv
  <2>2. hook = "REG" /\ ~done
    BY <2>1, ESP32BLEAssumption DEF Pending, Requests
  <2>3. /\ evq = <<>> /\ reqs = <<>> /\ btc.ev = "REG" /\ gattcIfs[btc.if] = cl.app_id
        /\ \A g \in AllIfs : ifs[g].used <=> btc.ok /\ g = btc.if
        /\ \A g \in AllIfs : ~ifs[g].open
    BY <1>1, <2>1 DEF Registering, RegAnswered
  <2>4. done' = TRUE
    BY <1>1, <2>2, <2>3
  <2>5. Pending' = Null /\ Null # "UNREG" /\ Null # "REG"
    BY <2>4, ESP32BLEAssumption DEF Pending, Requests
  <2>6. MethodKnows'
    BY <1>6, <1>7, <2>2
  <2>7. CASE btc.ok
    <3>1. cl'.state = "Registered" /\ cl'.gattc_if = btc.if /\ cl'.app_id = cl.app_id
      BY <1>1, <1>3, <2>2, <2>3, <2>7, HandledMoves
    <3>2. btc.if \in AllIfs
      BY <1>1 DEF IndInv, TypeOK, DeliveryType
    <3> DEFINE g == btc.if
    <3>3. ifs[g].used
      BY <2>3, <2>7, <3>2
    <3>4. Requested(<<>>, g, ifs[g], Null)
      BY <2>5, <3>3 DEF Requested, Has, LastOnly
    <3>5. Reports(<<>>, Null, g, "Registered", ifs[g])
      BY <3>3 DEF Reports, Told, Has, LastOnly
    <3>6. OneInterface'
      BY <1>1, <2>3, <2>5, <3>1, <3>2, <3>4, <3>5 DEF OneInterface
    <3> QED
      BY <1>5, <2>5, <2>6, <3>1, <3>6 DEF SessionInv
  <2>8. CASE ~btc.ok
    <3>1. cl'.state = "Idle"
      BY <1>1, <1>3, <1>9, <2>2, <2>3, <2>8, HandledMoves
    <3>2. Quiet'
      BY <1>1, <2>3, <2>8 DEF Quiet
    <3> QED
      BY <1>5, <2>5, <2>6, <3>1, <3>2 DEF SessionInv
  <2> QED
    BY <2>7, <2>8
<1>10. CASE cl.state # "Idle"
  <2> DEFINE g == cl.gattc_if
  <2>1. /\ OneInterface /\ Requested(reqs, g, ifs[g], Pending)
        /\ Reports(evq, btc, g, cl.state, ifs[g]) /\ g \in AllIfs
    BY <1>10 DEF SessionInv, OneInterface, IndInv, TypeOK, MainShape, ClientType
  <2>2. /\ btc.if = g /\ btc.ev # "REG" /\ (btc.ev = "CLOSE" => btc.ok) /\ c.gattc_if = g
        /\ \A h \in AllIfs : ifs[h].used => h = g
        /\ gattcIfs[g] = cl.app_id \/ btc.ev = "UNREG"
        /\ cl.state = "Ready" => cl.conn_id = g
    BY <1>1, <1>3, <2>1 DEF OneInterface, Reports
  <2> HIDE DEF g
  <2>3. CASE btc.ev = "UNREG"
    <3>1. evq = <<>> /\ ~ifs[g].used
      BY <1>1, <2>1, <2>3 DEF Reports, Told
    <3>2. Pending = "UNREG" /\ reqs = <<>>
      BY <2>1, <3>1 DEF Requested
    <3>3. hook = "UNREG" /\ done' = TRUE
      BY <1>1, <2>3, <3>2, ESP32BLEAssumption DEF Pending, Requests
    <3>4. cl'.state = "Idle"
      BY <1>1, <1>3, <2>3, <3>3, HandledMoves
    <3>5. Pending' = Null /\ Null # "REG"
      BY <3>3, ESP32BLEAssumption DEF Pending, Requests
    <3>6. Quiet'
      BY <1>1, <2>2, <3>1, <3>2 DEF Quiet
    <3>7. MethodKnows'
      BY <1>6, <1>7, <3>3, <3>4
    <3> QED
      BY <1>5, <3>4, <3>5, <3>6, <3>7 DEF SessionInv
  <2>4. CASE btc.ev # "UNREG"
    <3>1. /\ cl'.state # "Idle" /\ cl'.gattc_if = g /\ cl'.app_id = cl.app_id
          /\ btc.ev = "CLOSE" => cl'.state = "Registered"
          /\ \/ cl'.state = cl.state /\ cl'.conn_id = cl.conn_id
             \/ btc.ev = "CLOSE"
             \/ /\ hook = "OPEN" /\ btc.ev = "OPEN" /\ btc.ok
                /\ cl'.state = "Ready" /\ cl'.conn_id = g
      BY <1>1, <1>3, <1>10, <2>2, <2>4, HandledMoves
    <3>2. Pending' # "REG" /\ (Pending' = "UNREG" <=> Pending = "UNREG")
      <4>1. Pending # "REG"
        BY <1>10 DEF SessionInv, Registering
      <4> QED
        BY <1>1, <2>2, <2>4, <4>1, ESP32BLEAssumption DEF Pending, Requests
    <3>3. Requested(reqs, g, ifs[g], Pending')
      BY <2>1, <3>2 DEF Requested
    <3>4. Reports(evq, Null, g, cl'.state, ifs[g])
      BY <1>1, <2>1, <2>4, <3>1 DEF Reports, Told
    <3>5. cl'.state = "Ready" => cl'.conn_id = g
      BY <2>2, <3>1
    <3>6. OneInterface'
      BY <1>1, <2>2, <2>4, <3>1, <3>3, <3>4, <3>5 DEF OneInterface
    <3>7. MethodKnows'
      <4>1. hook = "CLOSE" => IF done' THEN cl'.state # "Ready"
               ELSE cl'.state = "Ready" /\ (Has(reqs, "CLOSE") \/ Told(evq, Null, "CLOSE"))
        BY <1>1, <3>1 DEF SessionInv, MethodKnows, Told
      <4>2. hook = "UNREG" => IF done' THEN cl'.state = "Idle" ELSE cl'.state = "Registered"
        BY <1>1, <1>10, <2>4, <3>1 DEF SessionInv, MethodKnows
      <4> QED
        BY <1>6, <1>7, <4>1, <4>2
    <3> QED
      BY <1>5, <3>1, <3>2, <3>6, <3>7 DEF SessionInv
  <2> QED
    BY <2>3, <2>4
<1> QED
  BY <1>9, <1>10

\* A deleted client has nothing coming.
LEMMA DispatchFreedNever ==
  ASSUME SessionInv, DispatchFreed
  PROVE  FALSE
BY DEF SessionInv, NoUseAfterFree, DispatchFreed

-----------------------------------------------------------------------------
(* The main task's steps.                                                  *)

\* The main task does not touch the interface and waits for what it waited for.
LEMMA MainMoves ==
  ASSUME SessionInv, UNCHANGED <<gattcIfs, me, btc, crashed, reqs, evq, ifs>>,
         cl'.state = cl.state, cl'.gattc_if = cl.gattc_if, cl'.conn_id = cl.conn_id,
         cl'.app_id = cl.app_id,
         Pending' = "REG" <=> Pending = "REG", Pending' = "UNREG" <=> Pending = "UNREG",
         MethodKnows'
  PROVE  SessionInv'
<1>1. Registering' <=> Registering
  BY DEF Registering, RegAnswered
<1>2. Quiet' <=> Quiet
  BY DEF Quiet
<1>3. OneInterface => OneInterface'
  <2> DEFINE g == cl.gattc_if
  <2>1. Requested(reqs, g, ifs[g], Pending) => Requested(reqs, g, ifs[g], Pending')
    BY DEF Requested
  <2> QED
    BY <2>1 DEF OneInterface
<1>4. NoUseAfterFree'
  BY DEF SessionInv, NoUseAfterFree
<1> QED
  BY <1>1, <1>2, <1>3, <1>4 DEF SessionInv

\* While a client is idle and nothing is going on, anything may become of it.
LEMMA QuietMoves ==
  ASSUME SessionInv, Quiet, UNCHANGED <<btc, crashed, reqs, evq, ifs>>,
         cl'.state = "Idle", hook' = Null, MethodKnows'
  PROVE  SessionInv'
<1>1. Quiet'
  BY DEF Quiet
<1>2. NoUseAfterFree'
  BY DEF SessionInv, NoUseAfterFree, Quiet
<1>3. Pending' # "REG"
  BY ESP32BLEAssumption DEF Pending, Requests
<1> QED
  BY <1>1, <1>2, <1>3 DEF SessionInv

\* Nothing is waited for outside of a request.
LEMMA NoHook ==
  ASSUME IndInv, todo = <<>> \/ phase = "run" \/ Head(todo) \in {"unlock", "release", "free"}
  PROVE  /\ hook = Null /\ phase = "run" /\ Pending = Null
         /\ Null \notin {"REG", "CLOSE", "UNREG"}
<1>1. Null \notin {"REG", "CLOSE", "UNREG"}
  BY ESP32BLEAssumption DEF Requests
<1>2. hook = Null
  BY DEF IndInv, TypeOK, HookFramed, Requests, LinkRequests
<1> QED
  BY <1>1, <1>2 DEF IndInv, TypeOK, HookFramed, Pending

\* A method goes on with its next step outside of a request.
LEMMA NextStep ==
  ASSUME IndInv, SessionInv, todo # <<>>, todo' = Tail(todo),
         UNCHANGED <<gattcIfs, me, btc, crashed, reqs, evq, ifs, phase, hook, done>>,
         phase = "run",
         cl'.state = cl.state, cl'.gattc_if = cl.gattc_if, cl'.conn_id = cl.conn_id,
         cl'.app_id = cl.app_id,
         Head(todo) = "CLOSE" => cl.state # "Ready",
         Head(todo) = "UNREG" => cl.state = "Idle"
  PROVE  SessionInv'
<1>1. hook = Null /\ Null \notin {"REG", "CLOSE", "UNREG"}
  BY NoHook
<1>2. todo \in Remainders
  BY DEF IndInv, TypeOK
<1>3. MethodKnows'
  <2>1. /\ todo' # <<>> /\ Head(todo') = "UNREG" => Head(todo) = "CLOSE"
        /\ todo' = <<"unlock", "release", "free">> => Head(todo) = "UNREG"
        /\ todo' # <<>> /\ Head(todo') \in {"release", "free"} =>
             todo = <<"unlock", "release", "free">> \/ Head(todo) = "release"
    BY <1>2, RestOfRemainder
  <2>2. /\ me' = Null => cl'.state = "Idle"
        /\ todo' # <<>> /\ Head(todo') = "UNREG" => cl'.state # "Ready"
        /\ todo' = <<"unlock", "release", "free">> => cl'.state = "Idle"
        /\ todo' # <<>> /\ Head(todo') \in {"release", "free"} => cl'.state = "Idle"
    BY <2>1 DEF SessionInv, MethodKnows
  <2> QED
    BY <1>1, <2>2 DEF MethodKnows
<1>4. Pending' = Pending
  BY DEF Pending
<1> QED
  BY <1>3, <1>4, MainMoves

LEMMA SkipSession == ASSUME IndInv, SessionInv, Skip PROVE SessionInv'
<1>1. /\ Running(Requests) /\ todo' = Tail(todo)
      /\ UNCHANGED <<gattcIfs, me, btc, crashed, reqs, evq, ifs, phase, hook, done, cl>>
  BY DEF Skip, registry, wait, stack
<1>2. Head(todo) \in {"CLOSE", "UNREG"} => cl.state # Needs(Head(todo))
  BY DEF Skip
<1>3. todo # <<>> /\ phase = "run"
  BY <1>1 DEF Running
<1>4. Head(todo) = "CLOSE" => cl.state # "Ready"
  BY <1>2 DEF Needs
<1>5. Head(todo) = "UNREG" => cl.state = "Idle"
  BY <1>2, <1>3 DEF Needs, SessionInv, MethodKnows, IndInv, TypeOK, ClientType
<1> QED
  BY <1>1, <1>3, <1>4, <1>5, NextStep

LEMMA RefuseSession == ASSUME InTime, IndInv, SessionInv, Refuse PROVE SessionInv'
<1>1. /\ Running(Refused) /\ todo' = Tail(todo) /\ cl' = Cleared(Head(todo), FALSE)
      /\ UNCHANGED <<gattcIfs, me, btc, crashed, reqs, evq, ifs, phase, hook, done>>
  BY DEF Refuse, registry, wait, stack
<1>2. todo # <<>> /\ phase = "run" /\ Head(todo) \notin {"CLOSE", "UNREG"}
  BY <1>1 DEF Running, InTime
<1>3. /\ cl'.state = cl.state /\ cl'.gattc_if = cl.gattc_if /\ cl'.conn_id = cl.conn_id
      /\ cl'.app_id = cl.app_id
  BY <1>1, ClearedClient DEF IndInv, TypeOK
<1> QED
  BY <1>1, <1>2, <1>3, NextStep

LEMMA UnlockSession == ASSUME IndInv, SessionInv, Unlock PROVE SessionInv'
<1>1. /\ Running({"unlock"}) /\ todo' = Tail(todo)
      /\ UNCHANGED <<gattcIfs, me, btc, crashed, reqs, evq, ifs, phase, hook, done, cl>>
  BY DEF Unlock, registry, wait, stack
<1>2. todo # <<>> /\ phase = "run" /\ Head(todo) = "unlock"
  BY <1>1 DEF Running
<1> QED
  BY <1>1, <1>2, NextStep

LEMMA ReleaseSession == ASSUME IndInv, SessionInv, Release PROVE SessionInv'
<1>1. /\ todo # <<>> /\ Head(todo) = "release" /\ todo' = Tail(todo)
      /\ UNCHANGED <<gattcIfs, me, btc, crashed, reqs, evq, ifs, phase, hook, done, cl>>
  BY DEF Release, wait, stack
<1>2. phase = "run"
  BY <1>1, NoHook
<1> QED
  BY <1>1, <1>2, NextStep

\* A wait is over: what starts and ends a session has been answered.
LEMMA WakeSession == ASSUME InTime, IndInv, SessionInv, Wake PROVE SessionInv'
<1>1. /\ phase = "wait" /\ WaitOver /\ phase' = "leave"
      /\ UNCHANGED <<gattcIfs, me, btc, crashed, reqs, evq, ifs, todo, hook, done, cl>>
  BY DEF Wake, registry, wait, stack
<1>2. Coming(hook) <=> Has(reqs, hook) \/ Told(evq, btc, hook)
  BY DEF Coming, Has, Told
<1>3. hook \in {"REG", "CLOSE", "UNREG"} => done
  <2> SUFFICES ASSUME hook \in {"REG", "CLOSE", "UNREG"}, ~done PROVE FALSE
    OBVIOUS
  <2>1. Pending = hook
    BY ESP32BLEAssumption DEF Pending, Requests
  <2>2. ~Has(reqs, hook) /\ ~Told(evq, btc, hook)
    BY <1>1, <1>2 DEF WaitOver, InTime
  <2>3. CASE hook = "REG"
    <3>1. Registering
      BY <2>1, <2>3 DEF SessionInv
    <3> QED
      BY <2>2, <2>3, <3>1 DEF Registering, RegAnswered, Has, Told, IndInv, TypeOK
  <2>4. CASE hook = "CLOSE"
    BY <2>2, <2>4 DEF SessionInv, MethodKnows
  <2>5. CASE hook = "UNREG"
    <3>1. OneInterface
      BY <2>5 DEF SessionInv, MethodKnows
    <3> QED
      BY <2>1, <2>2, <2>5, <3>1 DEF OneInterface, Requested, Reports
  <2> QED
    BY <2>3, <2>4, <2>5
<1>4. MethodKnows'
  BY <1>1, <1>3 DEF SessionInv, MethodKnows
<1>5. Pending' = Pending
  BY <1>1 DEF Pending
<1> QED
  BY <1>1, <1>4, <1>5, MainMoves

\* wait_for_event returns: after a close the client is not Ready, after an
\* unregistration it is Idle.
LEMMA LeaveSession == ASSUME IndInv, SessionInv, Leave PROVE SessionInv'
<1>1. /\ phase = "leave" /\ phase' = "run" /\ hook' = Null /\ todo' = Tail(todo)
      /\ UNCHANGED <<gattcIfs, me, btc, crashed, reqs, evq, ifs, done, cl>>
  BY DEF Leave, registry, stack
<1>2. /\ hook # Null /\ todo # <<>> /\ Head(todo) = hook /\ hook \in Requests
      /\ me # Null /\ todo \in Remainders
  BY <1>1 DEF IndInv, TypeOK, HookFramed
<1>3. hook \in {"REG", "CLOSE", "UNREG"} => done
  BY <1>1 DEF SessionInv, MethodKnows
<1>4. Null \notin {"REG", "CLOSE", "UNREG"}
  BY ESP32BLEAssumption DEF Requests
<1>5. Pending \notin {"REG", "UNREG"} /\ Pending' \notin {"REG", "UNREG"}
  BY <1>1, <1>3, <1>4 DEF Pending
<1>6. MethodKnows'
  <2>1. /\ todo' # <<>> /\ Head(todo') = "UNREG" => hook = "CLOSE"
        /\ todo' = <<"unlock", "release", "free">> => hook = "UNREG"
        /\ ~(todo' # <<>> /\ Head(todo') \in {"release", "free"})
    BY <1>1, <1>2, RestOfRemainder
  <2>2. /\ todo' # <<>> /\ Head(todo') = "UNREG" => cl'.state # "Ready"
        /\ todo' = <<"unlock", "release", "free">> => cl'.state = "Idle"
    BY <1>1, <1>3, <2>1 DEF SessionInv, MethodKnows
  <2> QED
    BY <1>1, <1>2, <1>4, <2>1, <2>2 DEF MethodKnows
<1> QED
  BY <1>1, <1>5, <1>6, MainMoves

LEMMA CallSession ==
  ASSUME IndInv, SessionInv, NEW m \in Calls \union {"delete"}, Call(m)
  PROVE  SessionInv'
<1>1. /\ me # Null /\ todo = <<>> /\ todo' = Script[m]
      /\ UNCHANGED <<gattcIfs, me, btc, crashed, reqs, evq, ifs, phase, hook, done, cl>>
  BY DEF Call, registry, wait, stack
<1>2. hook = Null /\ Null \notin {"REG", "CLOSE", "UNREG"}
  BY <1>1, NoHook
<1>3. m \in DOMAIN Script
  BY ESP32BLEAssumption DEF Script
<1>4. todo' # <<>> /\ Head(todo') \notin {"UNREG", "unlock", "release", "free"}
  BY <1>1, <1>3 DEF Script
<1>5. MethodKnows'
  BY <1>1, <1>2, <1>4 DEF MethodKnows
<1>6. Pending' = Pending
  BY <1>1 DEF Pending
<1> QED
  BY <1>1, <1>5, <1>6, MainMoves

LEMMA TakeNotificationsSession ==
  ASSUME IndInv, SessionInv, TakeNotifications PROVE SessionInv'
<1>1. /\ me # Null /\ todo = <<>> /\ cl' = [cl EXCEPT !.notifications = 0]
      /\ UNCHANGED <<gattcIfs, me, btc, crashed, reqs, evq, ifs, phase, hook, done, todo>>
  BY DEF TakeNotifications, registry, wait, stack
<1>2. hook = Null /\ Null \notin {"REG", "CLOSE", "UNREG"}
  BY <1>1, NoHook
<1>3. /\ cl'.state = cl.state /\ cl'.gattc_if = cl.gattc_if /\ cl'.conn_id = cl.conn_id
      /\ cl'.app_id = cl.app_id
  BY <1>1 DEF IndInv, TypeOK, ClientType
<1>4. MethodKnows'
  BY <1>1, <1>2 DEF MethodKnows
<1>5. Pending' = Pending
  BY <1>1 DEF Pending
<1> QED
  BY <1>1, <1>3, <1>4, <1>5, MainMoves

\* A client comes when nothing is left of the one before.
LEMMA AcquireSession == ASSUME IndInv, SessionInv, Acquire PROVE SessionInv'
<1>1. /\ me = Null /\ UNCHANGED <<btc, crashed, reqs, evq, ifs, hook, todo, phase>>
  BY DEF Acquire, wait, stack
<1>2. cl'.state = "Idle" /\ me' # Null
  BY ESP32BLEAssumption DEF Acquire, NewClient
<1>3. todo = <<>>
  BY <1>1 DEF IndInv, MainShape
<1>4. hook = Null /\ Null \notin {"REG", "CLOSE", "UNREG"} /\ Pending = Null
  BY <1>3, NoHook
<1>5. Quiet
  BY <1>1, <1>4 DEF SessionInv, MethodKnows
<1>6. MethodKnows'
  BY <1>1, <1>2, <1>3, <1>4 DEF MethodKnows
<1> QED
  BY <1>1, <1>2, <1>4, <1>5, <1>6, QuietMoves

\* A client goes when nothing is left of it.
LEMMA FreeSession == ASSUME IndInv, SessionInv, Free PROVE SessionInv'
<1>1. /\ todo # <<>> /\ Head(todo) = "free" /\ todo' = Tail(todo)
      /\ cl' = NoClient /\ UNCHANGED <<btc, crashed, reqs, evq, ifs, hook, phase>>
  BY DEF Free, stack
<1>2. todo' = <<>>
  BY <1>1, RestOfRemainder DEF IndInv, TypeOK
<1>3. hook = Null /\ Null \notin {"REG", "CLOSE", "UNREG"} /\ Pending = Null
  BY <1>1, NoHook
<1>4. Quiet /\ cl'.state = "Idle"
  BY <1>1, <1>3 DEF SessionInv, MethodKnows, NoClient, NewClient
<1>5. MethodKnows'
  BY <1>1, <1>2, <1>3, <1>4 DEF MethodKnows
<1> QED
  BY <1>1, <1>3, <1>4, <1>5, QuietMoves

\* A request is made: a registration when nothing is going on, any other for the
\* client's own interface.
LEMMA AskSession == ASSUME IndInv, SessionInv, Ask PROVE SessionInv'
<1> DEFINE ev == Head(todo)
           r == IF ev = "REG" THEN [ev |-> "REG", if |-> Null, app |-> cl.app_id, owner |-> me]
                ELSE Request(ev, Target(ev))
<1>1. /\ Running(Requests) /\ cl.state = Needs(ev) /\ cl' = Cleared(ev, TRUE)
      /\ reqs' = Append(reqs, r) /\ hook' = ev /\ done' = FALSE /\ phase' = "wait"
      /\ UNCHANGED <<gattcIfs, me, btc, crashed, evq, ifs, todo>>
  BY DEF Ask, registry
<1>2. todo # <<>> /\ phase = "run" /\ ev \in Requests /\ reqs \in Seq(RequestType)
  BY <1>1 DEF Running, IndInv, TypeOK
<1>3. Pending = Null /\ Null \notin {"REG", "CLOSE", "UNREG"} /\ Null # ev /\ me # Null
  BY <1>2, NoHook, ESP32BLEAssumption DEF IndInv, MainShape
<1>4. /\ cl'.state = cl.state /\ cl'.gattc_if = cl.gattc_if /\ cl'.conn_id = cl.conn_id
      /\ cl'.app_id = cl.app_id
  BY <1>1, ClearedClient DEF IndInv, TypeOK
<1>5. Pending' = ev
  BY <1>1, <1>3 DEF Pending
<1>6. /\ ev = "REG" => r.ev = "REG" /\ r.app = cl.app_id
      /\ ev # "REG" => r.ev = ev /\ r.if = Target(ev)
  BY DEF Request
<1>7. ev \notin {"unlock", "release", "free"}
  BY <1>2 DEF Requests, LinkRequests
<1>8. todo # <<"unlock", "release", "free">>
  BY <1>7
<1> HIDE DEF ev, r
<1>9. NoUseAfterFree' /\ \A g \in AllIfs : ifs'[g].open => ifs'[g].used
  BY <1>1 DEF SessionInv, NoUseAfterFree
<1>10. MethodKnows' <=> /\ ev = "CLOSE" => /\ cl.state = "Ready"
                                           /\ Has(reqs', "CLOSE") \/ Told(evq, btc, "CLOSE")
                        /\ ev = "UNREG" => cl.state = "Registered"
  BY <1>1, <1>3, <1>4, <1>7, <1>8 DEF MethodKnows, ev
<1>11. CASE ev = "REG"
  <2>1. cl.state = "Idle" /\ Quiet
    BY <1>1, <1>3, <1>11 DEF Needs, SessionInv
  <2>2. Len(reqs') = 1 /\ reqs'[1] = r
    BY <1>1, <2>1 DEF Quiet
  <2>3. Registering'
    BY <1>1, <1>4, <1>6, <1>9, <1>11, <2>1, <2>2 DEF Registering, Quiet
  <2>4. MethodKnows'
    BY <1>10, <1>11
  <2> QED
    BY <1>4, <1>5, <1>9, <1>11, <2>1, <2>3, <2>4 DEF SessionInv
<1>12. CASE ev # "REG"
  <2> DEFINE g == cl.gattc_if
  <2>1. /\ cl.state # "Idle"
        /\ ev = "UNREG" => cl.state = "Registered"
        /\ ev = "CLOSE" => cl.state = "Ready"
        /\ ev \notin {"OPEN", "UNREG"} => cl.state = "Ready"
    BY <1>1, <1>12 DEF Needs
  <2>2. OneInterface
    BY <2>1 DEF SessionInv
  <2>3. Target(ev) = g
    BY <2>1, <2>2 DEF Target, OneInterface
  <2>4. Requested(reqs', g, ifs[g], ev)
    <3>1. Requested(reqs, g, ifs[g], Null)
      BY <1>3, <2>2 DEF OneInterface
    <3> QED
      BY <1>1, <1>2, <1>6, <1>12, <2>3, <3>1, RequestedAppend
  <2>5. OneInterface'
    BY <1>1, <1>4, <1>5, <2>2, <2>4 DEF OneInterface
  <2>6. Has(reqs', ev)
    BY <1>1, <1>2, <1>6, <1>12, HasAppend
  <2>7. MethodKnows'
    BY <1>10, <2>1, <2>6
  <2> QED
    BY <1>4, <1>5, <1>9, <1>12, <2>1, <2>5, <2>7 DEF SessionInv
<1> QED
  BY <1>11, <1>12

-----------------------------------------------------------------------------
LEMMA StartSession ==
  ASSUME me = Null, cl = NoClient, todo = <<>>, phase = "run", hook = Null,
         btc = Null, crashed = FALSE, reqs = <<>>, evq = <<>>,
         ifs = [g \in AllIfs |-> FreeIf]
  PROVE  SessionInv
<1>1. \A g \in AllIfs : ~ifs[g].used /\ ~ifs[g].open
  BY DEF FreeIf
<1>2. cl.state = "Idle"
  BY DEF NoClient, NewClient
<1>3. Pending = Null /\ Null \notin {"REG", "CLOSE", "UNREG"}
  BY ESP32BLEAssumption DEF Pending, Requests
<1>4. Quiet
  BY <1>1 DEF Quiet
<1>5. MethodKnows /\ NoUseAfterFree
  BY <1>2, <1>3 DEF MethodKnows, NoUseAfterFree
<1> QED
  BY <1>1, <1>2, <1>3, <1>4, <1>5 DEF SessionInv

LEMMA RebootSession == ASSUME Reboot PROVE SessionInv'
<1>1. /\ me' = Null /\ cl' = NoClient /\ todo' = <<>> /\ phase' = "run" /\ hook' = Null
      /\ btc' = Null /\ crashed' = FALSE /\ reqs' = <<>> /\ evq' = <<>>
      /\ ifs' = [g \in AllIfs |-> FreeIf]
  BY DEF Reboot
<1>2. \A g \in AllIfs : ~ifs'[g].used /\ ~ifs'[g].open
  BY <1>1 DEF FreeIf
<1>3. cl'.state = "Idle"
  BY <1>1 DEF NoClient, NewClient
<1>4. Pending' = Null /\ Null \notin {"REG", "CLOSE", "UNREG"}
  BY <1>1, ESP32BLEAssumption DEF Pending, Requests
<1>5. Quiet'
  BY <1>1, <1>2 DEF Quiet
<1>6. MethodKnows' /\ NoUseAfterFree'
  BY <1>1, <1>3, <1>4 DEF MethodKnows, NoUseAfterFree
<1> QED
  BY <1>2, <1>3, <1>4, <1>5, <1>6 DEF SessionInv

LEMMA NextSession ==
  ASSUME InTime, IndInv, SessionInv, [Next]_vars
  PROVE  SessionInv'
<1>1. CASE Acquire
  BY <1>1, AcquireSession
<1>2. CASE UNCHANGED vars
  <2>1. /\ UNCHANGED <<gattcIfs, me, btc, crashed, reqs, evq, ifs, todo, phase, hook, done, cl>>
    BY <1>2 DEF vars, registry, main, wait, stack
  <2>2. MethodKnows' /\ Pending' = Pending
    BY <2>1 DEF SessionInv, MethodKnows, Pending
  <2> QED
    BY <2>1, <2>2, MainMoves
<1>3. CASE \E m \in Calls \union {"delete"} : Call(m)
  BY <1>3, CallSession
<1>4. CASE TakeNotifications
  BY <1>4, TakeNotificationsSession
<1>5. CASE MainStep
  BY <1>5, SkipSession, RefuseSession, AskSession, WakeSession, LeaveSession,
     UnlockSession, ReleaseSession, FreeSession DEF MainStep
<1>6. CASE CallbackStep
  BY <1>6, PickSession, DispatchSession, DispatchFreedNever DEF CallbackStep
<1>7. CASE StackStep
  BY <1>7, StackSession
<1>8. CASE PeerStep
  BY <1>8, PeerSession
<1>9. CASE Reboot
  BY <1>9, RebootSession
<1> QED
  BY <1>1, <1>2, <1>3, <1>4, <1>5, <1>6, <1>7, <1>8, <1>9 DEF Next, AcquireNothing

\* When registration, close and unregistration are in time and the ends of a session
\* do not fail, the callback task never has a deleted client, whatever becomes of
\* connections, searches and writes.
THEOREM NeverUsedAfterFree ==
  ASSUME InTime
  PROVE  Spec => []NoUseAfterFree
<1>1. Init => SessionInv
  BY StartSession DEF Init
<1>2. SessionInv => NoUseAfterFree
  BY DEF SessionInv
<1>3. IndInv /\ SessionInv /\ [Next]_vars => SessionInv'
  BY NextSession
<1> QED
  BY InitInd, NextInd, <1>1, <1>2, <1>3, PTL DEF Spec

\* Under the same conditions nothing of a client is left when the slot is free again.
THEOREM FreedSlotIsQuiet ==
  ASSUME InTime
  PROVE  Spec => []FreeSlotIsQuiet
<1>1. Init => SessionInv
  BY StartSession DEF Init
<1>2. IndInv /\ SessionInv => FreeSlotIsQuiet
  <2> SUFFICES ASSUME IndInv, SessionInv, me = Null PROVE Quiet
    BY DEF FreeSlotIsQuiet, Quiet
  <2>1. todo = <<>>
    BY DEF IndInv, MainShape
  <2>2. Pending = Null /\ Null \notin {"REG", "CLOSE", "UNREG"}
    BY <2>1, NoHook
  <2> QED
    BY <2>2 DEF SessionInv, MethodKnows
<1>3. IndInv /\ SessionInv /\ [Next]_vars => SessionInv'
  BY NextSession
<1> QED
  BY InitInd, NextInd, <1>1, <1>2, <1>3, PTL DEF Spec

\* Under the same conditions a Ready client has the connection of its own interface,
\* which is open or whose end is being reported.
THEOREM ReadyClientHasLink ==
  ASSUME InTime
  PROVE  Spec => []ReadyHasLink
<1>1. Init => SessionInv
  BY StartSession DEF Init
<1>2. IndInv /\ SessionInv => ReadyHasLink
  <2> SUFFICES ASSUME IndInv, SessionInv, cl.state = "Ready"
               PROVE  /\ cl.conn_id # Null /\ cl.conn_id = cl.gattc_if
                      /\ ifs[cl.conn_id].open \/ Reported("CLOSE", cl.conn_id)
    BY DEF ReadyHasLink
  <2> DEFINE g == cl.gattc_if
  <2>1. OneInterface /\ cl.conn_id = g /\ cl.conn_id # Null
    BY DEF SessionInv, OneInterface, IndInv, MainShape
  <2>2. Reports(evq, btc, g, "Ready", ifs[g])
    BY <2>1 DEF OneInterface
  <2>3. Told(evq, btc, "CLOSE") => Reported("CLOSE", g)
    BY <2>2 DEF Reports, Told, Has, Reported
  <2> QED
    BY <2>1, <2>2, <2>3 DEF Reports
<1>3. IndInv /\ SessionInv /\ [Next]_vars => SessionInv'
  BY NextSession
<1> QED
  BY InitInd, NextInd, <1>1, <1>2, <1>3, PTL DEF Spec

-----------------------------------------------------------------------------
(* What the callers of acquire() rely on.                                  *)

\* Every step acquires the free slot, gives it back, or is not seen: what is still
\* reported of an interface comes while its client exists.
LEMMA SlotStep ==
  ASSUME InTime, MAX_CLIENTS = 1, IndInv, SessionInv, [Next]_vars
  PROVE  [Slot!Next]_SlotState
<1>1. ASSUME me' = me, gattcIfs' = gattcIfs PROVE SlotState' = SlotState
  <2>1. Held' = Held
    BY <1>1 DEF Held
  <2> QED
    BY <1>1, <2>1 DEF SlotState
<1>2. CASE Acquire
  <2>1. me = Null /\ me' # Null /\ Cardinality(Held) < 1
    BY <1>2, ESP32BLEAssumption DEF Acquire, Room
  <2>2. Held = {}
    <3>1. IsFiniteSet(Held)
      BY ESP32BLEAssumption, FS_Union, FS_Singleton, FS_Subset DEF Held, AllIfs
    <3>2. Cardinality(Held) \in Nat
      BY <3>1, FS_CardinalityType
    <3> QED
      BY <2>1, <3>1, <3>2, FS_EmptySet
  <2> QED
    BY <2>1, <2>2 DEF SlotState, Slot!Next, Slot!Acquire
<1>3. CASE Free
  <2>1. me # Null /\ me' = Null
    BY <1>3 DEF Free, IndInv, MainShape
  <2> QED
    BY <2>1 DEF SlotState, Slot!Next, Slot!Delete
<1>4. CASE Pick
  <2>1. me # Null /\ me' = me
    BY <1>4, Alive DEF Pick, main, Quiet
  <2> QED
    BY <2>1 DEF SlotState
<1>5. CASE Reboot
  BY <1>5 DEF Reboot, SessionInv, NoUseAfterFree
<1>6. CASE (\E m \in Calls \union {"delete"} : Call(m)) \/ TakeNotifications
             \/ AcquireNothing \/ UNCHANGED vars
  BY <1>1, <1>6 DEF Call, TakeNotifications, AcquireNothing, vars, registry, main
<1>7. CASE Skip \/ Refuse \/ Ask \/ Wake \/ Leave \/ Unlock \/ Release
  BY <1>1, <1>7 DEF Skip, Refuse, Ask, Wake, Leave, Unlock, Release, registry
<1>8. CASE Dispatch \/ DispatchFreed
  BY <1>1, <1>8 DEF Dispatch, DispatchFreed, registry, main
<1>9. CASE StackStep \/ PeerStep
  BY <1>1, <1>9 DEF StackStep, StackRegister, StackOpen, StackAnswer, StackCancel, StackClose,
     StackUnregister, PeerStep, PeerDrop, PeerNotify, registry, main
<1> QED
  BY <1>2, <1>3, <1>4, <1>5, <1>6, <1>7, <1>8, <1>9 DEF Next, MainStep, CallbackStep

\* Under the same conditions, and with one client at a time, the layer does to the
\* slot what BLESlot says: acquire() lets nobody in before the last client and its
\* interface are gone.
THEOREM SlotImplemented ==
  ASSUME InTime, MAX_CLIENTS = 1
  PROVE  Spec => Slot!Init /\ [][Slot!Next]_SlotState
<1>1. Init => SessionInv
  BY StartSession DEF Init
<1>2. Init => Slot!Init
  BY DEF Init, Slot!Init, SlotState, Held
<1>3. IndInv /\ SessionInv /\ [Next]_vars => SessionInv'
  BY NextSession
<1>4. IndInv /\ SessionInv /\ [Next]_vars => [Slot!Next]_SlotState
  BY SlotStep
<1> QED
  BY InitInd, NextInd, <1>1, <1>2, <1>3, <1>4, PTL DEF Spec

=============================================================================
