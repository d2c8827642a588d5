----------------------------- MODULE TplinkPlug -----------------------------
(***************************************************************************)
(* The emulated TP-Link plug (tplink_plug/tplink_component.cpp): loop()    *)
(* takes the UDP requests, accepts one TCP client and serves every client  *)
(* in clients_, each of them for one request of a length and a payload.    *)
(* clients_ holds raw pointers: a client is deleted when it is done, and   *)
(* its address can be given to the next one.                               *)
(***************************************************************************)
EXTENDS Naturals, Sequences, FiniteSets, SequencesExt

CONSTANTS
  Addresses,    \* where a Client can be allocated
  MAX_CLIENTS

VARIABLES
  clients_,   \* the list of pointers
  heap,       \* the addresses that hold a Client
  socket,     \* per address: how its connection stands
  relay,      \* the state of the switches
  turn        \* what loop() does next

vars == <<clients_, heap, socket, relay, turn>>

\* A connection: what it has received, whether its length is in bounds, and
\* what is requested.
Stages   == {"nothing", "length", "all", "lost"}
Requests == {"on", "off", "get_realtime", "get_sysinfo", "set_led_state", "unknown"}
Sockets  == [stage : Stages, fits : BOOLEAN, request : Requests]
NewSockets == {s \in Sockets : s.stage = "nothing"}

\* process_: the request that changes something.
Processed(state, request) ==
  CASE request = "on" -> TRUE [] request = "off" -> FALSE [] OTHER -> state

\* loop_udp_: each packet that fits is processed.
LoopUdp ==
  /\ turn = "udp" /\ turn' = "accept"
  /\ \E request \in Requests : relay' = Processed(relay, request)
  /\ UNCHANGED <<clients_, heap, socket>>

\* loop_tcp_accept_: a new connection becomes a client, or is closed.
Accept ==
  /\ turn = "accept" /\ turn' = "tcp"
  /\ Len(clients_) < MAX_CLIENTS
  /\ \E a \in Addresses \ heap, s \in NewSockets :
       /\ clients_' = Append(clients_, a) /\ heap' = heap \union {a}
       /\ socket' = [socket EXCEPT ![a] = s]
  /\ UNCHANGED relay

AcceptNothing ==
  /\ turn = "accept" /\ turn' = "tcp"
  /\ UNCHANGED <<clients_, heap, socket, relay>>

\* recv_tcp_ returns true while the length or the payload is not complete; it
\* returns false for a length out of bounds and when the request is processed.
Complete(a)  == socket[a].stage = "all" /\ socket[a].fits
Continues(a) == \/ socket[a].stage = "nothing"
                \/ socket[a].stage = "length" /\ socket[a].fits

\* loop_tcp_ moves the clients that continue to the front, deletes the others
\* and erases one element behind the front.  What it does with a pointer to a
\* deleted client is undefined; DoneIsGone says that there is none.
LoopTcp ==
  /\ turn = "tcp" /\ turn' = "udp"
  /\ LET kept == SelectSeq(clients_, Continues) IN
       /\ clients_' = kept \o SubSeq(clients_, Len(kept) + 2, Len(clients_))
       /\ heap' = heap \ {a \in ToSet(clients_) : ~Continues(a)}
  /\ relay' = FoldLeft(LAMBDA state, a : Processed(state, socket[a].request), relay,
                       SelectSeq(clients_, Complete))
  /\ UNCHANGED socket

\* More of a request arrives, or the connection is lost.
Receive(a) ==
  /\ a \in heap
  /\ \E stage \in Stages :
       /\ <<socket[a].stage, stage>> \in
            {<<"nothing", "length">>, <<"length", "all">>, <<"nothing", "all">>,
             <<"nothing", "lost">>, <<"length", "lost">>, <<"all", "lost">>}
       /\ socket' = [socket EXCEPT ![a].stage = stage]
  /\ UNCHANGED <<clients_, heap, relay, turn>>

Init ==
  /\ clients_ = <<>> /\ heap = {} /\ turn = "udp" /\ relay \in BOOLEAN
  /\ socket \in [Addresses -> {CHOOSE s \in NewSockets : TRUE}]

Next == LoopUdp \/ Accept \/ AcceptNothing \/ LoopTcp
        \/ \E a \in Addresses : Receive(a)

Spec == Init /\ [][Next]_vars

\* "everything processed stop" (tplink_component.cpp:191): a client that is
\* done is gone, from clients_ as well as from the heap.
DoneIsGone == ToSet(clients_) \subseteq heap

=============================================================================
