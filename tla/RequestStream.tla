--------------------------- MODULE RequestStream ----------------------------
(***************************************************************************)
(* What a client may suppose of its connection to the HTTP server: its     *)
(* requests are answered in the order they were sent, each once and as a   *)
(* whole; the server may close the connection instead, and then answers    *)
(* nothing any more.                                                       *)
(***************************************************************************)
EXTENDS Naturals, Sequences

VARIABLES
  answers,  \* the numbers of the requests that were answered
  open      \* the connection is

Init == answers = <<>> /\ open = TRUE

Answer ==
  /\ open
  /\ answers' = Append(answers, Len(answers) + 1)
  /\ open' = open

Close ==
  /\ open
  /\ open' = FALSE
  /\ answers' = answers

Next == Answer \/ Close

Spec == Init /\ [][Next]_<<answers, open>>

=============================================================================
