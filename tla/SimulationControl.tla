---------------------------- MODULE SimulationControl ----------------------------
(***************************************************************************)
(* wiretest/control.py, SimulationControl: plain-text commands over a      *)
(* loopback UDP port, each answered with one datagram, and sent again when *)
(* no answer comes.  Nothing in a datagram says which command it answers:  *)
(* late answers are dropped before a command is sent, and what arrives     *)
(* after that is taken for its answer.  The example that answers is not    *)
(* part of the repository; it may take its time.                           *)
(***************************************************************************)
EXTENDS Naturals, Sequences

CONSTANTS
  Retries,   \* how often an unanswered command is sent again
  MaxAsks    \* BOUND: how many commands are asked

VARIABLES
  pc,        \* "idle", "sending" or "receiving"
  asked,     \* the commands, by number: how many have been asked
  attempts,  \* how often the last one has been sent
  commands,  \* the datagrams under way to the example, and
  answers,   \* from it: [command, attempt]
  queue,     \* what the socket holds: the command each datagram answers
  answer     \* what the last ask() returned: the command its answer is for, 0 for None

vars == <<pc, asked, attempts, commands, answers, queue, answer>>

\* _drain: what has arrived is dropped; what has not is not.
Ask ==
  /\ pc = "idle" /\ asked < MaxAsks
  /\ asked' = asked + 1 /\ attempts' = 0 /\ answer' = 0
  /\ queue' = <<>>
  /\ pc' = "sending"
  /\ UNCHANGED <<commands, answers>>

SendTo ==
  /\ pc = "sending"
  /\ attempts' = attempts + 1
  /\ commands' = commands \union {[command |-> asked, attempt |-> attempts']}
  /\ pc' = "receiving"
  /\ UNCHANGED <<asked, answers, queue, answer>>

\* recvfrom: the first datagram there is.
ReceiveFrom ==
  /\ pc = "receiving" /\ queue # <<>>
  /\ answer' = Head(queue) /\ queue' = Tail(queue)
  /\ pc' = "idle"
  /\ UNCHANGED <<asked, attempts, commands, answers>>

\* The timeout, or the report of an unreachable port.
NoAnswer ==
  /\ pc = "receiving" /\ queue = <<>>
  /\ pc' = IF attempts <= Retries THEN "sending" ELSE "idle"
  /\ UNCHANGED <<asked, attempts, commands, answers, queue, answer>>

\* The example carries a command out as often as it gets it and answers each
\* time; a datagram is lost when it stays under way for ever.
CarryOut == \E d \in commands :
  /\ commands' = commands \ {d} /\ answers' = answers \union {d}
  /\ UNCHANGED <<pc, asked, attempts, queue, answer>>

Deliver == \E d \in answers :
  /\ answers' = answers \ {d} /\ queue' = Append(queue, d.command)
  /\ UNCHANGED <<pc, asked, attempts, commands, answer>>

Init ==
  /\ pc = "idle" /\ asked = 0 /\ attempts = 0 /\ answer = 0
  /\ commands = {} /\ answers = {} /\ queue = <<>>

Next == Ask \/ SendTo \/ ReceiveFrom \/ NoAnswer \/ CarryOut \/ Deliver

Spec == Init /\ [][Next]_vars

\* control.py:42: a late answer to an earlier command is dropped, "so it is not
\* taken for this one's": ask() returns None or the answer to its own command.
AnswersThisCommand == pc = "idle" => answer \in {0, asked}
=============================================================================
