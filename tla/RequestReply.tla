------------------------------ MODULE RequestReply ------------------------------
(***************************************************************************)
(* What a wire test relies on when it calls wiretest's request(): one      *)
(* request at a time, which returns either unanswered or with the state    *)
(* the server was in at some moment between the call and the return.       *)
(*                                                                         *)
(* The server's state is a version number: it counts the changes.          *)
(***************************************************************************)
EXTENDS Naturals

CONSTANTS
  MaxRequests,  \* BOUND: how many requests the test makes
  MaxChanges    \* BOUND: how often the server's state changes

VARIABLES
  pc,       \* "idle" or "waiting": whether a request is under way
  n,        \* requests made so far; the one under way is the n-th
  version,  \* the state of the server
  since,    \* the state of the server when the n-th request was made
  answer    \* the last answer: the request it is for and what it says

vars == <<pc, n, version, since, answer>>

Init ==
  /\ pc = "idle"
  /\ n = 0
  /\ version = 0 /\ since = 0
  /\ answer = [n |-> 0, version |-> 0]

Change ==
  /\ version < MaxChanges
  /\ version' = version + 1
  /\ UNCHANGED <<pc, n, since, answer>>

Call ==
  /\ pc = "idle" /\ n < MaxRequests
  /\ pc' = "waiting"
  /\ n' = n + 1
  /\ since' = version
  /\ UNCHANGED <<version, answer>>

Answered ==
  /\ pc = "waiting"
  /\ pc' = "idle"
  /\ \E v \in since..version : answer' = [n |-> n, version |-> v]
  /\ UNCHANGED <<n, version, since>>

Unanswered ==
  /\ pc = "waiting"
  /\ pc' = "idle"
  /\ UNCHANGED <<n, version, since, answer>>

Next == Change \/ Call \/ Answered \/ Unanswered

Safe == Init /\ [][Next]_vars

Spec == Safe /\ WF_vars(Answered \/ Unanswered)

-----------------------------------------------------------------------------

\* What successive reads see never goes back in time.
ReadsNeverGoBack == [][answer'.version >= answer.version]_vars

\* A request is answered or given up: request() always returns.
RequestReturns == pc = "waiting" ~> pc = "idle"
=============================================================================
