---------------------------- MODULE ConfirmedRequest ----------------------------
(***************************************************************************)
(* wiretest/client.py: Client.request() with send_with_retries() and       *)
(* Endpoint.wait_for(), against a server that answers every datagram it    *)
(* receives, over a network that loses, delays, duplicates and reorders    *)
(* datagrams.  An answer is told from another by its invoke id alone, and  *)
(* the invoke id wraps.                                                    *)
(***************************************************************************)
EXTENDS Naturals

CONSTANTS
  Modulus,      \* how many invoke ids there are (256 in the code)
  Retries,      \* resends of an unanswered request
  MaxAge,       \* a datagram of one request is gone before the MaxAge-th after it
  MaxRequests,  \* BOUND: how many requests the test makes
  MaxChanges    \* BOUND: how often the server's state changes

ASSUME ModulusAssumption == Modulus \in Nat \ {0}
ASSUME RetriesAssumption == Retries \in Nat
\* The environment's part: no datagram outlives a whole round of invoke ids.
ASSUME MaxAgeAssumption  == MaxAge \in 1..Modulus
ASSUME BoundsAssumption  == MaxRequests \in Nat /\ MaxChanges \in Nat

VARIABLES
  pc,        \* "idle", or "waiting" in wait_for
  n,         \* requests made so far; the one under way is the n-th
  invokeId,  \* Client._invoke_id
  sent,      \* datagrams sent for the n-th request (1 + attempt_number)
  requests,  \* request datagrams the server may still receive
  replies,   \* answer datagrams the client may still receive
  version,   \* the state of the server
  since,     \* the state of the server when the n-th request was made
  answer     \* the last answer: the request it is for and what it says

clientVars == <<pc, n, invokeId, sent, since, answer>>
vars == <<clientVars, requests, replies, version>>

-----------------------------------------------------------------------------
\* The network.  A datagram knows the request it belongs to (n), which the
\* program does not; receiving one may leave a duplicate behind.

AfterReceiving(d, datagrams) == {datagrams, datagrams \ {d}}

\* What is still under way when request n + 1 is made.
Young(datagrams) == {d \in datagrams : n + 1 < d.n + MaxAge}

Lose ==
  /\ \/ \E d \in requests : requests' = requests \ {d} /\ UNCHANGED replies
     \/ \E d \in replies : replies' = replies \ {d} /\ UNCHANGED requests
  /\ UNCHANGED <<clientVars, version>>

-----------------------------------------------------------------------------
\* The server answers whatever it receives, a resend or duplicate too.

Serve ==
  /\ \E d \in requests :
        /\ requests' \in AfterReceiving(d, requests)
        /\ replies' = replies \union {[n |-> d.n, id |-> d.id, version |-> version]}
  /\ UNCHANGED <<clientVars, version>>

Change ==
  /\ version < MaxChanges
  /\ version' = version + 1
  /\ UNCHANGED <<clientVars, requests, replies>>

-----------------------------------------------------------------------------
\* Client.request()

\* Mutants: the invoke id is never reduced to an octet, or never moves on.
WideInvokeId == invokeId + 1
SameInvokeId == invokeId
NextInvokeId == (invokeId + 1) % Modulus

Request ==
  /\ pc = "idle" /\ n < MaxRequests
  /\ pc' = "waiting"
  /\ n' = n + 1
  /\ invokeId' = NextInvokeId
  /\ sent' = 1
  /\ since' = version
  /\ requests' = Young(requests) \union {[n |-> n + 1, id |-> NextInvokeId]}
  /\ replies' = Young(replies)
  /\ UNCHANGED <<version, answer>>

\* Mutant: any answering PDU will do.
IsAnswer(d) == TRUE
\* The predicate request() gives to wait_for.
Matches(d) == d.id = invokeId

\* A reply that does not match is kept in `frames`, where nothing that the
\* request under way looks for will find it, and dropped by the next request.
Receive ==
  /\ pc = "waiting"
  /\ \E d \in replies :
        /\ replies' \in AfterReceiving(d, replies)
        /\ IF Matches(d)
           THEN pc' = "idle" /\ answer' = [n |-> d.n, version |-> d.version]
           ELSE UNCHANGED <<pc, answer>>
  /\ UNCHANGED <<n, invokeId, sent, since, requests, version>>

\* Mutant: a resend is not counted.
SameAttempt == sent
NextAttempt == sent + 1

\* wait_for gives up on one attempt: the same octets again, or no answer.
Resend ==
  /\ pc = "waiting" /\ sent <= Retries
  /\ sent' = NextAttempt
  /\ requests' = requests \union {[n |-> n, id |-> invokeId]}
  /\ UNCHANGED <<pc, n, invokeId, since, answer, replies, version>>

GiveUp ==
  /\ pc = "waiting" /\ sent > Retries
  /\ pc' = "idle"
  /\ UNCHANGED <<n, invokeId, sent, since, answer, requests, replies, version>>

TimeOut == Resend \/ GiveUp

-----------------------------------------------------------------------------

Init ==
  /\ pc = "idle"
  /\ n = 0
  /\ invokeId = 0
  /\ sent = 0
  /\ requests = {} /\ replies = {}
  /\ version = 0 /\ since = 0
  /\ answer = [n |-> 0, version |-> 0]

Next == Lose \/ Serve \/ Change \/ Request \/ Receive \/ TimeOut

\* Every attempt has a deadline (wait_for), so it ends whatever arrives.
Fairness == WF_vars(TimeOut)

Safe == Init /\ [][Next]_vars

Spec == Safe /\ Fairness

-----------------------------------------------------------------------------

\* Every variable stays in its type.
TypeOK ==
  /\ pc \in {"idle", "waiting"}
  /\ n \in 0..MaxRequests
  /\ pc = "waiting" => n # 0
  /\ invokeId \in 0..(Modulus - 1)
  /\ sent \in 0..(1 + Retries)
  /\ requests \subseteq [n : 1..MaxRequests, id : 0..(Modulus - 1)]
  /\ replies \subseteq [n : 1..MaxRequests, id : 0..(Modulus - 1), version : 0..MaxChanges]
  /\ version \in 0..MaxChanges
  /\ since \in 0..MaxChanges
  /\ answer \in [n : 0..MaxRequests, version : 0..MaxChanges]

Service == INSTANCE RequestReply

\* request() is the service a wire test relies on: whatever the network
\* delays, repeats or loses, an answer is for the request it is returned to
\* and says what the server was while that request was under way.
ServesRequestReply == Service!Safe

\* Two reads one after the other, retried or not, never go back in time.
ReadsNeverGoBack == Service!ReadsNeverGoBack

\* request() returns, if only without an answer.
RequestReturns == Service!RequestReturns
=============================================================================
