------------------------ MODULE ConfirmedRequestProofs ------------------------
(***************************************************************************)
(* Client.request() implements RequestReply for any number of invoke ids,  *)
(* resends, requests and changes of the server, provided a datagram does   *)
(* not outlive a round of invoke ids (MaxAgeAssumption).                   *)
(***************************************************************************)
EXTENDS ConfirmedRequest, Integers, Counting, TLAPS

\* What a datagram of request d.n may be found with while request n is the
\* last one made: it is younger than a round of invoke ids.
InTime(d) == d.n \in 1..n /\ n < d.n + MaxAge /\ d.id = d.n % Modulus

NetworkInv ==
  /\ invokeId = n % Modulus
  /\ \A d \in requests : InTime(d)
  /\ \A d \in replies : InTime(d)

\* A reply says what the server was at some moment since its request was
\* made, and the client has seen nothing later than the present request.
ValueInv ==
  /\ since <= version
  /\ answer.version <= version
  /\ pc = "waiting" => answer.version <= since
  /\ \A d \in replies : d.version <= version /\ (d.n = n => since <= d.version)

IInv == TypeOK /\ NetworkInv /\ ValueInv

-----------------------------------------------------------------------------

\* Every reachable state is well typed.
THEOREM TypeCorrect == Safe => []TypeOK
<1> USE ModulusAssumption, RetriesAssumption, BoundsAssumption
    DEF ModulusAssumption, RetriesAssumption, BoundsAssumption
<1>1. Init => TypeOK
  BY DEF Init, TypeOK
<1>2. TypeOK /\ [Next]_vars => TypeOK'
  <2> SUFFICES ASSUME TypeOK, [Next]_vars PROVE TypeOK'
    OBVIOUS
  <2> USE DEF TypeOK, clientVars
  <2>1. CASE Lose
    BY <2>1 DEF Lose
  <2>2. CASE Serve
    BY <2>2 DEF Serve, AfterReceiving
  <2>3. CASE Change
    BY <2>3 DEF Change
  <2>4. CASE Request
    <3>1. NextInvokeId \in 0..(Modulus - 1)
      <4>1. invokeId + 1 \in Nat
        OBVIOUS
      <4>2. QED
        BY <4>1, Division DEF NextInvokeId
    <3>2. requests' \subseteq [n : 1..MaxRequests, id : 0..(Modulus - 1)]
      BY <2>4, <3>1 DEF Request, Young
    <3>3. QED
      BY <2>4, <3>1, <3>2 DEF Request, Young
  <2>5. CASE Receive
    <3>1. PICK d \in replies :
             /\ replies' \in AfterReceiving(d, replies)
             /\ IF Matches(d)
                THEN pc' = "idle" /\ answer' = [n |-> d.n, version |-> d.version]
                ELSE UNCHANGED <<pc, answer>>
      BY <2>5 DEF Receive
    <3>2. replies' \subseteq replies
      BY <3>1 DEF AfterReceiving
    <3>3. d.n \in 0..MaxRequests /\ d.version \in 0..MaxChanges
      OBVIOUS
    <3>4. pc' \in {"idle", "waiting"} /\ answer' \in [n : 0..MaxRequests, version : 0..MaxChanges]
      BY <3>1, <3>3
    <3>5. QED
      BY <2>5, <3>2, <3>4 DEF Receive
  <2>6. CASE Resend
    BY <2>6 DEF Resend, NextAttempt
  <2>7. CASE GiveUp
    BY <2>7 DEF GiveUp
  <2>8. CASE UNCHANGED vars
    BY <2>8 DEF vars
  <2>9. QED
    BY <2>1, <2>2, <2>3, <2>4, <2>5, <2>6, <2>7, <2>8 DEF Next, TimeOut
<1>3. QED
  BY <1>1, <1>2, PTL DEF Safe

\* Every reachable state satisfies the inductive invariant.
THEOREM Inductive == Safe => []IInv
<1> USE ModulusAssumption, MaxAgeAssumption, BoundsAssumption
    DEF ModulusAssumption, MaxAgeAssumption, BoundsAssumption
<1>1. Init => NetworkInv /\ ValueInv
  <2>1. 0 % Modulus = 0
    OBVIOUS
  <2>2. QED
    BY <2>1 DEF Init, NetworkInv, ValueInv
<1>2. TypeOK /\ TypeOK' /\ NetworkInv /\ [Next]_vars => NetworkInv'
  <2> SUFFICES ASSUME TypeOK, TypeOK', NetworkInv, [Next]_vars PROVE NetworkInv'
    OBVIOUS
  <2> USE DEF NetworkInv, clientVars
  <2>1. CASE Lose
    BY <2>1 DEF Lose, InTime
  <2>2. CASE Serve
    BY <2>2 DEF Serve, AfterReceiving, InTime
  <2>3. CASE Change
    BY <2>3 DEF Change, InTime
  <2>4. CASE Request
    <3>1. n \in Nat /\ n' = n + 1
      BY <2>4 DEF Request, TypeOK
    <3>2. invokeId' = n' % Modulus
      BY <2>4, <3>1, NextId DEF Request, NextInvokeId
    <3>3. \A d \in Young(requests) \union Young(replies) : InTime(d)'
      BY <3>1 DEF Young, InTime, TypeOK
    <3>4. ASSUME NEW d, d = [n |-> n + 1, id |-> NextInvokeId]
          PROVE  InTime(d)'
      <4>1. d.id = n' % Modulus /\ d.n = n'
        BY <2>4, <3>2, <3>4, <3>1 DEF Request
      <4>2. QED
        BY <3>1, <4>1 DEF InTime
    <3>5. QED
      BY <2>4, <3>2, <3>3, <3>4 DEF Request
  <2>5. CASE Receive
    BY <2>5 DEF Receive, AfterReceiving, InTime
  <2>6. CASE Resend
    <3>1. ASSUME NEW d, d = [n |-> n, id |-> invokeId]
          PROVE  InTime(d)'
      <4>1. n \in 1..n
        BY <2>6 DEF Resend, TypeOK
      <4>2. QED
        BY <2>6, <3>1, <4>1 DEF Resend, InTime, TypeOK
    <3>2. QED
      BY <2>6, <3>1 DEF Resend, InTime
  <2>7. CASE GiveUp
    BY <2>7 DEF GiveUp, InTime
  <2>8. CASE UNCHANGED vars
    BY <2>8 DEF vars, InTime
  <2>9. QED
    BY <2>1, <2>2, <2>3, <2>4, <2>5, <2>6, <2>7, <2>8 DEF Next, TimeOut
<1>3. TypeOK /\ TypeOK' /\ NetworkInv /\ ValueInv /\ [Next]_vars => ValueInv'
  <2> SUFFICES ASSUME TypeOK, TypeOK', NetworkInv, ValueInv, [Next]_vars PROVE ValueInv'
    OBVIOUS
  <2> USE DEF ValueInv, clientVars
  <2>1. CASE Lose
    BY <2>1 DEF Lose
  <2>2. CASE Serve
    BY <2>2 DEF Serve, AfterReceiving, TypeOK
  <2>3. CASE Change
    BY <2>3 DEF Change, TypeOK
  <2>4. CASE Request
    BY <2>4 DEF Request, Young, NetworkInv, InTime, TypeOK
  <2>5. CASE Receive
    BY <2>5 DEF Receive, AfterReceiving, TypeOK
  <2>6. CASE Resend
    BY <2>6 DEF Resend
  <2>7. CASE GiveUp
    BY <2>7 DEF GiveUp
  <2>8. CASE UNCHANGED vars
    BY <2>8 DEF vars
  <2>9. QED
    BY <2>1, <2>2, <2>3, <2>4, <2>5, <2>6, <2>7, <2>8 DEF Next, TimeOut
<1>4. QED
  BY <1>1, <1>2, <1>3, TypeCorrect, PTL DEF Safe, IInv

-----------------------------------------------------------------------------

\* A reply with the invoke id waited for is a reply to the request under way,
\* and what it says is no older than that request.
LEMMA MatchIsOwn ==
  ASSUME IInv, NEW d \in replies, Matches(d)
  PROVE  d.n = n /\ d.version \in since..version
<1> USE ModulusAssumption, MaxAgeAssumption, BoundsAssumption
    DEF ModulusAssumption, MaxAgeAssumption, BoundsAssumption
<1>1. d.n \in Nat /\ n \in Nat /\ d.n <= n /\ n < d.n + Modulus
  BY DEF IInv, TypeOK, NetworkInv, InTime
<1>2. d.n % Modulus = n % Modulus
  BY DEF IInv, NetworkInv, InTime, Matches
<1>3. d.n = n
  BY <1>1, <1>2, SameIdSameRequest
<1>4. d.version \in Nat /\ since \in Nat /\ version \in Nat
  BY DEF IInv, TypeOK
<1>5. QED
  BY <1>3, <1>4 DEF IInv, ValueInv

\* What a Receive that ends the request does is what the service calls
\* Answered; any other is a step in which the caller sees nothing.
LEMMA ReceiveIsAnswered ==
  ASSUME IInv, Receive
  PROVE  Service!Answered \/ UNCHANGED Service!vars
<1>1. PICK d \in replies :
         IF Matches(d)
         THEN pc' = "idle" /\ answer' = [n |-> d.n, version |-> d.version]
         ELSE UNCHANGED <<pc, answer>>
  BY DEF Receive
<1>2. CASE Matches(d)
  <2>1. d.n = n /\ d.version \in since..version
    BY <1>2, MatchIsOwn
  <2>2. answer' = [n |-> n, version |-> d.version]
    BY <1>1, <1>2, <2>1
  <2>3. QED
    BY <1>1, <1>2, <2>1, <2>2 DEF Receive, Service!Answered
<1>3. CASE ~Matches(d)
  BY <1>1, <1>3 DEF Receive, Service!vars
<1>4. QED
  BY <1>2, <1>3

\* Client.request() implements the service its callers rely on.
THEOREM Refinement == Safe => ServesRequestReply
<1>1. Init => Service!Init
  BY DEF Init, Service!Init
<1>2. IInv /\ [Next]_vars => [Service!Next]_(Service!vars)
  <2> SUFFICES ASSUME IInv, [Next]_vars
               PROVE  Service!Next \/ UNCHANGED Service!vars
    OBVIOUS
  <2> USE DEF clientVars, Service!vars
  <2>1. CASE Lose
    BY <2>1 DEF Lose
  <2>2. CASE Serve
    BY <2>2 DEF Serve
  <2>3. CASE Change
    BY <2>3 DEF Change, Service!Next, Service!Change
  <2>4. CASE Request
    BY <2>4 DEF Request, Service!Next, Service!Call
  <2>5. CASE Receive
    BY <2>5, ReceiveIsAnswered DEF Service!Next
  <2>6. CASE Resend
    BY <2>6 DEF Resend
  <2>7. CASE GiveUp
    BY <2>7 DEF GiveUp, Service!Next, Service!Unanswered
  <2>8. CASE UNCHANGED vars
    BY <2>8 DEF vars
  <2>9. QED
    BY <2>1, <2>2, <2>3, <2>4, <2>5, <2>6, <2>7, <2>8 DEF Next, TimeOut
<1>3. QED
  BY <1>1, <1>2, Inductive, PTL DEF Safe, ServesRequestReply, Service!Safe

\* Successive reads never go back in time, whatever the network does.
THEOREM NeverBack == Safe => ReadsNeverGoBack
<1> USE BoundsAssumption DEF BoundsAssumption
<1>1. IInv /\ [Next]_vars => answer'.version >= answer.version
  <2> SUFFICES ASSUME IInv, [Next]_vars PROVE answer'.version >= answer.version
    OBVIOUS
  <2>1. answer.version \in Nat
    BY DEF IInv, TypeOK
  <2>2. CASE UNCHANGED answer
    BY <2>1, <2>2
  <2>3. CASE Receive /\ ~UNCHANGED answer
    <3>1. PICK d \in replies : Matches(d) /\ answer' = [n |-> d.n, version |-> d.version]
      BY <2>3 DEF Receive
    <3>2. d.version \in since..version
      BY <3>1, MatchIsOwn
    <3>3. answer.version <= since /\ since \in Nat
      BY <2>3 DEF Receive, IInv, ValueInv, TypeOK
    <3>4. QED
      BY <2>1, <3>1, <3>2, <3>3
  <2>4. QED
    BY <2>2, <2>3
       DEF Next, vars, clientVars, Lose, Serve, Change, Request, TimeOut, Resend, GiveUp
<1>2. QED
  BY <1>1, Inductive, PTL DEF Safe, ReadsNeverGoBack, Service!ReadsNeverGoBack
=============================================================================
