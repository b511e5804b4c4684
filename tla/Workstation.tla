------------------------------ MODULE Workstation ------------------------------
(***************************************************************************)
(* wiretest/workstation.py: a workstation whose background thread (_serve) *)
(* reads the one socket, keeps the notifications it gets and answers them, *)
(* and hands every other answer to the request that waits for its invoke   *)
(* id; the threads that call request(), and one that calls                 *)
(* wait_for_notification().  All of them share a lock and its condition:   *)
(* an action is what one of them does from taking the lock to leaving it,  *)
(* or one datagram sent or received without it.                            *)
(***************************************************************************)
EXTENDS Naturals, Sequences, FiniteSets

CONSTANTS
  Callers,      \* the threads that call request()
  Watcher,      \* the thread that calls mark() and wait_for_notification()
  Modulus,      \* how many invoke ids there are (256 in the code)
  Retries,      \* resends of an unanswered request
  MaxAge,       \* what belongs to one request is over before the MaxAge-th after it
  MaxRequests,  \* BOUND: how many requests are made
  MaxNotices    \* BOUND: how many notifications arrive, resends included

ASSUME CallersAssumption == IsFiniteSet(Callers) /\ Watcher \notin Callers
ASSUME ModulusAssumption == Modulus \in Nat \ {0}
ASSUME RetriesAssumption == Retries \in Nat
\* The environment's part: nothing outlives a whole round of invoke ids.
ASSUME MaxAgeAssumption  == MaxAge \in 1..Modulus
ASSUME BoundsAssumption  == MaxRequests \in Nat /\ MaxNotices \in Nat

VARIABLES
  pc,             \* per waiter: "idle", "send", "look", "asleep" or "lastLook"
  invokeId,       \* _invoke_id
  made,           \* the caller of every request made: the k-th is made[k]
  current,        \* per caller: the number and invoke id of its last request
  sent,           \* per caller: datagrams sent for the request under way
  answer,         \* per caller: the request its last answer is for
  responses,      \* _responses
  notifications,  \* notifications: which event each of them reports
  after,          \* the mark the watcher waits after
  toAnswer,       \* the notification the thread has kept and not answered yet
  requests,       \* request datagrams the server may still receive
  arriving,       \* datagrams the workstation may still receive
  acked           \* the events the device has an answer for

Waiters == Callers \union {Watcher}

callerVars  == <<invokeId, made, current, sent, answer>>
keptVars    == <<responses, notifications>>
networkVars == <<requests, arriving>>
vars == <<pc, callerVars, keptVars, after, toAnswer, networkVars, acked>>

-----------------------------------------------------------------------------
\* The network delivers datagrams in any order, and those that are lost never:
\* nothing says that one must arrive.  What is sent twice may arrive twice.

IsResponse(d) == "id" \in DOMAIN d

\* What is still under way when one more request is made.
Young(d) == IsResponse(d) => Len(made) + 1 < d.k + MaxAge

-----------------------------------------------------------------------------
\* The device answers every request, and sends an event again until it has
\* the answer to it.

Serve ==
  /\ \E d \in requests :
        /\ requests' = requests \ {d}
        /\ arriving' = arriving \union {[k |-> d.k, id |-> d.id, sent |-> d.sent]}
  /\ UNCHANGED <<pc, callerVars, keptVars, after, toAnswer, acked>>

Notify ==
  /\ Len(notifications) < MaxNotices
  /\ \E event \in 1..MaxNotices \ acked :
        arriving' = arriving \union {[event |-> event]}
  /\ UNCHANGED <<pc, callerVars, keptVars, after, toAnswer, requests, acked>>

-----------------------------------------------------------------------------
\* The condition

\* Mutant: notify() for notify_all().
OneOf(asleep) == IF asleep = {} THEN {} ELSE {CHOOSE w \in asleep : TRUE}
Woken(asleep) == asleep
NotifyAll ==
  LET woken == Woken({w \in Waiters : pc[w] = "asleep"})
  IN  pc' = [w \in Waiters |-> IF w \in woken THEN "look" ELSE pc[w]]

Looks(w) == pc[w] \in {"look", "lastLook"}

\* _arrived.wait(remaining) and the deadline: one last look when it has passed.
Expire(w) ==
  /\ pc[w] \in {"look", "asleep"}
  /\ pc' = [pc EXCEPT ![w] = "lastLook"]
  /\ UNCHANGED <<callerVars, keptVars, after, toAnswer, networkVars, acked>>

-----------------------------------------------------------------------------
\* _serve()

\* What the thread receives nobody else sees before it is in a list.
ReceiveResponse ==
  /\ toAnswer = {}
  /\ \E d \in arriving :
        /\ IsResponse(d)
        /\ arriving' = arriving \ {d}
        /\ responses' = Append(responses, d)
  /\ NotifyAll
  /\ UNCHANGED <<callerVars, notifications, after, toAnswer, requests, acked>>

ReceiveNotification ==
  /\ toAnswer = {}
  /\ \E d \in arriving :
        /\ ~IsResponse(d)
        /\ arriving' = arriving \ {d}
        /\ notifications' = Append(notifications, d.event)
        /\ toAnswer' = {d.event}
  /\ NotifyAll
  /\ UNCHANGED <<callerVars, responses, after, requests, acked>>

\* The SimpleACK, which may be lost; a workstation told to be silent, or an
\* unconfirmed notification, has the same outcome as one that is lost.
AnswerNotification ==
  /\ toAnswer # {}
  /\ acked' \in {acked, acked \union toAnswer}
  /\ toAnswer' = {}
  /\ UNCHANGED <<pc, callerVars, keptVars, after, networkVars>>

Thread == ReceiveResponse \/ ReceiveNotification \/ AnswerNotification

-----------------------------------------------------------------------------
\* request()

\* Mutant: the invoke id is never reduced to an octet.
WideInvokeId == invokeId + 1
NextInvokeId == (invokeId + 1) % Modulus

\* Mutant: what earlier requests left behind stays.
Kept(frame) == TRUE
OfOthers(frame) == frame.id # NextInvokeId

\* What the list comprehension leaves of the frames, in their order.
OthersAmong(frames) ==
  LET left[i \in 0..Len(frames)] ==
        IF i = 0 THEN <<>>
        ELSE IF OfOthers(frames[i]) THEN Append(left[i - 1], frames[i]) ELSE left[i - 1]
  IN  left[Len(frames)]

Request(c) ==
  /\ pc[c] = "idle"
  /\ Len(made) < MaxRequests
  /\ \A other \in Callers : pc[other] # "idle" => Young(current[other])
  /\ made' = Append(made, c)
  /\ invokeId' = NextInvokeId
  /\ responses' = OthersAmong(responses)
  /\ current' = [current EXCEPT ![c] = [k |-> Len(made'), id |-> NextInvokeId]]
  /\ pc' = [pc EXCEPT ![c] = "send"]
  /\ requests' = {d \in requests : Young(d)}
  /\ arriving' = {d \in arriving : Young(d)}
  /\ UNCHANGED <<sent, answer, notifications, after, toAnswer, acked>>

\* attempt(): the same octets each time, and a new deadline.
Send(c) ==
  /\ pc[c] = "send"
  /\ sent' = [sent EXCEPT ![c] = @ + 1]
  /\ requests' = requests \union {[k |-> current[c].k, id |-> current[c].id, sent |-> sent'[c]]}
  /\ pc' = [pc EXCEPT ![c] = "look"]
  /\ UNCHANGED <<invokeId, made, current, answer, keptVars, after,
                 toAnswer, arriving, acked>>

\* Mutant: whatever has arrived will do.
AnyFrame(c, frame) == TRUE
Matches(c, frame) == frame.id = current[c].id

FirstMatch(c, i) ==
  /\ Matches(c, responses[i])
  /\ \A j \in 1..(i - 1) : ~Matches(c, responses[j])

Without(i) == SubSeq(responses, 1, i - 1) \o SubSeq(responses, i + 1, Len(responses))

TakeResponse(c) ==
  /\ Looks(c)
  /\ \E i \in DOMAIN responses :
        /\ FirstMatch(c, i)
        /\ responses' = Without(i)
        /\ answer' = [answer EXCEPT ![c] = responses[i].k]
  /\ pc' = [pc EXCEPT ![c] = "idle"]
  /\ sent' = [sent EXCEPT ![c] = 0]
  /\ UNCHANGED <<invokeId, made, current, notifications,
                 after, toAnswer, networkVars, acked>>

\* What the wait of w is for has arrived.
Arrived(w) == IF w = Watcher THEN after < Len(notifications)
              ELSE \E i \in DOMAIN responses : Matches(w, responses[i])

Sleep(w) ==
  /\ pc[w] = "look" /\ ~Arrived(w)
  /\ pc' = [pc EXCEPT ![w] = "asleep"]
  /\ UNCHANGED <<callerVars, keptVars, after, toAnswer, networkVars, acked>>

\* send_with_retries(): the attempt is over.
Spent(c) == sent[c] > Retries

AttemptFails(c) ==
  /\ pc[c] = "lastLook" /\ ~Arrived(c)
  /\ IF Spent(c)
     THEN pc' = [pc EXCEPT ![c] = "idle"] /\ sent' = [sent EXCEPT ![c] = 0]
     ELSE pc' = [pc EXCEPT ![c] = "send"] /\ UNCHANGED sent
  /\ UNCHANGED <<invokeId, made, current, answer, keptVars, after, toAnswer,
                 networkVars, acked>>

Caller(c) == Send(c) \/ TakeResponse(c) \/ Sleep(c) \/ AttemptFails(c)

-----------------------------------------------------------------------------
\* wait_for_notification(after=...), given the mark() of some earlier moment

Watch ==
  /\ pc[Watcher] = "idle"
  /\ pc' = [pc EXCEPT ![Watcher] = "look"]
  /\ after' \in 0..Len(notifications)
  /\ UNCHANGED <<callerVars, keptVars, toAnswer, networkVars, acked>>

StopWatching ==
  /\ Looks(Watcher)
  /\ Arrived(Watcher) \/ pc[Watcher] = "lastLook"
  /\ pc' = [pc EXCEPT ![Watcher] = "idle"]
  /\ after' = 0
  /\ UNCHANGED <<callerVars, keptVars, toAnswer, networkVars, acked>>

Watching == Sleep(Watcher) \/ StopWatching \/ Expire(Watcher)

-----------------------------------------------------------------------------

Init ==
  /\ pc = [w \in Waiters |-> "idle"]
  /\ invokeId = 0
  /\ made = <<>>
  /\ current = [c \in Callers |-> [k |-> 0, id |-> 0]]
  /\ sent = [c \in Callers |-> 0]
  /\ answer = [c \in Callers |-> 0]
  /\ responses = <<>> /\ notifications = <<>>
  /\ after = 0
  /\ toAnswer = {}
  /\ requests = {} /\ arriving = {}
  /\ acked = {}

Next ==
  \/ Serve \/ Notify
  \/ Thread
  \/ \E c \in Callers : Request(c) \/ Caller(c) \/ Expire(c)
  \/ Watch \/ Watching

Spec == Init /\ [][Next]_vars

-----------------------------------------------------------------------------

Ids == 0..(Modulus - 1)
Frames == [k : 1..MaxRequests, id : Ids, sent : 1..(1 + Retries)]
Notices == [event : 1..MaxNotices]

\* Every variable stays in its type.
TypeOK ==
  /\ pc \in [Waiters -> {"idle", "send", "look", "asleep", "lastLook"}]
  /\ invokeId \in Ids
  /\ made \in Seq(Callers) /\ Len(made) <= MaxRequests
  /\ current \in [Callers -> [k : 0..MaxRequests, id : Ids]]
  /\ sent \in [Callers -> 0..(1 + Retries)]
  /\ answer \in [Callers -> 0..MaxRequests]
  /\ responses \in Seq(Frames)
  /\ notifications \in Seq(1..MaxNotices)
  /\ after \in 0..Len(notifications)
  /\ toAnswer \subseteq 1..MaxNotices
  /\ requests \subseteq Frames
  /\ arriving \subseteq Frames \union Notices
  /\ acked \subseteq 1..MaxNotices

\* No thread sleeps while what it waits for has arrived, whatever else woke
\* or was delivered in between.
NoLostWakeup == \A w \in Waiters : pc[w] = "asleep" => ~Arrived(w)

\* _responses keeps the answers that nobody waits for any more, but no more
\* of them under one invoke id than one request can have.
LeftoversBounded ==
  \A id \in Ids :
     Cardinality({i \in DOMAIN responses : responses[i].id = id}) <= 1 + Retries

\* How many requests c has made, up to the k-th of all.
RequestsOf(c, k) == Cardinality({j \in 1..k : made[j] = c})

\* The answers are told apart by their requests, so the server's state need
\* not change.
Service(c) == INSTANCE RequestReply WITH
  MaxChanges <- 0, version <- 0, since <- 0,
  pc <- IF pc[c] = "idle" THEN "idle" ELSE "waiting",
  n <- RequestsOf(c, Len(made)),
  answer <- [n |-> IF answer[c] # 0 /\ made[answer[c]] = c THEN RequestsOf(c, answer[c]) ELSE 0,
             version |-> 0]

\* To each of the threads request() is the service a wire test relies on: its
\* own answer, to this request, whatever the others are told meanwhile.
ServesRequestReply ==
  /\ \A c \in Callers : Service(c)!Init
  /\ [][\A c \in Callers : [Service(c)!Next]_(Service(c)!vars)]_vars
=============================================================================
