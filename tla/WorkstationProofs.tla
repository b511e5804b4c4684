--------------------------- MODULE WorkstationProofs ---------------------------
(***************************************************************************)
(* For any number of threads, invoke ids, resends, requests and events:    *)
(* no thread sleeps through what it waits for, what nobody takes stays     *)
(* bounded, and request() is to each thread the service RequestReply,      *)
(* provided nothing outlives a round of invoke ids (MaxAgeAssumption).     *)
(***************************************************************************)
EXTENDS Workstation, Integers, Counting, SequenceTheorems, FiniteSetTheorems, TLAPS

\* What TypeOK does not say by itself: a thread that is to send still may, and
\* has a request to send.
SentInv ==
  \A c \in Callers : /\ pc[c] = "idle" => sent[c] = 0
                     /\ pc[c] = "send" => sent[c] <= Retries
                     /\ pc[c] # "idle" => current[c].k # 0

\* A request or answer under way when n requests have been made is younger
\* than a round of invoke ids.
InTime(d, n) ==
  /\ d.k \in 1..n
  /\ d.id = d.k % Modulus
  /\ n < d.k + MaxAge

\* An answer that was kept is for the last of the n requests with its id.
Latest(d, n) ==
  /\ d.k \in 1..n
  /\ d.id = d.k % Modulus
  /\ \A m \in 1..n : d.k < m => m % Modulus # d.id

\* The request c waits for is the last that c has made.
Own(c) ==
  /\ made[current[c].k] = c
  /\ \A m \in 1..Len(made) : current[c].k < m => made[m] # c

NumberInv ==
  /\ invokeId = Len(made) % Modulus
  /\ \A d \in requests : InTime(d, Len(made))
  /\ \A d \in arriving : IsResponse(d) => InTime(d, Len(made))
  /\ \A i \in 1..Len(responses) : Latest(responses[i], Len(made))
  /\ \A c \in Callers : pc[c] # "idle" => InTime(current[c], Len(made)) /\ Own(c)
  /\ \A c \in Callers : answer[c] <= Len(made)

\* A frame sent for the request of c that is under way was sent before.
Before(c, d) == (pc[c] # "idle" /\ d.k = current[c].k) => d.sent <= sent[c]

\* Every resend is in one place: on its way there, on its way back, or kept.
SingleInv ==
  /\ requests \cap arriving = {}
  /\ \A i \in 1..Len(responses) : responses[i] \notin requests \union arriving
  /\ \A i, j \in 1..Len(responses) : responses[i] = responses[j] => i = j
  /\ \A c \in Callers :
       /\ \A d \in requests : Before(c, d)
       /\ \A d \in arriving : IsResponse(d) => Before(c, d)
       /\ \A i \in 1..Len(responses) : Before(c, responses[i])

Typed == TypeOK /\ SentInv
IInv == Typed /\ NoLostWakeup /\ NumberInv /\ SingleInv

-----------------------------------------------------------------------------
\* Lists that have lost members

\* r is s with some of its members left out.
PartOf(r, s) ==
  \E h \in [1..Len(r) -> 1..Len(s)] :
     /\ \A a, b \in 1..Len(r) : h[a] = h[b] => a = b
     /\ \A a \in 1..Len(r) : r[a] = s[h[a]]

\* The frame that is taken leaves the others.
LEMMA WithoutIsPart ==
  ASSUME NEW S, responses \in Seq(S), NEW i \in 1..Len(responses)
  PROVE  Without(i) \in Seq(S) /\ PartOf(Without(i), responses)
<1> DEFINE N == Len(responses)
           p == SubSeq(responses, 1, i - 1)
           q == SubSeq(responses, i + 1, N)
           h == [a \in 1..(N - 1) |-> IF a < i THEN a ELSE a + 1]
<1>1. N \in Nat /\ i \in Nat /\ i <= N
  OBVIOUS
<1>2. p \in Seq(S) /\ Len(p) = i - 1 /\ \A a \in 1..(i - 1) : p[a] = responses[a]
  BY <1>1, SubSeqProperties
<1>3. q \in Seq(S) /\ Len(q) = N - i /\ \A a \in 1..(N - i) : q[a] = responses[i + a]
  BY <1>1, SubSeqProperties
<1> HIDE DEF p, q
<1>4. p \o q \in Seq(S) /\ Len(p \o q) = N - 1
  <2>1. p \o q \in Seq(S) /\ Len(p \o q) = Len(p) + Len(q)
    BY <1>2, <1>3, ConcatProperties
  <2>2. QED
    BY <2>1, <1>1, <1>2, <1>3
<1>5. ASSUME NEW a \in 1..(N - 1)
      PROVE  h[a] \in 1..N /\ (p \o q)[a] = responses[h[a]]
  <2>1. CASE a < i
    BY <2>1, <1>1, <1>2, <1>3, ConcatProperties
  <2>2. CASE ~(a < i)
    <3>1. (p \o q)[a] = q[a - (i - 1)]
      BY <2>2, <1>1, <1>2, <1>3, ConcatProperties
    <3>2. a - (i - 1) \in 1..(N - i) /\ i + (a - (i - 1)) = a + 1
      BY <2>2, <1>1
    <3>3. QED
      BY <2>2, <3>1, <3>2, <1>1, <1>3
  <2>3. QED
    BY <2>1, <2>2
<1>6. \A a, b \in 1..(N - 1) : h[a] = h[b] => a = b
  BY <1>1
<1>7. h \in [1..(N - 1) -> 1..N]
  BY <1>5
<1>8. Without(i) = p \o q
  BY DEF Without, p, q
<1> HIDE DEF h, N
<1>9. PartOf(p \o q, responses)
  BY <1>4, <1>5, <1>6, <1>7 DEF PartOf, N
<1>10. QED
  BY <1>4, <1>8, <1>9

\* What one more frame makes of those that were left.
LeftAfter(left, frames, i) ==
  IF i = 0 THEN <<>>
  ELSE IF OfOthers(frames[i]) THEN Append(left[i - 1], frames[i]) ELSE left[i - 1]

\* The list comprehension has a value for every list.
LEMMA LeftExists ==
  ASSUME NEW S, NEW frames \in Seq(S)
  PROVE  \E left : /\ left = [i \in 0..Len(frames) |-> LeftAfter(left, frames, i)]
                   /\ OthersAmong(frames) = left[Len(frames)]
<1> DEFINE N == Len(frames)
           Recursion(f, k) == f = [i \in 0..k |-> LeftAfter(f, frames, i)]
           Defined == {k \in 0..N : \E f : Recursion(f, k)}
<1>1. N \in Nat
  OBVIOUS
<1>2. 0 \in Defined
  <2>1. Recursion([i \in 0..0 |-> <<>>], 0)
    BY DEF LeftAfter
  <2>2. QED
    BY <2>1, <1>1
<1>3. ASSUME NEW k \in 1..N, k - 1 \in Defined
      PROVE  k \in Defined
  <2>1. PICK f : Recursion(f, k - 1)
    BY <1>3
  <2> DEFINE g == [i \in 0..k |-> IF i = k THEN LeftAfter(f, frames, k) ELSE f[i]]
  <2>2. ASSUME NEW i \in 0..k
        PROVE  g[i] = LeftAfter(g, frames, i)
    <3>1. CASE i = k
      BY <3>1 DEF LeftAfter
    <3>2. CASE i # k
      <4>1. i \in 0..(k - 1)
        BY <3>2
      <4>2. f[i] = LeftAfter(f, frames, i)
        BY <4>1, <2>1
      <4>3. i # 0 => g[i - 1] = f[i - 1]
        BY <4>1
      <4>4. QED
        BY <3>2, <4>2, <4>3 DEF LeftAfter
    <3>3. QED
      BY <3>1, <3>2
  <2>3. Recursion(g, k)
    BY <2>2
  <2>4. k \in 0..N
    BY <1>1
  <2>5. QED
    BY <2>3, <2>4
<1>4. N \in Defined
  <2> HIDE DEF Defined
  <2>1. 0..N \subseteq Defined
    BY <1>1, <1>2, <1>3, UpTo
  <2>2. QED
    BY <1>1, <2>1
<1>5. OthersAmong(frames) = (CHOOSE f : Recursion(f, N))[N]
  BY DEF OthersAmong, LeftAfter
<1>6. QED
  BY <1>4, <1>5

\* The members of r are taken from different ones of the first k frames.
TakenFrom(r, frames, k) ==
  \E h \in [1..Len(r) -> 1..k] :
     /\ \A a, b \in 1..Len(r) : h[a] = h[b] => a = b
     /\ \A a \in 1..Len(r) : r[a] = frames[h[a]]

LEMMA TakeNext ==
  ASSUME NEW S, NEW frames \in Seq(S), NEW k \in 1..Len(frames),
         NEW r \in Seq(S), TakenFrom(r, frames, k - 1)
  PROVE  TakenFrom(Append(r, frames[k]), frames, k)
<1> DEFINE L == Len(r)
           t == Append(r, frames[k])
<1>1. PICK h \in [1..L -> 1..(k - 1)] :
         /\ \A a, b \in 1..L : h[a] = h[b] => a = b
         /\ \A a \in 1..L : r[a] = frames[h[a]]
  BY DEF TakenFrom
<1> DEFINE g == [a \in 1..(L + 1) |-> IF a = L + 1 THEN k ELSE h[a]]
<1>2. L \in Nat /\ k \in Nat /\ frames[k] \in S
  OBVIOUS
<1>3. Len(t) = L + 1 /\ t[L + 1] = frames[k] /\ \A a \in 1..L : t[a] = r[a]
  BY <1>2, AppendProperties
<1>4. \A a \in 1..L : h[a] \in Nat /\ h[a] < k /\ h[a] \in 1..k
  BY <1>1, <1>2
<1>5. g \in [1..(L + 1) -> 1..k]
  BY <1>2, <1>4
<1>6. ASSUME NEW a \in 1..(L + 1), NEW b \in 1..(L + 1), g[a] = g[b]
      PROVE  a = b
  BY <1>1, <1>2, <1>4, <1>6
<1>7. ASSUME NEW a \in 1..(L + 1) PROVE t[a] = frames[g[a]]
  BY <1>1, <1>2, <1>3
<1> HIDE DEF g, t
<1>8. TakenFrom(t, frames, k)
  BY <1>3, <1>5, <1>6, <1>7 DEF TakenFrom
<1>9. QED
  BY <1>8 DEF t

\* Leaving one out takes nothing more.
LEMMA SkipNext ==
  ASSUME NEW frames, NEW k \in Nat, NEW r, TakenFrom(r, frames, k - 1)
  PROVE  TakenFrom(r, frames, k)
<1>1. PICK h \in [1..Len(r) -> 1..(k - 1)] :
         /\ \A a, b \in 1..Len(r) : h[a] = h[b] => a = b
         /\ \A a \in 1..Len(r) : r[a] = frames[h[a]]
  BY DEF TakenFrom
<1>2. h \in [1..Len(r) -> 1..k]
  BY <1>1
<1>3. QED
  BY <1>1, <1>2 DEF TakenFrom

\* What the list comprehension leaves is part of the frames, each of another
\* request than the one that is made.
LEMMA OthersArePart ==
  ASSUME NEW S, NEW frames \in Seq(S)
  PROVE  /\ OthersAmong(frames) \in Seq(S)
         /\ PartOf(OthersAmong(frames), frames)
         /\ \A a \in 1..Len(OthersAmong(frames)) : OfOthers(OthersAmong(frames)[a])
<1> DEFINE N == Len(frames)
<1>1. PICK left : /\ left = [i \in 0..N |-> LeftAfter(left, frames, i)]
                  /\ OthersAmong(frames) = left[N]
  BY LeftExists
<1> DEFINE Good(r, k) == /\ r \in Seq(S)
                         /\ TakenFrom(r, frames, k)
                         /\ \A a \in 1..Len(r) : OfOthers(r[a])
           Fine == {k \in 0..N : Good(left[k], k)}
<1>2. N \in Nat
  OBVIOUS
<1>3. \A i \in 0..N : left[i] = LeftAfter(left, frames, i)
  BY <1>1
<1>4. 0 \in Fine
  <2> DEFINE e == <<>>
             h == [a \in 1..0 |-> 1]
  <2>1. left[0] = e
    BY <1>2, <1>3 DEF LeftAfter
  <2>2. Len(e) = 0 /\ e \in Seq(S) /\ 1..Len(e) = {}
    OBVIOUS
  <2>3. h \in [{} -> 1..0]
    OBVIOUS
  <2> HIDE DEF e, h
  <2>4. TakenFrom(e, frames, 0)
    BY <2>2, <2>3 DEF TakenFrom
  <2>5. Good(e, 0)
    BY <2>2, <2>4
  <2>6. QED
    BY <1>2, <2>1, <2>5
<1>5. ASSUME NEW k \in 1..N, k - 1 \in Fine
      PROVE  k \in Fine
  <2> DEFINE r == left[k - 1]
  <2>1. Good(r, k - 1)
    BY <1>5
  <2>2. k \in 0..N /\ k # 0 /\ k \in Nat /\ frames[k] \in S
    BY <1>2
  <2>3. left[k] = IF OfOthers(frames[k]) THEN Append(r, frames[k]) ELSE r
    BY <1>3, <2>2 DEF LeftAfter
  <2> HIDE DEF r
  <2>4. CASE OfOthers(frames[k])
    <3> DEFINE t == Append(r, frames[k])
    <3>1. TakenFrom(t, frames, k)
      BY <2>1, TakeNext
    <3>2. t \in Seq(S) /\ Len(t) = Len(r) + 1 /\ t[Len(r) + 1] = frames[k]
          /\ \A a \in 1..Len(r) : t[a] = r[a]
      BY <2>1, <2>2, AppendProperties
    <3>3. Len(r) \in Nat
      BY <2>1
    <3>4. \A a \in 1..Len(t) : OfOthers(t[a])
      <4> HIDE DEF t
      <4>1. \A a \in 1..Len(t) : a \in 1..Len(r) \/ a = Len(r) + 1
        BY <3>2, <3>3
      <4>2. QED
        BY <2>1, <2>4, <3>2, <4>1
    <3>5. QED
      BY <2>2, <2>3, <2>4, <3>1, <3>2, <3>4
  <2>5. CASE ~OfOthers(frames[k])
    <3>1. TakenFrom(r, frames, k)
      BY <2>1, <2>2, SkipNext
    <3>2. QED
      BY <2>1, <2>2, <2>3, <2>5, <3>1
  <2>6. QED
    BY <2>4, <2>5
<1>6. N \in Fine
  <2> HIDE DEF Fine
  <2>1. 0..N \subseteq Fine
    BY <1>2, <1>4, <1>5, UpTo
  <2>2. QED
    BY <1>2, <2>1
<1>7. Good(left[N], N)
  BY <1>6
<1> DEFINE r == OthersAmong(frames)
<1>8. Good(r, N)
  BY <1>1, <1>7
<1> HIDE DEF r
<1>9. PartOf(r, frames)
  BY <1>8 DEF PartOf, TakenFrom
<1>10. QED
  BY <1>8, <1>9 DEF r

-----------------------------------------------------------------------------
\* Types

\* A frame is told from a notification.
LEMMA FrameOrNotice ==
  ASSUME NEW d
  PROVE  /\ d \in Frames => IsResponse(d)
         /\ d \in Notices => ~IsResponse(d)
BY DEF Frames, Notices, IsResponse

\* Everyone that sleeps is woken, and nobody else is moved.
LEMMA Notified ==
  ASSUME NotifyAll, NEW w \in Waiters
  PROVE  pc'[w] = IF pc[w] = "asleep" THEN "look" ELSE pc[w]
BY DEF NotifyAll, Woken

\* The next invoke id is one.
LEMMA NextIdTyped ==
  ASSUME invokeId \in Ids
  PROVE  NextInvokeId \in Ids
<1>1. invokeId + 1 \in Nat
  BY DEF Ids
<1>2. QED
  BY <1>1, ModulusAssumption, Division DEF NextInvokeId, ModulusAssumption, Ids

\* Every reachable state is well typed, and a thread that is to send may.
THEOREM StaysTyped == Spec => []Typed
<1> USE RetriesAssumption, BoundsAssumption, CallersAssumption
    DEF RetriesAssumption, BoundsAssumption, CallersAssumption
<1>1. Init => Typed
  <2>1. 0 \in Ids
    BY ModulusAssumption DEF ModulusAssumption, Ids
  <2>2. QED
    BY <2>1 DEF Init, Typed, TypeOK, SentInv, Waiters
<1>2. Typed /\ [Next]_vars => Typed'
  <2> SUFFICES ASSUME Typed, [Next]_vars PROVE Typed'
    OBVIOUS
  <2> USE DEF Typed, TypeOK, SentInv, Waiters, callerVars, keptVars, networkVars
  <2>1. CASE Serve
    <3>1. PICK d \in requests :
             arriving' = arriving \union {[k |-> d.k, id |-> d.id, sent |-> d.sent]}
      BY <2>1 DEF Serve
    <3>2. [k |-> d.k, id |-> d.id, sent |-> d.sent] \in Frames
      BY DEF Frames
    <3>3. requests' \subseteq requests
      BY <2>1 DEF Serve
    <3>4. QED
      BY <2>1, <3>1, <3>2, <3>3 DEF Serve
  <2>2. CASE Notify
    <3>1. PICK event \in 1..MaxNotices : arriving' = arriving \union {[event |-> event]}
      BY <2>2 DEF Notify
    <3>2. [event |-> event] \in Notices
      BY DEF Notices
    <3>3. QED
      BY <2>2, <3>1, <3>2 DEF Notify, Notices
  <2>3. CASE ReceiveResponse
    <3>1. \A w \in Waiters : pc'[w] = IF pc[w] = "asleep" THEN "look" ELSE pc[w]
      BY <2>3, Notified DEF ReceiveResponse
    <3>2. PICK d \in arriving : /\ IsResponse(d)
                                /\ arriving' = arriving \ {d}
                                /\ responses' = Append(responses, d)
      BY <2>3 DEF ReceiveResponse
    <3>3. d \in Frames
      BY <3>2, FrameOrNotice
    <3>4. responses' \in Seq(Frames)
      BY <3>2, <3>3, AppendProperties DEF Frames
    <3>5. pc' \in [Waiters -> {"idle", "send", "look", "asleep", "lastLook"}]
      BY <2>3, <3>1 DEF ReceiveResponse, NotifyAll
    <3>6. SentInv'
      BY <2>3, <3>1 DEF ReceiveResponse
    <3>7. QED
      BY <2>3, <3>2, <3>4, <3>5, <3>6 DEF ReceiveResponse
  <2>4. CASE ReceiveNotification
    <3>1. \A w \in Waiters : pc'[w] = IF pc[w] = "asleep" THEN "look" ELSE pc[w]
      BY <2>4, Notified DEF ReceiveNotification
    <3>2. PICK d \in arriving : /\ ~IsResponse(d)
                                /\ arriving' = arriving \ {d}
                                /\ notifications' = Append(notifications, d.event)
                                /\ toAnswer' = {d.event}
      BY <2>4 DEF ReceiveNotification
    <3>3. d.event \in 1..MaxNotices
      <4>1. d \in Notices
        BY <3>2, FrameOrNotice
      <4>2. QED
        BY <4>1 DEF Notices
    <3>4. /\ notifications' \in Seq(1..MaxNotices)
          /\ Len(notifications') = Len(notifications) + 1
      BY <3>2, <3>3, AppendProperties
    <3>5. after' \in 0..Len(notifications')
      <4>1. Len(notifications) \in Nat /\ after' = after /\ after \in 0..Len(notifications)
        BY <2>4 DEF ReceiveNotification
      <4>2. QED
        BY <3>4, <4>1
    <3>6. pc' \in [Waiters -> {"idle", "send", "look", "asleep", "lastLook"}]
      BY <2>4, <3>1 DEF ReceiveNotification, NotifyAll
    <3>7. SentInv'
      BY <2>4, <3>1 DEF ReceiveNotification
    <3>8. QED
      BY <2>4, <3>2, <3>3, <3>4, <3>5, <3>6, <3>7 DEF ReceiveNotification
  <2>5. CASE AnswerNotification
    BY <2>5 DEF AnswerNotification
  <2>6. ASSUME NEW c \in Callers, Request(c)
        PROVE  Typed'
    <3>1. NextInvokeId \in Ids
      BY NextIdTyped
    <3>2. made' \in Seq(Callers) /\ Len(made') = Len(made) + 1 /\ Len(made') \in 1..MaxRequests
      <4>1. made' = Append(made, c) /\ Len(made) < MaxRequests
        BY <2>6 DEF Request
      <4>2. made \in Seq(Callers) /\ Len(made) \in Nat /\ MaxRequests \in Nat
        OBVIOUS
      <4>3. QED
        BY <4>1, <4>2, AppendProperties
    <3>3. responses' \in Seq(Frames)
      BY <2>6, OthersArePart DEF Request
    <3>4. requests' \subseteq requests /\ arriving' \subseteq arriving
      BY <2>6 DEF Request
    <3>5. current' \in [Callers -> [k : 0..MaxRequests, id : Ids]]
      <4>1. [k |-> Len(made'), id |-> NextInvokeId] \in [k : 0..MaxRequests, id : Ids]
        BY <3>1, <3>2
      <4>2. current' = [current EXCEPT ![c] = [k |-> Len(made'), id |-> NextInvokeId]]
        BY <2>6 DEF Request
      <4>3. QED
        BY <4>1, <4>2
    <3>6. SentInv'
      BY <2>6 DEF Request
    <3>7. QED
      BY <2>6, <3>1, <3>2, <3>3, <3>4, <3>5, <3>6 DEF Request
  <2>7. ASSUME NEW c \in Callers, Send(c)
        PROVE  Typed'
    <3> DEFINE d == [k |-> current[c].k, id |-> current[c].id, sent |-> sent[c] + 1]
    <3>1. sent' = [sent EXCEPT ![c] = @ + 1] /\ sent[c] + 1 \in 1..(1 + Retries)
      BY <2>7 DEF Send
    <3>1a. current[c].k \in 1..MaxRequests /\ current[c].id \in Ids
      BY <2>7 DEF Send
    <3>2. requests' = requests \union {d} /\ d \in Frames
      <4>1. requests' = requests \union {d}
        BY <2>7, <3>1 DEF Send
      <4>2. QED
        BY <3>1, <3>1a, <4>1 DEF Frames
    <3>3. SentInv'
      BY <2>7 DEF Send
    <3> HIDE DEF d
    <3>4. QED
      BY <2>7, <3>1, <3>2, <3>3 DEF Send
  <2>8. ASSUME NEW c \in Callers, TakeResponse(c)
        PROVE  Typed'
    <3>1. PICK i \in 1..Len(responses) : /\ responses' = Without(i)
                                         /\ answer' = [answer EXCEPT ![c] = responses[i].k]
      <4>1. DOMAIN responses = 1..Len(responses)
        BY LenProperties
      <4>2. QED
        BY <2>8, <4>1 DEF TakeResponse
    <3>2. responses' \in Seq(Frames)
      BY <3>1, WithoutIsPart DEF Frames
    <3>3. responses[i].k \in 0..MaxRequests
      <4>1. responses[i] \in Frames
        OBVIOUS
      <4>2. QED
        BY <4>1 DEF Frames
    <3>4. SentInv'
      BY <2>8 DEF TakeResponse
    <3>5. QED
      BY <2>8, <3>1, <3>2, <3>3, <3>4 DEF TakeResponse
  <2>9. ASSUME NEW w \in Waiters, Sleep(w) \/ Expire(w)
        PROVE  Typed'
    BY <2>9 DEF Sleep, Expire
  <2>10. ASSUME NEW c \in Callers, AttemptFails(c)
         PROVE  Typed'
    <3>1. CASE Spent(c)
      <4>1. pc' = [pc EXCEPT ![c] = "idle"] /\ sent' = [sent EXCEPT ![c] = 0]
        BY <2>10, <3>1 DEF AttemptFails
      <4>2. QED
        BY <2>10, <4>1 DEF AttemptFails
    <3>2. CASE ~Spent(c)
      <4>1. pc' = [pc EXCEPT ![c] = "send"] /\ sent' = sent /\ sent[c] <= Retries
        BY <2>10, <3>2 DEF AttemptFails, Spent
      <4>2. pc[c] # "idle"
        BY <2>10 DEF AttemptFails
      <4>3. QED
        BY <2>10, <4>1, <4>2 DEF AttemptFails
    <3>3. QED
      BY <3>1, <3>2
  <2>11. CASE Watch
    BY <2>11 DEF Watch
  <2>12. CASE StopWatching
    BY <2>12 DEF StopWatching
  <2>13. CASE UNCHANGED vars
    BY <2>13 DEF vars
  <2>14. QED
    BY <2>1, <2>2, <2>3, <2>4, <2>5, <2>6, <2>7, <2>8, <2>9, <2>10, <2>11, <2>12, <2>13
       DEF Next, Thread, Caller, Watching
<1>3. QED
  BY <1>1, <1>2, PTL DEF Spec

\* The variables of the lock, the lists and the callers stay in their types,
\* for every number of invoke ids, retries and calling threads.
THEOREM TypeCorrect == Spec => []TypeOK
BY StaysTyped, PTL DEF Typed

-----------------------------------------------------------------------------
\* Nobody sleeps through what it waits for

\* What is in a part of the list was in the list.
LEMMA PartArrives ==
  ASSUME TypeOK, responses' \in Seq(Frames), PartOf(responses', responses),
         NEW c \in Callers, current'[c] = current[c], Arrived(c)'
  PROVE  Arrived(c)
<1>1. c # Watcher
  BY CallersAssumption DEF CallersAssumption
<1>2. /\ DOMAIN responses = 1..Len(responses)
      /\ DOMAIN responses' = 1..Len(responses')
  BY LenProperties DEF TypeOK
<1>3. PICK a \in 1..Len(responses') : responses'[a].id = current[c].id
  BY <1>1, <1>2 DEF Arrived, Matches
<1>4. PICK i \in 1..Len(responses) : responses'[a] = responses[i]
  BY DEF PartOf
<1>5. QED
  BY <1>1, <1>2, <1>3, <1>4 DEF Arrived, Matches

\* A thread whose wait is still for the same sleeps on rightly.
LEMMA SleepsOn ==
  ASSUME NoLostWakeup, NEW w \in Waiters, pc'[w] = "asleep", pc[w] = "asleep",
         Arrived(w)' => Arrived(w)
  PROVE  ~Arrived(w)'
BY DEF NoLostWakeup

\* No thread sleeps while what it waits for has arrived.
THEOREM NothingSleptThrough == Spec => []NoLostWakeup
<1>1. Init => NoLostWakeup
  BY DEF Init, NoLostWakeup
<1>2. Typed /\ Typed' /\ NoLostWakeup /\ [Next]_vars => NoLostWakeup'
  <2> SUFFICES ASSUME Typed, Typed', NoLostWakeup, [Next]_vars,
                      NEW w \in Waiters, pc'[w] = "asleep"
               PROVE  ~Arrived(w)'
    BY DEF NoLostWakeup, Waiters
  <2> USE CallersAssumption DEF CallersAssumption, callerVars, keptVars, networkVars
  <2>1. CASE UNCHANGED <<responses, current, after, notifications>> /\ pc[w] = "asleep"
    <3>1. Arrived(w)' = Arrived(w)
      BY <2>1 DEF Arrived, Matches
    <3>2. QED
      BY <2>1, <3>1, SleepsOn
  <2>2. CASE Serve \/ Notify \/ AnswerNotification \/ UNCHANGED vars
    BY <2>1, <2>2 DEF Serve, Notify, AnswerNotification, vars
  <2>3. CASE ReceiveResponse \/ ReceiveNotification
    BY <2>3, Notified DEF ReceiveResponse, ReceiveNotification
  <2>4. ASSUME NEW c \in Callers, Request(c)
        PROVE  ~Arrived(w)'
    <3>1. pc' = [pc EXCEPT ![c] = "send"] /\ pc \in [Waiters -> {"idle", "send", "look", "asleep", "lastLook"}]
      BY <2>4 DEF Request, Typed, TypeOK
    <3>2. w # c /\ pc[w] = "asleep"
      BY <3>1 DEF Waiters
    <3>3. CASE w = Watcher
      BY <2>4, <3>2, <3>3, SleepsOn DEF Request, Arrived
    <3>4. CASE w # Watcher
      <4>1. w \in Callers /\ current'[w] = current[w]
        BY <2>4, <3>2, <3>4 DEF Request, Waiters, Typed, TypeOK
      <4>2. responses' \in Seq(Frames) /\ PartOf(responses', responses)
        BY <2>4, OthersArePart DEF Request, Typed, TypeOK
      <4>3. QED
        BY <3>2, <4>1, <4>2, PartArrives, SleepsOn DEF Typed
    <3>5. QED
      BY <3>3, <3>4
  <2>5. ASSUME NEW c \in Callers, Send(c) \/ AttemptFails(c)
        PROVE  ~Arrived(w)'
    <3>1. c \in Waiters /\ pc \in [Waiters -> {"idle", "send", "look", "asleep", "lastLook"}]
      BY DEF Waiters, Typed, TypeOK
    <3>2. pc[w] = "asleep"
      BY <2>5, <3>1 DEF Send, AttemptFails
    <3>3. QED
      BY <2>1, <2>5, <3>2 DEF Send, AttemptFails
  <2>6. ASSUME NEW c \in Callers, TakeResponse(c)
        PROVE  ~Arrived(w)'
    <3>1. pc' = [pc EXCEPT ![c] = "idle"] /\ pc \in [Waiters -> {"idle", "send", "look", "asleep", "lastLook"}]
      BY <2>6 DEF TakeResponse, Typed, TypeOK
    <3>2. w # c /\ pc[w] = "asleep"
      BY <3>1 DEF Waiters
    <3>3. CASE w = Watcher
      BY <2>6, <3>2, <3>3, SleepsOn DEF TakeResponse, Arrived
    <3>4. CASE w # Watcher
      <4>1. w \in Callers /\ current'[w] = current[w]
        BY <2>6, <3>4 DEF TakeResponse, Waiters
      <4>2. DOMAIN responses = 1..Len(responses) /\ responses \in Seq(Frames)
        BY LenProperties DEF Typed, TypeOK
      <4>3. PICK i \in 1..Len(responses) : responses' = Without(i)
        BY <2>6, <4>2 DEF TakeResponse
      <4>4. responses' \in Seq(Frames) /\ PartOf(responses', responses)
        BY <4>2, <4>3, WithoutIsPart
      <4>5. QED
        BY <3>2, <4>1, <4>4, PartArrives, SleepsOn DEF Typed
    <3>5. QED
      BY <3>3, <3>4
  <2>7. ASSUME NEW v \in Waiters, Sleep(v) \/ Expire(v)
        PROVE  ~Arrived(w)'
    <3>1. pc \in [Waiters -> {"idle", "send", "look", "asleep", "lastLook"}]
      BY DEF Typed, TypeOK
    <3>2. Arrived(w)' = Arrived(w)
      BY <2>7 DEF Sleep, Expire, Arrived, Matches
    <3>3. CASE pc[w] = "asleep"
      BY <3>2, <3>3, SleepsOn
    <3>4. CASE pc[w] # "asleep"
      BY <2>7, <3>1, <3>2, <3>4 DEF Sleep, Expire
    <3>5. QED
      BY <3>3, <3>4
  <2>8. CASE Watch \/ StopWatching
    <3>1. Watcher \in Waiters /\ pc \in [Waiters -> {"idle", "send", "look", "asleep", "lastLook"}]
      BY DEF Waiters, Typed, TypeOK
    <3>2. w # Watcher /\ pc[w] = "asleep"
      BY <2>8, <3>1 DEF Watch, StopWatching
    <3>3. Arrived(w)' = Arrived(w)
      BY <2>8, <3>2 DEF Watch, StopWatching, Arrived, Matches
    <3>4. QED
      BY <3>2, <3>3, SleepsOn
  <2>9. QED
    BY <2>2, <2>3, <2>4, <2>5, <2>6, <2>7, <2>8 DEF Next, Thread, Caller, Watching, Waiters
<1>3. QED
  BY <1>1, <1>2, StaysTyped, PTL DEF Spec

-----------------------------------------------------------------------------
\* Requests and invoke ids

\* What is younger than a round of invoke ids is the last with its own.
LEMMA InTimeIsLatest ==
  ASSUME NEW n \in Nat, NEW d, InTime(d, n)
  PROVE  Latest(d, n)
<1> USE ModulusAssumption, MaxAgeAssumption DEF ModulusAssumption, MaxAgeAssumption
<1>1. d.k \in Nat /\ n < d.k + Modulus
  BY DEF InTime
<1>2. ASSUME NEW m \in 1..n, d.k < m
      PROVE  m % Modulus # d.id
  <2>1. m \in Nat /\ d.k <= m /\ m < d.k + Modulus /\ d.k # m
    BY <1>1, <1>2
  <2>2. d.k % Modulus # m % Modulus
    BY <1>1, <2>1, SameIdSameRequest
  <2>3. QED
    BY <2>2 DEF InTime
<1>3. QED
  BY <1>2 DEF InTime, Latest

\* What stays under way when one more request is made.
LEMMA YoungIsInTime ==
  ASSUME Len(made) \in Nat,
         NEW d, InTime(d, Len(made)), IsResponse(d), Young(d)
  PROVE  InTime(d, Len(made) + 1)
BY MaxAgeAssumption, ModulusAssumption
   DEF InTime, Young, MaxAgeAssumption, ModulusAssumption

\* The invoke id of one more request.
LEMMA NextNumber ==
  ASSUME Len(made) \in Nat, invokeId = Len(made) % Modulus
  PROVE  NextInvokeId = (Len(made) + 1) % Modulus
BY ModulusAssumption, NextId DEF ModulusAssumption, NextInvokeId

\* An answer kept under another invoke id is the last with its own still.
LEMMA OtherStaysLatest ==
  ASSUME NEW n \in Nat, NEW d, Latest(d, n), d.id # (n + 1) % Modulus
  PROVE  Latest(d, n + 1)
<1>1. \A m \in 1..(n + 1) : m \in 1..n \/ m = n + 1
  OBVIOUS
<1>2. QED
  BY <1>1 DEF Latest

\* Every reachable state satisfies the part of the inductive invariant that
\* relates invoke ids to requests.
THEOREM Numbered == Spec => []NumberInv
<1>1. Init => NumberInv
  <2>1. Len(<<>>) = 0 /\ 0 % Modulus = 0
    BY ModulusAssumption DEF ModulusAssumption
  <2>2. QED
    BY <2>1 DEF Init, NumberInv, Waiters
<1>2. Typed /\ Typed' /\ NumberInv /\ [Next]_vars => NumberInv'
  <2> SUFFICES ASSUME Typed, Typed', NumberInv, [Next]_vars PROVE NumberInv'
    OBVIOUS
  <2> USE DEF callerVars, keptVars, networkVars
  <2>1. /\ made \in Seq(Callers) /\ Len(made) \in Nat
        /\ pc \in [Waiters -> {"idle", "send", "look", "asleep", "lastLook"}]
        /\ Callers \subseteq Waiters
        /\ DOMAIN responses = 1..Len(responses)
        /\ responses \in Seq(Frames)
    BY LenProperties DEF Typed, TypeOK, Waiters
  <2>2. CASE Serve
    <3>1. PICK d \in requests :
             arriving' = arriving \union {[k |-> d.k, id |-> d.id, sent |-> d.sent]}
      BY <2>2 DEF Serve
    <3>2. InTime([k |-> d.k, id |-> d.id, sent |-> d.sent], Len(made))
      BY DEF NumberInv, InTime
    <3>3. QED
      BY <2>2, <3>1, <3>2 DEF Serve, NumberInv, InTime, Latest, Own
  <2>3. CASE Notify
    <3>1. PICK event \in 1..MaxNotices : arriving' = arriving \union {[event |-> event]}
      BY <2>3 DEF Notify
    <3>2. ~IsResponse([event |-> event])
      BY DEF IsResponse
    <3>3. QED
      BY <2>3, <3>1, <3>2 DEF Notify, NumberInv, InTime, Latest, Own
  <2>4. CASE ReceiveResponse
    <3>1. PICK d \in arriving : /\ IsResponse(d)
                                /\ arriving' = arriving \ {d}
                                /\ responses' = Append(responses, d)
      BY <2>4 DEF ReceiveResponse
    <3>2. Latest(d, Len(made))
      BY <2>1, <3>1, InTimeIsLatest DEF NumberInv
    <3>3. d \in Frames
      BY <3>1, FrameOrNotice DEF Typed, TypeOK
    <3>4. \A i \in 1..Len(responses') : Latest(responses'[i], Len(made))
      BY <2>1, <3>1, <3>2, <3>3, AppendProperties DEF NumberInv
    <3>5. \A w \in Callers : pc'[w] # "idle" => pc[w] # "idle"
      BY <2>1, <2>4, Notified DEF ReceiveResponse
    <3>6. QED
      BY <2>4, <3>1, <3>4, <3>5 DEF ReceiveResponse, NumberInv, InTime, Latest, Own
  <2>5. CASE ReceiveNotification
    <3>1. arriving' \subseteq arriving
      BY <2>5 DEF ReceiveNotification
    <3>2. \A w \in Callers : pc'[w] # "idle" => pc[w] # "idle"
      BY <2>1, <2>5, Notified DEF ReceiveNotification
    <3>3. QED
      BY <2>5, <3>1, <3>2 DEF ReceiveNotification, NumberInv, InTime, Latest, Own
  <2>6. ASSUME NEW c \in Callers, Request(c)
        PROVE  NumberInv'
    <3>1. /\ made' = Append(made, c)
          /\ invokeId' = NextInvokeId
          /\ current' = [current EXCEPT ![c] = [k |-> Len(made'), id |-> NextInvokeId]]
          /\ pc' = [pc EXCEPT ![c] = "send"]
          /\ requests' = {d \in requests : Young(d)}
          /\ arriving' = {d \in arriving : Young(d)}
          /\ answer' = answer
          /\ pc[c] = "idle"
          /\ \A other \in Callers : pc[other] # "idle" => Young(current[other])
      BY <2>6 DEF Request
    <3>2. /\ Len(made') = Len(made) + 1 /\ made'[Len(made) + 1] = c
          /\ \A m \in 1..Len(made) : made'[m] = made[m]
      BY <2>1, <3>1, AppendProperties
    <3>3. invokeId' = Len(made') % Modulus
      BY <2>1, <3>1, <3>2, NextNumber DEF NumberInv
    <3>4. \A d \in requests' : InTime(d, Len(made'))
      <4>1. \A d \in requests : IsResponse(d)
        BY FrameOrNotice DEF Typed, TypeOK
      <4>2. QED
        BY <2>1, <3>1, <3>2, <4>1, YoungIsInTime DEF NumberInv
    <3>5. \A d \in arriving' : IsResponse(d) => InTime(d, Len(made'))
      BY <2>1, <3>1, <3>2, YoungIsInTime DEF NumberInv
    <3>6. \A i \in 1..Len(responses') : Latest(responses'[i], Len(made'))
      <4> DEFINE r == OthersAmong(responses)
      <4>1. PartOf(r, responses) /\ \A a \in 1..Len(r) : OfOthers(r[a])
        BY <2>1, OthersArePart
      <4>2. responses' = r
        BY <2>6 DEF Request
      <4> HIDE DEF r
      <4>3. ASSUME NEW a \in 1..Len(r) PROVE Latest(r[a], Len(made) + 1)
        <5>1. PICK i \in 1..Len(responses) : r[a] = responses[i]
          BY <4>1 DEF PartOf
        <5>2. Latest(r[a], Len(made))
          BY <5>1 DEF NumberInv
        <5>3. r[a].id # (Len(made) + 1) % Modulus
          BY <2>1, <4>1, NextNumber DEF OfOthers, NumberInv
        <5>4. QED
          BY <2>1, <5>2, <5>3, OtherStaysLatest
      <4>4. QED
        BY <3>2, <4>2, <4>3
    <3>7. ASSUME NEW b \in Callers, pc'[b] # "idle"
          PROVE  InTime(current'[b], Len(made')) /\ Own(b)'
      <4>1. CASE b = c
        <5>1. current'[b] = [k |-> Len(made) + 1, id |-> NextInvokeId]
          BY <3>1, <3>2, <4>1 DEF Typed, TypeOK
        <5>2. InTime(current'[b], Len(made'))
          BY <2>1, <3>1, <3>2, <3>3, <5>1, MaxAgeAssumption, ModulusAssumption
             DEF InTime, MaxAgeAssumption, ModulusAssumption
        <5>3. Own(b)'
          BY <2>1, <3>2, <4>1, <5>1 DEF Own
        <5>4. QED
          BY <5>2, <5>3
      <4>2. CASE b # c
        <5>1. current'[b] = current[b] /\ pc[b] # "idle"
          BY <2>1, <3>1, <3>7, <4>2 DEF Typed, TypeOK
        <5>2. InTime(current[b], Len(made)) /\ Own(b) /\ Young(current[b])
          BY <3>1, <5>1 DEF NumberInv
        <5>3. IsResponse(current[b])
          BY DEF IsResponse, Typed, TypeOK
        <5>4. InTime(current'[b], Len(made'))
          BY <2>1, <3>2, <5>1, <5>2, <5>3, YoungIsInTime
        <5>5. \A m \in 1..Len(made') : m \in 1..Len(made) \/ m = Len(made) + 1
          BY <2>1, <3>2
        <5>6. Own(b)'
          BY <2>1, <3>2, <4>2, <5>1, <5>2, <5>5 DEF Own, InTime
        <5>7. QED
          BY <5>4, <5>6
      <4>3. QED
        BY <4>1, <4>2
    <3>8. \A b \in Callers : answer'[b] <= Len(made')
      BY <2>1, <3>1, <3>2 DEF NumberInv, Typed, TypeOK
    <3>9. QED
      BY <3>3, <3>4, <3>5, <3>6, <3>7, <3>8 DEF NumberInv
  <2>7. ASSUME NEW c \in Callers, Send(c)
        PROVE  NumberInv'
    <3>1. /\ pc[c] = "send" /\ pc' = [pc EXCEPT ![c] = "look"]
          /\ requests' = requests \union {[k |-> current[c].k, id |-> current[c].id, sent |-> sent'[c]]}
      BY <2>7 DEF Send
    <3>2. InTime([k |-> current[c].k, id |-> current[c].id, sent |-> sent'[c]], Len(made))
      BY <3>1 DEF NumberInv, InTime
    <3>3. \A b \in Callers : pc'[b] # "idle" => pc[b] # "idle"
      BY <2>1, <3>1
    <3>4. QED
      BY <2>7, <3>1, <3>2, <3>3 DEF Send, NumberInv, InTime, Latest, Own
  <2>8. ASSUME NEW c \in Callers, TakeResponse(c)
        PROVE  NumberInv'
    <3>1. PICK i \in 1..Len(responses) : /\ responses' = Without(i)
                                         /\ answer' = [answer EXCEPT ![c] = responses[i].k]
      BY <2>1, <2>8 DEF TakeResponse
    <3>2. PartOf(responses', responses)
      BY <2>1, <3>1, WithoutIsPart
    <3>3. \A a \in 1..Len(responses') : Latest(responses'[a], Len(made))
      BY <3>2 DEF NumberInv, PartOf
    <3>4. \A b \in Callers : answer'[b] <= Len(made)
      BY <3>1 DEF NumberInv, Latest, Typed, TypeOK
    <3>5. \A b \in Callers : pc'[b] # "idle" => pc[b] # "idle"
      BY <2>1, <2>8 DEF TakeResponse
    <3>6. QED
      BY <2>8, <3>3, <3>4, <3>5 DEF TakeResponse, NumberInv, InTime, Latest, Own
  <2>9. ASSUME NEW w \in Waiters, Sleep(w) \/ Expire(w)
        PROVE  NumberInv'
    <3>1. \A b \in Callers : pc'[b] # "idle" => pc[b] # "idle"
      BY <2>1, <2>9 DEF Sleep, Expire
    <3>2. QED
      BY <2>9, <3>1 DEF Sleep, Expire, NumberInv, InTime, Latest, Own
  <2>10. ASSUME NEW c \in Callers, AttemptFails(c)
         PROVE  NumberInv'
    <3>1. \A b \in Callers : pc'[b] # "idle" => pc[b] # "idle"
      BY <2>1, <2>10 DEF AttemptFails
    <3>2. QED
      BY <2>10, <3>1 DEF AttemptFails, NumberInv, InTime, Latest, Own
  <2>11. CASE Watch \/ StopWatching
    <3>1. \A b \in Callers : pc'[b] = pc[b]
      BY <2>1, <2>11, CallersAssumption DEF Watch, StopWatching, CallersAssumption
    <3>2. QED
      BY <2>11, <3>1 DEF Watch, StopWatching, NumberInv, InTime, Latest, Own
  <2>12. CASE AnswerNotification \/ UNCHANGED vars
    BY <2>12 DEF AnswerNotification, vars, NumberInv, InTime, Latest, Own
  <2>13. QED
    BY <2>2, <2>3, <2>4, <2>5, <2>6, <2>7, <2>8, <2>9, <2>10, <2>11, <2>12
       DEF Next, Thread, Caller, Watching, Waiters
<1>3. QED
  BY <1>1, <1>2, StaysTyped, PTL DEF Spec

-----------------------------------------------------------------------------
\* No frame is in two places

\* A frame is what its fields say.
LEMMA FrameFields ==
  ASSUME NEW d \in Frames
  PROVE  d = [k |-> d.k, id |-> d.id, sent |-> d.sent]
BY DEF Frames

\* Every reachable state satisfies the part of the inductive invariant that
\* keeps resends apart.
THEOREM Single == Spec => []SingleInv
<1>1. Init => SingleInv
  <2>1. Len(<<>>) = 0
    OBVIOUS
  <2>2. QED
    BY <2>1 DEF Init, SingleInv, Before
<1>2. Typed /\ Typed' /\ NumberInv /\ SingleInv /\ [Next]_vars => SingleInv'
  <2> SUFFICES ASSUME Typed, Typed', NumberInv, SingleInv, [Next]_vars PROVE SingleInv'
    OBVIOUS
  <2> USE DEF callerVars, keptVars, networkVars
  <2>1. /\ pc \in [Waiters -> {"idle", "send", "look", "asleep", "lastLook"}]
        /\ Callers \subseteq Waiters
        /\ DOMAIN responses = 1..Len(responses)
        /\ responses \in Seq(Frames) /\ Len(responses) \in Nat
        /\ requests \subseteq Frames
        /\ sent \in [Callers -> 0..(1 + Retries)]
        /\ current \in [Callers -> [k : 0..MaxRequests, id : Ids]]
    BY LenProperties DEF Typed, TypeOK, Waiters
  <2>2. CASE Serve
    <3>1. PICK d \in requests :
             /\ requests' = requests \ {d}
             /\ arriving' = arriving \union {[k |-> d.k, id |-> d.id, sent |-> d.sent]}
      BY <2>2 DEF Serve
    <3>2. arriving' = arriving \union {d}
      BY <2>1, <3>1, FrameFields
    <3>3. QED
      BY <2>2, <3>1, <3>2 DEF Serve, SingleInv, Before
  <2>3. CASE Notify
    <3>1. PICK event \in 1..MaxNotices : arriving' = arriving \union {[event |-> event]}
      BY <2>3 DEF Notify
    <3> DEFINE e == [event |-> event]
    <3>2. ~IsResponse(e)
      BY DEF IsResponse
    <3>3. e \notin Frames
      BY <3>2, FrameOrNotice
    <3> HIDE DEF e
    <3>4. e \notin requests /\ \A i \in 1..Len(responses) : responses[i] # e
      BY <2>1, <3>3
    <3>5. arriving' = arriving \union {e}
      BY <3>1 DEF e
    <3>6. QED
      BY <2>3, <3>2, <3>4, <3>5 DEF Notify, SingleInv, Before
  <2>4. CASE ReceiveResponse
    <3>1. PICK d \in arriving : /\ IsResponse(d)
                                /\ arriving' = arriving \ {d}
                                /\ responses' = Append(responses, d)
      BY <2>4 DEF ReceiveResponse
    <3>2. d \in Frames
      BY <3>1, FrameOrNotice DEF Typed, TypeOK
    <3>3. /\ Len(responses') = Len(responses) + 1
          /\ responses'[Len(responses) + 1] = d
          /\ \A i \in 1..Len(responses) : responses'[i] = responses[i]
      BY <2>1, <3>1, <3>2, AppendProperties
    <3>4. \A i \in 1..Len(responses') : i \in 1..Len(responses) \/ i = Len(responses) + 1
      BY <2>1, <3>3
    <3>5. \A b \in Callers : pc'[b] # "idle" => pc[b] # "idle"
      BY <2>1, <2>4, Notified DEF ReceiveResponse
    <3>6. UNCHANGED <<requests, sent, current>>
      BY <2>4 DEF ReceiveResponse
    <3>7. requests' \cap arriving' = {}
      BY <3>1, <3>6 DEF SingleInv
    <3>8. \A i \in 1..Len(responses') : responses'[i] \notin requests' \union arriving'
      BY <3>1, <3>3, <3>4, <3>6 DEF SingleInv
    <3>9. \A i, j \in 1..Len(responses') : responses'[i] = responses'[j] => i = j
      BY <3>1, <3>3, <3>4 DEF SingleInv
    <3>10. \A b \in Callers :
             /\ \A f \in requests' : Before(b, f)'
             /\ \A f \in arriving' : IsResponse(f) => Before(b, f)'
      BY <3>1, <3>5, <3>6 DEF SingleInv, Before
    <3>11. ASSUME NEW b \in Callers, NEW i \in 1..Len(responses')
           PROVE  Before(b, responses[i])'
      BY <3>1, <3>3, <3>4, <3>5, <3>6 DEF SingleInv, Before
    <3>12. QED
      BY <3>7, <3>8, <3>9, <3>10, <3>11 DEF SingleInv
  <2>5. CASE ReceiveNotification
    <3>1. arriving' \subseteq arriving
      BY <2>5 DEF ReceiveNotification
    <3>2. \A b \in Callers : pc'[b] # "idle" => pc[b] # "idle"
      BY <2>1, <2>5, Notified DEF ReceiveNotification
    <3>3. QED
      BY <2>5, <3>1, <3>2 DEF ReceiveNotification, SingleInv, Before
  <2>6. ASSUME NEW c \in Callers, Request(c)
        PROVE  SingleInv'
    <3>1. /\ made' = Append(made, c)
          /\ current' = [current EXCEPT ![c] = [k |-> Len(made'), id |-> NextInvokeId]]
          /\ pc' = [pc EXCEPT ![c] = "send"]
          /\ requests' \subseteq requests
          /\ arriving' \subseteq arriving
          /\ sent' = sent
      BY <2>6 DEF Request
    <3>2. PartOf(responses', responses)
      BY <2>1, <2>6, OthersArePart DEF Request
    <3>3. PICK h \in [1..Len(responses') -> 1..Len(responses)] :
             /\ \A a, b \in 1..Len(responses') : h[a] = h[b] => a = b
             /\ \A a \in 1..Len(responses') : responses'[a] = responses[h[a]]
      BY <3>2 DEF PartOf
    <3>4. Len(made') = Len(made) + 1 /\ Len(made) \in Nat
      BY <3>1, AppendProperties DEF Typed, TypeOK
    <3>5. ASSUME NEW d, d.k \in 1..Len(made), NEW b \in Callers, Before(b, d)
          PROVE  Before(b, d)'
      <4>1. CASE b = c
        <5>1. current'[b].k = Len(made) + 1 /\ d.k # Len(made) + 1
          BY <2>1, <3>1, <3>4, <3>5, <4>1
        <5>2. d.k # current'[b].k
          BY <5>1
        <5>3. QED
          BY <5>2 DEF Before
      <4>2. CASE b # c
        BY <2>1, <3>1, <3>5, <4>2 DEF Before
      <4>3. QED
        BY <4>1, <4>2
    <3>6. \A b \in Callers :
             /\ \A d \in requests' : Before(b, d)'
             /\ \A d \in arriving' : IsResponse(d) => Before(b, d)'
      BY <3>1, <3>5 DEF SingleInv, NumberInv, InTime
    <3>7. ASSUME NEW b \in Callers, NEW a \in 1..Len(responses')
          PROVE  Before(b, responses[a])'
      <4>1. PICK d : d = responses[h[a]]
        OBVIOUS
      <4>2. Before(b, d)'
        BY <3>3, <3>5, <4>1 DEF SingleInv, NumberInv, Latest
      <4>3. QED
        BY <3>3, <4>1, <4>2 DEF Before
    <3>8. \A a \in 1..Len(responses') : responses'[a] \notin requests' \union arriving'
      BY <3>1, <3>3 DEF SingleInv
    <3>9. \A a, b \in 1..Len(responses') : responses'[a] = responses'[b] => a = b
      BY <3>3 DEF SingleInv
    <3>10. requests' \cap arriving' = {}
      BY <3>1 DEF SingleInv
    <3>11. QED
      BY <3>6, <3>7, <3>8, <3>9, <3>10 DEF SingleInv
  <2>7. ASSUME NEW c \in Callers, Send(c)
        PROVE  SingleInv'
    <3>0. PICK d : d = [k |-> current[c].k, id |-> current[c].id, sent |-> sent[c] + 1]
      OBVIOUS
    <3>1. /\ pc[c] = "send" /\ pc' = [pc EXCEPT ![c] = "look"]
          /\ sent' = [sent EXCEPT ![c] = @ + 1]
          /\ UNCHANGED <<current, responses, arriving, made>>
      BY <2>7 DEF Send
    <3>2. sent'[c] = sent[c] + 1 /\ \A b \in Callers : b # c => sent'[b] = sent[b]
      BY <2>1, <3>1
    <3>3. requests' = requests \union {d}
      BY <2>7, <3>0, <3>2 DEF Send
    <3>4. d.k = current[c].k /\ d.sent = sent[c] + 1 /\ IsResponse(d)
      BY <3>0 DEF IsResponse
    <3>5. \A b \in Callers : pc'[b] # "idle" => pc[b] # "idle"
      BY <2>1, <3>1
    <3>6. sent[c] \in Nat
      BY <2>1, RetriesAssumption DEF RetriesAssumption
    <3>7. ASSUME NEW f, Before(c, f) PROVE f # d
      <4>1. ~Before(c, d)
        BY <3>1, <3>4, <3>6 DEF Before
      <4>2. QED
        BY <3>7, <4>1
    <3>8. \A b \in Callers : sent[b] <= sent'[b]
      <4>1. \A b \in Callers : sent[b] \in Nat
        BY <2>1, RetriesAssumption DEF RetriesAssumption
      <4>2. QED
        BY <3>2, <4>1
    <3>9. ASSUME NEW b \in Callers, NEW f \in Frames, Before(b, f)
          PROVE  Before(b, f)'
      <4>1. f.sent \in Int /\ sent[b] \in Int /\ sent'[b] \in Int
        BY <2>1, <3>2, RetriesAssumption DEF Frames, RetriesAssumption
      <4>2. QED
        BY <3>1, <3>5, <3>8, <3>9, <4>1 DEF Before
    <3>10. ASSUME NEW b \in Callers
           PROVE  Before(b, d)'
      <4>1. CASE b = c
        BY <3>2, <3>4, <3>6, <4>1 DEF Before
      <4>2. CASE b # c
        <5>1. pc[b] # "idle" => current[b].k # d.k
          BY <3>1, <3>4, <4>2 DEF NumberInv, Own
        <5>2. QED
          BY <3>1, <3>5, <5>1 DEF Before
      <4>3. QED
        BY <4>1, <4>2
    <3>11. d \notin requests /\ d \notin arriving /\ \A i \in 1..Len(responses) : responses[i] # d
      BY <3>4, <3>7 DEF SingleInv
    <3>12. \A f \in arriving : IsResponse(f) => f \in Frames
      BY FrameOrNotice DEF Typed, TypeOK
    <3>13. \A b \in Callers :
             /\ \A f \in requests' : Before(b, f)'
             /\ \A f \in arriving' : IsResponse(f) => Before(b, f)'
      <4>1. \A b \in Callers :
              /\ \A f \in requests : f \in Frames /\ Before(b, f)
              /\ \A f \in arriving : IsResponse(f) => f \in Frames /\ Before(b, f)
        BY <2>1, <3>12 DEF SingleInv
      <4>2. \A b \in Callers :
              /\ \A f \in requests : Before(b, f)'
              /\ \A f \in arriving : IsResponse(f) => Before(b, f)'
        BY <3>9, <4>1
      <4>3. QED
        BY <3>1, <3>3, <3>10, <4>2
    <3>14. ASSUME NEW b \in Callers, NEW i \in 1..Len(responses)
           PROVE  Before(b, responses[i])'
      <4>1. PICK f \in Frames : f = responses[i] /\ Before(b, f)
        BY <2>1 DEF SingleInv
      <4>2. Before(b, f)'
        BY <3>9, <4>1
      <4>3. QED
        BY <3>1, <4>1, <4>2 DEF Before
    <3>15. QED
      BY <3>1, <3>3, <3>11, <3>13, <3>14 DEF SingleInv
  <2>8. ASSUME NEW c \in Callers, TakeResponse(c)
        PROVE  SingleInv'
    <3>1. PICK i \in 1..Len(responses) : responses' = Without(i)
      BY <2>1, <2>8 DEF TakeResponse
    <3>2. PartOf(responses', responses)
      BY <2>1, <3>1, WithoutIsPart
    <3>3. PICK h \in [1..Len(responses') -> 1..Len(responses)] :
             /\ \A a, b \in 1..Len(responses') : h[a] = h[b] => a = b
             /\ \A a \in 1..Len(responses') : responses'[a] = responses[h[a]]
      BY <3>2 DEF PartOf
    <3>4. /\ pc' = [pc EXCEPT ![c] = "idle"] /\ sent' = [sent EXCEPT ![c] = 0]
          /\ UNCHANGED <<current, requests, arriving>>
      BY <2>8 DEF TakeResponse
    <3>5. \A b \in Callers : pc'[b] # "idle" => pc[b] # "idle" /\ sent'[b] = sent[b]
      BY <2>1, <3>4
    <3>6. \A a \in 1..Len(responses') : responses'[a] \notin requests' \union arriving'
      BY <3>3, <3>4 DEF SingleInv
    <3>7. \A a, b \in 1..Len(responses') : responses'[a] = responses'[b] => a = b
      BY <3>3 DEF SingleInv
    <3>8. requests' \cap arriving' = {}
      BY <3>4 DEF SingleInv
    <3>9. \A b \in Callers :
             /\ \A d \in requests' : Before(b, d)'
             /\ \A d \in arriving' : IsResponse(d) => Before(b, d)'
      BY <3>4, <3>5 DEF SingleInv, Before
    <3>10. ASSUME NEW b \in Callers, NEW a \in 1..Len(responses')
           PROVE  Before(b, responses[a])'
      BY <3>3, <3>4, <3>5 DEF SingleInv, Before
    <3>11. QED
      BY <3>6, <3>7, <3>8, <3>9, <3>10 DEF SingleInv
  <2>9. ASSUME NEW w \in Waiters, Sleep(w) \/ Expire(w)
        PROVE  SingleInv'
    <3>1. \A b \in Callers : pc'[b] # "idle" => pc[b] # "idle"
      BY <2>1, <2>9 DEF Sleep, Expire
    <3>2. QED
      BY <2>9, <3>1 DEF Sleep, Expire, SingleInv, Before
  <2>10. ASSUME NEW c \in Callers, AttemptFails(c)
         PROVE  SingleInv'
    <3>1. \A b \in Callers : pc'[b] # "idle" => pc[b] # "idle" /\ sent'[b] = sent[b]
      BY <2>1, <2>10 DEF AttemptFails
    <3>2. QED
      BY <2>10, <3>1 DEF AttemptFails, SingleInv, Before
  <2>11. CASE Watch \/ StopWatching
    <3>1. \A b \in Callers : pc'[b] = pc[b]
      BY <2>1, <2>11, CallersAssumption DEF Watch, StopWatching, CallersAssumption
    <3>2. QED
      BY <2>11, <3>1 DEF Watch, StopWatching, SingleInv, Before
  <2>12. CASE AnswerNotification \/ UNCHANGED vars
    BY <2>12 DEF AnswerNotification, vars, SingleInv, Before
  <2>13. QED
    BY <2>2, <2>3, <2>4, <2>5, <2>6, <2>7, <2>8, <2>9, <2>10, <2>11, <2>12
       DEF Next, Thread, Caller, Watching, Waiters
<1>3. QED
  BY <1>1, <1>2, StaysTyped, Numbered, PTL DEF Spec

\* Every reachable state satisfies the inductive invariant.
THEOREM Inductive == Spec => []IInv
BY StaysTyped, NothingSleptThrough, Numbered, Single, PTL DEF IInv

-----------------------------------------------------------------------------
\* What it says of the answers that are kept

\* Two answers kept under one invoke id are for one request, and then for two
\* of its resends.
LEMMA SameIdSameKept ==
  ASSUME IInv, NEW i \in 1..Len(responses), NEW j \in 1..Len(responses),
         responses[i].id = responses[j].id
  PROVE  /\ responses[i].k = responses[j].k
         /\ responses[i].sent = responses[j].sent => i = j
<1>1. Latest(responses[i], Len(made)) /\ Latest(responses[j], Len(made))
  BY DEF IInv, NumberInv
<1>2. responses[i] \in Frames /\ responses[j] \in Frames /\ Len(made) \in Nat
  BY DEF IInv, Typed, TypeOK
<1>3. responses[i].k = responses[j].k
  <2>1. responses[i].k \in 1..Len(made) /\ responses[j].k \in 1..Len(made)
    BY <1>1 DEF Latest
  <2>2. ~(responses[i].k < responses[j].k) /\ ~(responses[j].k < responses[i].k)
    BY <1>1, <2>1 DEF Latest
  <2>3. QED
    BY <1>2, <2>1, <2>2
<1>4. ASSUME responses[i].sent = responses[j].sent PROVE i = j
  <2>1. responses[i] = responses[j]
    BY <1>2, <1>3, <1>4, FrameFields
  <2>2. QED
    BY <2>1 DEF IInv, SingleInv
<1>5. QED
  BY <1>3, <1>4

\* What nobody takes stays bounded: one answer for each time that the last
\* request with an invoke id was sent.
THEOREM KeptBounded == Spec => []LeftoversBounded
<1>1. IInv => LeftoversBounded
  <2> SUFFICES ASSUME IInv, NEW id \in Ids
               PROVE  Cardinality({i \in DOMAIN responses : responses[i].id = id}) <= 1 + Retries
    BY DEF LeftoversBounded
  <2> DEFINE D == {i \in DOMAIN responses : responses[i].id = id}
             T == 1..(1 + Retries)
             f == [i \in D |-> responses[i].sent]
  <2>1. DOMAIN responses = 1..Len(responses)
    BY LenProperties DEF IInv, Typed, TypeOK
  <2>2. \A i \in D : responses[i].sent \in T
    <3>1. \A i \in D : responses[i] \in Frames
      BY <2>1 DEF IInv, Typed, TypeOK
    <3>2. QED
      BY <3>1 DEF Frames
  <2>3. f \in [D -> T]
    BY <2>2
  <2>4. \A i, j \in D : responses[i].sent = responses[j].sent => i = j
    BY <2>1, SameIdSameKept
  <2>5. f \in Injection(D, T)
    <3>1. \A i, j \in DOMAIN f : f[i] = f[j] => i = j
      BY <2>4
    <3> HIDE DEF D, T, f
    <3>2. QED
      BY <2>3, <3>1 DEF Injection, IsInjective
  <2>6. IsFiniteSet(T) /\ Cardinality(T) = 1 + Retries
    BY RetriesAssumption, FS_Interval DEF RetriesAssumption
  <2> HIDE DEF D, T, f
  <2>7. Cardinality(D) <= Cardinality(T)
    BY <2>5, <2>6, FS_Injection
  <2>8. QED
    BY <2>6, <2>7 DEF D
<1>2. QED
  BY <1>1, Inductive, PTL

-----------------------------------------------------------------------------
\* What request() is to each of the threads

\* One more request counts for the thread that makes it.
LEMMA OneMoreRequest ==
  ASSUME made \in Seq(Callers), NEW c \in Callers, made' = Append(made, c), NEW b \in Callers
  PROVE  /\ \A k \in 0..Len(made) : RequestsOf(b, k)' = RequestsOf(b, k)
         /\ RequestsOf(b, Len(made))' = RequestsOf(b, Len(made)) + (IF b = c THEN 1 ELSE 0)
<1>1. /\ Len(made') = Len(made) + 1 /\ made'[Len(made) + 1] = c
      /\ \A m \in 1..Len(made) : made'[m] = made[m]
      /\ Len(made) \in Nat
  BY AppendProperties
<1>2. ASSUME NEW k \in 0..Len(made)
      PROVE  {j \in 1..k : made'[j] = b} = {j \in 1..k : made[j] = b}
  BY <1>1
<1> DEFINE A == {j \in 1..Len(made) : made[j] = b}
           B == {j \in 1..Len(made') : made'[j] = b}
<1>3. IsFiniteSet(A) /\ Cardinality(A) \in Nat /\ Len(made) + 1 \notin A
  <2>1. IsFiniteSet(1..Len(made)) /\ A \in SUBSET (1..Len(made))
    BY <1>1, FS_Interval
  <2>2. IsFiniteSet(A)
    BY <2>1, FS_Subset
  <2>3. QED
    BY <1>1, <2>2, FS_CardinalityType
<1>4. B = IF b = c THEN A \union {Len(made) + 1} ELSE A
  <2>1. \A m : m \in 1..Len(made') <=> m \in 1..Len(made) \/ m = Len(made) + 1
    BY <1>1
  <2>2. QED
    BY <1>1, <2>1
<1> HIDE DEF A, B
<1>5. Cardinality(B) = Cardinality(A) + (IF b = c THEN 1 ELSE 0)
  <2>1. CASE b = c
    <3>1. Cardinality(A \union {Len(made) + 1}) = Cardinality(A) + 1
      BY <1>3, FS_AddElement
    <3>2. QED
      BY <1>4, <2>1, <3>1
  <2>2. CASE b # c
    BY <1>3, <1>4, <2>2
  <2>3. QED
    BY <2>1, <2>2
<1>6. QED
  BY <1>2, <1>5 DEF RequestsOf, A, B

\* No thread has made more requests than were made.
LEMMA RequestsBounded ==
  ASSUME made \in Seq(Callers), NEW b \in Callers
  PROVE  RequestsOf(b, Len(made)) \in 0..Len(made)
<1> DEFINE A == {j \in 1..Len(made) : made[j] = b}
<1>1. Len(made) \in Nat
  OBVIOUS
<1>2. IsFiniteSet(1..Len(made)) /\ Cardinality(1..Len(made)) = Len(made)
  BY <1>1, FS_Interval
<1>3. A \in SUBSET (1..Len(made))
  OBVIOUS
<1> HIDE DEF A
<1>4. IsFiniteSet(A) /\ Cardinality(A) <= Len(made)
  BY <1>2, <1>3, FS_Subset
<1>5. QED
  BY <1>1, <1>4, FS_CardinalityType DEF RequestsOf, A

\* An answer that is taken is for the request that its thread waits for.
LEMMA TakenIsOwn ==
  ASSUME IInv, NEW c \in Callers, pc[c] # "idle", NEW i \in 1..Len(responses),
         Matches(c, responses[i])
  PROVE  responses[i].k = current[c].k
<1>1. Latest(responses[i], Len(made)) /\ InTime(current[c], Len(made)) /\ Len(made) \in Nat
  BY DEF IInv, NumberInv, Typed, TypeOK
<1>2. Latest(current[c], Len(made))
  BY <1>1, InTimeIsLatest
<1>3. responses[i].k \in Nat /\ current[c].k \in Nat
  BY <1>1 DEF Latest, InTime
<1>4. ~(responses[i].k < current[c].k) /\ ~(current[c].k < responses[i].k)
  BY <1>1, <1>2 DEF Latest, Matches
<1>5. QED
  BY <1>3, <1>4

\* A thread that waits has made as many requests by its last one as by now.
LEMMA CurrentIsLast ==
  ASSUME IInv, NEW c \in Callers, pc[c] # "idle"
  PROVE  /\ current[c].k \in 1..Len(made)
         /\ made[current[c].k] = c
         /\ RequestsOf(c, current[c].k) = RequestsOf(c, Len(made))
<1>1. InTime(current[c], Len(made)) /\ Own(c) /\ Len(made) \in Nat
  BY DEF IInv, NumberInv, Typed, TypeOK
<1>2. {j \in 1..current[c].k : made[j] = c} = {j \in 1..Len(made) : made[j] = c}
  BY <1>1 DEF InTime, Own
<1>3. QED
  BY <1>1, <1>2 DEF InTime, Own, RequestsOf

\* What the service shows of a thread: its requests, and its last answer.
Requested(c) == RequestsOf(c, Len(made))
Heard(c) == IF answer[c] # 0 /\ made[answer[c]] = c THEN RequestsOf(c, answer[c]) ELSE 0

\* A step that neither makes a request nor answers one of c is none to c.
LEMMA NotSeen ==
  ASSUME NEW c \in Callers, UNCHANGED made, answer'[c] = answer[c],
         pc'[c] = "idle" <=> pc[c] = "idle"
  PROVE  [Service(c)!Next]_(Service(c)!vars)
<1>1. RequestsOf(c, Len(made))' = RequestsOf(c, Len(made))
  BY DEF RequestsOf
<1>2. RequestsOf(c, answer[c])' = RequestsOf(c, answer[c])
  BY DEF RequestsOf
<1>3. QED
  BY <1>1, <1>2 DEF Service!vars

\* A request of c is a call of c, and none of the others.
LEMMA RequestIsCall ==
  ASSUME IInv, NEW c \in Callers, Request(c), NEW b \in Callers
  PROVE  [Service(b)!Next]_(Service(b)!vars)
<1>1. /\ made \in Seq(Callers) /\ Len(made) \in Nat
      /\ pc \in [Waiters -> {"idle", "send", "look", "asleep", "lastLook"}] /\ Callers \subseteq Waiters
      /\ answer[b] \in 0..Len(made)
      /\ MaxRequests \in Nat
  BY BoundsAssumption DEF IInv, Typed, TypeOK, NumberInv, Waiters, BoundsAssumption
<1>2. /\ made' = Append(made, c) /\ Len(made) < MaxRequests
      /\ pc[c] = "idle" /\ pc' = [pc EXCEPT ![c] = "send"]
      /\ answer' = answer
  BY DEF Request
<1>3. Requested(b)' = Requested(b) + (IF b = c THEN 1 ELSE 0)
  BY <1>1, <1>2, OneMoreRequest DEF Requested
<1>4. Heard(b)' = Heard(b)
  <2>1. PICK k \in 0..Len(made) : k = answer[b]
    BY <1>1
  <2>2. RequestsOf(b, k)' = RequestsOf(b, k)
    BY <1>1, <1>2, OneMoreRequest
  <2>3. RequestsOf(b, answer[b])' = RequestsOf(b, answer[b])
    BY <1>2, <2>1, <2>2 DEF RequestsOf
  <2>4. k # 0 => made'[k] = made[k]
    BY <1>1, <1>2, AppendProperties
  <2>5. QED
    BY <1>2, <2>1, <2>3, <2>4 DEF Heard
<1>5. CASE b = c
  <2>1. Requested(b) < MaxRequests
    BY <1>1, <1>2, RequestsBounded DEF Requested
  <2>2. Service(b)!Call
    BY <1>1, <1>2, <1>3, <1>4, <1>5, <2>1 DEF Service!Call, Requested, Heard
  <2>3. QED
    BY <2>2 DEF Service!Next
<1>6. CASE b # c
  <2>1. pc'[b] = pc[b]
    BY <1>1, <1>2, <1>6
  <2>2. Requested(b)' = Requested(b)
    BY <1>1, <1>3, <1>6, RequestsBounded DEF Requested
  <2>3. QED
    BY <1>4, <2>1, <2>2 DEF Service!vars, Requested, Heard
<1>7. QED
  BY <1>5, <1>6

\* Taking an answer answers the call of c, and none of the others.
LEMMA TakeIsAnswered ==
  ASSUME IInv, NEW c \in Callers, TakeResponse(c), NEW b \in Callers
  PROVE  [Service(b)!Next]_(Service(b)!vars)
<1>1. /\ pc \in [Waiters -> {"idle", "send", "look", "asleep", "lastLook"}] /\ Callers \subseteq Waiters
      /\ DOMAIN responses = 1..Len(responses)
      /\ answer \in [Callers -> 0..MaxRequests]
  BY LenProperties DEF IInv, Typed, TypeOK, Waiters
<1>2. PICK i \in 1..Len(responses) : /\ Matches(c, responses[i])
                                     /\ answer' = [answer EXCEPT ![c] = responses[i].k]
  BY <1>1 DEF TakeResponse, FirstMatch
<1>3. pc[c] # "idle" /\ pc' = [pc EXCEPT ![c] = "idle"] /\ made' = made
  BY DEF TakeResponse, Looks
<1>4. CASE b # c
  <2>1. answer'[b] = answer[b] /\ pc'[b] = pc[b]
    BY <1>1, <1>2, <1>3, <1>4
  <2>2. QED
    BY <1>3, <2>1, NotSeen
<1>5. CASE b = c
  <2>1. answer'[c] = current[c].k
    BY <1>1, <1>2, <1>3, TakenIsOwn
  <2>2. /\ answer'[c] # 0 /\ made'[answer'[c]] = c
        /\ RequestsOf(c, answer[c])' = Requested(c)
        /\ Requested(c)' = Requested(c)
    BY <1>3, <2>1, CurrentIsLast DEF Requested, RequestsOf
  <2>3. Heard(c)' = Requested(c)
    BY <2>2 DEF Heard
  <2>4. Service(c)!Answered
    <3>1. 0 \in 0..0
      OBVIOUS
    <3>2. QED
      BY <1>1, <1>3, <2>2, <2>3, <3>1 DEF Service!Answered, Requested, Heard
  <2>5. QED
    BY <1>5, <2>4 DEF Service!Next
<1>6. QED
  BY <1>4, <1>5

\* Giving up leaves the call of c without an answer, and none of the others.
LEMMA GivingUpIsUnanswered ==
  ASSUME IInv, NEW c \in Callers, AttemptFails(c), NEW b \in Callers
  PROVE  [Service(b)!Next]_(Service(b)!vars)
<1>1. pc \in [Waiters -> {"idle", "send", "look", "asleep", "lastLook"}] /\ Callers \subseteq Waiters
  BY DEF IInv, Typed, TypeOK, Waiters
<1>2. /\ pc[c] = "lastLook"
      /\ pc' = [pc EXCEPT ![c] = "idle"] \/ pc' = [pc EXCEPT ![c] = "send"]
      /\ made' = made /\ answer' = answer
  BY DEF AttemptFails
<1>3. CASE pc'[b] = "idle" <=> pc[b] = "idle"
  BY <1>2, <1>3, NotSeen
<1>4. CASE ~(pc'[b] = "idle" <=> pc[b] = "idle")
  <2>1. b = c /\ pc'[b] = "idle" /\ pc[b] # "idle"
    BY <1>1, <1>2, <1>4
  <2>2. Requested(b)' = Requested(b) /\ Heard(b)' = Heard(b)
    BY <1>2 DEF Requested, Heard, RequestsOf
  <2>3. Service(b)!Unanswered
    BY <2>1, <2>2 DEF Service!Unanswered, Requested, Heard
  <2>4. QED
    BY <2>3 DEF Service!Next
<1>5. QED
  BY <1>3, <1>4

\* request() is to every thread the service a wire test relies on, whatever
\* the other threads are told meanwhile.
THEOREM Refinement == Spec => ServesRequestReply
<1>1. Init => \A c \in Callers : Service(c)!Init
  <2> SUFFICES ASSUME Init, NEW c \in Callers PROVE Service(c)!Init
    OBVIOUS
  <2>1. {j \in 1..0 : made[j] = c} = {} /\ Len(<<>>) = 0
    OBVIOUS
  <2>2. RequestsOf(c, Len(made)) = 0
    BY <2>1, FS_EmptySet DEF Init, RequestsOf
  <2>3. QED
    BY <2>2 DEF Init, Service!Init, Waiters
<1>2. IInv /\ [Next]_vars => \A c \in Callers : [Service(c)!Next]_(Service(c)!vars)
  <2> SUFFICES ASSUME IInv, [Next]_vars, NEW b \in Callers
               PROVE  [Service(b)!Next]_(Service(b)!vars)
    OBVIOUS
  <2> USE DEF callerVars, keptVars, networkVars
  <2>1. /\ pc \in [Waiters -> {"idle", "send", "look", "asleep", "lastLook"}]
        /\ Callers \subseteq Waiters
    BY DEF IInv, Typed, TypeOK, Waiters
  <2>2. CASE Serve \/ Notify \/ AnswerNotification \/ UNCHANGED vars
    BY <2>2, NotSeen DEF Serve, Notify, AnswerNotification, vars
  <2>3. CASE ReceiveResponse \/ ReceiveNotification
    BY <2>1, <2>3, NotSeen, Notified DEF ReceiveResponse, ReceiveNotification
  <2>4. ASSUME NEW c \in Callers, Send(c)
        PROVE  [Service(b)!Next]_(Service(b)!vars)
    BY <2>1, <2>4, NotSeen DEF Send
  <2>5. ASSUME NEW w \in Waiters, Sleep(w) \/ Expire(w)
        PROVE  [Service(b)!Next]_(Service(b)!vars)
    BY <2>1, <2>5, NotSeen DEF Sleep, Expire
  <2>6. CASE Watch \/ StopWatching
    BY <2>1, <2>6, NotSeen, CallersAssumption DEF Watch, StopWatching, CallersAssumption
  <2>7. QED
    BY <2>2, <2>3, <2>4, <2>5, <2>6, RequestIsCall, TakeIsAnswered, GivingUpIsUnanswered
       DEF Next, Thread, Caller, Watching, Waiters
<1>3. QED
  BY <1>1, <1>2, Inductive, PTL DEF Spec, ServesRequestReply

=============================================================================
