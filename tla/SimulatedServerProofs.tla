------------------------- MODULE SimulatedServerProofs -------------------------
(***************************************************************************)
(* What a SimulatedServer keeps to for any objects, settings and requests: *)
(* no request is lost from its books, a commanded object is a priority     *)
(* array at every moment, and a client reads the answer that the settings  *)
(* call for.  They rest on what the parsers make of a request and of an    *)
(* answer as it was encoded, whatever value it carries.                    *)
(***************************************************************************)
EXTENDS SimulatedServerPromises, CodecProofs

-----------------------------------------------------------------------------
\* The frame of a request

LEMMA OneAndOne ==
  ASSUME NEW a, NEW b
  PROVE  <<a>> \o <<b>> = <<a, b>>
<1> DEFINE T == {a, b}
<1>1. <<a>> \in Seq(T) /\ <<b>> \in Seq(T) /\ <<a, b>> \in Seq(T)
  OBVIOUS
<1>2. Len(<<a>>) = 1 /\ Len(<<b>>) = 1 /\ Len(<<a, b>>) = 2
  OBVIOUS
<1>3. /\ <<a>> \o <<b>> \in Seq(T) /\ Len(<<a>> \o <<b>>) = 2
      /\ \A i \in 1..2 : (<<a>> \o <<b>>)[i] = IF i <= 1 THEN <<a>>[i] ELSE <<b>>[i - 1]
  BY <1>1, <1>2, ConcatProperties
<1>4. \A i \in 1..2 : (<<a>> \o <<b>>)[i] = <<a, b>>[i]
  BY <1>3
<1> HIDE DEF T
<1>5. QED
  BY <1>1, <1>2, <1>3, <1>4, SeqEqual

LEMMA NothingAround ==
  ASSUME NEW a
  PROVE  <<>> \o <<a>> = <<a>> /\ <<a>> \o <<>> = <<a>> /\ <<>> \o <<>> = <<>>
<1>1. <<a>> \in Seq({a}) /\ <<>> \in Seq({a})
  OBVIOUS
<1>2. QED
  BY <1>1, ConcatEmptySeq

\* An NPDU that goes to the network it is on: its source, its message, its
\* payload, as far as there are any.
LEMMA LocalFields ==
  ASSUME NEW payload, NEW message, NEW snet, NEW sadr
  PROVE  LET octets == npdu(payload, message, None, None, snet, sadr)
         IN  /\ octets.control = (IF message = None THEN {} ELSE {"networkMessage"})
                                   \union (IF snet = None THEN {} ELSE {"source"})
             /\ octets.fields = CASE snet = None /\ message = None -> <<payload>>
                                  [] snet = None /\ message # None -> <<message, payload>>
                                  [] snet # None /\ message = None -> <<<<snet, sadr>>, payload>>
                                  [] snet # None /\ message # None
                                       -> <<<<snet, sadr>>, message, payload>>
<1> DEFINE octets == npdu(payload, message, None, None, snet, sadr)
           source == IF snet = None THEN <<>> ELSE <<<<snet, sadr>>>>
           network == IF message = None THEN <<>> ELSE <<message>>
<1>1. octets.control = (IF message = None THEN {} ELSE {"networkMessage"})
                         \union (IF snet = None THEN {} ELSE {"source"})
  BY DEF npdu
<1>2. octets.fields = (((<<>> \o source) \o <<>>) \o network) \o <<payload>>
  BY DEF npdu
<1> HIDE DEF octets
<1>3. CASE snet = None /\ message = None
  <2>1. (<<>> \o source) \o <<>> = <<>> /\ network = <<>>
    BY <1>3, NothingAround
  <2> HIDE DEF source, network
  <2>2. octets.fields = <<payload>>
    BY <1>2, <2>1, NothingAround
  <2>3. QED
    BY <1>1, <1>3, <2>2 DEF octets
<1>4. CASE snet = None /\ message # None
  <2>1. (<<>> \o source) \o <<>> = <<>> /\ network = <<message>>
    BY <1>4, NothingAround
  <2> HIDE DEF source, network
  <2>2. octets.fields = <<message, payload>>
    BY <1>2, <2>1, NothingAround, OneAndOne
  <2>3. QED
    BY <1>1, <1>4, <2>2 DEF octets
<1>5. CASE snet # None /\ message = None
  <2>1. (<<>> \o source) \o <<>> = <<<<snet, sadr>>>> /\ network = <<>>
    BY <1>5, NothingAround
  <2> HIDE DEF source, network
  <2>2. octets.fields = <<<<snet, sadr>>, payload>>
    BY <1>2, <2>1, NothingAround, OneAndOne
  <2>3. QED
    BY <1>1, <1>5, <2>2 DEF octets
<1>6. CASE snet # None /\ message # None
  <2>1. (<<>> \o source) \o <<>> = <<<<snet, sadr>>>> /\ network = <<message>>
    BY <1>6, NothingAround
  <2>2. PICK s : s = <<snet, sadr>>
    OBVIOUS
  <2> HIDE DEF source, network
  <2>3. octets.fields = (<<s>> \o <<message>>) \o <<payload>>
    BY <1>2, <2>1, <2>2
  <2>4. <<s>> \o <<message>> = <<s, message>>
    BY OneAndOne
  <2>5. <<s, message>> \o <<payload>> = <<s, message, payload>>
    BY TwoAndOne
  <2>6. octets.fields = <<<<snet, sadr>>, message, payload>>
    BY <2>2, <2>3, <2>4, <2>5
  <2>7. QED
    BY <1>1, <1>6, <2>6 DEF octets
<1>7. QED
  BY <1>3, <1>4, <1>5, <1>6

\* The thread decodes what the client encoded, and where it came from; what is
\* no NPDU it takes for nothing.
LEMMA FrameOf ==
  ASSUME NEW r
  PROVE  /\ r.npdu =>
              /\ Frame(Datagram(r)).network_message = r.message
              /\ Frame(Datagram(r)).payload = Encode(r)
              /\ Frame(Datagram(r)).snet = r.snet
              /\ r.snet # None => Frame(Datagram(r)).sadr = r.sadr
         /\ ~r.npdu =>
              /\ Frame(Datagram(r)).network_message = None
              /\ Frame(Datagram(r)).payload = None
<1> DEFINE octets == npdu(Encode(r), r.message, None, None, r.snet, r.sadr)
           datagram == Datagram(r)
<1>1. /\ datagram.octets = octets
      /\ r.npdu => datagram.function \in {"Original-Broadcast", "Original-Unicast"}
      /\ ~r.npdu => datagram.function = "BVLC-Result"
  BY DEF Datagram, bvlc
<1> HIDE DEF datagram
<1>2. CASE ~r.npdu
  <2>1. datagram.function \notin BVLC_FUNCTIONS_WITH_NPDU
    BY <1>1, <1>2 DEF BVLC_FUNCTIONS_WITH_NPDU
  <2>2. Frame(datagram) = [dnet |-> None, dadr |-> None, snet |-> None, sadr |-> None,
                           network_message |-> None, payload |-> None]
    BY <2>1 DEF Frame
  <2>3. QED
    BY <1>2, <2>2 DEF datagram
<1>3. CASE r.npdu
  <2>1. datagram.function \in BVLC_FUNCTIONS_WITH_NPDU
    BY <1>1, <1>3 DEF BVLC_FUNCTIONS_WITH_NPDU
  <2>2. /\ "destination" \notin octets.control
        /\ "source" \in octets.control <=> r.snet # None
        /\ "networkMessage" \in octets.control <=> r.message # None
    <3>1. octets.control = (IF r.message = None THEN {} ELSE {"networkMessage"})
                             \union (IF r.snet = None THEN {} ELSE {"source"})
      BY DEF npdu
    <3> HIDE DEF octets
    <3>2. QED
      BY <3>1
  <2>3. octets.fields = CASE r.snet = None /\ r.message = None -> <<Encode(r)>>
                          [] r.snet = None /\ r.message # None -> <<r.message, Encode(r)>>
                          [] r.snet # None /\ r.message = None -> <<<<r.snet, r.sadr>>, Encode(r)>>
                          [] r.snet # None /\ r.message # None
                               -> <<<<r.snet, r.sadr>>, r.message, Encode(r)>>
    BY LocalFields
  <2> HIDE DEF octets
  <2>4. CASE r.snet = None /\ r.message = None
    <3>1. octets.fields = <<Encode(r)>>
      BY <2>3, <2>4
    <3>2. QED
      BY <1>1, <1>3, <2>1, <2>2, <2>4, <3>1 DEF Frame, datagram
  <2>5. CASE r.snet = None /\ r.message # None
    <3>1. octets.fields = <<r.message, Encode(r)>>
      BY <2>3, <2>5
    <3>2. QED
      BY <1>1, <1>3, <2>1, <2>2, <2>5, <3>1 DEF Frame, datagram
  <2>6. CASE r.snet # None /\ r.message = None
    <3>1. octets.fields = <<<<r.snet, r.sadr>>, Encode(r)>>
      BY <2>3, <2>6
    <3>2. QED
      BY <1>1, <1>3, <2>1, <2>2, <2>6, <3>1 DEF Frame, datagram
  <2>7. CASE r.snet # None /\ r.message # None
    <3>1. octets.fields = <<<<r.snet, r.sadr>>, r.message, Encode(r)>>
      BY <2>3, <2>7
    <3>2. QED
      BY <1>1, <1>3, <2>1, <2>2, <2>7, <3>1 DEF Frame, datagram
  <2>8. QED
    BY <2>4, <2>5, <2>6, <2>7
<1>4. QED
  BY <1>2, <1>3

\* What the thread takes for a WriteProperty is one, and it reads of it what
\* was asked; the same of a ReadProperty.
LEMMA FrameRead ==
  ASSUME NEW r \in Requests, frame = Frame(Datagram(r))
  PROVE  /\ Asks("WriteProperty") =>
              /\ r.service = "WriteProperty"
              /\ writing = [object |-> r.object, property |-> r.property,
                            array_index |-> r.index, value |-> r.value, priority |-> r.priority]
              /\ writing # None
         /\ Asks("ReadProperty") => reading # None
<1>1. ASSUME NEW name \in {"ReadProperty", "WriteProperty"}, Asks(name)
      PROVE  apdu = Encode(r) /\ Encode(r).type = "ConfirmedRequest" /\ Encode(r).service = name
  <2>1. /\ pdu_type(frame) = "ConfirmedRequest" /\ service(frame) = name
    BY <1>1 DEF Asks, confirmed
  <2>2. /\ frame.payload # None
        /\ frame.payload.type = "ConfirmedRequest" /\ frame.payload.service = name
    BY <2>1, NoneAssumption DEF pdu_type, service
  <2>3. r.npdu
    BY <2>2, FrameOf
  <2>4. Frame(Datagram(r)).payload = Encode(r)
    BY <2>3, FrameOf
  <2>5. frame.payload = Encode(r)
    BY <2>4
  <2>6. QED
    BY <2>2, <2>5 DEF apdu
<1>2. ASSUME Encode(r).type = "ConfirmedRequest",
             Encode(r).service \in {"ReadProperty", "WriteProperty"}
      PROVE  r.service = Encode(r).service
  <2>1. CASE r.service \in {"ReadProperty", "WriteProperty"}
    <3>1. CASE r.service = "ReadProperty"
      <4>1. Encode(r) = read_property_request(1, r.object, r.property, r.index)
        BY <3>1 DEF Encode
      <4>2. QED
        BY <3>1, <4>1 DEF read_property_request, confirmed_request, APDU
    <3>2. CASE r.service = "WriteProperty"
      <4>1. Encode(r) = write_property_request(1, r.object, r.property, r.value, r.priority, r.index)
        BY <3>2 DEF Encode
      <4>2. QED
        BY <3>2, <4>1 DEF write_property_request, confirmed_request, APDU
    <3>3. QED
      BY <2>1, <3>1, <3>2
  <2>2. CASE r.service = "ReadPropertyMultiple"
    <3>1. Encode(r) = read_property_multiple_request(1, r.specifications)
      BY <2>2 DEF Encode
    <3>2. QED
      BY <1>2, <2>2, <3>1 DEF read_property_multiple_request, confirmed_request, APDU
  <2>3. CASE r.service = "Who-Is"
    <3>1. Encode(r) = who_is(r.low, r.high)
      BY <2>3 DEF Encode
    <3>2. QED
      BY <1>2, <3>1 DEF who_is, APDU
  <2>4. CASE r.service = "ConfirmedEventNotification"
    <3>1. Encode(r) = event_notification(r.notification, TRUE, 1)
      BY <2>4 DEF Encode
    <3>2. Encode(r).service = "ConfirmedEventNotification"
      BY <3>1 DEF event_notification, confirmed_request, APDU
    <3>3. QED
      BY <1>2, <3>2
  <2>5. CASE r.service \notin {"ReadProperty", "WriteProperty", "ReadPropertyMultiple", "Who-Is",
                               "ConfirmedEventNotification"}
    <3>1. Encode(r) = confirmed_request(1, r.service, <<>>)
      BY <2>5 DEF Encode
    <3>2. QED
      BY <3>1 DEF confirmed_request, APDU
  <2>6. QED
    BY <2>1, <2>2, <2>3, <2>4, <2>5
<1>3. ASSUME Asks("WriteProperty")
      PROVE  /\ r.service = "WriteProperty"
             /\ writing = [object |-> r.object, property |-> r.property,
                           array_index |-> r.index, value |-> r.value, priority |-> r.priority]
             /\ writing # None
  <2>1. apdu = Encode(r) /\ r.service = "WriteProperty"
    <3>1. /\ apdu = Encode(r) /\ Encode(r).type = "ConfirmedRequest"
          /\ Encode(r).service = "WriteProperty"
      BY <1>1, <1>3
    <3>2. QED
      BY <1>2, <3>1
  <2>2. apdu = write_property_request(1, r.object, r.property, r.value, r.priority, r.index)
    BY <2>1 DEF Encode
  <2>3. Complete(r.value)
    BY <2>1, RequestsAssumption
  <2>4. writing = [object |-> r.object, property |-> r.property,
                   array_index |-> r.index, value |-> r.value, priority |-> r.priority]
    BY <2>2, <2>3, WriteReadBack DEF writing
  <2>5. QED
    BY <2>1, <2>4, RequestsAssumption
<1>4. ASSUME Asks("ReadProperty") PROVE reading # None
  <2>1. apdu = Encode(r) /\ r.service = "ReadProperty"
    <3>1. /\ apdu = Encode(r) /\ Encode(r).type = "ConfirmedRequest"
          /\ Encode(r).service = "ReadProperty"
      BY <1>1, <1>4
    <3>2. QED
      BY <1>2, <3>1
  <2>2. apdu = read_property_request(1, r.object, r.property, r.index)
    BY <2>1 DEF Encode
  <2>3. reading = [object |-> r.object, property |-> r.property, array_index |-> r.index]
    BY <2>2, ReadReadBack DEF reading
  <2>4. QED
    BY <2>1, <2>3, RequestsAssumption
<1>5. QED
  BY <1>3, <1>4

-----------------------------------------------------------------------------
\* What holds at every step of the thread

\* The frame in hand is that of the request asked.
FrameIsAsked == asked # None => frame = Frame(Datagram(asked))

\* Where the thread is, it has found out what is asked.
KnowsService ==
  /\ thread = "reading" => ~Asks("WriteProperty")
  /\ thread \in {"writing", "accepting", "commanding"} => Asks("WriteProperty")
  /\ thread = "commanding" => commanded

\* No list holds more than what arrived before it: what is read was answered,
\* and a write that is not kept yet still fits.
BooksWithin ==
  /\ count["received"] <= MaxRequests
  /\ count["received_on_broadcast"] <= count["received"]
  /\ count["arrived"] <= count["received"]
  /\ count["read_requests"] <= count["answered"]
  /\ count["array_reads"] <= count["answered"]
  /\ count["write_requests"] + (IF thread \in {"answering", "admitting"} /\ Kept THEN 1 ELSE 0)
       <= count["arrived"]

\* A commanded object holds its winning value, but between the two stores of a
\* command.
WinnerHeld ==
  \A o \in Commanded :
    objects[o]["PRESENT_VALUE"] = Winner(o, priority_arrays[o])
      \/ (thread = "commanding" /\ writing.object = o)

\* The types the rest is proved from.
StoreShaped ==
  /\ DOMAIN objects = DOMAIN Objects
  /\ \A o \in DOMAIN Objects : DOMAIN Objects[o] \subseteq DOMAIN objects[o]
  /\ DOMAIN priority_arrays = Commanded
  /\ \A o \in Commanded : DOMAIN priority_arrays[o] = 1..16

Shaped ==
  /\ StoreShaped
  /\ mode \in Modes
  /\ DOMAIN failures \subseteq FailingObjects
  /\ whole_arrays_refused \subseteq Whole
  /\ thread \in Threads
  /\ asked \in Requests \union {None}
  /\ failure \in {None, "malformed"}
  /\ count \in [Counts -> Nat]
  /\ {running, closed, settled} \subseteq BOOLEAN
  /\ changes \in 0..MaxChanges
  /\ thread \notin {"waiting", "ended"} => asked # None

ServerInv ==
  Shaped /\ FrameIsAsked /\ KnowsService /\ RequestsAccountedFor /\ BooksWithin /\ WinnerHeld

\* What is read of the frame does not change while the frame does not.
LEMMA SameFrame ==
  ASSUME frame' = frame
  PROVE  /\ Kept' <=> Kept
         /\ Asks("WriteProperty")' <=> Asks("WriteProperty")
         /\ commanded' <=> commanded
         /\ writing' = writing
<1>1. confirmed' <=> confirmed
  BY DEF confirmed
<1>2. Kept' <=> Kept
  BY <1>1 DEF Kept, Asks
<1>3. Asks("WriteProperty")' <=> Asks("WriteProperty")
  BY <1>1 DEF Asks
<1>4. writing' = writing
  BY DEF writing, apdu
<1>5. QED
  BY <1>2, <1>3, <1>4 DEF commanded

LEMMA Tallied ==
  ASSUME count \in [Counts -> Nat], NEW names \in SUBSET Counts, Tally(names)
  PROVE  /\ count' \in [Counts -> Nat]
         /\ \A c \in Counts : count'[c] = IF c \in names THEN count[c] + 1 ELSE count[c]
<1>1. count' = [c \in Counts |-> count[c] + (IF c \in names THEN 1 ELSE 0)]
  BY DEF Tally
<1>2. \A c \in Counts : count[c] \in Nat
  OBVIOUS
<1>3. QED
  BY <1>1, <1>2

\* An answer closes the books on the request.
LEMMA AnswerBooks ==
  ASSUME count \in [Counts -> Nat], RequestsAccountedFor, BooksWithin, frame' = frame,
         thread \notin {"waiting", "ended"}, thread' = "waiting",
         NEW also \in SUBSET {"read_requests", "array_reads"}, also # {} => Kept,
         Tally(also \union Only(Kept, "answered"))
  PROVE  count' \in [Counts -> Nat] /\ RequestsAccountedFor' /\ BooksWithin'
<1>1. PICK names \in SUBSET Counts : names = also \union Only(Kept, "answered")
  BY DEF Counts, Only
<1>2. Tally(names)
  BY <1>1
<1>3. /\ count' \in [Counts -> Nat]
      /\ \A c \in Counts : count'[c] = IF c \in names THEN count[c] + 1 ELSE count[c]
  BY <1>2, Tallied
<1>4. Kept' <=> Kept
  BY SameFrame
<1>5. /\ \A c \in {"received", "received_on_broadcast", "arrived", "write_requests",
                   "requests_while_offline", "silent_requests"} : count'[c] = count[c]
      /\ count'["answered"] = IF Kept THEN count["answered"] + 1 ELSE count["answered"]
  BY <1>1, <1>3 DEF Counts, Only
<1>6. \A c \in {"read_requests", "array_reads"} :
        count'[c] = count[c] \/ (Kept /\ count'[c] = count[c] + 1)
  BY <1>1, <1>3 DEF Counts, Only
<1>7. \A c \in Counts : count[c] \in Nat
  OBVIOUS
<1>8. RequestsAccountedFor'
  BY <1>4, <1>5, <1>7 DEF RequestsAccountedFor, Counts
<1>9. BooksWithin'
  BY <1>4, <1>5, <1>6, <1>7, ServerBoundsAssumption DEF BooksWithin, Counts
<1>10. QED
  BY <1>3, <1>8, <1>9

\* A step of the thread that stores nothing leaves the winners in their place.
LEMMA StoreKept ==
  ASSUME WinnerHeld, UNCHANGED store, thread # "commanding"
  PROVE  WinnerHeld'
<1>1. objects' = objects /\ priority_arrays' = priority_arrays
  BY DEF store
<1>2. \A o \in Commanded : objects[o]["PRESENT_VALUE"] = Winner(o, priority_arrays[o])
  BY DEF WinnerHeld
<1>3. QED
  BY <1>1, <1>2 DEF WinnerHeld

\* While the thread has a request in hand, the settings and the request stay.
LEMMA ShapedStep ==
  ASSUME Shaped, StoreShaped', UNCHANGED <<settings, asked, life, settled>>,
         thread \notin {"waiting", "ended"}, thread' \in Threads,
         failure' \in {None, "malformed"}, count' \in [Counts -> Nat]
  PROVE  Shaped'
<1>1. /\ UNCHANGED <<mode, failures, whole_arrays_refused, changes>>
      /\ UNCHANGED <<asked, running, closed, settled>>
  BY DEF settings, life
<1>2. {running, closed, settled}' \subseteq BOOLEAN
  BY <1>1 DEF Shaped
<1>3. asked' \in Requests \union {None} /\ asked' # None
  BY <1>1 DEF Shaped
<1>4. QED
  BY <1>1, <1>2, <1>3 DEF Shaped

\* A step that ends with an answer keeps the invariant, whatever it stored.
LEMMA AnswerStep ==
  ASSUME ServerInv, UNCHANGED <<settings, asked, frame, life, settled>>,
         StoreShaped', WinnerHeld', thread \notin {"waiting", "ended"}, Done,
         NEW also \in SUBSET {"read_requests", "array_reads"}, also # {} => Kept,
         Tally(also \union Only(Kept, "answered"))
  PROVE  ServerInv'
<1>1. thread' = "waiting" /\ failure' = None /\ frame' = frame /\ asked' = asked
  BY DEF Done
<1>2. count' \in [Counts -> Nat] /\ RequestsAccountedFor' /\ BooksWithin'
  BY <1>1, AnswerBooks DEF ServerInv, Shaped
<1>3. thread' \in Threads
  BY <1>1 DEF Threads
<1>4. Shaped'
  BY <1>1, <1>2, <1>3, ShapedStep DEF ServerInv
<1>5. FrameIsAsked' /\ KnowsService'
  BY <1>1 DEF ServerInv, FrameIsAsked, KnowsService
<1>6. QED
  BY <1>2, <1>4, <1>5 DEF ServerInv

-----------------------------------------------------------------------------
\* Step by step

LEMMA InvReceive ==
  ASSUME ServerInv, NEW r \in Requests, Receive(r)
  PROVE  ServerInv'
<1> USE DEF ServerInv
<1>1. /\ thread = "waiting" /\ count["received"] < MaxRequests
      /\ asked' = r /\ frame' = Frame(Datagram(r)) /\ settled' = TRUE
      /\ thread' \in {"answering", "waiting"}
      /\ frame'.network_message = None => thread' = "answering"
      /\ UNCHANGED <<store, settings, failure, life>>
  BY DEF Receive
<1>2. PICK names \in SUBSET Counts :
        names = {"received"} \union Only(r.broadcast, "received_on_broadcast")
                  \union Only(Kept', "arrived")
  BY DEF Counts, Only
<1>3. Tally(names)
  BY <1>2 DEF Receive
<1>4. /\ count' \in [Counts -> Nat]
      /\ \A c \in Counts : count'[c] = IF c \in names THEN count[c] + 1 ELSE count[c]
  BY <1>3, Tallied DEF Shaped
<1>5. /\ count'["received"] = count["received"] + 1
      /\ count'["received_on_broadcast"] \in {count["received_on_broadcast"],
                                             count["received_on_broadcast"] + 1}
      /\ count'["arrived"] = IF Kept' THEN count["arrived"] + 1 ELSE count["arrived"]
      /\ \A c \in {"answered", "read_requests", "array_reads", "write_requests",
                   "requests_while_offline", "silent_requests"} : count'[c] = count[c]
  BY <1>2, <1>4 DEF Counts, Only
<1>6. Kept' => thread' = "answering"
  <2>1. Kept' => pdu_type(frame') = "ConfirmedRequest"
    BY DEF Kept, Asks, confirmed
  <2>2. None # "ConfirmedRequest"
    BY NoneAssumption
  <2>3. Kept' => frame'.network_message = None
    BY <2>1, <2>2 DEF pdu_type
  <2>4. QED
    BY <1>1, <2>3
<1>7. Shaped'
  <2>1. /\ UNCHANGED <<objects, priority_arrays, mode, failures, whole_arrays_refused, changes>>
        /\ UNCHANGED <<failure, running, closed>>
    BY <1>1 DEF store, settings, life
  <2>2. StoreShaped'
    BY <2>1 DEF Shaped, StoreShaped
  <2>3. thread' \in Threads
    BY <1>1 DEF Threads
  <2>4. asked' \in Requests \union {None} /\ (thread' \notin {"waiting", "ended"} => asked' # None)
    BY <1>1, RequestsAssumption
  <2>5. {running, closed, settled}' \subseteq BOOLEAN
    BY <1>1, <2>1 DEF Shaped
  <2>6. QED
    BY <1>4, <2>1, <2>2, <2>3, <2>4, <2>5 DEF Shaped
<1>8. FrameIsAsked'
  BY <1>1 DEF FrameIsAsked
<1>9. KnowsService'
  BY <1>1 DEF KnowsService
<1>10. \A c \in Counts : count[c] \in Nat
  BY DEF Shaped
<1>11. RequestsAccountedFor'
  BY <1>1, <1>5, <1>6, <1>10 DEF RequestsAccountedFor, Counts
<1>12. BooksWithin'
  BY <1>1, <1>5, <1>6, <1>10, ServerBoundsAssumption DEF BooksWithin, Counts
<1>13. WinnerHeld'
  BY <1>1, StoreKept
<1>14. QED
  BY <1>7, <1>8, <1>9, <1>11, <1>12, <1>13

\* A request that fails on purpose is one of those that are kept.
LEMMA InvCheckFailures ==
  ASSUME ServerInv, CheckFailures
  PROVE  ServerInv'
<1>1. /\ thread = "answering"
      /\ UNCHANGED <<store, settings, asked, frame, life, settled>>
  BY DEF CheckFailures
<1>2. StoreShaped' /\ WinnerHeld'
  <2>1. objects' = objects /\ priority_arrays' = priority_arrays
    BY <1>1 DEF store
  <2>2. StoreShaped'
    BY <2>1 DEF ServerInv, Shaped, StoreShaped
  <2>3. WinnerHeld'
    BY <1>1, StoreKept DEF ServerInv
  <2>4. QED
    BY <2>2, <2>3
<1>3. Failing # None => Kept
  <2>1. ASSUME Failing # None PROVE requested_object # None
    <3>1. requested_object \in DOMAIN failures
      BY <2>1 DEF Failing
    <3>2. QED
      BY <3>1, SettingsAssumption DEF ServerInv, Shaped
  <2>2. ASSUME requested_object # None PROVE Asks("ReadProperty") \/ Asks("WriteProperty")
    BY <2>2 DEF requested_object
  <2>3. QED
    BY <2>1, <2>2 DEF Kept
<1>4. CASE Reply(reject_pdu(apdu.invoke_id, "UNRECOGNIZED_SERVICE"), {})
            \/ Reply(abort_pdu(apdu.invoke_id, "SEGMENTATION_NOT_SUPPORTED"), {})
  <2>1. Tally({} \union Only(Kept, "answered")) /\ Done
    BY <1>4 DEF Reply
  <2>2. QED
    BY <1>1, <1>2, <2>1, AnswerStep
<1>5. CASE Failing = "silent" /\ NoReply({"silent_requests"})
  <2>1. Kept
    BY <1>3, <1>5, SettingsAssumption
  <2>2. PICK names \in SUBSET Counts : names = {"silent_requests"}
    BY DEF Counts
  <2>3. Tally(names) /\ Done
    BY <1>5, <2>2 DEF NoReply
  <2>4. /\ count' \in [Counts -> Nat]
        /\ \A c \in Counts : count'[c] = IF c \in names THEN count[c] + 1 ELSE count[c]
    BY <2>3, Tallied DEF ServerInv, Shaped
  <2>5. /\ count'["silent_requests"] = count["silent_requests"] + 1
        /\ \A c \in Counts \ {"silent_requests"} : count'[c] = count[c]
    BY <2>2, <2>4 DEF Counts
  <2>6. thread' = "waiting" /\ failure' = None /\ (Kept' <=> Kept)
    BY <1>1, <2>3, SameFrame DEF Done
  <2>7. \A c \in Counts : count[c] \in Nat
    BY DEF ServerInv, Shaped
  <2>8. RequestsAccountedFor'
    BY <1>1, <2>1, <2>5, <2>6, <2>7 DEF ServerInv, RequestsAccountedFor, Counts
  <2>9. BooksWithin'
    BY <1>1, <2>1, <2>5, <2>6, <2>7, ServerBoundsAssumption DEF ServerInv, BooksWithin, Counts
  <2>10. Shaped'
    BY <1>1, <1>2, <2>4, <2>6, ShapedStep DEF ServerInv, Threads
  <2>11. FrameIsAsked' /\ KnowsService'
    BY <1>1, <2>6 DEF ServerInv, FrameIsAsked, KnowsService
  <2>12. QED
    BY <1>2, <2>8, <2>9, <2>10, <2>11 DEF ServerInv
<1>6. CASE /\ Failing \in {None, "malformed"}
           /\ failure' = Failing /\ thread' = "admitting" /\ UNCHANGED <<reply, count>>
  <2>1. Kept' <=> Kept
    BY <1>1, SameFrame
  <2>2. RequestsAccountedFor' /\ BooksWithin'
    BY <1>1, <1>6, <2>1 DEF ServerInv, RequestsAccountedFor, BooksWithin
  <2>3. Shaped'
    <3>1. count' \in [Counts -> Nat] /\ thread' \in Threads /\ failure' \in {None, "malformed"}
      BY <1>6 DEF ServerInv, Shaped, Threads
    <3>2. QED
      BY <1>1, <1>2, <3>1, ShapedStep DEF ServerInv
  <2>4. FrameIsAsked' /\ KnowsService'
    BY <1>1, <1>6 DEF ServerInv, FrameIsAsked, KnowsService
  <2>5. QED
    BY <1>2, <2>2, <2>3, <2>4 DEF ServerInv
<1>7. QED
  BY <1>4, <1>5, <1>6 DEF CheckFailures

LEMMA InvAdmit ==
  ASSUME ServerInv, Admit
  PROVE  ServerInv'
<1>1. /\ thread = "admitting"
      /\ UNCHANGED <<store, settings, asked, frame, life, settled>>
  BY DEF Admit
<1>2. StoreShaped' /\ WinnerHeld'
  <2>1. objects' = objects /\ priority_arrays' = priority_arrays
    BY <1>1 DEF store
  <2>2. StoreShaped'
    BY <2>1 DEF ServerInv, Shaped, StoreShaped
  <2>3. WinnerHeld'
    BY <1>1, StoreKept DEF ServerInv
  <2>4. QED
    BY <2>2, <2>3
<1>3. PICK write \in SUBSET {"write_requests"} :
        write = Only(Asks("WriteProperty") /\ writing # None, "write_requests")
  BY DEF Only
<1>4. write # {} => Kept
  BY <1>3 DEF Only, Kept
<1>5. \A c \in Counts : count[c] \in Nat
  BY DEF ServerInv, Shaped
<1>6. /\ Kept' <=> Kept
      /\ Asks("WriteProperty")' <=> Asks("WriteProperty")
  BY <1>1, SameFrame
<1>7. CASE mode = "offline" /\ NoReply(write \union Only(Kept, "requests_while_offline"))
  <2>1. PICK names \in SUBSET Counts : names = write \union Only(Kept, "requests_while_offline")
    BY DEF Counts, Only
  <2>2. Tally(names) /\ Done
    BY <1>7, <2>1 DEF NoReply
  <2>3. /\ count' \in [Counts -> Nat]
        /\ \A c \in Counts : count'[c] = IF c \in names THEN count[c] + 1 ELSE count[c]
    BY <2>2, Tallied DEF ServerInv, Shaped
  <2>4. /\ count'["requests_while_offline"]
             = IF Kept THEN count["requests_while_offline"] + 1 ELSE count["requests_while_offline"]
        /\ count'["write_requests"] = count["write_requests"]
             \/ (Kept /\ count'["write_requests"] = count["write_requests"] + 1)
        /\ \A c \in Counts \ {"requests_while_offline", "write_requests"} : count'[c] = count[c]
    BY <1>4, <2>1, <2>3 DEF Counts, Only
  <2>5. thread' = "waiting" /\ failure' = None
    BY <2>2 DEF Done
  <2>6. RequestsAccountedFor'
    BY <1>1, <1>5, <1>6, <2>4, <2>5 DEF ServerInv, RequestsAccountedFor, Counts
  <2>7. BooksWithin'
    BY <1>1, <1>5, <1>6, <2>4, <2>5, ServerBoundsAssumption DEF ServerInv, BooksWithin, Counts
  <2>8. Shaped'
    BY <1>1, <1>2, <2>3, <2>5, ShapedStep DEF ServerInv, Threads
  <2>9. FrameIsAsked' /\ KnowsService'
    BY <1>1, <2>5 DEF ServerInv, FrameIsAsked, KnowsService
  <2>10. QED
    BY <1>2, <2>6, <2>7, <2>8, <2>9 DEF ServerInv
<1>8. CASE /\ mode # "offline" /\ Tally(write)
           /\ Proceed(IF Asks("WriteProperty") THEN "writing" ELSE "reading")
  <2>1. PICK names \in SUBSET Counts : names = write
    BY DEF Counts
  <2>2. Tally(names)
    BY <1>8, <2>1
  <2>3. /\ count' \in [Counts -> Nat]
        /\ \A c \in Counts : count'[c] = IF c \in names THEN count[c] + 1 ELSE count[c]
    BY <2>2, Tallied DEF ServerInv, Shaped
  <2>4. /\ count'["write_requests"] = count["write_requests"]
             \/ (Kept /\ count'["write_requests"] = count["write_requests"] + 1)
        /\ \A c \in Counts \ {"write_requests"} : count'[c] = count[c]
    BY <1>4, <2>1, <2>3 DEF Counts
  <2>5. /\ thread' = (IF Asks("WriteProperty") THEN "writing" ELSE "reading")
        /\ failure' = failure
    BY <1>8 DEF Proceed
  <2>6. RequestsAccountedFor'
    BY <1>1, <1>5, <1>6, <2>4, <2>5 DEF ServerInv, RequestsAccountedFor, Counts
  <2>7. BooksWithin'
    BY <1>1, <1>5, <1>6, <2>4, <2>5, ServerBoundsAssumption DEF ServerInv, BooksWithin, Counts
  <2>8. Shaped'
    <3>1. failure' \in {None, "malformed"}
      BY <2>5 DEF ServerInv, Shaped
    <3>2. QED
      BY <1>1, <1>2, <2>3, <2>5, <3>1, ShapedStep DEF ServerInv, Threads
  <2>9. FrameIsAsked' /\ KnowsService'
    BY <1>1, <1>6, <2>5 DEF ServerInv, FrameIsAsked, KnowsService
  <2>10. QED
    BY <1>2, <2>6, <2>7, <2>8, <2>9 DEF ServerInv
<1>9. QED
  BY <1>3, <1>7, <1>8 DEF Admit

\* What is read is answered: only what is none of the three services is not.
LEMMA InvServe ==
  ASSUME ServerInv, Serve
  PROVE  ServerInv'
<1>1. /\ thread = "reading"
      /\ UNCHANGED <<store, settings, asked, frame, life, settled>>
  BY DEF Serve
<1>2. StoreShaped' /\ WinnerHeld'
  <2>1. objects' = objects /\ priority_arrays' = priority_arrays
    BY <1>1 DEF store
  <2>2. StoreShaped'
    BY <2>1 DEF ServerInv, Shaped, StoreShaped
  <2>3. WinnerHeld'
    BY <1>1, StoreKept DEF ServerInv
  <2>4. QED
    BY <2>2, <2>3
<1>3. ~Asks("WriteProperty") /\ (Asks("ReadProperty") => reading # None)
  <2>1. asked \in Requests /\ frame = Frame(Datagram(asked))
    BY <1>1 DEF ServerInv, Shaped, FrameIsAsked
  <2>2. PICK r \in Requests : r = asked
    BY <2>1
  <2>3. frame = Frame(Datagram(r))
    BY <2>1, <2>2
  <2>4. QED
    BY <1>1, <2>3, FrameRead DEF ServerInv, KnowsService
<1>4. Asks("ReadPropertyMultiple") \/ Asks("ReadProperty") => Kept
  BY DEF Kept
<1>5. ASSUME NEW also \in SUBSET {"read_requests", "array_reads"}, also # {} => Kept,
             Tally(also \union Only(Kept, "answered")), Done
      PROVE  ServerInv'
  BY <1>1, <1>2, <1>5, AnswerStep
<1>6. CASE Asks("ReadPropertyMultiple") /\ Reply(MultipleAnswer, {"read_requests"})
  BY <1>4, <1>5, <1>6 DEF Reply
<1>7. CASE Malformed /\ Reply(Ack(None, Null), {})
  BY <1>5, <1>7 DEF Reply
<1>8. CASE /\ Refused
           /\ Reply(abort_pdu(apdu.invoke_id, "SEGMENTATION_NOT_SUPPORTED"), {"read_requests"})
  BY <1>4, <1>5, <1>8 DEF Reply, Refused, Listed
<1>9. CASE Element /\ Reply(ElementAnswer, {"read_requests", "array_reads"})
  BY <1>4, <1>5, <1>9 DEF Reply, Element, Listed
<1>10. CASE /\ Listed /\ ~Malformed /\ ~Refused /\ ~Element
            /\ Reply(IF value = None THEN ReadError("UNKNOWN_PROPERTY") ELSE Ack(None, value),
                     {"read_requests"})
  BY <1>4, <1>5, <1>10 DEF Reply, Listed
<1>11. CASE Asks("ReadProperty") /\ ~Listed /\ reading # None /\ Reply(ReadDevice, {})
  BY <1>5, <1>11 DEF Reply
<1>12. CASE AnswersWhoIs /\ Reply(i_am(Instance), {})
  BY <1>5, <1>12 DEF Reply
<1>13. CASE /\ ~Asks("ReadPropertyMultiple") /\ ~AnswersWhoIs
            /\ Asks("ReadProperty") => reading = None
            /\ NoReply({})
  <2>1. ~Kept
    BY <1>3, <1>13 DEF Kept
  <2>2. {} = {} \union Only(Kept, "answered")
    BY <2>1 DEF Only
  <2>3. Tally({}) /\ Done
    BY <1>13 DEF NoReply
  <2>4. Tally({} \union Only(Kept, "answered"))
    BY <2>2, <2>3
  <2>5. QED
    BY <1>5, <2>3, <2>4
<1>14. QED
  BY <1>6, <1>7, <1>8, <1>9, <1>10, <1>11, <1>12, <1>13 DEF Serve

\* What is read of a write that the thread has in hand.
LEMMA WriteInHand ==
  ASSUME ServerInv, thread \in {"writing", "accepting", "commanding"}
  PROVE  /\ asked \in Requests /\ asked.service = "WriteProperty" /\ Kept
         /\ writing = [object |-> asked.object, property |-> asked.property,
                       array_index |-> asked.index, value |-> asked.value,
                       priority |-> asked.priority]
         /\ writing # None
<1>1. asked \in Requests /\ frame = Frame(Datagram(asked)) /\ Asks("WriteProperty")
  BY DEF ServerInv, Shaped, FrameIsAsked, KnowsService
<1>2. PICK r \in Requests : r = asked
  BY <1>1
<1>3. frame = Frame(Datagram(r))
  BY <1>1, <1>2
<1>4. QED
  BY <1>1, <1>2, <1>3, FrameRead DEF Kept

\* A step that answers nothing and counts nothing, and stores or does not.
LEMMA ProceedStep ==
  ASSUME ServerInv, UNCHANGED <<settings, asked, frame, life, settled, count>>,
         StoreShaped', WinnerHeld', thread \in {"writing", "accepting"},
         NEW next \in {"accepting", "commanding"}, Proceed(next),
         next = "commanding" => commanded
  PROVE  ServerInv'
<1>1. thread' = next /\ failure' = failure /\ frame' = frame /\ asked' = asked /\ count' = count
  BY DEF Proceed
<1>2. /\ Kept' <=> Kept
      /\ Asks("WriteProperty")' <=> Asks("WriteProperty")
      /\ commanded' <=> commanded
  BY <1>1, SameFrame
<1>3. RequestsAccountedFor' /\ BooksWithin'
  BY <1>1, <1>2 DEF ServerInv, RequestsAccountedFor, BooksWithin
<1>4. Shaped'
  <2>1. thread' \in Threads /\ failure' \in {None, "malformed"} /\ count' \in [Counts -> Nat]
    BY <1>1 DEF ServerInv, Shaped, Threads
  <2>2. QED
    BY <2>1, ShapedStep DEF ServerInv
<1>5. FrameIsAsked' /\ KnowsService'
  BY <1>1, <1>2 DEF ServerInv, FrameIsAsked, KnowsService
<1>6. QED
  BY <1>3, <1>4, <1>5 DEF ServerInv

LEMMA InvCheckNull ==
  ASSUME ServerInv, CheckNull
  PROVE  ServerInv'
<1>1. /\ thread = "writing"
      /\ UNCHANGED <<store, settings, asked, frame, life, settled>>
  BY DEF CheckNull
<1>2. StoreShaped' /\ WinnerHeld'
  <2>1. objects' = objects /\ priority_arrays' = priority_arrays
    BY <1>1 DEF store
  <2>2. StoreShaped'
    BY <2>1 DEF ServerInv, Shaped, StoreShaped
  <2>3. WinnerHeld'
    BY <1>1, StoreKept DEF ServerInv
  <2>4. QED
    BY <2>2, <2>3
<1>3. writing # None
  BY <1>1, WriteInHand
<1>4. CASE Relinquishes /\ Reply(simple_ack(apdu.invoke_id, "WriteProperty"), {})
  <2>1. Tally({} \union Only(Kept, "answered")) /\ Done
    BY <1>4 DEF Reply
  <2>2. QED
    BY <1>1, <1>2, <2>1, AnswerStep
<1>5. CASE Proceed("accepting") /\ UNCHANGED count
  BY <1>1, <1>2, <1>5, ProceedStep
<1>6. QED
  BY <1>3, <1>4, <1>5 DEF CheckNull

-----------------------------------------------------------------------------
\* The two stores of a write

LEMMA StoreIsShaped ==
  ASSUME StoreShaped, NEW octets, Store(octets),
         DOMAIN priority_arrays' = Commanded,
         \A o \in Commanded : DOMAIN priority_arrays'[o] = 1..16
  PROVE  StoreShaped'
<1>1. objects' = [objects EXCEPT ![writing.object] =
                    [property \in DOMAIN @ \union {writing.property} |->
                       IF property = writing.property THEN octets ELSE @[property]]]
  BY DEF Store
<1>2. DOMAIN objects' = DOMAIN objects
  BY <1>1
<1>3. \A o \in DOMAIN objects : DOMAIN objects[o] \subseteq DOMAIN objects'[o]
  BY <1>1
<1>4. QED
  BY <1>2, <1>3 DEF StoreShaped

\* What a store leaves of the other properties.
LEMMA StoreLeaves ==
  ASSUME NEW octets, Store(octets), NEW o \in DOMAIN objects,
         "PRESENT_VALUE" \in DOMAIN objects[o]
  PROVE  /\ o # writing.object => objects'[o] = objects[o]
         /\ writing.property # "PRESENT_VALUE" =>
              objects'[o]["PRESENT_VALUE"] = objects[o]["PRESENT_VALUE"]
         /\ o = writing.object /\ writing.property = "PRESENT_VALUE" =>
              objects'[o]["PRESENT_VALUE"] = octets
  BY DEF Store

LEMMA InvAccept ==
  ASSUME ServerInv, Accept
  PROVE  ServerInv'
<1>1. /\ thread = "accepting"
      /\ UNCHANGED <<priority_arrays, settings, asked, frame, life, settled>>
  BY DEF Accept
<1>2. \A o \in Commanded : objects[o]["PRESENT_VALUE"] = Winner(o, priority_arrays[o])
  BY <1>1 DEF ServerInv, WinnerHeld
<1>3. CASE UNCHANGED objects /\ Done /\ Tally({} \union Only(Kept, "answered"))
  <2>1. StoreShaped'
    BY <1>1, <1>3 DEF ServerInv, Shaped, StoreShaped
  <2>2. WinnerHeld'
    BY <1>1, <1>2, <1>3 DEF WinnerHeld
  <2>3. QED
    BY <1>1, <1>3, <2>1, <2>2, AnswerStep
<1>4. CASE /\ Known /\ Store(writing.value)
           /\ IF commanded THEN Proceed("commanding") /\ UNCHANGED count
              ELSE Reply(simple_ack(apdu.invoke_id, "WriteProperty"), {})
  <2>1. StoreShaped'
    <3>1. PICK octets : octets = writing.value
      OBVIOUS
    <3>2. Store(octets)
      BY <1>4, <3>1
    <3>3. /\ StoreShaped /\ DOMAIN priority_arrays' = Commanded
          /\ \A o \in Commanded : DOMAIN priority_arrays'[o] = 1..16
      BY <1>1 DEF ServerInv, Shaped, StoreShaped
    <3>4. QED
      BY <3>2, <3>3, StoreIsShaped
  <2>2. ASSUME NEW o \in Commanded, ~(o = writing.object /\ commanded)
        PROVE  objects'[o]["PRESENT_VALUE"] = Winner(o, priority_arrays'[o])
    <3>1. PICK octets : octets = writing.value
      OBVIOUS
    <3>2. Store(octets)
      BY <1>4, <3>1
    <3>3. o \in DOMAIN objects /\ "PRESENT_VALUE" \in DOMAIN objects[o]
      BY CommandableAssumption DEF ServerInv, Shaped, StoreShaped
    <3>4. objects'[o]["PRESENT_VALUE"] = objects[o]["PRESENT_VALUE"]
      <4>1. o # writing.object \/ writing.property # "PRESENT_VALUE"
        BY <2>2 DEF commanded
      <4>2. QED
        BY <3>2, <3>3, <4>1, StoreLeaves
    <3>5. QED
      BY <1>1, <1>2, <3>4
  <2>3. CASE commanded /\ Proceed("commanding") /\ UNCHANGED count
    <3>1. thread' = "commanding" /\ writing' = writing
      BY <1>1, <2>3, SameFrame DEF Proceed
    <3>2. WinnerHeld'
      BY <2>2, <3>1 DEF WinnerHeld
    <3>3. QED
      BY <1>1, <2>1, <2>3, <3>2, ProceedStep
  <2>4. CASE ~commanded /\ Reply(simple_ack(apdu.invoke_id, "WriteProperty"), {})
    <3>1. WinnerHeld'
      BY <2>2, <2>4 DEF WinnerHeld
    <3>2. Tally({} \union Only(Kept, "answered")) /\ Done
      BY <2>4 DEF Reply
    <3>3. QED
      BY <1>1, <2>1, <3>1, <3>2, AnswerStep
  <2>5. QED
    BY <1>4, <2>3, <2>4
<1>5. QED
  BY <1>3, <1>4 DEF Accept, Reply

LEMMA InvCommandSlot ==
  ASSUME ServerInv, CommandSlot
  PROVE  ServerInv'
<1>1. /\ thread = "commanding"
      /\ UNCHANGED <<settings, asked, frame, life, settled>>
      /\ Tally({} \union Only(Kept, "answered")) /\ Done
  BY DEF CommandSlot, Reply
<1>2. PICK slots : /\ slots = [priority_arrays[writing.object] EXCEPT
                                ![Slot] = IF is_null THEN None ELSE writing.value]
                   /\ priority_arrays' = [priority_arrays EXCEPT ![writing.object] = slots]
                   /\ Store(Winner(writing.object, slots))
  BY DEF CommandSlot
<1>3. writing.object \in Commanded /\ writing.property = "PRESENT_VALUE"
  BY <1>1 DEF ServerInv, KnowsService, commanded
<1>4. StoreShaped /\ DOMAIN slots = 1..16
  BY <1>2, <1>3 DEF ServerInv, Shaped, StoreShaped
<1>5. PICK octets : octets = Winner(writing.object, slots) /\ Store(octets)
  BY <1>2
<1>6. StoreShaped'
  <2>1. DOMAIN priority_arrays' = Commanded
    BY <1>2, <1>4 DEF StoreShaped
  <2>2. \A o \in Commanded : DOMAIN priority_arrays'[o] = 1..16
    BY <1>2, <1>3, <1>4 DEF StoreShaped
  <2>3. QED
    BY <1>4, <1>5, <2>1, <2>2, StoreIsShaped
<1>7. ASSUME NEW o \in Commanded
      PROVE  objects'[o]["PRESENT_VALUE"] = Winner(o, priority_arrays'[o])
  <2>1. o \in DOMAIN objects /\ "PRESENT_VALUE" \in DOMAIN objects[o]
    BY <1>4, CommandableAssumption DEF StoreShaped
  <2>2. CASE o = writing.object
    <3>1. objects'[o]["PRESENT_VALUE"] = octets
      BY <1>3, <1>5, <2>1, <2>2, StoreLeaves
    <3>2. priority_arrays'[o] = slots
      BY <1>2, <1>3, <1>4, <2>2 DEF StoreShaped
    <3>3. QED
      BY <1>5, <2>2, <3>1, <3>2
  <2>3. CASE o # writing.object
    <3>1. objects'[o] = objects[o]
      BY <1>5, <2>1, <2>3, StoreLeaves
    <3>2. priority_arrays'[o] = priority_arrays[o]
      BY <1>2, <1>4, <2>3 DEF StoreShaped
    <3>3. objects[o]["PRESENT_VALUE"] = Winner(o, priority_arrays[o])
      BY <2>3 DEF ServerInv, WinnerHeld
    <3>4. QED
      BY <3>1, <3>2, <3>3
  <2>4. QED
    BY <2>2, <2>3
<1>8. WinnerHeld'
  BY <1>7 DEF WinnerHeld
<1>9. QED
  BY <1>1, <1>6, <1>8, AnswerStep

-----------------------------------------------------------------------------
\* The test's steps, and the end of the thread

LEMMA InvChange ==
  ASSUME ServerInv, SetMode \/ SetFailure \/ RefuseWhole
  PROVE  ServerInv'
<1>1. /\ changes < MaxChanges /\ changes' = changes + 1 /\ settled' = FALSE
      /\ UNCHANGED <<store, thread, asked, frame, failure, reply, count, life>>
  BY DEF SetMode, SetFailure, RefuseWhole, Change
<1>2. /\ UNCHANGED <<objects, priority_arrays, thread, asked, frame, failure, count>>
      /\ running' = running /\ closed' = closed
  BY <1>1 DEF store, life
<1>3. /\ Kept' <=> Kept
      /\ Asks("WriteProperty")' <=> Asks("WriteProperty")
      /\ commanded' <=> commanded
      /\ writing' = writing
  BY <1>2, SameFrame
<1>4. FrameIsAsked' /\ KnowsService' /\ RequestsAccountedFor' /\ BooksWithin' /\ WinnerHeld'
  BY <1>2, <1>3
     DEF ServerInv, FrameIsAsked, KnowsService, RequestsAccountedFor, BooksWithin, WinnerHeld
<1>5. mode' \in Modes /\ DOMAIN failures' \subseteq FailingObjects /\ whole_arrays_refused' \subseteq Whole
  <2>1. CASE SetMode
    BY <2>1 DEF SetMode, ServerInv, Shaped
  <2>2. CASE SetFailure
    BY <2>2 DEF SetFailure, ServerInv, Shaped
  <2>3. CASE RefuseWhole
    BY <2>3 DEF RefuseWhole, ServerInv, Shaped
  <2>4. QED
    BY <2>1, <2>2, <2>3
<1>6. changes' \in 0..MaxChanges
  BY <1>1, ServerBoundsAssumption DEF ServerInv, Shaped
<1>7. {running, closed, settled}' \subseteq BOOLEAN
  BY <1>1, <1>2 DEF ServerInv, Shaped
<1>8. StoreShaped'
  BY <1>2 DEF ServerInv, Shaped, StoreShaped
<1>9. Shaped'
  BY <1>2, <1>5, <1>6, <1>7, <1>8 DEF ServerInv, Shaped
<1>10. QED
  BY <1>4, <1>9 DEF ServerInv

LEMMA InvEnding ==
  ASSUME ServerInv, Ending
  PROVE  ServerInv'
<1>1. /\ UNCHANGED <<store, settings, asked, frame, failure, reply, count, settled>>
      /\ thread' = thread \/ (thread = "waiting" /\ thread' = "ended")
      /\ running' \in {running, FALSE} /\ closed' \in {closed, TRUE}
  BY DEF Ending, Stop, Leave, Close, life
<1>2. /\ UNCHANGED <<objects, priority_arrays, asked, frame, failure, count, settled>>
      /\ UNCHANGED <<mode, failures, whole_arrays_refused, changes>>
  BY <1>1 DEF store, settings
<1>3. /\ Kept' <=> Kept
      /\ Asks("WriteProperty")' <=> Asks("WriteProperty")
      /\ commanded' <=> commanded
      /\ writing' = writing
  BY <1>2, SameFrame
<1>4. FrameIsAsked' /\ KnowsService'
  BY <1>1, <1>2, <1>3 DEF ServerInv, FrameIsAsked, KnowsService
<1>5. RequestsAccountedFor' /\ BooksWithin'
  BY <1>1, <1>2, <1>3 DEF ServerInv, RequestsAccountedFor, BooksWithin
<1>6. WinnerHeld'
  BY <1>1, <1>2, <1>3 DEF ServerInv, WinnerHeld
<1>7. {running, closed, settled}' \subseteq BOOLEAN
  BY <1>1, <1>2 DEF ServerInv, Shaped
<1>8. StoreShaped'
  BY <1>2 DEF ServerInv, Shaped, StoreShaped
<1>9. Shaped'
  BY <1>1, <1>2, <1>7, <1>8 DEF ServerInv, Shaped, Threads
<1>10. QED
  BY <1>4, <1>5, <1>6, <1>9 DEF ServerInv

LEMMA InvStutter ==
  ASSUME ServerInv, UNCHANGED vars
  PROVE  ServerInv'
<1>1. /\ UNCHANGED <<objects, priority_arrays, asked, frame, failure, count, settled, thread>>
      /\ UNCHANGED <<mode, failures, whole_arrays_refused, changes, running, closed>>
  BY DEF vars, store, settings, life
<1>2. /\ Kept' <=> Kept
      /\ Asks("WriteProperty")' <=> Asks("WriteProperty")
      /\ commanded' <=> commanded
      /\ writing' = writing
  BY <1>1, SameFrame
<1>3. FrameIsAsked' /\ KnowsService' /\ RequestsAccountedFor' /\ BooksWithin' /\ WinnerHeld'
  BY <1>1, <1>2
     DEF ServerInv, FrameIsAsked, KnowsService, RequestsAccountedFor, BooksWithin, WinnerHeld
<1>4. Shaped'
  BY <1>1 DEF ServerInv, Shaped, StoreShaped
<1>5. QED
  BY <1>3, <1>4 DEF ServerInv

LEMMA InvInit ==
  ASSUME Init
  PROVE  ServerInv
<1>1. Shaped
  <2>1. StoreShaped
    BY DEF Init, StoreShaped
  <2>2. failures = <<>> /\ DOMAIN failures \subseteq FailingObjects
    BY DEF Init
  <2>3. count \in [Counts -> Nat]
    BY DEF Init
  <2>4. changes \in 0..MaxChanges
    BY ServerBoundsAssumption DEF Init
  <2>5. QED
    BY <2>1, <2>2, <2>3, <2>4, SettingsAssumption DEF Init, Shaped, Threads
<1>2. FrameIsAsked /\ KnowsService
  BY DEF Init, FrameIsAsked, KnowsService
<1>3. \A c \in Counts : count[c] = 0
  BY DEF Init
<1>4. RequestsAccountedFor /\ BooksWithin
  BY <1>3, ServerBoundsAssumption DEF Init, RequestsAccountedFor, BooksWithin, Counts
<1>5. WinnerHeld
  <2>1. ASSUME NEW o \in Commanded
        PROVE  objects[o]["PRESENT_VALUE"] = Winner(o, priority_arrays[o])
    <3>1. priority_arrays[o] = [p \in 1..16 |-> None]
      BY DEF Init
    <3>2. {p \in DOMAIN priority_arrays[o] : priority_arrays[o][p] # None} = {}
      BY <3>1
    <3>3. QED
      BY <3>2 DEF Init, Winner
  <2>2. QED
    BY <2>1 DEF WinnerHeld
<1>6. QED
  BY <1>1, <1>2, <1>4, <1>5 DEF ServerInv

\* The invariant the promises rest on: whatever the settings are changed to
\* between two looks of the thread, the frame in hand is that of the request
\* asked, the books close and a commanded object holds its winner.
THEOREM ServerInductive == ServerSpec => []ServerInv
<1>1. Init => ServerInv
  BY InvInit
<1>2. ServerInv /\ [Next]_vars => ServerInv'
  <2> SUFFICES ASSUME ServerInv, [Next]_vars PROVE ServerInv'
    OBVIOUS
  <2>1. CASE \E r \in Requests : Receive(r)
    BY <2>1, InvReceive
  <2>2. CASE Answer
    BY <2>2, InvCheckFailures, InvAdmit, InvServe, InvCheckNull, InvAccept, InvCommandSlot
       DEF Answer
  <2>3. CASE SetMode \/ SetFailure \/ RefuseWhole
    BY <2>3, InvChange
  <2>4. CASE Ending
    BY <2>4, InvEnding
  <2>5. CASE UNCHANGED vars
    BY <2>5, InvStutter
  <2>6. QED
    BY <2>1, <2>2, <2>3, <2>4, <2>5 DEF Next
<1>3. QED
  BY <1>1, <1>2, PTL DEF ServerSpec

-----------------------------------------------------------------------------
\* What the runs check

\* The server's variables keep their types whatever arrives and whatever the
\* test sets: no list holds more than has arrived.
THEOREM ServerTypeCorrect == ServerSpec => []ServerTypeOK
<1>1. ServerInv => ServerTypeOK
  <2> SUFFICES ASSUME ServerInv PROVE ServerTypeOK
    OBVIOUS
  <2>1. \A c \in Counts : count[c] \in Nat
    BY DEF ServerInv, Shaped
  <2>2. \A c \in Counts : count[c] <= MaxRequests
    BY <2>1, ServerBoundsAssumption DEF ServerInv, RequestsAccountedFor, BooksWithin, Counts
  <2>3. count \in [Counts -> 0..MaxRequests]
    BY <2>1, <2>2, ServerBoundsAssumption DEF ServerInv, Shaped
  <2>4. QED
    BY <2>3 DEF ServerInv, Shaped, StoreShaped, ServerTypeOK
<1>2. QED
  BY <1>1, ServerInductive, PTL

\* No ReadProperty, ReadPropertyMultiple or WriteProperty is lost from the
\* server's books, whatever value it carries and however mode and failures
\* change between the thread's four looks at them.
THEOREM NoneLostFromBooks == ServerSpec => []RequestsAccountedFor
<1>1. ServerInv => RequestsAccountedFor
  BY DEF ServerInv
<1>2. QED
  BY <1>1, ServerInductive, PTL

-----------------------------------------------------------------------------
\* The objects that are commanded implement CommandableProperty

\* The winner of a priority array is the one CommandableProperty names.
LEMMA WinnerWins ==
  ASSUME NEW o \in Commanded, NEW slots, DOMAIN slots = 1..16
  PROVE  Command(o)!Winning(slots) = Winner(o, slots)
  BY DEF Command!Winning, Command!Filled, Command!Priorities, Winner, Min

\* What the refinement takes for the Present_Value is the winner all along.
Present(o) ==
  IF thread = "commanding" /\ writing.object = o
  THEN Winner(o, priority_arrays[o]) ELSE objects[o]["PRESENT_VALUE"]

LEMMA PresentIsWinner ==
  ASSUME ServerInv
  PROVE  \A o \in Commanded : Present(o) = Winner(o, priority_arrays[o])
  BY DEF ServerInv, WinnerHeld, Present

\* A write fills or empties one slot of one object, with a value that was asked.
LEMMA CommandsOne ==
  ASSUME ServerInv, CommandSlot, NEW o \in Commanded, o = writing.object
  PROVE  \E p \in 1..16, v \in WrittenValues \union {None} :
           priority_arrays'[o] = [priority_arrays[o] EXCEPT ![p] = v]
<1>1. thread = "commanding"
  BY DEF CommandSlot
<1>2. /\ asked \in Requests /\ asked.service = "WriteProperty"
      /\ writing = [object |-> asked.object, property |-> asked.property,
                    array_index |-> asked.index, value |-> asked.value,
                    priority |-> asked.priority]
  BY <1>1, WriteInHand
<1>3. Slot \in 1..16
  <2>1. writing.priority \in 1..16 \union {None}
    BY <1>2, RequestsAssumption
  <2>2. PRIORITY_DEFAULT \in 1..16
    BY DEF PRIORITY_DEFAULT
  <2>3. QED
    BY <2>1, <2>2 DEF Slot
<1>4. PICK v : v = IF is_null THEN None ELSE writing.value
  OBVIOUS
<1>5. v \in WrittenValues \union {None}
  <2>1. CASE is_null
    BY <1>4, <2>1
  <2>2. CASE ~is_null
    <3>1. v = asked.value
      BY <1>2, <1>4, <2>2
    <3>2. v # Null
      BY <1>2, <2>2, <3>1, SMTT(30) DEF is_null, Null, application_tag, application, Tag
    <3>3. v \in {r.value : r \in {q \in Requests : q.service = "WriteProperty"}}
      BY <1>2, <3>1
    <3>4. QED
      BY <3>2, <3>3 DEF WrittenValues
  <2>3. QED
    BY <2>1, <2>2
<1>6. priority_arrays'[o] = [priority_arrays[o] EXCEPT ![Slot] = v]
  <2>1. priority_arrays' = [priority_arrays EXCEPT ![o] = [priority_arrays[o] EXCEPT ![Slot] = v]]
    BY <1>4 DEF CommandSlot
  <2>2. o \in DOMAIN priority_arrays
    BY DEF ServerInv, Shaped, StoreShaped
  <2>3. QED
    BY <2>1, <2>2
<1>7. QED
  BY <1>3, <1>5, <1>6

\* No other step fills or empties a slot.
LEMMA CommandsNoOther ==
  ASSUME ServerInv, [Next]_vars, NEW o \in Commanded, ~(CommandSlot /\ o = writing.object)
  PROVE  priority_arrays'[o] = priority_arrays[o]
<1>1. CASE CommandSlot
  <2>1. o # writing.object
    BY <1>1
  <2>2. QED
    BY <1>1, <2>1 DEF CommandSlot, ServerInv, Shaped, StoreShaped
<1>2. CASE ~CommandSlot
  BY <1>2 DEF Next, vars, store, Receive, Answer, CheckFailures, Admit, Serve, CheckNull, Accept,
              SetMode, SetFailure, RefuseWhole, Change, Ending
<1>3. QED
  BY <1>1, <1>2

\* Each commanded object of the server is a priority array that is written one
\* slot at a time and whose winning slot is its Present_Value in the same step,
\* although the thread stores the value as it came before it picks the winner.
THEOREM CommandablePromiseKept == ServerSpec => ServesCommandable
<1>1. Init => \A o \in Commanded : Command(o)!Init
  <2> SUFFICES ASSUME Init, NEW o \in Commanded PROVE Command(o)!Init
    OBVIOUS
  <2>1. priority_arrays[o] = [p \in 1..16 |-> None] /\ thread = "waiting" /\ objects = Objects
    BY DEF Init
  <2>2. QED
    BY <2>1 DEF Command!Init, Command!Priorities
<1>2. ServerInv /\ ServerInv' /\ [Next]_vars =>
        [\A o \in Commanded : UNCHANGED Command(o)!commandVars \/ Command(o)!Next]_vars
  <2> SUFFICES ASSUME ServerInv, ServerInv', [Next]_vars, NEW o \in Commanded
               PROVE  UNCHANGED Command(o)!commandVars \/ Command(o)!Next
    OBVIOUS
  <2>1. Present(o) = Winner(o, priority_arrays[o]) /\ DOMAIN priority_arrays[o] = 1..16
    BY PresentIsWinner DEF ServerInv, Shaped, StoreShaped
  <2>2. Present(o)' = Winner(o, priority_arrays'[o]) /\ DOMAIN priority_arrays'[o] = 1..16
    BY DEF ServerInv, Shaped, StoreShaped, WinnerHeld, Present
  <2>3. CASE CommandSlot /\ o = writing.object
    BY <2>1, <2>2, <2>3, CommandsOne, WinnerWins
       DEF Command!Next, Command!Command, Command!Priorities, Present
  <2>4. CASE ~(CommandSlot /\ o = writing.object)
    BY <2>1, <2>2, <2>4, CommandsNoOther DEF Command!commandVars, Present
  <2>5. QED
    BY <2>3, <2>4
<1>3. QED
  BY <1>1, <1>2, ServerInductive, PTL DEF ServerSpec, ServesCommandable

-----------------------------------------------------------------------------
\* The way back

\* None is not mistaken for an APDU or a datagram that is there.
NoneIsNothing ==
  /\ \A type, id, name, parameters : None # APDU(type, id, name, parameters)
  /\ \A octets, broadcast : None # bvlc(octets, broadcast)

IsAPDU(answer) ==
  \E type, id, name, parameters : answer = APDU(type, id, name, parameters)

\* An NPDU that goes back through the router it came by.
LEMMA RoutedFields ==
  ASSUME NEW payload, NEW dnet, NEW dadr, dnet # None
  PROVE  LET octets == npdu(payload, None, dnet, dadr, None, None)
         IN  /\ octets.control = {"destination"}
             /\ octets.fields = <<<<dnet, dadr>>, 255, payload>>
<1> DEFINE octets == npdu(payload, None, dnet, dadr, None, None)
<1>1. octets.control = {"destination"}
  BY DEF npdu
<1>2. octets.fields = (((<<<<dnet, dadr>>>> \o <<>>) \o <<255>>) \o <<>>) \o <<payload>>
  BY DEF npdu
<1>3. PICK to : to = <<dnet, dadr>>
  OBVIOUS
<1>4. <<to>> \o <<>> = <<to>>
  BY NothingAround
<1>5. <<to>> \o <<255>> = <<to, 255>>
  BY OneAndOne
<1>6. <<to, 255>> \o <<>> = <<to, 255>>
  <2>1. <<to, 255>> \in Seq({to, 255})
    OBVIOUS
  <2>2. QED
    BY <2>1, ConcatEmptySeq
<1>7. <<to, 255>> \o <<payload>> = <<to, 255, payload>>
  BY TwoAndOne
<1> HIDE DEF octets
<1>8. octets.fields = (((<<to>> \o <<>>) \o <<255>>) \o <<>>) \o <<payload>>
  BY <1>2, <1>3
<1>9. octets.fields = <<to, 255, payload>>
  BY <1>4, <1>5, <1>6, <1>7, <1>8, ZenonT(60)
<1>10. QED
  BY <1>1, <1>3, <1>9 DEF octets

\* The client decodes the answer, which came back the way the request went.
LEMMA BackFrame ==
  ASSUME NEW answer
  PROVE  /\ Frame(RouteBack(answer)).network_message = None
         /\ Frame(RouteBack(answer)).payload = answer
         /\ frame.snet # None => /\ Frame(RouteBack(answer)).dnet = frame.snet
                                 /\ Frame(RouteBack(answer)).dadr = frame.sadr
         /\ frame.snet = None => /\ Frame(RouteBack(answer)).dnet = None
                                 /\ Frame(RouteBack(answer)).dadr = None
<1>1. CASE frame.snet # None
  <2>1. PICK snet, sadr : snet = frame.snet /\ sadr = frame.sadr
    OBVIOUS
  <2> DEFINE octets == npdu(answer, None, snet, sadr, None, None)
  <2>2. octets.control = {"destination"} /\ octets.fields = <<<<snet, sadr>>, 255, answer>>
    BY <1>1, <2>1, RoutedFields
  <2>3. RouteBack(answer) = bvlc(octets, FALSE)
    BY <1>1, <2>1 DEF RouteBack
  <2> HIDE DEF octets
  <2>4. PICK d : d = RouteBack(answer) /\ d.octets = octets /\ d.function = "Original-Unicast"
    BY <2>3 DEF bvlc
  <2>5. d.function \in BVLC_FUNCTIONS_WITH_NPDU
    BY <2>4 DEF BVLC_FUNCTIONS_WITH_NPDU
  <2>6. /\ Frame(d).network_message = None /\ Frame(d).payload = answer
        /\ Frame(d).dnet = snet /\ Frame(d).dadr = sadr
    BY <2>2, <2>4, <2>5 DEF Frame
  <2>7. QED
    BY <1>1, <2>1, <2>4, <2>6
<1>2. CASE frame.snet = None
  <2> DEFINE octets == npdu(answer, None, None, None, None, None)
  <2>1. octets.control = {} /\ octets.fields = <<answer>>
    BY LocalFields
  <2>2. RouteBack(answer) = bvlc(octets, FALSE)
    BY <1>2 DEF RouteBack
  <2> HIDE DEF octets
  <2>3. PICK d : d = RouteBack(answer) /\ d.octets = octets /\ d.function = "Original-Unicast"
    BY <2>2 DEF bvlc
  <2>4. d.function \in BVLC_FUNCTIONS_WITH_NPDU
    BY <2>3 DEF BVLC_FUNCTIONS_WITH_NPDU
  <2>5. /\ Frame(d).network_message = None /\ Frame(d).payload = answer
        /\ Frame(d).dnet = None /\ Frame(d).dadr = None
    BY <2>1, <2>3, <2>4 DEF Frame
  <2>6. QED
    BY <1>2, <2>3, <2>5
<1>3. QED
  BY <1>1, <1>2

-----------------------------------------------------------------------------
\* The answer the settings call for

\* A property whose elements are asked for, of a server that answers them.
Indexed(object, property) ==
  /\ ArrayElements
  /\ \E r \in Requests : /\ r.service = "ReadProperty" /\ r.index # None
                         /\ r.object = object /\ r.property = property

\* A value of the property: the elements of an array are one tag each.
Plain(octets, object, property) ==
  /\ Complete(octets) /\ octets # None
  /\ Indexed(object, property) => \A i \in DOMAIN octets : octets[i].kind = "value"

\* Specifications of a ReadPropertyMultiple that name each object once.
EachOnce(specifications) ==
  /\ \E n \in Nat : DOMAIN specifications = 1..n
  /\ \A k \in DOMAIN specifications :
       \E m \in Nat : DOMAIN specifications[k].references = 1..m
  /\ \A j, k \in DOMAIN specifications :
       specifications[j].object = specifications[k].object => j = k

\* What the clients of this package send and the tests serve: an index is a
\* number, a NULL is written alone, an object is asked about once in a request,
\* a range has both its limits.
AsClientsSend ==
  /\ NoneIsNothing
  /\ \A r \in Requests :
       /\ r.npdu \in BOOLEAN
       /\ r.snet = None => r.sadr = None
       /\ r.service = "ReadProperty" => r.index \in Nat \union {None}
       /\ r.service = "WriteProperty" =>
            /\ Plain(r.value, r.object, r.property)
            /\ application_tag(r.value) = TAG_NULL => r.value = Null
       /\ r.service = "ReadPropertyMultiple" => EachOnce(r.specifications)
       /\ r.service = "Who-Is" => (r.low = None <=> r.high = None)
  /\ \A o \in DOMAIN Objects : \A p \in DOMAIN Objects[o] : Plain(Objects[o][p], o, p)

\* What is served and what is commanded is plain.
StorePlain ==
  /\ \A o \in DOMAIN objects : \A p \in DOMAIN objects[o] : Plain(objects[o][p], o, p)
  /\ \A o \in Commanded : \A p \in 1..16 :
       priority_arrays[o][p] # None => Plain(priority_arrays[o][p], o, "PRESENT_VALUE")

\* What reached the server: neither a network message nor another BVLC function.
Heard == asked.npdu /\ asked.message = None

\* A write that was accepted, by what makes it one.
Accepted ==
  /\ Heard /\ asked.service = "WriteProperty"
  /\ mode \notin {"offline", "refusing"}
  /\ FailureSet \in {None, "malformed"}
  /\ asked.object \in DOMAIN objects
  /\ IF Writable = None THEN asked.property \in DOMAIN objects[asked.object]
     ELSE <<asked.object, asked.property>> \in Writable

\* An APDU as the client tells it.
Says(answer) ==
  CASE answer.type = "ComplexACK" /\ answer.service = "ReadProperty" ->
         <<"value", read_property_value(answer)>>
    [] answer.type = "ComplexACK" /\ answer.service = "ReadPropertyMultiple" ->
         <<"results", parse_read_property_multiple_ack(answer)>>
    [] answer.type = "SimpleACK" -> <<"ack">>
    [] answer.type = "Error" -> <<"error">> \o error_class_and_code(answer.parameters)
    [] answer.type \in {"Reject", "Abort"} -> <<answer.type, answer.parameters[1]>>
    [] answer.type = "UnconfirmedRequest" -> <<"I-Am", i_am_device_instance(answer)>>

Answers(answer) ==
  /\ IsAPDU(answer)
  /\ answer.type \in {"ComplexACK", "SimpleACK", "Error", "Reject", "Abort", "UnconfirmedRequest"}
  /\ answer.type = "ComplexACK" => answer.service \in {"ReadProperty", "ReadPropertyMultiple"}

Fits(answer) ==
  /\ Answers(answer)
  /\ answer.invoke_id = (IF asked.service = "Who-Is" THEN None ELSE 1)
  /\ Says(answer) = Expected

Answered ==
  \/ reply = None /\ Expected = <<"none">>
  \/ asked.npdu /\ \E answer : reply = RouteBack(answer) /\ Fits(answer)
  \/ reply = RouteBack(simple_ack(1, "WriteProperty")) /\ Accepted

\* What the thread has found out, as long as the settings are left alone.
FoundOut ==
  /\ thread \in {"admitting", "reading", "writing", "accepting"} /\ Heard => failure = FailureSet
  /\ thread \in {"reading", "writing", "accepting"} => mode # "offline"
  /\ thread = "accepting" => ~Relinquishes
  /\ thread = "commanding" => Accepted
  /\ thread = "waiting" => Answered

Deciding == asked # None /\ settled => FoundOut

\* What the answers say.
LEMMA AckSays ==
  ASSUME NEW id, NEW object, NEW property, NEW index, NEW list, Complete(list)
  PROVE  LET answer == read_property_ack(id, object, property, index, list)
         IN  Answers(answer) /\ answer.invoke_id = id /\ Says(answer) = <<"value", list>>
<1> DEFINE answer == read_property_ack(id, object, property, index, list)
<1>1. /\ IsAPDU(answer) /\ answer.invoke_id = id
      /\ answer.type = "ComplexACK" /\ answer.service = "ReadProperty"
  BY DEF read_property_ack, APDU, IsAPDU
<1>2. read_property_value(answer) = list
  BY AckReadBack
<1> HIDE DEF answer
<1>3. QED
  BY <1>1, <1>2 DEF Says, Answers, answer

LEMMA OneAndTwo ==
  ASSUME NEW a, NEW b, NEW c
  PROVE  <<a>> \o <<b, c>> = <<a, b, c>>
<1> DEFINE T == {a, b, c}
<1>1. <<a>> \in Seq(T) /\ <<b, c>> \in Seq(T) /\ <<a, b, c>> \in Seq(T)
  OBVIOUS
<1>2. Len(<<a>>) = 1 /\ Len(<<b, c>>) = 2 /\ Len(<<a, b, c>>) = 3
  OBVIOUS
<1>3. /\ <<a>> \o <<b, c>> \in Seq(T) /\ Len(<<a>> \o <<b, c>>) = 3
      /\ \A i \in 1..3 : (<<a>> \o <<b, c>>)[i] = IF i <= 1 THEN <<a>>[i] ELSE <<b, c>>[i - 1]
  BY <1>1, <1>2, ConcatProperties
<1>4. \A i \in 1..3 : (<<a>> \o <<b, c>>)[i] = <<a, b, c>>[i]
  BY <1>3
<1>5. QED
  BY <1>1, <1>2, <1>3, <1>4, SeqEqual

LEMMA ErrorSays ==
  ASSUME NEW id, NEW name, NEW class, NEW code
  PROVE  LET answer == error_pdu(id, name, class, code)
         IN  Answers(answer) /\ answer.invoke_id = id /\ Says(answer) = <<"error", class, code>>
<1> DEFINE answer == error_pdu(id, name, class, code)
<1>1. /\ IsAPDU(answer) /\ answer.invoke_id = id /\ answer.type = "Error"
      /\ answer.parameters = error_parameters(class, code)
  BY DEF error_pdu, APDU, IsAPDU
<1> HIDE DEF answer
<1>2. Says(answer) = <<"error">> \o <<class, code>>
  BY <1>1, ErrorReadBack DEF Says
<1>3. QED
  BY <1>1, <1>2, OneAndTwo DEF Answers, answer

LEMMA OthersSay ==
  /\ \A id, name : LET answer == simple_ack(id, name)
                   IN  Answers(answer) /\ answer.invoke_id = id /\ Says(answer) = <<"ack">>
  /\ \A id, reason : LET answer == reject_pdu(id, reason)
       IN  Answers(answer) /\ answer.invoke_id = id /\ Says(answer) = <<"Reject", reason>>
  /\ \A id, reason : LET answer == abort_pdu(id, reason)
       IN  Answers(answer) /\ answer.invoke_id = id /\ Says(answer) = <<"Abort", reason>>
<1>1. ASSUME NEW id, NEW name, NEW answer, answer = simple_ack(id, name)
      PROVE  Answers(answer) /\ answer.invoke_id = id /\ Says(answer) = <<"ack">>
  <2>1. IsAPDU(answer) /\ answer.type = "SimpleACK" /\ answer.invoke_id = id
    BY <1>1 DEF simple_ack, APDU, IsAPDU
  <2>2. QED
    BY <2>1 DEF Says, Answers
<1>2. ASSUME NEW id, NEW reason, NEW answer, answer = reject_pdu(id, reason)
      PROVE  Answers(answer) /\ answer.invoke_id = id /\ Says(answer) = <<"Reject", reason>>
  <2>1. /\ IsAPDU(answer) /\ answer.type = "Reject" /\ answer.invoke_id = id
        /\ answer.parameters[1] = reason
    BY <1>2 DEF reject_pdu, APDU, IsAPDU
  <2>2. QED
    BY <2>1 DEF Says, Answers
<1>3. ASSUME NEW id, NEW reason, NEW answer, answer = abort_pdu(id, reason)
      PROVE  Answers(answer) /\ answer.invoke_id = id /\ Says(answer) = <<"Abort", reason>>
  <2>1. /\ IsAPDU(answer) /\ answer.type = "Abort" /\ answer.invoke_id = id
        /\ answer.parameters[1] = reason
    BY <1>3 DEF abort_pdu, APDU, IsAPDU
  <2>2. QED
    BY <2>1 DEF Says, Answers
<1>4. QED
  BY <1>1, <1>2, <1>3

LEMMA IAmSays ==
  ASSUME NoneIsNothing
  PROVE  /\ Answers(i_am(Instance)) /\ i_am(Instance).invoke_id = None
         /\ Says(i_am(Instance)) = <<"I-Am", Instance>>
<1>1. PICK parameters : parameters =
        <<application(TAG_OBJECT_IDENTIFIER, <<"DEVICE", Instance>>),
          application(TAG_UNSIGNED, "maxAPDU"), application(TAG_ENUMERATED, "segmentation"),
          application(TAG_UNSIGNED, "vendor")>>
  OBVIOUS
<1>2. PICK answer : answer = i_am(Instance)
  OBVIOUS
<1>3. answer = APDU("UnconfirmedRequest", None, "I-Am", parameters)
  BY <1>1, <1>2 DEF i_am
<1>4. /\ IsAPDU(answer) /\ answer # None /\ answer.invoke_id = None
      /\ answer.type = "UnconfirmedRequest" /\ answer.service = "I-Am"
      /\ answer.parameters = parameters
  BY <1>3 DEF APDU, IsAPDU, NoneIsNothing
<1>5. /\ parameters # <<>> /\ application_tag(parameters) = TAG_OBJECT_IDENTIFIER
      /\ parameters[1].body[1] = "DEVICE" /\ parameters[1].body[2] = Instance
  BY <1>1 DEF application_tag, application, Tag
<1>6. i_am_device_instance(answer) = Instance
  BY <1>4, <1>5 DEF i_am_device_instance
<1>7. Says(answer) = <<"I-Am", Instance>>
  BY <1>4, <1>6 DEF Says
<1>8. QED
  BY <1>2, <1>4, <1>7 DEF Answers

\* A client that hears an answer reads of it what it says, and that it came
\* back the way the request went.
LEMMA SaidIsSays ==
  ASSUME NoneIsNothing, NEW answer, Answers(answer), reply = RouteBack(answer)
  PROVE  /\ reply # None
         /\ Said = Says(answer)
         /\ Frame(reply).payload.invoke_id = answer.invoke_id
<1>1. Frame(reply).network_message = None /\ Frame(reply).payload = answer
  BY BackFrame
<1>2. reply # None
  BY DEF RouteBack, NoneIsNothing
<1>3. answer # None
  BY DEF Answers, IsAPDU, NoneIsNothing
<1>4. PICK heard : heard = Frame(reply)
  OBVIOUS
<1>5. pdu_type(heard) = answer.type
  BY <1>1, <1>3, <1>4 DEF pdu_type
<1>6. pdu_type(heard) # None
  BY <1>5, NoneAssumption DEF Answers
<1>7. service(heard) = answer.service
  BY <1>1, <1>4, <1>6 DEF service
<1>8. heard.payload = answer
  BY <1>1, <1>4
<1>9. Said = Says(answer)
  <2>1. CASE answer.type = "ComplexACK"
    <3>1. CASE answer.service = "ReadProperty"
      <4>1. Said = <<"value", read_property_value(answer)>>
        BY <1>2, <1>4, <1>5, <1>7, <1>8, <2>1, <3>1 DEF Said
      <4>2. QED
        BY <2>1, <3>1, <4>1 DEF Says
    <3>2. CASE answer.service = "ReadPropertyMultiple"
      <4>1. Said = <<"results", parse_read_property_multiple_ack(answer)>>
        BY <1>2, <1>4, <1>5, <1>7, <1>8, <2>1, <3>2 DEF Said
      <4>2. QED
        BY <2>1, <3>2, <4>1 DEF Says
    <3>3. QED
      BY <2>1, <3>1, <3>2 DEF Answers
  <2>2. CASE answer.type = "SimpleACK"
    BY <1>2, <1>4, <1>5, <1>7, <1>8, <2>2 DEF Said, Says
  <2>3. CASE answer.type = "Error"
    BY <1>2, <1>4, <1>5, <1>7, <1>8, <2>3 DEF Said, Says
  <2>4. CASE answer.type \in {"Reject", "Abort"}
    BY <1>2, <1>4, <1>5, <1>7, <1>8, <2>4 DEF Said, Says
  <2>5. CASE answer.type = "UnconfirmedRequest"
    BY <1>2, <1>4, <1>5, <1>7, <1>8, <2>5 DEF Said, Says
  <2>6. QED
    BY <2>1, <2>2, <2>3, <2>4, <2>5 DEF Answers
<1>10. QED
  BY <1>1, <1>2, <1>9

-----------------------------------------------------------------------------
\* What the thread reads of the request it has in hand

LEMMA ConfirmedIs ==
  ASSUME NEW id, NEW name, NEW parameters, NEW request,
         request = confirmed_request(id, name, parameters)
  PROVE  /\ request.type = "ConfirmedRequest" /\ request.service = name
         /\ request.invoke_id = id /\ IsAPDU(request)
<1>1. request = APDU("ConfirmedRequest", id, name, parameters)
  BY DEF confirmed_request
<1>2. IsAPDU(request)
  BY <1>1 DEF IsAPDU
<1>3. QED
  BY <1>1, <1>2 DEF APDU

LEMMA Encoded ==
  ASSUME NEW r
  PROVE  /\ r.service # "Who-Is" =>
              /\ Encode(r).type = "ConfirmedRequest" /\ Encode(r).service = r.service
              /\ Encode(r).invoke_id = 1
         /\ r.service = "Who-Is" =>
              /\ Encode(r).type = "UnconfirmedRequest" /\ Encode(r).service = "Who-Is"
              /\ Encode(r).parameters = optional(0, r.low) \o optional(1, r.high)
         /\ IsAPDU(Encode(r))
<1>1. CASE r.service = "Who-Is"
  <2>1. PICK parameters : parameters = optional(0, r.low) \o optional(1, r.high)
    OBVIOUS
  <2>2. Encode(r) = APDU("UnconfirmedRequest", None, "Who-Is", parameters)
    BY <1>1, <2>1 DEF Encode, who_is
  <2>3. IsAPDU(Encode(r))
    BY <2>2 DEF IsAPDU
  <2>4. QED
    BY <1>1, <2>1, <2>2, <2>3 DEF APDU
<1>2. CASE r.service # "Who-Is"
  <2>1. \E parameters : Encode(r) = confirmed_request(1, r.service, parameters)
    <3>1. CASE r.service = "ReadProperty"
      BY <3>1 DEF Encode, read_property_request
    <3>2. CASE r.service = "WriteProperty"
      BY <3>2 DEF Encode, write_property_request
    <3>3. CASE r.service = "ReadPropertyMultiple"
      BY <3>3 DEF Encode, read_property_multiple_request
    <3>4. CASE r.service = "ConfirmedEventNotification"
      BY <3>4 DEF Encode, event_notification
    <3>5. CASE r.service \notin {"ReadProperty", "WriteProperty", "ReadPropertyMultiple",
                                 "Who-Is", "ConfirmedEventNotification"}
      BY <3>5 DEF Encode
    <3>6. QED
      BY <1>2, <3>1, <3>2, <3>3, <3>4, <3>5
  <2>2. QED
    BY <1>2, <2>1, ConfirmedIs
<1>3. QED
  BY <1>1, <1>2

LEMMA InHand ==
  ASSUME NoneIsNothing, ServerInv, asked # None
  PROVE  /\ asked \in Requests
         /\ asked.npdu => /\ frame.network_message = asked.message
                          /\ frame.snet = asked.snet
                          /\ asked.snet # None => frame.sadr = asked.sadr
         /\ ~asked.npdu => frame.network_message = None
         /\ ~Heard => pdu_type(frame) = None
         /\ Heard => /\ apdu = Encode(asked)
                     /\ pdu_type(frame) = Encode(asked).type
                     /\ service(frame) = Encode(asked).service
<1>1. asked \in Requests /\ frame = Frame(Datagram(asked))
  BY DEF ServerInv, Shaped, FrameIsAsked
<1>2. PICK r : r = asked
  OBVIOUS
<1>3. /\ r.npdu =>
              /\ frame.network_message = r.message
              /\ frame.payload = Encode(r)
              /\ frame.snet = r.snet
              /\ r.snet # None => frame.sadr = r.sadr
      /\ ~r.npdu => frame.network_message = None /\ frame.payload = None
  BY <1>1, <1>2, FrameOf
<1>4. ASSUME ~Heard PROVE pdu_type(frame) = None
  BY <1>2, <1>3, <1>4 DEF pdu_type, Heard
<1>5. ASSUME Heard
      PROVE  /\ apdu = Encode(asked)
             /\ pdu_type(frame) = Encode(asked).type
             /\ service(frame) = Encode(asked).service
  <2>1. frame.network_message = None /\ frame.payload = Encode(asked)
    BY <1>2, <1>3, <1>5 DEF Heard
  <2>2. IsAPDU(Encode(r)) /\ Encode(r).type \in {"ConfirmedRequest", "UnconfirmedRequest"}
    BY Encoded
  <2>3. Encode(asked) # None /\ Encode(asked).type # None
    BY <1>2, <2>2, NoneAssumption DEF IsAPDU, NoneIsNothing
  <2>4. QED
    BY <2>1, <2>3 DEF apdu, pdu_type, service
<1>6. QED
  BY <1>1, <1>2, <1>3, <1>4, <1>5

\* What the thread finds a request to be is what was asked.
LEMMA ServiceAsked ==
  ASSUME NoneIsNothing, ServerInv, asked # None
  PROVE  /\ Heard /\ asked.service # "Who-Is" => apdu.invoke_id = 1
         /\ \A name \in {"ReadProperty", "WriteProperty", "ReadPropertyMultiple"} :
              Asks(name) <=> Heard /\ asked.service = name
         /\ AnswersWhoIs => Heard /\ asked.service = "Who-Is"
         /\ Heard /\ asked.service = "Who-Is" /\ InRange => AnswersWhoIs
         /\ confirmed => Heard
<1>1. PICK r : r = asked
  OBVIOUS
<1>2. /\ r.service # "Who-Is" => /\ Encode(r).type = "ConfirmedRequest"
                                 /\ Encode(r).service = r.service /\ Encode(r).invoke_id = 1
      /\ r.service = "Who-Is" =>
           Encode(r).type = "UnconfirmedRequest" /\ Encode(r).service = "Who-Is"
  BY Encoded
<1>3. CASE Heard
  <2>1. /\ apdu = Encode(r) /\ pdu_type(frame) = Encode(r).type
        /\ service(frame) = Encode(r).service
    BY <1>1, <1>3, InHand
  <2>2. QED
    BY <1>1, <1>2, <1>3, <2>1 DEF Asks, confirmed, AnswersWhoIs
<1>4. CASE ~Heard
  <2>1. pdu_type(frame) = None
    BY <1>4, InHand
  <2>2. QED
    BY <1>4, <2>1, NoneAssumption DEF Asks, confirmed, AnswersWhoIs
<1>5. QED
  BY <1>3, <1>4

\* What is read of a read that was heard.
LEMMA ReadInHand ==
  ASSUME NoneIsNothing, ServerInv, asked # None, Heard, asked.service = "ReadProperty"
  PROVE  /\ reading = [object |-> asked.object, property |-> asked.property,
                       array_index |-> asked.index]
         /\ reading # None /\ Asks("ReadProperty") /\ ~Asks("ReadPropertyMultiple")
         /\ ~Asks("WriteProperty") /\ ~AnswersWhoIs /\ apdu.invoke_id = 1
<1>1. PICK r \in Requests : r = asked
  BY InHand
<1>2. apdu = read_property_request(1, r.object, r.property, r.index)
  <2>1. apdu = Encode(r)
    BY <1>1, InHand
  <2>2. QED
    BY <1>1, <2>1 DEF Encode
<1>3. reading = [object |-> r.object, property |-> r.property, array_index |-> r.index]
  BY <1>2, ReadReadBack DEF reading
<1>4. reading # None
  BY <1>1, <1>3, RequestsAssumption
<1>5. QED
  BY <1>1, <1>3, <1>4, ServiceAsked

LEMMA WriteRead ==
  ASSUME NoneIsNothing, ServerInv, asked # None, Heard, asked.service = "WriteProperty"
  PROVE  /\ writing = [object |-> asked.object, property |-> asked.property,
                       array_index |-> asked.index, value |-> asked.value,
                       priority |-> asked.priority]
         /\ writing # None /\ Asks("WriteProperty") /\ apdu.invoke_id = 1
<1>1. PICK r \in Requests : r = asked /\ frame = Frame(Datagram(r))
  BY InHand DEF ServerInv, FrameIsAsked
<1>2. Asks("WriteProperty") /\ apdu.invoke_id = 1
  BY ServiceAsked
<1>3. QED
  BY <1>1, <1>2, FrameRead

\* The thread looks up what the settings say of the object asked about.
LEMMA FailingIsSet ==
  ASSUME NoneIsNothing, ServerInv, asked # None
  PROVE  /\ Heard => Failing = FailureSet
         /\ ~Heard => Failing = None
<1>1. confirmed => Heard
  BY ServiceAsked
<1>2. CASE ~Heard
  BY <1>1, <1>2 DEF Failing
<1>3. CASE Heard /\ asked.service = "ReadProperty"
  <2>1. requested_object = asked.object /\ confirmed
    BY <1>3, ReadInHand DEF requested_object, Asks
  <2>2. QED
    BY <1>3, <2>1 DEF Failing, FailureSet
<1>4. CASE Heard /\ asked.service = "WriteProperty"
  <2>1. ~Asks("ReadProperty")
    BY <1>4, ServiceAsked
  <2>2. requested_object = asked.object /\ confirmed
    BY <1>4, <2>1, WriteRead DEF requested_object, Asks
  <2>3. QED
    BY <1>4, <2>2 DEF Failing, FailureSet
<1>5. CASE Heard /\ asked.service \notin {"ReadProperty", "WriteProperty"}
  <2>1. ~Asks("ReadProperty") /\ ~Asks("WriteProperty")
    BY <1>5, ServiceAsked
  <2>2. requested_object = None
    BY <2>1 DEF requested_object
  <2>3. None \notin DOMAIN failures
    BY SettingsAssumption DEF ServerInv, Shaped
  <2>4. QED
    BY <1>5, <2>2, <2>3 DEF Failing, FailureSet
<1>6. QED
  BY <1>2, <1>3, <1>4, <1>5

\* _who_is: the limits are the two numbers of the Who-Is, if it has any.
LEMMA RangeRead ==
  ASSUME AsClientsSend, ServerInv, asked # None, Heard, asked.service = "Who-Is"
  PROVE  AnswersWhoIs <=> (asked.low = None \/ Instance \in asked.low..asked.high)
<1>1. PICK r \in Requests : r = asked
  BY InHand DEF AsClientsSend
<1>2. PICK tags : tags = apdu.parameters /\ tags = optional(0, r.low) \o optional(1, r.high)
  BY <1>1, InHand, Encoded DEF AsClientsSend
<1>3. r.low = None <=> r.high = None
  BY <1>1 DEF AsClientsSend
<1>4. InRange <=> (r.low = None \/ Instance \in r.low..r.high)
  <2>1. CASE r.low = None
    <3>1. tags = <<>>
      BY <1>2, <1>3, <2>1, NothingAround DEF optional
    <3>2. Limits = {}
      BY <1>2, <3>1 DEF Limits
    <3>3. Cardinality({}) # 2
      BY FS_EmptySet
    <3>4. QED
      BY <2>1, <3>2, <3>3 DEF InRange
  <2>2. CASE r.low # None
    <3>1. tags = <<context(0, r.low), context(1, r.high)>>
      BY <1>2, <1>3, <2>2, OneAndOne DEF optional
    <3>2. DOMAIN tags = {1, 2} /\ tags[1].body = r.low /\ tags[2].body = r.high
      BY <3>1 DEF context, Tag
    <3>3. Limits = {1, 2}
      BY <1>2, <3>1, <3>2 DEF Limits, context, Tag
    <3>4. Cardinality({1, 2}) = 2
      <4>1. IsFiniteSet({1}) /\ Cardinality({1}) = 1
        BY FS_Singleton
      <4>2. {1, 2} = {1} \union {2} /\ 2 \notin {1}
        OBVIOUS
      <4>3. QED
        BY <4>1, <4>2, FS_AddElement
    <3>5. Min({1, 2}) = 1
      <4>1. 1 \in {1, 2} /\ {1, 2} \subseteq Int /\ \A i \in {1, 2} : 1 <= i
        OBVIOUS
      <4>2. QED
        BY <4>1, LeastIs
    <3>6. Max({1, 2}) = 2
      <4>1. Max({1, 2}) \in {1, 2} /\ \A i \in {1, 2} : i <= Max({1, 2})
        <5>1. \E x \in {1, 2} : \A y \in {1, 2} : x >= y
          OBVIOUS
        <5>2. QED
          BY <5>1 DEF Max
      <4>2. QED
        BY <4>1
    <3>7. InRange <=> Instance \in tags[1].body..tags[2].body
      BY <1>2, <3>3, <3>4, <3>5, <3>6 DEF InRange
    <3>8. QED
      BY <2>2, <3>2, <3>7
  <2>3. QED
    BY <2>1, <2>2
<1>5. AnswersWhoIs <=> InRange
  BY ServiceAsked DEF AsClientsSend, AnswersWhoIs
<1>6. QED
  BY <1>1, <1>4, <1>5

-----------------------------------------------------------------------------
\* Reads

LEMMA ExpectedSame ==
  ASSUME UNCHANGED <<objects, mode, failures, whole_arrays_refused, asked>>
  PROVE  Expected' = Expected /\ (Heard' <=> Heard) /\ FailureSet' = FailureSet
<1>1. Heard' <=> Heard
  BY DEF Heard
<1>2. FailureSet' = FailureSet
  BY DEF FailureSet
<1>3. ExpectedRead' = ExpectedRead
  BY <1>2 DEF ExpectedRead, HeldOf, ExpectedOfDevice
<1>4. ExpectedWrite' = ExpectedWrite
  BY DEF ExpectedWrite, HeldOf
<1>5. ExpectedResults' = ExpectedResults
  BY DEF ExpectedResults, ExpectedResult, HeldOf
<1>6. QED
  BY <1>1, <1>2, <1>3, <1>4, <1>5 DEF Expected

LEMMA PlainTag ==
  ASSUME NEW tag, tag.kind = "value"
  PROVE  Complete(<<tag>>)
<1> DEFINE tags == <<tag>>
<1>1. /\ tags \in Seq({tags[i] : i \in DOMAIN tags}) /\ DOMAIN tags = {1} /\ tags[1] = tag
  OBVIOUS
<1>2. SubSeq(tags, 1, 1) = tags
  <2>1. tags \in Seq({tag}) /\ Len(tags) = 1
    OBVIOUS
  <2>2. QED
    BY <2>1, SubSeqFull
<1>3. Depth(tags) = 0
  <2>1. /\ {i \in DOMAIN tags : tags[i].kind = "open"} = {}
        /\ {i \in DOMAIN tags : tags[i].kind = "close"} = {}
    BY <1>1
  <2>2. QED
    BY <2>1, FS_EmptySet DEF Depth
<1>4. ASSUME NEW i \in DOMAIN tags
      PROVE  Depth(SubSeq(tags, 1, i)) >= 0
  <2>1. i = 1
    BY <1>1
  <2> HIDE DEF tags
  <2>2. Depth(SubSeq(tags, 1, i)) = 0
    BY <1>2, <1>3, <2>1
  <2>3. QED
    BY <2>2
<1>5. Complete(tags)
  BY <1>1, <1>3, <1>4 DEF Complete
<1>6. QED
  BY <1>5

LEMMA NullPlain == Complete(Null)
  BY PlainTag DEF Null, application, Tag

\* One element per tag.
LEMMA ElementsOf ==
  ASSUME NEW octets, Complete(octets), \A i \in DOMAIN octets : octets[i].kind = "value"
  PROVE  /\ Len(application_elements(octets)) = Len(octets) /\ Len(octets) \in Nat
         /\ DOMAIN octets = 1..Len(octets)
         /\ \A i \in DOMAIN octets : /\ application_elements(octets)[i] = <<octets[i]>>
                                     /\ Complete(<<octets[i]>>)
<1> DEFINE elements == application_elements(octets)
<1>1. /\ octets \in Seq({octets[i] : i \in DOMAIN octets})
      /\ \A i \in DOMAIN octets : octets[i].kind = "value"
  BY DEF Complete
<1>2. Len(octets) \in Nat /\ DOMAIN octets = 1..Len(octets)
  BY <1>1
<1>3. elements = [i \in 1..Len(octets) |-> <<octets[i]>>]
  BY <1>2 DEF application_elements
<1>4. Len(elements) = Len(octets)
  BY <1>2, <1>3
<1>5. QED
  BY <1>1, <1>2, <1>3, <1>4, PlainTag

\* What the client is expected to hear of a read.
LEMMA ReadExpected ==
  ASSUME Heard, asked.service = "ReadProperty", mode # "offline",
         FailureSet \in {None, "malformed"}
  PROVE  Expected = ExpectedRead
<1>1. FailureSet \notin {"reject", "abort", "silent"}
  BY SettingsAssumption
<1>2. QED
  BY <1>1 DEF Expected, Heard

LEMMA ServesRead ==
  ASSUME AsClientsSend, ServerInv, StorePlain, asked # None, Heard,
         asked.service = "ReadProperty", failure = FailureSet, mode # "offline", Serve
  PROVE  \E answer : reply' = RouteBack(answer) /\ Fits(answer)
<1>0. NoneIsNothing /\ asked.service # "Who-Is" /\ failure \in {None, "malformed"}
  BY DEF AsClientsSend, ServerInv, Shaped
<1>1. /\ reading.object = asked.object /\ reading.property = asked.property
      /\ reading.array_index = asked.index /\ reading # None
      /\ Asks("ReadProperty") /\ ~Asks("ReadPropertyMultiple") /\ ~AnswersWhoIs
      /\ apdu.invoke_id = 1
  BY <1>0, ReadInHand
<1>2. Expected = ExpectedRead
  BY <1>0, ReadExpected
<1>3. asked.index \in Nat \union {None}
  BY InHand DEF AsClientsSend
<1>4. ASSUME NEW answer, reply' = RouteBack(answer), Answers(answer), answer.invoke_id = 1,
             Says(answer) = ExpectedRead
      PROVE  \E a : reply' = RouteBack(a) /\ Fits(a)
  BY <1>0, <1>2, <1>4 DEF Fits
<1>5. ASSUME NEW class, NEW code,
             reply' = RouteBack(error_pdu(apdu.invoke_id, "ReadProperty", class, code)),
             ExpectedRead = <<"error", class, code>>
      PROVE  \E a : reply' = RouteBack(a) /\ Fits(a)
  <2>1. PICK answer : answer = error_pdu(1, "ReadProperty", class, code)
    OBVIOUS
  <2>2. Answers(answer) /\ answer.invoke_id = 1 /\ Says(answer) = <<"error", class, code>>
    BY <2>1, ErrorSays
  <2>3. QED
    BY <1>1, <1>4, <1>5, <2>1, <2>2
<1>6. ASSUME NEW object, NEW property, NEW index, NEW octets, Complete(octets),
             reply' = RouteBack(read_property_ack(apdu.invoke_id, object, property, index, octets)),
             ExpectedRead = <<"value", octets>>
      PROVE  \E a : reply' = RouteBack(a) /\ Fits(a)
  <2>1. PICK answer : answer = read_property_ack(1, object, property, index, octets)
    OBVIOUS
  <2>2. Answers(answer) /\ answer.invoke_id = 1 /\ Says(answer) = <<"value", octets>>
    BY <1>6, <2>1, AckSays
  <2>3. QED
    BY <1>1, <1>4, <1>6, <2>1, <2>2
<1>7. Malformed <=> asked.object \in DOMAIN objects /\ FailureSet = "malformed"
  BY <1>1 DEF Malformed, Listed
<1>8. CASE Malformed /\ Reply(Ack(None, Null), {})
  <2>1. ExpectedRead = <<"value", Null>>
    BY <1>7, <1>8 DEF ExpectedRead
  <2>2. reply' = RouteBack(read_property_ack(apdu.invoke_id, reading.object, reading.property,
                                             None, Null))
    BY <1>8 DEF Reply, Ack
  <2>3. QED
    BY <1>6, <2>1, <2>2, NullPlain
<1>9. CASE Refused /\ Reply(abort_pdu(apdu.invoke_id, "SEGMENTATION_NOT_SUPPORTED"),
                            {"read_requests"})
  <2>1. ExpectedRead = <<"Abort", "SEGMENTATION_NOT_SUPPORTED">>
    BY <1>1, <1>7, <1>9 DEF ExpectedRead, Refused, Listed
  <2>2. PICK answer : answer = abort_pdu(1, "SEGMENTATION_NOT_SUPPORTED")
    OBVIOUS
  <2>3. /\ Answers(answer) /\ answer.invoke_id = 1
        /\ Says(answer) = <<"Abort", "SEGMENTATION_NOT_SUPPORTED">>
    BY <2>2, OthersSay
  <2>4. reply' = RouteBack(answer)
    BY <1>1, <1>9, <2>2 DEF Reply
  <2>5. QED
    BY <1>4, <2>1, <2>3, <2>4
<1>10. ASSUME Listed, ~Malformed, ~Refused
       PROVE  /\ value # None <=> asked.property \in DOMAIN objects[asked.object]
              /\ value # None => value = objects[asked.object][asked.property] /\ Complete(value)
              /\ value = None => ExpectedRead = <<"error", "PROPERTY", "UNKNOWN_PROPERTY">>
              /\ value # None /\ asked.index # None /\ ArrayElements =>
                   ExpectedRead = ExpectedElement(value, asked.index)
              /\ value # None /\ ~(asked.index # None /\ ArrayElements) =>
                   ExpectedRead = <<"value", value>>
  <2>1. asked.object \in DOMAIN objects
    BY <1>1, <1>10 DEF Listed
  <2>2. value = IF asked.property \in DOMAIN objects[asked.object]
                THEN objects[asked.object][asked.property] ELSE None
    BY <1>1, <2>1 DEF value, Served
  <2>3. \A p \in DOMAIN objects[asked.object] :
          Complete(objects[asked.object][p]) /\ objects[asked.object][p] # None
    BY <2>1 DEF StorePlain, Plain
  <2>4. HeldOf(asked.object) = DOMAIN objects[asked.object]
    BY <2>1 DEF HeldOf
  <2>5. /\ FailureSet # "malformed"
        /\ ~(asked.index = None /\ <<asked.object, asked.property>> \in whole_arrays_refused)
    BY <1>1, <1>7, <1>10, <2>1 DEF Refused
  <2>6. ExpectedRead = IF asked.property \notin DOMAIN objects[asked.object]
                       THEN <<"error", "PROPERTY", "UNKNOWN_PROPERTY">>
                       ELSE IF asked.index # None /\ ArrayElements
                       THEN ExpectedElement(objects[asked.object][asked.property], asked.index)
                       ELSE <<"value", objects[asked.object][asked.property]>>
    BY <2>1, <2>4, <2>5 DEF ExpectedRead
  <2>7. QED
    BY <2>2, <2>3, <2>6
<1>11. CASE Element /\ Reply(ElementAnswer, {"read_requests", "array_reads"})
  <2>1. /\ Listed /\ ~Malformed /\ ~Refused /\ value # None
        /\ asked.index # None /\ ArrayElements /\ asked.index \in Nat
    BY <1>1, <1>3, <1>11 DEF Element, Refused
  <2>2. ExpectedRead = ExpectedElement(value, asked.index) /\ Complete(value)
    BY <1>10, <2>1
  <2>a. PICK octets : octets = value
    OBVIOUS
  <2>b. PICK index \in Nat : index = asked.index
    BY <2>1
  <2>c. \A i \in DOMAIN octets : octets[i].kind = "value"
    <3>1. asked.object \in DOMAIN objects /\ asked.property \in DOMAIN objects[asked.object]
      BY <1>1, <1>10, <2>1 DEF Listed
    <3>2. Plain(octets, asked.object, asked.property)
      BY <1>10, <2>1, <2>a, <3>1 DEF StorePlain
    <3>3. asked \in Requests
      BY <1>0, InHand
    <3>4. Indexed(asked.object, asked.property)
      BY <2>1, <3>3 DEF Indexed
    <3>5. QED
      BY <3>2, <3>4 DEF Plain
  <2>3. octets = value /\ index = asked.index
    BY <2>a, <2>b
  <2>4. /\ Len(application_elements(octets)) = Len(octets) /\ Len(octets) \in Nat
        /\ DOMAIN octets = 1..Len(octets)
        /\ \A i \in DOMAIN octets : /\ application_elements(octets)[i] = <<octets[i]>>
                                    /\ Complete(<<octets[i]>>)
    BY <2>2, <2>3, <2>c, ElementsOf
  <2>5. reply' = RouteBack(ElementAnswer)
    BY <1>11 DEF Reply
  <2>6. CASE index = 0
    <3>1. ElementAnswer = Ack(0, <<application(TAG_UNSIGNED, Len(octets))>>)
      BY <1>1, <2>3, <2>4, <2>6 DEF ElementAnswer
    <3>2. ExpectedRead = <<"value", <<application(TAG_UNSIGNED, Len(octets))>>>>
      BY <2>2, <2>3, <2>6 DEF ExpectedElement
    <3>3. PICK tags : tags = <<application(TAG_UNSIGNED, Len(octets))>> /\ Complete(tags)
      BY PlainTag DEF application, Tag
    <3>4. reply' = RouteBack(read_property_ack(apdu.invoke_id, reading.object, reading.property,
                                               0, tags))
      BY <2>5, <3>1, <3>3 DEF Ack
    <3>5. QED
      BY <1>6, <3>2, <3>3, <3>4
  <2>7. CASE index # 0 /\ index <= Len(octets)
    <3>1. index \in DOMAIN octets
      BY <2>4, <2>7
    <3>2. ElementAnswer = Ack(index, <<octets[index]>>)
      BY <1>1, <2>3, <2>4, <2>7, <3>1 DEF ElementAnswer
    <3>3. ExpectedRead = <<"value", <<octets[index]>>>>
      BY <2>2, <2>3, <2>7, <3>1 DEF ExpectedElement
    <3>4. PICK tags : tags = <<octets[index]>> /\ Complete(tags)
      BY <2>4, <3>1
    <3>5. reply' = RouteBack(read_property_ack(apdu.invoke_id, reading.object, reading.property,
                                               index, tags))
      BY <2>5, <3>2, <3>4 DEF Ack
    <3>6. QED
      BY <1>6, <3>3, <3>4, <3>5
  <2>8. CASE ~(index <= Len(octets))
    <3>1. index \notin DOMAIN octets /\ index # 0
      BY <2>4, <2>8
    <3>2. ElementAnswer = ReadError("INVALID_ARRAY_INDEX")
      BY <1>1, <2>3, <2>4, <2>8, <3>1 DEF ElementAnswer
    <3>3. ExpectedRead = <<"error", "PROPERTY", "INVALID_ARRAY_INDEX">>
      BY <2>2, <2>3, <3>1 DEF ExpectedElement
    <3>4. reply' = RouteBack(error_pdu(apdu.invoke_id, "ReadProperty", "PROPERTY",
                                       "INVALID_ARRAY_INDEX"))
      BY <2>5, <3>2 DEF ReadError
    <3>5. QED
      BY <1>5, <3>3, <3>4
  <2>9. QED
    BY <2>6, <2>7, <2>8
<1>12. CASE /\ Listed /\ ~Malformed /\ ~Refused /\ ~Element
            /\ Reply(IF value = None THEN ReadError("UNKNOWN_PROPERTY") ELSE Ack(None, value),
                     {"read_requests"})
  <2>1. CASE value = None
    <3>1. reply' = RouteBack(error_pdu(apdu.invoke_id, "ReadProperty", "PROPERTY",
                                       "UNKNOWN_PROPERTY"))
      BY <1>12, <2>1 DEF Reply, ReadError
    <3>2. QED
      BY <1>5, <1>10, <1>12, <2>1, <3>1
  <2>2. CASE value # None
    <3>1. PICK octets : octets = value
      OBVIOUS
    <3>2. ExpectedRead = <<"value", octets>> /\ Complete(octets)
      BY <1>1, <1>10, <1>12, <2>2, <3>1 DEF Element
    <3>3. reply' = RouteBack(read_property_ack(apdu.invoke_id, reading.object, reading.property,
                                               None, octets))
      BY <1>12, <2>2, <3>1 DEF Reply, Ack
    <3>4. QED
      BY <1>6, <3>2, <3>3
  <2>3. QED
    BY <2>1, <2>2
<1>13. CASE ~Listed /\ Reply(ReadDevice, {})
  <2>1. ExpectedRead = ExpectedOfDevice
    BY <1>1, <1>13 DEF ExpectedRead, Listed
  <2>2. reply' = RouteBack(ReadDevice)
    BY <1>13 DEF Reply
  <2>3. CASE asked.object[1] # "DEVICE" \/ asked.object[2] \notin {Instance, MAX_INSTANCE}
    <3>1. ExpectedRead = <<"error", "OBJECT", "UNKNOWN_OBJECT">>
      BY <2>1, <2>3 DEF ExpectedOfDevice
    <3>2. reply' = RouteBack(error_pdu(apdu.invoke_id, "ReadProperty", "OBJECT", "UNKNOWN_OBJECT"))
      BY <1>1, <2>2, <2>3 DEF ReadDevice
    <3>3. QED
      BY <1>5, <3>1, <3>2
  <2>4. CASE /\ ~(asked.object[1] # "DEVICE" \/ asked.object[2] \notin {Instance, MAX_INSTANCE})
             /\ asked.property = "OBJECT_NAME"
    <3>1. PICK tags : /\ tags = <<application(TAG_CHARACTER_STRING, "object_name")>>
                      /\ Complete(tags)
      BY PlainTag DEF application, Tag
    <3>2. ExpectedRead = <<"value", tags>>
      BY <2>1, <2>4, <3>1 DEF ExpectedOfDevice
    <3>3. PICK device : device = <<"DEVICE", Instance>>
      OBVIOUS
    <3>4. reply' = RouteBack(read_property_ack(apdu.invoke_id, device, reading.property, None, tags))
      BY <1>1, <2>2, <2>4, <3>1, <3>3 DEF ReadDevice
    <3>5. QED
      BY <1>6, <3>1, <3>2, <3>4
  <2>5. CASE /\ ~(asked.object[1] # "DEVICE" \/ asked.object[2] \notin {Instance, MAX_INSTANCE})
             /\ asked.property = "OBJECT_IDENTIFIER"
    <3>1. PICK device : device = <<"DEVICE", Instance>>
      OBVIOUS
    <3>2. PICK tags : tags = <<application(TAG_OBJECT_IDENTIFIER, device)>> /\ Complete(tags)
      BY PlainTag DEF application, Tag
    <3>3. ExpectedRead = <<"value", tags>>
      BY <2>1, <2>5, <3>1, <3>2 DEF ExpectedOfDevice
    <3>4. reply' = RouteBack(read_property_ack(apdu.invoke_id, device, reading.property, None, tags))
      BY <1>1, <2>2, <2>5, <3>1, <3>2 DEF ReadDevice
    <3>5. QED
      BY <1>6, <3>2, <3>3, <3>4
  <2>6. CASE /\ ~(asked.object[1] # "DEVICE" \/ asked.object[2] \notin {Instance, MAX_INSTANCE})
             /\ asked.property \notin {"OBJECT_NAME", "OBJECT_IDENTIFIER"}
    <3>1. ExpectedRead = <<"error", "PROPERTY", "UNKNOWN_PROPERTY">>
      BY <2>1, <2>6 DEF ExpectedOfDevice
    <3>2. reply' = RouteBack(error_pdu(apdu.invoke_id, "ReadProperty", "PROPERTY",
                                       "UNKNOWN_PROPERTY"))
      BY <1>1, <2>2, <2>6 DEF ReadDevice
    <3>3. QED
      BY <1>5, <3>1, <3>2
  <2>7. QED
    BY <2>3, <2>4, <2>5, <2>6
<1>14. QED
  BY <1>1, <1>8, <1>9, <1>11, <1>12, <1>13 DEF Serve

\* The answer to a ReadPropertyMultiple says of every property asked for what is
\* expected of it.
LEMMA ServesMultiple ==
  ASSUME AsClientsSend, ServerInv, StorePlain, asked # None, Heard,
         asked.service = "ReadPropertyMultiple", mode # "offline"
  PROVE  Fits(MultipleAnswer)
<1>0. NoneIsNothing
  BY DEF AsClientsSend
<1>1. PICK r \in Requests : r = asked
  BY <1>0, InHand
<1>a. PICK S : S = r.specifications
  OBVIOUS
<1>2. PICK n \in Nat : DOMAIN S = 1..n
  BY <1>1, <1>a DEF AsClientsSend, EachOnce
<1>3. /\ \A k \in 1..n : \E m \in Nat : DOMAIN S[k].references = 1..m
      /\ \A j, k \in 1..n : S[j].object = S[k].object => j = k
  BY <1>1, <1>a, <1>2 DEF AsClientsSend, EachOnce
<1>4. apdu.parameters = FlattenSeq(Asked(S)) /\ apdu.invoke_id = 1
  <2>1. apdu = read_property_multiple_request(1, S)
    <3>1. apdu = Encode(r)
      BY <1>0, <1>1, InHand
    <3>2. QED
      BY <1>1, <1>a, <3>1 DEF Encode
  <2>2. read_property_multiple_request(1, S).parameters = FlattenSeq(Asked(S))
    BY DEF read_property_multiple_request, confirmed_request, APDU, Asked, Entry,
           read_access_specification, References, Reference
  <2>3. QED
    BY <1>0, <2>1, <2>2, ServiceAsked
<1>5. PICK members : members = read_access_specifications(apdu.parameters) /\ members = AskedFor(S)
  BY <1>2, <1>3, <1>4, SpecificationsRead
<1>6. /\ DOMAIN members = 1..n
      /\ \A k \in 1..n :
           /\ members[k].object = S[k].object
           /\ DOMAIN members[k].properties = DOMAIN S[k].references
           /\ \A j \in DOMAIN S[k].references :
                members[k].properties[j] = S[k].references[j].property
  BY <1>2, <1>5 DEF AskedFor
<1>7. PICK results : results =
        [i \in DOMAIN members |->
          [object |-> members[i].object,
           values |-> [j \in DOMAIN members[i].properties |->
             [property |-> members[i].properties[j],
              value |-> Served(members[i].object, members[i].properties[j])]]]]
  OBVIOUS
<1>8. PICK answer : answer = MultipleAnswer /\ answer = read_property_multiple_ack(1, results)
  BY <1>4, <1>5, <1>7 DEF MultipleAnswer
<1>9. /\ DOMAIN results = 1..n
      /\ \A k \in 1..n :
           /\ results[k].object = S[k].object
           /\ DOMAIN results[k].values = DOMAIN S[k].references
           /\ \A j \in DOMAIN S[k].references :
                results[k].values[j] =
                  [property |-> S[k].references[j].property,
                   value |-> Served(S[k].object, S[k].references[j].property)]
  BY <1>6, <1>7
<1>10. ASSUME NEW object, NEW property
       PROVE  /\ Served(object, property) = None \/ Complete(Served(object, property))
              /\ ToldOf(object, [property |-> property, value |-> Served(object, property)])
                   = ExpectedResult(object, property)
  <2>1. CASE object \in DOMAIN objects /\ property \in DOMAIN objects[object]
    <3>1. PICK octets : octets = objects[object][property] /\ octets # None /\ Complete(octets)
      BY <2>1 DEF StorePlain, Plain
    <3>2. Served(object, property) = octets
      BY <2>1, <3>1 DEF Served
    <3>3. property \in HeldOf(object)
      BY <2>1 DEF HeldOf
    <3>4. QED
      BY <3>1, <3>2, <3>3 DEF ToldOf, ExpectedResult
  <2>2. CASE ~(object \in DOMAIN objects /\ property \in DOMAIN objects[object])
    <3>1. Served(object, property) = None
      BY <2>2 DEF Served
    <3>2. property \notin HeldOf(object)
      BY <2>2 DEF HeldOf
    <3>3. QED
      BY <3>1, <3>2 DEF ToldOf, ExpectedResult
  <2>3. QED
    BY <2>1, <2>2
<1>11. ASSUME NEW k \in 1..n, NEW j \in DOMAIN S[k].references
       PROVE  /\ results[k].values[j].value = None \/ Complete(results[k].values[j].value)
              /\ ToldOf(results[k].object, results[k].values[j])
                   = ExpectedResult(S[k].object, S[k].references[j].property)
  <2>1. PICK object, property : object = S[k].object /\ property = S[k].references[j].property
    OBVIOUS
  <2>2. PICK entry : /\ entry = results[k].values[j]
                     /\ entry = [property |-> property, value |-> Served(object, property)]
    BY <1>9, <2>1
  <2>3. entry.value = Served(object, property) /\ results[k].object = object
    BY <1>9, <2>1, <2>2
  <2>4. entry.value = None \/ Complete(entry.value)
    BY <1>10, <2>3
  <2>5. ToldOf(object, entry) = ExpectedResult(object, property)
    BY <1>10, <2>2
  <2>6. QED
    BY <2>1, <2>2, <2>3, <2>4, <2>5
<1>12. parse_read_property_multiple_ack(answer) = AllTold(results)
  <2>1. \A k \in 1..n : \E m \in Nat : DOMAIN results[k].values = 1..m
    BY <1>3, <1>9
  <2>2. \A k \in 1..n : \A j \in DOMAIN results[k].values :
          results[k].values[j].value = None \/ Complete(results[k].values[j].value)
    BY <1>9, <1>11
  <2>3. QED
    BY <1>8, <1>9, <2>1, <2>2, MultipleAckRead
<1>13. AllTold(results) = ExpectedResults
  <2>1. ASSUME NEW x \in AllTold(results) PROVE x \in ExpectedResults
    <3>1. PICK k \in 1..n : x \in {ToldOf(results[k].object, results[k].values[j]) :
                                      j \in DOMAIN results[k].values}
      BY <1>9 DEF AllTold
    <3>2. PICK j \in DOMAIN S[k].references : x = ToldOf(results[k].object, results[k].values[j])
      BY <1>9, <3>1
    <3>3. x = ExpectedResult(S[k].object, S[k].references[j].property)
      BY <1>11, <3>2
    <3>4. PICK s : s = S[k] /\ s \in ToSet(asked.specifications)
      BY <1>1, <1>a, <1>2 DEF ToSet
    <3>5. QED
      BY <3>3, <3>4 DEF ExpectedResults
  <2>2. ASSUME NEW x \in ExpectedResults PROVE x \in AllTold(results)
    <3>1. PICK s \in ToSet(asked.specifications) :
            x \in {ExpectedResult(s.object, s.references[j].property) : j \in DOMAIN s.references}
      BY DEF ExpectedResults
    <3>2. PICK k \in 1..n : s = S[k]
      BY <1>1, <1>a, <1>2 DEF ToSet
    <3>3. PICK j \in DOMAIN S[k].references :
            x = ExpectedResult(S[k].object, S[k].references[j].property)
      BY <3>1, <3>2
    <3>4. x = ToldOf(results[k].object, results[k].values[j]) /\ j \in DOMAIN results[k].values
      BY <1>9, <1>11, <3>3
    <3>5. QED
      BY <1>9, <3>4 DEF AllTold
  <2>3. QED
    BY <2>1, <2>2
<1>14. parse_read_property_multiple_ack(answer) = ExpectedResults
  BY <1>12, <1>13
<1>15. /\ IsAPDU(answer) /\ answer.invoke_id = 1
       /\ answer.type = "ComplexACK" /\ answer.service = "ReadPropertyMultiple"
  <2>1. PICK parameters : answer = APDU("ComplexACK", 1, "ReadPropertyMultiple", parameters)
    BY <1>8, Zenon DEF read_property_multiple_ack
  <2>2. IsAPDU(answer)
    BY <2>1 DEF IsAPDU
  <2>3. QED
    BY <2>1, <2>2 DEF APDU
<1>16. Says(answer) = <<"results", ExpectedResults>>
  BY <1>14, <1>15 DEF Says
<1>17. Expected = <<"results", ExpectedResults>>
  <2>1. FailureSet \notin {"reject", "abort", "silent"}
    BY SettingsAssumption DEF FailureSet
  <2>2. QED
    BY <2>1 DEF Expected, Heard
<1>18. QED
  BY <1>8, <1>15, <1>16, <1>17 DEF Fits, Answers

-----------------------------------------------------------------------------
\* Step by step

\* A step of the thread that stores nothing.
LEMMA Unmoved ==
  ASSUME UNCHANGED <<store, settings, asked, frame, life, settled>>
  PROVE  /\ UNCHANGED <<objects, mode, failures, whole_arrays_refused, asked, frame, settled>>
         /\ Expected' = Expected /\ (Heard' <=> Heard) /\ FailureSet' = FailureSet
         /\ StorePlain => StorePlain'
         /\ Relinquishes' <=> Relinquishes
<1>1. /\ objects' = objects /\ priority_arrays' = priority_arrays
      /\ UNCHANGED <<mode, failures, whole_arrays_refused>>
      /\ asked' = asked /\ frame' = frame /\ settled' = settled
  BY DEF store, settings
<1>2. Expected' = Expected /\ (Heard' <=> Heard) /\ FailureSet' = FailureSet
  BY <1>1, ExpectedSame
<1>3. StorePlain => StorePlain'
  BY <1>1 DEF StorePlain
<1>4. Relinquishes' <=> Relinquishes
  <2>1. writing' = writing /\ (commanded' <=> commanded)
    BY <1>1, SameFrame
  <2>2. is_null' <=> is_null
    BY <2>1 DEF is_null
  <2>3. QED
    BY <1>1, <2>1, <2>2 DEF Relinquishes, Known
<1>5. QED
  BY <1>1, <1>2, <1>3, <1>4

\* The answer the thread ends with is the one expected.
LEMMA EndsWell ==
  ASSUME UNCHANGED <<store, settings, asked, frame, life, settled>>, Done,
         \/ reply' = None /\ Expected = <<"none">>
         \/ asked.npdu /\ \E answer : reply' = RouteBack(answer) /\ Fits(answer)
  PROVE  FoundOut'
<1>1. thread' = "waiting"
  BY DEF Done
<1>2. /\ asked' = asked /\ frame' = frame /\ Expected' = Expected
  BY Unmoved
<1>3. Answered'
  <2>1. CASE reply' = None /\ Expected = <<"none">>
    BY <1>2, <2>1 DEF Answered
  <2>2. CASE asked.npdu /\ \E answer : reply' = RouteBack(answer) /\ Fits(answer)
    <3>1. PICK answer : reply' = RouteBack(answer) /\ Fits(answer)
      BY <2>2
    <3>2. RouteBack(answer)' = RouteBack(answer)
      BY <1>2 DEF RouteBack
    <3>3. Fits(answer)'
      BY <1>2, <3>1 DEF Fits
    <3>4. asked'.npdu /\ reply' = RouteBack(answer)' /\ Fits(answer)'
      BY <1>2, <2>2, <3>1, <3>2, <3>3
    <3>5. QED
      BY <3>4 DEF Answered
  <2>3. QED
    BY <2>1, <2>2
<1>4. QED
  BY <1>1, <1>3 DEF FoundOut

LEMMA DecidingReceive ==
  ASSUME StorePlain, NEW r \in Requests, Receive(r)
  PROVE  StorePlain' /\ Deciding'
<1>1. /\ asked' = r /\ frame' = Frame(Datagram(r)) /\ reply' = None
      /\ objects' = objects /\ priority_arrays' = priority_arrays
      /\ thread' = IF frame'.network_message = None THEN "answering" ELSE "waiting"
  BY DEF Receive, store
<1>2. CASE frame'.network_message = None
  BY <1>1, <1>2 DEF Deciding, FoundOut, StorePlain
<1>3. CASE frame'.network_message # None
  <2>1. r.npdu /\ r.message # None
    BY <1>1, <1>3, FrameOf
  <2>2. Expected' = <<"none">>
    BY <1>1, <2>1 DEF Expected
  <2>3. Answered'
    BY <1>1, <2>2 DEF Answered
  <2>4. QED
    BY <1>1, <1>3, <2>3 DEF Deciding, FoundOut, StorePlain
<1>4. QED
  BY <1>2, <1>3

LEMMA DecidingCheckFailures ==
  ASSUME AsClientsSend, ServerInv, StorePlain, Deciding, CheckFailures
  PROVE  StorePlain' /\ Deciding'
<1>1. /\ thread = "answering"
      /\ UNCHANGED <<store, settings, asked, frame, life, settled>>
  BY DEF CheckFailures
<1>2. StorePlain'
  BY <1>1, Unmoved
<1>3. asked # None /\ NoneIsNothing
  BY <1>1 DEF ServerInv, Shaped, AsClientsSend
<1>4. ASSUME Failing \in {"reject", "abort", "silent"}
      PROVE  /\ Heard /\ asked.npdu /\ asked.message = None /\ mode # "offline"
             /\ FailureSet = Failing
             /\ asked.service \in {"ReadProperty", "WriteProperty"} /\ apdu.invoke_id = 1
  <2>1. Failing # None
    BY <1>4, SettingsAssumption
  <2>2. Heard /\ FailureSet = Failing
    BY <1>3, <2>1, FailingIsSet
  <2>3. mode = "online" /\ asked.service \in {"ReadProperty", "WriteProperty"}
    BY <2>1, <2>2 DEF FailureSet
  <2>4. apdu.invoke_id = 1
    BY <1>3, <2>2, <2>3, ServiceAsked
  <2>5. QED
    BY <2>2, <2>3, <2>4 DEF Heard
<1>5. CASE /\ Failing = "reject"
           /\ Reply(reject_pdu(apdu.invoke_id, "UNRECOGNIZED_SERVICE"), {})
  <2>1. PICK answer : answer = reject_pdu(1, "UNRECOGNIZED_SERVICE")
    OBVIOUS
  <2>2. /\ Answers(answer) /\ answer.invoke_id = 1
        /\ Says(answer) = <<"Reject", "UNRECOGNIZED_SERVICE">>
    BY <2>1, OthersSay
  <2>3. Expected = <<"Reject", "UNRECOGNIZED_SERVICE">>
    BY <1>4, <1>5 DEF Expected
  <2>4. reply' = RouteBack(answer) /\ Done
    BY <1>4, <1>5, <2>1 DEF Reply
  <2>5. Fits(answer)
    BY <1>4, <1>5, <2>2, <2>3 DEF Fits
  <2>6. FoundOut'
    BY <1>1, <1>4, <1>5, <2>4, <2>5, EndsWell
  <2>7. QED
    BY <1>2, <2>6 DEF Deciding
<1>6. CASE /\ Failing = "abort"
           /\ Reply(abort_pdu(apdu.invoke_id, "SEGMENTATION_NOT_SUPPORTED"), {})
  <2>1. PICK answer : answer = abort_pdu(1, "SEGMENTATION_NOT_SUPPORTED")
    OBVIOUS
  <2>2. /\ Answers(answer) /\ answer.invoke_id = 1
        /\ Says(answer) = <<"Abort", "SEGMENTATION_NOT_SUPPORTED">>
    BY <2>1, OthersSay
  <2>3. Expected = <<"Abort", "SEGMENTATION_NOT_SUPPORTED">>
    BY <1>4, <1>6 DEF Expected
  <2>4. reply' = RouteBack(answer) /\ Done
    BY <1>4, <1>6, <2>1 DEF Reply
  <2>5. Fits(answer)
    BY <1>4, <1>6, <2>2, <2>3 DEF Fits
  <2>6. FoundOut'
    BY <1>1, <1>4, <1>6, <2>4, <2>5, EndsWell
  <2>7. QED
    BY <1>2, <2>6 DEF Deciding
<1>7. CASE Failing = "silent" /\ NoReply({"silent_requests"})
  <2>1. Expected = <<"none">>
    BY <1>4, <1>7 DEF Expected
  <2>2. reply' = None /\ Done
    BY <1>7 DEF NoReply
  <2>3. FoundOut'
    BY <1>1, <2>1, <2>2, EndsWell
  <2>4. QED
    BY <1>2, <2>3 DEF Deciding
<1>8. CASE failure' = Failing /\ thread' = "admitting"
  <2>1. Heard => failure' = FailureSet
    BY <1>3, <1>8, FailingIsSet
  <2>2. FailureSet' = FailureSet /\ (Heard' <=> Heard)
    BY <1>1, Unmoved
  <2>3. FoundOut'
    BY <1>8, <2>1, <2>2 DEF FoundOut
  <2>4. QED
    BY <1>2, <2>3 DEF Deciding
<1>9. QED
  BY <1>5, <1>6, <1>7, <1>8 DEF CheckFailures

LEMMA DecidingAdmit ==
  ASSUME StorePlain, Deciding, Admit
  PROVE  StorePlain' /\ Deciding'
<1>1. /\ thread = "admitting"
      /\ UNCHANGED <<store, settings, asked, frame, life, settled>>
  BY DEF Admit
<1>2. /\ StorePlain' /\ FailureSet' = FailureSet /\ (Heard' <=> Heard)
      /\ mode' = mode /\ asked' = asked /\ settled' = settled
  BY <1>1, Unmoved
<1>3. CASE mode = "offline" /\ reply' = None /\ Done
  <2>1. Expected = <<"none">>
    BY <1>3 DEF Expected
  <2>2. FoundOut'
    BY <1>1, <1>3, <2>1, EndsWell
  <2>3. QED
    BY <1>2, <2>2 DEF Deciding
<1>4. CASE mode # "offline" /\ thread' \in {"writing", "reading"} /\ failure' = failure
  <2>1. SUFFICES ASSUME (asked # None /\ settled)'
                 PROVE  FoundOut'
    BY <1>2 DEF Deciding
  <2>2. FoundOut
    BY <1>2, <2>1 DEF Deciding
  <2>3. Heard => failure = FailureSet
    BY <1>1, <2>2 DEF FoundOut
  <2>4. QED
    BY <1>2, <1>4, <2>3 DEF FoundOut
<1>5. QED
  BY <1>3, <1>4 DEF Admit, NoReply, Proceed

LEMMA DecidingServe ==
  ASSUME AsClientsSend, ServerInv, StorePlain, Deciding, Serve
  PROVE  StorePlain' /\ Deciding'
<1>1. /\ thread = "reading"
      /\ UNCHANGED <<store, settings, asked, frame, life, settled>>
  BY DEF Serve
<1>2. StorePlain' /\ asked' = asked /\ settled' = settled
  BY <1>1, Unmoved
<1>3. NoneIsNothing
  BY DEF AsClientsSend
<1>4. SUFFICES ASSUME (asked # None /\ settled)'
               PROVE  FoundOut'
  BY <1>2 DEF Deciding
<1>5. asked # None /\ FoundOut
  BY <1>2, <1>4 DEF Deciding
<1>6. mode # "offline" /\ (Heard => failure = FailureSet)
  BY <1>1, <1>5 DEF FoundOut
<1>7. Done
  BY DEF Serve, Reply, NoReply
<1>8. /\ ~Asks("WriteProperty")
      /\ Asks("ReadPropertyMultiple") <=> Heard /\ asked.service = "ReadPropertyMultiple"
  BY <1>1, <1>3, <1>5, ServiceAsked DEF ServerInv, KnowsService
<1>a. CASE Heard /\ asked.service = "ReadPropertyMultiple"
  <2>1. Asks("ReadPropertyMultiple") /\ ~Asks("ReadProperty") /\ ~AnswersWhoIs
    BY <1>3, <1>5, <1>8, <1>a, ServiceAsked
  <2>2. reply' = RouteBack(MultipleAnswer)
    BY <2>1 DEF Serve, Listed, Malformed, Refused, Element, Reply
  <2>3. Fits(MultipleAnswer)
    BY <1>5, <1>6, <1>a, ServesMultiple
  <2>4. \E answer : reply' = RouteBack(answer) /\ Fits(answer)
    BY <2>2, <2>3
  <2>5. QED
    BY <1>1, <1>7, <1>a, <2>4, EndsWell DEF Heard
<1>9. CASE Heard /\ asked.service = "ReadProperty"
  <2>1. \E answer : reply' = RouteBack(answer) /\ Fits(answer)
    BY <1>5, <1>6, <1>9, ServesRead
  <2>2. QED
    BY <1>1, <1>7, <1>9, <2>1, EndsWell DEF Heard
<1>10. CASE Heard /\ asked.service = "Who-Is"
  <2>1. ~Asks("ReadProperty") /\ ~Asks("ReadPropertyMultiple")
    BY <1>3, <1>5, <1>8, <1>10, ServiceAsked
  <2>2. FailureSet \notin {"reject", "abort", "silent"}
    BY <1>10, SettingsAssumption DEF FailureSet
  <2>3. Expected = IF asked.low = None \/ Instance \in asked.low..asked.high
                   THEN <<"I-Am", Instance>> ELSE <<"none">>
    BY <1>6, <1>10, <2>2 DEF Expected, Heard
  <2>4. AnswersWhoIs <=> (asked.low = None \/ Instance \in asked.low..asked.high)
    BY <1>5, <1>10, RangeRead
  <2>5. CASE AnswersWhoIs
    <3>1. PICK answer : answer = i_am(Instance)
      OBVIOUS
    <3>2. reply' = RouteBack(answer)
      BY <1>8, <2>1, <2>5, <3>1 DEF Serve, Listed, Malformed, Refused, Element, Reply
    <3>3. /\ Answers(answer) /\ answer.invoke_id = None
          /\ Says(answer) = <<"I-Am", Instance>>
      BY <1>3, <3>1, IAmSays
    <3>4. Fits(answer)
      BY <1>10, <2>3, <2>4, <2>5, <3>3 DEF Fits
    <3>5. QED
      BY <1>1, <1>7, <1>10, <3>2, <3>4, EndsWell DEF Heard
  <2>6. CASE ~AnswersWhoIs
    <3>1. reply' = None
      BY <1>8, <2>1, <2>6 DEF Serve, Listed, Malformed, Refused, Element, NoReply
    <3>2. QED
      BY <1>1, <1>7, <2>3, <2>4, <2>6, <3>1, EndsWell
  <2>7. QED
    BY <2>5, <2>6
<1>11. CASE ~(Heard /\ asked.service \in {"ReadProperty", "ReadPropertyMultiple", "Who-Is"})
  <2>1. ~Asks("ReadProperty") /\ ~Asks("ReadPropertyMultiple") /\ ~AnswersWhoIs
    BY <1>3, <1>5, <1>8, <1>11, ServiceAsked
  <2>2. reply' = None
    BY <1>8, <2>1 DEF Serve, Listed, Malformed, Refused, Element, NoReply
  <2>3. Expected = <<"none">>
    <3>1. CASE ~Heard
      BY <3>1 DEF Expected, Heard
    <3>2. CASE Heard
      <4>1. asked.service # "WriteProperty"
        BY <1>3, <1>5, <1>8, <3>2, ServiceAsked
      <4>2. FailureSet \notin {"reject", "abort", "silent"}
        BY <1>11, <3>2, <4>1, SettingsAssumption DEF FailureSet
      <4>3. asked.service \notin {"ReadProperty", "WriteProperty", "ReadPropertyMultiple", "Who-Is"}
        BY <1>5, <1>11, <3>2, <4>1
      <4>4. QED
        BY <1>6, <3>2, <4>2, <4>3 DEF Expected, Heard
    <3>3. QED
      BY <3>1, <3>2
  <2>4. QED
    BY <1>1, <1>7, <2>2, <2>3, EndsWell
<1>12. QED
  BY <1>a, <1>9, <1>10, <1>11

\* What is expected of a write while the server takes it.
LEMMA WriteExpected ==
  ASSUME Heard, asked.service = "WriteProperty", mode # "offline",
         FailureSet \in {None, "malformed"}
  PROVE  Expected = ExpectedWrite
<1>1. FailureSet \notin {"reject", "abort", "silent"}
  BY SettingsAssumption
<1>2. QED
  BY <1>1 DEF Expected, Heard

\* What the thread knows of a write in hand whose settings were left alone.
LEMMA WriteAsExpected ==
  ASSUME AsClientsSend, ServerInv, thread \in {"writing", "accepting"}, FoundOut
  PROVE  /\ Heard /\ asked.npdu /\ asked.service = "WriteProperty" /\ asked \in Requests
         /\ asked # None /\ mode # "offline" /\ FailureSet \in {None, "malformed"}
         /\ Expected = ExpectedWrite /\ apdu.invoke_id = 1
         /\ writing.object = asked.object /\ writing.property = asked.property
         /\ writing.value = asked.value /\ writing # None
         /\ is_null <=> asked.value = Null
<1>1. NoneIsNothing /\ asked # None /\ Asks("WriteProperty")
  BY DEF AsClientsSend, ServerInv, Shaped, KnowsService
<1>2. Heard /\ asked.service = "WriteProperty" /\ apdu.invoke_id = 1
  BY <1>1, ServiceAsked
<1>3. /\ asked \in Requests /\ writing # None
      /\ writing.object = asked.object /\ writing.property = asked.property
      /\ writing.value = asked.value
  BY WriteInHand
<1>4. mode # "offline" /\ FailureSet \in {None, "malformed"}
  BY <1>2 DEF FoundOut, ServerInv, Shaped
<1>5. is_null <=> asked.value = Null
  <2>1. is_null => asked.value = Null
    BY <1>2, <1>3 DEF is_null, AsClientsSend
  <2>2. application_tag(Null) = TAG_NULL
    BY DEF Null, application_tag, application, Tag
  <2>3. QED
    BY <1>3, <2>1, <2>2 DEF is_null
<1>6. QED
  BY <1>1, <1>2, <1>3, <1>4, <1>5, WriteExpected DEF Heard

LEMMA DecidingCheckNull ==
  ASSUME AsClientsSend, ServerInv, StorePlain, Deciding, CheckNull
  PROVE  StorePlain' /\ Deciding'
<1>1. /\ thread = "writing"
      /\ UNCHANGED <<store, settings, asked, frame, life, settled>>
  BY DEF CheckNull
<1>2. /\ StorePlain' /\ asked' = asked /\ settled' = settled /\ mode' = mode
      /\ FailureSet' = FailureSet /\ (Heard' <=> Heard) /\ (Relinquishes' <=> Relinquishes)
  BY <1>1, Unmoved
<1>3. SUFFICES ASSUME (asked # None /\ settled)'
               PROVE  FoundOut'
  BY <1>2 DEF Deciding
<1>4. FoundOut
  BY <1>2, <1>3 DEF Deciding
<1>5. /\ asked.npdu /\ asked.service = "WriteProperty" /\ mode # "offline"
      /\ Expected = ExpectedWrite /\ apdu.invoke_id = 1
      /\ writing.object = asked.object /\ writing.property = asked.property
      /\ is_null <=> asked.value = Null
      /\ writing # None
  BY <1>1, <1>4, WriteAsExpected
<1>6. CASE Relinquishes /\ Reply(simple_ack(apdu.invoke_id, "WriteProperty"), {})
  <2>1. ExpectedWrite = <<"ack">>
    BY <1>5, <1>6 DEF ExpectedWrite, HeldOf, Relinquishes, Known, commanded
  <2>2. PICK answer : answer = simple_ack(1, "WriteProperty")
    OBVIOUS
  <2>3. Answers(answer) /\ answer.invoke_id = 1 /\ Says(answer) = <<"ack">>
    BY <2>2, OthersSay
  <2>4. Fits(answer)
    BY <1>5, <2>1, <2>3 DEF Fits
  <2>5. reply' = RouteBack(answer) /\ Done
    BY <1>5, <1>6, <2>2 DEF Reply
  <2>6. QED
    BY <1>1, <1>5, <2>4, <2>5, EndsWell
<1>7. CASE ~Relinquishes /\ Proceed("accepting")
  <2>1. thread' = "accepting" /\ failure' = failure
    BY <1>7 DEF Proceed
  <2>2. (Heard => failure = FailureSet) /\ mode # "offline"
    BY <1>1, <1>4 DEF FoundOut
  <2>3. QED
    BY <1>2, <1>7, <2>1, <2>2 DEF FoundOut
<1>8. QED
  BY <1>5, <1>6, <1>7 DEF CheckNull

\* A store keeps what is served plain, and what was accepted accepted.
LEMMA StorePlainly ==
  ASSUME StorePlain, NEW octets, Store(octets), writing.object \in DOMAIN objects,
         Plain(octets, writing.object, writing.property),
         \A o \in Commanded : \A p \in 1..16 :
           priority_arrays'[o][p] # None => Plain(priority_arrays'[o][p], o, "PRESENT_VALUE")
  PROVE  StorePlain'
<1>1. PICK w : w = writing
  OBVIOUS
<1>2. objects' = [objects EXCEPT ![w.object] =
                    [property \in DOMAIN @ \union {w.property} |->
                       IF property = w.property THEN octets ELSE @[property]]]
  BY <1>1 DEF Store
<1>3. ASSUME NEW o \in DOMAIN objects', NEW p \in DOMAIN objects'[o]
      PROVE  Plain(objects'[o][p], o, p)
  <2>1. o \in DOMAIN objects
    BY <1>2
  <2>2. CASE o # w.object
    <3>1. objects'[o] = objects[o]
      BY <1>2, <2>1, <2>2
    <3>2. QED
      BY <1>3, <2>1, <3>1 DEF StorePlain
  <2>3. CASE o = w.object
    <3>1. objects'[o] = [property \in DOMAIN objects[o] \union {w.property} |->
                           IF property = w.property THEN octets ELSE objects[o][property]]
      BY <1>2, <2>1, <2>3
    <3>2. CASE p = w.property
      <4>1. objects'[o][p] = octets
        BY <1>3, <3>1, <3>2
      <4>2. QED
        BY <1>1, <2>3, <3>2, <4>1
    <3>3. CASE p # w.property
      <4>1. p \in DOMAIN objects[o] /\ objects'[o][p] = objects[o][p]
        BY <1>3, <3>1, <3>3
      <4>2. QED
        BY <2>1, <4>1 DEF StorePlain
    <3>4. QED
      BY <3>2, <3>3
  <2>4. QED
    BY <2>2, <2>3
<1>4. QED
  BY <1>3 DEF StorePlain

LEMMA StillAccepted ==
  ASSUME Accepted, NEW octets, Store(octets),
         UNCHANGED <<mode, failures, asked>>
  PROVE  Accepted'
<1>1. PICK w : w = writing
  OBVIOUS
<1>2. objects' = [objects EXCEPT ![w.object] =
                    [property \in DOMAIN @ \union {w.property} |->
                       IF property = w.property THEN octets ELSE @[property]]]
  BY <1>1 DEF Store
<1>3. /\ DOMAIN objects' = DOMAIN objects
      /\ \A o \in DOMAIN objects : DOMAIN objects[o] \subseteq DOMAIN objects'[o]
  BY <1>2
<1>4. (Heard' <=> Heard) /\ FailureSet' = FailureSet
  BY DEF Heard, FailureSet
<1>5. QED
  BY <1>3, <1>4 DEF Accepted

LEMMA DecidingAccept ==
  ASSUME AsClientsSend, ServerInv, StorePlain, Deciding, Accept
  PROVE  StorePlain' /\ Deciding'
<1>1. /\ thread = "accepting" /\ priority_arrays' = priority_arrays
      /\ UNCHANGED <<settings, asked, frame, life, settled>>
  BY DEF Accept
<1>2. /\ mode' = mode /\ failures' = failures /\ asked' = asked /\ frame' = frame
      /\ settled' = settled /\ UNCHANGED settings
  BY <1>1 DEF settings
<1>3. /\ asked \in Requests /\ asked.service = "WriteProperty"
      /\ writing.object = asked.object /\ writing.property = asked.property
      /\ writing.value = asked.value
  BY <1>1, WriteInHand
<1>4. CASE UNCHANGED objects /\ (Known => mode = "refusing" \/ ~Allowed)
  <2>1. UNCHANGED <<store, settings, asked, frame, life, settled>>
    BY <1>1, <1>4 DEF store
  <2>2. StorePlain'
    BY <2>1, Unmoved
  <2>3. SUFFICES ASSUME (asked # None /\ settled)'
                 PROVE  FoundOut'
    BY <2>2 DEF Deciding
  <2>4. FoundOut
    BY <1>2, <2>3 DEF Deciding
  <2>5. /\ asked.npdu /\ mode # "offline" /\ Expected = ExpectedWrite /\ apdu.invoke_id = 1
        /\ is_null <=> asked.value = Null
    BY <1>1, <2>4, WriteAsExpected
  <2>6. ~Relinquishes
    BY <1>1, <2>4 DEF FoundOut
  <2>7. ASSUME NEW class, NEW code,
               Reply(error_pdu(apdu.invoke_id, "WriteProperty", class, code), {}),
               Expected = <<"error", class, code>>
        PROVE  FoundOut'
    <3>1. PICK answer : answer = error_pdu(1, "WriteProperty", class, code)
      OBVIOUS
    <3>2. Answers(answer) /\ answer.invoke_id = 1 /\ Says(answer) = <<"error", class, code>>
      BY <3>1, ErrorSays
    <3>3. Fits(answer)
      BY <1>3, <2>7, <3>2 DEF Fits
    <3>4. reply' = RouteBack(answer) /\ Done
      BY <2>5, <2>7, <3>1 DEF Reply
    <3>5. QED
      BY <2>1, <2>5, <3>3, <3>4, EndsWell
  <2>8. CASE ~Known
    <3>1. Expected = <<"error", "OBJECT", "UNKNOWN_OBJECT">>
      BY <1>3, <2>5, <2>8 DEF ExpectedWrite, Known
    <3>2. Reply(error_pdu(apdu.invoke_id, "WriteProperty", "OBJECT", "UNKNOWN_OBJECT"), {})
      BY <2>8 DEF Accept, WriteError
    <3>3. QED
      BY <2>7, <3>1, <3>2
  <2>9. CASE Known /\ (mode = "refusing" \/ ~Allowed)
    <3>1. Expected = <<"error", "PROPERTY", "WRITE_ACCESS_DENIED">>
      BY <1>3, <2>5, <2>6, <2>9
         DEF ExpectedWrite, HeldOf, Known, Allowed, Relinquishes, commanded
    <3>2. Reply(error_pdu(apdu.invoke_id, "WriteProperty", "PROPERTY", "WRITE_ACCESS_DENIED"), {})
      BY <2>9 DEF Accept, WriteError
    <3>3. QED
      BY <2>7, <3>1, <3>2
  <2>10. QED
    BY <1>4, <2>8, <2>9
<1>5. CASE /\ Known /\ mode # "refusing" /\ Allowed /\ Store(writing.value)
           /\ \/ commanded /\ Proceed("commanding")
              \/ ~commanded /\ Reply(simple_ack(apdu.invoke_id, "WriteProperty"), {})
  <2>1. PICK octets : octets = writing.value /\ Store(octets)
    BY <1>5
  <2>2. Plain(octets, writing.object, writing.property)
    BY <1>3, <2>1 DEF AsClientsSend
  <2>3. StorePlain'
    <3>1. \A o \in Commanded : \A p \in 1..16 :
            priority_arrays'[o][p] # None => Plain(priority_arrays'[o][p], o, "PRESENT_VALUE")
      BY <1>1 DEF StorePlain
    <3>2. writing.object \in DOMAIN objects
      BY <1>5 DEF Known
    <3>3. QED
      BY <2>1, <2>2, <3>1, <3>2, StorePlainly
  <2>4. SUFFICES ASSUME (asked # None /\ settled)'
                 PROVE  FoundOut'
    BY <2>3 DEF Deciding
  <2>5. FoundOut
    BY <1>2, <2>4 DEF Deciding
  <2>6. /\ Heard /\ mode # "offline" /\ FailureSet \in {None, "malformed"}
        /\ apdu.invoke_id = 1
    BY <1>1, <2>5, WriteAsExpected
  <2>7. Accepted
    BY <1>3, <1>5, <2>6 DEF Accepted, Known, Allowed
  <2>8. Accepted'
    BY <1>2, <2>1, <2>7, StillAccepted
  <2>9. CASE Proceed("commanding")
    BY <2>8, <2>9 DEF Proceed, FoundOut
  <2>10. CASE Reply(simple_ack(apdu.invoke_id, "WriteProperty"), {})
    <3>1. PICK answer : answer = simple_ack(1, "WriteProperty")
      OBVIOUS
    <3>2. reply' = RouteBack(answer) /\ thread' = "waiting"
      BY <2>6, <2>10, <3>1 DEF Reply, Done
    <3>3. RouteBack(answer)' = RouteBack(answer)
      BY <1>2 DEF RouteBack
    <3>4. Answered'
      BY <2>8, <3>1, <3>2, <3>3 DEF Answered
    <3>5. QED
      BY <3>2, <3>4 DEF FoundOut
  <2>11. QED
    BY <1>5, <2>9, <2>10
<1>6. \/ ~Known /\ UNCHANGED objects
      \/ Known /\ (mode = "refusing" \/ ~Allowed) /\ UNCHANGED objects
      \/ Known /\ mode # "refusing" /\ Allowed
  BY DEF Accept
<1>7. ASSUME Known, mode # "refusing", Allowed
      PROVE  /\ Store(writing.value)
             /\ \/ commanded /\ Proceed("commanding")
                \/ ~commanded /\ Reply(simple_ack(apdu.invoke_id, "WriteProperty"), {})
  BY <1>7 DEF Accept
<1>8. QED
  BY <1>4, <1>5, <1>6, <1>7

LEMMA DecidingCommandSlot ==
  ASSUME AsClientsSend, ServerInv, StorePlain, Deciding, CommandSlot
  PROVE  StorePlain' /\ Deciding'
<1>1. /\ thread = "commanding"
      /\ UNCHANGED <<settings, asked, frame, life, settled>>
      /\ Reply(simple_ack(apdu.invoke_id, "WriteProperty"), {})
  BY DEF CommandSlot
<1>2. /\ mode' = mode /\ failures' = failures /\ asked' = asked /\ frame' = frame
      /\ settled' = settled
  BY <1>1 DEF settings
<1>3. /\ asked \in Requests /\ asked.service = "WriteProperty"
      /\ writing.object = asked.object /\ writing.property = asked.property
      /\ writing.value = asked.value
  BY <1>1, WriteInHand
<1>4. PICK object : object = writing.object
  OBVIOUS
<1>5. PICK slot, filling : slot = Slot /\ filling = IF is_null THEN None ELSE writing.value
  OBVIOUS
<1>6. PICK slots : /\ slots = [priority_arrays[object] EXCEPT ![slot] = filling]
                   /\ priority_arrays' = [priority_arrays EXCEPT ![object] = slots]
                   /\ Store(Winner(object, slots))
  BY <1>4, <1>5 DEF CommandSlot
<1>7. object \in Commanded /\ writing.property = "PRESENT_VALUE" /\ object \in DOMAIN objects
  BY <1>1, <1>4, CommandableAssumption
     DEF ServerInv, KnowsService, commanded, Shaped, StoreShaped
<1>8. /\ DOMAIN priority_arrays = Commanded
      /\ \A o \in Commanded : DOMAIN priority_arrays[o] = 1..16
      /\ DOMAIN slots = 1..16
  BY <1>6, <1>7 DEF ServerInv, Shaped, StoreShaped
<1>9. filling # None => Plain(filling, object, "PRESENT_VALUE")
  BY <1>3, <1>4, <1>5, <1>7 DEF AsClientsSend
<1>10. \A p \in 1..16 : slots[p] # None => Plain(slots[p], object, "PRESENT_VALUE")
  <2>1. ASSUME NEW p \in 1..16, slots[p] # None
        PROVE  Plain(slots[p], object, "PRESENT_VALUE")
    <3>1. CASE p = slot
      <4>1. slots[p] = filling
        BY <1>6, <1>7, <1>8, <3>1
      <4>2. QED
        BY <1>9, <2>1, <4>1
    <3>2. CASE p # slot
      <4>1. slots[p] = priority_arrays[object][p]
        BY <1>6, <1>7, <1>8, <3>2
      <4>2. QED
        BY <1>7, <2>1, <4>1 DEF StorePlain
    <3>3. QED
      BY <3>1, <3>2
  <2>2. QED
    BY <2>1
<1>11. PICK octets : octets = Winner(object, slots) /\ Store(octets)
  BY <1>6
<1>12. Plain(octets, object, "PRESENT_VALUE")
  <2> DEFINE filled == {p \in DOMAIN slots : slots[p] # None}
  <2>1. CASE filled = {}
    <3>1. octets = Objects[object]["PRESENT_VALUE"]
      BY <1>11, <2>1 DEF Winner
    <3>2. object \in DOMAIN Objects /\ "PRESENT_VALUE" \in DOMAIN Objects[object]
      BY <1>7, CommandableAssumption
    <3>3. QED
      BY <3>1, <3>2 DEF AsClientsSend
  <2>2. CASE filled # {}
    <3>1. filled \subseteq 1..16
      BY <1>8
    <3>a. filled \subseteq Nat
      BY <3>1
    <3>2. PICK p : p = Min(filled)
      OBVIOUS
    <3>3. octets = slots[p]
      BY <1>11, <2>2, <3>2 DEF Winner
    <3>4. \E e \in filled : \A i \in filled : e <= i
      BY <2>2, <3>1, <3>a, LeastMember
    <3>5. p \in filled
      BY <3>2, <3>4 DEF Min
    <3>6. QED
      BY <1>10, <3>1, <3>3, <3>5
  <2>3. QED
    BY <2>1, <2>2
<1>13. \A o \in Commanded : \A p \in 1..16 :
         priority_arrays'[o][p] # None => Plain(priority_arrays'[o][p], o, "PRESENT_VALUE")
  <2>1. ASSUME NEW o \in Commanded, NEW p \in 1..16, priority_arrays'[o][p] # None
        PROVE  Plain(priority_arrays'[o][p], o, "PRESENT_VALUE")
    <3>1. CASE o = object
      <4>1. priority_arrays'[o] = slots
        BY <1>6, <1>7, <1>8, <3>1
      <4>2. QED
        BY <1>10, <2>1, <3>1, <4>1
    <3>2. CASE o # object
      <4>1. priority_arrays'[o] = priority_arrays[o]
        BY <1>6, <1>8, <3>2
      <4>2. QED
        BY <2>1, <4>1 DEF StorePlain
    <3>3. QED
      BY <3>1, <3>2
  <2>2. QED
    BY <2>1
<1>14. StorePlain'
  BY <1>4, <1>7, <1>11, <1>12, <1>13, StorePlainly
<1>15. ASSUME (asked # None /\ settled)'
       PROVE  FoundOut'
  <2>1. FoundOut
    BY <1>2, <1>15 DEF Deciding
  <2>2. Accepted
    BY <1>1, <2>1 DEF FoundOut
  <2>3. Accepted'
    BY <1>2, <1>11, <2>2, StillAccepted
  <2>4. apdu.invoke_id = 1
    <3>1. NoneIsNothing /\ asked # None
      BY <1>1 DEF AsClientsSend, ServerInv, Shaped
    <3>2. QED
      BY <2>2, <3>1, ServiceAsked DEF Accepted
  <2>5. PICK answer : answer = simple_ack(1, "WriteProperty")
    OBVIOUS
  <2>6. reply' = RouteBack(answer) /\ thread' = "waiting"
    BY <1>1, <2>4, <2>5 DEF Reply, Done
  <2>7. RouteBack(answer)' = RouteBack(answer)
    BY <1>2 DEF RouteBack
  <2>8. Answered'
    BY <2>3, <2>5, <2>6, <2>7 DEF Answered
  <2>9. QED
    BY <2>6, <2>8 DEF FoundOut
<1>16. QED
  BY <1>14, <1>15 DEF Deciding

\* What the test changes, and the end of the thread.
LEMMA DecidingOthers ==
  ASSUME StorePlain, Deciding,
         SetMode \/ SetFailure \/ RefuseWhole \/ Ending \/ UNCHANGED vars
  PROVE  StorePlain' /\ Deciding'
<1>1. CASE SetMode \/ SetFailure \/ RefuseWhole
  <2>1. settled' = FALSE /\ objects' = objects /\ priority_arrays' = priority_arrays
    BY <1>1 DEF SetMode, SetFailure, RefuseWhole, Change, store
  <2>2. QED
    BY <2>1 DEF StorePlain, Deciding
<1>2. CASE Ending \/ UNCHANGED vars
  <2>1. /\ UNCHANGED <<objects, priority_arrays, mode, failures, whole_arrays_refused>>
        /\ UNCHANGED <<asked, frame, failure, reply, settled>>
        /\ thread' = thread \/ thread' = "ended"
    BY <1>2 DEF Ending, Stop, Leave, Close, vars, store, settings
  <2>2. StorePlain'
    BY <2>1 DEF StorePlain
  <2>3. CASE thread' = "ended"
    BY <2>2, <2>3 DEF Deciding, FoundOut
  <2>4. CASE thread' = thread
    <3>1. Expected' = Expected /\ (Heard' <=> Heard) /\ FailureSet' = FailureSet
      BY <2>1, ExpectedSame
    <3>2. writing' = writing /\ (commanded' <=> commanded)
      BY <2>1, SameFrame
    <3>3. Relinquishes' <=> Relinquishes
      BY <2>1, <3>2 DEF Relinquishes, is_null, Known
    <3>4. Accepted' <=> Accepted
      BY <2>1, <3>1 DEF Accepted
    <3>5. Answered => Answered'
      BY <2>1, <3>1, <3>4 DEF Answered, Fits, RouteBack
    <3>6. FoundOut => FoundOut'
      BY <2>1, <2>4, <3>1, <3>3, <3>4, <3>5 DEF FoundOut
    <3>7. QED
      BY <2>1, <2>2, <3>6 DEF Deciding
  <2>5. QED
    BY <2>1, <2>3, <2>4
<1>3. QED
  BY <1>1, <1>2

-----------------------------------------------------------------------------

LEMMA DecidingStep ==
  ASSUME AsClientsSend, ServerInv, StorePlain, Deciding, [Next]_vars
  PROVE  StorePlain' /\ Deciding'
<1>1. CASE \E r \in Requests : Receive(r)
  BY <1>1, DecidingReceive
<1>2. CASE Answer
  BY <1>2, DecidingCheckFailures, DecidingAdmit, DecidingServe, DecidingCheckNull,
     DecidingAccept, DecidingCommandSlot DEF Answer
<1>3. CASE SetMode \/ SetFailure \/ RefuseWhole \/ Ending \/ UNCHANGED vars
  BY <1>3, DecidingOthers
<1>4. QED
  BY <1>1, <1>2, <1>3 DEF Next

LEMMA DecidingInit ==
  ASSUME AsClientsSend, Init
  PROVE  StorePlain /\ Deciding
<1>1. asked = None /\ objects = Objects
  BY DEF Init
<1>2. \A o \in Commanded : \A p \in 1..16 : priority_arrays[o][p] = None
  BY DEF Init
<1>3. QED
  BY <1>1, <1>2 DEF Deciding, StorePlain, AsClientsSend

\* What has been answered as the settings decide is heard as they decide.
LEMMA AnsweredIsHeard ==
  ASSUME AsClientsSend, ServerInv, asked # None, Answered
  PROVE  Said = Expected /\ WayBack
<1>1. NoneIsNothing /\ asked \in Requests
  BY InHand DEF AsClientsSend
<1>2. asked.snet = None => asked.sadr = None
  BY <1>1 DEF AsClientsSend
<1>3. ASSUME NEW answer, asked.npdu, reply = RouteBack(answer), Fits(answer)
      PROVE  Said = Expected /\ WayBack
  <2>1. /\ Answers(answer) /\ Says(answer) = Expected
        /\ answer.invoke_id = (IF asked.service = "Who-Is" THEN None ELSE 1)
    BY <1>3 DEF Fits
  <2>2. /\ Said = Says(answer) /\ Frame(reply).payload.invoke_id = answer.invoke_id
    BY <1>1, <1>3, <2>1, SaidIsSays
  <2>3. frame.snet = asked.snet /\ (asked.snet # None => frame.sadr = asked.sadr)
    BY <1>1, <1>3, InHand
  <2>4. Frame(reply).dnet = asked.snet /\ Frame(reply).dadr = asked.sadr
    <3>1. PICK back : back = Frame(reply)
      OBVIOUS
    <3>2. /\ frame.snet # None => back.dnet = frame.snet /\ back.dadr = frame.sadr
          /\ frame.snet = None => back.dnet = None /\ back.dadr = None
      BY <1>3, <3>1, BackFrame
    <3>3. QED
      BY <1>2, <2>3, <3>1, <3>2
  <2>5. QED
    BY <2>1, <2>2, <2>4 DEF WayBack
<1>4. CASE reply = None /\ Expected = <<"none">>
  BY <1>4 DEF Said, WayBack
<1>5. CASE reply = RouteBack(simple_ack(1, "WriteProperty")) /\ Accepted
  <2>1. PICK answer : answer = simple_ack(1, "WriteProperty")
    OBVIOUS
  <2>2. Answers(answer) /\ answer.invoke_id = 1 /\ Says(answer) = <<"ack">>
    BY <2>1, OthersSay
  <2>3. /\ Heard /\ asked.npdu /\ asked.service = "WriteProperty" /\ Expected = ExpectedWrite
    BY <1>5, WriteExpected DEF Accepted, Heard
  <2>4. ExpectedWrite = <<"ack">>
    BY <1>5 DEF Accepted, ExpectedWrite, HeldOf
  <2>5. Fits(answer)
    BY <2>2, <2>3, <2>4 DEF Fits
  <2>6. QED
    BY <1>3, <1>5, <2>1, <2>3, <2>5
<1>6. QED
  BY <1>3, <1>4, <1>5 DEF Answered

\* A client reads the answer the settings call for, whatever objects are served
\* and settings made, wherever the thread was between its four looks at them,
\* and the answer comes back the way the request came: of a ReadPropertyMultiple
\* one result for each property it asks for, and no other.
THEOREM SettingsDecideAnswers ==
  ASSUME AsClientsSend
  PROVE  ServerSpec => []SettingsDecide
<1>1. Init => StorePlain /\ Deciding
  BY DecidingInit
<1>2. ServerInv /\ StorePlain /\ Deciding /\ [Next]_vars => StorePlain' /\ Deciding'
  BY DecidingStep
<1>3. ServerInv /\ Deciding => SettingsDecide
  <2> SUFFICES ASSUME ServerInv, Deciding, thread = "waiting", asked # None, settled
               PROVE  Said = Expected /\ WayBack
    BY DEF SettingsDecide
  <2>1. Answered
    BY DEF Deciding, FoundOut
  <2>2. QED
    BY <2>1, AnsweredIsHeard
<1>4. QED
  BY <1>1, <1>2, <1>3, ServerInductive, PTL DEF ServerSpec

-----------------------------------------------------------------------------
\* Constructed values, from the one who writes them to the one who reads them

\* What is written is what can be read: a time stamp is a date and a time, and a
\* landing call that has a direction has no destination.
AsWritten ==
  /\ \A r \in Requests : r.service = "ConfirmedEventNotification" =>
       r.notification.time_stamp =
         [date |-> r.notification.time_stamp.date, time |-> r.notification.time_stamp.time]
  /\ \A calls \in LandingCalls :
       /\ \E n \in Nat : DOMAIN calls = 1..n
       /\ calls = [k \in DOMAIN calls |->
            [floor |-> calls[k].floor, direction |-> calls[k].direction,
             destination |-> IF calls[k].direction = None THEN calls[k].destination ELSE None,
             floor_text |-> calls[k].floor_text]]

\* A property that is there is read without an index.
WholeAsked ==
  /\ asked # None /\ Heard /\ asked.service = "ReadProperty" /\ asked.index = None
  /\ asked.property \in HeldOf(asked.object)

\* An answer that gives a value gives the malformed one or the one served.
Faithful(answer) ==
  /\ Answers(answer)
  /\ Says(answer)[1] = "value" =>
       Says(answer)[2] = Null \/ Says(answer)[2] = objects[asked.object][asked.property]

WholeRead ==
  thread = "waiting" /\ WholeAsked /\ reply # None =>
    \E answer : reply = RouteBack(answer) /\ Faithful(answer)

\* What is refused or rejected gives no value.
LEMMA RefusalFaithful ==
  ASSUME NEW answer, NEW id, NEW reason,
         answer = reject_pdu(id, reason) \/ answer = abort_pdu(id, reason)
  PROVE  Faithful(answer)
<1>1. Answers(answer) /\ (Says(answer) = <<"Reject", reason>> \/ Says(answer) = <<"Abort", reason>>)
  BY OthersSay
<1>2. Says(answer)[1] # "value"
  BY <1>1
<1>3. QED
  BY <1>1, <1>2 DEF Faithful

LEMMA ValueFaithful ==
  ASSUME NEW answer, NEW id, NEW object, NEW property, NEW index, NEW list, Complete(list),
         answer = read_property_ack(id, object, property, index, list),
         list = Null \/ list = objects[asked.object][asked.property]
  PROVE  Faithful(answer)
<1>1. Answers(answer) /\ Says(answer) = <<"value", list>>
  BY AckSays
<1>2. Says(answer)[2] = list
  BY <1>1
<1>3. QED
  BY <1>1, <1>2 DEF Faithful

\* What answers a request with the store and the request as they were.
LEMMA StaysFaithful ==
  ASSUME UNCHANGED <<objects, asked, frame>>, NEW answer, reply' = RouteBack(answer),
         Faithful(answer)
  PROVE  WholeRead'
<1>1. RouteBack(answer)' = RouteBack(answer)
  BY DEF RouteBack
<1>2. Faithful(answer)'
  BY DEF Faithful
<1>3. reply' = RouteBack(answer)' /\ Faithful(answer)'
  BY <1>1, <1>2
<1>4. QED
  BY <1>3 DEF WholeRead

LEMMA WholeServe ==
  ASSUME AsClientsSend, ServerInv, StorePlain, Serve
  PROVE  WholeRead'
<1>1. UNCHANGED <<objects, asked, frame>>
  BY DEF Serve, store
<1>2. SUFFICES ASSUME WholeAsked', reply' # None
               PROVE  WholeRead'
  BY DEF WholeRead
<1>3. WholeAsked
  BY <1>1, <1>2 DEF WholeAsked, Heard, HeldOf
<1>4. asked # None /\ Heard /\ asked.service = "ReadProperty" /\ asked.index = None
  BY <1>3 DEF WholeAsked
<1>5. asked.object \in DOMAIN objects /\ asked.property \in DOMAIN objects[asked.object]
  BY <1>3 DEF WholeAsked, HeldOf
<1>6. /\ reading.object = asked.object /\ reading.property = asked.property
      /\ reading.array_index = None /\ reading # None
      /\ Asks("ReadProperty") /\ ~Asks("ReadPropertyMultiple") /\ ~AnswersWhoIs
  BY <1>4, ReadInHand DEF AsClientsSend
<1>7. Listed /\ ~Element
  BY <1>5, <1>6 DEF Listed, Element
<1>8. PICK octets : /\ octets = objects[asked.object][asked.property]
                    /\ octets # None /\ Complete(octets) /\ value = octets
  <2>1. Complete(objects[asked.object][asked.property])
        /\ objects[asked.object][asked.property] # None
    BY <1>5 DEF StorePlain, Plain
  <2>2. QED
    BY <1>5, <1>6, <2>1 DEF value, Served
<1>9. CASE Malformed /\ Reply(Ack(None, Null), {})
  <2>1. PICK answer : /\ answer = read_property_ack(apdu.invoke_id, reading.object,
                                                    reading.property, None, Null)
                      /\ reply' = RouteBack(answer)
    BY <1>9 DEF Reply, Ack
  <2>2. Faithful(answer)
    BY <2>1, NullPlain, ValueFaithful
  <2>3. QED
    BY <1>1, <2>1, <2>2, StaysFaithful
<1>10. CASE Refused /\ Reply(abort_pdu(apdu.invoke_id, "SEGMENTATION_NOT_SUPPORTED"),
                             {"read_requests"})
  <2>1. PICK answer : /\ answer = abort_pdu(apdu.invoke_id, "SEGMENTATION_NOT_SUPPORTED")
                      /\ reply' = RouteBack(answer)
    BY <1>10 DEF Reply
  <2>2. Faithful(answer)
    BY <2>1, RefusalFaithful
  <2>3. QED
    BY <1>1, <2>1, <2>2, StaysFaithful
<1>11. CASE Reply(IF value = None THEN ReadError("UNKNOWN_PROPERTY") ELSE Ack(None, value),
                  {"read_requests"})
  <2>1. PICK answer : /\ answer = read_property_ack(apdu.invoke_id, reading.object,
                                                    reading.property, None, octets)
                      /\ reply' = RouteBack(answer)
    BY <1>8, <1>11 DEF Reply, Ack
  <2>2. Faithful(answer)
    BY <1>8, <2>1, ValueFaithful
  <2>3. QED
    BY <1>1, <2>1, <2>2, StaysFaithful
<1>12. QED
  BY <1>6, <1>7, <1>9, <1>10, <1>11 DEF Serve

LEMMA WholeStep ==
  ASSUME AsClientsSend, ServerInv, StorePlain, WholeRead, [Next]_vars
  PROVE  WholeRead'
<1>1. ASSUME reply' = None PROVE WholeRead'
  BY <1>1 DEF WholeRead
<1>2. ASSUME thread' # "waiting" PROVE WholeRead'
  BY <1>2 DEF WholeRead
<1>3. CASE \E r \in Requests : Receive(r)
  BY <1>1, <1>3 DEF Receive
<1>4. CASE CheckFailures
  <2>1. UNCHANGED <<objects, asked, frame>>
    BY <1>4 DEF CheckFailures, store
  <2>2. ASSUME NEW answer, reply' = RouteBack(answer),
               \/ answer = reject_pdu(apdu.invoke_id, "UNRECOGNIZED_SERVICE")
               \/ answer = abort_pdu(apdu.invoke_id, "SEGMENTATION_NOT_SUPPORTED")
        PROVE  WholeRead'
    <3>1. Faithful(answer)
      BY <2>2, RefusalFaithful
    <3>2. QED
      BY <2>1, <2>2, <3>1, StaysFaithful
  <2>3. QED
    BY <1>1, <1>2, <1>4, <2>2 DEF CheckFailures, Reply, NoReply
<1>5. CASE Admit
  BY <1>1, <1>2, <1>5 DEF Admit, NoReply, Proceed
<1>6. CASE Serve
  BY <1>6, WholeServe
<1>7. CASE CheckNull \/ Accept \/ CommandSlot
  <2>1. thread \in {"writing", "accepting", "commanding"} /\ asked' = asked
    BY <1>7 DEF CheckNull, Accept, CommandSlot
  <2>2. Asks("WriteProperty") /\ asked # None
    BY <2>1 DEF ServerInv, KnowsService, Shaped
  <2>3. asked.service = "WriteProperty"
    BY <2>2, ServiceAsked DEF AsClientsSend
  <2>4. ~WholeAsked'
    BY <2>1, <2>3 DEF WholeAsked
  <2>5. QED
    BY <2>4 DEF WholeRead
<1>8. CASE SetMode \/ SetFailure \/ RefuseWhole \/ Ending \/ UNCHANGED vars
  <2>1. /\ UNCHANGED <<objects, asked, frame, reply>>
        /\ thread' = thread \/ thread' = "ended"
    BY <1>8 DEF SetMode, SetFailure, RefuseWhole, Change, Ending, Stop, Leave, Close, vars, store
  <2>2. SUFFICES ASSUME thread' = "waiting", WholeAsked', reply' # None
                 PROVE  WholeRead'
    BY DEF WholeRead
  <2>3. thread = "waiting" /\ WholeAsked /\ reply # None
    BY <2>1, <2>2 DEF WholeAsked, Heard, HeldOf
  <2>4. PICK answer : reply = RouteBack(answer) /\ Faithful(answer)
    BY <2>3 DEF WholeRead
  <2>5. QED
    BY <2>1, <2>4, StaysFaithful
<1>9. QED
  BY <1>3, <1>4, <1>5, <1>6, <1>7, <1>8 DEF Next, Answer

LEMMA ReadBack ==
  ASSUME AsClientsSend, AsWritten, ServerInv, WholeRead
  PROVE  ServicesReadBack
<1> SUFFICES ASSUME asked # None, asked.npdu, asked.message = None
             PROVE  /\ asked.service = "ConfirmedEventNotification" =>
                         EventNotification(apdu) = Notified(asked.notification)
                    /\ asked.service = "ReadProperty" =>
                         \A calls \in LandingCalls :
                           /\ thread = "waiting" /\ asked.index = None
                           /\ Said[1] = "value" /\ Said[2] # Null
                           /\ asked.property \in HeldOf(asked.object)
                           /\ objects[asked.object][asked.property] = landing_calls(calls)
                           => decode_landing_calls(Said[2]) = calls
  BY DEF ServicesReadBack
<1>1. NoneIsNothing /\ Heard
  BY DEF AsClientsSend, Heard
<1>2. ASSUME asked.service = "ConfirmedEventNotification"
      PROVE  EventNotification(apdu) = Notified(asked.notification)
  <2>1. PICK r \in Requests : r = asked
    BY <1>1, InHand
  <2>2. PICK n : n = r.notification
    OBVIOUS
  <2>3. apdu = event_notification(n, TRUE, 1)
    <3>1. apdu = Encode(r)
      BY <1>1, <2>1, InHand
    <3>2. QED
      BY <1>2, <2>1, <2>2, <3>1 DEF Encode
  <2>4. n.time_stamp = [date |-> n.time_stamp.date, time |-> n.time_stamp.time]
    BY <1>2, <2>1, <2>2 DEF AsWritten
  <2>5. EventNotification(event_notification(n, TRUE, 1)) = Notified(n)
    BY <2>4, NotificationReadBack DEF Notified
  <2>6. QED
    BY <2>1, <2>2, <2>3, <2>5
<1>3. ASSUME asked.service = "ReadProperty", NEW calls \in LandingCalls,
             thread = "waiting", asked.index = None, Said[1] = "value", Said[2] # Null,
             asked.property \in HeldOf(asked.object),
             objects[asked.object][asked.property] = landing_calls(calls)
      PROVE  decode_landing_calls(Said[2]) = calls
  <2>1. reply # None
    <3>1. reply = None => Said = <<"none">>
      BY DEF Said
    <3>2. QED
      BY <1>3, <3>1
  <2>2. PICK answer : reply = RouteBack(answer) /\ Faithful(answer)
    BY <1>1, <1>3, <2>1 DEF WholeRead, WholeAsked
  <2>3. Said = Says(answer)
    BY <1>1, <2>2, SaidIsSays DEF Faithful
  <2>4. Said[2] = landing_calls(calls)
    BY <1>3, <2>2, <2>3 DEF Faithful
  <2>5. PICK n \in Nat : DOMAIN calls = 1..n
    BY DEF AsWritten
  <2>6. calls = [k \in 1..n |->
          [floor |-> calls[k].floor, direction |-> calls[k].direction,
           destination |-> IF calls[k].direction = None THEN calls[k].destination ELSE None,
           floor_text |-> calls[k].floor_text]]
    BY <2>5 DEF AsWritten
  <2>7. decode_landing_calls(landing_calls(calls)) = calls
    <3>1. landing_calls(calls) = FlattenSeq([k \in 1..n |-> landing_call_status(calls[k])])
      BY <2>5 DEF landing_calls
    <3>2. QED
      BY <2>6, <3>1, CallsRead
  <2>8. QED
    BY <2>4, <2>7
<1>4. QED
  BY <1>2, <1>3

\* A workstation reads of a notification, and of the landing calls of a lift,
\* what was written, whatever stands around it and whatever the settings were
\* meanwhile: a read that is answered with a value gives the whole of what is
\* served, or the malformed value.
THEOREM ServicesAreReadBack ==
  ASSUME AsClientsSend, AsWritten
  PROVE  ServerSpec => []ServicesReadBack
<1>1. Init => StorePlain /\ Deciding /\ WholeRead
  <2>1. Init => WholeRead
    BY DEF Init, WholeRead, WholeAsked
  <2>2. QED
    BY <2>1, DecidingInit
<1>2. ServerInv /\ StorePlain /\ Deciding /\ WholeRead /\ [Next]_vars
        => StorePlain' /\ Deciding' /\ WholeRead'
  BY DecidingStep, WholeStep
<1>3. ServerInv /\ WholeRead => ServicesReadBack
  BY ReadBack
<1>4. QED
  BY <1>1, <1>2, <1>3, ServerInductive, PTL DEF ServerSpec
=============================================================================
