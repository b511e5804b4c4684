---------------------------- MODULE TransportProofs ---------------------------
(***************************************************************************)
(* The octets this repository splits a number into, and what is read back  *)
(* of them: the lengths in front of strings, for every length a string may *)
(* have, and the connection strings of the two callbacks, for every        *)
(* address and port; and what these carry: replies to the client, what is  *)
(* meant for the subnet to the subnet, and a count of the latter that the  *)
(* wire agrees with.                                                       *)
(***************************************************************************)
EXTENDS Transport, Counting, SequenceTheorems, FiniteSetTheorems, TLAPS

-----------------------------------------------------------------------------
\* Lengths

\* What is split into two octets, high and low, is put together again.
LEMMA TwoOctets ==
  ASSUME NEW number \in Short
  PROVE  /\ number \div 256 \in Octet
         /\ number % 256 \in Octet
         /\ (number \div 256) * 256 + (number % 256) = number
BY DEF Octet, Short

\* application_octet_string and read_tag agree on the length of every octet
\* string of up to 65535 octets, across both places where the form changes.
THEOREM OctetStringLength ==
  ASSUME NEW length \in Short
  PROVE  read_length(octet_string_header(length)) = length
<1>0. length \in Int
  BY DEF Short
<1>1. CASE length < 5
  BY <1>0, <1>1 DEF read_length, octet_string_header
<1>2. CASE length >= 5 /\ length < 254
  BY <1>0, <1>2 DEF read_length, octet_string_header
<1>3. CASE length >= 254
  <2>1. octet_string_header(length) = <<5, 254, length \div 256, length % 256>>
    BY <1>0, <1>3 DEF octet_string_header
  <2>2. read_length(<<5, 254, length \div 256, length % 256>>)
          = (length \div 256) * 256 + (length % 256)
    BY DEF read_length
  <2>3. QED
    BY <2>1, <2>2, TwoOctets
<1>4. QED
  BY <1>0, <1>1, <1>2, <1>3

\* application_character_string tells the length in one octet: it is read back
\* as written up to 253 octets.  (254 and 255 are read as the announcement of a
\* longer length, and more than 255 do not fit in the octet.)
THEOREM CharacterStringLength ==
  ASSUME NEW length \in Nat, length < 254
  PROVE  read_length(character_string_header(length)) = length
BY DEF read_length, character_string_header

-----------------------------------------------------------------------------
\* Connection strings

\* The octets of an address and of a port, one after the other.
LEMMA Joined ==
  ASSUME NEW ip \in IPv4, NEW high \in Octet, NEW low \in Octet
  PROVE  /\ ip \o <<high, low>> \in Seq(Octet)
         /\ Len(ip \o <<high, low>>) = 6
         /\ \A i \in 1..4 : (ip \o <<high, low>>)[i] = ip[i]
         /\ (ip \o <<high, low>>)[5] = high
         /\ (ip \o <<high, low>>)[6] = low
<1> DEFINE tail == <<high, low>>
<1>1. /\ ip \in Seq(Octet) /\ Len(ip) = 4
      /\ tail \in Seq(Octet) /\ Len(tail) = 2 /\ tail[1] = high /\ tail[2] = low
  BY DEF IPv4
<1> HIDE DEF tail
<1>2. /\ ip \o tail \in Seq(Octet)
      /\ Len(ip \o tail) = Len(ip) + Len(tail)
      /\ \A i \in 1..Len(ip) + Len(tail) :
            (ip \o tail)[i] = IF i <= Len(ip) THEN ip[i] ELSE tail[i - Len(ip)]
  BY <1>1, ConcatProperties
<1>3. \A i \in 1..6 : (ip \o tail)[i] = IF i <= 4 THEN ip[i] ELSE tail[i - 4]
  BY <1>1, <1>2
<1>4. QED
  BY <1>1, <1>2, <1>3 DEF tail

\* The first four octets of a connection string are the address.
LEMMA FirstFour ==
  ASSUME NEW ip \in IPv4, NEW string \in Seq(Octet), Len(string) = 6,
         \A i \in 1..4 : string[i] = ip[i]
  PROVE  SubSeq(string, 1, 4) = ip
<1>1. ip \in Seq(Octet) /\ Len(ip) = 4 /\ \A i \in 1..4 : string[i] \in Octet
  BY DEF IPv4
<1>2. /\ SubSeq(string, 1, 4) \in Seq(Octet)
      /\ Len(SubSeq(string, 1, 4)) = IF 1 <= 4 THEN 4 - 1 + 1 ELSE 0
      /\ \A i \in 1..4 - 1 + 1 : SubSeq(string, 1, 4)[i] = string[1 + i - 1]
  BY <1>1, SubSeqProperties
<1>3. /\ Len(SubSeq(string, 1, 4)) = Len(ip)
      /\ \A i \in 1..Len(SubSeq(string, 1, 4)) : SubSeq(string, 1, 4)[i] = ip[i]
  BY <1>1, <1>2
<1>4. QED
  BY <1>1, <1>2, <1>3, SeqEqual

\* A connection string stands for the address it was built from: on_receive and
\* on_send have the octets of the port in the same order.
LEMMA AddressReadBack ==
  ASSUME NEW octets \in IPv4, NEW number \in Short
  PROVE  /\ Len(connection_string(At(octets, number))) = 6
         /\ address_of(connection_string(At(octets, number))) = At(octets, number)
<1> DEFINE string == connection_string(At(octets, number))
           high   == number \div 256
           low    == number % 256
<1>1. high \in Octet /\ low \in Octet /\ high * 256 + low = number
  BY TwoOctets
<1>2. string = octets \o <<high, low>>
  BY DEF connection_string, At
<1> HIDE DEF high, low, string
<1>3. /\ string \in Seq(Octet) /\ Len(string) = 6
      /\ \A i \in 1..4 : string[i] = octets[i]
      /\ string[5] = high /\ string[6] = low
  BY <1>1, <1>2, Joined
<1>4. SubSeq(string, 1, 4) = octets
  BY <1>3, FirstFour
<1>5. string[5] * 256 + string[6] = number
  BY <1>1, <1>3
<1>6. address_of(string) = At(octets, number)
  BY <1>4, <1>5 DEF address_of
<1>7. QED
  BY <1>3, <1>6 DEF string

\* Where a message goes whose connection string was built from an address.
LEMMA DestinationOf ==
  ASSUME NEW address \in Addresses, NEW broadcast
  PROVE  /\ connection_string(address) # <<>>
         /\ Destination(connection_string(address), broadcast)
             = IF broadcast /\ address = At(local.address, port)
               THEN At(local.broadcast, port) ELSE address
<1>1. address = At(address.ip, address.port) /\ address.ip \in IPv4 /\ address.port \in Short
  BY DEF Addresses, At
<1>2. PICK string : string = connection_string(address)
  OBVIOUS
<1>3. Len(string) = 6 /\ address_of(string) = address
  BY <1>1, <1>2, AddressReadBack
<1>4. string # <<>> /\ ~(Len(string) < 6)
  BY <1>3
<1>5. QED
  BY <1>2, <1>3, <1>4 DEF Destination

\* A message that is not a broadcast is sent to the very address its
\* connection string was built from, the socket's own included.
THEOREM UnicastDestination ==
  ASSUME NEW octets \in IPv4, NEW number \in Short
  PROVE  Destination(connection_string(At(octets, number)), FALSE) = At(octets, number)
<1>1. At(octets, number) \in Addresses
  BY DEF At, Addresses
<1>2. QED
  BY <1>1, DestinationOf

-----------------------------------------------------------------------------
\* What holds of the transport at every step

Payloads  == {who_is(None, None), who_is(Other, Other), i_am(Instance), i_am(Other)}
Datagrams == [payload : Payloads, from : Addresses, broadcast : BOOLEAN,
              length : {1, MaxMessage + 1}]

Steps        == {"start", "bound", "registered", "serving", "closed"}
CounterSteps == {"none", "idle", "marking", "clearing", "watching", "counting", "counted"}

Typed ==
  /\ interface \in Interfaces
  /\ step \in Steps
  /\ port \in Short
  /\ step \in {"registered", "serving"} => local \in {get_local_ipv4(i) : i \in Interfaces}
  /\ steady \in BOOLEAN
  /\ inbound \in Seq(Datagrams)
  /\ binding # None =>
       address_of(binding) \in Addresses /\ binding = connection_string(address_of(binding))
  /\ console \in Seq(Addresses)
  /\ announced \in Nat
  /\ counter \in [step : CounterSteps, address : {None} \union Addresses,
                  queue : Seq(Payloads), frames : Seq(Payloads),
                  from : Nat, since : Nat, until : Nat, wire : Nat]

\* Before the callbacks are registered nothing has been sent or received.
Untouched ==
  step \in {"start", "bound", "registered"} =>
    inbound = <<>> /\ binding = None /\ console = <<>> /\ counter.step = "none"

\* While the interface keeps its address, the stack takes no other for its own
\* and all that is meant for the subnet has gone to one address.
OneAddress ==
  steady =>
    /\ local = get_local_ipv4(interface)
    /\ binding \in {None, connection_string(Own)}
    /\ \A i \in DOMAIN inbound : OfThisDevice(inbound[i].payload) => inbound[i].from = Own
    /\ \A i \in DOMAIN console : console[i] = Subnet
    /\ counter.step # "none" => counter.address = Subnet

\* What the counter has heard since it was cleared, step by step.
HeardSinceMark ==
  steady =>
    /\ counter.step = "marking" => counter.from <= announced
    /\ counter.step = "clearing" => counter.from + HowMany(counter.queue) <= announced
    /\ counter.step \in {"watching", "counting"} =>
          /\ counter.frames = <<>>
          /\ counter.from + HowMany(counter.queue) <= announced
          /\ announced <= counter.since + HowMany(counter.queue)
    /\ counter.step = "counting" => counter.until <= announced
    /\ counter.step = "counted" =>
          /\ counter.until <= counter.since + counter.wire
          /\ counter.from + counter.wire <= announced

TransportInv ==
  Typed /\ Untouched /\ OneAddress /\ HeardSinceMark /\ RepliesReachTheClient /\ SubnetHears

-----------------------------------------------------------------------------
\* What is sent and heard

\* Of all that is sent only the own I-Am is taken for one of this device.
LEMMA WhoseIAm ==
  /\ \A payload \in Payloads : OfThisDevice(payload) <=> payload = i_am(Instance)
  /\ ~OfThisDevice(i_am(Other))
  /\ \A low, high : ~OfThisDevice(who_is(low, high))
<1>1. OfThisDevice(i_am(Instance))
  BY InstancesAssumption
     DEF OfThisDevice, i_am_device_instance, i_am, APDU, application_tag, application, Tag,
         TAG_OBJECT_IDENTIFIER
<1>2. ~OfThisDevice(i_am(Other))
  BY InstancesAssumption
     DEF OfThisDevice, i_am_device_instance, i_am, APDU, application, Tag
<1>3. ASSUME NEW low, NEW high
      PROVE  ~OfThisDevice(who_is(low, high))
  BY InstancesAssumption DEF OfThisDevice, i_am_device_instance, who_is, APDU
<1>4. QED
  BY <1>1, <1>2, <1>3 DEF Payloads

OfThis(payloads) == {i \in DOMAIN payloads : OfThisDevice(payloads[i])}

LEMMA HowManyIsNat ==
  ASSUME NEW payloads \in Seq(Payloads)
  PROVE  HowMany(payloads) \in Nat /\ IsFiniteSet(OfThis(payloads))
<1>1. IsFiniteSet(1..Len(payloads))
  BY FS_Interval
<1>2. OfThis(payloads) \subseteq 1..Len(payloads)
  BY DEF OfThis
<1>3. IsFiniteSet(OfThis(payloads)) /\ HowMany(payloads) = Cardinality(OfThis(payloads))
  BY <1>1, <1>2, FS_Subset DEF HowMany, OfThis
<1>4. QED
  BY <1>3, FS_CardinalityType

LEMMA HowManyOfNone == HowMany(<<>>) = 0
<1>1. {i \in DOMAIN <<>> : OfThisDevice(<<>>[i])} = {}
  OBVIOUS
<1>2. QED
  BY <1>1, FS_EmptySet DEF HowMany

\* One more that is heard counts when it is this device's.
LEMMA HowManyMore ==
  ASSUME NEW payloads \in Seq(Payloads), NEW payload \in Payloads
  PROVE  HowMany(Append(payloads, payload))
           = HowMany(payloads) + (IF OfThisDevice(payload) THEN 1 ELSE 0)
<1>1. PICK n \in Nat : n = Len(payloads)
  OBVIOUS
<1>2. PICK more : more = Append(payloads, payload)
  OBVIOUS
<1>3. /\ more \in Seq(Payloads)
      /\ DOMAIN payloads = 1..n /\ DOMAIN more = 1..(n + 1)
      /\ more[n + 1] = payload /\ \A i \in 1..n : more[i] = payloads[i]
  BY <1>1, <1>2, AppendProperties
<1>4. n + 1 \notin OfThis(payloads)
  BY <1>3 DEF OfThis
<1>5. /\ HowMany(payloads) = Cardinality(OfThis(payloads))
      /\ HowMany(more) = Cardinality(OfThis(more))
      /\ IsFiniteSet(OfThis(payloads)) /\ Cardinality(OfThis(payloads)) \in Nat
  BY <1>3, HowManyIsNat DEF HowMany, OfThis
<1>6. CASE OfThisDevice(payload)
  <2>1. OfThis(more) = OfThis(payloads) \union {n + 1}
    BY <1>3, <1>6 DEF OfThis
  <2>2. QED
    BY <1>2, <1>4, <1>5, <1>6, <2>1, FS_AddElement
<1>7. CASE ~OfThisDevice(payload)
  <2>1. OfThis(more) = OfThis(payloads)
    BY <1>3, <1>7 DEF OfThis
  <2>2. QED
    BY <1>2, <1>5, <1>7, <2>1
<1>8. QED
  BY <1>6, <1>7

\* The subnet's address is one, and no client has it.
LEMMA SubnetIsAnAddress ==
  ASSUME NEW i \in Interfaces, NEW number \in Short
  PROVE  /\ At(i, number) \in Addresses
         /\ At(get_local_ipv4(i).broadcast, number) \in Addresses
         /\ At(get_local_ipv4(i).broadcast, number) \notin Clients
<1>1. i \in Seq(Octet) /\ Len(i) = 4
  BY AddressesAssumption DEF IPv4
<1>2. PICK octets : octets = get_local_ipv4(i).broadcast
  OBVIOUS
<1>3. DOMAIN octets = 1..4 /\ \A k \in 1..4 : octets[k] \in {i[k], 255}
  BY <1>2 DEF get_local_ipv4
<1>4. \A k \in 1..4 : octets[k] \in Octet
  <2>1. \A k \in 1..4 : i[k] \in Octet
    <3>1. i \in [1..4 -> Octet]
      BY <1>1, LenProperties
    <3>2. QED
      BY <3>1
  <2>2. 255 \in Octet
    BY DEF Octet
  <2>3. QED
    BY <1>3, <2>1, <2>2
<1>5. octets \in [1..4 -> Octet]
  <2>1. octets = [k \in 1..4 |-> octets[k]]
    BY <1>2 DEF get_local_ipv4
  <2>2. QED
    BY <1>4, <2>1
<1>6. octets \in Seq(Octet) /\ Len(octets) = 4
  <2>1. \E n \in Nat : octets \in [1..n -> Octet]
    BY <1>5
  <2>2. octets \in Seq(Octet)
    BY <2>1, SeqDef, Zenon
  <2>3. QED
    BY <1>3, <2>2
<1>7. octets \in IPv4
  BY <1>6 DEF IPv4
<1>8. QED
  BY <1>2, <1>7, AddressesAssumption DEF At, Addresses

-----------------------------------------------------------------------------
\* Every send

\* The own address and that of the subnet do not change while the interface
\* and the port do not.
LEMMA SameAddresses ==
  ASSUME UNCHANGED <<interface, port>>
  PROVE  Own' = Own /\ Subnet' = Subnet
  BY DEF Own, Subnet

\* A datagram that goes where it is meant to, or to this host, keeps all that
\* is known of the transport, whether it could be sent or not.
LEMMA SendStep ==
  ASSUME TransportInv, step \in {"registered", "serving"}, step' = "serving",
         UNCHANGED <<interface, port, local, steady, binding>>,
         NEW payload \in Payloads, NEW string, NEW broadcast \in BOOLEAN, NEW meant,
         NEW queue \in Seq(Datagrams),
         Send(payload, string, broadcast, meant, queue),
         Destination(string, broadcast) \in Addresses,
         meant \in Clients \/ steady => Destination(string, broadcast) = meant,
         broadcast \/ string = <<>> => meant = Subnet,
         steady => \A i \in DOMAIN queue :
                     OfThisDevice(queue[i].payload) => queue[i].from = Own
  PROVE  TransportInv'
<1>1. PICK to : to = Destination(string, broadcast)
  OBVIOUS
<1>2. PICK datagram : datagram = [payload |-> payload, from |-> Own, broadcast |-> to = Subnet,
                                  length |-> 1]
  OBVIOUS
<1>3. /\ Own \in Addresses /\ Subnet \in Addresses /\ Subnet \notin Clients
      /\ Own' = Own /\ Subnet' = Subnet
  BY SubnetIsAnAddress, SameAddresses DEF TransportInv, Typed, Own, Subnet
<1>4. to \in Addresses /\ datagram \in Datagrams
  BY <1>1, <1>2, <1>3 DEF Datagrams
<1>5. /\ console' = console \/ (meant = Subnet /\ console' = Append(console, to))
      /\ inbound' = queue \/ inbound' = Append(queue, datagram)
      /\ \/ /\ sent' = sent \union {[meant |-> meant, to |-> to, steady |-> steady]}
            /\ announced' = announced + (IF meant = Subnet /\ payload = i_am(Instance)
                                         THEN 1 ELSE 0)
            /\ counter' = IF to = counter.address
                          THEN [counter EXCEPT !.queue = Append(@, payload)] ELSE counter
         \/ UNCHANGED <<sent, announced, counter>>
  BY <1>1, <1>2 DEF Send, Loop, Overhear
<1>6. /\ console' \in Seq(Addresses)
      /\ inbound' \in Seq(Datagrams)
      /\ announced' \in Nat
  <2>1. console \in Seq(Addresses) /\ announced \in Nat
    BY DEF TransportInv, Typed
  <2>2. Append(console, to) \in Seq(Addresses) /\ Append(queue, datagram) \in Seq(Datagrams)
    BY <1>4, <2>1
  <2>3. announced' \in Nat
    BY <1>5, <2>1
  <2>4. QED
    BY <1>5, <2>1, <2>2, <2>3
<1>7. counter' = counter \/ counter' = [counter EXCEPT !.queue = Append(counter.queue, payload)]
  BY <1>5
<1>8. counter' \in [step : CounterSteps, address : {None} \union Addresses,
                    queue : Seq(Payloads), frames : Seq(Payloads),
                    from : Nat, since : Nat, until : Nat, wire : Nat]
  <2>1. counter \in [step : CounterSteps, address : {None} \union Addresses,
                    queue : Seq(Payloads), frames : Seq(Payloads),
                    from : Nat, since : Nat, until : Nat, wire : Nat]
    BY DEF TransportInv, Typed
  <2>2. Append(counter.queue, payload) \in Seq(Payloads)
    BY <2>1
  <2>3. QED
    BY <1>7, <2>1, <2>2
<1>9. Typed'
  BY <1>6, <1>8 DEF TransportInv, Typed, Steps
<1>10. Untouched'
  BY DEF Untouched
<1>11. steady => to = meant
  BY <1>1
<1>12. OneAddress'
  <2> SUFFICES ASSUME steady PROVE OneAddress'
    BY DEF OneAddress
  <2>1. local' = get_local_ipv4(interface') /\ binding' \in {None, connection_string(Own')}
    BY <1>3 DEF TransportInv, OneAddress
  <2>2. ASSUME NEW i \in DOMAIN inbound', OfThisDevice(inbound'[i].payload)
        PROVE  inbound'[i].from = Own
    <3>1. CASE inbound' = queue
      BY <2>2, <3>1
    <3>2. CASE inbound' = Append(queue, datagram)
      <4>1. PICK n \in Nat : n = Len(queue) /\ DOMAIN queue = 1..n
        OBVIOUS
      <4>2. /\ DOMAIN inbound' = 1..(n + 1) /\ inbound'[n + 1] = datagram
            /\ \A k \in 1..n : inbound'[k] = queue[k]
        BY <1>4, <3>2, <4>1, AppendProperties
      <4>3. CASE i = n + 1
        BY <1>2, <4>2, <4>3
      <4>4. CASE i \in 1..n
        BY <2>2, <4>1, <4>2, <4>4
      <4>5. QED
        BY <2>2, <4>2, <4>3, <4>4
    <3>3. QED
      BY <1>5, <3>1, <3>2
  <2>3. ASSUME NEW i \in DOMAIN console' PROVE console'[i] = Subnet
    <3>1. \A k \in DOMAIN console : console[k] = Subnet
      BY DEF TransportInv, OneAddress
    <3>2. CASE console' = Append(console, to) /\ meant = Subnet
      <4>1. PICK n \in Nat : n = Len(console) /\ DOMAIN console = 1..n /\ console \in Seq(Addresses)
        BY DEF TransportInv, Typed
      <4>2. /\ DOMAIN console' = 1..(n + 1) /\ console'[n + 1] = to
            /\ \A k \in 1..n : console'[k] = console[k]
        BY <1>4, <3>2, <4>1, AppendProperties
      <4>3. to = Subnet
        BY <1>11, <3>2
      <4>4. QED
        BY <2>3, <3>1, <4>1, <4>2, <4>3
    <3>3. QED
      BY <1>5, <2>3, <3>1, <3>2
  <2>4. counter'.step # "none" => counter'.address = Subnet
    BY <1>7 DEF TransportInv, Typed, OneAddress
  <2>5. QED
    BY <1>3, <2>1, <2>2, <2>3, <2>4 DEF OneAddress
<1>13. HeardSinceMark'
  <2> SUFFICES ASSUME steady PROVE HeardSinceMark'
    BY DEF HeardSinceMark
  <2>1. CASE UNCHANGED <<announced, counter>>
    BY <2>1 DEF TransportInv, HeardSinceMark
  <2>2. CASE /\ announced' = announced + (IF meant = Subnet /\ payload = i_am(Instance)
                                          THEN 1 ELSE 0)
             /\ counter' = IF to = counter.address
                           THEN [counter EXCEPT !.queue = Append(@, payload)] ELSE counter
    <3>1. PICK told \in {0, 1} : told = IF meant = Subnet /\ payload = i_am(Instance)
                                      THEN 1 ELSE 0
      OBVIOUS
    <3>2. announced' = announced + told
      BY <2>2, <3>1
    <3>3. PICK more : more = counter'.queue
      OBVIOUS
    <3>4. /\ counter'.step = counter.step /\ counter'.frames = counter.frames
          /\ counter'.from = counter.from /\ counter'.since = counter.since
          /\ counter'.until = counter.until /\ counter'.wire = counter.wire
          /\ more = IF to = counter.address THEN Append(counter.queue, payload)
                    ELSE counter.queue
      BY <2>2, <3>3 DEF TransportInv, Typed
    <3>5. counter.queue \in Seq(Payloads)
      BY DEF TransportInv, Typed
    <3>6. counter.step # "none" => HowMany(more) = HowMany(counter.queue) + told
      <4>1. ASSUME counter.step # "none" PROVE to = counter.address <=> meant = Subnet
        BY <1>11, <4>1 DEF TransportInv, OneAddress
      <4>2. CASE to = counter.address
        <5>1. HowMany(more) = HowMany(counter.queue) + (IF OfThisDevice(payload) THEN 1 ELSE 0)
          BY <3>4, <3>5, <4>2, HowManyMore
        <5>2. OfThisDevice(payload) <=> payload = i_am(Instance)
          BY WhoseIAm
        <5>3. QED
          BY <3>1, <4>1, <4>2, <5>1, <5>2
      <4>3. CASE to # counter.address
        <5>1. HowMany(more) = HowMany(counter.queue) /\ HowMany(counter.queue) \in Nat
          BY <3>4, <3>5, <4>3, HowManyIsNat
        <5>2. QED
          BY <3>1, <4>1, <4>3, <5>1
      <4>4. QED
        BY <4>2, <4>3
    <3>7. /\ HowMany(counter.queue) \in Nat /\ announced \in Nat
          /\ counter.from \in Nat /\ counter.since \in Nat /\ counter.until \in Nat
          /\ counter.wire \in Nat
      BY <3>5, HowManyIsNat DEF TransportInv, Typed
    <3>8. HeardSinceMark
      BY DEF TransportInv
    <3>9. QED
      BY <3>1, <3>2, <3>3, <3>4, <3>6, <3>7, <3>8 DEF HeardSinceMark
  <2>3. QED
    BY <1>5, <2>1, <2>2
<1>14. RepliesReachTheClient' /\ SubnetHears'
  <2>1. RepliesReachTheClient /\ SubnetHears
    BY DEF TransportInv
  <2>2. sent' = sent \/ sent' = sent \union {[meant |-> meant, to |-> to, steady |-> steady]}
    BY <1>5
  <2>3. meant \in Clients \/ steady => to = meant
    BY <1>1
  <2>4. QED
    BY <2>1, <2>2, <2>3 DEF RepliesReachTheClient, SubnetHears
<1>15. QED
  BY <1>9, <1>10, <1>12, <1>13, <1>14 DEF TransportInv

-----------------------------------------------------------------------------
\* Step by step

\* A port that parse_port_arg accepts fits in two octets.
LEMMA ValidIsShort ==
  ASSUME NEW number, ValidPort(number)
  PROVE  number \in Short
BY DEF ValidPort, Short

LEMMA TransportInit ==
  ASSUME Init
  PROVE  TransportInv
<1>1. port \in Short
  <2>1. PICK given \in {<<>>} \union [1..2 -> Ports] : port = ParsePortArg(given)
    BY DEF Init
  <2> DEFINE valid == {i \in 1..Len(given) : ValidPort(given[i])}
  <2>2. CASE valid = {}
    <3>1. SelectInSeq(given, ValidPort) = 0
      BY <2>2 DEF SelectInSeq
    <3>2. QED
      BY <2>1, <3>1 DEF ParsePortArg, Short
  <2>3. CASE valid # {}
    <3>1. SelectInSeq(given, ValidPort) = Min(valid)
      BY <2>3 DEF SelectInSeq
    <3>2. Min(valid) \in valid
      BY <2>3, LeastMember DEF Min
    <3>3. PICK place \in 1..Len(given) : place = Min(valid) /\ ValidPort(given[place])
      BY <3>2
    <3> HIDE DEF valid
    <3>4. place # 0 /\ SelectInSeq(given, ValidPort) = place
      BY <3>1, <3>3
    <3>5. port = given[place] /\ ValidPort(port)
      BY <2>1, <3>3, <3>4 DEF ParsePortArg
    <3>6. QED
      BY <3>5, ValidIsShort
  <2>4. QED
    BY <2>2, <2>3
<1>2. Typed
  <2>1. counter \in [step : CounterSteps, address : {None} \union Addresses,
                    queue : Seq(Payloads), frames : Seq(Payloads),
                    from : Nat, since : Nat, until : Nat, wire : Nat]
    BY DEF Init, CounterSteps
  <2>2. inbound \in Seq(Datagrams) /\ console \in Seq(Addresses)
    BY DEF Init
  <2>3. step = "start" /\ interface \in Interfaces /\ steady = FALSE /\ binding = None /\ announced = 0
    BY DEF Init
  <2>4. QED
    BY <1>1, <2>1, <2>2, <2>3 DEF Typed, Steps
<1>3. Untouched /\ OneAddress /\ HeardSinceMark
  BY DEF Init, Untouched, OneAddress, HeardSinceMark
<1>4. RepliesReachTheClient /\ SubnetHears
  BY DEF Init, RepliesReachTheClient, SubnetHears
<1>5. QED
  BY <1>2, <1>3, <1>4 DEF TransportInv

LEMMA TransportMain ==
  ASSUME TransportInv, Main
  PROVE  TransportInv'
<1>1. CASE SetupUdp \/ Shutdown
  <2>1. /\ UNCHANGED <<interface, port, local, steady, binding, console, sent, announced, counter>>
        /\ inbound' \in {inbound, <<>>}
        /\ \/ step = "start" /\ step' = "bound" /\ inbound' = inbound
           \/ step = "serving" /\ step' = "closed"
    BY <1>1 DEF SetupUdp, Shutdown, Program
  <2>2. Own' = Own /\ Subnet' = Subnet
    BY <2>1, SameAddresses
  <2>3. Typed' /\ Untouched'
    <3>1. inbound' \in Seq(Datagrams) /\ step' \in Steps
      <4>1. inbound \in Seq(Datagrams) /\ <<>> \in Seq(Datagrams)
        BY DEF TransportInv, Typed
      <4>2. QED
        BY <2>1, <4>1 DEF Steps
    <3>2. Typed'
      BY <2>1, <3>1 DEF TransportInv, Typed
    <3>3. Untouched'
      BY <2>1 DEF TransportInv, Untouched
    <3>4. QED
      BY <3>2, <3>3
  <2>4. OneAddress'
    BY <2>1, <2>2 DEF TransportInv, OneAddress
  <2>5. HeardSinceMark'
    BY <2>1 DEF TransportInv, HeardSinceMark
  <2>6. RepliesReachTheClient' /\ SubnetHears'
    BY <2>1 DEF TransportInv, RepliesReachTheClient, SubnetHears
  <2>7. QED
    BY <2>3, <2>4, <2>5, <2>6 DEF TransportInv
<1>2. CASE RegisterCommonCallbacks
  <2>1. /\ step = "bound" /\ step' = "registered"
        /\ local' = get_local_ipv4(interface) /\ steady' = TRUE
        /\ UNCHANGED <<interface, port, inbound, binding, console, sent, announced, counter>>
    BY <1>2 DEF RegisterCommonCallbacks
  <2>2. inbound = <<>> /\ binding = None /\ console = <<>> /\ counter.step = "none"
    BY <2>1 DEF TransportInv, Untouched
  <2>3. Typed' /\ Untouched'
    BY <2>1, <2>2 DEF TransportInv, Typed, Untouched, Steps
  <2>4. OneAddress' /\ HeardSinceMark'
    BY <2>1, <2>2 DEF OneAddress, HeardSinceMark
  <2>5. RepliesReachTheClient' /\ SubnetHears'
    BY <2>1 DEF TransportInv, RepliesReachTheClient, SubnetHears
  <2>6. QED
    BY <2>3, <2>4, <2>5 DEF TransportInv
<1>3. CASE SendIAm
  <2>1. PICK meant : meant = Subnet
    OBVIOUS
  <2>2. PICK i \in Interfaces : local = get_local_ipv4(i)
    BY <1>3 DEF SendIAm, TransportInv, Typed
  <2>3. /\ meant \in Addresses /\ meant \notin Clients /\ At(local.broadcast, port) \in Addresses
    BY <2>1, <2>2, SubnetIsAnAddress DEF TransportInv, Typed, Subnet
  <2>4. PICK string : string = connection_string(meant)
    OBVIOUS
  <2>5. /\ Destination(string, TRUE) \in Addresses
        /\ Destination(string, TRUE) \in {At(local.broadcast, port), meant}
    BY <2>3, <2>4, DestinationOf
  <2>6. steady => Destination(string, TRUE) = meant
    BY <2>1, <2>5 DEF TransportInv, OneAddress, Subnet
  <2>7. PICK queue \in Seq(Datagrams) : queue = inbound
    BY DEF TransportInv, Typed
  <2>8. PICK payload \in Payloads : payload = i_am(Instance)
    BY DEF Payloads
  <2>9. /\ Send(payload, string, TRUE, meant, queue)
        /\ step = "registered" /\ step' = "serving"
        /\ UNCHANGED <<interface, port, local, steady, binding>>
    BY <1>3, <2>1, <2>4, <2>7, <2>8 DEF SendIAm, Program
  <2>10. steady => \A k \in DOMAIN queue :
                     OfThisDevice(queue[k].payload) => queue[k].from = Own
    BY <2>7 DEF TransportInv, OneAddress
  <2>11. QED
    BY <2>1, <2>3, <2>5, <2>6, <2>9, <2>10, SendStep
<1>4. QED
  BY <1>1, <1>2, <1>3 DEF Main

LEMMA TransportTick ==
  ASSUME TransportInv, Tick
  PROVE  TransportInv'
<1>1. step = "serving" /\ step' = "serving" /\ UNCHANGED <<interface, port, local, steady>>
  BY DEF Tick, ReceiveFails, Receive, Bind, Program
<1>2. PICK i \in Interfaces : local = get_local_ipv4(i)
  BY <1>1 DEF TransportInv, Typed
<1>3. /\ At(local.broadcast, port) \in Addresses
      /\ Subnet \in Addresses /\ Subnet \notin Clients /\ Own \in Addresses
  BY <1>2, SubnetIsAnAddress DEF TransportInv, Typed, Subnet, Own
<1>4. steady => local = get_local_ipv4(interface) /\ At(local.broadcast, port) = Subnet
                  /\ At(local.address, port) = Own
  BY DEF TransportInv, OneAddress, Subnet, Own, get_local_ipv4
<1>5. CASE ReceiveFails
  <2>1. UNCHANGED <<inbound, binding, console, sent, announced, counter>>
    BY <1>5 DEF ReceiveFails
  <2>2. Own' = Own /\ Subnet' = Subnet
    BY <1>1, SameAddresses
  <2>3. Typed' /\ Untouched'
    BY <1>1, <2>1 DEF TransportInv, Typed, Untouched
  <2>4. OneAddress' /\ HeardSinceMark'
    BY <1>1, <2>1, <2>2 DEF TransportInv, OneAddress, HeardSinceMark
  <2>5. RepliesReachTheClient' /\ SubnetHears'
    BY <2>1 DEF TransportInv, RepliesReachTheClient, SubnetHears
  <2>6. QED
    BY <2>3, <2>4, <2>5 DEF TransportInv
<1>6. CASE Bind
  <2>1. PICK address \in Addresses : binding = connection_string(address)
    BY <1>6 DEF Bind, TransportInv, Typed
  <2>2. PICK meant : meant = Subnet
    OBVIOUS
  <2>3. PICK payload \in Payloads : payload = who_is(Other, Other)
    BY DEF Payloads
  <2>4. PICK string : string = binding
    OBVIOUS
  <2>5. PICK queue \in Seq(Datagrams) : queue = inbound
    BY DEF TransportInv, Typed
  <2>6. /\ Destination(string, TRUE) \in Addresses
        /\ Destination(string, TRUE) = IF address = At(local.address, port)
                                       THEN At(local.broadcast, port) ELSE address
    BY <1>3, <2>1, <2>4, DestinationOf
  <2>7. steady => Destination(string, TRUE) = meant
    <3>1. steady => binding = connection_string(Own)
      BY <1>6 DEF Bind, TransportInv, OneAddress
    <3>2. steady => Destination(string, TRUE) = IF Own = At(local.address, port)
                                                THEN At(local.broadcast, port) ELSE Own
      BY <1>3, <2>4, <3>1, DestinationOf
    <3>3. QED
      BY <1>4, <2>2, <3>2
  <2>8. /\ Send(payload, string, TRUE, meant, queue)
        /\ UNCHANGED binding
    BY <1>6, <2>2, <2>3, <2>4, <2>5 DEF Bind
  <2>9. steady => \A k \in DOMAIN queue :
                    OfThisDevice(queue[k].payload) => queue[k].from = Own
    BY <2>5 DEF TransportInv, OneAddress
  <2>10. QED
    BY <1>1, <1>3, <2>2, <2>6, <2>7, <2>8, <2>9, SendStep
<1>7. CASE Receive
  <2>1. PICK head, rest : /\ head = Head(inbound) /\ rest = Tail(inbound)
                          /\ head \in Datagrams /\ rest \in Seq(Datagrams)
                          /\ \A k \in DOMAIN rest : k + 1 \in DOMAIN inbound /\ rest[k] = inbound[k + 1]
                          /\ 1 \in DOMAIN inbound /\ head = inbound[1]
    <3>1. inbound \in Seq(Datagrams) /\ inbound # <<>>
      BY <1>7 DEF Receive, TransportInv, Typed
    <3>2. PICK n \in Nat \ {0} : n = Len(inbound) /\ DOMAIN inbound = 1..n
      BY <3>1
    <3>3. PICK rest : rest = Tail(inbound)
      OBVIOUS
    <3>4. /\ rest \in Seq(Datagrams) /\ Len(rest) = n - 1
          /\ \A k \in 1..(n - 1) : rest[k] = inbound[k + 1]
      BY <3>1, <3>2, <3>3, HeadTailProperties
    <3>5. Head(inbound) = inbound[1] /\ inbound[1] \in Datagrams
      BY <3>1, <3>2
    <3>6. \A k \in DOMAIN rest : k + 1 \in DOMAIN inbound /\ rest[k] = inbound[k + 1]
      BY <3>2, <3>4
    <3>7. QED
      BY <3>2, <3>3, <3>4, <3>5, <3>6
  <2>2. steady =>
          /\ \A k \in DOMAIN rest : OfThisDevice(rest[k].payload) => rest[k].from = Own
          /\ OfThisDevice(head.payload) => head.from = Own
    BY <2>1 DEF TransportInv, OneAddress
  <2>3. head.from \in Addresses /\ Received.source = connection_string(head.from)
    BY <2>1 DEF Datagrams, Received
  <2>4. CASE /\ Received.broadcast /\ UNCHANGED binding
             /\ Send(i_am(Instance), <<>>, TRUE, Subnet, Tail(inbound))
    <3>1. PICK meant : meant = Subnet
      OBVIOUS
    <3>2. PICK payload \in Payloads : payload = i_am(Instance)
      BY DEF Payloads
    <3>3. Send(payload, <<>>, TRUE, meant, rest)
      BY <2>1, <2>4, <3>1, <3>2
    <3>4. Destination(<<>>, TRUE) = At(local.broadcast, port)
      BY DEF Destination
    <3>5. QED
      BY <1>1, <1>3, <1>4, <2>1, <2>2, <2>4, <3>1, <3>3, <3>4, SendStep
  <2>5. CASE /\ UNCHANGED binding
             /\ Send(i_am(Instance), Received.source, FALSE, Head(inbound).from, Tail(inbound))
    <3>1. PICK meant \in Addresses : meant = head.from
      BY <2>3
    <3>2. PICK payload \in Payloads : payload = i_am(Instance)
      BY DEF Payloads
    <3>3. PICK string : string = connection_string(meant)
      OBVIOUS
    <3>4. Send(payload, string, FALSE, meant, rest)
      BY <2>1, <2>3, <2>5, <3>1, <3>2, <3>3
    <3>5. Destination(string, FALSE) = meant /\ string # <<>>
      BY <3>3, DestinationOf
    <3>6. QED
      BY <1>1, <2>1, <2>2, <2>5, <3>4, <3>5, SendStep
  <2>6. CASE /\ ~Asks(Received)
             /\ binding' = IF i_am_device_instance(Received.payload) = Instance
                           THEN Received.source ELSE binding
             /\ inbound' = Tail(inbound)
             /\ UNCHANGED <<console, sent, announced, counter, bounds>>
    <3>1. Own' = Own /\ Subnet' = Subnet
      BY <1>1, SameAddresses
    <3>2. binding' = binding \/ (OfThisDevice(head.payload) /\ binding' = connection_string(head.from))
      <4>1. CASE Received.payload = head.payload
        BY <2>3, <2>6, <4>1 DEF OfThisDevice
      <4>2. CASE Received.payload = None
        <5>1. i_am_device_instance(None) # Instance
          BY InstancesAssumption DEF i_am_device_instance
        <5>2. QED
          BY <2>6, <4>2, <5>1
      <4>3. Received.payload \in {head.payload, None}
        BY <2>1 DEF Received
      <4>4. QED
        BY <4>1, <4>2, <4>3
    <3>3. binding' # None =>
            address_of(binding') \in Addresses /\ binding' = connection_string(address_of(binding'))
      <4>1. CASE binding' = binding
        BY <4>1 DEF TransportInv, Typed
      <4>2. CASE binding' = connection_string(head.from)
        <5>1. head.from = At(head.from.ip, head.from.port)
                /\ head.from.ip \in IPv4 /\ head.from.port \in Short
          BY <2>3 DEF Addresses, At
        <5>2. address_of(connection_string(head.from)) = head.from
          BY <5>1, AddressReadBack
        <5>3. QED
          BY <2>3, <4>2, <5>2
      <4>3. QED
        BY <3>2, <4>1, <4>2
    <3>4. Typed'
      BY <1>1, <2>1, <2>6, <3>3 DEF TransportInv, Typed
    <3>5. Untouched'
      BY <1>1 DEF Untouched
    <3>6. OneAddress'
      BY <1>1, <2>1, <2>2, <2>6, <3>1, <3>2 DEF TransportInv, OneAddress
    <3>7. HeardSinceMark'
      BY <1>1, <2>6 DEF TransportInv, HeardSinceMark
    <3>8. RepliesReachTheClient' /\ SubnetHears'
      BY <2>6 DEF TransportInv, RepliesReachTheClient, SubnetHears
    <3>9. QED
      BY <3>4, <3>5, <3>6, <3>7, <3>8 DEF TransportInv
  <2>7. QED
    BY <1>7, <2>4, <2>5, <2>6 DEF Receive
<1>8. QED
  BY <1>5, <1>6, <1>7 DEF Tick

\* What the others send is not taken for this device's, and a new address of
\* the interface is the end of the steady time.
LEMMA TransportNetwork ==
  ASSUME TransportInv, Network
  PROVE  TransportInv'
<1>1. CASE WhoIs \/ OtherIAm
  <2>1. PICK payload \in Payloads, from \in Clients, length \in {1, MaxMessage + 1} :
           ~OfThisDevice(payload) /\ \E to : Arrive(payload, from, to, length)
    <3>1. CASE WhoIs
      <4>1. ~OfThisDevice(who_is(None, None)) /\ who_is(None, None) \in Payloads
        BY WhoseIAm DEF Payloads
      <4>2. QED
        BY <3>1, <4>1 DEF WhoIs
    <3>2. CASE OtherIAm
      <4>1. ~OfThisDevice(i_am(Other)) /\ i_am(Other) \in Payloads
        BY WhoseIAm DEF Payloads
      <4>2. QED
        BY <3>2, <4>1 DEF OtherIAm
    <3>3. QED
      BY <1>1, <3>1, <3>2
  <2> PICK to : Arrive(payload, from, to, length)
    BY <2>1
  <2>2. PICK datagram : datagram = [payload |-> payload, from |-> from, broadcast |-> to = Subnet,
                                    length |-> length]
    OBVIOUS
  <2>3. /\ step = "serving"
        /\ UNCHANGED <<interface, port, local, steady, step, binding, console, sent, announced>>
        /\ inbound' = inbound \/ inbound' = Append(inbound, datagram)
        /\ \/ counter' = counter
           \/ counter' = [counter EXCEPT !.queue = Append(counter.queue, payload)]
    BY <2>2 DEF Arrive, Program, Loop, Overhear
  <2>4. datagram \in Datagrams
    BY <2>2, AddressesAssumption DEF Datagrams
  <2>5. Own' = Own /\ Subnet' = Subnet
    BY <2>3, SameAddresses
  <2>6. PICK n \in Nat : n = Len(inbound) /\ DOMAIN inbound = 1..n /\ inbound \in Seq(Datagrams)
    BY DEF TransportInv, Typed
  <2>7. PICK queue \in Seq(Payloads) : queue = counter.queue
    BY DEF TransportInv, Typed
  <2>8. /\ counter'.queue \in {queue, Append(queue, payload)}
        /\ counter'.step = counter.step /\ counter'.address = counter.address
        /\ counter'.frames = counter.frames /\ counter'.from = counter.from
        /\ counter'.since = counter.since /\ counter'.until = counter.until
        /\ counter'.wire = counter.wire
    BY <2>3, <2>7 DEF TransportInv, Typed
  <2>9. Typed'
    <3>1. inbound' \in Seq(Datagrams)
      BY <2>3, <2>4, <2>6
    <3>2. counter' \in [step : CounterSteps, address : {None} \union Addresses,
                        queue : Seq(Payloads), frames : Seq(Payloads),
                        from : Nat, since : Nat, until : Nat, wire : Nat]
      <4>1. counter \in [step : CounterSteps, address : {None} \union Addresses,
                         queue : Seq(Payloads), frames : Seq(Payloads),
                         from : Nat, since : Nat, until : Nat, wire : Nat]
        BY DEF TransportInv, Typed
      <4>2. Append(counter.queue, payload) \in Seq(Payloads)
        BY <4>1
      <4>3. QED
        BY <2>3, <4>1, <4>2
    <3>3. QED
      BY <2>3, <3>1, <3>2 DEF TransportInv, Typed
  <2>10. Untouched'
    BY <2>3 DEF Untouched
  <2>11. OneAddress'
    <3> SUFFICES ASSUME steady PROVE OneAddress'
      BY <2>3 DEF OneAddress
    <3>1. ASSUME NEW i \in DOMAIN inbound', OfThisDevice(inbound'[i].payload)
          PROVE  inbound'[i].from = Own
      <4>1. \A k \in DOMAIN inbound : OfThisDevice(inbound[k].payload) => inbound[k].from = Own
        BY DEF TransportInv, OneAddress
      <4>2. CASE inbound' = Append(inbound, datagram)
        <5>1. /\ DOMAIN inbound' = 1..(n + 1) /\ inbound'[n + 1] = datagram
              /\ \A k \in 1..n : inbound'[k] = inbound[k]
          BY <2>4, <2>6, <4>2, AppendProperties
        <5>2. i # n + 1
          BY <2>1, <2>2, <3>1, <5>1
        <5>3. QED
          BY <2>6, <3>1, <4>1, <5>1, <5>2
      <4>3. QED
        BY <2>3, <3>1, <4>1, <4>2
    <3>2. QED
      BY <2>3, <2>5, <2>8, <3>1 DEF TransportInv, OneAddress
  <2>12. HeardSinceMark'
    <3>1. HowMany(queue) \in Nat
      BY HowManyIsNat
    <3>2. PICK more : more = counter'.queue
      OBVIOUS
    <3>3. HowMany(more) = HowMany(counter.queue)
      <4>1. CASE more = queue
        BY <2>7, <4>1
      <4>2. CASE more = Append(queue, payload)
        <5>1. HowMany(more) = HowMany(queue) + 0
          BY <2>1, <4>2, HowManyMore
        <5>2. QED
          BY <2>7, <3>1, <5>1
      <4>3. QED
        BY <2>8, <3>2, <4>1, <4>2
    <3>4. HeardSinceMark
      BY DEF TransportInv
    <3>5. QED
      BY <2>3, <2>8, <3>2, <3>3, <3>4 DEF HeardSinceMark
  <2>13. RepliesReachTheClient' /\ SubnetHears'
    BY <2>3 DEF TransportInv, RepliesReachTheClient, SubnetHears
  <2>14. QED
    BY <2>9, <2>10, <2>11, <2>12, <2>13 DEF TransportInv
<1>2. CASE Move
  <2>1. /\ interface' \in Interfaces /\ steady' = FALSE
        /\ UNCHANGED <<step, port, local, inbound, binding, console, sent, announced, counter>>
    BY <1>2 DEF Move
  <2>2. Typed' /\ Untouched'
    BY <2>1 DEF TransportInv, Typed, Untouched
  <2>3. OneAddress' /\ HeardSinceMark'
    BY <2>1 DEF OneAddress, HeardSinceMark
  <2>4. RepliesReachTheClient' /\ SubnetHears'
    BY <2>1 DEF TransportInv, RepliesReachTheClient, SubnetHears
  <2>5. QED
    BY <2>2, <2>3, <2>4 DEF TransportInv
<1>3. QED
  BY <1>1, <1>2 DEF Network

\* Where the counter listens is where a TX line of the console went.
LEMMA ListensToALine ==
  ASSUME NEW lines \in Seq(Addresses), lines = console, BroadcastAddress # None
  PROVE  \E i \in DOMAIN lines : BroadcastAddress = lines[i] /\ lines[i] \in Addresses
<1>1. PICK matching : matching = {i \in DOMAIN lines : lines[i].port = port}
  OBVIOUS
<1>2. matching # {} /\ BroadcastAddress = lines[Min(matching)]
  BY <1>1 DEF BroadcastAddress
<1>3. matching \subseteq Nat /\ matching \subseteq DOMAIN lines
  BY <1>1
<1>4. Min(matching) \in matching
  BY <1>2, <1>3, LeastMember DEF Min
<1>5. Min(matching) \in DOMAIN lines
  BY <1>3, <1>4
<1>6. lines[Min(matching)] \in Addresses
  BY <1>5
<1>7. QED
  BY <1>2, <1>5, <1>6

\* What a step of the counter leaves alone.
LEMMA CounterStep ==
  ASSUME TransportInv, NEW before, NEW record, Counter(before, record),
         record \in [step : CounterSteps, address : {None} \union Addresses,
                     queue : Seq(Payloads), frames : Seq(Payloads),
                     from : Nat, since : Nat, until : Nat, wire : Nat],
         before # "none" \/ step \in {"serving", "closed"},
         steady /\ record.step # "none" => record.address = Subnet,
         HeardSinceMark'
  PROVE  TransportInv'
<1>1. /\ counter.step = before /\ counter' = record
      /\ UNCHANGED <<interface, port, local, steady, step, inbound, binding, console, sent,
                     announced>>
  BY DEF Counter, Program
<1>2. Own' = Own /\ Subnet' = Subnet
  BY <1>1, SameAddresses
<1>3. Typed'
  BY <1>1 DEF TransportInv, Typed
<1>4. Untouched'
  BY <1>1 DEF TransportInv, Untouched
<1>5. OneAddress'
  BY <1>1, <1>2 DEF TransportInv, OneAddress
<1>6. RepliesReachTheClient' /\ SubnetHears'
  BY <1>1 DEF TransportInv, RepliesReachTheClient, SubnetHears
<1>7. QED
  BY <1>3, <1>4, <1>5, <1>6 DEF TransportInv

\* The counter's steps, mark() in three and counts() in two.
LEMMA TransportCounter ==
  ASSUME TransportInv, IAmBroadcasts
  PROVE  TransportInv'
<1>1. PICK old : old = counter
  OBVIOUS
<1>2. old \in [step : CounterSteps, address : {None} \union Addresses,
               queue : Seq(Payloads), frames : Seq(Payloads),
               from : Nat, since : Nat, until : Nat, wire : Nat]
  BY <1>1 DEF TransportInv, Typed
<1>3. announced \in Nat /\ HowMany(old.queue) \in Nat /\ old.from \in Nat
        /\ old.since \in Nat /\ old.until \in Nat
  BY <1>2, HowManyIsNat DEF TransportInv, Typed
<1>4. steady /\ old.step # "none" => old.address = Subnet
  BY <1>1 DEF TransportInv, OneAddress
<1>5. HeardSinceMark
  BY DEF TransportInv
<1>6. CASE Open
  <2>1. PICK address : address = BroadcastAddress
    OBVIOUS
  <2>2. PICK record : record = [old EXCEPT !.step = "idle", !.address = address]
    OBVIOUS
  <2>3. Counter("none", record) /\ step \in {"serving", "closed"} /\ address # None
    BY <1>1, <1>6, <2>1, <2>2 DEF Open
  <2>4. PICK lines \in Seq(Addresses) : lines = console
    BY DEF TransportInv, Typed
  <2>5. PICK i \in DOMAIN lines : address = lines[i] /\ address \in Addresses
    BY <2>1, <2>3, <2>4, ListensToALine
  <2>6. steady => address = Subnet
    BY <2>4, <2>5 DEF TransportInv, OneAddress
  <2>7. record \in [step : CounterSteps, address : {None} \union Addresses,
                    queue : Seq(Payloads), frames : Seq(Payloads),
                    from : Nat, since : Nat, until : Nat, wire : Nat]
    BY <1>2, <2>2, <2>5 DEF CounterSteps
  <2>8. record.address = address /\ record.step = "idle"
    BY <1>2, <2>2
  <2>9. HeardSinceMark'
    BY <2>3, <2>8 DEF Counter, HeardSinceMark
  <2>10. QED
    BY <2>3, <2>6, <2>7, <2>8, <2>9, CounterStep
<1>7. CASE Mark
  <2>1. PICK record : record = [old EXCEPT !.step = "marking", !.from = announced]
    OBVIOUS
  <2>2. Counter("idle", record)
    BY <1>1, <1>7, <2>1 DEF Mark
  <2>3. record \in [step : CounterSteps, address : {None} \union Addresses,
                    queue : Seq(Payloads), frames : Seq(Payloads),
                    from : Nat, since : Nat, until : Nat, wire : Nat]
    BY <1>2, <1>3, <2>1 DEF CounterSteps
  <2>4. old.step = "idle" /\ record.address = old.address /\ record.step = "marking"
          /\ record.from = announced
    BY <1>1, <1>2, <2>1, <2>2 DEF Counter
  <2>5. counter' = record /\ announced' = announced
    BY <2>2 DEF Counter
  <2>6. HeardSinceMark'
    BY <1>3, <2>4, <2>5 DEF HeardSinceMark
  <2>7. QED
    BY <1>4, <2>2, <2>3, <2>4, <2>6, CounterStep
<1>8. CASE Collect
  <2>1. PICK kept : kept = old.frames \o old.queue
    OBVIOUS
  <2>2. PICK record : record = [old EXCEPT !.step = "clearing", !.frames = kept, !.queue = <<>>]
    OBVIOUS
  <2>3. Counter("marking", record)
    BY <1>1, <1>8, <2>1, <2>2 DEF Collect, Kept
  <2>4. kept \in Seq(Payloads)
    BY <1>2, <2>1, ConcatProperties
  <2>5. record \in [step : CounterSteps, address : {None} \union Addresses,
                    queue : Seq(Payloads), frames : Seq(Payloads),
                    from : Nat, since : Nat, until : Nat, wire : Nat]
    <3>1. <<>> \in Seq(Payloads)
      OBVIOUS
    <3>2. QED
      BY <1>2, <2>2, <2>4, <3>1 DEF CounterSteps
  <2>6. /\ old.step = "marking" /\ record.address = old.address /\ record.step = "clearing"
        /\ record.from = old.from /\ record.queue = <<>>
    BY <1>1, <1>2, <2>2, <2>3 DEF Counter
  <2>7. counter' = record /\ announced' = announced /\ steady' = steady
    BY <2>3 DEF Counter, Program
  <2>8. steady => record.from + HowMany(<<>>) <= announced
    BY <1>1, <1>3, <1>5, <2>6, HowManyOfNone DEF HeardSinceMark
  <2>9. HeardSinceMark'
    <3>1. PICK queue : queue = counter'.queue
      OBVIOUS
    <3>2. queue = <<>>
      BY <2>6, <2>7, <3>1
    <3>3. steady => record.from + HowMany(queue) <= announced
      BY <2>8, <3>2
    <3>4. QED
      BY <2>6, <2>7, <3>1, <3>3 DEF HeardSinceMark
  <2>10. QED
    BY <1>4, <2>3, <2>5, <2>6, <2>9, CounterStep
<1>9. CASE Forget
  <2>1. PICK record : record = [old EXCEPT !.step = "watching", !.frames = <<>>,
                                           !.since = announced]
    OBVIOUS
  <2>2. Counter("clearing", record)
    BY <1>1, <1>9, <2>1 DEF Forget
  <2>3. record \in [step : CounterSteps, address : {None} \union Addresses,
                    queue : Seq(Payloads), frames : Seq(Payloads),
                    from : Nat, since : Nat, until : Nat, wire : Nat]
    <3>1. <<>> \in Seq(Payloads)
      OBVIOUS
    <3>2. QED
      BY <1>2, <1>3, <2>1, <3>1 DEF CounterSteps
  <2>4. /\ old.step = "clearing" /\ record.address = old.address /\ record.step = "watching"
        /\ record.from = old.from /\ record.queue = old.queue /\ record.frames = <<>>
        /\ record.since = announced
    BY <1>1, <1>2, <2>1, <2>2 DEF Counter
  <2>5. counter' = record /\ announced' = announced /\ steady' = steady
    BY <2>2 DEF Counter, Program
  <2>6. PICK queue : queue = counter'.queue
    OBVIOUS
  <2>7. queue = old.queue /\ HowMany(queue) \in Nat
    BY <1>3, <2>4, <2>5, <2>6
  <2>8. steady => /\ record.from + HowMany(queue) <= announced
                  /\ announced <= record.since + HowMany(queue)
    BY <1>1, <1>3, <1>5, <2>4, <2>7 DEF HeardSinceMark
  <2>9. HeardSinceMark'
    BY <2>4, <2>5, <2>6, <2>8 DEF HeardSinceMark
  <2>10. QED
    BY <1>4, <2>2, <2>3, <2>4, <2>9, CounterStep
<1>10. CASE Count
  <2>1. PICK record : record = [old EXCEPT !.step = "counting", !.until = announced]
    OBVIOUS
  <2>2. Counter("watching", record)
    BY <1>1, <1>10, <2>1 DEF Count
  <2>3. record \in [step : CounterSteps, address : {None} \union Addresses,
                    queue : Seq(Payloads), frames : Seq(Payloads),
                    from : Nat, since : Nat, until : Nat, wire : Nat]
    BY <1>2, <1>3, <2>1 DEF CounterSteps
  <2>4. /\ old.step = "watching" /\ record.address = old.address /\ record.step = "counting"
        /\ record.from = old.from /\ record.queue = old.queue /\ record.frames = old.frames
        /\ record.since = old.since /\ record.until = announced
    BY <1>1, <1>2, <2>1, <2>2 DEF Counter
  <2>5. counter' = record /\ announced' = announced /\ steady' = steady
    BY <2>2 DEF Counter, Program
  <2>6. PICK queue : queue = counter'.queue
    OBVIOUS
  <2>7. queue = old.queue
    BY <2>4, <2>5, <2>6
  <2>8. steady => /\ record.frames = <<>>
                  /\ record.from + HowMany(queue) <= announced
                  /\ announced <= record.since + HowMany(queue)
    BY <1>1, <1>5, <2>4, <2>7 DEF HeardSinceMark
  <2>9. HeardSinceMark'
    BY <1>3, <2>4, <2>5, <2>6, <2>8 DEF HeardSinceMark
  <2>10. QED
    BY <1>4, <2>2, <2>3, <2>4, <2>9, CounterStep
<1>11. CASE CountWire
  <2>1. PICK kept : kept = old.frames \o old.queue
    OBVIOUS
  <2>2. kept \in Seq(Payloads)
    BY <1>2, <2>1, ConcatProperties
  <2>3. PICK wire \in Nat : wire = HowMany(kept)
    BY <2>2, HowManyIsNat
  <2>4. PICK record : record = [old EXCEPT !.step = "counted", !.frames = kept,
                                           !.queue = <<>>, !.wire = wire]
    OBVIOUS
  <2>5. Counter("counting", record)
    BY <1>1, <1>11, <2>1, <2>3, <2>4 DEF CountWire, Kept
  <2>6. record \in [step : CounterSteps, address : {None} \union Addresses,
                    queue : Seq(Payloads), frames : Seq(Payloads),
                    from : Nat, since : Nat, until : Nat, wire : Nat]
    <3>1. <<>> \in Seq(Payloads)
      OBVIOUS
    <3>2. QED
      BY <1>2, <2>2, <2>4, <3>1 DEF CounterSteps
  <2>7. /\ old.step = "counting" /\ record.address = old.address /\ record.step = "counted"
        /\ record.from = old.from /\ record.since = old.since /\ record.until = old.until
        /\ record.wire = wire
    BY <1>1, <1>2, <2>4, <2>5 DEF Counter
  <2>8. counter' = record /\ announced' = announced /\ steady' = steady
    BY <2>5 DEF Counter, Program
  <2>9. steady => wire = HowMany(old.queue)
    <3>1. steady => old.frames = <<>>
      BY <1>1, <1>5, <2>7 DEF HeardSinceMark
    <3>2. old.queue \in Seq(Payloads)
      BY <1>2
    <3>3. <<>> \o old.queue = old.queue
      BY <3>2, ConcatEmptySeq
    <3>4. QED
      BY <2>1, <2>3, <3>1, <3>3
  <2>10. steady => /\ record.until <= record.since + wire
                   /\ record.from + wire <= announced
    BY <1>1, <1>3, <1>5, <2>7, <2>9 DEF HeardSinceMark
  <2>11. HeardSinceMark'
    BY <2>7, <2>8, <2>10 DEF HeardSinceMark
  <2>12. QED
    BY <1>4, <2>5, <2>6, <2>7, <2>11, CounterStep
<1>12. QED
  BY <1>6, <1>7, <1>8, <1>9, <1>10, <1>11 DEF IAmBroadcasts

\* The invariant of the transport.
THEOREM TransportInductive == Spec => []TransportInv
<1>1. Init => TransportInv
  BY TransportInit
<1>2. TransportInv /\ [Next]_vars => TransportInv'
  <2>1. ASSUME TransportInv, UNCHANGED vars PROVE TransportInv'
    <3>1. /\ UNCHANGED <<interface, step, port, local, steady, inbound, binding, console, sent,
                         announced, counter>>
      BY <2>1 DEF vars
    <3>2. Own' = Own /\ Subnet' = Subnet
      BY <3>1, SameAddresses
    <3>3. Typed' /\ Untouched'
      BY <2>1, <3>1 DEF TransportInv, Typed, Untouched
    <3>4. OneAddress' /\ HeardSinceMark'
      BY <2>1, <3>1, <3>2 DEF TransportInv, OneAddress, HeardSinceMark
    <3>5. RepliesReachTheClient' /\ SubnetHears'
      BY <2>1, <3>1 DEF TransportInv, RepliesReachTheClient, SubnetHears
    <3>6. QED
      BY <3>3, <3>4, <3>5 DEF TransportInv
  <2>2. QED
    BY <2>1, TransportMain, TransportTick, TransportNetwork, TransportCounter DEF Next
<1>3. QED
  BY <1>1, <1>2, PTL DEF Spec

\* However the ports, the interface and the bounds are chosen, and whatever is
\* lost or cut: an answer goes to the address and port its request came from.
THEOREM AnswersReachTheClient == Spec => []RepliesReachTheClient
<1>1. TransportInv => RepliesReachTheClient
  BY DEF TransportInv
<1>2. QED
  BY <1>1, TransportInductive, PTL

\* What the stack means for the subnet goes there, the datagrams it sends to
\* its own address included, from the start-up I-Am on.
THEOREM BroadcastsReachTheSubnet == Spec => []SubnetHears
<1>1. TransportInv => SubnetHears
  BY DEF TransportInv
<1>2. QED
  BY <1>1, TransportInductive, PTL

\* The count on the wire is that of the I-Ams this device announced between
\* mark() and counts(), give or take those announced while the two ran.
THEOREM CountAgrees == Spec => []WireCountsAnnouncements
<1>1. TransportInv => WireCountsAnnouncements
  <2>1. SUFFICES ASSUME TransportInv, counter.step = "counted", steady
                 PROVE  counter.wire \in (counter.until - counter.since)..(announced - counter.from)
    BY DEF WireCountsAnnouncements
  <2>2. /\ counter.until <= counter.since + counter.wire
        /\ counter.from + counter.wire <= announced
    BY <2>1 DEF TransportInv, HeardSinceMark
  <2>3. /\ counter.until \in Nat /\ counter.since \in Nat /\ counter.wire \in Nat
        /\ counter.from \in Nat /\ announced \in Nat
    BY <2>1 DEF TransportInv, Typed
  <2>4. QED
    BY <2>2, <2>3
<1>2. QED
  BY <1>1, TransportInductive, PTL
=============================================================================
