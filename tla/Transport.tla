-------------------------------- MODULE Transport --------------------------------
(***************************************************************************)
(* common/simple_udp.py and the transport half of                          *)
(* common/cas_example_helper.py: the one socket, the receive and the send  *)
(* callback between it and the stack, and the start-up I-Am; and           *)
(* wiretest/process.py's IAmBroadcasts, which counts on the subnet what    *)
(* they broadcast.                                                         *)
(*                                                                         *)
(* An address is its four octets and a port.  The stack is not part of the *)
(* repository: it pulls one datagram a tick, answers a Who-Is where it     *)
(* came from or, when it was broadcast, on the subnet, and asks its own    *)
(* address, as its looped-back I-Am gave it, when it means the subnet.     *)
(***************************************************************************)
EXTENDS Codec

CONSTANTS
  Instance,       \* the device's instance
  Other,          \* the instance of another device of the subnet
  Ports,          \* what --port may be given; -1 for no number
  Interfaces,     \* the addresses the primary interface may have
  Clients,        \* the addresses Who-Is comes from
  MaxMessage,     \* the room the stack has for a message
  MaxConnectionStringLength,  \* and for an address
  MaxArrivals,    \* BOUND: datagrams that arrive from others
  MaxFailures,    \* BOUND: failures of the socket
  MaxMoves,       \* BOUND: changes of the interface's address
  MaxLines        \* BOUND: TX lines that say (broadcast), before one more is bound for

\* What struct's B and H take, and an address as every inet_aton gives it.
Octet     == 0..255
Short     == 0..65535
IPv4      == {ip \in Seq(Octet) : Len(ip) = 4}
Addresses == [ip : IPv4, port : Short]

VARIABLES
  interface,  \* the primary interface's address
  step,       \* how far main() is: "start", "bound", "registered", "serving", "closed"
  port,       \* the UDP port of the socket
  local,      \* what register_common_callbacks read of the interface
  steady,     \* whether the interface has kept the address that was read
  inbound,    \* the datagrams the socket holds
  binding,    \* the connection string this device was last heard from, or None
  console,    \* where the TX lines that say (broadcast) went
  sent,       \* the datagrams sent: for whom, to where, and whether the address was steady
  announced,  \* how many I-Ams of this device have gone to the subnet
  counter,    \* the IAmBroadcasts: its step, its listener, announced at its steps
  bounds      \* what has happened of that which is bounded

vars == <<interface, step, port, local, steady, inbound, binding, console, sent, announced, counter, bounds>>

Happens(event, max) == bounds[event] < max /\ bounds' = [bounds EXCEPT ![event] = @ + 1]

-----------------------------------------------------------------------------
\* Addresses

ValidPort(p) == p \in 1..65535

ParsePortArg(given) ==
  LET first == SelectInSeq(given, ValidPort)
  IN  IF first = 0 THEN 47808 ELSE given[first]

LOOPBACK == <<127, 0, 0, 1>>

\* A /24 is assumed of every address but the loopback's.
get_local_ipv4(address) ==
  LET netmask == IF address = LOOPBACK THEN <<255, 0, 0, 0>> ELSE <<255, 255, 255, 0>>
  IN [address   |-> address,
      broadcast |-> [i \in 1..4 |-> IF netmask[i] = 255 THEN address[i] ELSE 255]]

\* A client has an address of its own, not one that stands for a subnet.
ASSUME AddressesAssumption ==
  /\ Interfaces \subseteq IPv4
  /\ Clients \subseteq Addresses
  /\ \A client \in Clients, i \in Interfaces : client.ip # get_local_ipv4(i).broadcast

\* None is not mistaken for an instance, nor for the I-Am.
ASSUME InstancesAssumption ==
  /\ Instance # Other
  /\ None \notin {Instance, Other, i_am(Instance)}

At(ip, udp_port) == [ip |-> ip, port |-> udp_port]

Own    == At(interface, port)
Subnet == At(get_local_ipv4(interface).broadcast, port)

\* Mutant: the port's octets the other way round.
LowOctetFirst(address) == address.ip \o <<address.port % 256, address.port \div 256>>

\* Four octets and the port, big-endian; and back.
connection_string(address) == address.ip \o <<address.port \div 256, address.port % 256>>
address_of(string)         == At(SubSeq(string, 1, 4), string[5] * 256 + string[6])

-----------------------------------------------------------------------------
\* The send callback and SimpleUDP.send

\* Mutant: every address is sent to as given.
AsGiven(string, broadcast) ==
  IF string = <<>> THEN At(local.broadcast, port) ELSE address_of(string)

\* An empty string is a broadcast, and so is one to this socket's own address
\* that says so; None is a string that is refused.
Destination(string, broadcast) ==
  IF string = <<>> THEN At(local.broadcast, port)
  ELSE IF Len(string) < 6 THEN None
  ELSE IF broadcast /\ address_of(string) = At(local.address, port)
       THEN At(local.broadcast, port)
  ELSE address_of(string)

\* What is sent to the subnet, or to this host, comes back to the socket; the
\* listener is bound to one address and hears what is sent to that.
Loop(datagram, to, queue) ==
  IF to \in {Subnet, Own} THEN Append(queue, datagram) ELSE queue

Overhear(datagram, to) ==
  IF to = counter.address THEN [counter EXCEPT !.queue = Append(@, datagram.payload)] ELSE counter

\* The TX line is written whether the datagram could be sent or not.
Send(payload, string, broadcast, meant, queue) ==
  LET to == Destination(string, broadcast)
      datagram == [payload |-> payload, from |-> Own, broadcast |-> to = Subnet, length |-> 1]
  IN
  \/ /\ to # None
     /\ console' = IF broadcast \/ string = <<>> THEN Append(console, to) ELSE console
     /\ \/ /\ sent' = sent \union
                       {[meant |-> meant, to |-> to, steady |-> steady]}
           /\ announced' = announced + (IF meant = Subnet /\ payload = i_am(Instance)
                                        THEN 1 ELSE 0)
           /\ inbound' = Loop(datagram, to, queue)
           /\ counter' = Overhear(datagram, to)
           /\ UNCHANGED bounds
        \/ /\ Happens("failures", MaxFailures)
           /\ inbound' = queue
           /\ UNCHANGED <<sent, announced, counter>>
  \/ /\ to = None
     /\ inbound' = queue
     /\ UNCHANGED <<console, sent, announced, counter, bounds>>

-----------------------------------------------------------------------------
\* main(): the set-up, the start-up I-Am and the end

Program == UNCHANGED <<interface, port, local, steady>>

SetupUdp ==
  /\ step = "start" /\ step' = "bound"
  /\ Program /\ UNCHANGED <<inbound, binding, console, sent, announced, counter, bounds>>

\* Read once, not on every send.
RegisterCommonCallbacks ==
  /\ step = "bound" /\ step' = "registered"
  /\ local' = get_local_ipv4(interface) /\ steady' = TRUE
  /\ UNCHANGED <<interface, port, inbound, binding, console, sent, announced, counter, bounds>>

\* send_i_am reads the interface again; main() goes on when it was not sent.
SendIAm ==
  /\ step = "registered" /\ step' = "serving"
  /\ Send(i_am(Instance), connection_string(Subnet), TRUE, Subnet, inbound)
  /\ Program /\ UNCHANGED binding

Shutdown ==
  /\ step = "serving" /\ step' = "closed"
  /\ inbound' = <<>>
  /\ Program /\ UNCHANGED <<binding, console, sent, announced, counter, bounds>>

-----------------------------------------------------------------------------
\* BACnetStack_Tick: the receive callback and what the stack sends

\* SimpleUDP.recv reports the error of an earlier send and takes nothing.
ReceiveFails ==
  /\ step = "serving" /\ Happens("failures", MaxFailures)
  /\ Program /\ UNCHANGED <<step, inbound, binding, console, sent, announced, counter>>

\* What on_receive hands to the stack, the message cut to the room there is.
Received ==
  LET datagram == Head(inbound) IN
  [source |-> connection_string(datagram.from), broadcast |-> datagram.broadcast,
   payload |-> IF datagram.length > MaxMessage THEN None ELSE datagram.payload]

Asks(message) == message.payload # None /\ message.payload = who_is(None, None)

Receive ==
  /\ step = "serving" /\ MaxConnectionStringLength >= 6
  /\ inbound # <<>>
  /\ \/ /\ Asks(Received)
        /\ IF Received.broadcast
           THEN Send(i_am(Instance), <<>>, TRUE, Subnet, Tail(inbound))
           ELSE Send(i_am(Instance), Received.source, FALSE, Head(inbound).from, Tail(inbound))
        /\ UNCHANGED binding
     \/ /\ ~Asks(Received)
        /\ binding' = IF i_am_device_instance(Received.payload) = Instance
                      THEN Received.source ELSE binding
        /\ inbound' = Tail(inbound)
        /\ UNCHANGED <<console, sent, announced, counter, bounds>>
  /\ Program /\ UNCHANGED step

\* A Who-Is to bind an address: the own one, as last heard, as a broadcast.
Bind ==
  /\ step = "serving" /\ binding # None
  /\ Len(console) < MaxLines
  /\ Send(who_is(Other, Other), binding, TRUE, Subnet, inbound)
  /\ Program /\ UNCHANGED <<step, binding>>

-----------------------------------------------------------------------------
\* The others: a client's Who-Is, to this device or to the subnet, long or not,
\* the I-Am of another device, and a new address for the interface.

Arrive(payload, from, to, length) ==
  LET datagram == [payload |-> payload, from |-> from, broadcast |-> to = Subnet,
                   length |-> length]
  IN  /\ step = "serving" /\ Happens("arrivals", MaxArrivals)
      /\ inbound' = Loop(datagram, to, inbound)
      /\ counter' = Overhear(datagram, to)
      /\ Program /\ UNCHANGED <<step, binding, console, sent, announced>>

WhoIs == \E client \in Clients, to \in {Own, Subnet}, length \in {1, MaxMessage + 1} :
  Arrive(who_is(None, None), client, to, length)

OtherIAm == \E client \in Clients : Arrive(i_am(Other), client, Subnet, 1)

Move == \E address \in Interfaces \ {interface} :
  /\ interface' = address /\ steady' = FALSE /\ Happens("moves", MaxMoves)
  /\ UNCHANGED <<step, port, local, inbound, binding, console, sent, announced, counter>>

-----------------------------------------------------------------------------
\* IAmBroadcasts, of a program that has said it is ready

Counter(before, record) ==
  /\ counter.step = before
  /\ counter' = record
  /\ Program /\ UNCHANGED <<step, inbound, binding, console, sent, announced, bounds>>

\* broadcast_address: where the first TX line for this port went.
BroadcastAddress ==
  LET lines == {i \in DOMAIN console : console[i].port = port}
  IN  IF lines = {} THEN None ELSE console[Min(lines)]

\* Without an address there is no listener, and nothing to count with it.
Open ==
  /\ step \in {"serving", "closed"} /\ BroadcastAddress # None
  /\ Counter("none", [counter EXCEPT !.step = "idle", !.address = BroadcastAddress])

\* mark(): clear() first keeps what has arrived and then forgets all it kept.
Mark == Counter("idle", [counter EXCEPT !.step = "marking", !.from = announced])

Kept == counter.frames \o counter.queue

Collect ==
  Counter("marking", [counter EXCEPT !.step = "clearing", !.frames = Kept, !.queue = <<>>])

\* Mutant: clear() forgets only what is still queued.
ForgetNothing ==
  Counter("clearing", [counter EXCEPT !.step = "watching", !.since = announced])

Forget ==
  Counter("clearing", [counter EXCEPT !.step = "watching", !.frames = <<>>, !.since = announced])

\* counts(), once: the console is looked at first; then what has arrived is kept.
Count == Counter("watching", [counter EXCEPT !.step = "counting", !.until = announced])

OfThisDevice(payload) == i_am_device_instance(payload) = Instance
HowMany(payloads) == Cardinality({i \in DOMAIN payloads : OfThisDevice(payloads[i])})

CountWire ==
  Counter("counting", [counter EXCEPT
    !.step = "counted", !.frames = Kept, !.queue = <<>>, !.wire = HowMany(Kept)])

IAmBroadcasts == Open \/ Mark \/ Collect \/ Forget \/ Count \/ CountWire

-----------------------------------------------------------------------------

Init ==
  /\ interface \in Interfaces
  /\ \E given \in {<<>>} \union [1..2 -> Ports] : port = ParsePortArg(given)
  /\ step = "start" /\ local = None /\ steady = FALSE
  /\ inbound = <<>> /\ binding = None /\ console = <<>> /\ sent = {} /\ announced = 0
  /\ counter = [step |-> "none", address |-> None, queue |-> <<>>, frames |-> <<>>,
                from |-> 0, since |-> 0, until |-> 0, wire |-> 0]
  /\ bounds = [arrivals |-> 0, failures |-> 0, moves |-> 0]

Main == SetupUdp \/ RegisterCommonCallbacks \/ SendIAm \/ Shutdown
Tick == ReceiveFails \/ Receive \/ Bind
Network == WhoIs \/ OtherIAm \/ Move

Next == Main \/ Tick \/ Network \/ IAmBroadcasts

Spec == Init /\ [][Next]_vars

-----------------------------------------------------------------------------

\* A reply goes back, octet for octet, to the address the request came from,
\* whatever port the two of them use.
RepliesReachTheClient ==
  \A datagram \in sent : datagram.meant \in Clients => datagram.to = datagram.meant

\* What the stack means for the subnet - an empty string, or its own address -
\* goes to the subnet's broadcast address, as long as the interface keeps the
\* address that was read when the callbacks were registered.
SubnetHears ==
  \A datagram \in sent :
     datagram.meant \notin Clients /\ datagram.steady => datagram.to = datagram.meant

\* "from a mark onwards": counts() finds on the wire every I-Am that was
\* broadcast after mark() returned and before counts() was called, and none
\* from before mark() was called, of another device, or sent to one client.
WireCountsAnnouncements ==
  counter.step = "counted" /\ steady =>
    counter.wire \in (counter.until - counter.since)..(announced - counter.from)
=============================================================================
