--------------------------------- MODULE Codec ---------------------------------
(***************************************************************************)
(* wiretest/codec.py: BACnet/IP frames by hand, as the wire tests and the  *)
(* simulated devices of wiretest/peer.py build and read them.              *)
(*                                                                         *)
(* What is written one after the other stays one after the other: service  *)
(* parameters are a sequence of tags, and a parser finds its way by tag    *)
(* numbers and by counting opening and closing tags, as the code does.     *)
(* The octets of one tag are abstract: a number, an object identifier (a   *)
(* pair of type and instance), a text or a real is the tag's body.  The    *)
(* lengths in front of them are modelled apart, in the last section.       *)
(***************************************************************************)
EXTENDS Integers, FiniteSets, Sequences, SequencesExt

CONSTANT None  \* an optional argument that is not given, a parser's failure

\* None is not mistaken for the type of an APDU that is there.
ASSUME NoneAssumption ==
  None \notin {"ConfirmedRequest", "UnconfirmedRequest", "SimpleACK", "ComplexACK", "Error",
               "Reject", "Abort"}

-----------------------------------------------------------------------------
\* Tags

TAG_NULL              == 0
TAG_UNSIGNED          == 2
TAG_REAL              == 4
TAG_CHARACTER_STRING  == 7
TAG_ENUMERATED        == 9
TAG_OBJECT_IDENTIFIER == 12

Tag(number, context, kind, body) ==
  [number |-> number, context |-> context, kind |-> kind, body |-> body]

context(number, value)     == Tag(number, TRUE, "value", value)
application(number, value) == Tag(number, FALSE, "value", value)
opening(number)            == Tag(number, TRUE, "open", None)
closing(number)            == Tag(number, TRUE, "close", None)

optional(number, value) == IF value = None THEN <<>> ELSE <<context(number, value)>>

constructed(number, tags) == <<opening(number)>> \o tags \o <<closing(number)>>

IsValue(tag, number)   == tag.context /\ tag.kind = "value" /\ tag.number = number
IsOpening(tag, number) == tag.context /\ tag.kind = "open" /\ tag.number = number

\* How many constructed values are open behind a run of tags.
Depth(tags) ==
  Cardinality({i \in DOMAIN tags : tags[i].kind = "open"})
    - Cardinality({i \in DOMAIN tags : tags[i].kind = "close"})

\* What is opened within a list of tags is closed within it.
Complete(tags) ==
  /\ tags \in Seq({tags[i] : i \in DOMAIN tags})
  /\ \A i \in DOMAIN tags : Depth(SubSeq(tags, 1, i)) >= 0
  /\ Depth(tags) = 0

\* The positions at which a value opened just before start may be closed.
Ends(tags, start) == {i \in start..Len(tags) : Depth(SubSeq(tags, start, i)) < 0}

inside(tags, start) == SubSeq(tags, start, Min(Ends(tags, start)) - 1)

\* The members of a set of positions, from the first to the last.
InOrder(S) ==
  [k \in 1..Cardinality(S) |-> CHOOSE i \in S : Cardinality({j \in S : j <= i}) = k]

-----------------------------------------------------------------------------
\* APDUs

APDU(type, invoke_id, service, parameters) ==
  [type |-> type, invoke_id |-> invoke_id, service |-> service, parameters |-> parameters]

confirmed_request(invoke_id, service, parameters) ==
  APDU("ConfirmedRequest", invoke_id, service, parameters)

read_property_request(invoke_id, object, property, array_index) ==
  confirmed_request(invoke_id, "ReadProperty",
    <<context(0, object), context(1, property)>> \o optional(2, array_index))

write_property_request(invoke_id, object, property, value, priority, array_index) ==
  confirmed_request(invoke_id, "WriteProperty",
    <<context(0, object), context(1, property)>> \o optional(2, array_index)
      \o constructed(3, value) \o optional(4, priority))

\* read_property_ack, and the ACK of one array element that peer.py builds.
read_property_ack(invoke_id, object, property, array_index, value) ==
  APDU("ComplexACK", invoke_id, "ReadProperty",
    <<context(0, object), context(1, property)>> \o optional(2, array_index)
      \o constructed(3, value))

error_parameters(class, code) ==
  <<application(TAG_ENUMERATED, class), application(TAG_ENUMERATED, code)>>

error_pdu(invoke_id, service, class, code) ==
  APDU("Error", invoke_id, service, error_parameters(class, code))

simple_ack(invoke_id, service) == APDU("SimpleACK", invoke_id, service, <<>>)
reject_pdu(invoke_id, reason)  == APDU("Reject", invoke_id, None, <<reason>>)
abort_pdu(invoke_id, reason)   == APDU("Abort", invoke_id, None, <<reason>>)

who_is(low, high) ==
  APDU("UnconfirmedRequest", None, "Who-Is", optional(0, low) \o optional(1, high))

i_am(device_instance) ==
  APDU("UnconfirmedRequest", None, "I-Am",
    <<application(TAG_OBJECT_IDENTIFIER, <<"DEVICE", device_instance>>),
      application(TAG_UNSIGNED, "maxAPDU"), application(TAG_ENUMERATED, "segmentation"),
      application(TAG_UNSIGNED, "vendor")>>)

-----------------------------------------------------------------------------
\* Reading APDUs

parse_read_property_request(apdu) ==
  LET tags == apdu.parameters IN
  IF Len(tags) < 2 THEN None
  ELSE [object |-> tags[1].body, property |-> tags[2].body,
        array_index |-> IF Len(tags) > 2 /\ IsValue(tags[3], 2) THEN tags[3].body ELSE None]

parse_write_property_request(apdu) ==
  LET tags    == apdu.parameters
      indexed == tags[3].number = 2 /\ tags[3].kind = "value"
      start   == IF indexed THEN 5 ELSE 4
      end     == Min(Ends(tags, start))
  IN  IF Len(tags) < 3 \/ Ends(tags, start) = {} THEN None
      ELSE [object |-> tags[1].body, property |-> tags[2].body,
            array_index |-> IF indexed THEN tags[3].body ELSE None,
            value |-> inside(tags, start),
            priority |-> IF end < Len(tags) THEN tags[end + 1].body ELSE None]

read_property_value(apdu) ==
  LET tags   == apdu.parameters
      opened == {i \in DOMAIN tags : IsOpening(tags[i], 3)}
  IN  IF opened = {} THEN None ELSE inside(tags, Min(opened) + 1)

\* Where they stand.
application_values(tags) == {i \in DOMAIN tags : tags[i].kind = "value" /\ ~tags[i].context}

error_class_and_code(tags) ==
  LET values == application_values(tags)
      first  == Min(values)
      second == Min(values \ {first})
  IN  IF Cardinality(values) < 2 THEN None ELSE <<tags[first].body, tags[second].body>>

\* One element per tag, each still tagged.
application_elements(tags) == [i \in DOMAIN tags |-> <<tags[i]>>]

application_tag(tags) == IF tags = <<>> \/ tags[1].context THEN None ELSE tags[1].number

i_am_device_instance(apdu) ==
  IF /\ apdu # None /\ apdu.type = "UnconfirmedRequest" /\ apdu.service = "I-Am"
     /\ apdu.parameters # <<>> /\ application_tag(apdu.parameters) = TAG_OBJECT_IDENTIFIER
     /\ apdu.parameters[1].body[1] = "DEVICE"
  THEN apdu.parameters[1].body[2] ELSE None

-----------------------------------------------------------------------------
\* ReadPropertyMultiple

read_access_specification(object, references) ==
  <<context(0, object)>>
    \o constructed(1, FlattenSeq([i \in DOMAIN references |->
         <<context(0, references[i].property)>> \o optional(1, references[i].array_index)]))

read_property_multiple_request(invoke_id, specifications) ==
  confirmed_request(invoke_id, "ReadPropertyMultiple",
    FlattenSeq([i \in DOMAIN specifications |->
      read_access_specification(specifications[i].object, specifications[i].references)]))

\* The object a property reference at position i is about, and the like: the
\* last tag before it that is a value with this number, at this depth.
LastBefore(tags, i, number, depth) ==
  Max({j \in 1..(i - 1) : IsValue(tags[j], number) /\ Depth(SubSeq(tags, 1, j)) = depth})

\* The properties in a list of references, without their indices.
property_references(list) ==
  LET read == InOrder({j \in DOMAIN list : IsValue(list[j], 0)})
  IN  [j \in DOMAIN read |-> list[read[j]].body]

\* As a dict: an object stands where it came first and has the references that
\* came last with it.
read_access_specifications(tags) ==
  LET starts == {i \in DOMAIN tags : IsValue(tags[i], 0) /\ Depth(SubSeq(tags, 1, i)) = 0}
      order == InOrder({i \in starts : \A j \in starts : tags[j].body = tags[i].body => i <= j})
      last(i) == Max({j \in starts : tags[j].body = tags[i].body})
  IN  [k \in DOMAIN order |->
        [object |-> tags[order[k]].body,
         properties |-> property_references(inside(tags, last(order[k]) + 2))]]

\* results: [object, values], values: [property, value or None].
read_property_multiple_ack(invoke_id, results) ==
  LET result(entry) ==
        <<context(2, entry.property)>>
          \o IF entry.value = None
             THEN constructed(5, error_parameters("PROPERTY", "UNKNOWN_PROPERTY"))
             ELSE constructed(4, entry.value)
  IN  APDU("ComplexACK", invoke_id, "ReadPropertyMultiple",
        FlattenSeq([i \in DOMAIN results |->
          <<context(0, results[i].object)>>
            \o constructed(1, FlattenSeq([j \in DOMAIN results[i].values |->
                 result(results[i].values[j])]))]))

\* services.parse_read_property_multiple_ack, as the set of its entries: each
\* value [4] or error [5] belongs to the property [2] and the object [0] before it.
parse_read_property_multiple_ack(apdu) ==
  LET tags     == apdu.parameters
      outcomes == {i \in DOMAIN tags : /\ tags[i].kind = "open" /\ tags[i].number \in {4, 5}
                                       /\ Depth(SubSeq(tags, 1, i)) = 2}
      property(i) == LastBefore(tags, i, 2, 1)
      indexed(i) == IsValue(tags[property(i) + 1], 3)
  IN  {[object |-> tags[LastBefore(tags, i, 0, 0)].body,
        property |-> tags[property(i)].body,
        array_index |-> IF indexed(i) THEN tags[property(i) + 1].body ELSE None,
        result |-> IF tags[i].number = 4 THEN <<"value", inside(tags, i + 1)>>
                   ELSE <<"error", error_class_and_code(inside(tags, i + 1))>>] : i \in outcomes}

-----------------------------------------------------------------------------
\* NPDUs and frames

\* The fields of an NPDU in their order, under the bits that announce them.
npdu(payload, network_message, dnet, dadr, snet, sadr) ==
  LET announced(bit, field) == IF field = None THEN {} ELSE {bit}
      present(field, octets) == IF field = None THEN <<>> ELSE <<octets>>
  IN [control |-> announced("networkMessage", network_message)
                    \union announced("destination", dnet) \union announced("source", snet),
      fields |-> present(dnet, <<dnet, dadr>>) \o present(snet, <<snet, sadr>>)
                   \o present(dnet, 255) \o present(network_message, network_message)
                   \o <<payload>>]

BVLC_FUNCTIONS_WITH_NPDU ==
  {"Forwarded-NPDU", "Distribute-Broadcast-To-Network", "Original-Unicast", "Original-Broadcast"}

bvlc(octets, broadcast) ==
  [function |-> IF broadcast THEN "Original-Broadcast" ELSE "Original-Unicast",
   octets |-> octets]

\* Frame._decode
Frame(datagram) ==
  LET fields == datagram.octets.fields
      size(bit) == IF bit \in datagram.octets.control THEN 1 ELSE 0
      source  == 1 + size("destination")
      message == source + size("source") + size("destination")
      payload == message + size("networkMessage")
  IN
  IF datagram.function \notin BVLC_FUNCTIONS_WITH_NPDU
  THEN [dnet |-> None, dadr |-> None, snet |-> None, sadr |-> None,
        network_message |-> None, payload |-> None]
  ELSE [dnet |-> IF size("destination") = 1 THEN fields[1][1] ELSE None,
        dadr |-> IF size("destination") = 1 THEN fields[1][2] ELSE None,
        snet |-> IF size("source") = 1 THEN fields[source][1] ELSE None,
        sadr |-> IF size("source") = 1 THEN fields[source][2] ELSE None,
        network_message |-> IF size("networkMessage") = 1 THEN fields[message] ELSE None,
        payload |-> fields[payload]]

pdu_type(frame) ==
  IF frame.network_message = None /\ frame.payload # None THEN frame.payload.type ELSE None

service(frame) == IF pdu_type(frame) = None THEN None ELSE frame.payload.service

-----------------------------------------------------------------------------
\* The length in front of a tag's octets, as the octets that tell it (the
\* first is the length field of the tag octet itself).

octet_string_header(length) ==
  IF length < 5 THEN <<length>>
  ELSE IF length < 254 THEN <<5, length>>
  ELSE <<5, 254, length \div 256, length % 256>>

\* application_character_string: one octet says how long the text is.
character_string_header(length) == IF length < 5 THEN <<length>> ELSE <<5, length>>

\* read_tag
read_length(header) ==
  IF header[1] # 5 THEN header[1]
  ELSE IF header[2] = 254 THEN header[3] * 256 + header[4]
  ELSE IF header[2] = 255
       THEN ((header[3] * 256 + header[4]) * 256 + header[5]) * 256 + header[6]
  ELSE header[2]
=============================================================================
