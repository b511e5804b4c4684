----------------------------- MODULE SensorDevice -----------------------------
(***************************************************************************)
(* What a client reads of the sensor: the set-up of main(), the six Get    *)
(* callbacks of main.py's section 3 over the values the Simulation keeps,  *)
(* and what the CAS BACnet Stack makes of them.  The stack is not part of  *)
(* the repository: it is modelled from what main.py and its documents say  *)
(* of it, namely that it serves what an object lists, that it asks the     *)
(* callback of the property's datatype, and that for a callback that       *)
(* declines it invents a value of its own.                                 *)
(*                                                                         *)
(* The stack's one device is this one, so the callbacks' test of           *)
(* device_instance always passes and is left out.                          *)
(***************************************************************************)
EXTENDS SensorSimulation, SequencesExt

CONSTANTS
  DeviceIDs,    \* what --deviceID may be given, as a number; -1 for no number
  DeviceNames,  \* what --deviceName may be given: bytes of UTF-8, all printable
  MaxOptions,   \* BOUND: how often each of the two options is given
  MAX_CHARACTER_STRING_SIZE  \* the stack's max_element_count

ASSUME DeviceIDsAssumption   == DeviceIDs \subseteq Int
ASSUME DeviceNamesAssumption == DeviceNames \subseteq [bytes : Nat, printable : BOOLEAN]
ASSUME StringSizeAssumption  == MAX_CHARACTER_STRING_SIZE \in Nat
ASSUME MaxOptionsAssumption  == MaxOptions \in Nat

VARIABLES
  phase,           \* "settingUp", "serving" or "ended"
  setUp,           \* how many of SetupCalls have succeeded
  objects,         \* the objects the stack has been given
  enabled,         \* the optional properties that have been enabled
  deviceInstance,  \* g_device_instance
  deviceName       \* g_device_name

stackVars  == <<phase, setUp, objects, enabled>>
deviceVars == <<stackVars, deviceInstance, deviceName>>

-----------------------------------------------------------------------------
\* The command line: the first valid use of an option decides.

FirstOf(given, first, default) == IF first = 0 THEN default ELSE given[first]

DEVICE_ID     == 389001
MAX_DEVICE_ID == 4194302  \* the instance after it is the wildcard
\* Mutant: the wildcard instance is taken for a device's own.
AnyInstance(id) == id \in 0..(MAX_DEVICE_ID + 1)
ValidDeviceID(id) == id \in 0..MAX_DEVICE_ID
ParseDeviceIDArg(given) == FirstOf(given, SelectInSeq(given, ValidDeviceID), DEVICE_ID)

DEVICE_NAME            == [bytes |-> 20, printable |-> TRUE]
MAX_DEVICE_NAME_LENGTH == 255
ValidDeviceName(name) == name.bytes \in 1..MAX_DEVICE_NAME_LENGTH /\ name.printable
ParseDeviceNameArg(given) == FirstOf(given, SelectInSeq(given, ValidDeviceName), DEVICE_NAME)

-----------------------------------------------------------------------------
\* The objects, and the order main() gives them to the stack in

Device          == <<"Device", deviceInstance>>
AnalogInput     == <<"AnalogInput", 1>>
BinaryInput     == <<"BinaryInput", 1>>
MultiStateInput == <<"MultiStateInput", 1>>
NetworkPort     == <<"NetworkPort", 1>>

Type(object) == object[1]

Add(object) == [object |-> object, property |-> "none"]
Enable(object, property) == [object |-> object, property |-> property]

\* The calls that change what a client can read; those that enable services
\* come after the first and are left out.
\* Mutant: an object is added that the callbacks know nothing of.
HalfAnObject ==
  <<Add(Device), Add(AnalogInput), Add(<<"AnalogInput", 2>>), Add(BinaryInput),
    Add(MultiStateInput), Add(NetworkPort), Enable(Device, "Description"),
    Enable(MultiStateInput, "State_Text"), Enable(AnalogInput, "Reliability")>>
SetupCalls ==
  <<Add(Device), Add(AnalogInput), Add(BinaryInput), Add(MultiStateInput), Add(NetworkPort),
    Enable(Device, "Description"), Enable(MultiStateInput, "State_Text"),
    Enable(AnalogInput, "Reliability")>>

SetUp ==
  /\ phase = "settingUp" /\ setUp < Len(SetupCalls)
  /\ LET call == SetupCalls[setUp + 1]
     IN  IF call.property = "none"
         THEN objects' = objects \union {call.object} /\ UNCHANGED enabled
         ELSE enabled' = enabled \union {<<call.object, call.property>>} /\ UNCHANGED objects
  /\ setUp' = setUp + 1
  /\ phase' = IF setUp' = Len(SetupCalls) THEN "serving" ELSE phase
  /\ UNCHANGED <<vars, deviceInstance, deviceName>>

\* A call that fails ends the process.
SetUpFails ==
  /\ phase = "settingUp"
  /\ phase' = "ended"
  /\ UNCHANGED <<vars, setUp, objects, enabled, deviceInstance, deviceName>>

-----------------------------------------------------------------------------
\* The Get callbacks.  True with a value; False alone, which the stack takes
\* for "noOpinion"; or False with an error code.

Return(what) == [kind |-> "value", value |-> what]
NoOpinion      == [kind |-> "noOpinion"]
Error(code)    == [kind |-> "error", code |-> code]

GetPropertyReal(object, property) ==
  IF object = AnalogInput /\ property = "Present_Value" THEN Return(value) ELSE NoOpinion

\* Mutant: the Reliability branch declines.
NoReliabilityBranch(object, property) ==
  CASE object = BinaryInput /\ property = "Present_Value" -> Return(binary)
    [] object = BinaryInput /\ property = "Polarity"      -> Return("normal")
    [] object = AnalogInput /\ property = "Units"         -> Return("degreesCelsius")
    [] OTHER -> NoOpinion
GetPropertyEnumerated(object, property) ==
  CASE object = BinaryInput /\ property = "Present_Value"  -> Return(binary)
    [] object = BinaryInput /\ property = "Polarity"       -> Return("normal")
    [] object = AnalogInput /\ property = "Units"          -> Return("degreesCelsius")
    [] object = AnalogInput /\ property = "Reliability"    -> Return(reliability)
    [] object = NetworkPort /\ property = "BACnet_IP_Mode" -> Return("normal")
    [] OTHER -> NoOpinion

\* index is an array index, or WHOLE when the client gives none.
WHOLE == -1

GetPropertyUnsignedInteger(object, property, index) ==
  CASE object = MultiStateInput /\ property = "Present_Value" -> Return(multi)
    [] object = MultiStateInput /\ property = "Number_Of_States" ->
         Return(MULTI_STATE_INPUT_NUMBER_OF_STATES)
    [] object = MultiStateInput /\ property = "State_Text" /\ index = 0 ->
         Return(MULTI_STATE_INPUT_NUMBER_OF_STATES)
    [] object = Device /\ property = "Vendor_Identifier"         -> Return(389)
    [] object = NetworkPort /\ property = "APDU_Length"          -> Return(1476)
    [] object = NetworkPort /\ property = "Reference_Port"       -> Return(4194303)
    [] object = NetworkPort /\ property = "BACnet_IP_UDP_Port"   -> Return("thePort")
    [] OTHER -> NoOpinion

GetPropertyBool(object, property) ==
  IF property = "Out_Of_Service" /\ Type(object) # "Device" THEN Return(FALSE) ELSE NoOpinion

\* Four octets, for which the stack's buffer has room.
Addresses == {"IP_Address", "IP_Subnet_Mask", "IP_Default_Gateway"}
GetPropertyOctetString(object, property) ==
  IF object = NetworkPort /\ property \in Addresses THEN Return(property) ELSE NoOpinion

\* A string is what it says and how many of its bytes there are.
Text(says, bytes) == [says |-> says, bytes |-> bytes]

ReturnCharacterString(text) ==
  Return([text EXCEPT !.bytes = IF @ > MAX_CHARACTER_STRING_SIZE
                                THEN MAX_CHARACTER_STRING_SIZE ELSE @])

\* Mutant: the table is indexed from 0.
TextsFromZero(index) == index \in 0..(MULTI_STATE_INPUT_NUMBER_OF_STATES - 1)
HasText(index) == index \in 1..MULTI_STATE_INPUT_NUMBER_OF_STATES

StateText(index) ==
  IF HasText(index)
  THEN ReturnCharacterString(<<Text("On", 2), Text("Off", 3), Text("Auto", 4)>>[index])
  ELSE Error("invalidArrayIndex")

ObjectName(object) ==
  CASE object = Device          -> ReturnCharacterString(Text("deviceName", deviceName.bytes))
    [] object = AnalogInput     -> ReturnCharacterString(Text("Bronze", 6))
    [] object = BinaryInput     -> ReturnCharacterString(Text("Emerald", 7))
    [] object = MultiStateInput -> ReturnCharacterString(Text("HotPink", 8))
    [] object = NetworkPort     -> ReturnCharacterString(Text("Vermilion", 9))
    [] OTHER -> NoOpinion

DeviceStrings ==
  {"Description", "Vendor_Name", "Model_Name", "Firmware_Revision", "Application_Software_Version"}

GetPropertyCharacterString(object, property, index) ==
  CASE object = MultiStateInput /\ property = "State_Text" /\ index # WHOLE -> StateText(index)
    [] property = "Object_Name" -> ObjectName(object)
    [] object = Device /\ property \in DeviceStrings -> ReturnCharacterString(Text(property, 1))
    [] OTHER -> NoOpinion

-----------------------------------------------------------------------------
\* The stack.  Asked(type) are the required properties it asks the callbacks
\* for; the others (Object_List, Status_Flags, ...) it answers itself.

Strings == DeviceStrings \union {"Object_Name", "State_Text"}

Callback(object, property, index) ==
  CASE property \in Strings -> GetPropertyCharacterString(object, property, index)
    [] property = "Out_Of_Service" -> GetPropertyBool(object, property)
    [] property \in Addresses -> GetPropertyOctetString(object, property)
    [] property = "Present_Value" /\ Type(object) = "AnalogInput" ->
         GetPropertyReal(object, property)
    [] property = "Present_Value" /\ Type(object) = "BinaryInput" ->
         GetPropertyEnumerated(object, property)
    [] property \in {"Units", "Polarity", "Reliability", "Event_State", "BACnet_IP_Mode",
                     "System_Status", "Segmentation_Supported"} ->
         GetPropertyEnumerated(object, property)
    [] OTHER -> GetPropertyUnsignedInteger(object, property, index)

Asked(type) ==
  {"Object_Name"} \union
  CASE type = "Device" ->
         (DeviceStrings \ {"Description"}) \union
         {"Vendor_Identifier", "System_Status", "Max_APDU_Length_Accepted",
          "Segmentation_Supported", "APDU_Timeout", "Number_Of_APDU_Retries"}
    [] type = "AnalogInput" -> {"Present_Value", "Out_Of_Service", "Event_State", "Units"}
    [] type = "BinaryInput" -> {"Present_Value", "Out_Of_Service", "Event_State", "Polarity"}
    [] type = "MultiStateInput" ->
         {"Present_Value", "Out_Of_Service", "Event_State", "Number_Of_States"}
    [] type = "NetworkPort" ->
         {"Out_Of_Service", "Reliability", "APDU_Length", "Reference_Port", "BACnet_IP_UDP_Port",
          "BACnet_IP_Mode"} \union Addresses

Listed(object) ==
  Asked(Type(object)) \union {property \in Strings \union {"Reliability"} :
                                <<object, property>> \in enabled}

\* What a declined read becomes.
Fallback(property) ==
  IF property \in {"Present_Value", "Number_Of_States", "APDU_Length"}
  THEN Error("readAccessDenied")
  ELSE [kind |-> "invented", value |-> IF property = "Reliability" THEN NO_FAULT_DETECTED ELSE "zero"]

Answer(object, property, index) ==
  LET answer == Callback(object, property, index)
  IN  IF answer.kind = "noOpinion" THEN Fallback(property) ELSE answer

StateTextLength == GetPropertyUnsignedInteger(MultiStateInput, "State_Text", 0)

\* A read of one property.  Of an array the stack asks for the length first
\* and then for an element, or for all of them in turn.
Read(object, property, index) ==
  IF object \notin objects THEN Error("unknownObject")
  ELSE IF property \notin Listed(object) THEN Error("unknownProperty")
  ELSE IF property # "State_Text" THEN Answer(object, property, index)
  ELSE IF index = 0 THEN StateTextLength
  ELSE IF index > StateTextLength.value THEN Error("invalidArrayIndex")
  ELSE IF index # WHOLE THEN Answer(object, property, index)
  ELSE Return([i \in 1..StateTextLength.value |-> Answer(object, property, i)])

\* The FAULT bit of Status_Flags, which the stack derives.
Fault(object) ==
  /\ "Reliability" \in Listed(object)
  /\ Answer(object, "Reliability", WHOLE).value # NO_FAULT_DETECTED

-----------------------------------------------------------------------------

DeviceInit ==
  /\ Init
  /\ phase = "settingUp" /\ setUp = 0
  /\ objects = {} /\ enabled = {}
  /\ \E given \in BoundedSeq(DeviceIDs, MaxOptions) : deviceInstance = ParseDeviceIDArg(given)
  /\ \E given \in BoundedSeq(DeviceNames, MaxOptions) : deviceName = ParseDeviceNameArg(given)

Serve == phase = "serving" /\ Next /\ UNCHANGED deviceVars

DeviceNext == SetUp \/ SetUpFails \/ Serve

DeviceSpec == DeviceInit /\ [][DeviceNext]_<<vars, deviceVars>>

-----------------------------------------------------------------------------

\* docs/objects.json, the rows "accepted": what the stack may answer with a
\* value of its own, because no callback knows better.
Accepted(type) ==
  CASE type = "Device" -> {"System_Status", "Max_APDU_Length_Accepted", "Segmentation_Supported",
                           "APDU_Timeout", "Number_Of_APDU_Retries"}
    [] type = "NetworkPort" -> {"Reliability"}
    [] OTHER -> {"Event_State"}

Serving == phase = "serving"

\* The instance and the name the device goes by are ones it may have,
\* whatever the command line says; the rest stays in its type.
DeviceTypeOK ==
  /\ phase \in {"settingUp", "serving", "ended"}
  /\ setUp \in 0..Len(SetupCalls)
  /\ objects \subseteq {Device, AnalogInput, BinaryInput, MultiStateInput, NetworkPort}
  /\ enabled \subseteq objects \X {"Description", "State_Text", "Reliability"}
  /\ deviceInstance \in 0..MAX_DEVICE_ID
  /\ deviceName.bytes \in 1..MAX_DEVICE_NAME_LENGTH /\ deviceName.printable

\* Each property an object lists reads as a value, and as one the example
\* serves: the stack invents none but those that docs/objects.json accepts,
\* which is what would make a half-added object look healthy
\* (main.py:344-357).  The device's name is the one it was given, whole: what
\* --deviceName accepts fits into the stack's strings.
NothingInvented ==
  Serving =>
    /\ \A object \in objects : \A property \in Listed(object) :
         LET answer == Read(object, property, WHOLE)
         IN  /\ answer.kind # "error"
             /\ answer.kind = "invented" => property \in Accepted(Type(object))
    /\ Read(Device, "Object_Name", WHOLE).value.bytes = deviceName.bytes

\* Through the callbacks and the stack a client sees a wire that has been as
\* it is for a second and the longest pass: Reliability, and the FAULT bit of
\* this object's Status_Flags and of no other.
FaultServed ==
  Serving =>
    /\ \A object \in objects \ {AnalogInput} : ~Fault(object)
    /\ wireAge = NoticeBound =>
         /\ Fault(AnalogInput) = SensorWireBroken
         /\ Read(AnalogInput, "Reliability", WHOLE).value = Reported(SensorWireBroken)

\* Every state Multi-State Input 1 can be read in has its text, the array is
\* as long as Number_Of_States, and an index past it is refused and never
\* answered with an empty string.
StatesHaveTexts ==
  Serving =>
    LET texts == Read(MultiStateInput, "State_Text", WHOLE).value
        state == Read(MultiStateInput, "Present_Value", WHOLE).value
    IN  /\ Len(texts) = Read(MultiStateInput, "Number_Of_States", WHOLE).value
        /\ state \in DOMAIN texts
        /\ Read(MultiStateInput, "State_Text", state) = texts[state]
        /\ texts[state].kind = "value"
        /\ \A past \in 1..2 :
              Read(MultiStateInput, "State_Text", Len(texts) + past).kind = "error"
=============================================================================
