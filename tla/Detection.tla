----------------------------- MODULE Detection -----------------------------
(***************************************************************************)
(* How the daemon finds DPUs, asking the plugin registry on the way.       *)
(*                                                                         *)
(* Every tick, DetectAll runs six detectors over the PCI functions of the  *)
(* node.  A card may have several functions, its ports, and is one DPU:    *)
(* three of the detectors know a DPU by its serial number, and by its PCI  *)
(* address if that cannot be read, one knows it by its serial number       *)
(* alone, and two by the address.  The serial number is looked for in the  *)
(* extended capabilities of the function.  What is read may fail, and      *)
(* cards come and go, between any two reads.                               *)
(***************************************************************************)
EXTENDS Registry, Naturals, Sequences, FiniteSets

CONSTANTS
    Cards,
    Ports,          \* PCI functions, numbered by address
    Port,           \* Port[i]: card; the detector it matches; device ID
    Space,          \* Space[c]: config space of the ports of card c
    Products,       \* platforms that the node may be
    MaxFaults,      \* reads that fail
    MaxPlugs,       \* cards plugged and unplugged
    MaxCalls        \* calls of the registry after the start

\* The order in NewDpuDetectorManager; each stands for its vendor, too.
Detectors == << "ipu", "marvell", "netsec", "nvidia", "xsight", "mangoboost" >>
ByAddress == {"ipu", "marvell"}
ByRegistry == {"nvidia", "xsight", "mangoboost"}

NodeOK ==
    /\ Ports \subseteq Nat /\ MaxFaults \in Nat /\ MaxPlugs \in Nat /\ MaxCalls \in Nat
    /\ \A i \in Ports : Port[i].card \in Cards
    /\ Compiled \subseteq Plugins
ASSUME ConstantsAssumption == NodeOK

VARIABLES
    product,                    \* what the node is
    present,                    \* cards in their slots
    det,                        \* detector at work; 0 between the ticks
    todo,                       \* functions that it has to look at
    port,                       \* function that IsDPU said yes to, or 0
    dpuDevices,                 \* identifiers that the detector gave
    detected,                   \* the result so far
    managedDpus,
    faults, plugs, calls

scan == <<det, todo, port, dpuDevices, detected, managedDpus>>
vars == <<registry, product, present, scan, faults, plugs, calls>>

-----------------------------------------------------------------------------
(* The plugin registry, which anybody may change.                          *)

\* Calls that come after the start.
RegistryCall ==
    /\ calls < MaxCalls /\ calls' = calls + 1
    /\ \/ \E p \in Plugins : Register(p) \/ Unregister(p)
       \/ Clear
    /\ UNCHANGED <<product, present, scan, faults, plugs>>

-----------------------------------------------------------------------------
(* The serial number of a card.  A config space has capabilities at some   *)
(* offsets, each with the offset of the next in bytes, and zeroes between  *)
(* them; how many bytes of it can be read depends on the reader.           *)

ExtCapStart == 256

\* The next pointer is multiplied by four.
NextOffset(s, o) ==
    IF o \in DOMAIN s.caps /\ o + 4 <= s.len THEN s.caps[o].next * 4 ELSE 0

\* Offsets that readDeviceSerialFromConfig comes to; it stops at a loop.
Visited(s) ==
    LET at[n \in 0 .. Cardinality(DOMAIN s.caps)] ==
            IF n = 0 THEN ExtCapStart ELSE NextOffset(s, at[n - 1])
    IN  {at[n] : n \in DOMAIN at}

HasSerial(c) ==
    \E o \in Visited(Space[c]) \cap DOMAIN Space[c].caps :
        Space[c].caps[o].dsn /\ o + 12 <= Space[c].len

Fails == faults < MaxFaults /\ faults' = faults + 1
Works == UNCHANGED faults

\* ReadDeviceSerialNumber of port i, with its outcome; the file is gone when
\* the card is.
Read(i, ok) ==
    LET can == Port[i].card \in present /\ HasSerial(Port[i].card)
    IN  IF can = ok THEN Works ELSE can /\ Fails

-----------------------------------------------------------------------------
(* Identifiers, without the node's name, which is the same in all.         *)

Identifier(kind, value) == [kind |-> kind, value |-> value, side |-> "none"]
Serial(i) == Identifier("serial", Port[i].card)
Address(i) == Identifier("address", i)
Postfixed(id, side) == [id EXCEPT !.side = side]

\* The detected DPU, with the registry plugin of its vendor.
Vendor(d) == IF d = "netsec" THEN "ipu" ELSE d
Detected(d, id, side) ==
    [name |-> Postfixed(id, side), plugin |-> plugins \cap {Vendor(d)}]

Init ==
    /\ Filled
    /\ product \in Products /\ present \in SUBSET Cards
    /\ det = 0 /\ todo = {} /\ port = 0 /\ dpuDevices = {} /\ detected = {}
    /\ managedDpus = {} /\ faults = 0 /\ plugs = 0 /\ calls = 0

environment == <<registry, product, present, plugs, calls>>

\* DetectAll fails, and with it the daemon, which starts again.
DetectAllFails ==
    /\ det' = 0 /\ todo' = {} /\ port' = 0 /\ dpuDevices' = {} /\ detected' = {}
    /\ managedDpus' = {}

-----------------------------------------------------------------------------
(* DetectAll                                                               *)

D == Detectors[det]

\* A detector that finds the node to be its DPU looks no further.
NextDetector ==
    /\ det < Len(Detectors) /\ todo = {} /\ port = 0
    /\ det' = det + 1
    /\ LET d == Detectors[det + 1] IN
       \/ /\ product = d
          /\ detected' = detected \cup {Detected(d, Identifier("platform", d), "dpu")}
          /\ Works /\ UNCHANGED <<todo, port, dpuDevices, managedDpus>>
       \/ /\ product # d
          /\ todo' = {i \in Ports : Port[i].card \in present}
          /\ dpuDevices' = {}
          /\ Works /\ UNCHANGED <<port, detected, managedDpus>>
    /\ UNCHANGED environment

PlatformFails ==
    /\ det > 0 /\ Fails /\ DetectAllFails /\ UNCHANGED environment

\* The next function in the list, by its address.
First(i) == i \in todo /\ \A j \in todo : i <= j

\* The function is one that the detector looks for, under its ID in lower case.
ToLower(d) == << d[1], "lower" >>

Matches(i) ==
    /\ Port[i].detector = D
    /\ D \in ByRegistry => GetByDeviceID(ToLower(Port[i].id)) = D

\* IsDPU; a second port of a card that was counted is not counted again.
IsDPU(i) ==
    /\ First(i) /\ port = 0 /\ todo' = todo \ {i}
    /\ \/ ~Matches(i) /\ Works /\ UNCHANGED port
       \/ Matches(i) /\ D \in ByAddress /\ Works /\ port' = i
       \/ /\ Matches(i) /\ D \notin ByAddress /\ Read(i, TRUE)
          /\ port' = IF Serial(i) \in dpuDevices THEN 0 ELSE i
       \/ Matches(i) /\ D \in ByRegistry /\ Read(i, FALSE) /\ port' = i
    /\ UNCHANGED <<det, dpuDevices, detected, managedDpus, environment>>

\* GetDpuIdentifier reads the serial number once more.
GetDpuIdentifier ==
    /\ port # 0 /\ port' = 0
    /\ \E id \in {Serial(port), Address(port)} :
          /\ \/ D \in ByAddress /\ id = Address(port) /\ Works
             \/ D \notin ByAddress /\ id = Serial(port) /\ Read(port, TRUE)
             \/ D \in ByRegistry /\ id = Address(port) /\ Read(port, FALSE)
          /\ dpuDevices' = dpuDevices \cup {id}
          /\ detected' = detected \cup {Detected(D, id, "host")}
    /\ UNCHANGED <<det, todo, managedDpus, environment>>

\* The detector of the NetSec cards insists on the serial number.
SerialFails ==
    /\ det > 0 /\ D = "netsec"
    /\ \E i \in Ports :
          /\ port = i \/ (port = 0 /\ First(i) /\ Matches(i))
          /\ Read(i, FALSE)
    /\ DetectAllFails /\ UNCHANGED environment

\* updateManagedDpus: a name that is known keeps what it has, and one that was not
\* detected goes.
Names(dpus) == {e.name : e \in dpus}

NoneRemoved == managedDpus
StillThere == {e \in managedDpus : e.name \in Names(detected)}

Finish ==
    /\ det = Len(Detectors) /\ todo = {} /\ port = 0
    /\ managedDpus' = StillThere \cup {e \in detected : e.name \notin Names(managedDpus)}
    /\ det' = 0 /\ dpuDevices' = {} /\ detected' = {}
    /\ Works /\ UNCHANGED <<todo, port, environment>>

PlugOrUnplug(c) ==
    /\ plugs < MaxPlugs /\ plugs' = plugs + 1
    /\ present' = IF c \in present THEN present \ {c} ELSE present \cup {c}
    /\ UNCHANGED <<registry, product, scan, faults, calls>>

DetectStep ==
    NextDetector \/ (\E i \in Ports : IsDPU(i)) \/ GetDpuIdentifier
    \/ SerialFails \/ Finish

Next ==
    \/ DetectStep \/ PlatformFails
    \/ RegistryCall
    \/ \E c \in Cards : PlugOrUnplug(c)

\* The daemon's ticker does not stop.
Spec == Init /\ [][Next]_vars /\ WF_vars(DetectStep)

-----------------------------------------------------------------------------
(* Properties                                                              *)

\* Every variable holds a value of its kind.
TypeOK ==
    /\ plugins \subseteq Plugins
    /\ \A k \in DOMAIN deviceIndex : deviceIndex[k] \in Plugins
    /\ product \in Products /\ present \subseteq Cards
    /\ det \in 0 .. Len(Detectors) /\ todo \subseteq Ports /\ port \in Ports \cup {0}

\* Ports that a detector looks for, on cards that are there; upper and lower case
\* make no difference.
Wanted(d) ==
    {i \in Ports :
        /\ Port[i].card \in present /\ Port[i].detector = d
        /\ d \in ByRegistry =>
              d \in plugins /\ \E e \in Claims[d] : e[1] = Port[i].id[1]}

\* A card whose serial number is found is one DPU, unless its detector goes by
\* address; other cards are as many DPUs as they have ports.
NameOf(i) ==
    IF Port[i].detector \in ByAddress \/ ~HasSerial(Port[i].card)
    THEN Address(i) ELSE Serial(i)

\* When reads stop failing, cards stop moving and the registry stops changing, the
\* daemon comes to manage every card that is there and none that is gone, and
\* stays with that: under one name for all its ports if readDeviceSerialFromConfig
\* finds its serial number, and under one name for each port if it does not or the
\* detector goes by address.  Names from reads that failed do not last.
DetectionSettles ==
    <>[](Names(managedDpus) =
            UNION {IF product = d THEN {Postfixed(Identifier("platform", d), "dpu")}
                   ELSE {Postfixed(NameOf(i), "host") : i \in Wanted(d)} :
                   d \in {Detectors[n] : n \in DOMAIN Detectors}})

\* A card with several ports is counted once (nvidia-bf.go: "avoid counting
\* multi-port devices multiple times").
CountedOnce ==
    \A c \in Cards :
        Cardinality({n \in Names(managedDpus) :
                        \/ n.kind = "serial" /\ n.value = c
                        \/ n.kind = "address" /\ Port[n.value].card = c}) <= 1

=============================================================================
