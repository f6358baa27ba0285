------------------------------ MODULE Registry ------------------------------
(***************************************************************************)
(* The plugin registry: plugins, and an index from the device IDs that     *)
(* they claim to the plugin.  A device ID is a number and the case it is   *)
(* written in; the index holds it in lower case.                           *)
(***************************************************************************)
CONSTANTS
    Plugins,        \* plugins of the vendors
    Compiled,       \* those whose packages register them before the daemon starts
    Claims          \* Claims[p]: device IDs of plugin p

\* MustRegister panics otherwise.
ClaimedOnce ==
    \A p, q \in Compiled : \A d \in Claims[p], e \in Claims[q] : d[1] = e[1] => p = q
ASSUME CompiledAssumption == ClaimedOnce

VARIABLES plugins, deviceIndex

registry == <<plugins, deviceIndex>>

Lower(d) == d[1]
Keys(p) == {Lower(d) : d \in Claims[p]}

NothingClaimed(p) == FALSE
Claimed(p) == Keys(p) \cap DOMAIN deviceIndex # {}

\* The packages of the plugins have registered them.
Filled ==
    /\ plugins = Compiled
    /\ deviceIndex = [k \in UNION {Keys(p) : p \in Compiled} |->
                         CHOOSE p \in Compiled : k \in Keys(p)]

Register(p) ==
    /\ p \notin plugins /\ ~Claimed(p)
    /\ plugins' = plugins \cup {p}
    /\ deviceIndex' = [k \in DOMAIN deviceIndex \cup Keys(p) |->
                          IF k \in Keys(p) THEN p ELSE deviceIndex[k]]

\* Unregister takes away the keys that point to p.
Kept(p) == {k \in DOMAIN deviceIndex : k \notin Keys(p) \/ deviceIndex[k] # p}

Unregister(p) ==
    /\ p \in plugins
    /\ plugins' = plugins \ {p}
    /\ deviceIndex' = [k \in Kept(p) |-> deviceIndex[k]]

Clear == plugins' = {} /\ deviceIndex' = << >>

\* GetByDeviceID; "" stands for nil.
GetByDeviceID(d) ==
    IF Lower(d) \in DOMAIN deviceIndex THEN deviceIndex[Lower(d)] ELSE ""

-----------------------------------------------------------------------------
\* The index leads from every device to the one plugin that claims it, and from
\* no other, whatever was registered, refused, unregistered and cleared before.
IndexExact ==
    /\ \A k \in DOMAIN deviceIndex :
          deviceIndex[k] \in plugins /\ k \in Keys(deviceIndex[k])
    /\ \A p \in plugins : \A k \in Keys(p) :
          k \in DOMAIN deviceIndex /\ deviceIndex[k] = p

=============================================================================
