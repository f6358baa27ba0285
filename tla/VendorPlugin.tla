---------------------------- MODULE VendorPlugin ----------------------------
(***************************************************************************)
(* GrpcPlugin in hybrid mode: every operation first tries the registry     *)
(* plugin of the vendor (here NVIDIA BlueField, which talks to an OPI      *)
(* bridge) and falls back to the VSP.  All GrpcPlugins of a vendor share   *)
(* one registry plugin object.  Calls come from several goroutines; Close  *)
(* comes from the daemon's main loop and from the side manager, and does   *)
(* not wait for calls.                                                     *)
(*                                                                         *)
(* The VSP is up throughout.  Start is part of module Daemon; what it does *)
(* to the registry plugin is what Ensure does.                             *)
(***************************************************************************)
EXTENDS Naturals, FiniteSets

CONSTANTS
    Plugins,          \* GrpcPlugins, one for each detected DPU of the vendor
    Callers,          \* goroutines that call them
    Ports,            \* bridge port names
    Ops,              \* operations that are called, a subset of AllOps
    NoPort,           \* the port of an operation that has none
    LocalDevices,     \* the PCI scan of the node finds devices
    IdempotentCreate, \* the OPI bridge accepts a create of what exists
    MaxCalls,         \* bound on calls
    MaxBridgeFaults   \* bound on failures of the OPI bridge

AllOps == {"create", "delete", "nf", "devices", "vfs"}
PortOps == {"create", "delete"}
OpiParts == {"getBridge", "createBridge", "ports"} \* "ports": BridgePortService

\* Without a valid endpoint there is no bridge, and one that makes logical
\* bridges also finds them.
Setups ==
    {s \in [valid : BOOLEAN, opi : SUBSET OpiParts] :
        /\ s.opi # {} => s.valid
        /\ "createBridge" \in s.opi => "getBridge" \in s.opi}
Closers == {"daemon", "manager"}

ASSUME ConstantsAssumption ==
    /\ Plugins # {} /\ Ops \subseteq AllOps /\ NoPort \notin Ports
    /\ LocalDevices \in BOOLEAN /\ IdempotentCreate \in BOOLEAN
    /\ MaxCalls \in Nat /\ MaxBridgeFaults \in Nat

VARIABLES
    setup,    \* fixed: is the OPI endpoint valid, what does the bridge implement
    life,     \* life[g]: "absent", "open" or "removed" from the managed DPUs
    flag,     \* flag[g]: g.registryInitialized
    tried,    \* tried[g]: g.registryLastAttempt is less than 30 s ago
    shared,   \* p.initialized of the shared registry plugin
    conn,     \* conn[g]: g.conn and the clients made from it are not nil
    pc,       \* pc[c]: where the call of goroutine c is
    arg,      \* arg[c]: its plugin, operation and bridge port
    res,      \* res[c]: what the last call of c returned, "none" until it does
    closing,  \* closing[<<g, w>>]: where the Close of g by w is
    up,       \* the OPI bridge answers
    logical,  \* the logical bridge exists on the OPI bridge
    opiPorts, \* bridge ports of the OPI bridge
    vspPorts, \* bridge ports of the VSP
    calls,    \* number of calls so far
    faults,   \* number of failures of the OPI bridge so far
    crashed   \* the process has panicked

plugVars == <<life, flag, tried, shared, conn, closing>>
bridgeVars == <<up, logical, opiPorts, faults>>
callVars == <<pc, arg, res>>
vars == <<setup, plugVars, callVars, bridgeVars, vspPorts, calls, crashed>>

Args == {a \in [g : Plugins, op : AllOps, port : Ports \cup {NoPort}] :
            a.op \in PortOps => a.port \in Ports}
Results == {"none", "ok", "err"}
Pcs == {"idle", "ensure", "registry", "getBridge", "createBridge",
        "createPort", "setVfs", "connect", "vsp"}
ClosePcs == {"idle", "read", "shutdown", "clear", "conn", "done"}

TypeOK ==
    /\ setup \in Setups
    /\ life \in [Plugins -> {"absent", "open", "removed"}]
    /\ flag \in [Plugins -> BOOLEAN]
    /\ tried \in [Plugins -> BOOLEAN]
    /\ shared \in BOOLEAN
    /\ conn \in [Plugins -> BOOLEAN]
    /\ pc \in [Callers -> Pcs]
    /\ arg \in [Callers -> Args]
    /\ res \in [Callers -> Results]
    /\ closing \in [Plugins \X Closers -> ClosePcs]
    /\ up \in BOOLEAN /\ logical \in BOOLEAN
    /\ opiPorts \subseteq Ports /\ vspPorts \subseteq Ports
    /\ calls \in 0..MaxCalls /\ faults \in 0..MaxBridgeFaults
    /\ crashed \in BOOLEAN

NoArg == [g |-> CHOOSE g \in Plugins : TRUE, op |-> "devices", port |-> NoPort]

Init ==
    /\ setup \in Setups
    /\ life = [g \in Plugins |-> "absent"]
    /\ flag = [g \in Plugins |-> FALSE]
    /\ tried = [g \in Plugins |-> FALSE]
    /\ shared = FALSE
    /\ conn = [g \in Plugins |-> FALSE]
    /\ pc = [c \in Callers |-> "idle"]
    /\ arg = [c \in Callers |-> NoArg]
    /\ res = [c \in Callers |-> "none"]
    /\ closing = [x \in Plugins \X Closers |-> "idle"]
    /\ up = TRUE /\ logical = FALSE
    /\ opiPorts = {} /\ vspPorts = {}
    /\ calls = 0 /\ faults = 0 /\ crashed = FALSE

-----------------------------------------------------------------------------
(* Calls                                                                   *)

GoTo(c, l) ==
    /\ pc' = [pc EXCEPT ![c] = l]
    /\ UNCHANGED <<arg, res>>

Return(c, r) ==
    /\ pc' = [pc EXCEPT ![c] = "idle"]
    /\ res' = [res EXCEPT ![c] = r]
    /\ arg' = [arg EXCEPT ![c] = NoArg]

At(c, l) == ~crashed /\ pc[c] = l

\* Goroutines that hold p.mu for reading across several RPCs.
Readers == {c \in Callers :
               pc[c] \in {"getBridge", "createBridge", "createPort"}}

\* A request without a bridge port is refused before anything else.
Begin(c, g, op, p) ==
    /\ At(c, "idle") /\ calls < MaxCalls
    /\ life[g] \in {"open", "removed"}
    /\ op \in Ops /\ (op \in PortOps <=> p \in Ports)
    /\ pc' = [pc EXCEPT ![c] = "ensure"]
    /\ arg' = [arg EXCEPT ![c] = [g |-> g, op |-> op, port |-> p]]
    /\ res' = [res EXCEPT ![c] = "none"]
    /\ calls' = calls + 1
    /\ UNCHANGED <<setup, plugVars, bridgeVars, vspPorts, crashed>>

\* Initialize of the registry plugin: takes p.mu for writing, succeeds or
\* says ErrAlreadyInitialized when the endpoint is valid.
Initialize(g) ==
    /\ Readers = {}
    /\ tried' = [tried EXCEPT ![g] = TRUE]
    /\ flag' = [flag EXCEPT ![g] = setup.valid]
    /\ shared' = (shared \/ setup.valid)
    /\ UNCHANGED <<life, conn, closing>>

\* ensureRegistryInitialized, under registryInitMutex.
Ensure(c) ==
    LET g == arg[c].g IN
    /\ At(c, "ensure")
    /\ \/ /\ flag[g]
          /\ GoTo(c, "registry")
          /\ UNCHANGED plugVars
       \/ /\ ~flag[g] /\ tried[g]
          /\ GoTo(c, "connect")
          /\ UNCHANGED plugVars
       \/ /\ ~flag[g] /\ ~tried[g]
          /\ Initialize(g)
          /\ GoTo(c, IF setup.valid THEN "registry" ELSE "connect")
    /\ UNCHANGED <<setup, bridgeVars, vspPorts, calls, crashed>>

\* registryInitRetryInterval is over.
RetryInterval(g) ==
    /\ ~crashed /\ tried[g] /\ ~flag[g]
    /\ tried' = [tried EXCEPT ![g] = FALSE]
    /\ UNCHANGED <<setup, life, flag, shared, conn, closing, callVars, bridgeVars,
                   vspPorts, calls, crashed>>

\* Variant: every error of the registry plugin leads to the VSP.
ErrorFallsBack(c) == GoTo(c, "connect")

\* What a caller does with an error of the registry plugin other than
\* ErrNotImplemented and ErrCapabilityNotSupported.
RegistryError(c) == Return(c, "err")

\* ErrNotImplemented: the VSP does it.
FallBack(c) == GoTo(c, "connect")

\* The registry plugin is not initialized.  Only the callers of
\* DiscoverDevices go on to the VSP.
RegistryClosed(c) ==
    /\ At(c, "registry") /\ ~shared
    /\ IF arg[c].op \in {"devices", "vfs"} THEN FallBack(c)
                                            ELSE RegistryError(c)
    /\ UNCHANGED <<setup, plugVars, bridgeVars, vspPorts, calls, crashed>>

\* DiscoverDevices holds p.mu for writing.  It unites what the PCI scan and
\* what the OPI bridge report; an error of either is only logged.
Discover(c) ==
    LET found == LocalDevices \/ up IN
    /\ At(c, "registry") /\ shared /\ Readers = {}
    /\ arg[c].op \in {"devices", "vfs"}
    /\ \/ ~found /\ FallBack(c)
       \/ found /\ arg[c].op = "devices" /\ Return(c, "ok")
       \/ found /\ arg[c].op = "vfs" /\ GoTo(c, "setVfs")
    /\ UNCHANGED <<setup, plugVars, bridgeVars, vspPorts, calls, crashed>>

\* SetVFCount of the device found; p.mu was free since DiscoverDevices.
SetVfs(c) ==
    /\ At(c, "setVfs")
    /\ IF shared /\ up THEN Return(c, "ok") ELSE RegistryError(c)
    /\ UNCHANGED <<setup, plugVars, bridgeVars, vspPorts, calls, crashed>>

\* BlueField does not implement network functions.
RegistryNf(c) ==
    /\ At(c, "registry") /\ shared /\ arg[c].op = "nf"
    /\ FallBack(c)
    /\ UNCHANGED <<setup, plugVars, bridgeVars, vspPorts, calls, crashed>>

\* DeleteBridgePort of the registry plugin.
RegistryDelete(c) ==
    LET p == arg[c].port IN
    /\ At(c, "registry") /\ shared /\ arg[c].op = "delete"
    /\ \/ /\ ~up
          /\ RegistryError(c) /\ UNCHANGED opiPorts
       \/ /\ up /\ "ports" \notin setup.opi
          /\ FallBack(c) /\ UNCHANGED opiPorts
       \/ /\ up /\ "ports" \in setup.opi /\ p \notin opiPorts
          /\ RegistryError(c) /\ UNCHANGED opiPorts
       \/ /\ up /\ "ports" \in setup.opi /\ p \in opiPorts
          /\ Return(c, "ok") /\ opiPorts' = opiPorts \ {p}
    /\ UNCHANGED <<setup, plugVars, up, logical, faults, vspPorts, calls,
                   crashed>>

\* CreateBridgePort of the registry plugin takes p.mu for reading and keeps
\* it until the port is created or an error is returned.
RegistryCreate(c) ==
    /\ At(c, "registry") /\ shared /\ arg[c].op = "create"
    /\ GoTo(c, "getBridge")
    /\ UNCHANGED <<setup, plugVars, bridgeVars, vspPorts, calls, crashed>>

\* Variant: a bridge that does not implement the service is asked again.
GetLogicalBridgeRetries(c) ==
    /\ At(c, "getBridge")
    /\ \/ ~up /\ RegistryError(c)
       \/ up /\ "getBridge" \notin setup.opi /\ GoTo(c, "getBridge")
       \/ up /\ "getBridge" \in setup.opi /\ logical /\ GoTo(c, "createPort")
       \/ up /\ "getBridge" \in setup.opi /\ ~logical /\ GoTo(c, "createBridge")
    /\ UNCHANGED <<setup, plugVars, bridgeVars, vspPorts, calls, crashed>>

\* ensureLogicalBridge: look for the logical bridge ...
GetLogicalBridge(c) ==
    /\ At(c, "getBridge")
    /\ \/ ~up /\ RegistryError(c)
       \/ up /\ "getBridge" \notin setup.opi /\ FallBack(c)
       \/ up /\ "getBridge" \in setup.opi /\ logical /\ GoTo(c, "createPort")
       \/ up /\ "getBridge" \in setup.opi /\ ~logical /\ GoTo(c, "createBridge")
    /\ UNCHANGED <<setup, plugVars, bridgeVars, vspPorts, calls, crashed>>

\* Variant: the port is created whatever became of the logical bridge.
CreateLogicalBridgeTries(c) ==
    /\ At(c, "createBridge")
    /\ logical' \in {logical, up \/ logical}
    /\ GoTo(c, "createPort")
    /\ UNCHANGED <<setup, plugVars, up, opiPorts, faults, vspPorts, calls,
                   crashed>>

\* ... and create it, although another goroutine may have done so since.
CreateLogicalBridge(c) ==
    /\ At(c, "createBridge")
    /\ \/ /\ up /\ "createBridge" \notin setup.opi
          /\ FallBack(c) /\ UNCHANGED logical
       \/ /\ up /\ "createBridge" \in setup.opi /\ (logical => IdempotentCreate)
          /\ logical' = TRUE /\ GoTo(c, "createPort")
       \/ /\ ~up \/ ("createBridge" \in setup.opi /\ logical /\ ~IdempotentCreate)
          /\ RegistryError(c) /\ UNCHANGED logical
    /\ UNCHANGED <<setup, plugVars, up, opiPorts, faults, vspPorts, calls,
                   crashed>>

CreatePort(c) ==
    LET p == arg[c].port IN
    /\ At(c, "createPort")
    /\ \/ /\ up /\ "ports" \notin setup.opi
          /\ FallBack(c) /\ UNCHANGED opiPorts
       \/ /\ up /\ "ports" \in setup.opi /\ (p \in opiPorts => IdempotentCreate)
          /\ opiPorts' = opiPorts \cup {p} /\ Return(c, "ok")
       \/ /\ ~up \/ (p \in opiPorts /\ ~IdempotentCreate)
          /\ RegistryError(c) /\ UNCHANGED opiPorts
    /\ UNCHANGED <<setup, plugVars, up, logical, faults, vspPorts, calls,
                   crashed>>

\* ensureConnected.
Connect(c) ==
    /\ At(c, "connect")
    /\ conn' = [conn EXCEPT ![arg[c].g] = TRUE]
    /\ GoTo(c, "vsp")
    /\ UNCHANGED <<setup, life, flag, tried, shared, closing, bridgeVars,
                   vspPorts, calls, crashed>>

\* The call on a client made by ensureConnected; a Close in between has set
\* the client to nil.  A VSP may or may not mind the deletion of a port that
\* it does not have.
CallVsp(c) ==
    LET p == arg[c].port
        op == arg[c].op IN
    /\ At(c, "vsp")
    /\ \/ /\ ~conn[arg[c].g]
          /\ crashed' = TRUE /\ Return(c, "err") /\ UNCHANGED vspPorts
       \/ /\ conn[arg[c].g] /\ op = "create"
          /\ vspPorts' = vspPorts \cup {p} /\ Return(c, "ok")
          /\ UNCHANGED crashed
       \/ /\ conn[arg[c].g] /\ op = "delete"
          /\ vspPorts' = vspPorts \ {p}
          /\ \E r \in {"ok", "err"} :
                (p \in vspPorts => r = "ok") /\ Return(c, r)
          /\ UNCHANGED crashed
       \/ /\ conn[arg[c].g] /\ op \notin PortOps
          /\ Return(c, "ok") /\ UNCHANGED <<vspPorts, crashed>>
    /\ UNCHANGED <<setup, plugVars, bridgeVars, calls>>

-----------------------------------------------------------------------------
(* Life of a GrpcPlugin                                                    *)

\* Detection makes a new GrpcPlugin and attaches the shared registry plugin.
Attach(g) ==
    /\ ~crashed /\ life[g] = "absent"
    /\ life' = [life EXCEPT ![g] = "open"]
    /\ flag' = [flag EXCEPT ![g] = FALSE]
    /\ tried' = [tried EXCEPT ![g] = FALSE]
    /\ UNCHANGED <<setup, shared, conn, closing, callVars, bridgeVars, vspPorts,
                   calls, crashed>>

\* The DPU is no longer detected: the main loop cancels the side manager and
\* closes the plugin; the side manager closes it too.
Remove(g) ==
    /\ ~crashed /\ life[g] = "open"
    /\ life' = [life EXCEPT ![g] = "removed"]
    /\ closing' = [x \in Plugins \X Closers |->
                    IF x[1] = g THEN "read" ELSE closing[x]]
    /\ UNCHANGED <<setup, flag, tried, shared, conn, callVars, bridgeVars,
                   vspPorts, calls, crashed>>

CloseAt(g, w, l) == ~crashed /\ closing[<<g, w>>] = l
CloseTo(g, w, l) == closing' = [closing EXCEPT ![<<g, w>>] = l]

\* Close reads registryInitialized under registryInitMutex ...
CloseRead(g, w) ==
    /\ CloseAt(g, w, "read")
    /\ CloseTo(g, w, IF flag[g] THEN "shutdown" ELSE "conn")
    /\ UNCHANGED <<setup, life, flag, tried, shared, conn, callVars, bridgeVars,
                   vspPorts, calls, crashed>>

\* Variant: Shutdown does not take p.mu.
CloseShutdownUnlocked(g, w) ==
    /\ CloseAt(g, w, "shutdown")
    /\ shared' = FALSE
    /\ CloseTo(g, w, "clear")
    /\ UNCHANGED <<setup, life, flag, tried, conn, callVars, bridgeVars, vspPorts,
                   calls, crashed>>

\* ... shuts the registry plugin down, which waits for p.mu ...
CloseShutdown(g, w) ==
    /\ CloseAt(g, w, "shutdown") /\ Readers = {}
    /\ shared' = FALSE
    /\ CloseTo(g, w, "clear")
    /\ UNCHANGED <<setup, life, flag, tried, conn, callVars, bridgeVars, vspPorts,
                   calls, crashed>>

\* Variant: registryInitialized is not reset.
CloseClearKeepsFlag(g, w) ==
    /\ CloseAt(g, w, "clear")
    /\ tried' = [tried EXCEPT ![g] = FALSE]
    /\ CloseTo(g, w, "conn")
    /\ UNCHANGED <<setup, life, flag, shared, conn, callVars, bridgeVars, vspPorts,
                   calls, crashed>>

\* ... forgets that it was initialized ...
CloseClear(g, w) ==
    /\ CloseAt(g, w, "clear")
    /\ flag' = [flag EXCEPT ![g] = FALSE]
    /\ tried' = [tried EXCEPT ![g] = FALSE]
    /\ CloseTo(g, w, "conn")
    /\ UNCHANGED <<setup, life, shared, conn, callVars, bridgeVars, vspPorts,
                   calls, crashed>>

\* ... and sets the clients to nil.
CloseConn(g, w) ==
    /\ CloseAt(g, w, "conn")
    /\ conn' = [conn EXCEPT ![g] = FALSE]
    /\ CloseTo(g, w, "done")
    /\ UNCHANGED <<setup, life, flag, tried, shared, callVars, bridgeVars,
                   vspPorts, calls, crashed>>

-----------------------------------------------------------------------------
(* The OPI bridge goes away and comes back; its contents survive.          *)

BridgeDown ==
    /\ ~crashed /\ up /\ faults < MaxBridgeFaults
    /\ up' = FALSE /\ faults' = faults + 1
    /\ UNCHANGED <<setup, plugVars, callVars, logical, opiPorts, vspPorts, calls,
                   crashed>>

BridgeUp ==
    /\ ~crashed /\ ~up
    /\ up' = TRUE
    /\ UNCHANGED <<setup, plugVars, callVars, logical, opiPorts, faults, vspPorts,
                   calls, crashed>>

CallStep(c) ==
    \/ Ensure(c) \/ RegistryClosed(c) \/ Discover(c) \/ SetVfs(c)
    \/ RegistryNf(c) \/ RegistryDelete(c) \/ RegistryCreate(c)
    \/ GetLogicalBridge(c) \/ CreateLogicalBridge(c) \/ CreatePort(c)
    \/ Connect(c) \/ CallVsp(c)

CloseStep(g, w) ==
    \/ CloseRead(g, w) \/ CloseShutdown(g, w) \/ CloseClear(g, w)
    \/ CloseConn(g, w)

Next ==
    \/ \E c \in Callers, g \in Plugins, op \in AllOps,
          p \in Ports \cup {NoPort} : Begin(c, g, op, p)
    \/ \E c \in Callers : CallStep(c)
    \/ \E g \in Plugins : RetryInterval(g) \/ Attach(g) \/ Remove(g)
    \/ \E g \in Plugins, w \in Closers : CloseStep(g, w)
    \/ BridgeDown
    \/ BridgeUp

Spec == Init /\ [][Next]_vars

\* Goroutines run and RPCs end (at the latest after callTimeout).
FairSpec ==
    /\ Spec
    /\ \A c \in Callers : WF_vars(CallStep(c))
    /\ \A g \in Plugins, w \in Closers : WF_vars(CloseStep(g, w))

-----------------------------------------------------------------------------
(* Properties                                                              *)

\* While CreateBridgePort of the registry plugin is between its check of
\* p.initialized and its last RPC, no Close shuts the plugin down: the
\* clients that it uses are those that it checked.
ClientOutlivesCreate == Readers # {} => shared

\* A GrpcPlugin that has the registry plugin to itself is right about it being
\* initialized, unless one of its Closes is between Shutdown and the reset of
\* registryInitialized.  Otherwise its bridge ports would fail for good, since
\* ensureRegistryInitialized would not initialize again.
FlagIsRight ==
    \A g \in Plugins :
        flag[g] /\ (\A w \in Closers : closing[<<g, w>>] # "clear") => shared

\* When DeleteBridgePort succeeds the port is gone, whichever path its
\* creation took.  The fallback is narrow enough that creation and deletion
\* of a port do not take different paths, whatever the bridge does between.
DeletedIsGone ==
    [][\A c \in Callers :
          /\ pc[c] # "idle" /\ arg[c].op = "delete"
          /\ pc'[c] = "idle" /\ res'[c] = "ok"
          => arg[c].port \notin opiPorts' \cup vspPorts']_vars

\* A bridge port is made on the OPI bridge only when the logical bridge that it
\* names is there, although several goroutines look for it and create it at once,
\* and the OPI bridge may be away in between.
PortOnBridge == opiPorts # {} => logical

\* Close ends, although Shutdown waits for p.mu, unless the process panics.
CloseEnds ==
    \A g \in Plugins, w \in Closers :
        closing[<<g, w>>] = "read" ~> (closing[<<g, w>>] = "done" \/ crashed)

\* "The registry plugin is used ... with safe fallback to the VSP gRPC path":
\* as the VSP is up, no call on a plugin in use fails.
SafeFallback ==
    [][\A c \in Callers :
          pc[c] # "idle" /\ pc'[c] = "idle" /\ res'[c] = "err"
          => life[arg[c].g] # "open"]_vars
=============================================================================
