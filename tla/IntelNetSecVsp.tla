--------------------------- MODULE IntelNetSecVsp ---------------------------
(***************************************************************************)
(* The vendor specific plugin of the Intel NetSec accelerator on the DPU.  *)
(* It keeps a VfDeviceInfo per VF and a service function chain in memory,  *)
(* and moves VFs and the peers of the network function's veth pairs on and *)
(* off an OVS bridge.  No lock protects it: gRPC runs every call in a      *)
(* goroutine of its own.                                                   *)
(*                                                                         *)
(* The daemon of the DPU calls Init until it succeeds, then SetNumVfs, and *)
(* then serves.  The host sends one bridge port call at a time, for the    *)
(* ADD and the DEL of its pods; a call whose caller dies goes on, so that  *)
(* it may overlap with later ones.  The network function's CNI requests    *)
(* run one at a time as well, beside the host's, and go on when the daemon  *)
(* dies.  Init and SetNumVfs are taken to end before a new daemon's begin.  *)
(*                                                                         *)
(* A VfDeviceInfo is <<v, g>>, made by the g-th SetNumVfs.  A port of the  *)
(* bridge is a name, and outlives the device that has it.                  *)
(***************************************************************************)
EXTENDS Naturals, FiniteSets

CONSTANTS
    NumVfs,        \* VFs that SetupDevices asks for (8 in the code)
    MaxFaults,     \* system calls that fail
    MaxLost,       \* deaths of the host's daemon during a call
    MaxRestarts,   \* restarts of the DPU's daemon
    MaxCrashes,    \* deaths of the VSP itself
    MaxTotal       \* all of these together

ASSUME ConstantsAssumption ==
    /\ NumVfs \in Nat \ {0}
    /\ MaxFaults \in Nat /\ MaxLost \in Nat
    /\ MaxRestarts \in Nat /\ MaxCrashes \in Nat /\ MaxTotal \in Nat

Vfs == 0 .. NumVfs - 1
InPair == NumVfs                   \* a veth pair stands for its peer, too
OutPair == NumVfs + 1
Pairs == {InPair, OutPair}
Links == Vfs \cup Pairs
Sfp == NumVfs + 2                  \* the VF of the external port
Gens == 0 .. MaxRestarts + 1       \* 0: no VfDeviceInfo
Slots == {1, 2}                    \* handlers of bridge port calls

VARIABLES
    \* memory of the VSP
    isDPUMode,
    chainMade,   \* serviceFunctionChains[0] exists
    cur,         \* vfDevs
    chain,       \* serviceFunctionChains[0].vfRepDevs
    alloc,       \* the VfDeviceInfos with Allocated = true
    known,       \* vethTunnelPairDevs
    call,        \* the handlers of bridge port calls
    \* kernel and OVS
    netdev,      \* VFs that exist
    up,          \* links that are up
    bridge,      \* names on the bridge
    ends,        \* where the NF end of a veth pair is
    \* daemons and pods
    boot,        \* the life-cycle call of the DPU's daemon
    nextVf,      \* the VF that SetNumVfs sets up next
    gen,         \* number of SetNumVfs so far
    pod,         \* pod[v]: the host pod that uses v
    nf, nfOk,    \* the network function and whether it was created
    raced,       \* VFs whose record cannot be trusted until SetNumVfs, veth
                 \* pairs made anew while a deletion was at work on them
    faults, lost, restarts, crashes

memory == <<isDPUMode, chainMade, cur, chain, alloc, known>>
kernel == <<netdev, up, bridge, ends>>
daemon == <<boot, nextVf, gen>>
budget == <<faults, lost, restarts, crashes>>
vars == <<memory, call, kernel, daemon, pod, nf, nfOk, raced, budget>>

NoCall == [op |-> "none", v |-> 0, live |-> FALSE, step |-> "lookup", g |-> 0]
Calls == [op : {"create", "delete"}, v : Vfs, live : BOOLEAN,
          step : {"lookup", "link", "ovs", "check", "write"}, g : Gens]

\* Every variable holds a value of its kind.
TypeOK ==
    /\ isDPUMode \in BOOLEAN /\ chainMade \in BOOLEAN
    /\ cur \in [Vfs -> Gens] /\ chain \in [Vfs -> Gens]
    /\ alloc \subseteq Vfs \X Gens
    /\ known \subseteq Pairs
    /\ call \in [Slots -> Calls \cup {NoCall}]
    /\ netdev \subseteq Vfs /\ up \subseteq Links
    /\ bridge \subseteq Links \cup {Sfp}
    /\ ends \in [Pairs -> {"none", "host", "pod"}]
    /\ boot \in {"begin", "veth0", "veth1", "external", "ovs", "sfp",
                 "reset", "create", "setup", "ready"}
    /\ nextVf \in 0 .. NumVfs /\ gen \in Gens
    /\ pod \in [Vfs -> {"none", "add", "up", "stale", "failed", "del"}]
    /\ nf \in {"none", "addIn", "addOut", "up", "delIn", "delInOvs", "delOut",
               "delOutOvs", "half"}
    /\ nfOk \in BOOLEAN
    /\ raced \subseteq Links
    /\ faults \in 0 .. MaxFaults /\ lost \in 0 .. MaxLost
    /\ restarts \in 0 .. MaxRestarts /\ crashes \in 0 .. MaxCrashes

Forgotten ==
    /\ isDPUMode' = FALSE /\ chainMade' = FALSE
    /\ cur' = [v \in Vfs |-> 0] /\ chain' = [v \in Vfs |-> 0]
    /\ alloc' = {} /\ known' = {}
    /\ call' = [c \in Slots |-> NoCall]

Init ==
    /\ isDPUMode = FALSE /\ chainMade = FALSE
    /\ cur = [v \in Vfs |-> 0] /\ chain = [v \in Vfs |-> 0]
    /\ alloc = {} /\ known = {}
    /\ call = [c \in Slots |-> NoCall]
    /\ netdev = {} /\ up = {} /\ bridge = {}
    /\ ends = [p \in Pairs |-> "none"]
    /\ boot = "begin" /\ nextVf = 0 /\ gen = 0
    /\ pod = [v \in Vfs |-> "none"]
    /\ nf = "none" /\ nfOk = FALSE /\ raced = {}
    /\ faults = 0 /\ lost = 0 /\ restarts = 0 /\ crashes = 0

-----------------------------------------------------------------------------
(* A step that works, and one in which a system call fails.                *)

Works == UNCHANGED budget
Disturbs == faults + lost + restarts + crashes < MaxTotal
Fault == /\ Disturbs /\ faults < MaxFaults /\ faults' = faults + 1
         /\ UNCHANGED <<lost, restarts, crashes>>

\* The handler of slot c goes on, or answers; an answer nobody waits for is
\* lost.  The DEL of a pod ignores what DeleteBridgePort returns.
Goto(c, step) == call' = [call EXCEPT ![c].step = step] /\ UNCHANGED pod
Reply(c, ok) ==
    /\ call' = [call EXCEPT ![c] = NoCall]
    /\ pod' = IF ~call[c].live THEN pod
              ELSE [pod EXCEPT ![call[c].v] =
                        IF @ = "del" THEN "none"
                        ELSE IF ok THEN "up" ELSE "failed"]

Handles(c, op, step) == call[c].op = op /\ call[c].step = step
InFlight(v) == {c \in Slots : call[c] # NoCall /\ call[c].v = v}
HostFree == \A c \in Slots : ~call[c].live

-----------------------------------------------------------------------------
(* The host: the ADD of a pod ends with CreateBridgePort, its DEL with     *)
(* DeleteBridgePort.  A pod whose ADD failed is deleted, too.              *)

Send(v, op, during) ==
    /\ HostFree
    /\ pod' = [pod EXCEPT ![v] = during]
    /\ \E c \in Slots :
         /\ call[c] = NoCall /\ \A d \in Slots : d < c => call[d] # NoCall
         /\ call' = [call EXCEPT ![c] =
                [op |-> op, v |-> v, live |-> TRUE, step |-> "lookup", g |-> 0]]
    /\ raced' = IF InFlight(v) = {} THEN raced ELSE raced \cup {v}
    /\ UNCHANGED <<memory, kernel, daemon, nf, nfOk, budget>>

AddPod(v) == boot = "ready" /\ pod[v] = "none" /\ Send(v, "create", "add")
DelPod(v) == boot = "ready" /\ pod[v] \in {"up", "stale", "failed"}
             /\ Send(v, "delete", "del")

\* Nobody serves the host's call while the daemon of the DPU starts.
AddPodUnserved(v) ==
    /\ boot # "ready" /\ HostFree /\ pod[v] = "none"
    /\ pod' = [pod EXCEPT ![v] = "failed"]
    /\ UNCHANGED <<memory, call, kernel, daemon, nf, nfOk, raced, budget>>
DelPodUnserved(v) ==
    /\ boot # "ready" /\ HostFree /\ pod[v] \in {"up", "stale", "failed"}
    /\ pod' = [pod EXCEPT ![v] = "none"]
    /\ UNCHANGED <<memory, call, kernel, daemon, nf, nfOk, raced, budget>>

\* The host sees the call fail when either daemon dies; the handler goes on.
Abandoned == [c \in Slots |-> [call[c] EXCEPT !.live = FALSE]]
CallFailed == [v \in Vfs |-> CASE pod[v] = "add" -> "failed"
                               [] pod[v] = "del" -> "none"
                               [] OTHER -> pod[v]]

HostDaemonDies ==
    /\ Disturbs /\ lost < MaxLost /\ lost' = lost + 1
    /\ ~HostFree /\ call' = Abandoned /\ pod' = CallFailed
    /\ UNCHANGED <<memory, kernel, daemon, nf, nfOk, raced,
                   faults, restarts, crashes>>

-----------------------------------------------------------------------------
(* CreateBridgePort                                                        *)

\* getConnectedVf, and the VF must not be allocated.
CreateLookup(c) ==
    LET v == call[c].v IN
    /\ Handles(c, "create", "lookup")
    /\ IF cur[v] = 0 \/ <<v, cur[v]>> \in alloc
       THEN Reply(c, FALSE)
       ELSE /\ call' = [call EXCEPT ![c].step = "link", ![c].g = cur[v]]
            /\ UNCHANGED pod
    /\ Works /\ UNCHANGED <<memory, kernel, daemon, nf, nfOk, raced>>

\* WaitForNetDevReady, then ifUpAndAddToBridge sets the link up.
CreateUp(c) ==
    LET v == call[c].v IN
    /\ Handles(c, "create", "link")
    /\ \/ v \in netdev /\ up' = up \cup {v} /\ Goto(c, "ovs") /\ Works
       \/ v \in netdev /\ Fault /\ Reply(c, FALSE) /\ UNCHANGED up
       \/ v \notin netdev /\ Works /\ Reply(c, FALSE) /\ UNCHANGED up
    /\ UNCHANGED <<memory, netdev, bridge, ends, daemon, nf, nfOk, raced>>

\* AddInterfaceToOvSBridge with --may-exist.
CreateAddPort(c) ==
    /\ Handles(c, "create", "ovs")
    /\ \/ bridge' = bridge \cup {call[c].v} /\ Goto(c, "check") /\ Works
       \/ Fault /\ Reply(c, FALSE) /\ UNCHANGED bridge
    /\ UNCHANGED <<memory, netdev, up, ends, daemon, nf, nfOk, raced>>

\* The chain must not have the VF; a nil chain would be a panic.
CreateCheck(c) ==
    /\ Handles(c, "create", "check") /\ chainMade
    /\ IF chain[call[c].v] # 0 THEN Reply(c, FALSE) ELSE Goto(c, "write")
    /\ Works /\ UNCHANGED <<memory, kernel, daemon, nf, nfOk, raced>>

MarkedNothing(v, g) == alloc
Marked(v, g) == alloc \cup {<<v, g>>}

CreateWrite(c) ==
    LET v == call[c].v IN
    /\ Handles(c, "create", "write")
    /\ chain' = [chain EXCEPT ![v] = call[c].g]
    /\ alloc' = Marked(v, call[c].g)
    /\ Reply(c, TRUE)
    /\ Works /\ UNCHANGED <<isDPUMode, chainMade, cur, known, kernel, daemon,
                            nf, nfOk, raced>>

-----------------------------------------------------------------------------
(* DeleteBridgePort                                                        *)

DeleteLookup(c) ==
    LET v == call[c].v IN
    /\ Handles(c, "delete", "lookup")
    /\ IF cur[v] = 0 THEN Reply(c, FALSE) ELSE Goto(c, "link")
    /\ Works /\ UNCHANGED <<memory, kernel, daemon, nf, nfOk, raced>>

\* ifDownAndDelFromBridge sets the link down first.
LinkStaysUp(l) == up
LinkDown(l) == up \ {l}

DeleteDown(c) ==
    LET v == call[c].v IN
    /\ Handles(c, "delete", "link")
    /\ \/ v \in netdev /\ up' = LinkDown(v) /\ Goto(c, "ovs") /\ Works
       \/ v \in netdev /\ Fault /\ Reply(c, FALSE) /\ UNCHANGED up
       \/ v \notin netdev /\ Works /\ Reply(c, FALSE) /\ UNCHANGED up
    /\ UNCHANGED <<memory, netdev, bridge, ends, daemon, nf, nfOk, raced>>

\* del-port fails for a name that is not on the bridge.
DeleteDelPort(c) ==
    LET v == call[c].v IN
    /\ Handles(c, "delete", "ovs")
    /\ \/ v \in bridge /\ bridge' = bridge \ {v} /\ Goto(c, "check") /\ Works
       \/ v \in bridge /\ Fault /\ Reply(c, FALSE) /\ UNCHANGED bridge
       \/ v \notin bridge /\ Works /\ Reply(c, FALSE) /\ UNCHANGED bridge
    /\ UNCHANGED <<memory, netdev, up, ends, daemon, nf, nfOk, raced>>

\* The object that the chain has is marked, not the one of vfDevs.
VfMarked(v) == <<v, cur[v]>> \in alloc
RepMarked(v) == <<v, chain[v]>> \in alloc

DeleteCheck(c) ==
    LET v == call[c].v IN
    /\ Handles(c, "delete", "check") /\ chainMade
    /\ IF chain[v] = 0 \/ ~RepMarked(v)
       THEN Reply(c, FALSE)
       ELSE /\ call' = [call EXCEPT ![c].step = "write", ![c].g = chain[v]]
            /\ UNCHANGED pod
    /\ Works /\ UNCHANGED <<memory, kernel, daemon, nf, nfOk, raced>>

DeleteWrite(c) ==
    LET v == call[c].v IN
    /\ Handles(c, "delete", "write")
    /\ alloc' = alloc \ {<<v, call[c].g>>}
    /\ chain' = [chain EXCEPT ![v] = 0]
    /\ Reply(c, TRUE)
    /\ Works /\ UNCHANGED <<isDPUMode, chainMade, cur, known, kernel, daemon,
                            nf, nfOk, raced>>

-----------------------------------------------------------------------------
(* The daemon of the DPU: Init, repeated until it succeeds.                *)

InitFails == boot' = "begin"

\* isDPUMode is set first; configureCommChannelIPs may fail.
InitBegin ==
    /\ boot = "begin" /\ isDPUMode' = TRUE
    /\ \/ Works /\ boot' = "veth0"
       \/ Fault /\ InitFails
    /\ UNCHANGED <<chainMade, cur, chain, alloc, known, call, kernel, nextVf,
                   gen, pod, nf, nfOk, raced>>

\* DestroyVethPair finds a pair by the name of its NF end, on the host.  The
\* name of the peer is taken if it does not.
PeerNeverTaken(p) == FALSE
PeerTakenOnHost(p) == ends[p] # "none"
PeerTaken(p) == ends[p] = "pod"

\* A DeleteNetworkFunction that has set the peer down and has not yet taken it
\* off the bridge.
Leaving(p) == nf = (IF p = InPair THEN "delInOvs" ELSE "delOutOvs")

\* CreateVethPair destroys the pair and makes a new one with both ends up.
\* LinkAdd fails when a name is taken.  After another failure the old pair is
\* there (LinkDel failed), or a new one that is not up, or none.
InitVeth(p, from, to) ==
    /\ boot = from
    /\ \/ /\ ~PeerTaken(p) /\ Works /\ boot' = to
          /\ ends' = [ends EXCEPT ![p] = "host"]
          /\ up' = up \cup {p}
          /\ known' = known \cup {p}
          /\ raced' = IF Leaving(p) THEN raced \cup {p} ELSE raced
       \/ /\ ~PeerTaken(p) /\ Fault /\ InitFails
          /\ \/ UNCHANGED <<ends, up>>
             \/ /\ \E e \in {"none", "host"} : ends' = [ends EXCEPT ![p] = e]
                /\ up' = up \ {p}
          /\ UNCHANGED <<known, raced>>
       \/ /\ PeerTaken(p) /\ Works /\ InitFails
          /\ UNCHANGED <<ends, up, known, raced>>
    /\ UNCHANGED <<isDPUMode, chainMade, cur, chain, alloc, call, netdev,
                   bridge, nextVf, gen, pod, nf, nfOk>>

\* setExternalPortNumVfs makes the VF of the external port anew.
InitExternal ==
    /\ boot = "external"
    /\ \/ Works /\ boot' = "ovs"
       \/ Fault /\ InitFails
    /\ UNCHANGED <<memory, call, kernel, nextVf, gen, pod, nf, nfOk, raced>>

ChainIfAny == chainMade
NewChain == TRUE

\* initOvSDataPlane: the chain is made anew, the bridge is kept.
InitOvs ==
    /\ boot = "ovs"
    /\ \/ /\ Works /\ boot' = "sfp"
          /\ chainMade' = NewChain /\ chain' = [v \in Vfs |-> 0]
       \/ Fault /\ InitFails /\ UNCHANGED <<chainMade, chain>>
    /\ UNCHANGED <<isDPUMode, cur, alloc, known, call, kernel, nextVf, gen,
                   pod, nf, nfOk, raced>>

InitSfp ==
    /\ boot = "sfp"
    /\ \/ Works /\ boot' = "reset" /\ bridge' = bridge \cup {Sfp}
       \/ Fault /\ InitFails /\ UNCHANGED bridge
    /\ UNCHANGED <<memory, call, netdev, up, ends, nextVf, gen, pod, nf, nfOk,
                   raced>>

-----------------------------------------------------------------------------
(* SetNumVfs; SetupDevices ignores its failure on a DPU, and the VFs that  *)
(* it did not reach keep the records they have.                            *)

SetNumVfsFails ==
    /\ boot' = "ready"
    /\ raced' = raced \cup {v \in Vfs : boot # "setup" \/ v >= nextVf}

\* A VSP that was restarted after Init is not in DPU mode.
ResetVfs ==
    /\ boot = "reset"
    /\ \/ /\ isDPUMode /\ Works /\ boot' = "create"
          /\ netdev' = {} /\ up' = up \ Vfs
          /\ UNCHANGED raced
       \/ /\ IF isDPUMode THEN Fault ELSE Works
          /\ SetNumVfsFails /\ UNCHANGED <<netdev, up>>
    /\ UNCHANGED <<memory, call, bridge, ends, nextVf, gen, pod, nf, nfOk>>

CreateVfs ==
    /\ boot = "create"
    /\ \/ /\ Works /\ boot' = "setup" /\ nextVf' = 0 /\ gen' = gen + 1
          /\ netdev' = Vfs /\ UNCHANGED raced
       \/ Fault /\ SetNumVfsFails /\ UNCHANGED <<netdev, nextVf, gen>>
    /\ UNCHANGED <<memory, call, up, bridge, ends, pod, nf, nfOk>>

AfterVf(v) == IF v + 1 = NumVfs THEN "ready" ELSE "setup"

\* setVlanIdsSpoofChkInternalPorts: finishVfSetup sets the link down, and the
\* VF gets a new VfDeviceInfo that is not allocated.
SetupVf ==
    LET v == nextVf IN
    /\ boot = "setup"
    /\ \/ /\ Works
          /\ up' = up \ {v}
          /\ cur' = [cur EXCEPT ![v] = gen]
          /\ raced' = IF InFlight(v) = {} THEN raced \ {v} ELSE raced
          /\ nextVf' = v + 1 /\ boot' = AfterVf(v)
       \/ Fault /\ SetNumVfsFails /\ UNCHANGED <<up, cur, nextVf>>
    /\ UNCHANGED <<isDPUMode, chainMade, chain, alloc, known, call, netdev,
                   bridge, ends, gen, pod, nf, nfOk>>

\* A new daemon calls Init again; pods that run do not hear of it.
DpuDaemonRestarts ==
    /\ boot = "ready" /\ Disturbs /\ restarts < MaxRestarts
    /\ restarts' = restarts + 1 /\ boot' = "begin"
    /\ call' = Abandoned
    /\ pod' = [v \in Vfs |-> IF pod[v] = "up" THEN "stale" ELSE CallFailed[v]]
    /\ UNCHANGED <<memory, kernel, nextVf, gen, nf, nfOk, raced,
                   faults, lost, crashes>>

\* The VSP dies: its memory and its calls are gone, the kernel stays as it is,
\* and nobody calls Init again unless it was in progress.
VspDies ==
    /\ Disturbs /\ crashes < MaxCrashes /\ crashes' = crashes + 1
    /\ Forgotten
    /\ pod' = CallFailed
    /\ boot' = CASE boot \in {"create", "setup"} -> "ready"
                 [] boot \in {"ready", "reset"} -> boot
                 [] OTHER -> "begin"
    /\ nf' = CASE nf \in {"addIn", "addOut"} -> "up"
               [] nf \in {"delIn", "delInOvs", "delOut", "delOutOvs"} -> "half"
               [] OTHER -> nf
    /\ UNCHANGED <<kernel, nextVf, gen, nfOk, raced, faults, lost, restarts>>

-----------------------------------------------------------------------------
(* The network function: both NF ends are moved to its pod, and then the   *)
(* peers are connected.  Its first DEL moves one end back and disconnects  *)
(* the peers.  The CNI handlers ignore what the VSP returns.               *)

nfRest == <<memory, call, daemon, pod>>
KnownPairs == known = Pairs

AddNf ==
    /\ boot = "ready" /\ nf = "none" /\ \A p \in Pairs : ends[p] = "host"
    /\ ends' = [p \in Pairs |-> "pod"]
    /\ nf' = "addIn"
    /\ Works /\ UNCHANGED <<nfRest, netdev, up, bridge, nfOk, raced>>

\* CreateNetworkFunction: ifUpAndAddToBridge for the peer of each pair.
CreateNf(p, from, to) ==
    /\ nf = from
    /\ \/ /\ KnownPairs /\ Works /\ nf' = to
          /\ up' = up \cup {p} /\ bridge' = bridge \cup {p}
          /\ nfOk' = (to = "up")
       \/ /\ IF KnownPairs THEN Fault ELSE Works
          /\ nf' = "up" /\ UNCHANGED <<bridge, nfOk>>
          /\ UNCHANGED up \/ (KnownPairs /\ up' = up \cup {p})
    /\ UNCHANGED <<nfRest, netdev, ends, raced>>

DelNf(p) ==
    /\ boot = "ready" /\ nf = "up"
    /\ ends' = [ends EXCEPT ![p] = "host"]
    /\ nf' = "delIn" /\ nfOk' = FALSE
    /\ Works /\ UNCHANGED <<nfRest, netdev, up, bridge, raced>>

\* DeleteNetworkFunction: ifDownAndDelFromBridge for the peer of each pair.
DeleteNfDown(p, from, to) ==
    /\ nf = from
    /\ \/ /\ KnownPairs /\ ends[p] # "none" /\ Works /\ nf' = to
          /\ up' = LinkDown(p) /\ raced' = raced \ {p}
       \/ /\ IF KnownPairs /\ ends[p] # "none" THEN Fault ELSE Works
          /\ nf' = "half" /\ UNCHANGED <<up, raced>>
    /\ UNCHANGED <<nfRest, netdev, bridge, ends, nfOk>>

DeleteNfPort(p, to) ==
    /\ Leaving(p)
    /\ \/ p \in bridge /\ Works /\ bridge' = bridge \ {p} /\ nf' = to
       \/ /\ IF p \in bridge THEN Fault ELSE Works
          /\ nf' = "half" /\ UNCHANGED bridge
    /\ UNCHANGED <<nfRest, netdev, up, ends, nfOk, raced>>

DelNfSecond ==
    /\ boot = "ready" /\ nf = "half"
    /\ ends' = [p \in Pairs |-> "host"]
    /\ nf' = "none"
    /\ Works /\ UNCHANGED <<nfRest, netdev, up, bridge, nfOk, raced>>

-----------------------------------------------------------------------------
HandlerStep(c) ==
    \/ CreateLookup(c) \/ CreateUp(c) \/ CreateAddPort(c) \/ CreateCheck(c)
    \/ CreateWrite(c)
    \/ DeleteLookup(c) \/ DeleteDown(c) \/ DeleteDelPort(c) \/ DeleteCheck(c)
    \/ DeleteWrite(c)

BootStep ==
    \/ InitBegin \/ InitVeth(InPair, "veth0", "veth1")
    \/ InitVeth(OutPair, "veth1", "external")
    \/ InitExternal \/ InitOvs \/ InitSfp
    \/ ResetVfs \/ CreateVfs \/ SetupVf

NfStep ==
    \/ CreateNf(InPair, "addIn", "addOut") \/ CreateNf(OutPair, "addOut", "up")
    \/ DeleteNfDown(InPair, "delIn", "delInOvs") \/ DeleteNfPort(InPair, "delOut")
    \/ DeleteNfDown(OutPair, "delOut", "delOutOvs") \/ DeleteNfPort(OutPair, "half")
    \/ DelNfSecond

HostStep(v) ==
    AddPod(v) \/ DelPod(v) \/ AddPodUnserved(v) \/ DelPodUnserved(v)

Next ==
    \/ \E v \in Vfs : HostStep(v)
    \/ \E c \in Slots : HandlerStep(c)
    \/ HostDaemonDies \/ DpuDaemonRestarts \/ VspDies
    \/ BootStep
    \/ AddNf \/ (\E p \in Pairs : DelNf(p)) \/ NfStep

\* Handlers and the daemon's start run on, and the pods of the host come and
\* go: one that failed is deleted, and its VF goes to another.
Fairness ==
    /\ \A c \in Slots : WF_vars(HandlerStep(c))
    /\ WF_vars(BootStep) /\ WF_vars(NfStep)
    /\ \A v \in Vfs : SF_vars(HostStep(v))

Spec == Init /\ [][Next]_vars /\ Fairness

-----------------------------------------------------------------------------
(* Properties                                                              *)

\* A pod of the host whose CreateBridgePort succeeded on the present VFs stays
\* connected, whatever calls for other VFs, network functions and deaths of the
\* VSP do; and its DEL finds the records it needs.  Exempt, until a SetNumVfs
\* makes the VF's record anew, are VFs on which two calls overlapped, since an
\* abandoned DeleteBridgePort may disconnect the next pod, and VFs that a failed
\* SetNumVfs did not reach.
PodConnected ==
    \A v \in Vfs : pod[v] = "up" /\ v \notin raced =>
        /\ v \in bridge /\ v \in up
        /\ chainMade => chain[v] = cur[v] /\ <<v, chain[v]>> \in alloc

\* "We want to make sure the interface is down before deleting it from the OvS
\* Bridge" (ifDownAndDelFromBridge): an interface leaves the bridge while it is
\* up only if two calls for its VF overlap, or if the Init of a new daemon makes
\* the veth pair anew between the two steps of a deletion.
DownBeforeLeaving ==
    [][\A l \in Links : l \in bridge /\ l \notin bridge'
                          => l \notin up' \/ l \in raced]_vars

\* serviceFunctionChains[0] exists whenever a handler indexes it: the VFs that
\* a lookup finds are made only after Init, and are forgotten with the chain.
ChainNotNil ==
    \A c \in Slots : call[c].step \in {"check", "write"} => chainMade

\* A network function that was connected stays so until its DEL: the Init of a
\* restarted daemon fails rather than take its veth pairs away.
NfConnected ==
    nf = "up" /\ nfOk => \A p \in Pairs : ends[p] = "pod"
                                          /\ p \in bridge \cap up

\* The daemon of the DPU comes up, except while a network function holds the
\* veth pairs: Init cannot succeed then, and the DEL that would free them needs
\* the CNI server, which starts after Init.
BootEnds == []<>(boot = "ready") \/ <>[](\E p \in Pairs : ends[p] = "pod")

\* No failed or lost call makes a VF unusable for good: as pods come and go,
\* one gets connected again, although a failed CreateBridgePort undoes nothing
\* and a failed DeleteBridgePort is ignored.  Overlapping calls for the VF and
\* a SetNumVfs that failed are the exceptions.
VfRecovers ==
    \A v \in Vfs :
        []<>(pod[v] = "up" \/ v \in raced \/ cur[v] = 0 \/ boot # "ready")

=============================================================================
