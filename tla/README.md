# TLA+ models of the DPU operator

The DPU operator runs data processing units (DPUs) in a Kubernetes cluster. This
directory holds TLA+ modules for its core logic, the TLC configurations that
model-check them, and proofs that TLAPS checks. `PROJECT.json` lists runs,
mutants, theorems, hazards and the source lines that each definition models.

Contents: 1 inventory, 2 plan, 3 `HostCni`, 4 `Daemon`, 5 `VendorPlugin`,
6 `NetworkFn`, 7 `Operator`, 8 `IntelNetSecVsp`, 9 `MarvellVsp`,
10 `ServiceFunctionChain`, 11 `HostDevices`, 12 `Detection`, 13 proofs, 14 results
that disagree with comments and documents, 15 what is not modelled.

To repeat a check: `tlc -config MCHostCni_disrupted.cfg MCHostCni` and so on;
for the proofs: `tlapm HostCniProofs.tla`, and likewise `DaemonProofs`,
`VendorPluginProofs`, `NetworkFnProofs`, `OperatorProofs`, `IntelNetSecVspProofs`,
`MarvellVspProofs` and `HostProofs`. All of them take about ten minutes.

## 1. Inventory

A cluster has one operator (controllers) and, on every node with a DPU or being
one, a daemon. The daemon of a host node attaches virtual functions (VFs) of the
DPU to pods and asks the daemon on the DPU, over gRPC, for a bridge port per VF.
The daemon on the DPU attaches network functions. Both talk to a vendor specific
plugin (VSP), a separate process behind a unix socket, or to a registry plugin
linked into the daemon.

| Component | State | Operations | Interacts with | Hard because |
|---|---|---|---|---|
| Daemon main loop (`internal/daemon/daemon.go`) | managed DPUs, readiness, error channel, goroutines | tick, remove DPU, start manager, synchronise CRs, label node, apply VF count, shutdown | detection, API server, side managers | goroutines fail and are cancelled while a tick or a shutdown is under way; 5 s timeout; restarts |
| Host side manager (`hostsidemanager.go`) | connection to the DPU, last ping, servers | start VSP, set up devices, listen, serve, CNI handlers, ping | CNI server, SR-IOV manager, VSP, DPU-side daemon | four servers under one wait group; two-sided attach |
| DPU side manager (`dpusidemanager.go`) | MACs per namespace, last ping, servers | CNI handlers for network functions, bridge ports, heartbeat | networkfn, VSP, host-side daemon | state in memory only |
| CNI server and shim (`dpu-cni/pkgs/cniserver`, `cni`) | one mutex | ADD, DEL | container runtime, handlers | the runtime gives up, repeats and reorders |
| SR-IOV manager (`dpu-cni/pkgs/sriov*`) | cached NetConf per container, allocation file per VF | CmdAdd, CmdDel | kernel, IPAM plugins | many steps, each may fail; undo in deferred functions; records survive crashes |
| Network functions (`dpu-cni/pkgs/networkfn`) | links in namespaces | CmdAdd, CmdDel | kernel, IPAM plugins, VSP | partial failure |
| Vendor plugin (`internal/daemon/plugin/vendorplugin.go`) | connection, initialisation flags | Start, Close, bridge ports, network functions, devices, VF count | VSP, registry plugins | falls back from one path to the other; shared plugin objects; no lock on the clients |
| Plugin registry (`pkg/plugin/registry.go`) | plugins by name and by device id | Register, Unregister, look-ups | detection, vendor plugin | two indexes to keep in step |
| Device plugin (`device-plugin`, `device-handler`) | devices known, gRPC server | ListAndWatch, Allocate, Listen, Serve, Stop, SetupDevices | kubelet, vendor plugin | order of send and cache update |
| Detection (`internal/platform`) | none | DetectAll | PCI bus, registry | identifiers must be unique and stable while reads fail and cards move |
| DpuOperatorConfig controller, renderer (`internal/controller`, `pkgs/render`) | tracked resources (memory only) | Reconcile, deletion, clean-up | API server | partial failure, restart |
| DataProcessingUnit controller | renderer per DPU | Reconcile | API server | clean-up of resources |
| DataProcessingUnitConfig controller | annotations on DPU CRs | Reconcile | daemon, through the CRs | several configurations for one DPU; lost annotations |
| ServiceFunctionChain controllers | pods per chain | Reconcile, deletion | API server | spec changes, requeue |
| Intel NetSec VSP, Marvell VSP | VFs, bridge ports, network functions, VLANs | gRPC services | kernel, OVS | concurrent calls without a lock |

What makes each component correct:

* Host CNI path: a pod that is believed to be attached stays attached, whatever
  late, repeated or failed requests of other pods do; nothing a pod held (VF,
  allocation, bridge port, address) is lost once it is gone; DEL terminates.
* Daemon: one manager per DPU, reachable through its sockets; CRs and label follow
  the hardware in the end; readiness tells the truth; failures are noticed; a
  shutdown ends.
* Vendor plugin: an operation reaches the device through one of the two paths as
  long as one of them works. Registry: both indexes agree.
* Device plugin: kubelet allocates only devices that exist. Controllers: what is
  created is removed; annotations agree with configurations.
* Detection: a card is one DPU under one name. VSPs: who was told to be connected is
  connected, and what failed can be tried again.

The hazards (`PROJECT.json`) name the lines at which these go wrong.

## 2. Plan

Modules in the order in which they were written; all are in place, and every
invariant and action property that a run checks is a theorem.

1. `HostCni`, `MCHostCni`, `HostCniProofs` - host CNI path; `VfLease` - what it
   promises, in five lines, which `HostCni` implements.
2. `Daemon`, `MCDaemon`, `DaemonProofs` - main loop and side managers.
3. `VendorPlugin`, `MCVendorPlugin`, `VendorPluginProofs` - GrpcPlugins of one
   vendor that share a registry plugin: initialisation, Close, fallback.
4. `NetworkFn`, `MCNetworkFn`, `NetworkFnProofs` - CNI path of the DPU with the MAC
   store and restarts of the daemon.
5. `Operator`, `MCOperator`, `OperatorProofs` - the DpuOperatorConfig and
   DataProcessingUnit controllers with the resource renderer.
6. `IntelNetSecVsp`, `MarvellVsp`, their MC modules and proof modules - the two VSPs
   with state.
7. `ServiceFunctionChain`, `MCServiceFunctionChain` - the reconcilers of operator and
   daemon. The part of its property that is not liveness is proved in `OperatorProofs`.
8. `HostDevices`, `MCHostDevices`, `HostProofs` - DataProcessingUnitConfigs, their controller,
   the override in the main loop, SetNumVfs of a VSP and the device plugin, composed
   in one module since the hazards lie between them.
9. `Registry`, the plugin registry, and `Detection`, which extends it by the detectors
   that ask it, `MCDetection`; proofs in `HostProofs`.

Every component has one or two runs: one that lets everything go wrong, with
properties that hold nevertheless or that say until when they hold, and where it
helps a calm or a fair one. `TypeOK` of every module was checked on the same
instances; for all ten it is a theorem (section 13). Instances have 2 or 3 of
what competes (pods for a VF, DPUs for the sockets, configurations for a DPU) and 1 or
2 faults, restarts and other disturbances.

## 3. HostCni

One module for the CNI path of the host, since the CNI server runs one request at a
time and the interesting state (disk, kernel, DPU) is shared by all requests.

State: the runtime's view (`rt`, `dev`, `netns`, `waiting`), the request that holds
`cniMutex` (`pc`, `sb`, `vf`, `res`), the kernel (`place`, `named`, `adm`: where the
netdev of a VF is, whether it has the pod's name, whose administrative settings it
carries), the disk (`cache` for the cached NetConf of a container, `lock` for the
allocation file of a VF), the DPU (`port`) and the IPAM plugin (`ips`).

Actions: `Acquire` takes the mutex. An ADD is `AddLoadConf` (LoadConf, GetNS),
`AddApply` (ApplyVFConfig), `AddSetup` (SetupVF), `AddIpam`, `AddSave` (SaveNetConf),
`AddLock` (SaveAllocatedPCI), `AddPort` (CreateBridgePort); `AddUndo` is what the
deferred functions do. A DEL is `DelLoad` (LoadConfFromCache), `DelIpam`, `DelReset`
(GetVfid, ResetVFConfig), `DelRelease` (GetNS, ReleaseVF), `DelUnlock`
(DeleteAllocatedPCI), `DelClean` (the deferred CleanCachedNetConf) and `DelPort`
(DeleteBridgePort). Every one of them may fail, as often as `MaxFaults` allows, and
leaves behind what the code leaves behind; which error reaches a deferred function
follows from the scopes of the Go variables `err`. `Crash` may happen between any
two steps. The runtime (`RunSandbox`, `GiveUp`, `StopSandbox`, `RemoveSandbox`,
`LoseNetns`) is the environment: it may reuse a VF, give up an ADD, repeat a DEL, and
lose a namespace before the DEL if `NetnsMayVanish`.

Abstractions: a sandbox stands for container id, namespace and interface name; a VF
for its PCI address and VF id; names, MACs and addresses have no values. A sandbox id
is used once. Configuration errors that every request would meet are left out.

| Run | Instance | Shows |
|---|---|---|
| `hostcni_disrupted` | 2 sandboxes, a netdev VF and a DPDK VF, a MAC, IPAM, 1 fault, 1 crash, vanishing namespaces, fair | `RunningAttached`, `LeaseSpec`, `LockOnlyByOwner`, `DelEventuallySucceeds` |
| `hostcni_calm` | 3 sandboxes, 2 VFs, no disturbance, symmetric sandboxes | `RunningConfigured`, `PortHasOwner`, `AddWaitsForDel` |

`VfLease` is the abstract specification: a VF is lent to one sandbox at a time and has
its bridge port for as long as it is lent. `HostCni` refines it with `users[v]` being
the sandboxes that run, in a namespace that exists, on `v`, and `plumbed` the ports on
the DPU (`LeaseSpec`). An ADD that returns is `Lend`, a stop or a lost namespace
`Return`, `AddPort` is `Plumb` and `DelPort` `Unplumb`; all other steps stutter. The
kubelet may well give a VF to two sandboxes at once: that only one of them gets to
run is what the allocation files and LoadConf have to see to.

Bounds: two sandboxes suffice for every conflict over a VF (an old and a new user),
the calm run has a third; a fault and a crash allow a request and its repetition to
fail. The proofs (section 13) do away with the bounds for all but
`DelEventuallySucceeds`. `RunningConfigured` holds only in calm behaviours: with a lost
namespace or a failing SaveAllocatedPCI, the DEL of an old sandbox resets the VF
under the new one. Deadlock is not checked, since the runtime stops when it has used
up its sandboxes.

Fairness (`FairSpec`): a handler that has the mutex goes on (its calls return); the
runtime repeats a failed DEL, as kubelet does; no request waits for the mutex for
ever, because a Go mutex is handed to a waiter that starves.

## 4. Daemon

State: the main loop (`phase`, `managed`, `mgr`, `cond`, `applied`, `todo`, `listed`,
`changed`, `closing`, `ready`), the routines that Serve waits for (`st` and others;
routine 0 is the readiness server, the others are side managers), the number of
errors in `errChan`, and the world: the DPUs present, the CRs of the node with their
condition and annotated VF counts, the VF count of each DPU, the routine that the
socket paths lead to, and the node's label.

A tick is `Tick` (DetectAll, new entries), `Remove` and `Removed` for each DPU that
is gone, `Manage` for each entry without manager, `SetConditions`, then SyncDpuCRs
(`SyncList`, `SyncSingleDpuCR`, `SyncOrphans`, `DeleteOrphan`, `EndSync`),
`UpdateNodeLabels`, `ApplyDesiredVfCount` and `MarkReady`. Errors that make Serve
return end the process without shutdown (`Exit`). `Shutdown` takes an error, forgets
the managed DPUs and goes through SyncDpuCRs, which removes all CRs, then cancels and
waits (`RoutinesStopped`). A side manager goes through `StartVsp`, `SetupDevices`,
`Listen` and Serve; `ServeFails` is the death of one of its four servers,
`ServeStopped` its reaction to a cancelled context, `RemoveSockets` the rest of the
goroutine that nobody waits for. `NilClient` is the data race between Close and a
call of the same plugin. The main context is never cancelled (`main` uses
`context.Background()`), so that case of the select is left out; SIGTERM is `Kill`.

| Run | Instance | Shows |
|---|---|---|
| `daemon_flapping` | 1 DPU (DPU side), 3 changes of presence, 4 faults, 1 kill, prompt managers | `OneManagerPerDpu`, `SocketsLeadToServing`, `ReadyMeansSynced` |
| `daemon_converge` | 1 DPU (host side), one of each disturbance, managers that may outlive the 5 s, fair | `ClusterConverges`, `ShutdownEnds`, no deadlock |

Bounds: three changes of presence remove, return and remove a DPU again; four faults
let a server and then the other three of a manager die; `MaxRoutines` is large enough
for every return in one process. `Prompt` states the timing assumption of
`daemon_flapping`: a cancelled manager stops within the 5 seconds that
updateManagedDpus waits, and its shutdown goroutine with it. Without it both
properties fail: the wait times out, the DPU returns, and two managers work on the
same sockets. With two DPUs on a node `SocketsLeadToServing` does not hold either,
since all managers use the same socket paths; hence the single DPU. Deadlock is not
checked in `daemon_flapping`, because the hang of section 14 is reachable there.

Fairness: goroutines are scheduled and their calls return, except that a VSP may
never come up (StartVsp is fair only once it is cancelled); kubelet restarts the
daemon; select picks at random among ready channels, so an error in `errChan` is
taken in the end (strong fairness of `Shutdown`).

## 5. VendorPlugin

GrpcPlugin in hybrid mode (`internal/daemon/plugin/vendorplugin.go`) with the
registry plugin of NVIDIA BlueField (`pkg/plugin/nvidia/bluefield.go`). The objects
that matter are shared: all GrpcPlugins of a vendor have one registry plugin, and
one GrpcPlugin is used by the main loop, the device handler and the CNI handlers.

State: of each GrpcPlugin whether it is in use (`life`), its `registryInitialized`
(`flag`), whether its last attempt is recent (`tried`) and its clients (`conn`); of
the registry plugin `initialized` (`shared`); where every call and every Close is
(`pc`, `arg`, `res`, `closing`); the contents of the OPI bridge and of the VSP. The
constant part `setup` says whether the endpoint is valid and whether the OPI bridge
implements bridge ports; Init takes every combination.

Actions: a call is `Begin` (requests without a port are refused), `Ensure`
(ensureRegistryInitialized), then on the registry path `Discover`, `SetVfs`,
`RegistryNf`, `RegistryDelete`, or `RegistryCreate`, `GetLogicalBridge`,
`CreateLogicalBridge` and `CreatePort`, which hold the plugin's lock for reading;
`RegistryClosed` is the answer of a plugin that is not initialised. The other path
is `Connect` and `CallVsp`, with the nil client after a Close in between. Close is
`CloseRead`, `CloseShutdown` (which takes the lock for writing), `CloseClear`,
`CloseConn`. `RetryInterval` is the end of the 30 seconds. `BridgeDown` and
`BridgeUp` are the environment.

Abstractions: an error is only an error; what a VSP says to the deletion of an
unknown port, and the OPI bridge to the creation of a known one
(`IdempotentCreate`), is left open. SetVFCount of BlueField does not look at the
device id it is given, so devices have no identity here.

| Run | Instance | Shows |
|---|---|---|
| `vendorplugin_single` | 1 GrpcPlugin, 2 callers, 2 calls of any kind, 1 failure of the OPI bridge, both Closes, fair | `FlagIsRight`, `ClientOutlivesCreate`, `PortOnBridge`, `DeletedIsGone`, `CloseEnds` |

Bounds: two calls are enough for a create and a delete that take different paths and
for two creates that race (both find no logical bridge and create it; `PortOnBridge`
says that a port never ends up without it); `Closers` are the two that exist. The proofs remove the
bounds for all but `CloseEnds`. Fairness: calls and Closes go on, since RPCs
end at the latest with their time limit. Deadlock is not checked: a panic or used-up
calls end a behaviour.

## 6. NetworkFn

The CNI path of the DPU: `dpu-cni/pkgs/networkfn/networkfn.go` and the handlers in
`dpusidemanager.go`. State: the runtime's view (`rt`, `dev`, `netns`), the request
that holds the mutex (`req`), every link with namespace, name, alias and state,
addresses, `macStore`, and the pairs that the VSP has connected (`nfs`). `tainted`,
`panicked`, `faults` and `crashes` are history.

An ADD is `FindLink`, `MoveLinkIn`, `IpamAdd`, `StoreMac`, a DEL `DelBegin`,
`IpamDel`, `MoveLinkOut`, `DropMac`; both end with `Reply`. The two functions that
move a link are one step each, whose result is one of a set: the link after all
calls (`MovedIn`, `MovedOut`), after a failing call and what the deferred functions
undo of the calls before (`MoveInErrors`, `MoveOutErrors`), or after a crash between
two calls (`MoveInCrashes`, `MoveOutCrashes`). That is sound because nothing else
touches a link while the mutex is held. A request meets at most one failing kernel
call, so undoing does not fail. The runtime adds the interfaces of a pod in order
and deletes them in any order; unless `Orderly`, it loses namespaces and kubelet
gives a link away before the DEL of its last user.

| Run | Instance | Shows |
|---|---|---|
| `networkfn_disrupted` | 2 pods that compete for 2 links, one of them by PCI address, IPAM for one pod, 1 fault, 1 crash, not orderly | `UpIsAttached`, `PanicOnlyAfterLoss`, `NfExact`, `DelGivesBack` |

`NfExact` and `DelGivesBack` are claims about the time before the first fault, crash
or loss (`Calm`); `UpIsAttached` holds always. Deadlock is not checked, since pods
are used once. A link has a fixed MAC and the pair of MACs identifies a network
function, as in the code.

## 7. Operator

One module for two controllers of the same shape; `kind`, chosen in Init, says which.
Sources: `dpuoperatorconfig_controller.go`, `dataprocessingunit_controller.go`,
`pkgs/render/render.go`. State: the CR (`life`, `uid`, its finalizers `fin` and `fg`,
its Ready condition), the resources (`state`, `owner`), the controller (`queue`,
`pc`, what it has read, the position in the manifests, `tracked`).

Reconcile is `Reconcile` (Get, then `ConfigStep` or `DpuStep`), `AddFinalizer`,
`InitializeStatus`, for each file `GetExisting` and `UpdateObject` or `CreateObject`,
then `UpdateStatus` or `VspEnsured`; on deletion `DeleteTracked` and `WaitDeleted` for
each resource from the last to the first, `CleanedUp` and `RemoveFinalizer`. An error
puts the CR back into the queue. The environment creates, edits and deletes CRs (in
the background or in the foreground), deletes and creates resources, lets them
terminate, collects garbage and restarts the operator, which forgets `tracked`.

Abstractions: a manifest is a name; the content of an object is its owner. A read
from the informer's cache that lags behind is covered by the CR changing right after
the read (`stale`), which makes updates of the CR fail as a conflict. The API server
refuses updates of pods whose defaulted fields are missing from the template
(`Immutable`), so the VSP pod of an old CR has to go before the new one has its own.
Images and directories by product name are left out.

| Run | Instance | Shows |
|---|---|---|
| `operator_deploy` | two steps with 2 and 1 resources or one VSP pod, 2 CRs in succession, 1 fault, 1 edit, 1 restart, fair | `ReadyMeansDeployed`, `FinalizerGuards`, `ReverseOrder`, `Converges` |

Bounds: two steps, one with two files, make an error skip the rest of a step and
not the next one; two CRs let a CR meet the resources of the one before. Fairness: the
work queue is served and retried, resources terminate, garbage is collected. The
safety properties stop at `tainted`: after a restart or a failed clean-up, which
forgets its resources all the same, or a change by somebody else. `Converges` does
not. Deadlock is not checked: without a CR nothing happens.

## 8. IntelNetSecVsp

The VSP of the Intel NetSec accelerator on the DPU (`intel-netsec/main.go`,
`common/vspnetutils.go`), between the DPU's daemon, the host's daemon and a network
function. State: the memory of the VSP (`vfDevs` as `cur`, the service function chain,
the `Allocated` flags, the known veth pairs, the handlers at work), the kernel and OVS
(`netdev`, `up`, `bridge`, `ends`), the daemon's progress (`boot`) and the pods. A
VfDeviceInfo is a VF and the number of the SetNumVfs that made it, because chain and
`vfDevs` may hold different objects for one VF. `raced` marks VFs whose records cannot
be trusted: two calls for them overlapped, or SetNumVfs failed before it came to them.

CreateBridgePort is `CreateLookup`, `CreateUp`, `CreateAddPort`, `CreateCheck`,
`CreateWrite`; DeleteBridgePort `DeleteLookup`, `DeleteDown`, `DeleteDelPort`,
`DeleteCheck`, `DeleteWrite`. Init is `InitBegin`, `InitVeth` for each pair,
`InitExternal`, `InitOvs`, `InitSfp`; SetNumVfs is `ResetVfs`, `CreateVfs` and `SetupVf`
for each VF. A network function is `AddNf`, `CreateNf` per pair, `DelNf`, `DeleteNf` per
pair, `DelNfSecond`; the CNI handlers of `NetworkFn` appear here as the moves of the NF
ends. `HostDaemonDies`, `DpuDaemonRestarts` and `VspDies` are the restarts. A host call
whose caller died goes on in its slot, which is how calls for one VF overlap: the CNI
mutex of the host admits one live call.

| Run | Instance | Shows |
|---|---|---|
| `intelnetsec_overlap` | 1 VF, 2 handlers, 1 fault, 1 lost caller, 1 restart, 1 crash, at most 2 of these, fair | `PodConnected`, `ChainNotNil`, `NfConnected`, `DownBeforeLeaving`, `BootEnds`, `VfRecovers` |

Bounds: VFs share nothing but the chain map and the bridge, whose entries are per VF,
so that one VF with two handlers has every conflict; two disturbances are enough for
an abandoned call and a restart. Fairness: handlers and start-up go on, and pods come
and go (strong, since the DPU's daemon may be away in between): the kubelet deletes a
pod that failed and uses its VF again. Nothing deadlocks.

What the runs say about the design: a restart of the DPU's daemon deletes and makes
all VFs anew, so running pods lose their connection without hearing of it (`stale`);
Init cannot succeed while a network function has its veth ends, and the CNI server
that would free them starts after Init (`BootEnds`); after a crash of the VSP nobody
calls Init again, and every VF is unknown until the daemon restarts.

## 9. MarvellVsp

The VSP of the Marvell Octeon on the DPU (`marvell/main.go`, `mrvl-utils`, `ovs-dp`).
A handler is a list of data plane commands, each of which may fail (`BpCommand`,
`NetCommand`), with steps on `networkStore` in between: `BpWrite`, `BpTest` for bridge
ports, `NetWrite`, `NetLoop`, `NetDone` for network functions. An update of
`networkStore` is one step or, in a race, a read and a write (`BpRead`, `NetRead`); `torn`
records that one was lost. The slice over which AddNetworkFunction walks shares its
array with `networkStore`, hence `Elements`. `StopVsp` is what follows a failed Init:
Stop and the goroutine of Serve both send to `done`, and the process panics or hangs.

OVS is external: `Possible` and `Effect` say which commands succeed and what they do.
del-flows without a MAC takes all rules of a port, so a DeleteBridgePort for a VF that
`networkStore` does not have deletes rules of others (`wiped`).

| Run | Instance | Shows |
|---|---|---|
| `marvell_steering` | 1 VF, 1 network function, 1 fault, 1 restart, 1 crash, 1 race, at most 2 of these, `networkStore` up to 2 entries, fair | `Steered`, `BootEnds`, `FailsForCause` |

Two VFs without disturbance were checked too, for the safety properties. A restart of
the DPU's daemon happens when no handler is at work. `isMacLearning` is true in the
code, which adds a NORMAL rule with priority 65535 that outranks all rules of this
model; `Steered` is about the rules being there. Deadlock is not checked: a VSP that
hangs is the end.

## 10. ServiceFunctionChain

Both reconcilers of a chain: the operator's (`servicefunctionchain_controller.go`) and
the daemon's (`sfc-reconciler/sfc.go`). Each makes its own pod for a network function,
under different names, so a chain has two pods per function. State: the CR with its
uid and functions, the resource name of the DpuOperatorConfig, the pods of both with
image, resource, owner, label and whether they terminate, the queue, and the Reconcile
that is under way with what it has read. `OperatorStart` to `OperatorPod` and
`DaemonStart`, `DaemonPod` are the reconcilers; a configuration that cannot be read counts
as the default, as in the code. `missed` collects the changes that no controller hears
of, since neither watches pods or the configuration.

| Run | Instance | Shows |
|---|---|---|
| `sfc_edits` | 1 function, 2 images, 2 resource names, up to 4 edits by users, 1 fault or restart, fair | `ChainConverges` |

Two functions were checked with fewer edits. `RestIsConverged` is the part of
`ChainConverges` that needs no fairness: when neither controllers nor garbage collector
nor kubelet has anything left to do (`AtRest`), the pods are those that the CR asks for
(`Converged`). It is proved (section 13); TLC found no violation with one function and
with two. Fairness: controllers, garbage collector
and kubelet; not the resync after ten hours. Along the way: the daemon never applies a
new image to its pod (createOrUpdatePod reads the old one over it) and never deletes
the pod of a removed function; it requeues for ever when the CR is gone.

## 11. HostDevices

From a DataProcessingUnitConfig to the kubelet, on a host: the controller of the
configurations (`ReconcileCfg`), the main loop (`TickFound`, `TickLost`, `ApplyRead`), the
side manager (`StartVsp`, `RegisterWithKubelet`), SetNumVfs in the VSP (`ResetVfs`, `CreateVfs`,
`ReloadVfs`, from the Marvell VSP) and the device plugin (`LwGet`, `LwSend`, `LwCache`,
`Allocates`). SetupDevices and the override run in two goroutines, so that two
SetNumVfs interleave; the kernel refuses to create VFs while there are others (`Busy`).
Daemon, VSP and kubelet may die.

| Run | Instance | Shows |
|---|---|---|
| `hostdevices_override` | 2 configurations, counts 1 and 3, 2 for SetupDevices, 2 edits, 2 disturbances, fair | `AllocateFinds`, `OverrideInForce`, `KubeletFollows` |

VFs are numbered from 1, so that a list of VFs is its length. A tick that has nothing
to do is left out, and the DPU is not lost while SetupDevices runs (`Daemon` has that
case). The properties name what goes wrong: an override that SetupDevices undoes is
not applied again, since AppliedVfCount says it is in force; a CR that is made anew
has no annotations until a configuration changes; nobody registers again with a
kubelet that was restarted; a failed SetupDevices on the host ends the daemon; a
failed Send stops the plugin's server for good; the annotation of a deleted
configuration stays.

## 12. Detection

`DetectAll` with its six detectors (`internal/platform`) and the plugin registry
(`pkg/plugin/registry.go`, module `Registry`) that three of them ask. The registry is
`plugins` and `deviceIndex`, with `Register`, `Unregister`, `Clear`, `GetByDeviceID`; a
device id is a number and the case it is written in. A scan is `NextDetector`, `IsDPU` for each PCI
function in turn, `GetDpuIdentifier`, and `Finish` (updateManagedDpus); `PlatformFails`
and `SerialFails` end the daemon. The serial number is found by walking the extended
capabilities (`Visited`), as the code does, and may fail at any of the two reads per
function. Cards come and go between any two reads.

| Run | Instance | Shows |
|---|---|---|
| `detection_settles` | an NVIDIA and a NetSec card with 2 ports each, a Marvell card, host or Marvell DPU; a plugin that claims a device of another; 1 fault, 1 plug, 2 registry calls, fair | `IndexExact`, `DetectionSettles` |

Two faults and two plugs passed as well. Fairness: the daemon's ticker and its calls.

## 13. Proofs

TLAPS proves the following for every value of the constants that satisfies the
`ConstantsAssumption` of the module: any sets of sandboxes, VFs, pods, links, DPUs,
plugins or network functions, any manifests, and any bounds on faults, crashes and
restarts. Type correctness (`Spec => []TypeOK`) is proved for all ten components:
`TypeCorrect` in each proof module, `DetectionTypeCorrect` in `HostProofs` and
`ChainTypeCorrect` in `OperatorProofs`. These two modules each hold the proofs of two
components that share no state; the second is an instance (`Det`, `Chain`) under its own
constants and variables, and what it assumes of its constants is then a hypothesis of
its theorems (`NodeOK`, `ChainOK`). Hypotheses beyond the
`ConstantsAssumption` are in the last column; they are the conditions under which the
run of the property works too, and sections 3, 4 and 14 say what goes wrong without them.

| Module | Theorem | Property | Assumes |
|---|---|---|---|
| `HostCniProofs` | `RunningStaysAttached` | `RunningAttached` | |
| | `LockIsOwned` | `LockOnlyByOwner` | |
| | `ImplementsLease` | `LeaseSpec`, the refinement of `VfLease` | |
| | `RunningStaysConfigured` | `RunningConfigured` | `Undisturbed`: no faults, crashes, lost namespaces |
| | `PortsHaveOwners` | `PortHasOwner` | `Undisturbed`, no sandbox asks for a MAC |
| | `AddBlocksUntilDel` | `AddWaitsForDel` | `Undisturbed` |
| `DaemonProofs` | `ManagersExclude` | `OneManagerPerDpu` | `Prompt` |
| | `SocketsStayWithServing` | `SocketsLeadToServing` | `Prompt`, one DPU |
| | `ReadyIsSynced` | `ReadyMeansSynced` | `Quiet`: no failed API call, no CR edited or deleted by others |
| `VendorPluginProofs` | `CreateKeepsClient` | `ClientOutlivesCreate` | |
| | `UnsharedFlagIsRight` | `FlagIsRight` | one plugin |
| | `PortsAreOnBridge` | `PortOnBridge` | |
| | `DeleteTakesThePath` | `DeletedIsGone` | |
| `NetworkFnProofs` | `UpStaysInPod` | `UpIsAttached` | |
| | `PanicNeedsLoss` | `PanicOnlyAfterLoss` | |
| | `FunctionsAreExact` | `NfExact` | |
| | `DeletedIsGivenBack` | `DelGivesBack` | |
| `OperatorProofs` | `ReadyIsDeployed` | `ReadyMeansDeployed` | |
| | `FinalizerHolds` | `FinalizerGuards` | |
| | `CleanupIsReverse` | `ReverseOrder` | |
| | `ChainRestsConverged` | `RestIsConverged`, the part of `ChainConverges` without fairness | |
| `IntelNetSecVspProofs` | `PodStaysConnected` | `PodConnected` | |
| | `ChainIsNotNil` | `ChainNotNil` | |
| | `NfStaysConnected` | `NfConnected` | |
| | `LinksLeaveDown` | `DownBeforeLeaving` | |
| `MarvellVspProofs` | `PodsAreSteered` | `Steered` | |
| | `FailureHasCause` | `FailsForCause` | |
| `HostProofs` | `AllocateKnowsDevices` | `AllocateFinds` | |
| | `IndexStaysExact` | `IndexExact` | `CompiledAssumption` of `Registry`: no two compiled-in plugins claim a device |

Hardly any of these properties is inductive: they speak of what the runtime, the
kubelet or a user sees and not of calls that are half done. Every proof module starts
from a strengthening, has one lemma per action (or per group of actions that leave the
same state alone) and combines them. TLC checked the strengthenings on instances
before they were proved.

**HostCni.** `IInv` adds to `RunningAttached` what every step of a handler may rely on.
`Issued`: a request comes from a sandbox that has a VF, none is outstanding for a
running sandbox, and no request waits behind another of its kind for the same sandbox.
`AddProgress`: a VF that CmdAdd has checked stays free until CmdAdd moves it, is in the
pod from then on, and the cached NetConf and the allocation file follow in this order.
`DelProgress`: the allocation file and the bridge port go only when the VF is back on
the host. `LockFollowsPlace`: the allocation file of a VF that is in a namespace names
that namespace or nothing; this is what keeps the late DEL of an old sandbox away from
the VF of a new one. The refinement follows from `IInv`: two users of a VF would both be
in its allocation file, and `DelPort` meets no user. For calm behaviours `CalmInv` adds
that a namespace lives as long as its sandbox, that a cached NetConf names the VF of its
container, and that whoever has one has the allocation file and the VF too
(`CacheHolds`), except while its own handler is at work: this is what makes IsAllocated
block the next user until the DEL of the last one.

**Daemon.** The heart is `Exclusive`: until a shutdown, a routine that may still touch
its DPU or its sockets is the manager of that DPU, and a DPU never has two. Such a
routine includes one that has ended but whose goroutine has yet to remove the sockets
(`sweep`): without it the statement is not preserved, because the sockets of the next
manager could be removed. With one DPU this gives `SocketsLeadToServing`. `Synced`
follows SyncDpuCRs: the DPUs that it has gone through have their CRs, and
orphans are not managed.

**VendorPlugin.** `IInv` adds that only creations are at the steps that hold the lock
(`ReadersCreate`), and that only a removed plugin is being closed (`CloseAfterRemove`):
Remove starts both Closes, and must not hide one that has shut the registry plugin down
and not yet reset the flag. `FlagIsRight` needs the condition of a single plugin: with
two, one shuts the registry plugin down under the other (section 14). `OnePath` says
that all calls for ports take the same path, whatever their number: ports are on the
OPI bridge if it implements them and on the VSP if not, and a `tried` plugin was
initialised or never can be. It does not need a single plugin.

**NetworkFn.** `UpIsAttached` rests on who may own a link (`PhaseOK`, `DevOK`, `OwnerOK`,
`ReqOK`: of two interfaces with one link, one is being deleted) and on what a request has
done so far (`LinkOK`). `PanicOnlyAfterLoss` needs a count: `AtMost` one MAC per interface
that was added, `AtLeast` one for each DEL that may still cut one off (`MacOK`). `CalmOK`
says, for as long as nothing has failed, where exactly each link, address and MAC is.

**Operator.** `AllTracked`: until the list is lost, every resource that exists is
tracked. `ReadOK`: the finalizer holds the DpuOperatorConfig that Reconcile works on, so
the CR that was read is still there and still the same. From these, `CleanOK` (nothing is
left behind the position of clean-up), `ConfigOK` (no finalizer, no resources; the
resources of a live CR are live and its own) and `AppliedOK` (as long as no step has
failed, the files before the position are deployed) are preserved.

**IntelNetSecVsp.** `ChainFirst`: the chain is made before a handler can reach it.
`NfProgress` follows the veth pairs, `CreateProgress` and `DeleteProgress` the two calls:
a call that is not `raced` works on the current VfDeviceInfo and finds the link and the
bridge as its last command left them. `UpIsQuiet` and `CallsOfHost`: the CNI mutex of the
host leaves no live call for the VF of a running pod.

**MarvellVsp.** Each of two handlers has a list of commands that it still has to give,
and CreateNetworkFunction walks over a slice of VFs that others change. `Rules` says of
every rule of a VF that it is on the bridge, or its command is in the list of one of the
handlers, or AddNetworkFunction has still to come to the VF (`Coming`); it holds from the
moment at which AddNetworkFunction has its slice (`Active`). That no rule falls between
the two handlers is the order that the code keeps: CreateBridgePort stores the VF before
it tests isNF (`Creating`), and CreateNetworkFunction sets isNF before it reads the VFs.
`Stored`: unless an update was lost, networkStore has the VFs of all connected pods, and
appends do not change the slice. `BpProgress` and `NetProgress` say what each list can
hold, so that no command deletes a rule of another VF (unless it is counted as `wiped`).
`Nameless`: a VSP that was not initialised since it started does not get past the first
command of a handler, which is why a crash in between does no harm.

**ServiceFunctionChain.** `Known`: as long as there is a CR, a controller has a function
as it should be (`Has`), or its Reconcile has still to come to it (`Visits`), or a request
is queued for it, or the change is one that it could not hear of (`missed`). It needs
`Current`, a Reconcile works on the CR as it is unless it will be called again, and
`OperatorOK`: the operator deletes no pod of the chain and knows the current resource
name, or its functions are `missed`. At rest there is no Reconcile and no request, which
leaves `Has`. `OwnersOK` gives the case without a CR: an owner is a CR that there was, so
pods that are not its own wait for the garbage collector.

**HostDevices.** `KnownDevices`: the kubelet has what the device plugin's cache has, or
nothing, and between Send and setDeviceCache what was sent; `InOrder` adds that a side
manager serves after SetupDevices has returned.

**Registry and Detection.** `IndexExact` is inductive. `DetectionTypeCorrect` needs no more than the types.

Only model-checked:

* liveness (`DelEventuallySucceeds`, `ClusterConverges`, `ShutdownEnds`, `CloseEnds`,
  `Converges`, `BootEnds`, `VfRecovers`, `ChainConverges`, `OverrideInForce`,
  `KubeletFollows`, `DetectionSettles`), which needs fairness and is out of the prover's
  reach;
* what `Visited` of `Detection` computes for every config space, which would need
  induction over data.

## 14. Where code and comments disagree

All runs check what holds. The following were found with the same modules and other
constants; the properties are defined in the modules.

* `NoCacheMeansReverted` (`HostCni`, 2 sandboxes, 1 VF with a MAC): a DEL with a MAC always fails once (the
  original MAC is never recorded), loses its cached NetConf and then succeeds without
  doing anything.
* `ShutdownEnds` (`Daemon`, 2 DPUs): cancelled side managers block on the
  full `errChan` and shutdown waits for them. By then the CRs are gone and the process
  does not restart.
* `FailureIsNoticed` (`Daemon`, 1 DPU, 1 fault): Serve of a side manager waits for its
  other servers after one has died.
* `SafeFallback` (`VendorPlugin`, 2 plugins, 2 callers): Close of one GrpcPlugin shuts down the
  registry plugin that another of the same vendor uses; the other gets an error and
  does not initialise it again.
* `FailedMoveUndone` (`NetworkFn`, 1 fault, orderly): some failing calls leave the link of a network
  function down, under a temporary name or in the pod.
* `AddWaitsForDel` with `NetnsMayVanish`: LoadConf blocks a new pod only while the old
  namespace exists. `PortHasOwner` likewise: CmdDel answers success without telling
  its caller to remove the bridge port, and nobody removes it later.
* `ReadyMeansSynced` with `MaxApiFaults = 1`: a failed create counts as no change.
* `SafeFallback` with one plugin and `MaxBridgeFaults = 1`: an error of the OPI bridge
  other than "not implemented" is returned although the VSP is up.
* `ReadyMeansDeployed` without its condition on `tainted`: after a lost or failed
  clean-up the next CR adopts resources that are terminating.
* `panicked = {}` and DELs that end, in `NetworkFn` with a crash or a lost reply: the DEL
  handler cuts a MAC off an empty list (the HTTP server recovers), and a DEL whose reply
  was lost fails whenever it is repeated, since the link is no longer in the pod.
* A VF count that was applied while the side manager starts is overwritten by
  SetupDevices (`HostDevices`, `OverrideInForce` without its exceptions).
* `CountedOnce` (`Detection`, `Space <- McSpaceSecond`, no disturbance):
  readDeviceSerialFromConfig multiplies the next pointer, which counts bytes, by four
  (platform.go:159), so a serial number that is not in the first capability is not
  found. NVIDIA, xSight and MangoBoost cards then count once per port, against "avoid
  counting multi-port devices multiple times" (nvidia-bf.go:90), and a NetSec card ends
  the daemon.
* NetSec DPUs get the registry plugin of the IPU, since both have the vendor "intel"
  (`Vendor` in `Detection`). The identifiers of NVIDIA, xSight and MangoBoost on the DPU
  side have underscores and upper case, which Kubernetes does not allow in names.

## 15. Not modelled

`PROJECT.json` lists every component. Left out for good: formats (CNI JSON, logs,
YAML templates, labels, the sanitising of names), the mock VSP, the OPI client,
webhooks and injector start-up, metrics and path helpers, which have no state of
their own; generated code and test clusters; the heartbeat loop, which is a comparison
of clock times and appears in `Daemon` as a free choice; the registry plugins of Intel,
Marvell, xSight and MangoBoost, which keep an `initialized` flag and a cache of scanned
devices and answer all eight network operations with `ErrNotImplemented`; DPDK mode of the Marvell VSP, which is compiled out; the host
side of the Intel VSP beyond what `HostDevices` has of the Marvell one.
