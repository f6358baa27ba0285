---------------------------- MODULE HostDevices ----------------------------
(***************************************************************************)
(* The VFs of a DPU on the host, from the user's wish to the kubelet.      *)
(*                                                                         *)
(* A DataProcessingUnitConfig asks for a number of VFs; its controller     *)
(* writes that as an annotation on the DPU's CR, and the main loop of the  *)
(* daemon reads it there and calls SetNumVfs, unless AppliedVfCount says   *)
(* that this was done.  The side manager calls SetNumVfs with a number of  *)
(* its own when it starts, in a goroutine beside the main loop.  The VSP   *)
(* serves both calls at once, and calls of a daemon that is gone: it       *)
(* resets the VFs, creates them, and reads them into its deviceStore.      *)
(* Every five seconds ListAndWatch takes the devices to the kubelet: the   *)
(* ones that the plugin of the registry finds on the PCI bus or, if it     *)
(* finds none or there is no plugin, those of the deviceStore.             *)
(*                                                                         *)
(* VFs are numbered from 1, and the PF is 0.                               *)
(***************************************************************************)
EXTENDS Naturals, FiniteSets, Sequences

CONSTANTS
    Configs,         \* DataProcessingUnitConfigs
    Counts,          \* numbers of VFs that they ask for
    SetupVfCount,    \* the number that SetupDevices asks for (8 in the code)
    Scans,           \* the DPU's vendor has a registry plugin, and it initialises
    MaxEdits,        \* edits of the configs
    MaxEvents,       \* calls that fail, and things that die
    MaxLate,         \* calls of former daemons that the VSP still serves
    Window           \* lists on their way to the kubelet before Send waits

ASSUME ConstantsAssumption ==
    /\ Counts \subseteq Nat \ {0} /\ SetupVfCount \in Nat \ {0} /\ Scans \in BOOLEAN
    /\ MaxEdits \in Nat /\ MaxEvents \in Nat
    /\ MaxLate \in Nat /\ Window \in Nat \ {0}

Callers == {"setup", "apply"}
NoCall == [step |-> "none", count |-> 0]
NoCfg == [is |-> FALSE, vf |-> 0]

VARIABLES
    cfg,         \* cfg[k]: whether it exists, and its number; 0 if it has none
                 \* or does not select this DPU
    queue,       \* configs whose Reconcile is due
    dpuCR,       \* the DPU's CR exists
    ann,         \* ann[k]: annotation for k on it, 0 if there is none
    missed,      \* configs whose annotation was lost with a CR
    managed,     \* the daemon manages the DPU
    applied,     \* AppliedVfCount, 0 if nil
    tick,        \* applyDesiredVfCounts in the main loop
    mgr,         \* the side manager
    call,        \* SetNumVfs in the VSP
    late,        \* the same, for daemons that are gone
    vfs,         \* VFs in the kernel
    store,       \* deviceStore of the VSP: VFs 1 .. store
    undone,      \* sriov_numvfs was written after AppliedVfCount was set
    lw, got,     \* ListAndWatch and the list it has
    wire,        \* lists on their way to the kubelet
    cache,       \* the devices that Allocate knows
    registered,  \* the kubelet has a stream from the device plugin
    kubelet,     \* devices that the kubelet knows
    edits, events

control == <<cfg, queue, dpuCR, ann, missed>>
loop == <<managed, applied, tick>>
vsp == <<call, late, vfs, store, undone>>
plugin == <<lw, got, wire, cache, registered, kubelet>>
vars == <<control, loop, mgr, vsp, plugin, edits, events>>

Init ==
    /\ cfg = [k \in Configs |-> NoCfg] /\ queue = {}
    /\ dpuCR = FALSE /\ ann = [k \in Configs |-> 0] /\ missed = {}
    /\ managed = FALSE /\ applied = 0 /\ tick = "idle" /\ mgr = "off"
    /\ call = [c \in Callers |-> NoCall]
    /\ late = <<>> /\ vfs = 0 /\ store = 0 /\ undone = FALSE
    /\ lw = "off" /\ got = {} /\ wire = <<>> /\ cache = {}
    /\ registered = FALSE /\ kubelet = {}
    /\ edits = 0 /\ events = 0

Works == UNCHANGED <<edits, events>>
Event == events < MaxEvents /\ events' = events + 1 /\ UNCHANGED edits

-----------------------------------------------------------------------------
(* Users and the controller of the configs.                                *)

EditCfg(k) ==
    /\ edits < MaxEdits /\ edits' = edits + 1
    /\ \E c \in {NoCfg} \cup [is : {TRUE}, vf : Counts \cup {0}] :
          c # cfg[k] /\ cfg' = [cfg EXCEPT ![k] = c]
    /\ queue' = queue \cup {k}
    /\ UNCHANGED <<dpuCR, ann, missed, loop, mgr, vsp, plugin, events>>

\* The annotation of a config that was deleted stays.
Annotated(k) == IF cfg[k].is /\ dpuCR THEN [ann EXCEPT ![k] = cfg[k].vf] ELSE ann

\* An update that fails is tried again.
ReconcileCfg(k) ==
    /\ k \in queue
    /\ \/ /\ Works /\ queue' = queue \ {k}
          /\ ann' = Annotated(k)
          /\ missed' = IF dpuCR THEN missed \ {k} ELSE missed
       \/ Event /\ UNCHANGED <<queue, ann, missed>>
    /\ UNCHANGED <<cfg, dpuCR, loop, mgr, vsp, plugin>>

-----------------------------------------------------------------------------
(* The main loop of the daemon.                                            *)

NewCR == dpuCR' = TRUE /\ ann' = [k \in Configs |-> 0]
         /\ missed' = {k \in Configs : cfg[k].is}
NoCR == dpuCR' = FALSE /\ ann' = [k \in Configs |-> 0] /\ UNCHANGED missed

\* A DPU that is detected is managed, with a side manager, and has a CR.  A tick
\* that has nothing to do is left out.
TickFound ==
    /\ tick = "idle"
    /\ ~managed \/ ~dpuCR \/ applied = 0 \/ applied \notin {ann[k] : k \in Configs}
    /\ managed' = TRUE /\ tick' = "apply"
    /\ mgr' = IF mgr = "off" THEN "start" ELSE mgr
    /\ IF dpuCR THEN UNCHANGED <<dpuCR, ann, missed>> ELSE NewCR
    /\ Works /\ UNCHANGED <<cfg, queue, applied, vsp, plugin>>

\* The server of the device plugin ends, and the kubelet notices.
PluginEnds ==
    /\ lw' = "off" /\ got' = {} /\ wire' = <<>> /\ cache' = {}
    /\ registered' = FALSE /\ kubelet' = {}

\* One that is not is forgotten: its side manager stops and its CR is deleted.
TickLost ==
    /\ tick = "idle" /\ managed /\ mgr \notin {"setup"} /\ Event
    /\ managed' = FALSE /\ applied' = 0 /\ undone' = FALSE /\ mgr' = "off"
    /\ NoCR /\ PluginEnds
    /\ UNCHANGED <<cfg, queue, tick, call, late, vfs, store>>

\* desiredVfCountFromAnnotations: the number that all annotations agree on.
Desired == {ann[k] : k \in Configs} \ {0}
InForceIfAny(n) == applied # 0
InForce(n) == applied = n

ApplyRead ==
    /\ tick = "apply"
    /\ \/ /\ Works
          /\ IF Cardinality(Desired) = 1 /\ \E n \in Desired : ~InForce(n)
             THEN /\ tick' = "rpc"
                  /\ call' = [call EXCEPT !["apply"] =
                        [step |-> "reset", count |-> CHOOSE n \in Desired : TRUE]]
             ELSE tick' = "idle" /\ UNCHANGED call
       \/ Event /\ tick' = "idle" /\ UNCHANGED call
    /\ UNCHANGED <<control, managed, applied, mgr, late, vfs, store, undone, plugin>>

-----------------------------------------------------------------------------
(* The side manager starts the VSP, which forgets its deviceStore, sets up *)
(* the devices, listens on the socket of the device plugin and registers   *)
(* with the kubelet.                                                       *)

StartVsp ==
    /\ mgr = "start" /\ mgr' = "setup"
    /\ store' = 0
    /\ call' = [call EXCEPT !["setup"] = [step |-> "reset", count |-> SetupVfCount]]
    /\ Works /\ UNCHANGED <<control, loop, late, vfs, undone, plugin>>

RegisterWithKubelet ==
    /\ mgr = "listen" /\ mgr' = "serving"
    /\ registered' = TRUE /\ lw' = "idle" /\ got' = {} /\ cache' = {}
    /\ Works /\ UNCHANGED <<control, loop, vsp, wire, kubelet>>

\* The calls cs of the daemon go on in the VSP, and nobody waits for them.
Running(cs, c) == IF c \in cs /\ call[c].step # "none" THEN <<call[c]>> ELSE <<>>

Abandon(cs) ==
    /\ late' = late \o Running(cs, "setup") \o Running(cs, "apply")
    /\ Len(late') <= MaxLate
    /\ call' = [c \in Callers |-> NoCall]

\* The daemon exits, with its CRs deleted or, in a crash, left.
Exit(clean) ==
    /\ managed' = FALSE /\ applied' = 0 /\ undone' = FALSE
    /\ tick' = "idle" /\ mgr' = "off"
    /\ IF clean THEN NoCR ELSE UNCHANGED <<dpuCR, ann, missed>>
    /\ PluginEnds
    /\ UNCHANGED <<cfg, queue>>

DaemonDies ==
    /\ mgr # "off" /\ Event
    /\ Abandon(Callers)
    /\ \E clean \in BOOLEAN : Exit(clean)
    /\ UNCHANGED <<vfs, store>>

-----------------------------------------------------------------------------
(* SetNumVfs of the VSP on the host: a step of a call k that goes on with  *)
(* step next.                                                              *)

\* sriov_numvfs is written 0, and then the number, which the kernel refuses if
\* there are VFs.  reloadVFs reads what there is.
ResetVfs(k, next) ==
    /\ k.step = "reset"
    /\ \/ Works /\ next = "set" /\ vfs' = 0
       \/ Event /\ next = "failed" /\ UNCHANGED vfs
    /\ UNCHANGED store

Busy(n) == vfs # 0 /\ vfs # n

CreateVfs(k, next) ==
    /\ k.step = "set"
    /\ \/ ~Busy(k.count) /\ Works /\ next = "reload" /\ vfs' = k.count
       \/ /\ IF Busy(k.count) THEN Works ELSE Event
          /\ next = "failed" /\ UNCHANGED vfs
    /\ UNCHANGED store

ReloadVfs(k, next) ==
    /\ k.step = "reload"
    /\ \/ Works /\ store' = vfs /\ next = IF vfs = k.count THEN "ok" ELSE "failed"
       \/ Event /\ UNCHANGED store /\ next = "failed"
    /\ UNCHANGED vfs

SetNumVfs(k, next) ==
    ResetVfs(k, next) \/ CreateVfs(k, next) \/ ReloadVfs(k, next)

Undone(next) == undone' = (undone \/ (applied # 0 /\ next \in {"set", "reload"}))

\* SetupDevices that fails ends the daemon, and the override in the VSP goes on;
\* an override that fails is tried again.
Answer(c, ok) ==
    \/ /\ c = "apply"
       /\ call' = [call EXCEPT !["apply"] = NoCall] /\ tick' = "idle"
       /\ applied' = IF ok THEN call["apply"].count ELSE applied
       /\ undone' = (undone /\ ~ok)
       /\ UNCHANGED <<control, plugin, managed, mgr, late>>
    \/ /\ c = "setup" /\ ok
       /\ call' = [call EXCEPT !["setup"] = NoCall] /\ mgr' = "listen"
       /\ UNCHANGED <<control, plugin, loop, undone, late>>
    \/ /\ c = "setup" /\ ~ok
       /\ Abandon({"apply"})
       /\ Exit(TRUE)

VspStep(c) ==
    \/ \E next \in {"set", "reload"} :
          /\ SetNumVfs(call[c], next) /\ Undone(next)
          /\ call' = [call EXCEPT ![c].step = next]
          /\ UNCHANGED <<control, plugin, loop, mgr, late>>
    \/ \E next \in {"ok", "failed"} :
          SetNumVfs(call[c], next) /\ Answer(c, next = "ok")

\* Nobody gets the answer of a late call.
LateStep(i) ==
    /\ i \in DOMAIN late
    /\ \E next \in {"set", "reload", "ok", "failed"} :
          /\ SetNumVfs(late[i], next) /\ Undone(next)
          /\ late' = IF next \in {"set", "reload"} THEN [late EXCEPT ![i].step = next]
                     ELSE SubSeq(late, 1, i - 1) \o SubSeq(late, i + 1, Len(late))
    /\ UNCHANGED <<control, plugin, loop, mgr, call>>

\* The VSP forgets its deviceStore, and the calls it serves fail.
VspDies ==
    /\ mgr # "start" /\ Event
    /\ store' = 0 /\ late' = <<>>
    /\ call' = [c \in Callers |-> NoCall]
    /\ \/ mgr = "setup" /\ Exit(TRUE)
       \/ /\ mgr # "setup"
          /\ tick' = IF tick = "rpc" THEN "idle" ELSE tick
          /\ UNCHANGED <<control, plugin, managed, applied, undone, mgr>>
    /\ UNCHANGED <<vfs>>

-----------------------------------------------------------------------------
(* The device plugin and the kubelet.                                      *)

\* The devices of the PCI bus, the PF among them and under names of their own,
\* and those of a deviceStore with n VFs.
OnBus(n) == {<<"pci", i>> : i \in 0 .. n}
Stored(n) == {<<"vsp", i>> : i \in 1 .. n}

\* What GetDevices of the GrpcPlugin answers.
Listed == IF Scans THEN OnBus(vfs) ELSE Stored(store)

\* devicesEqual compares lists, and not only how many devices there are.
ChangedOnce(l) == got = {} /\ l # {}
Changed(l) == l # got

\* GetDevices, which asks the VSP when the scan finds nothing, and sendDevices if
\* the list is not what was sent before.  A failure of GetDevices ends the
\* stream; the loop does not notice when the kubelet ends it.
LwGet ==
    /\ mgr = "serving" /\ lw = "idle"
    /\ \/ \E l \in {Listed, Stored(store)} :
             /\ Changed(l) /\ IF l = Listed THEN Works ELSE Event
             /\ got' = l /\ lw' = "got" /\ UNCHANGED <<wire, registered, kubelet>>
       \/ /\ Event /\ lw' = "off"
          /\ registered' = FALSE /\ kubelet' = {} /\ wire' = <<>> /\ got' = {}
    /\ UNCHANGED <<control, loop, mgr, vsp, cache>>

\* Send waits for room, not for receipt.  If it fails the server is stopped.
LwSend ==
    /\ lw = "got"
    /\ \/ /\ registered /\ Len(wire) < Window /\ Works
          /\ wire' = Append(wire, got) /\ lw' = "sent"
          /\ UNCHANGED <<mgr, got, registered, kubelet>>
       \/ /\ IF registered THEN Event ELSE Works
          /\ wire' = <<>> /\ registered' = FALSE /\ kubelet' = {}
          /\ lw' = "off" /\ got' = {} /\ mgr' = "deaf"
    /\ UNCHANGED <<control, loop, vsp, cache>>

CachedBefore == cache
Cached == got

LwCache ==
    /\ lw = "sent" /\ lw' = "idle"
    /\ cache' = Cached
    /\ Works /\ UNCHANGED <<control, loop, mgr, vsp, got, wire, registered, kubelet>>

KubeletReceives ==
    /\ wire # <<>>
    /\ kubelet' = Head(wire) /\ wire' = Tail(wire)
    /\ Works /\ UNCHANGED <<control, loop, mgr, vsp, lw, got, cache, registered>>

\* Nobody registers again with a kubelet that was restarted.
KubeletRestarts ==
    /\ registered /\ Event
    /\ registered' = FALSE /\ kubelet' = {} /\ wire' = <<>>
    /\ UNCHANGED <<control, loop, mgr, vsp, lw, got, cache>>

\* Allocate refuses a device that is not in the cache.
Allocates(d) == d \in cache

-----------------------------------------------------------------------------
LoopStep == TickFound \/ ApplyRead
MgrStep == StartVsp \/ RegisterWithKubelet
LwStep == LwGet \/ LwSend \/ LwCache

Next ==
    \/ \E k \in Configs : EditCfg(k) \/ ReconcileCfg(k)
    \/ LoopStep \/ TickLost \/ MgrStep \/ DaemonDies
    \/ \E c \in Callers : VspStep(c)
    \/ \E i \in 1 .. MaxLate : LateStep(i)
    \/ LwStep \/ KubeletReceives \/ KubeletRestarts \/ VspDies

\* All processes run on.
Fairness ==
    /\ \A k \in Configs : WF_vars(ReconcileCfg(k))
    /\ WF_vars(LoopStep) /\ WF_vars(MgrStep) /\ WF_vars(LwStep) /\ WF_vars(KubeletReceives)
    /\ \A c \in Callers : WF_vars(VspStep(c))
    /\ \A i \in 1 .. MaxLate : WF_vars(LateStep(i))

Spec == Init /\ [][Next]_vars /\ Fairness

-----------------------------------------------------------------------------
(* Properties                                                              *)

\* Every variable holds a value of its kind.
VfCounts == Counts \cup {SetupVfCount, 0}
Lists == {OnBus(n) : n \in VfCounts} \cup {Stored(n) : n \in VfCounts}
SetNumVfsCalls == [step : {"none", "reset", "set", "reload"}, count : VfCounts]

TypeOK ==
    /\ cfg \in [Configs -> [is : BOOLEAN, vf : Counts \cup {0}]]
    /\ queue \subseteq Configs /\ missed \subseteq Configs
    /\ dpuCR \in BOOLEAN /\ managed \in BOOLEAN /\ registered \in BOOLEAN
    /\ ann \in [Configs -> Counts \cup {0}] /\ applied \in Counts \cup {0}
    /\ tick \in {"idle", "apply", "rpc"}
    /\ mgr \in {"off", "start", "setup", "listen", "serving", "deaf"}
    /\ call \in [Callers -> SetNumVfsCalls] /\ late \in Seq(SetNumVfsCalls)
    /\ vfs \in VfCounts /\ store \in VfCounts
    /\ undone \in BOOLEAN
    /\ lw \in {"off", "idle", "got", "sent"}
    /\ got \in Lists /\ cache \in Lists /\ kubelet \in Lists /\ wire \in Seq(Lists)

\* All configs that ask for VFs ask for n, and no annotation is left of others.
Asked(n) ==
    /\ {cfg[k].vf : k \in {j \in Configs : cfg[j].is}} \ {0} = {n}
    /\ \A k \in Configs : ~cfg[k].is => ann[k] = 0

\* What all configs ask for comes true in the end, whatever fails, overlaps or
\* starts again on the way, with two exceptions: it was in force, and another call
\* of SetNumVfs has written sriov_numvfs since - that of SetupDevices, one that a
\* former daemon left behind, or an override for another number that failed -
\* which AppliedVfCount hides; or the CR was made anew, which the controller of
\* the configs does not hear of.
OverrideInForce ==
    <>[](\A n \in Counts : Asked(n) =>
            \/ vfs = n
            \/ applied = n /\ undone
            \/ missed # {})

\* The kubelet gets to know the devices that GetDevices answers, although they
\* change while a list is on its way, unless its stream broke: nobody registers
\* again.
KubeletFollows ==
    <>[](mgr = "serving" /\ registered => kubelet = Listed)

\* If Allocate refuses a device of the kubelet's, then setDeviceCache is about to
\* make it known, or a list without it is already on its way to the kubelet.
AllocateFinds ==
    \A d \in kubelet :
        \/ Allocates(d)
        \/ lw = "sent" /\ d \in got
        \/ \E i \in DOMAIN wire : d \notin wire[i]

=============================================================================
