------------------------------- MODULE HostCni -------------------------------
(***************************************************************************)
(* The host side of the CNI path: the CNI server of the daemon             *)
(* (cniserver.go), the handlers of the HostSideManager, the SR-IOV manager *)
(* (sriov.go) with its two on-disk records (the NetConf cached per         *)
(* container and the PCI allocation file of a VF), and the bridge port     *)
(* that every attached VF has on the DPU.                                  *)
(*                                                                         *)
(* A sandbox stands for a container id, its network namespace and its CNI  *)
(* interface name.  The container runtime is the environment: it creates   *)
(* sandboxes, sends ADD and DEL, gives up on a slow ADD, repeats a failed  *)
(* DEL and removes the namespace after a successful one.  The handlers run *)
(* one at a time under cniMutex, so one request is in progress at most,    *)
(* but every step of it may fail, and the daemon may die between any two.  *)
(***************************************************************************)
EXTENDS Naturals

CONSTANTS
  Sandboxes,       \* pod sandboxes that the runtime may create
  VFs,             \* virtual functions of the DPU's host interface
  DpdkVFs,         \* the VFs bound to a userspace driver: they have no netdev
  MacSandboxes,    \* sandboxes whose network configuration asks for a MAC
  IpamSandboxes,   \* sandboxes whose network configuration has an IPAM type
  None,            \* no sandbox, no VF; as a place, the host's namespace
  MaxFaults,       \* bound on system calls and calls to others that fail
  MaxCrashes,      \* bound on daemon crashes
  NetnsMayVanish   \* may a namespace disappear before its DEL (node restart)?

ASSUME ConstantsAssumption ==
  /\ DpdkVFs \subseteq VFs
  /\ MacSandboxes \subseteq Sandboxes
  /\ IpamSandboxes \subseteq Sandboxes
  /\ None \notin Sandboxes
  /\ None \notin VFs
  /\ MaxFaults \in Nat
  /\ MaxCrashes \in Nat
  /\ NetnsMayVanish \in BOOLEAN

VARIABLES
  \* the container runtime's view
  rt,        \* state of every sandbox
  dev,       \* the VF kubelet gave to the sandbox
  netns,     \* sandboxes whose namespace path exists
  waiting,   \* requests blocked on cniMutex
  \* the request that holds cniMutex
  pc, sb, vf,
  res,       \* what the deferred functions have to undo or to answer
  \* kernel, disk, DPU
  place,     \* namespace that holds the netdev of a VF
  named,     \* VFs whose netdev carries the pod's interface name
  adm,       \* sandbox whose administrative settings a VF carries
  cache,     \* NetConf cached per container: the VF it names
  lock,      \* PCI allocation file of a VF: the namespace it names
  port,      \* VFs that have a bridge port on the DPU
  ips,       \* sandboxes that hold an IPAM address
  faults, crashes

runtime == <<rt, dev, netns, waiting>>
kernel  == <<place, named, adm>>
disk    == <<cache, lock>>
budget  == <<faults, crashes>>
vars    == <<rt, dev, netns, waiting, pc, sb, vf, res, place, named, adm,
             cache, lock, port, ips, faults, crashes>>

RtStates == {"none", "adding", "running", "failed", "deleting", "deleted",
             "removed"}
AddSteps == {"addLoad", "addApply", "addSetup", "addIpam", "addSave",
             "addLock", "addUndo", "addPort"}
DelSteps == {"delLoad", "delIpam", "delReset", "delRelease", "delUnlock",
             "delClean", "delPort"}
Requests == [op : {"ADD", "DEL"}, s : Sandboxes]

(***************************************************************************)
(* Types.                                                                  *)
(***************************************************************************)
\* Every variable holds a value of its kind, and a handler that has loaded its
\* configuration works on a VF: CmdDel never goes on without a NetConf.
TypeOK ==
  /\ rt \in [Sandboxes -> RtStates]
  /\ dev \in [Sandboxes -> VFs \cup {None}]
  /\ netns \in SUBSET Sandboxes
  /\ waiting \in SUBSET Requests
  /\ pc \in {"idle"} \cup AddSteps \cup DelSteps
  /\ sb \in Sandboxes \cup {None}
  /\ vf \in VFs \cup {None}
  /\ res \in {"none", "ipam", "ok", "err", "released"}
  /\ place \in [VFs -> Sandboxes \cup {None}]
  /\ named \in SUBSET VFs
  /\ adm \in [VFs -> Sandboxes \cup {None}]
  /\ cache \in [Sandboxes -> VFs \cup {None}]
  /\ lock \in [VFs -> Sandboxes \cup {None}]
  /\ port \in SUBSET VFs
  /\ ips \in SUBSET Sandboxes
  /\ faults \in Nat
  /\ crashes \in Nat
  /\ pc = "idle" <=> sb = None
  /\ pc \in AddSteps \cup (DelSteps \ {"delLoad"}) => vf \in VFs

Init ==
  /\ rt = [s \in Sandboxes |-> "none"]
  /\ dev = [s \in Sandboxes |-> None]
  /\ netns = {}
  /\ waiting = {}
  /\ pc = "idle" /\ sb = None /\ vf = None /\ res = "none"
  /\ place = [v \in VFs |-> None]
  /\ named = {}
  /\ adm = [v \in VFs |-> None]
  /\ cache = [s \in Sandboxes |-> None]
  /\ lock = [v \in VFs |-> None]
  /\ port = {}
  /\ ips = {}
  /\ faults = 0
  /\ crashes = 0

(***************************************************************************)
(* Helpers.                                                                *)
(***************************************************************************)
\* A step in which nothing fails, and one in which something does.
Outcome(ok) ==
  IF ok THEN UNCHANGED faults
        ELSE faults < MaxFaults /\ faults' = faults + 1

\* A physical netdev goes back to the host when its namespace dies.
Evicted(s) == [v \in VFs |-> IF place[v] = s THEN None ELSE place[v]]
StillNamed(s) == {v \in named : place[v] # s}

\* CmdAdd holds the namespace open between ns.GetNS and the deferred Close, so
\* that a namespace whose path is gone lives on until then.
NetnsOpen(s) == sb = s /\ pc \in AddSteps \ {"addLoad", "addPort"}

Goto(p) == pc' = p /\ UNCHANGED <<rt, sb, vf, res>>

Release == pc' = "idle" /\ sb' = None /\ vf' = None /\ res' = "none"

\* The answer to the request; the runtime ignores it after it gave up.
ReturnAdd(ok) ==
  /\ Release
  /\ rt' = [rt EXCEPT ![sb] = IF @ # "adding" THEN @
                              ELSE IF ok THEN "running" ELSE "failed"]

ReturnDel(ok) ==
  /\ Release
  /\ rt' = [rt EXCEPT ![sb] = IF @ # "deleting" THEN @
                              ELSE IF ok THEN "deleted" ELSE "failed"]

Outstanding(op, s) ==
  \/ [op |-> op, s |-> s] \in waiting
  \/ sb = s /\ pc \in (IF op = "ADD" THEN AddSteps ELSE DelSteps)

(***************************************************************************)
(* The container runtime and kubelet.                                      *)
(***************************************************************************)
\* kubelet may hand the VF of a terminating pod to a new one.
RunSandbox(s, v) ==
  /\ rt[s] = "none"
  /\ rt' = [rt EXCEPT ![s] = "adding"]
  /\ dev' = [dev EXCEPT ![s] = v]
  /\ netns' = netns \cup {s}
  /\ waiting' = waiting \cup {[op |-> "ADD", s |-> s]}
  /\ UNCHANGED <<pc, sb, vf, res, kernel, disk, port, ips, budget>>

\* The runtime gives up on an ADD; the daemon goes on with it, because the
\* request's context is never looked at.
GiveUp(s) ==
  /\ rt[s] = "adding"
  /\ rt' = [rt EXCEPT ![s] = "failed"]
  /\ UNCHANGED <<dev, netns, waiting, pc, sb, vf, res, kernel, disk, port,
                 ips, budget>>

\* DEL of a pod that ends, of an ADD that failed, or of a DEL that failed.
StopSandbox(s) ==
  /\ rt[s] \in {"running", "failed"}
  /\ ~Outstanding("DEL", s)
  /\ rt' = [rt EXCEPT ![s] = "deleting"]
  /\ waiting' = waiting \cup {[op |-> "DEL", s |-> s]}
  /\ UNCHANGED <<dev, netns, pc, sb, vf, res, kernel, disk, port, ips, budget>>

\* The namespace path goes away; its netdevs go to the host at once unless the
\* daemon holds the namespace open.
DropNetns(s) ==
  /\ netns' = netns \ {s}
  /\ IF NetnsOpen(s)
       THEN UNCHANGED <<place, named>>
       ELSE place' = Evicted(s) /\ named' = StillNamed(s)

RemoveSandbox(s) ==
  /\ rt[s] = "deleted"
  /\ rt' = [rt EXCEPT ![s] = "removed"]
  /\ DropNetns(s)
  /\ UNCHANGED <<dev, waiting, pc, sb, vf, res, adm, disk, port, ips, budget>>

\* A namespace that disappears without a DEL.
LoseNetns(s) ==
  /\ NetnsMayVanish
  /\ s \in netns
  /\ DropNetns(s)
  /\ UNCHANGED <<rt, dev, waiting, pc, sb, vf, res, adm, disk, port, ips,
                 budget>>

(***************************************************************************)
(* handleCNIRequest: take cniMutex.                                        *)
(***************************************************************************)
Acquire(r) ==
  /\ pc = "idle"
  /\ r \in waiting
  /\ waiting' = waiting \ {r}
  /\ sb' = r.s
  /\ IF r.op = "ADD" THEN pc' = "addLoad" /\ vf' = dev[r.s]
                     ELSE pc' = "delLoad" /\ vf' = None
  /\ UNCHANGED <<rt, dev, netns, res, kernel, disk, port, ips, budget>>

\* What no step of a handler touches.
Frame == UNCHANGED <<dev, netns, waiting, crashes>>

(***************************************************************************)
(* ADD: cniCmdAddHandler around sriovManager.CmdAdd.                       *)
(***************************************************************************)
\* Faulty variant: only a file that names the caller's own namespace counts.
AllocatedToCaller(v) == lock[v] \in netns /\ lock[v] = sb

\* IsAllocated, when no call fails: an allocation file counts only while the
\* namespace it names exists; otherwise the file is removed.
Allocated(v) == lock[v] \in netns
Unlocked(v) == [lock EXCEPT ![v] = None]

\* GetVFLinkName sees a netdev only in the host's namespace; a VF without one
\* must have a DPDK driver.
Usable(v) == v \in DpdkVFs \/ place[v] = None

\* Faulty variant: the deferred cleanup is registered before LoadConf, so that a
\* refused ADD resets the VF of the sandbox that holds it.
AddLoadConfCleansUp ==
  /\ pc = "addLoad"
  /\ Outcome(TRUE)
  /\ IF Allocated(vf)
       THEN UNCHANGED lock /\ Goto("addUndo")
       ELSE /\ lock' = Unlocked(vf)
            /\ IF Usable(vf) /\ sb \in netns THEN Goto("addApply")
                                             ELSE ReturnAdd(FALSE)
  /\ Frame /\ UNCHANGED <<kernel, cache, port, ips>>

\* LoadConf and ns.GetNS.  IsAllocated takes every error of ns.GetNS for a
\* namespace that is gone, so that one failing call loses the file of a sandbox
\* that exists.  An error here undoes nothing.
AddLoadConf ==
  /\ pc = "addLoad"
  /\ \/ /\ Allocated(vf)
        /\ Outcome(TRUE)
        /\ UNCHANGED lock
        /\ ReturnAdd(FALSE)
     \/ /\ Outcome(~Allocated(vf))
        /\ lock' = Unlocked(vf)
        /\ IF Usable(vf) /\ sb \in netns THEN Goto("addApply")
                                         ELSE ReturnAdd(FALSE)
     \/ /\ Outcome(FALSE)
        /\ lock' \in {lock, Unlocked(vf)}
        /\ ReturnAdd(FALSE)
  /\ Frame /\ UNCHANGED <<kernel, cache, port, ips>>

\* ApplyVFConfig.  Its error is held in a variable of the if statement, so the
\* deferred cleanup does not run and settings applied so far stay.
AddApply ==
  /\ pc = "addApply"
  /\ \/ /\ Outcome(TRUE)
        /\ adm' = [adm EXCEPT ![vf] = sb]
        /\ Goto("addSetup")
     \/ /\ Outcome(FALSE)
        /\ \/ UNCHANGED adm
           \/ adm' = [adm EXCEPT ![vf] = sb]
        /\ ReturnAdd(FALSE)
  /\ Frame /\ UNCHANGED <<place, named, disk, port, ips>>

\* SetupVF: rename to a temporary name, move to the pod, rename to the pod's
\* interface name, set the MAC, bring up.  A failure stops anywhere.
AddSetup ==
  /\ pc = "addSetup"
  /\ \/ /\ vf \in DpdkVFs
        /\ Outcome(TRUE)
        /\ Goto("addIpam")
        /\ UNCHANGED <<place, named>>
     \/ /\ vf \notin DpdkVFs
        /\ Outcome(TRUE)
        /\ place' = [place EXCEPT ![vf] = sb]
        /\ named' = named \cup {vf}
        /\ Goto("addIpam")
     \/ /\ vf \notin DpdkVFs
        /\ Outcome(FALSE)
        /\ \/ UNCHANGED <<place, named>>
           \/ /\ place' = [place EXCEPT ![vf] = sb]
              /\ named' \in {named, named \cup {vf}}
        /\ Goto("addUndo")
  /\ Frame /\ UNCHANGED <<adm, disk, port, ips>>

\* ipam.ExecAdd; from its success on, an error makes the deferred function
\* call ipam.ExecDel.
AddIpam ==
  /\ pc = "addIpam"
  /\ \/ /\ sb \notin IpamSandboxes
        /\ Outcome(TRUE)
        /\ Goto("addSave")
        /\ UNCHANGED ips
     \/ /\ sb \in IpamSandboxes
        /\ ips' = ips \cup {sb}
        /\ res' = "ipam"
        /\ \/ Outcome(TRUE) /\ pc' = "addSave"
           \/ Outcome(FALSE) /\ pc' = "addUndo"
        /\ UNCHANGED <<rt, sb, vf>>
     \/ /\ sb \in IpamSandboxes
        /\ Outcome(FALSE)
        /\ Goto("addUndo")
        /\ UNCHANGED ips
  /\ Frame /\ UNCHANGED <<kernel, disk, port>>

\* SaveNetConf.
AddSave ==
  /\ pc = "addSave"
  /\ \/ /\ Outcome(TRUE)
        /\ cache' = [cache EXCEPT ![sb] = vf]
        /\ Goto("addLock")
     \/ /\ Outcome(FALSE)
        /\ UNCHANGED cache
        /\ Goto("addUndo")
  /\ Frame /\ UNCHANGED <<kernel, lock, port, ips>>

\* SaveAllocatedPCI, the last call of CmdAdd, and the deferred netns.Close.
AddLock ==
  /\ pc = "addLock"
  /\ \/ /\ Outcome(TRUE)
        /\ lock' = [lock EXCEPT ![vf] = sb]
        /\ IF sb \in netns
             THEN UNCHANGED <<place, named>>
             ELSE place' = Evicted(sb) /\ named' = StillNamed(sb)
        /\ Goto("addPort")
     \/ /\ Outcome(FALSE)
        /\ UNCHANGED <<lock, place, named>>
        /\ Goto("addUndo")
  /\ Frame /\ UNCHANGED <<adm, cache, port, ips>>

\* The deferred functions of a CmdAdd that fails, last registered first:
\* ipam.ExecDel, then ReleaseVF if the pod's interface is there and
\* ResetVFConfig, then netns.Close.  Their errors are dropped.  ResetVFConfig
\* restores an administrative MAC that is never recorded, so it always fails
\* when the configuration has a MAC.
AddUndo ==
  /\ pc = "addUndo"
  /\ \E freed, released, reset \in BOOLEAN :
       /\ Outcome(freed /\ released /\ reset)
       /\ ips' = IF res = "ipam" /\ freed THEN ips \ {sb} ELSE ips
       /\ IF (vf \in named /\ place[vf] = sb /\ released) \/ sb \notin netns
            THEN place' = Evicted(sb) /\ named' = StillNamed(sb)
            ELSE /\ place' = place
                 /\ \/ named' = named
                    \/ ~released /\ named' = StillNamed(sb)
       /\ adm' = IF reset /\ sb \notin MacSandboxes
                   THEN [adm EXCEPT ![vf] = None] ELSE adm
  /\ ReturnAdd(FALSE)
  /\ Frame /\ UNCHANGED <<disk, port>>

\* HostSideManager.CreateBridgePort.  The MAC sent is the effective MAC that
\* SetupVF saved; a DPDK VF has none and net.ParseMAC rejects it.  A port that
\* exists is refused or accepted as the vendor's plugin likes.  Nothing of
\* CmdAdd is undone on an error.
AddPort ==
  /\ pc = "addPort"
  /\ \/ /\ vf \in DpdkVFs
        /\ Outcome(TRUE)
        /\ ReturnAdd(FALSE)
        /\ UNCHANGED port
     \/ /\ vf \notin DpdkVFs
        /\ Outcome(TRUE)
        /\ port' = port \cup {vf}
        /\ \/ ReturnAdd(TRUE)
           \/ vf \in port /\ ReturnAdd(FALSE)
     \/ /\ vf \notin DpdkVFs
        /\ Outcome(FALSE)
        /\ port' \in {port, port \cup {vf}}
        /\ ReturnAdd(FALSE)
  /\ Frame /\ UNCHANGED <<kernel, disk, ips>>

(***************************************************************************)
(* DEL: cniCmdDelHandler around sriovManager.CmdDel.                       *)
(***************************************************************************)
\* Faulty variant: an error in place of the success.
DelLoadFails ==
  /\ pc = "delLoad"
  /\ \/ /\ cache[sb] = None
        /\ ReturnDel(FALSE)
     \/ /\ cache[sb] # None
        /\ pc' = "delIpam"
        /\ vf' = cache[sb]
        /\ UNCHANGED <<rt, sb, res>>
  /\ Outcome(TRUE)
  /\ Frame /\ UNCHANGED <<kernel, disk, port, ips>>

\* LoadConfFromCache: without a cached NetConf, or with one that cannot be read,
\* CmdDel has nothing to do and says so with a success.
DelLoad ==
  /\ pc = "delLoad"
  /\ \/ /\ Outcome(cache[sb] = None)
        /\ ReturnDel(TRUE)
     \/ /\ cache[sb] # None
        /\ Outcome(TRUE)
        /\ pc' = "delIpam"
        /\ vf' = cache[sb]
        /\ UNCHANGED <<rt, sb, res>>
  /\ Frame /\ UNCHANGED <<kernel, disk, port, ips>>

\* CmdDel returns r; the deferred CleanCachedNetConf comes next.
DelReturns(r) == pc' = "delClean" /\ res' = r /\ UNCHANGED <<rt, sb, vf>>

\* ipam.ExecDel; its error is the one that keeps the cached NetConf.  The
\* runtime may send an empty namespace path for a namespace that is gone.
DelIpam ==
  /\ pc = "delIpam"
  /\ \/ /\ Outcome(TRUE)
        /\ ips' = IF sb \in IpamSandboxes THEN ips \ {sb} ELSE ips
        /\ \/ Goto("delReset")
           \/ sb \notin netns /\ DelReturns("ok")
     \/ /\ sb \in IpamSandboxes
        /\ Outcome(FALSE)
        /\ UNCHANGED ips
        /\ ReturnDel(FALSE)
  /\ Frame /\ UNCHANGED <<kernel, disk, port>>

\* GetVfid and ResetVFConfig, on the VF whoever uses it now.  The errors from
\* here to ReleaseVF are held in variables of inner scopes, so the deferred
\* function still removes the cached NetConf.
DelReset ==
  /\ pc = "delReset"
  /\ \/ /\ sb \notin MacSandboxes
        /\ Outcome(TRUE)
        /\ adm' = [adm EXCEPT ![vf] = None]
        /\ Goto("delRelease")
     \/ /\ Outcome(sb \in MacSandboxes)
        /\ UNCHANGED adm
        /\ DelReturns("err")
  /\ Frame /\ UNCHANGED <<place, named, disk, port, ips>>

\* Faulty variant: a missing namespace does not end CmdDel.
DelReleaseGoesOn ==
  /\ pc = "delRelease"
  /\ Outcome(TRUE)
  /\ \/ sb \notin netns /\ Goto("delUnlock") /\ UNCHANGED <<place, named>>
     \/ /\ sb \in netns /\ place[vf] = sb /\ vf \in named
        /\ place' = [place EXCEPT ![vf] = None]
        /\ named' = named \ {vf}
        /\ Goto("delUnlock")
  /\ Frame /\ UNCHANGED <<adm, disk, port, ips>>

\* ns.GetNS and ReleaseVF.  DPDKMode is not part of the cached NetConf, so a
\* DPDK VF is looked up in the namespace as well, and not found.
DelRelease ==
  /\ pc = "delRelease"
  /\ \/ /\ sb \notin netns
        /\ Outcome(TRUE)
        /\ DelReturns("ok")
        /\ UNCHANGED <<place, named>>
     \/ /\ sb \in netns /\ place[vf] = sb /\ vf \in named
        /\ Outcome(TRUE)
        /\ place' = [place EXCEPT ![vf] = None]
        /\ named' = named \ {vf}
        /\ Goto("delUnlock")
     \/ /\ sb \in netns /\ ~(place[vf] = sb /\ vf \in named)
        /\ Outcome(TRUE)
        /\ DelReturns("err")
        /\ UNCHANGED <<place, named>>
     \/ /\ sb \in netns /\ place[vf] = sb /\ vf \in named
        /\ Outcome(FALSE)
        /\ named' \in {named, named \ {vf}}
        /\ DelReturns("err")
        /\ UNCHANGED place
  /\ Frame /\ UNCHANGED <<adm, disk, port, ips>>

\* DeleteAllocatedPCI removes the file whatever namespace it names; an error
\* keeps the cached NetConf.
DelUnlock ==
  /\ pc = "delUnlock"
  /\ \/ /\ lock[vf] # None
        /\ Outcome(TRUE)
        /\ lock' = Unlocked(vf)
        /\ DelReturns("released")
     \/ /\ Outcome(lock[vf] = None)
        /\ UNCHANGED lock
        /\ ReturnDel(FALSE)
  /\ Frame /\ UNCHANGED <<kernel, cache, port, ips>>

\* Faulty variants: the handler asks for the deletion of the bridge port
\* whatever CmdDel returned, and never.
DelCleanAlwaysUnplumbs ==
  /\ pc = "delClean"
  /\ Outcome(TRUE) /\ cache' = [cache EXCEPT ![sb] = None]
  /\ Goto("delPort")
  /\ Frame /\ UNCHANGED <<kernel, lock, port, ips>>

DelCleanNeverUnplumbs ==
  /\ pc = "delClean"
  /\ Outcome(TRUE) /\ cache' = [cache EXCEPT ![sb] = None]
  /\ ReturnDel(res # "err")
  /\ Frame /\ UNCHANGED <<kernel, lock, port, ips>>

\* The deferred CleanCachedNetConf, whose error is dropped; then the handler
\* answers, or goes on to the DPU when CmdDel released the VF.
DelClean ==
  /\ pc = "delClean"
  /\ \/ Outcome(TRUE) /\ cache' = [cache EXCEPT ![sb] = None]
     \/ Outcome(FALSE) /\ UNCHANGED cache
  /\ IF res = "released" THEN Goto("delPort") ELSE ReturnDel(res = "ok")
  /\ Frame /\ UNCHANGED <<kernel, lock, port, ips>>

\* HostSideManager.DeleteBridgePort, whose error is dropped.
DelPort ==
  /\ pc = "delPort"
  /\ \/ Outcome(TRUE) /\ port' = port \ {vf}
     \/ Outcome(FALSE) /\ UNCHANGED port
  /\ ReturnDel(TRUE)
  /\ Frame /\ UNCHANGED <<kernel, disk, ips>>

(***************************************************************************)
(* The daemon dies: the request in progress and those that wait are lost,  *)
(* what is on disk, in the kernel and on the DPU stays.                    *)
(***************************************************************************)
Crash ==
  /\ crashes < MaxCrashes
  /\ crashes' = crashes + 1
  /\ rt' = [s \in Sandboxes |-> IF rt[s] \in {"adding", "deleting"}
                                  THEN "failed" ELSE rt[s]]
  /\ waiting' = {}
  /\ IF NetnsOpen(sb) /\ sb \notin netns
       THEN place' = Evicted(sb) /\ named' = StillNamed(sb)
       ELSE UNCHANGED <<place, named>>
  /\ Release
  /\ UNCHANGED <<dev, netns, adm, disk, port, ips, faults>>

AddStep == \/ AddLoadConf \/ AddApply \/ AddSetup \/ AddIpam
           \/ AddSave \/ AddLock \/ AddUndo \/ AddPort
DelStep == \/ DelLoad \/ DelIpam \/ DelReset \/ DelRelease
           \/ DelUnlock \/ DelClean \/ DelPort

Next ==
  \/ \E s \in Sandboxes :
       \/ \E v \in VFs : RunSandbox(s, v)
       \/ GiveUp(s)
       \/ StopSandbox(s)
       \/ RemoveSandbox(s)
       \/ LoseNetns(s)
  \/ \E r \in waiting : Acquire(r)
  \/ AddStep
  \/ DelStep
  \/ Crash

Spec == Init /\ [][Next]_vars

\* A handler runs to its end, a failed DEL is repeated, and no request waits
\* for cniMutex forever (a Go mutex hands over to a starving waiter).
Fairness ==
  /\ WF_vars(AddStep)
  /\ WF_vars(DelStep)
  /\ \A s \in Sandboxes : WF_vars(rt[s] = "failed" /\ StopSandbox(s))
  /\ \A r \in Requests : SF_vars(Acquire(r))

FairSpec == Spec /\ Fairness

(***************************************************************************)
(* Properties.                                                             *)
(***************************************************************************)
\* A sandbox whose ADD was answered with success and whose namespace exists
\* has its VF under the pod's name, the bridge port on the DPU, and both
\* records that its DEL and the ADDs of others rely on - whatever other
\* sandboxes' late or repeated DELs, crashes and failed calls do.  The one thing
\* a failed call can cost it is the allocation file (LockOnlyByOwner says which
\* call), and then no other sandbox has one for its VF.
RunningAttached ==
  \A s \in Sandboxes : rt[s] = "running" /\ s \in netns =>
    /\ place[dev[s]] = s /\ dev[s] \in named
    /\ dev[s] \in port
    /\ cache[s] = dev[s]
    /\ lock[dev[s]] = s \/ (faults > 0 /\ lock[dev[s]] = None)

\* The PCI allocation of a sandbox whose namespace exists is given up only by
\* the DEL of that sandbox, or by an ADD for the same VF in whose IsAllocated
\* ns.GetNS fails; such an ADD is refused all the same when the sandbox runs,
\* because the VF's netdev is not on the host.
LockOnlyByOwner ==
  [][\A v \in VFs : lock[v] \in netns /\ lock'[v] # lock[v] =>
       \/ pc = "delUnlock" /\ sb = lock[v]
       \/ /\ pc = "addLoad" /\ vf = v /\ faults' = faults + 1
          /\ lock'[v] = None
          /\ rt[lock[v]] = "running" => pc' = "idle"]_vars

\* The runtime does not repeat a DEL forever: CmdDel drops the cached NetConf
\* on the way out of most errors, and succeeds without one.
DelEventuallySucceeds ==
  \A s \in Sandboxes :
    rt[s] = "deleting" ~> rt[s] \in {"deleted", "removed"}

\* When no call fails, no namespace vanishes and the daemon stays up, the VF of
\* a running sandbox carries that sandbox's administrative settings: no DEL of
\* an earlier user of the VF resets it (ResetVFConfig works on the VF, not on
\* the sandbox).
RunningConfigured ==
  \A s \in Sandboxes : rt[s] = "running" /\ s \in netns => adm[dev[s]] = s

\* A bridge port on the DPU belongs to a VF that some cached NetConf names, so
\* that a DEL can still remove it; CmdDel "returns true if the VF is released,
\* meaning that plumbing must be done on the DPU side".
PortHasOwner ==
  \A v \in port : \/ \E s \in Sandboxes : cache[s] = v
                  \/ pc = "delPort" /\ vf = v

\* LoadConf "will block the new pod creation until the cmdDel is done": an ADD
\* gets past the allocation check only when no other sandbox still has to give
\* the VF back.  It holds in calm behaviours; a namespace that has vanished
\* does not block, nor does an ADD that died before SaveAllocatedPCI.
AddWaitsForDel ==
  [][pc = "addLoad" /\ pc' = "addApply" =>
       \A o \in Sandboxes \ {sb} :
         cache[o] = vf => rt[o] \in {"deleted", "removed"}]_vars

\* CmdDel without a cached NetConf answers success because then "the VF was not
\* setup in the container and reverted".
NoCacheMeansReverted ==
  pc = "delLoad" /\ cache[sb] = None => \A v \in VFs : place[v] # sb

\* The path implements VfLease: a sandbox that runs, in a namespace that exists,
\* has a VF that no other such sandbox has, although kubelet may give the VF to
\* several at once, and its bridge port on the DPU stays until the sandbox stops.
Lease == INSTANCE VfLease WITH
  users <- [v \in VFs |->
              {s \in netns : rt[s] = "running" /\ dev[s] = v}],
  plumbed <- port

LeaseSpec == Lease!Spec

=============================================================================
