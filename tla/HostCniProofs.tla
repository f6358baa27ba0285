---------------------------- MODULE HostCniProofs ----------------------------
(***************************************************************************)
(* Proofs about HostCni for every set of sandboxes and VFs.  For every     *)
(* bound on faults and crashes: type correctness, RunningAttached,         *)
(* LockOnlyByOwner and the refinement of VfLease.  For behaviours in which *)
(* nothing fails: RunningConfigured, PortHasOwner and AddWaitsForDel.      *)
(***************************************************************************)
EXTENDS HostCni, TLAPS

(***************************************************************************)
(* The inductive invariant.                                                *)
(***************************************************************************)
\* Requests come from sandboxes that have a VF; none is outstanding for a
\* running sandbox; no request waits behind another one of its kind for the
\* same sandbox.
Issued ==
  /\ \A s \in Sandboxes : rt[s] # "none" => dev[s] \in VFs
  /\ \A s \in Sandboxes :
       Outstanding("ADD", s) => rt[s] \notin {"none", "running"}
  /\ \A s \in Sandboxes : Outstanding("DEL", s) => rt[s] = "deleting"
  /\ \A s \in Sandboxes :
       /\ [op |-> "ADD", s |-> s] \in waiting => ~(sb = s /\ pc \in AddSteps)
       /\ [op |-> "DEL", s |-> s] \in waiting => ~(sb = s /\ pc \in DelSteps)
  /\ pc \in AddSteps => vf = dev[sb]

\* A VF that CmdAdd has checked stays free until CmdAdd moves it; from then on
\* it is in the sandbox, and the records are written one after the other.
AddProgress ==
  /\ pc \in {"addApply", "addSetup"} => place[vf] = None
  /\ pc \in {"addApply", "addSetup", "addIpam", "addSave", "addLock"}
       => lock[vf] = None
  /\ vf \notin DpdkVFs =>
       /\ pc \in {"addIpam", "addSave", "addLock"}
            => place[vf] = sb /\ vf \in named
       /\ pc = "addPort" /\ sb \in netns
            => place[vf] = sb /\ vf \in named /\ lock[vf] = sb
  /\ pc \in {"addLock", "addPort"} => cache[sb] = vf

\* CmdDel takes the allocation away, and the handler the bridge port, only
\* after the VF is back on the host.
DelProgress ==
  /\ pc \in {"delUnlock", "delPort"} => place[vf] = None
  /\ pc = "delClean" /\ res = "released" => place[vf] = None
  /\ pc = "delUnlock" => lock[vf] \in {None, sb}

\* A VF without a netdev is in no namespace, and the allocation of a VF that is
\* in a namespace names that namespace or nothing.
LockFollowsPlace ==
  \A v \in VFs : /\ v \in DpdkVFs => place[v] = None
                 /\ place[v] # None => lock[v] \in {None, place[v]}

\* An allocation file names a sandbox that was given the VF.
LockNamesDev ==
  \A v \in VFs : lock[v] # None => dev[lock[v]] = v /\ rt[lock[v]] # "none"

IInv ==
  /\ TypeOK
  /\ Issued
  /\ AddProgress
  /\ DelProgress
  /\ LockFollowsPlace
  /\ LockNamesDev
  /\ RunningAttached


(***************************************************************************)
(* Every step preserves it.                                                *)
(***************************************************************************)
\* A new sandbox is not running yet, and its request is the only one of its kind.
LEMMA RunSandboxStep ==
  ASSUME IInv, NEW s \in Sandboxes, NEW v \in VFs, RunSandbox(s, v)
  PROVE  IInv'
<1> USE ConstantsAssumption DEF IInv, RunSandbox, kernel, disk, budget
<1>1. TypeOK'
  BY DEF TypeOK, RtStates, AddSteps, DelSteps, Requests
<1>2. Issued'
  BY DEF TypeOK, AddSteps, DelSteps, Requests, Issued, Outstanding
<1>3. AddProgress'
  BY DEF TypeOK, Issued, Outstanding, AddProgress
<1>4. DelProgress'
  BY DEF TypeOK, AddSteps, DelSteps, DelProgress
<1>5. LockFollowsPlace'
  BY DEF TypeOK, LockFollowsPlace
<1>6. RunningAttached'
  BY DEF TypeOK, Issued, Outstanding, RunningAttached
<1>7. LockNamesDev'
  BY DEF TypeOK, Issued, Outstanding, AddSteps, LockNamesDev
<1>8. QED BY <1>1, <1>2, <1>3, <1>4, <1>5, <1>6, <1>7

\* Giving up on an ADD leaves the handler's state alone.
LEMMA GiveUpStep ==
  ASSUME IInv, NEW s \in Sandboxes, GiveUp(s)
  PROVE  IInv'
<1> USE ConstantsAssumption DEF IInv, GiveUp, kernel, disk, budget
<1>1. TypeOK'
  BY DEF TypeOK, RtStates, AddSteps, DelSteps, Requests
<1>2. Issued'
  BY DEF TypeOK, AddSteps, DelSteps, Requests, Issued, Outstanding
<1>3. AddProgress'
  BY DEF TypeOK, AddSteps, DelSteps, AddProgress
<1>4. DelProgress'
  BY DEF TypeOK, AddSteps, DelSteps, DelProgress
<1>5. LockFollowsPlace'
  BY DEF TypeOK, LockFollowsPlace
<1>6. RunningAttached'
  BY DEF TypeOK, Issued, Outstanding, RunningAttached
<1>7. LockNamesDev'
  BY DEF TypeOK, Issued, Outstanding, AddSteps, LockNamesDev
<1>8. QED BY <1>1, <1>2, <1>3, <1>4, <1>5, <1>6, <1>7

\* A DEL is sent when none is outstanding.
LEMMA StopSandboxStep ==
  ASSUME IInv, NEW s \in Sandboxes, StopSandbox(s)
  PROVE  IInv'
<1> USE ConstantsAssumption DEF IInv, StopSandbox, kernel, disk, budget
<1>1. TypeOK'
  BY DEF TypeOK, RtStates, AddSteps, DelSteps, Requests
<1>2. Issued'
  BY DEF TypeOK, AddSteps, DelSteps, Requests, Issued, Outstanding
<1>3. AddProgress'
  BY DEF TypeOK, AddSteps, DelSteps, AddProgress
<1>4. DelProgress'
  BY DEF TypeOK, AddSteps, DelSteps, DelProgress
<1>5. LockFollowsPlace'
  BY DEF TypeOK, LockFollowsPlace
<1>6. RunningAttached'
  BY DEF TypeOK, Issued, Outstanding, RunningAttached
<1>7. LockNamesDev'
  BY DEF TypeOK, Issued, Outstanding, AddSteps, LockNamesDev
<1>8. QED BY <1>1, <1>2, <1>3, <1>4, <1>5, <1>6, <1>7

\* Dropping a namespace moves only the VFs inside it.
LEMMA RemoveSandboxStep ==
  ASSUME IInv, NEW s \in Sandboxes, RemoveSandbox(s)
  PROVE  IInv'
<1> USE ConstantsAssumption DEF IInv, RemoveSandbox, disk, budget, Evicted,
      StillNamed, NetnsOpen, DropNetns
<1>1. TypeOK'
  BY DEF TypeOK, RtStates, AddSteps, DelSteps, Requests
<1>2. Issued'
  BY DEF TypeOK, AddSteps, DelSteps, Requests, Issued, Outstanding
<1>3. AddProgress'
  BY DEF TypeOK, AddSteps, DelSteps, AddProgress
<1>4. DelProgress'
  BY DEF TypeOK, AddSteps, DelSteps, DelProgress
<1>5. LockFollowsPlace'
  BY DEF TypeOK, LockFollowsPlace
<1>6. RunningAttached'
  BY DEF TypeOK, Issued, Outstanding, RunningAttached
<1>7. LockNamesDev'
  BY DEF TypeOK, Issued, Outstanding, AddSteps, LockNamesDev
<1>8. QED BY <1>1, <1>2, <1>3, <1>4, <1>5, <1>6, <1>7

\* The same for a namespace that vanishes.
LEMMA LoseNetnsStep ==
  ASSUME IInv, NEW s \in Sandboxes, LoseNetns(s)
  PROVE  IInv'
<1> USE ConstantsAssumption DEF IInv, LoseNetns, disk, budget, Evicted,
      StillNamed, NetnsOpen, DropNetns
<1>1. TypeOK'
  BY DEF TypeOK, RtStates, AddSteps, DelSteps, Requests
<1>2. Issued'
  BY DEF TypeOK, AddSteps, DelSteps, Requests, Issued, Outstanding
<1>3. AddProgress'
  BY DEF TypeOK, AddSteps, DelSteps, AddProgress
<1>4. DelProgress'
  BY DEF TypeOK, AddSteps, DelSteps, DelProgress
<1>5. LockFollowsPlace'
  BY DEF TypeOK, LockFollowsPlace
<1>6. RunningAttached'
  BY DEF TypeOK, Issued, Outstanding, RunningAttached
<1>7. LockNamesDev'
  BY DEF TypeOK, Issued, Outstanding, AddSteps, LockNamesDev
<1>8. QED BY <1>1, <1>2, <1>3, <1>4, <1>5, <1>6, <1>7

\* The handler starts with the sandbox of the request.
LEMMA AcquireStep ==
  ASSUME IInv, NEW r \in waiting, Acquire(r)
  PROVE  IInv'
<1> USE ConstantsAssumption DEF IInv, Acquire, kernel, disk, budget
<1>1. TypeOK'
  BY DEF TypeOK, AddSteps, DelSteps, Requests, Issued, Outstanding
<1>2. Issued'
  BY DEF TypeOK, AddSteps, DelSteps, Requests, Issued, Outstanding
<1>3. AddProgress'
  BY DEF TypeOK, AddSteps, DelSteps, AddProgress
<1>4. DelProgress'
  BY DEF TypeOK, AddSteps, DelSteps, DelProgress
<1>5. LockFollowsPlace'
  BY DEF TypeOK, LockFollowsPlace
<1>6. RunningAttached'
  BY DEF TypeOK, Issued, Outstanding, RunningAttached
<1>7. LockNamesDev'
  BY DEF TypeOK, Issued, Outstanding, AddSteps, LockNamesDev
<1>8. QED BY <1>1, <1>2, <1>3, <1>4, <1>5, <1>6, <1>7

\* The allocation of a live sandbox is respected, unless ns.GetNS fails; a VF that
\* is in a sandbox is refused then, too.
LEMMA AddLoadConfStep ==
  ASSUME IInv, AddLoadConf
  PROVE  IInv'
<1> USE ConstantsAssumption DEF IInv, AddLoadConf, kernel, Outcome, Goto,
      Release, ReturnAdd, Frame, Allocated, Unlocked, Usable
<1>1. TypeOK'
  BY DEF TypeOK, RtStates, AddSteps, DelSteps, Requests
<1>2. Issued'
  BY DEF TypeOK, AddSteps, DelSteps, Requests, Issued, Outstanding
<1>3. AddProgress'
  BY DEF TypeOK, AddProgress, LockFollowsPlace
<1>4. DelProgress'
  BY DEF TypeOK, AddSteps, DelSteps, DelProgress
<1>5. LockFollowsPlace'
  BY DEF TypeOK, LockFollowsPlace
<1>6. RunningAttached'
  BY DEF TypeOK, Issued, Outstanding, RunningAttached
<1>7. LockNamesDev'
  BY DEF TypeOK, Issued, Outstanding, AddSteps, LockNamesDev
<1>8. QED BY <1>1, <1>2, <1>3, <1>4, <1>5, <1>6, <1>7

\* Only administrative settings change.
LEMMA AddApplyStep ==
  ASSUME IInv, AddApply
  PROVE  IInv'
<1> USE ConstantsAssumption DEF IInv, AddApply, disk, Outcome, Goto, Release,
      ReturnAdd, Frame
<1>1. TypeOK'
  BY DEF TypeOK, RtStates, AddSteps, DelSteps, Requests
<1>2. Issued'
  BY DEF TypeOK, AddSteps, DelSteps, Requests, Issued, Outstanding
<1>3. AddProgress'
  BY DEF TypeOK, AddSteps, DelSteps, AddProgress
<1>4. DelProgress'
  BY DEF TypeOK, AddSteps, DelSteps, DelProgress
<1>5. LockFollowsPlace'
  BY DEF TypeOK, LockFollowsPlace
<1>6. RunningAttached'
  BY DEF TypeOK, Issued, Outstanding, RunningAttached
<1>7. LockNamesDev'
  BY DEF TypeOK, Issued, Outstanding, AddSteps, LockNamesDev
<1>8. QED BY <1>1, <1>2, <1>3, <1>4, <1>5, <1>6, <1>7

\* The VF that moves was on the host, so no running sandbox had it.
LEMMA AddSetupStep ==
  ASSUME IInv, AddSetup
  PROVE  IInv'
<1> USE ConstantsAssumption DEF IInv, AddSetup, disk, Outcome, Goto, Frame
<1>1. TypeOK'
  BY DEF TypeOK, RtStates, AddSteps, DelSteps, Requests
<1>2. Issued'
  BY DEF TypeOK, AddSteps, DelSteps, Requests, Issued, Outstanding
<1>3. AddProgress'
  BY DEF TypeOK, AddSteps, DelSteps, AddProgress
<1>4. DelProgress'
  BY DEF TypeOK, AddSteps, DelSteps, DelProgress
<1>5. LockFollowsPlace'
  BY DEF TypeOK, AddProgress, LockFollowsPlace
<1>6. RunningAttached'
  BY DEF TypeOK, AddProgress, RunningAttached
<1>7. LockNamesDev'
  BY DEF TypeOK, Issued, Outstanding, AddSteps, LockNamesDev
<1>8. QED BY <1>1, <1>2, <1>3, <1>4, <1>5, <1>6, <1>7

\* Only the IPAM address changes.
LEMMA AddIpamStep ==
  ASSUME IInv, AddIpam
  PROVE  IInv'
<1> USE ConstantsAssumption DEF IInv, AddIpam, kernel, disk, Outcome, Goto,
      Frame
<1>1. TypeOK'
  BY DEF TypeOK, RtStates, AddSteps, DelSteps, Requests
<1>2. Issued'
  BY DEF TypeOK, AddSteps, DelSteps, Requests, Issued, Outstanding
<1>3. AddProgress'
  BY DEF TypeOK, AddSteps, DelSteps, AddProgress
<1>4. DelProgress'
  BY DEF TypeOK, AddSteps, DelSteps, DelProgress
<1>5. LockFollowsPlace'
  BY DEF TypeOK, LockFollowsPlace
<1>6. RunningAttached'
  BY DEF TypeOK, Issued, Outstanding, RunningAttached
<1>7. LockNamesDev'
  BY DEF TypeOK, Issued, Outstanding, AddSteps, LockNamesDev
<1>8. QED BY <1>1, <1>2, <1>3, <1>4, <1>5, <1>6, <1>7

\* The cached NetConf of a sandbox that is not running changes.
LEMMA AddSaveStep ==
  ASSUME IInv, AddSave
  PROVE  IInv'
<1> USE ConstantsAssumption DEF IInv, AddSave, kernel, Outcome, Goto, Frame
<1>1. TypeOK'
  BY DEF TypeOK, RtStates, AddSteps, DelSteps, Requests
<1>2. Issued'
  BY DEF TypeOK, AddSteps, DelSteps, Requests, Issued, Outstanding
<1>3. AddProgress'
  BY DEF TypeOK, AddSteps, DelSteps, AddProgress
<1>4. DelProgress'
  BY DEF TypeOK, AddSteps, DelSteps, DelProgress
<1>5. LockFollowsPlace'
  BY DEF TypeOK, LockFollowsPlace
<1>6. RunningAttached'
  <2>1. \A t \in Sandboxes : rt[t] = "running" => cache'[t] = cache[t]
    BY DEF TypeOK, AddSteps, Issued, Outstanding
  <2>2. faults \in Nat /\ faults' >= faults
    BY DEF TypeOK
  <2>3. QED BY <2>1, <2>2 DEF RunningAttached
<1>7. LockNamesDev'
  BY DEF TypeOK, Issued, Outstanding, AddSteps, LockNamesDev
<1>8. QED BY <1>1, <1>2, <1>3, <1>4, <1>5, <1>6, <1>7

\* The VF is in this sandbox or has no netdev: nobody runs on it.
LEMMA AddLockStep ==
  ASSUME IInv, AddLock
  PROVE  IInv'
<1> USE ConstantsAssumption DEF IInv, AddLock, Outcome, Evicted, StillNamed,
      Goto, Frame
<1>1. TypeOK'
  BY DEF TypeOK, RtStates, AddSteps, DelSteps, Requests
<1>2. Issued'
  BY DEF TypeOK, AddSteps, DelSteps, Requests, Issued, Outstanding
<1>3. AddProgress'
  BY DEF TypeOK, AddSteps, DelSteps, AddProgress
<1>4. DelProgress'
  BY DEF TypeOK, AddSteps, DelSteps, DelProgress
<1>5. LockFollowsPlace'
  BY DEF TypeOK, AddProgress, LockFollowsPlace
<1>6. RunningAttached'
  <2>1. \A t \in Sandboxes :
          rt[t] = "running" /\ t \in netns => t # sb /\ dev[t] # vf
    <3>1. pc \in AddSteps /\ pc = "addLock" /\ sb \in Sandboxes /\ vf \in VFs
      BY DEF TypeOK, AddSteps
    <3>2. rt[sb] # "running"
      BY <3>1 DEF Issued, Outstanding
    <3>3. place[vf] \in {None, sb}
      BY <3>1 DEF AddProgress, LockFollowsPlace
    <3>4. QED BY <3>1, <3>2, <3>3 DEF RunningAttached
  <2>2. \A t \in Sandboxes :
          /\ rt[t] = "running" /\ t \in netns
          => /\ place'[dev[t]] = place[dev[t]]
             /\ dev[t] \in named' <=> dev[t] \in named
             /\ lock'[dev[t]] = lock[dev[t]]
    BY <2>1 DEF TypeOK, Issued, RunningAttached
  <2>3. faults \in Nat /\ faults' >= faults
    BY DEF TypeOK
  <2>4. QED BY <2>2, <2>3 DEF RunningAttached
<1>7. LockNamesDev'
  BY DEF TypeOK, Issued, Outstanding, AddSteps, LockNamesDev
<1>8. QED BY <1>1, <1>2, <1>3, <1>4, <1>5, <1>6, <1>7

\* The cleanup touches the VFs of a sandbox that is not running.
LEMMA AddUndoStep ==
  ASSUME IInv, AddUndo
  PROVE  IInv'
<1> USE ConstantsAssumption DEF IInv, AddUndo, disk, Outcome, Evicted,
      StillNamed, Release, ReturnAdd, Frame
<1>1. TypeOK'
  BY DEF TypeOK, RtStates, AddSteps, DelSteps, Requests
<1>2. Issued'
  BY DEF TypeOK, AddSteps, DelSteps, Requests, Issued, Outstanding
<1>3. AddProgress'
  BY DEF TypeOK, AddSteps, DelSteps, AddProgress
<1>4. DelProgress'
  BY DEF TypeOK, AddSteps, DelSteps, DelProgress
<1>5. LockFollowsPlace'
  BY DEF TypeOK, LockFollowsPlace
<1>6. RunningAttached'
  <2>1. rt[sb] # "running"
    BY DEF TypeOK, AddSteps, Issued, Outstanding
  <2>2. SUFFICES ASSUME NEW t \in Sandboxes, rt[t] = "running", t \in netns,
                        t # sb
                 PROVE  /\ place'[dev[t]] = t
                        /\ dev[t] \in named'
    BY <2>1 DEF TypeOK, RunningAttached
  <2>3. dev[t] \in VFs /\ place[dev[t]] = t /\ dev[t] \in named
    BY <2>2 DEF TypeOK, Issued, RunningAttached
  <2>4. QED BY <2>2, <2>3 DEF TypeOK
<1>7. LockNamesDev'
  BY DEF TypeOK, Issued, Outstanding, AddSteps, LockNamesDev
<1>8. QED BY <1>1, <1>2, <1>3, <1>4, <1>5, <1>6, <1>7

\* A sandbox becomes running with everything in place.
LEMMA AddPortStep ==
  ASSUME IInv, AddPort
  PROVE  IInv'
<1> USE ConstantsAssumption DEF IInv, AddPort, kernel, disk, Outcome, Release,
      ReturnAdd, Frame
<1>1. TypeOK'
  BY DEF TypeOK, RtStates, AddSteps, DelSteps, Requests
<1>2. Issued'
  BY DEF TypeOK, AddSteps, DelSteps, Requests, Issued, Outstanding
<1>3. AddProgress'
  BY DEF TypeOK, AddSteps, DelSteps, AddProgress
<1>4. DelProgress'
  BY DEF TypeOK, AddSteps, DelSteps, DelProgress
<1>5. LockFollowsPlace'
  BY DEF TypeOK, LockFollowsPlace
<1>6. RunningAttached'
  BY DEF TypeOK, AddSteps, Issued, AddProgress, RunningAttached
<1>7. LockNamesDev'
  BY DEF TypeOK, Issued, Outstanding, AddSteps, LockNamesDev
<1>8. QED BY <1>1, <1>2, <1>3, <1>4, <1>5, <1>6, <1>7

\* Only the handler's state changes.
LEMMA DelLoadStep ==
  ASSUME IInv, DelLoad
  PROVE  IInv'
<1> USE ConstantsAssumption DEF IInv, DelLoad, kernel, disk, Outcome, Release,
      ReturnDel, Frame
<1>1. TypeOK'
  BY DEF TypeOK, RtStates, AddSteps, DelSteps, Requests
<1>2. Issued'
  BY DEF TypeOK, AddSteps, DelSteps, Requests, Issued, Outstanding
<1>3. AddProgress'
  BY DEF TypeOK, AddSteps, DelSteps, AddProgress
<1>4. DelProgress'
  BY DEF TypeOK, AddSteps, DelSteps, DelProgress
<1>5. LockFollowsPlace'
  BY DEF TypeOK, LockFollowsPlace
<1>6. RunningAttached'
  BY DEF TypeOK, Issued, Outstanding, RunningAttached
<1>7. LockNamesDev'
  BY DEF TypeOK, Issued, Outstanding, AddSteps, LockNamesDev
<1>8. QED BY <1>1, <1>2, <1>3, <1>4, <1>5, <1>6, <1>7

\* Only the IPAM address changes.
LEMMA DelIpamStep ==
  ASSUME IInv, DelIpam
  PROVE  IInv'
<1> USE ConstantsAssumption DEF IInv, DelIpam, kernel, disk, Outcome, Goto,
      Release, ReturnDel, Frame, DelReturns
<1>1. TypeOK'
  BY DEF TypeOK, RtStates, AddSteps, DelSteps, Requests
<1>2. Issued'
  BY DEF TypeOK, AddSteps, DelSteps, Requests, Issued, Outstanding
<1>3. AddProgress'
  BY DEF TypeOK, AddSteps, DelSteps, AddProgress
<1>4. DelProgress'
  BY DEF TypeOK, AddSteps, DelSteps, DelProgress
<1>5. LockFollowsPlace'
  BY DEF TypeOK, LockFollowsPlace
<1>6. RunningAttached'
  BY DEF TypeOK, Issued, Outstanding, RunningAttached
<1>7. LockNamesDev'
  BY DEF TypeOK, Issued, Outstanding, AddSteps, LockNamesDev
<1>8. QED BY <1>1, <1>2, <1>3, <1>4, <1>5, <1>6, <1>7

\* Only administrative settings change.
LEMMA DelResetStep ==
  ASSUME IInv, DelReset
  PROVE  IInv'
<1> USE ConstantsAssumption DEF IInv, DelReset, disk, Outcome, Goto, Frame,
      DelReturns
<1>1. TypeOK'
  BY DEF TypeOK, RtStates, AddSteps, DelSteps, Requests
<1>2. Issued'
  BY DEF TypeOK, AddSteps, DelSteps, Requests, Issued, Outstanding
<1>3. AddProgress'
  BY DEF TypeOK, AddSteps, DelSteps, AddProgress
<1>4. DelProgress'
  BY DEF TypeOK, AddSteps, DelSteps, DelProgress
<1>5. LockFollowsPlace'
  BY DEF TypeOK, LockFollowsPlace
<1>6. RunningAttached'
  BY DEF TypeOK, Issued, Outstanding, RunningAttached
<1>7. LockNamesDev'
  BY DEF TypeOK, Issued, Outstanding, AddSteps, LockNamesDev
<1>8. QED BY <1>1, <1>2, <1>3, <1>4, <1>5, <1>6, <1>7

\* The VF that moves was in the sandbox that is deleted.
LEMMA DelReleaseStep ==
  ASSUME IInv, DelRelease
  PROVE  IInv'
<1> USE ConstantsAssumption DEF IInv, DelRelease, disk, Outcome, Goto, Frame,
      DelReturns
<1>1. TypeOK'
  BY DEF TypeOK, RtStates, AddSteps, DelSteps, Requests
<1>2. Issued'
  BY DEF TypeOK, AddSteps, DelSteps, Requests, Issued, Outstanding
<1>3. AddProgress'
  BY DEF TypeOK, AddSteps, DelSteps, AddProgress
<1>4. DelProgress'
  BY DEF TypeOK, DelProgress, LockFollowsPlace
<1>5. LockFollowsPlace'
  BY DEF TypeOK, LockFollowsPlace
<1>6. RunningAttached'
  <2>1. rt[sb] # "running"
    BY DEF TypeOK, DelSteps, Issued, Outstanding
  <2>2. SUFFICES ASSUME NEW t \in Sandboxes, rt[t] = "running", t \in netns,
                        t # sb
                 PROVE  /\ place'[dev[t]] = t
                        /\ dev[t] \in named'
    BY <2>1 DEF TypeOK, RunningAttached
  <2>3. dev[t] \in VFs /\ place[dev[t]] = t /\ dev[t] \in named
    BY <2>2 DEF TypeOK, Issued, RunningAttached
  <2>4. QED BY <2>2, <2>3 DEF TypeOK
<1>7. LockNamesDev'
  BY DEF TypeOK, Issued, Outstanding, AddSteps, LockNamesDev
<1>8. QED BY <1>1, <1>2, <1>3, <1>4, <1>5, <1>6, <1>7

\* The VF is on the host, so nobody runs on it.
LEMMA DelUnlockStep ==
  ASSUME IInv, DelUnlock
  PROVE  IInv'
<1> USE ConstantsAssumption DEF IInv, DelUnlock, kernel, Outcome, Release,
      ReturnDel, Frame, Unlocked, DelReturns
<1>1. TypeOK'
  BY DEF TypeOK, RtStates, AddSteps, DelSteps, Requests
<1>2. Issued'
  BY DEF TypeOK, AddSteps, DelSteps, Requests, Issued, Outstanding
<1>3. AddProgress'
  BY DEF TypeOK, AddSteps, DelSteps, AddProgress
<1>4. DelProgress'
  BY DEF TypeOK, AddSteps, DelSteps, DelProgress
<1>5. LockFollowsPlace'
  BY DEF TypeOK, LockFollowsPlace
<1>6. RunningAttached'
  BY DEF TypeOK, DelProgress, RunningAttached
<1>7. LockNamesDev'
  BY DEF TypeOK, Issued, Outstanding, AddSteps, LockNamesDev
<1>8. QED BY <1>1, <1>2, <1>3, <1>4, <1>5, <1>6, <1>7

\* The cached NetConf of a sandbox that is not running changes.
LEMMA DelCleanStep ==
  ASSUME IInv, DelClean
  PROVE  IInv'
<1> USE ConstantsAssumption DEF IInv, DelClean, kernel, Outcome, Goto,
      Release, ReturnDel, Frame
<1>1. TypeOK'
  BY DEF TypeOK, RtStates, AddSteps, DelSteps, Requests
<1>2. Issued'
  BY DEF TypeOK, AddSteps, DelSteps, Requests, Issued, Outstanding
<1>3. AddProgress'
  BY DEF TypeOK, AddSteps, DelSteps, AddProgress
<1>4. DelProgress'
  BY DEF TypeOK, AddSteps, DelSteps, DelProgress
<1>5. LockFollowsPlace'
  BY DEF TypeOK, LockFollowsPlace
<1>6. RunningAttached'
  <2>1. rt[sb] = "deleting"
    BY DEF TypeOK, DelSteps, Issued, Outstanding
  <2>2. \A t \in Sandboxes : rt'[t] = "running" => t # sb /\ rt[t] = "running"
    BY <2>1 DEF TypeOK
  <2>3. \A t \in Sandboxes : t # sb => cache'[t] = cache[t]
    BY DEF TypeOK
  <2>4. faults \in Nat /\ faults' >= faults
    BY DEF TypeOK
  <2>5. QED BY <2>2, <2>3, <2>4 DEF RunningAttached
<1>7. LockNamesDev'
  BY DEF TypeOK, Issued, Outstanding, AddSteps, LockNamesDev
<1>8. QED BY <1>1, <1>2, <1>3, <1>4, <1>5, <1>6, <1>7

\* The VF is on the host, so nobody runs on it.
LEMMA DelPortStep ==
  ASSUME IInv, DelPort
  PROVE  IInv'
<1> USE ConstantsAssumption DEF IInv, DelPort, kernel, disk, Outcome, Release,
      ReturnDel, Frame
<1>1. TypeOK'
  BY DEF TypeOK, RtStates, AddSteps, DelSteps, Requests
<1>2. Issued'
  BY DEF TypeOK, AddSteps, DelSteps, Requests, Issued, Outstanding
<1>3. AddProgress'
  BY DEF TypeOK, AddSteps, DelSteps, AddProgress
<1>4. DelProgress'
  BY DEF TypeOK, AddSteps, DelSteps, DelProgress
<1>5. LockFollowsPlace'
  BY DEF TypeOK, LockFollowsPlace
<1>6. RunningAttached'
  BY DEF TypeOK, DelProgress, RunningAttached
<1>7. LockNamesDev'
  BY DEF TypeOK, Issued, Outstanding, AddSteps, LockNamesDev
<1>8. QED BY <1>1, <1>2, <1>3, <1>4, <1>5, <1>6, <1>7

\* What a crash forgets protects nothing that stays.
LEMMA CrashStep ==
  ASSUME IInv, Crash
  PROVE  IInv'
<1> USE ConstantsAssumption DEF IInv, Crash, disk, Evicted, StillNamed,
      NetnsOpen, Release
<1>1. TypeOK'
  BY DEF TypeOK, RtStates, AddSteps, DelSteps, Requests
<1>2. Issued'
  BY DEF TypeOK, AddSteps, DelSteps, Requests, Issued, Outstanding
<1>3. AddProgress'
  BY DEF TypeOK, AddSteps, DelSteps, AddProgress
<1>4. DelProgress'
  BY DEF TypeOK, AddSteps, DelSteps, DelProgress
<1>5. LockFollowsPlace'
  BY DEF TypeOK, LockFollowsPlace
<1>6. RunningAttached'
  BY DEF TypeOK, Issued, Outstanding, RunningAttached
<1>7. LockNamesDev'
  BY DEF TypeOK, Issued, Outstanding, AddSteps, LockNamesDev
<1>8. QED BY <1>1, <1>2, <1>3, <1>4, <1>5, <1>6, <1>7

(***************************************************************************)
(* The theorems.                                                           *)
(***************************************************************************)
\* It holds before the first sandbox exists.
LEMMA InitIInv == Init => IInv
  BY ConstantsAssumption
     DEF Init, IInv, TypeOK, Issued, Outstanding, AddProgress, DelProgress,
         LockFollowsPlace, LockNamesDev, RunningAttached, RtStates, AddSteps, DelSteps,
         Requests

\* One case per action.
LEMMA NextIInv == IInv /\ [Next]_vars => IInv'
<1> SUFFICES ASSUME IInv, [Next]_vars PROVE IInv'
  OBVIOUS
<1>1. ASSUME NEW s \in Sandboxes, NEW v \in VFs, RunSandbox(s, v) PROVE IInv'
  BY <1>1, RunSandboxStep
<1>2. ASSUME NEW s \in Sandboxes, GiveUp(s) PROVE IInv'
  BY <1>2, GiveUpStep
<1>3. ASSUME NEW s \in Sandboxes, StopSandbox(s) PROVE IInv'
  BY <1>3, StopSandboxStep
<1>4. ASSUME NEW s \in Sandboxes, RemoveSandbox(s) PROVE IInv'
  BY <1>4, RemoveSandboxStep
<1>5. ASSUME NEW s \in Sandboxes, LoseNetns(s) PROVE IInv'
  BY <1>5, LoseNetnsStep
<1>6. ASSUME NEW r \in waiting, Acquire(r) PROVE IInv'
  BY <1>6, AcquireStep
<1>7. CASE AddStep
  BY <1>7, AddLoadConfStep, AddApplyStep, AddSetupStep, AddIpamStep,
     AddSaveStep, AddLockStep, AddUndoStep, AddPortStep DEF AddStep
<1>8. CASE DelStep
  BY <1>8, DelLoadStep, DelIpamStep, DelResetStep, DelReleaseStep,
     DelUnlockStep, DelCleanStep, DelPortStep DEF DelStep
<1>9. CASE Crash
  BY <1>9, CrashStep
<1>10. CASE UNCHANGED vars
  BY <1>10 DEF vars, IInv, TypeOK, Issued, Outstanding, AddProgress,
     DelProgress, LockFollowsPlace, LockNamesDev, RunningAttached
<1>11. QED
  BY <1>1, <1>2, <1>3, <1>4, <1>5, <1>6, <1>7, <1>8, <1>9, <1>10 DEF Next

\* The inductive invariant holds in every reachable state.
LEMMA Invariance == Spec => []IInv
<1>1. Init => IInv
  BY InitIInv
<1>2. IInv /\ [Next]_vars => IInv'
  BY NextIInv
<1>3. QED BY <1>1, <1>2, PTL DEF Spec

\* Every reachable state of the CNI server, the SR-IOV manager and its records
\* is well formed, and a handler past its early returns works on a VF.
THEOREM TypeCorrect == Spec => []TypeOK
<1>1. IInv => TypeOK
  BY DEF IInv
<1>2. QED BY Invariance, <1>1, PTL

\* No crash, failed call, vanished namespace or late DEL of another sandbox
\* takes the VF, the bridge port or the cached NetConf of a running sandbox away,
\* and a failed call at most its allocation file.
THEOREM RunningStaysAttached == Spec => []RunningAttached
<1>1. IInv => RunningAttached
  BY DEF IInv
<1>2. QED BY Invariance, <1>1, PTL

\* What LockOnlyByOwner says of one VF.
GivenUp(v) ==
  \/ pc = "delUnlock" /\ sb = lock[v]
  \/ /\ pc = "addLoad" /\ vf = v /\ faults' = faults + 1
     /\ lock'[v] = None
     /\ rt[lock[v]] = "running" => pc' = "idle"

\* Only three actions write allocation files.  AddLock finds none; DelUnlock
\* takes its own away; an ADD in which ns.GetNS fails is refused if the sandbox
\* that the file names is running, because its VF is not on the host.
LEMMA LockStep ==
  ASSUME IInv, [Next]_vars, NEW v \in VFs, lock[v] \in netns,
         lock'[v] # lock[v]
  PROVE  GivenUp(v)
<1> USE DEF IInv, Unlocked, Frame, disk
<1>1. CASE AddLoadConf
  <2>1. pc = "addLoad" /\ vf = v /\ lock'[v] = None
    BY <1>1 DEF AddLoadConf, TypeOK
  <2>2. faults' = faults + 1
    BY <1>1, <2>1 DEF AddLoadConf, Allocated, Outcome
  <2>3. ASSUME rt[lock[v]] = "running" PROVE pc' = "idle"
    <3>1. place[v] = lock[v] /\ v \notin DpdkVFs
      BY <2>3, ConstantsAssumption
         DEF TypeOK, LockNamesDev, RunningAttached, LockFollowsPlace
    <3>2. ~Usable(vf)
      BY <2>1, <3>1, ConstantsAssumption DEF Usable, TypeOK
    <3>3. QED BY <1>1, <3>2 DEF AddLoadConf, ReturnAdd, Release
  <2>4. QED BY <2>1, <2>2, <2>3 DEF GivenUp
<1>2. CASE AddLock
  BY <1>2, ConstantsAssumption DEF AddLock, TypeOK, AddProgress
<1>3. CASE DelUnlock
  BY <1>3, ConstantsAssumption DEF DelUnlock, TypeOK, DelProgress, GivenUp
<1>4. ASSUME ~AddLoadConf, ~AddLock, ~DelUnlock PROVE lock' = lock
  BY <1>4 DEF Next, AddStep, DelStep, vars, RunSandbox, GiveUp, StopSandbox,
     RemoveSandbox, LoseNetns, Acquire, AddApply, AddSetup, AddIpam, AddSave,
     AddUndo, AddPort, DelLoad, DelIpam, DelReset, DelRelease, DelClean,
     DelPort, Crash
<1>5. QED BY <1>1, <1>2, <1>3, <1>4

\* The PCI allocation of a live sandbox is given up by its own DEL, or by an ADD
\* whose ns.GetNS fails in IsAllocated; never to the gain of that ADD if the
\* sandbox is running.
THEOREM LockIsOwned == Spec => LockOnlyByOwner
<1>1. IInv /\ [Next]_vars =>
        [\A v \in VFs : lock[v] \in netns /\ lock'[v] # lock[v] =>
           \/ pc = "delUnlock" /\ sb = lock[v]
           \/ /\ pc = "addLoad" /\ vf = v /\ faults' = faults + 1
              /\ lock'[v] = None
              /\ rt[lock[v]] = "running" => pc' = "idle"]_vars
  BY LockStep DEF GivenUp
<1>2. QED BY Invariance, <1>1, PTL DEF Spec, LockOnlyByOwner

(***************************************************************************)
(* HostCni implements VfLease.                                             *)
(***************************************************************************)
\* The sandboxes that VfLease sees, and the VFs as VfLease sees them.
Running == {s \in netns : rt[s] = "running"}
Users == [v \in VFs |-> {s \in netns : rt[s] = "running" /\ dev[s] = v}]

\* The abstract state depends on the running sandboxes and their VFs only.
LEMMA UsersFollowRunning ==
  ASSUME Running' = Running, \A s \in Running : dev'[s] = dev[s]
  PROVE  Users' = Users
<1>1. \A v : {s \in netns' : rt'[s] = "running" /\ dev'[s] = v}
               = {s \in netns : rt[s] = "running" /\ dev[s] = v}
  <2> SUFFICES ASSUME NEW v, NEW s
               PROVE  (s \in netns' /\ rt'[s] = "running" /\ dev'[s] = v)
                        <=> (s \in netns /\ rt[s] = "running" /\ dev[s] = v)
    OBVIOUS
  <2>1. s \in Running' <=> s \in Running
    OBVIOUS
  <2>2. QED BY <2>1 DEF Running
<1>2. QED BY <1>1 DEF Users

\* The handlers answer for sandboxes that wait for an answer, and a crash stops
\* none that runs.
LEMMA QuietSteps ==
  ASSUME IInv, [Next]_vars, ~AddPort, ~DelPort,
         \A s \in Sandboxes : ~StopSandbox(s) /\ ~LoseNetns(s)
  PROVE  Users' = Users /\ port' = port
<1> USE DEF IInv
<1> DEFINE Quiet == /\ port' = port /\ Running' = Running
                    /\ \A s \in Running : dev'[s] = dev[s]
<1>1. Quiet
  <2>1. ASSUME NEW s \in Sandboxes, NEW v \in VFs, RunSandbox(s, v)
        PROVE  Quiet
    BY <2>1 DEF RunSandbox, Running, TypeOK
  <2>2. ASSUME NEW s \in Sandboxes, GiveUp(s) \/ RemoveSandbox(s) PROVE Quiet
    BY <2>2 DEF GiveUp, RemoveSandbox, DropNetns, Running, TypeOK
  <2>3. ASSUME NEW r \in waiting, Acquire(r) PROVE Quiet
    BY <2>3 DEF Acquire, Running
  <2>4. CASE AddStep
    <3>1. rt' = rt \/ (\E x \in {"failed"} : rt' = [rt EXCEPT ![sb] = IF @ # "adding" THEN @ ELSE x])
      BY <2>4 DEF AddStep, AddLoadConf, AddApply, AddSetup, AddIpam, AddSave,
         AddLock, AddUndo, ReturnAdd, Goto
    <3>2. port' = port /\ netns' = netns /\ dev' = dev
      BY <2>4 DEF AddStep, AddLoadConf, AddApply, AddSetup, AddIpam, AddSave,
         AddLock, AddUndo, Frame
    <3>3. QED BY <3>1, <3>2 DEF Running, TypeOK
  <2>5. CASE DelStep
    <3>1. rt' = rt \/ (\E x \in {"deleted", "failed"} : rt' = [rt EXCEPT ![sb] = IF @ # "deleting" THEN @ ELSE x])
      BY <2>5 DEF DelStep, DelLoad, DelIpam, DelReset, DelRelease, DelUnlock,
         DelClean, ReturnDel, DelReturns, Goto
    <3>2. port' = port /\ netns' = netns /\ dev' = dev
      BY <2>5 DEF DelStep, DelLoad, DelIpam, DelReset, DelRelease, DelUnlock,
         DelClean, Frame
    <3>3. QED BY <3>1, <3>2 DEF Running, TypeOK
  <2>6. CASE Crash
    BY <2>6 DEF Crash, Running, TypeOK
  <2>7. CASE UNCHANGED vars
    BY <2>7 DEF vars, Running
  <2>8. QED BY <2>1, <2>2, <2>3, <2>4, <2>5, <2>6, <2>7 DEF Next
<1>2. QED BY <1>1, UsersFollowRunning

\* A sandbox that is stopped, or whose namespace vanishes, returns its VF.
LEMMA ReturnStep ==
  ASSUME IInv, NEW s \in Sandboxes, StopSandbox(s) \/ LoseNetns(s)
  PROVE  [Lease!Next]_<<Users, port>>
<1> USE DEF IInv
<1>0. port' = port /\ dev' = dev /\ Running' = Running \ {s}
  BY DEF StopSandbox, LoseNetns, DropNetns, Running, TypeOK
<1>1. CASE s \notin Running
  BY <1>0, <1>1, UsersFollowRunning
<1>2. CASE s \in Running
  <2>1. PICK v \in VFs : v = dev[s]
    BY <1>2 DEF Running, Issued
  <2>2. s \in Users[v]
    BY <1>2, <2>1 DEF Running, Users
  <2>3. Users' = [Users EXCEPT ![v] = @ \ {s}]
    <3>1. \A w \in VFs : Users'[w] = {t \in Running' : dev[t] = w}
      BY <1>0 DEF Running, Users
    <3>2. \A w \in VFs : Users[w] = {t \in Running : dev[t] = w}
      BY DEF Running, Users
    <3>3. ASSUME NEW w \in VFs
          PROVE  Users'[w] = IF w = v THEN Users[w] \ {s} ELSE Users[w]
      <4>1. \A t : t \in Users'[w] <=> t \in Running /\ t # s /\ dev[t] = w
        BY <1>0, <3>1
      <4>2. \A t : t \in Users[w] <=> t \in Running /\ dev[t] = w
        BY <3>2
      <4>3. CASE w = v
        BY <2>1, <4>1, <4>2, <4>3
      <4>4. CASE w # v
        BY <2>1, <4>1, <4>2, <4>4
      <4>5. QED BY <4>3, <4>4
    <3>4. Users = [w \in VFs |-> Users[w]] /\ Users' = [w \in VFs |-> Users'[w]]
      BY DEF Users
    <3>5. QED BY <3>3, <3>4
  <2>4. Lease!Return(s, v)
    BY <1>0, <2>2, <2>3 DEF Lease!Return, Users
  <2>5. QED BY <2>4 DEF Lease!Next
<1>3. QED BY <1>1, <1>2

\* The VF of an ADD that succeeds is lent to nobody, because the allocation file
\* names the new sandbox; otherwise the port is the only thing that changes.
LEMMA AddPortRefines ==
  ASSUME IInv, AddPort
  PROVE  [Lease!Next]_<<Users, port>>
<1> USE DEF IInv
<1>0. /\ netns' = netns /\ dev' = dev
      /\ sb \in Sandboxes /\ vf \in VFs /\ vf = dev[sb] /\ rt[sb] # "running"
  BY DEF AddPort, Frame, TypeOK, AddSteps, Issued, Outstanding
<1>1. PICK s \in Sandboxes, v \in VFs : s = sb /\ v = vf
  BY <1>0
<1>2. port' = port \/ port' = port \cup {v}
  BY <1>1 DEF AddPort
<1>3. CASE rt'[sb] # "running" \/ sb \notin netns
  <2>1. Running' = Running
    BY <1>0, <1>3 DEF AddPort, ReturnAdd, Running, TypeOK
  <2>2. Users' = Users
    BY <1>0, <2>1, UsersFollowRunning
  <2>3. port' = port \cup {v} => Lease!Plumb(v)
    BY <2>2 DEF Lease!Plumb, Users
  <2>4. QED BY <1>2, <2>2, <2>3 DEF Lease!Next
<1>4. CASE rt'[sb] = "running" /\ sb \in netns
  <2>1. vf \notin DpdkVFs /\ port' = port \cup {v}
    BY <1>0, <1>1, <1>4 DEF AddPort, ReturnAdd, TypeOK
  <2>2. Running' = Running \cup {s}
    BY <1>0, <1>1, <1>4 DEF AddPort, ReturnAdd, Running, TypeOK
  <2>3. place[vf] = sb
    BY <1>4, <2>1 DEF AddPort, AddProgress
  <2>4. Users[v] = {}
    BY <1>0, <1>1, <2>3 DEF Users, RunningAttached, TypeOK
  <2>5. Users' = [Users EXCEPT ![v] = {s}]
    <3>1. \A w \in VFs : Users'[w] = {t \in Running' : dev[t] = w}
      BY <1>0 DEF Running, Users
    <3>2. \A w \in VFs : Users[w] = {t \in Running : dev[t] = w}
      BY DEF Running, Users
    <3>3. ASSUME NEW w \in VFs
          PROVE  Users'[w] = IF w = v THEN {s} ELSE Users[w]
      <4>1. \A t : t \in Users'[w] <=> (t \in Running \/ t = s) /\ dev[t] = w
        BY <2>2, <3>1
      <4>2. \A t : t \in Users[w] <=> t \in Running /\ dev[t] = w
        BY <3>2
      <4>3. CASE w = v
        BY <1>0, <1>1, <2>4, <4>1, <4>2, <4>3
      <4>4. CASE w # v
        BY <1>0, <1>1, <4>1, <4>2, <4>4
      <4>5. QED BY <4>3, <4>4
    <3>4. Users = [w \in VFs |-> Users[w]] /\ Users' = [w \in VFs |-> Users'[w]]
      BY DEF Users
    <3>5. QED BY <3>3, <3>4
  <2>6. Lease!Lend(s, v)
    BY <2>1, <2>4, <2>5 DEF Lease!Lend, Users
  <2>7. QED BY <2>6 DEF Lease!Next
<1>5. QED BY <1>3, <1>4

\* The port of a VF that is back on the host, and so lent to nobody, goes.
LEMMA DelPortRefines ==
  ASSUME IInv, DelPort
  PROVE  [Lease!Next]_<<Users, port>>
<1> USE DEF IInv
<1>0. /\ netns' = netns /\ dev' = dev
      /\ sb \in Sandboxes /\ vf \in VFs /\ rt[sb] = "deleting" /\ place[vf] = None
  BY DEF DelPort, Frame, TypeOK, DelSteps, Issued, Outstanding, DelProgress
<1>1. PICK v \in VFs : v = vf
  BY <1>0
<1>2. Running' = Running
  BY <1>0 DEF DelPort, ReturnDel, Running, TypeOK
<1>3. Users' = Users
  BY <1>0, <1>2, UsersFollowRunning
<1>4. Users[v] = {}
  BY <1>0, <1>1, ConstantsAssumption DEF Users, RunningAttached, TypeOK
<1>5. port' = port \/ port' = port \ {v}
  BY <1>1 DEF DelPort
<1>6. port' = port \ {v} => Lease!Unplumb(v)
  BY <1>3, <1>4 DEF Lease!Unplumb, Users
<1>7. QED BY <1>3, <1>5, <1>6 DEF Lease!Next

\* Every behaviour of the host's CNI path is one of VfLease: a VF is lent to one
\* running sandbox at a time, and its bridge port stays while it is lent.
THEOREM ImplementsLease == Spec => LeaseSpec
<1>1. Init => Lease!Init
  BY DEF Init, Lease!Init
<1>2. IInv /\ [Next]_vars => [Lease!Next]_<<Users, port>>
  <2> SUFFICES ASSUME IInv, [Next]_vars PROVE [Lease!Next]_<<Users, port>>
    OBVIOUS
  <2>1. CASE AddPort
    BY <2>1, AddPortRefines
  <2>2. CASE DelPort
    BY <2>2, DelPortRefines
  <2>3. CASE \E s \in Sandboxes : StopSandbox(s) \/ LoseNetns(s)
    BY <2>3, ReturnStep
  <2>4. CASE ~AddPort /\ ~DelPort
             /\ \A s \in Sandboxes : ~StopSandbox(s) /\ ~LoseNetns(s)
    BY <2>4, QuietSteps
  <2>5. QED BY <2>1, <2>2, <2>3, <2>4
<1>3. [Lease!Next]_<<Users, port>> => [Lease!Next]_(Lease!vars)
  BY DEF Lease!vars, Users
<1>4. QED BY Invariance, <1>1, <1>2, <1>3, PTL DEF Spec, LeaseSpec, Lease!Spec

(***************************************************************************)
(* Undisturbed behaviours: no call fails, the daemon does not die and no   *)
(* namespace vanishes before its DEL.  What is left is the order in which  *)
(* the runtime's requests are sent, given up and served.                   *)
(***************************************************************************)
Undisturbed == MaxFaults = 0 /\ MaxCrashes = 0 /\ ~NetnsMayVanish

\* A namespace goes with its sandbox only.
NetnsOfSandbox ==
  \A s \in Sandboxes : s \in netns <=> rt[s] \notin {"none", "removed"}

\* The cached NetConf names the VF that kubelet gave.
CacheNamesDev ==
  \A s \in Sandboxes : cache[s] # None => cache[s] = dev[s] /\ rt[s] # "none"

\* Nothing is undone; CmdDel works on the VF of the cached NetConf, and keeps it
\* only for a reason.
HandlerState ==
  /\ pc # "addUndo"
  /\ pc \in {"addSetup", "addIpam", "addSave", "addLock", "addPort"}
       => adm[vf] = sb
  /\ pc \in {"delIpam", "delReset", "delRelease", "delUnlock", "delClean"}
       => cache[sb] = vf
  /\ pc = "delClean" =>
       \/ res = "released"
       \/ res = "err" /\ (vf \in DpdkVFs \/ sb \in MacSandboxes)

\* A cached NetConf whose namespace exists has the allocation file of its VF, and
\* the VF itself, except while its own handler is at work on them.
CacheHolds ==
  \A s \in netns : cache[s] # None =>
    /\ \/ lock[cache[s]] = s
       \/ sb = s /\ pc \in {"addLock", "delClean"}
    /\ \/ cache[s] \in DpdkVFs
       \/ place[cache[s]] = s /\ cache[s] \in named
       \/ sb = s /\ pc \in {"delUnlock", "delClean"}

CalmInv ==
  /\ NetnsOfSandbox
  /\ CacheNamesDev
  /\ HandlerState
  /\ CacheHolds
  /\ port \cap DpdkVFs = {}
  /\ RunningConfigured
  /\ MacSandboxes = {} => PortHasOwner

\* A new sandbox has no cached NetConf.
LEMMA CalmRunSandbox ==
  ASSUME Undisturbed, IInv, CalmInv, NEW s \in Sandboxes, NEW v \in VFs, RunSandbox(s, v)
  PROVE  CalmInv'
<1> USE ConstantsAssumption DEF IInv, TypeOK, CalmInv, Undisturbed,
      RunSandbox, kernel, disk, budget
<1>1. NetnsOfSandbox'
  BY DEF NetnsOfSandbox, Issued, Outstanding, AddSteps, DelSteps, Requests
<1>2. CacheNamesDev'
  BY DEF CacheNamesDev, Issued, Outstanding, AddSteps, DelSteps, Requests
<1>3. HandlerState'
  BY DEF HandlerState, Issued, Outstanding, AddSteps, DelSteps, Requests
<1>4. CacheHolds'
  BY DEF CacheHolds, CacheNamesDev, HandlerState, Issued, Outstanding,
     AddSteps, DelSteps
<1>5. port' \cap DpdkVFs = {}
  BY DEF HandlerState
<1>6. RunningConfigured'
  BY DEF RunningConfigured, HandlerState, Issued, Outstanding, AddSteps,
     DelSteps
<1>7. MacSandboxes = {} => PortHasOwner'
  BY DEF PortHasOwner, HandlerState, AddSteps, DelSteps
<1>8. QED BY <1>1, <1>2, <1>3, <1>4, <1>5, <1>6, <1>7

\* A sandbox given up keeps its namespace, and is not running.
LEMMA CalmGiveUp ==
  ASSUME Undisturbed, IInv, CalmInv, NEW s \in Sandboxes, GiveUp(s)
  PROVE  CalmInv'
<1> USE ConstantsAssumption DEF IInv, TypeOK, CalmInv, Undisturbed, GiveUp,
      kernel, disk, budget
<1>1. NetnsOfSandbox'
  BY DEF NetnsOfSandbox, Issued, Outstanding, AddSteps, DelSteps, Requests
<1>2. CacheNamesDev'
  BY DEF CacheNamesDev, Issued, Outstanding, AddSteps, DelSteps, Requests
<1>3. HandlerState'
  BY DEF HandlerState, Issued, Outstanding, AddSteps, DelSteps, Requests
<1>4. CacheHolds'
  BY DEF CacheHolds, HandlerState, Issued, Outstanding, AddSteps, DelSteps
<1>5. port' \cap DpdkVFs = {}
  BY DEF HandlerState
<1>6. RunningConfigured'
  BY DEF RunningConfigured, HandlerState, Issued, Outstanding, AddSteps,
     DelSteps
<1>7. MacSandboxes = {} => PortHasOwner'
  BY DEF PortHasOwner, HandlerState, AddSteps, DelSteps
<1>8. QED BY <1>1, <1>2, <1>3, <1>4, <1>5, <1>6, <1>7

\* A sandbox that is stopped keeps its namespace until its DEL is answered.
LEMMA CalmStopSandbox ==
  ASSUME Undisturbed, IInv, CalmInv, NEW s \in Sandboxes, StopSandbox(s)
  PROVE  CalmInv'
<1> USE ConstantsAssumption DEF IInv, TypeOK, CalmInv, Undisturbed,
      StopSandbox, kernel, disk, budget
<1>1. NetnsOfSandbox'
  BY DEF NetnsOfSandbox, Issued, Outstanding, AddSteps, DelSteps, Requests
<1>2. CacheNamesDev'
  BY DEF CacheNamesDev, Issued, Outstanding, AddSteps, DelSteps, Requests
<1>3. HandlerState'
  BY DEF HandlerState, Issued, Outstanding, AddSteps, DelSteps, Requests
<1>4. CacheHolds'
  BY DEF CacheHolds, HandlerState, Issued, Outstanding, AddSteps, DelSteps
<1>5. port' \cap DpdkVFs = {}
  BY DEF HandlerState
<1>6. RunningConfigured'
  BY DEF RunningConfigured, HandlerState, Issued, Outstanding, AddSteps,
     DelSteps
<1>7. MacSandboxes = {} => PortHasOwner'
  BY DEF PortHasOwner, HandlerState, AddSteps, DelSteps
<1>8. QED BY <1>1, <1>2, <1>3, <1>4, <1>5, <1>6, <1>7

\* The sandbox goes with its namespace.
LEMMA CalmRemoveSandbox ==
  ASSUME Undisturbed, IInv, CalmInv, NEW s \in Sandboxes, RemoveSandbox(s)
  PROVE  CalmInv'
<1> USE ConstantsAssumption DEF IInv, TypeOK, CalmInv, Undisturbed,
      RemoveSandbox, disk, budget, DropNetns, NetnsOpen, Evicted, StillNamed
<1>1. NetnsOfSandbox'
  BY DEF NetnsOfSandbox, Issued, Outstanding, AddSteps, DelSteps, Requests
<1>2. CacheNamesDev'
  BY DEF CacheNamesDev, Issued, Outstanding, AddSteps, DelSteps, Requests
<1>3. HandlerState'
  BY DEF HandlerState, Issued, Outstanding, AddSteps, DelSteps, Requests
<1>4. CacheHolds'
  BY DEF CacheHolds, HandlerState, Issued, Outstanding, AddSteps, DelSteps
<1>5. port' \cap DpdkVFs = {}
  BY DEF HandlerState
<1>6. RunningConfigured'
  BY DEF RunningConfigured, HandlerState, Issued, Outstanding, AddSteps,
     DelSteps
<1>7. MacSandboxes = {} => PortHasOwner'
  BY DEF PortHasOwner, HandlerState, AddSteps, DelSteps
<1>8. QED BY <1>1, <1>2, <1>3, <1>4, <1>5, <1>6, <1>7

\* A handler starts.
LEMMA CalmAcquire ==
  ASSUME Undisturbed, IInv, CalmInv, NEW r \in waiting, Acquire(r)
  PROVE  CalmInv'
<1> USE ConstantsAssumption DEF IInv, TypeOK, CalmInv, Undisturbed, Acquire,
      kernel, disk, budget
<1>1. NetnsOfSandbox'
  BY DEF NetnsOfSandbox, Issued, Outstanding, AddSteps, DelSteps, Requests
<1>2. CacheNamesDev'
  BY DEF CacheNamesDev, Issued, Outstanding, AddSteps, DelSteps, Requests
<1>3. HandlerState'
  BY DEF HandlerState, Issued, Outstanding, AddSteps, DelSteps, Requests
<1>4. CacheHolds'
  BY DEF CacheHolds, HandlerState, Issued, Outstanding, AddSteps, DelSteps
<1>5. port' \cap DpdkVFs = {}
  BY DEF HandlerState
<1>6. RunningConfigured'
  BY DEF RunningConfigured, HandlerState, Issued, Outstanding, AddSteps,
     DelSteps
<1>7. MacSandboxes = {} => PortHasOwner'
  BY DEF PortHasOwner, HandlerState, AddSteps, DelSteps
<1>8. QED BY <1>1, <1>2, <1>3, <1>4, <1>5, <1>6, <1>7

\* Only a file of a namespace that is gone is removed.
LEMMA CalmAddLoadConf ==
  ASSUME Undisturbed, IInv, CalmInv, AddLoadConf
  PROVE  CalmInv'
<1> USE ConstantsAssumption DEF IInv, TypeOK, CalmInv, Undisturbed,
      AddLoadConf, kernel, Outcome, Goto, Release, ReturnAdd, Frame,
      Allocated, Unlocked, Usable
<1>1. NetnsOfSandbox'
  BY DEF NetnsOfSandbox, Issued, Outstanding, AddSteps, DelSteps, Requests
<1>2. CacheNamesDev'
  BY DEF CacheNamesDev, Issued, Outstanding, AddSteps, DelSteps, Requests
<1>3. HandlerState'
  BY DEF HandlerState, Issued, Outstanding, AddSteps, DelSteps, Requests
<1>4. CacheHolds'
  BY DEF CacheHolds, HandlerState, Issued, Outstanding, AddSteps, DelSteps
<1>5. port' \cap DpdkVFs = {}
  BY DEF HandlerState
<1>6. RunningConfigured'
  BY DEF RunningConfigured, HandlerState, Issued, Outstanding, AddSteps,
     DelSteps
<1>7. MacSandboxes = {} => PortHasOwner'
  BY DEF PortHasOwner, HandlerState, AddSteps, DelSteps
<1>8. QED BY <1>1, <1>2, <1>3, <1>4, <1>5, <1>6, <1>7

\* The VF is on the host: nobody runs on it.
LEMMA CalmAddApply ==
  ASSUME Undisturbed, IInv, CalmInv, AddApply
  PROVE  CalmInv'
<1> USE ConstantsAssumption DEF IInv, TypeOK, CalmInv, Undisturbed, AddApply,
      disk, Outcome, Goto, Release, ReturnAdd, Frame
<1>1. NetnsOfSandbox'
  BY DEF NetnsOfSandbox, Issued, Outstanding, AddSteps, DelSteps, Requests
<1>2. CacheNamesDev'
  BY DEF CacheNamesDev, Issued, Outstanding, AddSteps, DelSteps, Requests
<1>3. HandlerState'
  BY DEF HandlerState, Issued, Outstanding, AddSteps, DelSteps, Requests
<1>4. CacheHolds'
  BY DEF CacheHolds, HandlerState, Issued, Outstanding, AddSteps, DelSteps
<1>5. port' \cap DpdkVFs = {}
  BY DEF HandlerState
<1>6. RunningConfigured'
  BY DEF RunningConfigured, RunningAttached, AddProgress, HandlerState,
     Issued, Outstanding, AddSteps, DelSteps
<1>7. MacSandboxes = {} => PortHasOwner'
  BY DEF PortHasOwner, HandlerState, AddSteps, DelSteps
<1>8. QED BY <1>1, <1>2, <1>3, <1>4, <1>5, <1>6, <1>7

\* The VF is on the host: no cached NetConf whose namespace exists names it.
LEMMA CalmAddSetup ==
  ASSUME Undisturbed, IInv, CalmInv, AddSetup
  PROVE  CalmInv'
<1> USE ConstantsAssumption DEF IInv, TypeOK, CalmInv, Undisturbed, AddSetup,
      disk, Outcome, Goto, Frame
<1>1. NetnsOfSandbox'
  BY DEF NetnsOfSandbox, Issued, Outstanding, AddSteps, DelSteps, Requests
<1>2. CacheNamesDev'
  BY DEF CacheNamesDev, Issued, Outstanding, AddSteps, DelSteps, Requests
<1>3. HandlerState'
  BY DEF HandlerState, Issued, Outstanding, AddSteps, DelSteps, Requests
<1>4. CacheHolds'
  BY DEF CacheHolds, AddProgress, HandlerState, Issued, Outstanding, AddSteps,
     DelSteps
<1>5. port' \cap DpdkVFs = {}
  BY DEF HandlerState
<1>6. RunningConfigured'
  BY DEF RunningConfigured, HandlerState, Issued, Outstanding, AddSteps,
     DelSteps
<1>7. MacSandboxes = {} => PortHasOwner'
  BY DEF PortHasOwner, HandlerState, AddSteps, DelSteps
<1>8. QED BY <1>1, <1>2, <1>3, <1>4, <1>5, <1>6, <1>7

\* Only the IPAM address changes.
LEMMA CalmAddIpam ==
  ASSUME Undisturbed, IInv, CalmInv, AddIpam
  PROVE  CalmInv'
<1> USE ConstantsAssumption DEF IInv, TypeOK, CalmInv, Undisturbed, AddIpam,
      kernel, disk, Outcome, Goto, Frame
<1>1. NetnsOfSandbox'
  BY DEF NetnsOfSandbox, Issued, Outstanding, AddSteps, DelSteps, Requests
<1>2. CacheNamesDev'
  BY DEF CacheNamesDev, Issued, Outstanding, AddSteps, DelSteps, Requests
<1>3. HandlerState'
  BY DEF HandlerState, Issued, Outstanding, AddSteps, DelSteps, Requests
<1>4. CacheHolds'
  BY DEF CacheHolds, HandlerState, Issued, Outstanding, AddSteps, DelSteps
<1>5. port' \cap DpdkVFs = {}
  BY DEF HandlerState
<1>6. RunningConfigured'
  BY DEF RunningConfigured, HandlerState, Issued, Outstanding, AddSteps,
     DelSteps
<1>7. MacSandboxes = {} => PortHasOwner'
  BY DEF PortHasOwner, HandlerState, AddSteps, DelSteps
<1>8. QED BY <1>1, <1>2, <1>3, <1>4, <1>5, <1>6, <1>7

\* The cached NetConf names the VF that the sandbox was given.
LEMMA CalmAddSave ==
  ASSUME Undisturbed, IInv, CalmInv, AddSave
  PROVE  CalmInv'
<1> USE ConstantsAssumption DEF IInv, TypeOK, CalmInv, Undisturbed, AddSave,
      kernel, Outcome, Goto, Frame
<1>1. NetnsOfSandbox'
  BY DEF NetnsOfSandbox, Issued, Outstanding, AddSteps, DelSteps, Requests
<1>2. CacheNamesDev'
  BY DEF CacheNamesDev, Issued, Outstanding, AddSteps, DelSteps, Requests
<1>3. HandlerState'
  BY DEF HandlerState, Issued, Outstanding, AddSteps, DelSteps, Requests
<1>4. CacheHolds'
  BY DEF CacheHolds, CacheNamesDev, AddProgress, HandlerState, Issued,
     Outstanding, AddSteps, DelSteps
<1>5. port' \cap DpdkVFs = {}
  BY DEF HandlerState
<1>6. RunningConfigured'
  BY DEF RunningConfigured, HandlerState, Issued, Outstanding, AddSteps,
     DelSteps
<1>7. MacSandboxes = {} => PortHasOwner'
  BY DEF PortHasOwner, CacheNamesDev, HandlerState, Issued, Outstanding,
     AddSteps, DelSteps
<1>8. QED BY <1>1, <1>2, <1>3, <1>4, <1>5, <1>6, <1>7

\* The allocation file names the sandbox that has the VF.
LEMMA CalmAddLock ==
  ASSUME Undisturbed, IInv, CalmInv, AddLock
  PROVE  CalmInv'
<1> USE ConstantsAssumption DEF IInv, TypeOK, CalmInv, Undisturbed, AddLock,
      Outcome, Goto, Frame, Evicted, StillNamed
<1>1. NetnsOfSandbox'
  BY DEF NetnsOfSandbox, Issued, Outstanding, AddSteps, DelSteps, Requests
<1>2. CacheNamesDev'
  BY DEF CacheNamesDev, Issued, Outstanding, AddSteps, DelSteps, Requests
<1>3. HandlerState'
  BY DEF HandlerState, Issued, Outstanding, AddSteps, DelSteps, Requests
<1>4. CacheHolds'
  BY DEF CacheHolds, CacheNamesDev, NetnsOfSandbox, AddProgress, HandlerState,
     Issued, Outstanding, AddSteps, DelSteps
<1>5. port' \cap DpdkVFs = {}
  BY DEF HandlerState
<1>6. RunningConfigured'
  BY DEF RunningConfigured, HandlerState, Issued, Outstanding, AddSteps,
     DelSteps
<1>7. MacSandboxes = {} => PortHasOwner'
  BY DEF PortHasOwner, HandlerState, AddSteps, DelSteps
<1>8. QED BY <1>1, <1>2, <1>3, <1>4, <1>5, <1>6, <1>7

\* The sandbox runs with the settings that ApplyVFConfig made.
LEMMA CalmAddPort ==
  ASSUME Undisturbed, IInv, CalmInv, AddPort
  PROVE  CalmInv'
<1> USE ConstantsAssumption DEF IInv, TypeOK, CalmInv, Undisturbed, AddPort,
      kernel, disk, Outcome, Release, ReturnAdd, Frame
<1>1. NetnsOfSandbox'
  BY DEF NetnsOfSandbox, Issued, Outstanding, AddSteps, DelSteps, Requests
<1>2. CacheNamesDev'
  BY DEF CacheNamesDev, Issued, Outstanding, AddSteps, DelSteps, Requests
<1>3. HandlerState'
  BY DEF HandlerState, Issued, Outstanding, AddSteps, DelSteps, Requests
<1>4. CacheHolds'
  BY DEF CacheHolds, HandlerState, Issued, Outstanding, AddSteps, DelSteps
<1>5. port' \cap DpdkVFs = {}
  BY DEF HandlerState
<1>6. RunningConfigured'
  BY DEF RunningConfigured, HandlerState, Issued, Outstanding, AddSteps,
     DelSteps
<1>7. MacSandboxes = {} => PortHasOwner'
  BY DEF PortHasOwner, AddProgress, HandlerState, Issued, Outstanding,
     AddSteps, DelSteps
<1>8. QED BY <1>1, <1>2, <1>3, <1>4, <1>5, <1>6, <1>7

\* The handler goes on with the VF of the cached NetConf.
LEMMA CalmDelLoad ==
  ASSUME Undisturbed, IInv, CalmInv, DelLoad
  PROVE  CalmInv'
<1> USE ConstantsAssumption DEF IInv, TypeOK, CalmInv, Undisturbed, DelLoad,
      kernel, disk, Outcome, Release, ReturnDel, Frame
<1>1. NetnsOfSandbox'
  BY DEF NetnsOfSandbox, Issued, Outstanding, AddSteps, DelSteps, Requests
<1>2. CacheNamesDev'
  BY DEF CacheNamesDev, Issued, Outstanding, AddSteps, DelSteps, Requests
<1>3. HandlerState'
  BY DEF HandlerState, Issued, Outstanding, AddSteps, DelSteps, Requests
<1>4. CacheHolds'
  BY DEF CacheHolds, HandlerState, Issued, Outstanding, AddSteps, DelSteps
<1>5. port' \cap DpdkVFs = {}
  BY DEF HandlerState
<1>6. RunningConfigured'
  BY DEF RunningConfigured, HandlerState, Issued, Outstanding, AddSteps,
     DelSteps
<1>7. MacSandboxes = {} => PortHasOwner'
  BY DEF PortHasOwner, HandlerState, AddSteps, DelSteps
<1>8. QED BY <1>1, <1>2, <1>3, <1>4, <1>5, <1>6, <1>7

\* The namespace exists, so CmdDel goes on.
LEMMA CalmDelIpam ==
  ASSUME Undisturbed, IInv, CalmInv, DelIpam
  PROVE  CalmInv'
<1> USE ConstantsAssumption DEF IInv, TypeOK, CalmInv, Undisturbed, DelIpam,
      kernel, disk, Outcome, Goto, Release, ReturnDel, DelReturns, Frame
<1>1. NetnsOfSandbox'
  BY DEF NetnsOfSandbox, Issued, Outstanding, AddSteps, DelSteps, Requests
<1>2. CacheNamesDev'
  BY DEF CacheNamesDev, Issued, Outstanding, AddSteps, DelSteps, Requests
<1>3. HandlerState'
  BY DEF HandlerState, NetnsOfSandbox, Issued, Outstanding, AddSteps,
     DelSteps, Requests
<1>4. CacheHolds'
  BY DEF CacheHolds, HandlerState, Issued, Outstanding, AddSteps, DelSteps
<1>5. port' \cap DpdkVFs = {}
  BY DEF HandlerState
<1>6. RunningConfigured'
  BY DEF RunningConfigured, HandlerState, Issued, Outstanding, AddSteps,
     DelSteps
<1>7. MacSandboxes = {} => PortHasOwner'
  BY DEF PortHasOwner, HandlerState, AddSteps, DelSteps
<1>8. QED BY <1>1, <1>2, <1>3, <1>4, <1>5, <1>6, <1>7

\* The allocation file names the sandbox that is deleted, so that nobody else
\* runs on the VF that is reset.
LEMMA CalmDelReset ==
  ASSUME Undisturbed, IInv, CalmInv, DelReset
  PROVE  CalmInv'
<1> USE ConstantsAssumption DEF IInv, TypeOK, CalmInv, Undisturbed, DelReset,
      disk, Outcome, Goto, DelReturns, Frame
<1>1. NetnsOfSandbox'
  BY DEF NetnsOfSandbox, Issued, Outstanding, AddSteps, DelSteps, Requests
<1>2. CacheNamesDev'
  BY DEF CacheNamesDev, Issued, Outstanding, AddSteps, DelSteps, Requests
<1>3. HandlerState'
  BY DEF HandlerState, Issued, Outstanding, AddSteps, DelSteps, Requests
<1>4. CacheHolds'
  BY DEF CacheHolds, HandlerState, Issued, Outstanding, AddSteps, DelSteps
<1>5. port' \cap DpdkVFs = {}
  BY DEF HandlerState
<1>6. RunningConfigured'
  <2>1. sb \in Sandboxes /\ vf \in VFs /\ rt[sb] = "deleting" /\ cache[sb] = vf
    BY DEF HandlerState, Issued, Outstanding, DelSteps
  <2>2. sb \in netns
    BY <2>1 DEF NetnsOfSandbox
  <2>3. lock[vf] = sb
    BY <2>1, <2>2 DEF CacheHolds
  <2>4. \A t \in Sandboxes :
          rt[t] = "running" /\ t \in netns => dev[t] # vf /\ adm[dev[t]] = t
    BY <2>1, <2>3 DEF RunningConfigured, RunningAttached
  <2>5. /\ UNCHANGED <<rt, dev, netns>>
        /\ adm' = adm \/ adm' = [adm EXCEPT ![vf] = None]
    OBVIOUS
  <2>6. QED BY <2>1, <2>4, <2>5 DEF RunningConfigured, Issued
<1>7. MacSandboxes = {} => PortHasOwner'
  BY DEF PortHasOwner, HandlerState, AddSteps, DelSteps
<1>8. QED BY <1>1, <1>2, <1>3, <1>4, <1>5, <1>6, <1>7

\* The VF is in the namespace unless it has no netdev.
LEMMA CalmDelRelease ==
  ASSUME Undisturbed, IInv, CalmInv, DelRelease
  PROVE  CalmInv'
<1> USE ConstantsAssumption DEF IInv, TypeOK, CalmInv, Undisturbed,
      DelRelease, disk, Outcome, Goto, DelReturns, Frame
<1>1. NetnsOfSandbox'
  BY DEF NetnsOfSandbox, Issued, Outstanding, AddSteps, DelSteps, Requests
<1>2. CacheNamesDev'
  BY DEF CacheNamesDev, Issued, Outstanding, AddSteps, DelSteps, Requests
<1>3. HandlerState'
  <2>1. sb \in Sandboxes /\ vf \in VFs /\ rt[sb] = "deleting" /\ cache[sb] = vf
    BY DEF HandlerState, Issued, Outstanding, DelSteps
  <2>2. sb \in netns /\ pc = "delRelease" /\ cache[sb] # None
    BY <2>1 DEF NetnsOfSandbox
  <2>3. \/ cache[sb] \in DpdkVFs
        \/ place[cache[sb]] = sb /\ cache[sb] \in named
        \/ pc \in {"delUnlock", "delClean"}
    BY <2>2, Zenon DEF CacheHolds
  <2>4. QED BY <2>1, <2>2, <2>3 DEF HandlerState
<1>4. CacheHolds'
  BY DEF CacheHolds, HandlerState, Issued, Outstanding, AddSteps, DelSteps
<1>5. port' \cap DpdkVFs = {}
  BY DEF HandlerState
<1>6. RunningConfigured'
  BY DEF RunningConfigured, HandlerState, Issued, Outstanding, AddSteps,
     DelSteps
<1>7. MacSandboxes = {} => PortHasOwner'
  BY DEF PortHasOwner, HandlerState, AddSteps, DelSteps
<1>8. QED BY <1>1, <1>2, <1>3, <1>4, <1>5, <1>6, <1>7

\* The allocation file is there and is its own.
LEMMA CalmDelUnlock ==
  ASSUME Undisturbed, IInv, CalmInv, DelUnlock
  PROVE  CalmInv'
<1> USE ConstantsAssumption DEF IInv, TypeOK, CalmInv, Undisturbed, DelUnlock,
      kernel, Outcome, Release, ReturnDel, Unlocked, DelReturns, Frame
<1>1. NetnsOfSandbox'
  BY DEF NetnsOfSandbox, Issued, Outstanding, AddSteps, DelSteps, Requests
<1>2. CacheNamesDev'
  BY DEF CacheNamesDev, Issued, Outstanding, AddSteps, DelSteps, Requests
<1>3. HandlerState'
  BY DEF HandlerState, Issued, Outstanding, AddSteps, DelSteps, Requests
<1>4. CacheHolds'
  BY DEF CacheHolds, NetnsOfSandbox, DelProgress, HandlerState, Issued,
     Outstanding, AddSteps, DelSteps
<1>5. port' \cap DpdkVFs = {}
  BY DEF HandlerState
<1>6. RunningConfigured'
  BY DEF RunningConfigured, HandlerState, Issued, Outstanding, AddSteps,
     DelSteps
<1>7. MacSandboxes = {} => PortHasOwner'
  BY DEF PortHasOwner, HandlerState, AddSteps, DelSteps
<1>8. QED BY <1>1, <1>2, <1>3, <1>4, <1>5, <1>6, <1>7

\* The cached NetConf goes when its VF has no port or the port is next.
LEMMA CalmDelClean ==
  ASSUME Undisturbed, IInv, CalmInv, DelClean
  PROVE  CalmInv'
<1> USE ConstantsAssumption DEF IInv, TypeOK, CalmInv, Undisturbed, DelClean,
      kernel, Outcome, Goto, Release, ReturnDel, Frame
<1>1. NetnsOfSandbox'
  BY DEF NetnsOfSandbox, Issued, Outstanding, AddSteps, DelSteps, Requests
<1>2. CacheNamesDev'
  BY DEF CacheNamesDev, Issued, Outstanding, AddSteps, DelSteps, Requests
<1>3. HandlerState'
  BY DEF HandlerState, Issued, Outstanding, AddSteps, DelSteps, Requests
<1>4. CacheHolds'
  BY DEF CacheHolds, HandlerState, Issued, Outstanding, AddSteps, DelSteps
<1>5. port' \cap DpdkVFs = {}
  BY DEF HandlerState
<1>6. RunningConfigured'
  BY DEF RunningConfigured, HandlerState, Issued, Outstanding, AddSteps,
     DelSteps
<1>7. MacSandboxes = {} => PortHasOwner'
  BY DEF PortHasOwner, HandlerState, AddSteps, DelSteps
<1>8. QED BY <1>1, <1>2, <1>3, <1>4, <1>5, <1>6, <1>7

\* The port goes.
LEMMA CalmDelPort ==
  ASSUME Undisturbed, IInv, CalmInv, DelPort
  PROVE  CalmInv'
<1> USE ConstantsAssumption DEF IInv, TypeOK, CalmInv, Undisturbed, DelPort,
      kernel, disk, Outcome, Release, ReturnDel, Frame
<1>1. NetnsOfSandbox'
  BY DEF NetnsOfSandbox, Issued, Outstanding, AddSteps, DelSteps, Requests
<1>2. CacheNamesDev'
  BY DEF CacheNamesDev, Issued, Outstanding, AddSteps, DelSteps, Requests
<1>3. HandlerState'
  BY DEF HandlerState, Issued, Outstanding, AddSteps, DelSteps, Requests
<1>4. CacheHolds'
  BY DEF CacheHolds, HandlerState, Issued, Outstanding, AddSteps, DelSteps
<1>5. port' \cap DpdkVFs = {}
  BY DEF HandlerState
<1>6. RunningConfigured'
  BY DEF RunningConfigured, HandlerState, Issued, Outstanding, AddSteps,
     DelSteps
<1>7. MacSandboxes = {} => PortHasOwner'
  BY DEF PortHasOwner, HandlerState, AddSteps, DelSteps
<1>8. QED BY <1>1, <1>2, <1>3, <1>4, <1>5, <1>6, <1>7

\* No sandbox exists yet.
LEMMA CalmInit == Init => CalmInv
  BY DEF Init, CalmInv, NetnsOfSandbox, CacheNamesDev, HandlerState, CacheHolds,
     RunningConfigured, PortHasOwner

\* The steps that something has to fail for do not happen.
LEMMA CalmNext ==
  ASSUME Undisturbed, IInv, CalmInv, [Next]_vars
  PROVE  CalmInv'
<1>1. ASSUME NEW s \in Sandboxes, NEW v \in VFs, RunSandbox(s, v)
      PROVE  CalmInv'
  BY <1>1, CalmRunSandbox
<1>2. ASSUME NEW s \in Sandboxes,
             GiveUp(s) \/ StopSandbox(s) \/ RemoveSandbox(s)
      PROVE  CalmInv'
  BY <1>2, CalmGiveUp, CalmStopSandbox, CalmRemoveSandbox
<1>3. ASSUME NEW s \in Sandboxes, LoseNetns(s) PROVE CalmInv'
  BY <1>3 DEF LoseNetns, Undisturbed
<1>4. ASSUME NEW r \in waiting, Acquire(r) PROVE CalmInv'
  BY <1>4, CalmAcquire
<1>5. CASE AddUndo
  BY <1>5 DEF AddUndo, CalmInv, HandlerState
<1>6. CASE AddStep
  BY <1>5, <1>6, CalmAddLoadConf, CalmAddApply, CalmAddSetup, CalmAddIpam,
     CalmAddSave, CalmAddLock, CalmAddPort DEF AddStep
<1>7. CASE DelStep
  BY <1>7, CalmDelLoad, CalmDelIpam, CalmDelReset, CalmDelRelease,
     CalmDelUnlock, CalmDelClean, CalmDelPort DEF DelStep
<1>8. CASE Crash
  BY <1>8 DEF Crash, Undisturbed, IInv, TypeOK
<1>9. CASE UNCHANGED vars
  BY <1>9 DEF vars, CalmInv, NetnsOfSandbox, CacheNamesDev, HandlerState,
     CacheHolds, RunningConfigured, PortHasOwner
<1>10. QED
  BY <1>1, <1>2, <1>3, <1>4, <1>6, <1>7, <1>8, <1>9 DEF Next

\* CalmInv holds in every reachable state of an undisturbed node.
LEMMA CalmInvariance == ASSUME Undisturbed PROVE Spec => []CalmInv
<1>1. Init => CalmInv
  BY CalmInit
<1>2. IInv /\ CalmInv /\ [Next]_vars => CalmInv'
  BY CalmNext
<1>3. QED BY <1>1, <1>2, Invariance, PTL DEF Spec

\* On an undisturbed node a running sandbox keeps the administrative settings of
\* its VF: ResetVFConfig of a late DEL never hits the next user of the VF.
THEOREM RunningStaysConfigured ==
  ASSUME Undisturbed PROVE Spec => []RunningConfigured
<1>1. CalmInv => RunningConfigured
  BY DEF CalmInv
<1>2. QED BY <1>1, CalmInvariance, PTL

\* On an undisturbed node without requested MACs a bridge port can always be
\* deleted: a cached NetConf names its VF.
THEOREM PortsHaveOwners ==
  ASSUME Undisturbed, MacSandboxes = {} PROVE Spec => []PortHasOwner
<1>1. CalmInv => PortHasOwner
  BY DEF CalmInv
<1>2. QED BY <1>1, CalmInvariance, PTL

\* On an undisturbed node IsAllocated blocks an ADD until every other sandbox
\* with a cached NetConf for the VF has been deleted.
THEOREM AddBlocksUntilDel ==
  ASSUME Undisturbed PROVE Spec => AddWaitsForDel
<1>1. IInv /\ CalmInv /\ [Next]_vars =>
        [pc = "addLoad" /\ pc' = "addApply" =>
           \A o \in Sandboxes \ {sb} :
             cache[o] = vf => rt[o] \in {"deleted", "removed"}]_vars
  <2> SUFFICES ASSUME IInv, CalmInv, Next, pc = "addLoad", pc' = "addApply",
                      NEW o \in Sandboxes \ {sb}, cache[o] = vf
               PROVE  rt[o] \in {"deleted", "removed"}
    BY DEF vars
  <2>1. vf \in VFs
    BY DEF IInv, TypeOK, AddSteps
  <2>2. lock[vf] \notin netns
    <3>1. AddLoadConf
      BY DEF Next, AddStep, DelStep, RunSandbox, GiveUp, StopSandbox,
         RemoveSandbox, LoseNetns, Acquire, AddApply, AddSetup, AddIpam,
         AddSave, AddLock, AddUndo, AddPort, DelLoad, DelIpam, DelReset,
         DelRelease, DelUnlock, DelClean, DelPort, Crash, Release
    <3>2. QED BY <3>1, ConstantsAssumption
          DEF AddLoadConf, ReturnAdd, Release, Allocated, Outcome,
              Undisturbed, IInv, TypeOK
  <2>3. o \notin netns
    BY <2>1, <2>2, ConstantsAssumption DEF CalmInv, CacheHolds
  <2>4. QED BY <2>1, <2>3, ConstantsAssumption
           DEF CalmInv, NetnsOfSandbox, CacheNamesDev
<1>2. QED BY <1>1, CalmInvariance, Invariance, PTL DEF Spec, AddWaitsForDel

=============================================================================
