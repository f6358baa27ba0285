------------------------------ MODULE Operator ------------------------------
(***************************************************************************)
(* A controller of the operator that deploys resources for a custom        *)
(* resource (CR): the DpuOperatorConfig controller, which deploys several  *)
(* directories of manifests and holds the CR with a finalizer, or the      *)
(* DataProcessingUnit controller, which deploys the VSP pod of a DPU and   *)
(* watches it.  Both use a ResourceRenderer, which remembers in memory     *)
(* what it has applied.  Every resource has the CR as its owner, so that   *)
(* the garbage collector of Kubernetes removes what a CR leaves behind.    *)
(*                                                                         *)
(* A work queue hands the CR to the controller, one reconcile at a time.   *)
(* API calls of a reconcile interleave with users, the garbage collector   *)
(* and resources that take their time to terminate.                        *)
(***************************************************************************)
EXTENDS Naturals, Sequences, FiniteSets

CONSTANTS
    ConfigDirs,   \* manifests of the DpuOperatorConfig, in order: a sequence
                  \* of steps of Reconcile, each a sequence of resources
    VspPod,       \* the resource of a DataProcessingUnit
    Immutable,    \* resources whose update the API server refuses (pods)
    MaxUid,       \* bound on CRs created, one after the other
    MaxFaults,    \* bound on failing API calls and waits
    MaxEdits,     \* bound on changes by others
    MaxRestarts   \* bound on restarts of the operator

Kinds == {"config", "dpu"}
DirsOf(k) == IF k = "dpu" THEN <<<<VspPod>>>> ELSE ConfigDirs
ResourcesOf(k) == UNION {{DirsOf(k)[i][j] : j \in DOMAIN DirsOf(k)[i]} :
                            i \in DOMAIN DirsOf(k)}
Resources == ResourcesOf("config") \cup ResourcesOf("dpu")

ASSUME ConstantsAssumption ==
    /\ ConfigDirs \in Seq(Seq(ResourcesOf("config"))) /\ ConfigDirs # <<>>
    /\ \A i \in DOMAIN ConfigDirs : ConfigDirs[i] # <<>>
    /\ MaxUid \in Nat /\ MaxFaults \in Nat /\ MaxEdits \in Nat
    /\ MaxRestarts \in Nat

VARIABLES
    kind,     \* fixed: which of the two controllers this is
    \* the CR
    life,     \* "none", "live" or "deleting" (it has a deletionTimestamp)
    uid,      \* uid of the CR, or of the last one
    fin,      \* it has the finalizer of the operator
    fg,       \* it has the finalizer of foreground deletion
    ready,    \* its Ready condition
    \* resources
    state,    \* state[r]: "absent", "live" or "terminating"
    owner,    \* owner[r]: uid of its owner
    \* the controller
    queue,    \* the CR is in the work queue
    pc,       \* where Reconcile is
    own,      \* uid of the CR that it has read
    stale,    \* the CR has changed since
    pos,      \* directory and file to apply
    got,      \* what applyObjectFromBinData has found: state and owner
    failed,   \* an error is to be reported
    left,     \* number of tracked resources that are still to be deleted
    tracked,  \* the order of the ResourceRenderer
    \* history
    tainted,  \* clean-up failed, the operator was restarted, a create had an
              \* effect that is not known, or somebody else has deleted or
              \* created a resource
    faults, edits, restarts

crVars == <<life, uid, fin, fg, ready>>
objVars == <<state, owner>>
loopVars == <<own, pos, got, failed, left>>
budget == <<faults, edits, restarts>>
vars == <<kind, crVars, objVars, queue, pc, stale, loopVars, tracked, tainted,
          budget>>

Uids == 0..MaxUid
Pcs == {"idle", "finalizer", "initStatus", "get", "put", "status", "delete",
        "wait", "unfinalize"}
States == {"absent", "live", "terminating"}

TypeOK ==
    /\ kind \in Kinds
    /\ life \in {"none", "live", "deleting"} /\ uid \in Uids
    /\ fin \in BOOLEAN /\ fg \in BOOLEAN
    /\ ready \in {"none", "false", "true"}
    /\ state \in [Resources -> States] /\ owner \in [Resources -> Uids]
    /\ queue \in BOOLEAN /\ pc \in Pcs /\ own \in Uids /\ stale \in BOOLEAN
    /\ pos[1] \in 1..(Len(DirsOf(kind)) + 1) /\ pos[2] \in Nat \ {0}
    /\ pc \in {"get", "put"} => pos[1] \in DOMAIN DirsOf(kind)
                                /\ pos[2] \in DOMAIN DirsOf(kind)[pos[1]]
    /\ got \in States \X Uids
    /\ failed \in BOOLEAN
    /\ left \in 0..Len(tracked)
    /\ \A i \in DOMAIN tracked : tracked[i] \in ResourcesOf(kind)
    /\ tainted \in BOOLEAN
    /\ faults \in 0..MaxFaults /\ edits \in 0..MaxEdits
    /\ restarts \in 0..MaxRestarts

Init ==
    /\ kind \in Kinds
    /\ life = "none" /\ uid = 0 /\ fin = FALSE /\ fg = FALSE /\ ready = "none"
    /\ state = [r \in Resources |-> "absent"]
    /\ owner = [r \in Resources |-> 0]
    /\ queue = FALSE /\ pc = "idle" /\ own = 0 /\ stale = FALSE
    /\ pos = <<1, 1>> /\ got = <<"absent", 0>> /\ failed = FALSE
    /\ left = 0 /\ tracked = <<>> /\ tainted = FALSE
    /\ faults = 0 /\ edits = 0 /\ restarts = 0

Fault ==
    faults < MaxFaults /\ faults' = faults + 1 /\ UNCHANGED <<edits, restarts>>
Edit ==
    edits < MaxEdits /\ edits' = edits + 1 /\ UNCHANGED <<faults, restarts>>

-----------------------------------------------------------------------------
(* Users, the API server and its garbage collector.  A change of the CR    *)
(* puts it into the work queue, a change of a resource only if the         *)
(* controller watches what it owns.                                        *)

Outside == UNCHANGED <<kind, pc, loopVars, tracked>>

CrEvent == queue' = TRUE /\ stale' = TRUE
ObjEvent == queue' = (queue \/ kind = "dpu") /\ UNCHANGED stale

CreateCr ==
    /\ life = "none" /\ uid < MaxUid
    /\ life' = "live" /\ uid' = uid + 1
    /\ fin' = FALSE /\ fg' = FALSE /\ ready' = "none"
    /\ CrEvent
    /\ Outside /\ UNCHANGED <<objVars, tainted, budget>>

\* In the background, or in the foreground: then the CR stays until the garbage
\* collector has removed what it owns.
DeleteCr ==
    /\ life = "live"
    /\ fg' \in BOOLEAN
    /\ life' = IF fin \/ fg' THEN "deleting" ELSE "none"
    /\ CrEvent
    /\ Outside /\ UNCHANGED <<uid, fin, ready, objVars, tainted, budget>>

\* A user edits the CR.
EditCr ==
    /\ life = "live" /\ Edit
    /\ CrEvent
    /\ Outside /\ UNCHANGED <<crVars, objVars, tainted>>

\* Somebody deletes a resource.
DeleteResource(r) ==
    /\ state[r] = "live" /\ Edit
    /\ state' = [state EXCEPT ![r] = "terminating"]
    /\ tainted' = TRUE
    /\ ObjEvent
    /\ Outside /\ UNCHANGED <<crVars, owner>>

\* Another instance of the operator creates a resource.
CreateResource(r) ==
    /\ life = "live" /\ r \in ResourcesOf(kind) /\ state[r] = "absent" /\ Edit
    /\ state' = [state EXCEPT ![r] = "live"]
    /\ owner' = [owner EXCEPT ![r] = uid]
    /\ tainted' = TRUE
    /\ ObjEvent
    /\ Outside /\ UNCHANGED crVars

Terminated(r) ==
    /\ state[r] = "terminating"
    /\ state' = [state EXCEPT ![r] = "absent"]
    /\ ObjEvent
    /\ Outside /\ UNCHANGED <<crVars, owner, tainted, budget>>

Owned(r) == life # "none" /\ owner[r] = uid

\* The garbage collector deletes a resource whose owner is gone or is being
\* deleted in the foreground.
CollectResource(r) ==
    /\ state[r] = "live" /\ (Owned(r) => fg)
    /\ state' = [state EXCEPT ![r] = "terminating"]
    /\ ObjEvent
    /\ Outside /\ UNCHANGED <<crVars, owner, tainted, budget>>

\* It ends a deletion in the foreground.
CollectCr ==
    /\ fg /\ life = "deleting"
    /\ \A r \in Resources : state[r] # "absent" => ~Owned(r)
    /\ fg' = FALSE
    /\ life' = IF fin THEN "deleting" ELSE "none"
    /\ CrEvent
    /\ Outside /\ UNCHANGED <<uid, fin, ready, objVars, tainted, budget>>

CollectGarbage == CollectCr \/ \E r \in Resources : CollectResource(r)

-----------------------------------------------------------------------------
(* Reconcile                                                               *)

\* An error makes the work queue try again.
Error == pc' = "idle" /\ queue' = TRUE

\* An update of the CR fails if the CR has changed since it was read.
UpdateFails ==
    /\ Error
    /\ \/ stale /\ UNCHANGED budget
       \/ Fault

\* What the DpuOperatorConfig controller does with the CR that it has read.
ConfigStep ==
    CASE life = "deleting" /\ fin -> "delete"
      [] life = "live" /\ ~fin -> "finalizer"
      [] life = "live" /\ fin -> IF ready = "none" THEN "initStatus" ELSE "get"
      [] OTHER -> "idle"

\* The DataProcessingUnit controller has no finalizer: it sees a deletion only
\* if that is in the foreground.
DpuStep ==
    CASE life = "deleting" -> "delete"
      [] life = "live" -> "get"
      [] OTHER -> "idle"

Reconcile ==
    /\ pc = "idle" /\ queue
    /\ own' = uid /\ stale' = FALSE /\ failed' = FALSE /\ pos' = <<1, 1>>
    /\ left' = Len(tracked)
    /\ \/ pc' = (IF kind = "dpu" THEN DpuStep ELSE ConfigStep)
          /\ queue' = FALSE /\ UNCHANGED budget
       \/ Error /\ Fault
    /\ UNCHANGED <<kind, crVars, objVars, got, tracked, tainted>>

AddFinalizer ==
    /\ pc = "finalizer"
    /\ \/ /\ ~stale
          /\ fin' = TRUE
          /\ pc' = "idle" /\ queue' = TRUE /\ UNCHANGED budget
       \/ UpdateFails /\ UNCHANGED fin
    /\ UNCHANGED <<kind, life, uid, fg, ready, objVars, stale, loopVars,
                   tracked, tainted>>

\* The initial Ready condition; initializeStatus finds a condition then.
InitializeStatus ==
    /\ pc = "initStatus"
    /\ \/ /\ ~stale
          /\ ready' = "false"
          /\ pc' = "get" /\ queue' = TRUE /\ UNCHANGED budget
       \/ UpdateFails /\ UNCHANGED ready
    /\ UNCHANGED <<kind, life, uid, fin, fg, objVars, stale, loopVars, tracked,
                   tainted>>

File == DirsOf(kind)[pos[1]][pos[2]]

\* Faulty variant: only an error of the last step counts.
NextFileForgets(ok) ==
    LET same == ok /\ pos[2] < Len(DirsOf(kind)[pos[1]])
        next == IF same THEN <<pos[1], pos[2] + 1>> ELSE <<pos[1] + 1, 1>> IN
    /\ pos' = next
    /\ pc' = IF next[1] <= Len(DirsOf(kind)) THEN "get" ELSE "status"
    /\ failed' = ~ok

\* Go on with the next file, or, after an error, with the next step.
NextFile(ok) ==
    LET same == ok /\ pos[2] < Len(DirsOf(kind)[pos[1]])
        next == IF same THEN <<pos[1], pos[2] + 1>> ELSE <<pos[1] + 1, 1>> IN
    /\ pos' = next
    /\ pc' = IF next[1] <= Len(DirsOf(kind)) THEN "get" ELSE "status"
    /\ failed' = (failed \/ ~ok)

\* applyObjectFromBinData looks for the object ...
GetExisting ==
    /\ pc = "get"
    /\ \/ /\ got' = <<state[File], owner[File]>>
          /\ pc' = "put" /\ UNCHANGED <<pos, failed, budget>>
       \/ NextFile(FALSE) /\ Fault /\ UNCHANGED got
    /\ UNCHANGED <<kind, crVars, objVars, queue, stale, own, left, tracked,
                   tainted>>

\* trackResource
Track(r) ==
    tracked' = IF \E i \in DOMAIN tracked : tracked[i] = r THEN tracked
                                                   ELSE Append(tracked, r)

SetOwner(r) ==
    /\ owner' = [owner EXCEPT ![r] = own]
    /\ queue' = (queue \/ (kind = "dpu" /\ owner[r] # own))
    /\ UNCHANGED state

\* ... and updates it, if it has not changed since and may be updated ...
UpdateObject ==
    LET r == File IN
    /\ pc = "put" /\ got[1] # "absent"
    /\ \/ /\ got = <<state[r], owner[r]>> /\ r \notin Immutable
          /\ SetOwner(r) /\ Track(r) /\ NextFile(TRUE) /\ UNCHANGED budget
       \/ /\ got # <<state[r], owner[r]>> \/ r \in Immutable
          /\ NextFile(FALSE) /\ UNCHANGED <<objVars, queue, tracked, budget>>
       \/ NextFile(FALSE) /\ Fault /\ UNCHANGED <<objVars, queue, tracked>>
    /\ UNCHANGED <<kind, crVars, stale, own, got, left, tainted>>

Created(r) ==
    /\ state[r] = "absent"
    /\ state' = [state EXCEPT ![r] = "live"]
    /\ owner' = [owner EXCEPT ![r] = own]
    /\ queue' = (queue \/ kind = "dpu")

\* ... or creates it.  If another was faster, the object is tracked whether or
\* not it could be updated, unless the update is refused as invalid.  A create
\* that took effect although its answer was lost is not tracked.
CreateObject ==
    LET r == File IN
    /\ pc = "put" /\ got[1] = "absent"
    /\ \/ /\ Created(r)
          /\ Track(r) /\ NextFile(TRUE) /\ UNCHANGED <<tainted, budget>>
       \/ /\ state[r] # "absent"
          /\ (r \notin Immutable /\ SetOwner(r)) \/ UNCHANGED <<objVars, queue>>
          /\ Track(r) /\ NextFile(TRUE) /\ UNCHANGED <<tainted, budget>>
       \/ /\ state[r] # "absent" /\ r \in Immutable
          /\ NextFile(FALSE)
          /\ UNCHANGED <<objVars, queue, tracked, tainted, budget>>
       \/ /\ Created(r) /\ tainted' = TRUE
          /\ NextFile(FALSE) /\ Fault /\ UNCHANGED tracked
       \/ NextFile(FALSE) /\ Fault /\ UNCHANGED <<objVars, queue, tracked, tainted>>
    /\ UNCHANGED <<kind, crVars, stale, own, got, left>>

\* Faulty variant: the error is logged and not returned.
VspEnsuredSwallows ==
    /\ pc = "status" /\ kind = "dpu"
    /\ pc' = "idle"
    /\ UNCHANGED <<kind, crVars, objVars, queue, stale, loopVars, tracked,
                   tainted, budget>>

\* The DataProcessingUnit controller has no status to update; it returns the
\* error of ensureVSPResources.
VspEnsured ==
    /\ pc = "status" /\ kind = "dpu"
    /\ pc' = "idle" /\ queue' = (queue \/ failed)
    /\ UNCHANGED <<kind, crVars, objVars, stale, loopVars, tracked, tainted,
                   budget>>

\* updateStatus, after all steps.
UpdateStatus ==
    LET new == IF failed THEN "false" ELSE "true" IN
    /\ pc = "status" /\ kind = "config"
    /\ \/ /\ ~stale
          /\ ready' = new
          /\ pc' = "idle" /\ queue' = (queue \/ failed \/ ready # new)
          /\ UNCHANGED budget
       \/ UpdateFails /\ UNCHANGED ready
    /\ UNCHANGED <<kind, life, uid, fin, fg, objVars, stale, loopVars, tracked,
                   tainted>>

\* Faulty variant: resources are deleted in the order of their creation.
DeleteTrackedForward ==
    LET r == tracked[Len(tracked) - left + 1] IN
    /\ pc = "delete" /\ left > 0
    /\ \/ /\ state[r] = "absent"
          /\ left' = left - 1 /\ UNCHANGED <<state, pc>>
       \/ /\ state[r] # "absent"
          /\ state' = [state EXCEPT ![r] = "terminating"]
          /\ pc' = "wait" /\ UNCHANGED left
    /\ UNCHANGED <<kind, crVars, owner, queue, stale, own, pos, got, failed,
                   tracked, tainted, budget>>

\* CleanupResourcesInReverseOrder: delete a resource ...
DeleteTracked ==
    LET r == tracked[left] IN
    /\ pc = "delete" /\ left > 0
    /\ \/ /\ state[r] = "absent"
          /\ left' = left - 1
          /\ UNCHANGED <<state, pc, queue, failed, budget>>
       \/ /\ state[r] # "absent"
          /\ state' = [state EXCEPT ![r] = "terminating"]
          /\ queue' = (queue \/ (kind = "dpu" /\ state[r] = "live"))
          /\ pc' = "wait" /\ UNCHANGED <<left, failed, budget>>
       \/ /\ left' = left - 1 /\ failed' = TRUE /\ Fault
          /\ UNCHANGED <<state, pc, queue>>
    /\ UNCHANGED <<kind, crVars, owner, stale, own, pos, got, tracked, tainted>>

\* Faulty variant: the deletion is only initiated.
WaitNot ==
    /\ pc = "wait"
    /\ left' = left - 1 /\ pc' = "delete"
    /\ UNCHANGED <<kind, crVars, objVars, queue, stale, own, pos, got, failed,
                   tracked, tainted, budget>>

\* ... wait until it is gone, or until the time limit ...
WaitDeleted ==
    /\ pc = "wait"
    /\ left' = left - 1 /\ pc' = "delete"
    /\ \/ state[tracked[left]] = "absent" /\ UNCHANGED <<failed, budget>>
       \/ failed' = TRUE /\ Fault
    /\ UNCHANGED <<kind, crVars, objVars, queue, stale, own, pos, got, tracked,
                   tainted>>

\* ... and forget them all, deleted or not.
CleanedUp ==
    /\ pc = "delete" /\ left = 0
    /\ tracked' = <<>>
    /\ tainted' = (tainted \/ failed)
    /\ pc' = IF ~failed /\ kind = "config" THEN "unfinalize" ELSE "idle"
    /\ queue' = (queue \/ failed)
    /\ UNCHANGED <<kind, crVars, objVars, stale, loopVars, budget>>

RemoveFinalizer ==
    /\ pc = "unfinalize"
    /\ \/ /\ ~stale
          /\ fin' = FALSE
          /\ life' = IF fg THEN life ELSE "none"
          /\ pc' = "idle" /\ queue' = TRUE /\ UNCHANGED budget
       \/ UpdateFails /\ UNCHANGED <<fin, life>>
    /\ UNCHANGED <<kind, uid, fg, ready, objVars, stale, loopVars, tracked,
                   tainted>>

\* The operator is restarted; it lists the CRs, and no longer knows what it has
\* applied.
Restart ==
    /\ restarts < MaxRestarts /\ restarts' = restarts + 1
    /\ pc' = "idle" /\ queue' = TRUE
    /\ left' = 0 /\ tracked' = <<>>
    /\ tainted' = TRUE
    /\ UNCHANGED <<kind, crVars, objVars, stale, own, pos, got, failed, faults,
                   edits>>

-----------------------------------------------------------------------------
Controller ==
    \/ Reconcile \/ AddFinalizer \/ InitializeStatus
    \/ GetExisting \/ UpdateObject \/ CreateObject
    \/ VspEnsured \/ UpdateStatus
    \/ DeleteTracked \/ WaitDeleted \/ CleanedUp \/ RemoveFinalizer

Next ==
    \/ CreateCr \/ DeleteCr \/ EditCr
    \/ \E r \in Resources : DeleteResource(r) \/ CreateResource(r) \/ Terminated(r)
    \/ CollectGarbage
    \/ Controller
    \/ Restart

Spec == Init /\ [][Next]_vars

\* The controller works through its queue, resources terminate in the end, and
\* the garbage collector gets around to all of them.
FairSpec ==
    /\ Spec
    /\ WF_vars(Controller)
    /\ WF_vars(CollectCr)
    /\ \A r \in Resources : WF_vars(Terminated(r)) /\ WF_vars(CollectResource(r))

-----------------------------------------------------------------------------
(* Properties                                                              *)

Deployed == \A r \in ResourcesOf(kind) : state[r] = "live" /\ owner[r] = uid
Nothing == \A r \in Resources : state[r] = "absent"

\* "Remove the finalizer to allow deletion" comes after "Clean up tracked
\* resources": the CR is let go only when nothing that was deployed for it is
\* left, unless the list of resources was lost in a restart or in a failed
\* clean-up, which forgets them.
FinalizerGuards == [][fin /\ ~fin' /\ ~tainted => Nothing]_vars

\* "Cleanup in reverse order (LIFO)": a resource is deleted only when all that
\* were applied after it are gone, such as a role when its DaemonSet is.
ReverseOrder ==
    [][pc = "delete" /\ pc' = "wait" /\ ~tainted /\ ~failed =>
          \A j \in (left + 1)..Len(tracked) : state[tracked[j]] = "absent"]_vars

\* "All DPU operator components deployed successfully": a CR that says so has
\* all its resources.  After a lost or failed clean-up it need not: the next CR
\* adopts resources that are terminating, and nothing watches them.
ReadyMeansDeployed ==
    life = "live" /\ ready = "true" /\ ~tainted => Deployed

\* In the end nothing is left of a CR that was deleted, although clean-up may
\* have failed or have been forgotten; no CR hangs in its deletion; and the VSP
\* pod of a DPU is there, owned by its present CR, even if that was deleted and
\* created again while the pod of the first one terminated.
Converges ==
    <>[](/\ life # "deleting"
         /\ life = "none" => Nothing
         /\ life = "live" /\ (kind = "dpu" \/ ~tainted) => Deployed)
=============================================================================
