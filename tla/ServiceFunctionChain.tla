------------------------ MODULE ServiceFunctionChain ------------------------
(***************************************************************************)
(* The two controllers that make pods of a ServiceFunctionChain.  The one  *)
(* of the operator compares a hash of each pod and replaces it; the one of *)
(* a daemon only sees to it that a pod exists, under another name.         *)
(* Both hear of changes of the CR only: neither watches the pods, or the   *)
(* DpuOperatorConfig that names the resource.  What they do not hear of is *)
(* put right by the next event, or by the resync after ten hours.          *)
(*                                                                         *)
(* One CR is modelled, which may be deleted and created again.  The        *)
(* network functions are named, and have an image each.                    *)
(***************************************************************************)
EXTENDS Naturals, FiniteSets

CONSTANTS
    Functions,     \* names of network functions
    Images,        \* their images, from 1
    Resources,     \* names of the DPU resource; 0 is the default
    NodeMatches,   \* the nodeSelector matches the node of the daemon
    MaxEdits,      \* things that users do
    MaxFaults,     \* calls of the API server that fail, and restarts
    MaxTotal       \* both together

ChainOK ==
    /\ Images \subseteq Nat \ {0} /\ 0 \in Resources /\ NodeMatches \in BOOLEAN
    /\ MaxEdits \in Nat /\ MaxFaults \in Nat /\ MaxTotal \in Nat
ASSUME ConstantsAssumption == ChainOK

Controllers == {"operator", "daemon"}
Idle == [pc |-> "idle", spec |-> [n \in Functions |-> 0], uid |-> 0, res |-> 0,
         left |-> {}]
NoPod == [img |-> 0, res |-> 0, uid |-> 0, label |-> FALSE, dying |-> FALSE]
Pod(i, r, u) == [img |-> i, res |-> r, uid |-> u, label |-> TRUE, dying |-> FALSE]

VARIABLES
    cr,        \* uid of the CR, 0 if there is none
    uids,      \* uids given so far
    spec,      \* spec[n]: the image of n, 0 if it is not part of the chain
    resource,  \* the name in the DpuOperatorConfig
    pods,      \* pods[c][n]: the pod that c makes for n
    queue,     \* controllers with a request for the CR in their queue
    work,      \* work[c]: the Reconcile that runs
    missed,    \* pods that are not as wanted without their controller knowing
    edits, faults

vars == <<cr, uids, spec, resource, pods, queue, work, missed, edits, faults>>

Init ==
    /\ cr = 0 /\ uids = 0 /\ resource = 0
    /\ spec = [n \in Functions |-> 0]
    /\ pods = [c \in Controllers |-> [n \in Functions |-> NoPod]]
    /\ queue = {} /\ missed = {}
    /\ work = [c \in Controllers |-> Idle]
    /\ edits = 0 /\ faults = 0

-----------------------------------------------------------------------------
(* Users, the garbage collector and the kubelet.                           *)

Edit == edits + faults < MaxTotal /\ edits < MaxEdits /\ edits' = edits + 1 /\ UNCHANGED faults

CreateCr ==
    /\ cr = 0 /\ Edit
    /\ uids' = uids + 1 /\ cr' = uids + 1
    /\ spec' \in [Functions -> Images \cup {0}]
    /\ queue' = Controllers
    /\ UNCHANGED <<resource, pods, work, missed>>

EditCr(n, i) ==
    /\ cr # 0 /\ spec[n] # i /\ Edit
    /\ spec' = [spec EXCEPT ![n] = i]
    /\ queue' = Controllers
    /\ UNCHANGED <<cr, uids, resource, pods, work, missed>>

DeleteCr ==
    /\ cr # 0 /\ Edit
    /\ cr' = 0 /\ spec' = [n \in Functions |-> 0]
    /\ queue' = Controllers
    /\ UNCHANGED <<uids, resource, pods, work, missed>>

EditResource(r) ==
    /\ resource # r /\ Edit
    /\ resource' = r
    /\ missed' = missed \cup {"operator"} \X Functions
    /\ UNCHANGED <<cr, uids, spec, pods, queue, work>>

Dies(c, n) == pods' = [pods EXCEPT ![c][n].dying = TRUE]

UserDeletesPod(c, n) ==
    /\ pods[c][n] # NoPod /\ ~pods[c][n].dying /\ Edit
    /\ Dies(c, n)
    /\ missed' = missed \cup {<<c, n>>}
    /\ UNCHANGED <<cr, uids, spec, resource, queue, work>>

UserDropsLabel(n) ==
    /\ pods["operator"][n].label /\ Edit
    /\ pods' = [pods EXCEPT !["operator"][n].label = FALSE]
    /\ missed' = missed \cup {<<"operator", n>>}
    /\ UNCHANGED <<cr, uids, spec, resource, queue, work>>

\* A pod whose owner is gone is deleted; one that is deleted goes later.
CollectPod(c, n) ==
    /\ pods[c][n] # NoPod /\ pods[c][n].uid # cr /\ ~pods[c][n].dying
    /\ Dies(c, n)
    /\ UNCHANGED <<cr, uids, spec, resource, queue, work, missed, edits, faults>>

PodGone(c, n) ==
    /\ pods[c][n].dying
    /\ pods' = [pods EXCEPT ![c][n] = NoPod]
    /\ UNCHANGED <<cr, uids, spec, resource, queue, work, missed, edits, faults>>

Resync ==
    /\ cr # 0 /\ queue' = Controllers
    /\ UNCHANGED <<cr, uids, spec, resource, pods, work, missed, edits, faults>>

-----------------------------------------------------------------------------
(* Reconcile of either controller takes the request and reads the CR.      *)

Works == UNCHANGED <<edits, faults>>
Fault == /\ edits + faults < MaxTotal /\ faults < MaxFaults
         /\ faults' = faults + 1 /\ UNCHANGED edits
cluster == <<cr, uids, spec, resource>>

Wanted(w) == {n \in Functions : w.spec[n] # 0}
Return(c) == work' = [work EXCEPT ![c] = Idle]
Forget(c, n) == missed' = missed \ {<<c, n>>}

\* An error, or a result that asks for it, puts the request back.
Requeue(c) == Return(c) /\ queue' = queue \cup {c}

Begin(c, pc, res, left) ==
    work' = [work EXCEPT ![c] = [pc |-> pc, spec |-> spec, uid |-> cr,
                                 res |-> res, left |-> left]]

\* A DpuOperatorConfig that cannot be read counts as one without a name.
OperatorStart ==
    /\ "operator" \in queue /\ work["operator"] = Idle
    /\ \/ /\ cr = 0 /\ Works
          /\ queue' = queue \ {"operator"} /\ UNCHANGED <<work, missed>>
       \/ /\ cr # 0 /\ Works
          /\ queue' = queue \ {"operator"}
          /\ Begin("operator", "list", resource, {}) /\ UNCHANGED missed
       \/ /\ cr # 0 /\ Fault
          /\ queue' = queue \ {"operator"}
          /\ Begin("operator", "list", 0, {})
          /\ missed' = missed \cup {"operator"} \X Functions
    /\ UNCHANGED <<cluster, pods>>

\* The pods with the label of the chain that are not part of it any more.
Stale == {n \in Functions : pods["operator"][n].label} \ Wanted(work["operator"])

OperatorList ==
    /\ work["operator"].pc = "list"
    /\ \/ /\ Works /\ UNCHANGED queue
          /\ work' = [work EXCEPT !["operator"].pc = "delete",
                                  !["operator"].left = Stale]
       \/ Fault /\ Requeue("operator")
    /\ UNCHANGED <<cluster, pods, missed>>

\* A pod that is gone by now is no error.
OperatorDelete(n) ==
    /\ work["operator"].pc = "delete" /\ n \in work["operator"].left
    /\ \/ /\ Works /\ UNCHANGED queue
          /\ IF pods["operator"][n] # NoPod THEN Dies("operator", n) ELSE UNCHANGED pods
          /\ work' = [work EXCEPT !["operator"].left = @ \ {n}]
       \/ Fault /\ Requeue("operator") /\ UNCHANGED pods
    /\ UNCHANGED <<cluster, missed>>

OperatorDeleted ==
    /\ work["operator"].pc = "delete" /\ work["operator"].left = {}
    /\ work' = [work EXCEPT !["operator"].pc = "pods",
                            !["operator"].left = Wanted(work["operator"])]
    /\ Works /\ UNCHANGED <<cluster, pods, queue, missed>>

SameHashOfNetworks(p, q) == p.res = q.res
SameHash(p, q) == p.img = q.img /\ p.res = q.res

\* What the controller leaves as it is goes on if it lives and has this owner.
Left(c, n, p) == missed' = IF p.dying \/ p.uid # work[c].uid THEN missed \cup {<<c, n>>}
                           ELSE missed \ {<<c, n>>}

\* reconcilePod: a pod is created, or deleted if its hash differs, or its labels
\* are restored.  After a deletion Reconcile starts again in two seconds.
OperatorPod(n) ==
    LET w == work["operator"]
        p == pods["operator"][n]
        q == Pod(w.spec[n], w.res, w.uid)
        next == work' = [work EXCEPT !["operator"].left = @ \ {n}]
    IN
    /\ w.pc = "pods" /\ n \in w.left
    /\ \/ /\ p = NoPod /\ Works /\ next /\ UNCHANGED queue
          /\ pods' = [pods EXCEPT !["operator"][n] = q]
          /\ IF w.res = resource THEN Forget("operator", n) ELSE UNCHANGED missed
       \/ /\ p # NoPod /\ ~SameHash(p, q) /\ Works /\ Requeue("operator")
          /\ Dies("operator", n) /\ UNCHANGED missed
       \/ /\ p # NoPod /\ SameHash(p, q) /\ Works /\ next /\ UNCHANGED queue
          /\ pods' = [pods EXCEPT !["operator"][n].label = TRUE]
          /\ IF w.res = resource THEN Left("operator", n, p) ELSE UNCHANGED missed
       \/ Fault /\ Requeue("operator") /\ UNCHANGED <<pods, missed>>
    /\ UNCHANGED cluster

Finish(c) ==
    /\ work[c].pc = "pods" /\ work[c].left = {}
    /\ Return(c)
    /\ Works /\ UNCHANGED <<cluster, pods, queue, missed>>

\* A daemon tries again for good if there is no CR.
DaemonStart ==
    /\ "daemon" \in queue /\ work["daemon"] = Idle /\ cr # 0
    /\ \/ /\ Works /\ queue' = queue \ {"daemon"}
          /\ IF NodeMatches
             THEN Begin("daemon", "pods", 0, {n \in Functions : spec[n] # 0})
             ELSE UNCHANGED work
       \/ Fault /\ UNCHANGED <<queue, work>>
    /\ UNCHANGED <<cluster, pods, missed>>

\* createOrUpdatePod reads a pod that exists over the one it wants, and writes
\* it back as it is.
DaemonPod(n) ==
    LET w == work["daemon"]
        p == pods["daemon"][n]
    IN
    /\ w.pc = "pods" /\ n \in w.left
    /\ \/ /\ Works /\ UNCHANGED queue
          /\ work' = [work EXCEPT !["daemon"].left = @ \ {n}]
          /\ pods' = [pods EXCEPT !["daemon"][n] =
                          IF p = NoPod THEN Pod(w.spec[n], 0, w.uid) ELSE p]
          /\ IF p = NoPod THEN Forget("daemon", n) ELSE Left("daemon", n, p)
       \/ Fault /\ Requeue("daemon") /\ UNCHANGED <<pods, missed>>
    /\ UNCHANGED cluster

\* A process that starts lists the CRs.
Restart(c) ==
    /\ work[c] # Idle /\ Fault
    /\ Return(c) /\ queue' = queue \cup {c}
    /\ UNCHANGED <<cluster, pods, missed>>

-----------------------------------------------------------------------------
OperatorStep ==
    \/ OperatorStart \/ OperatorList \/ OperatorDeleted \/ Finish("operator")
    \/ \E n \in Functions : OperatorDelete(n) \/ OperatorPod(n)
DaemonStep ==
    DaemonStart \/ Finish("daemon") \/ \E n \in Functions : DaemonPod(n)

UserStep ==
    \/ CreateCr \/ DeleteCr
    \/ \E n \in Functions, i \in Images \cup {0} : EditCr(n, i)
    \/ \E r \in Resources : EditResource(r)
    \/ \E n \in Functions : UserDropsLabel(n)
    \/ \E c \in Controllers, n \in Functions : UserDeletesPod(c, n)

Next ==
    \/ UserStep \/ OperatorStep \/ DaemonStep \/ Resync
    \/ \E c \in Controllers : Restart(c)
    \/ \E c \in Controllers, n \in Functions : CollectPod(c, n) \/ PodGone(c, n)

\* The controllers, the garbage collector and the kubelet run on.  Nobody waits
\* ten hours.
Fairness ==
    /\ WF_vars(OperatorStep) /\ WF_vars(DaemonStep)
    /\ \A c \in Controllers, n \in Functions :
         WF_vars(CollectPod(c, n)) /\ WF_vars(PodGone(c, n))

Spec == Init /\ [][Next]_vars /\ Fairness

-----------------------------------------------------------------------------
(* Properties                                                              *)

\* Every variable holds a value of its kind.
TypeOK ==
    /\ cr \in 0 .. uids /\ uids \in 0 .. MaxEdits
    /\ spec \in [Functions -> Images \cup {0}] /\ resource \in Resources
    /\ \A c \in Controllers, n \in Functions :
         pods[c][n].img \in Images \cup {0} /\ pods[c][n].uid \in 0 .. uids
    /\ queue \subseteq Controllers /\ missed \subseteq Controllers \X Functions

AsWanted(n) ==
    IF spec[n] = 0 THEN ~pods["operator"][n].label
    ELSE pods["operator"][n] = Pod(spec[n], resource, cr)
Exists(n) ==
    NodeMatches /\ spec[n] # 0 =>
        pods["daemon"][n].uid = cr /\ ~pods["daemon"][n].dying

\* The pods are those that the CR asks for, except where a controller could not hear
\* of a change; without a CR there are none.
Converged ==
    \A n \in Functions :
        IF cr = 0 THEN \A c \in Controllers : pods[c][n] = NoPod
        ELSE /\ AsWanted(n) \/ <<"operator", n>> \in missed
             /\ Exists(n) \/ <<"daemon", n>> \in missed

\* Nothing is left to do: not for the controllers (a daemon tries again for good
\* when there is no CR), the garbage collector or the kubelet.
AtRest ==
    /\ \A c \in Controllers : work[c] = Idle /\ (c \in queue => cr = 0)
    /\ \A c \in Controllers, n \in Functions :
         pods[c][n] # NoPod => ~pods[c][n].dying /\ pods[c][n].uid = cr

\* A chain does not come to rest in a state that is not the wanted one: the part of
\* ChainConverges that needs no fairness.
RestIsConverged == AtRest => Converged

\* In the end every network function of the chain has the operator's pod with
\* its image and resource, and the daemon's pod, and the operator's pods of
\* others are gone; without a CR all pods are.  The exceptions are the changes
\* that no controller hears of: a pod that users delete or relabel, a new resource name,
\* and a pod with the right hash that is terminating or owned by a CR that was
\* deleted when Reconcile looks at it.
ChainConverges == <>[]Converged

=============================================================================
