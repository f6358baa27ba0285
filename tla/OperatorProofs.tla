---------------------------- MODULE OperatorProofs ----------------------------
(***************************************************************************)
(* Proofs about the controllers of the operator: those that deploy         *)
(* resources (Operator), for any manifests, any number of CRs one after    *)
(* the other, and any failures and restarts, and those of a chain          *)
(* (ServiceFunctionChain), for any functions, images and resource names.   *)
(*                                                                         *)
(* The two share no state.  ServiceFunctionChain is an instance here,      *)
(* under its own constants and variables (renamed where Operator has one   *)
(* of the same name), and its assumption about the constants is a          *)
(* hypothesis of its theorems.                                             *)
(***************************************************************************)
EXTENDS Operator, SequenceTheorems, TLAPS

CONSTANTS
    Functions, Images, ResourceNames, NodeMatches, MaxChanges, MaxFailures, MaxTotal

VARIABLES
    cr, uids, spec, resource, pods, requests, work, missed, changes, failures

Chain ==
    INSTANCE ServiceFunctionChain
    WITH Resources <- ResourceNames, queue <- requests, edits <- changes,
         faults <- failures, MaxEdits <- MaxChanges, MaxFaults <- MaxFailures

(***************************************************************************)
(* The inductive invariant.                                                *)
(***************************************************************************)
\* The type invariant in parts.
CrTypes ==
    /\ kind \in Kinds
    /\ life \in {"none", "live", "deleting"} /\ uid \in Uids
    /\ fin \in BOOLEAN /\ fg \in BOOLEAN
    /\ ready \in {"none", "false", "true"}

ObjTypes == state \in [Resources -> States] /\ owner \in [Resources -> Uids]

LoopTypes ==
    /\ queue \in BOOLEAN /\ pc \in Pcs /\ own \in Uids /\ stale \in BOOLEAN
    /\ got \in States \X Uids
    /\ failed \in BOOLEAN

PosTypes ==
    /\ pos[1] \in 1..(Len(DirsOf(kind)) + 1) /\ pos[2] \in Nat \ {0}
    /\ pc \in {"get", "put"} => pos[1] \in DOMAIN DirsOf(kind)
                                /\ pos[2] \in DOMAIN DirsOf(kind)[pos[1]]

TrackTypes == tracked \in Seq(ResourcesOf(kind)) /\ left \in 0..Len(tracked)

BudgetTypes ==
    /\ tainted \in BOOLEAN
    /\ faults \in 0..MaxFaults /\ edits \in 0..MaxEdits
    /\ restarts \in 0..MaxRestarts

Types == CrTypes /\ ObjTypes /\ LoopTypes /\ PosTypes /\ TrackTypes /\ BudgetTypes

\* A CR that is not being deleted has no finalizer of the foreground deletion,
\* one that is gone none at all, and only a DpuOperatorConfig gets the
\* operator's finalizer and a Ready condition.
CrOK ==
    /\ life = "live" => ~fg
    /\ life = "none" => ~fin
    /\ kind = "dpu" => ~fin /\ ready = "none"

\* The finalizer holds the DpuOperatorConfig that Reconcile works on: it is
\* still there, and still the same.
ReadOK ==
    /\ pc \in {"initStatus", "get", "put", "status"} /\ kind = "config" =>
          fin /\ own = uid
    /\ pc \in {"delete", "wait", "unfinalize"} /\ kind = "config" =>
          fin /\ life = "deleting"
    /\ pc = "finalizer" /\ ~stale => life = "live"
    /\ pc \in {"finalizer", "initStatus", "unfinalize"} => kind = "config"
    /\ pc = "initStatus" => pos[1] = 1 /\ pos[2] = 1
    /\ pc = "status" => pos[1] > Len(DirsOf(kind))
    /\ pc = "wait" => left > 0

\* Unless it was lost, the list of the ResourceRenderer has all that exist ...
AllTracked ==
    ~tainted => \A r \in Resources : state[r] # "absent" =>
                    \E i \in 1..Len(tracked) : tracked[i] = r

\* ... and clean-up leaves none behind it.
CleanOK ==
    /\ pc \in {"delete", "wait"} /\ ~tainted /\ ~failed =>
          \A j \in 1..Len(tracked) : j > left => state[tracked[j]] = "absent"
    /\ pc = "unfinalize" /\ ~tainted => Nothing

\* A DpuOperatorConfig without the finalizer owns nothing, and what exists while
\* it is live is live and its own.
ConfigOK ==
    kind = "config" /\ ~tainted =>
        /\ ~fin => Nothing
        /\ life = "live" => \A r \in Resources :
              state[r] # "absent" => state[r] = "live" /\ owner[r] = uid

\* The file is before the one that Reconcile is about to apply.
Before(i, j) == i < pos[1] \/ (i = pos[1] /\ j < pos[2])

\* As long as no step has failed, all files before are deployed.
AppliedOK ==
    /\ kind = "config" /\ ~tainted /\ life = "live" =>
        /\ pc \in {"get", "put", "status"} /\ ~failed =>
              \A i \in DOMAIN DirsOf(kind) : \A j \in DOMAIN DirsOf(kind)[i] :
                  Before(i, j) => state[DirsOf(kind)[i][j]] = "live"
        /\ ready = "true" => \A r \in ResourcesOf(kind) : state[r] = "live"

Safe == CrOK /\ ReadOK /\ AllTracked /\ CleanOK /\ ConfigOK /\ AppliedOK
Inv == Types /\ Safe

(***************************************************************************)
(* The manifests.                                                          *)
(***************************************************************************)
LEMMA DirsShape ==
  ASSUME NEW k \in Kinds
  PROVE  /\ Len(DirsOf(k)) \in Nat \ {0} /\ DOMAIN DirsOf(k) = 1..Len(DirsOf(k))
         /\ \A i \in DOMAIN DirsOf(k) :
              /\ Len(DirsOf(k)[i]) \in Nat \ {0}
              /\ DOMAIN DirsOf(k)[i] = 1..Len(DirsOf(k)[i])
<1>1. CASE k = "dpu"
  BY <1>1 DEF DirsOf
<1>2. CASE k # "dpu"
  <2>1. DirsOf(k) = ConfigDirs
    BY <1>2 DEF DirsOf
  <2>2. Len(ConfigDirs) \in Nat /\ DOMAIN ConfigDirs = 1..Len(ConfigDirs)
    BY ConstantsAssumption
  <2>3. Len(ConfigDirs) # 0
    BY ConstantsAssumption, EmptySeq
  <2>4. ASSUME NEW i \in DOMAIN ConfigDirs
        PROVE  /\ Len(ConfigDirs[i]) \in Nat \ {0}
               /\ DOMAIN ConfigDirs[i] = 1..Len(ConfigDirs[i])
    <3>1. ConfigDirs[i] \in Seq(ResourcesOf("config")) /\ ConfigDirs[i] # <<>>
      BY <2>4, <2>2, ConstantsAssumption, ElementOfSeq
    <3>2. QED BY <3>1, EmptySeq
  <2>5. QED BY <2>1, <2>2, <2>3, <2>4
<1>3. QED BY <1>1, <1>2

LEMMA DirsResources ==
  ASSUME NEW k \in Kinds
  PROVE  /\ \A i \in DOMAIN DirsOf(k) : \A j \in DOMAIN DirsOf(k)[i] :
               DirsOf(k)[i][j] \in ResourcesOf(k)
         /\ \A r \in ResourcesOf(k) : \E i \in DOMAIN DirsOf(k) :
               \E j \in DOMAIN DirsOf(k)[i] : r = DirsOf(k)[i][j]
         /\ ResourcesOf(k) \subseteq Resources
<1>1. ResourcesOf(k) \subseteq Resources
  BY DEF Resources, Kinds
<1>2. QED BY <1>1 DEF ResourcesOf

LEMMA Bounds ==
  MaxUid \in Nat /\ MaxFaults \in Nat /\ MaxEdits \in Nat /\ MaxRestarts \in Nat
BY ConstantsAssumption, Zenon

\* The file at hand is a resource.
LEMMA FileIsResource ==
  ASSUME CrTypes, PosTypes, pc \in {"get", "put"}
  PROVE  File \in ResourcesOf(kind) /\ File \in Resources
BY DirsResources DEF CrTypes, PosTypes, File

\* Going on: the next file, the next step, or the status.
LEMMA NextFileStep ==
  ASSUME CrTypes, LoopTypes, PosTypes, pc \in {"get", "put"}, NEW ok \in BOOLEAN,
         NextFile(ok), kind' = kind
  PROVE  /\ PosTypes' /\ pc' \in {"get", "status"} /\ failed' \in BOOLEAN
         /\ pc' = "status" => pos'[1] > Len(DirsOf(kind))
         /\ ~failed' => ok /\ ~failed
         /\ ok => \A i \in DOMAIN DirsOf(kind) : \A j \in DOMAIN DirsOf(kind)[i] :
               Before(i, j)' => Before(i, j) \/ (i = pos[1] /\ j = pos[2])
<1> DEFINE D == DirsOf(kind)
           n == Len(D)
           m == Len(D[pos[1]])
           same == ok /\ pos[2] < m
           a == IF same THEN pos[1] ELSE pos[1] + 1
           b == IF same THEN pos[2] + 1 ELSE 1
<1>1. /\ pos' = <<a, b>>
      /\ pc' = (IF a <= n THEN "get" ELSE "status")
      /\ failed' = (failed \/ ~ok)
  BY DEF NextFile
<1>2. n \in Nat \ {0} /\ DOMAIN D = 1..n /\ pos[1] \in 1..n
  BY DirsShape DEF CrTypes, PosTypes
<1>3. \A i \in 1..n : Len(D[i]) \in Nat \ {0} /\ DOMAIN D[i] = 1..Len(D[i])
  BY <1>2, DirsShape DEF CrTypes
<1>4. m \in Nat \ {0} /\ pos[2] \in 1..m
  BY <1>2, <1>3 DEF PosTypes
<1>5. pos'[1] = a /\ pos'[2] = b
  BY <1>1
<1> HIDE DEF D, n, m
<1>6. a \in 1..(n + 1) /\ b \in Nat \ {0} /\ (same => a = pos[1] /\ b \in 1..m)
  BY <1>2, <1>4
<1>7. a <= n => a \in 1..n /\ b \in 1..Len(D[a])
  BY <1>2, <1>3, <1>4, <1>6 DEF m
<1>8. PosTypes'
  BY <1>1, <1>2, <1>3, <1>5, <1>6, <1>7 DEF PosTypes, D, n
<1>9. pc' = "status" => pos'[1] > n
  BY <1>1, <1>2, <1>5
<1>10. ASSUME ok, NEW i \in DOMAIN D, NEW j \in DOMAIN D[i],
              i < a \/ (i = a /\ j < b)
       PROVE  Before(i, j) \/ (i = pos[1] /\ j = pos[2])
  <2>1. i \in Nat /\ j \in Nat /\ j >= 1
    BY <1>2, <1>3
  <2>2. i = pos[1] => j <= m
    BY <1>3, <1>2, <2>1 DEF m
  <2>3. QED BY <1>10, <1>2, <1>4, <2>1, <2>2 DEF Before
<1>11. QED
  BY <1>1, <1>5, <1>8, <1>9, <1>10 DEF LoopTypes, Before, D, n

(***************************************************************************)
(* Users and the garbage collector.                                        *)
(***************************************************************************)
\* What an outsider leaves alone.
LEMMA OutsideTypes ==
  ASSUME Inv, Outside, queue' \in BOOLEAN, stale' \in BOOLEAN
  PROVE  LoopTypes' /\ PosTypes' /\ TrackTypes'
BY DEF Inv, Types, Outside, loopVars, LoopTypes, PosTypes, TrackTypes

LEMMA EventTypes ==
  ASSUME Inv
  PROVE  /\ CrEvent => queue' \in BOOLEAN /\ stale' \in BOOLEAN
         /\ ObjEvent => queue' \in BOOLEAN /\ stale' \in BOOLEAN
BY DEF Inv, Types, LoopTypes, CrEvent, ObjEvent

\* A change of the CR leaves the resources alone.
LEMMA CrEventStep ==
  ASSUME Inv, Outside, CrEvent, UNCHANGED <<objVars, tainted>>
  PROVE  /\ LoopTypes' /\ PosTypes' /\ TrackTypes' /\ ObjTypes'
         /\ AllTracked' /\ CleanOK'
<1> USE DEF Inv, Types, Safe, objVars
<1>1. LoopTypes' /\ PosTypes' /\ TrackTypes'
  BY OutsideTypes, EventTypes
<1>2. ObjTypes'
  BY DEF ObjTypes
<1>3. UNCHANGED <<kind, pc, own, pos, got, failed, left, tracked>>
  BY DEF Outside, loopVars
<1>4. AllTracked' /\ CleanOK'
  BY <1>3 DEF AllTracked, CleanOK, Nothing
<1>5. QED BY <1>1, <1>2, <1>4

\* A new CR comes when the last one is gone, and with it all that it owned.
LEMMA CreateCrStep == ASSUME Inv, CreateCr PROVE Inv'
<1> USE DEF Inv, Types, Safe
<1>1. /\ life = "none" /\ uid < MaxUid /\ life' = "live" /\ uid' = uid + 1
      /\ fin' = FALSE /\ fg' = FALSE /\ ready' = "none"
      /\ CrEvent /\ Outside /\ UNCHANGED <<objVars, tainted, budget>>
  BY DEF CreateCr
<1>2. UNCHANGED <<kind, pc, pos, left, state, owner, tainted>> /\ stale'
  BY <1>1 DEF Outside, loopVars, objVars, CrEvent
<1>3. CrTypes'
  <2>1. \A m, n \in Nat : n \in 0..m /\ n < m => n + 1 \in 0..m
    OBVIOUS
  <2>2. uid' \in Uids
    BY <1>1, <2>1, Bounds DEF CrTypes, Uids
  <2>3. QED BY <1>1, <1>2, <2>2 DEF CrTypes
<1>4. BudgetTypes'
  BY <1>1 DEF BudgetTypes, budget
<1>5. CrOK'
  BY <1>1, <1>2 DEF CrOK
<1>6. kind = "config" => pc \in {"idle", "finalizer"}
  BY <1>1 DEF CrOK, ReadOK, LoopTypes, Pcs
<1>7. ReadOK'
  BY <1>1, <1>2, <1>6 DEF ReadOK
<1>8. ConfigOK'
  BY <1>1, <1>2 DEF ConfigOK, CrOK, Nothing
<1>9. AppliedOK'
  BY <1>1, <1>2, <1>6 DEF AppliedOK
<1>10. QED BY <1>1, <1>3, <1>4, <1>5, <1>7, <1>8, <1>9, CrEventStep

\* A CR is deleted, or its deletion ends.
LEMMA LeaveStep ==
  ASSUME Inv, life' \in {"deleting", "none"}, fg' \in BOOLEAN,
         life' = "none" => ~fin,
         life = "deleting" /\ fin => life' = "deleting",
         CrEvent, Outside, UNCHANGED <<uid, fin, ready, objVars, tainted, budget>>
  PROVE  Inv'
<1> USE DEF Inv, Types, Safe
<1>1. UNCHANGED <<kind, pc, own, pos, left, state, owner>> /\ stale'
  BY DEF Outside, loopVars, objVars, CrEvent
<1>2. CrTypes'
  BY <1>1 DEF CrTypes
<1>3. BudgetTypes'
  BY DEF BudgetTypes, budget
<1>4. CrOK'
  BY <1>1 DEF CrOK
<1>5. ReadOK'
  BY <1>1 DEF ReadOK
<1>6. ConfigOK'
  BY <1>1 DEF ConfigOK, Nothing
<1>7. AppliedOK'
  BY DEF AppliedOK
<1>8. QED BY <1>2, <1>3, <1>4, <1>5, <1>6, <1>7, CrEventStep

LEMMA DeleteCrStep == ASSUME Inv, DeleteCr PROVE Inv'
BY LeaveStep DEF DeleteCr

LEMMA CollectCrStep == ASSUME Inv, CollectCr PROVE Inv'
BY LeaveStep DEF CollectCr

LEMMA EditCrStep == ASSUME Inv, EditCr PROVE Inv'
<1> USE DEF Inv, Types, Safe
<1>1. /\ CrEvent /\ Outside /\ Edit /\ UNCHANGED <<objVars, tainted>>
      /\ UNCHANGED <<life, uid, fin, fg, ready, state, owner>>
  BY DEF EditCr, crVars, objVars
<1>2. UNCHANGED <<kind, pc, own, pos, left, failed>> /\ stale'
  BY <1>1 DEF Outside, loopVars, CrEvent
<1>3. CrTypes'
  BY <1>1, <1>2 DEF CrTypes
<1>4. BudgetTypes'
  BY <1>1, Bounds DEF BudgetTypes, Edit
<1>5. CrOK'
  BY <1>1, <1>2 DEF CrOK
<1>6. ReadOK'
  BY <1>1, <1>2 DEF ReadOK
<1>7. ConfigOK'
  BY <1>1, <1>2 DEF ConfigOK, Nothing
<1>8. AppliedOK'
  BY <1>1, <1>2 DEF AppliedOK, Before
<1>9. QED BY <1>1, <1>3, <1>4, <1>5, <1>6, <1>7, <1>8, CrEventStep

\* A change of resources leaves the CR alone.
LEMMA ObjEventStep ==
  ASSUME Inv, Outside, ObjEvent, UNCHANGED crVars
  PROVE  CrTypes' /\ LoopTypes' /\ PosTypes' /\ TrackTypes' /\ CrOK' /\ ReadOK'
<1> USE DEF Inv, Types, Safe
<1>1. LoopTypes' /\ PosTypes' /\ TrackTypes'
  BY OutsideTypes, EventTypes
<1>2. UNCHANGED <<kind, pc, own, pos, left, stale, life, uid, fin, fg, ready>>
  BY DEF Outside, loopVars, ObjEvent, crVars
<1>3. CrTypes'
  BY <1>2 DEF CrTypes
<1>4. CrOK' /\ ReadOK'
  BY <1>2 DEF CrOK, ReadOK
<1>5. QED BY <1>1, <1>3, <1>4

\* Once the list of resources cannot be relied on, nothing is claimed.
LEMMA TaintedSafe ==
  ASSUME tainted' PROVE AllTracked' /\ CleanOK' /\ ConfigOK' /\ AppliedOK'
BY DEF AllTracked, CleanOK, ConfigOK, AppliedOK

LEMMA DeleteResourceStep ==
  ASSUME Inv, NEW r \in Resources, DeleteResource(r) PROVE Inv'
<1> USE DEF Inv, Types, Safe
<1>1. ObjTypes'
  BY DEF ObjTypes, DeleteResource, States
<1>2. BudgetTypes'
  BY Bounds DEF BudgetTypes, DeleteResource, Edit
<1>3. QED BY <1>1, <1>2, ObjEventStep, TaintedSafe DEF DeleteResource

LEMMA CreateResourceStep ==
  ASSUME Inv, NEW r \in Resources, CreateResource(r) PROVE Inv'
<1> USE DEF Inv, Types, Safe
<1>1. ObjTypes'
  BY DEF ObjTypes, CreateResource, States, CrTypes
<1>2. BudgetTypes'
  BY Bounds DEF BudgetTypes, CreateResource, Edit
<1>3. QED BY <1>1, <1>2, ObjEventStep, TaintedSafe DEF CreateResource

\* A resource terminates: none that a live DpuOperatorConfig owns does.
LEMMA TerminatedStep ==
  ASSUME Inv, NEW r \in Resources, Terminated(r) PROVE Inv'
<1> USE DEF Inv, Types, Safe
<1>1. /\ state[r] = "terminating" /\ state' = [state EXCEPT ![r] = "absent"]
      /\ UNCHANGED <<crVars, owner, tainted, budget>> /\ Outside /\ ObjEvent
  BY DEF Terminated
<1>2. UNCHANGED <<kind, pc, pos, failed, left, tracked, life, uid, fin, ready>>
  BY <1>1 DEF Outside, loopVars, crVars
<1>3. ObjTypes'
  BY <1>1 DEF ObjTypes, States
<1>4. BudgetTypes'
  BY <1>1 DEF BudgetTypes, budget
<1>5. \A q \in Resources : state'[q] = IF q = r THEN "absent" ELSE state[q]
  BY <1>1 DEF ObjTypes
<1>6. \A j \in 1..Len(tracked) : tracked[j] \in Resources
  BY ElementOfSeq, DirsResources DEF TrackTypes, CrTypes
<1>7. AllTracked'
  BY <1>1, <1>2, <1>5 DEF AllTracked
<1>8. CleanOK'
  BY <1>1, <1>2, <1>5, <1>6 DEF CleanOK, Nothing
<1>9. ConfigOK'
  BY <1>1, <1>2, <1>5 DEF ConfigOK, Nothing
<1>10. kind = "config" /\ life = "live" => tainted
  BY <1>1 DEF ConfigOK, BudgetTypes
<1>11. AppliedOK'
  BY <1>1, <1>2, <1>10 DEF AppliedOK
<1>12. QED BY <1>1, <1>3, <1>4, <1>7, <1>8, <1>9, <1>11, ObjEventStep

\* The garbage collector does not take what a live DpuOperatorConfig owns.
LEMMA CollectResourceStep ==
  ASSUME Inv, NEW r \in Resources, CollectResource(r) PROVE Inv'
<1> USE DEF Inv, Types, Safe
<1>1. /\ state[r] = "live" /\ state' = [state EXCEPT ![r] = "terminating"]
      /\ Owned(r) => fg
      /\ UNCHANGED <<crVars, owner, tainted, budget>> /\ Outside /\ ObjEvent
  BY DEF CollectResource
<1>2. UNCHANGED <<kind, pc, pos, failed, left, tracked, life, uid, fin, ready>>
  BY <1>1 DEF Outside, loopVars, crVars
<1>3. ObjTypes'
  BY <1>1 DEF ObjTypes, States
<1>4. BudgetTypes'
  BY <1>1 DEF BudgetTypes, budget
<1>5. \A q \in Resources : (state'[q] = "absent") = (state[q] = "absent")
  BY <1>1 DEF ObjTypes
<1>6. \A j \in 1..Len(tracked) : tracked[j] \in Resources
  BY ElementOfSeq, DirsResources DEF TrackTypes, CrTypes
<1>7. AllTracked'
  BY <1>1, <1>2, <1>5 DEF AllTracked
<1>8. CleanOK'
  BY <1>1, <1>2, <1>5, <1>6 DEF CleanOK, Nothing
<1>9. kind = "config" /\ life = "live" => tainted
  BY <1>1 DEF ConfigOK, CrOK, Owned, BudgetTypes
<1>10. ConfigOK'
  BY <1>1, <1>2, <1>5, <1>9 DEF ConfigOK, Nothing
<1>11. AppliedOK'
  BY <1>1, <1>2, <1>9 DEF AppliedOK
<1>12. QED BY <1>1, <1>3, <1>4, <1>7, <1>8, <1>10, <1>11, ObjEventStep

(***************************************************************************)
(* Reconcile.                                                              *)
(***************************************************************************)
LEMMA FaultTypes ==
  ASSUME BudgetTypes, Fault, tainted' \in BOOLEAN PROVE BudgetTypes'
BY Bounds DEF BudgetTypes, Fault

LEMMA SameBudget ==
  ASSUME BudgetTypes, UNCHANGED budget, tainted' \in BOOLEAN PROVE BudgetTypes'
BY DEF BudgetTypes, budget

LEMMA ReconcileStep == ASSUME Inv, Reconcile PROVE Inv'
<1> USE DEF Inv, Types, Safe
<1>1. /\ own' = uid /\ stale' = FALSE /\ failed' = FALSE /\ pos' = <<1, 1>>
      /\ left' = Len(tracked)
      /\ UNCHANGED <<kind, life, uid, fin, fg, ready, state, owner, got, tracked,
                     tainted>>
      /\ pc' \in {IF kind = "dpu" THEN DpuStep ELSE ConfigStep, "idle"}
      /\ queue' \in BOOLEAN
  BY DEF Reconcile, crVars, objVars, Error
<1>2. BudgetTypes'
  <2>1. UNCHANGED budget \/ Fault
    BY DEF Reconcile
  <2>2. tainted' \in BOOLEAN
    BY <1>1 DEF BudgetTypes
  <2>3. QED BY <2>1, <2>2, FaultTypes, SameBudget
<1>3. CrTypes' /\ ObjTypes' /\ CrOK' /\ AllTracked' /\ ConfigOK'
  BY <1>1 DEF CrTypes, ObjTypes, CrOK, AllTracked, ConfigOK, Nothing
<1>4. /\ pc' \in {"idle", "delete", "finalizer", "initStatus", "get"}
      /\ pc' = "delete" /\ kind = "config" => fin /\ life = "deleting"
      /\ pc' \in {"initStatus", "get"} /\ kind = "config" => fin
      /\ pc' = "finalizer" => life = "live"
      /\ pc' \in {"finalizer", "initStatus"} => kind = "config"
  BY <1>1 DEF DpuStep, ConfigStep, CrTypes, Kinds
<1>5. LoopTypes'
  BY <1>1, <1>4 DEF LoopTypes, Pcs, CrTypes
<1>6. pos'[1] = 1 /\ pos'[2] = 1
  BY <1>1
<1>7. PosTypes'
  <2>1. /\ 1 \in DOMAIN DirsOf(kind) /\ 1 \in 1..(Len(DirsOf(kind)) + 1)
        /\ 1 \in DOMAIN DirsOf(kind)[1]
    BY DirsShape DEF CrTypes
  <2>2. QED BY <1>1, <1>6, <2>1 DEF PosTypes
<1>8. TrackTypes'
  <2>1. Len(tracked) \in Nat
    BY LenProperties DEF TrackTypes
  <2>2. QED BY <1>1, <2>1 DEF TrackTypes
<1>9. ReadOK'
  BY <1>1, <1>4, <1>6 DEF ReadOK
<1>10. CleanOK'
  <2>1. \A j \in 1..Len(tracked) : ~(j > Len(tracked))
    <3>1. \A n \in Nat : \A j \in 1..n : ~(j > n)
      OBVIOUS
    <3>2. QED BY <3>1, LenProperties DEF TrackTypes
  <2>2. QED BY <1>1, <1>4, <2>1 DEF CleanOK
<1>11. AppliedOK'
  <2>1. \A i \in DOMAIN DirsOf(kind) : \A j \in DOMAIN DirsOf(kind)[i] : ~Before(i, j)'
    BY <1>1, <1>6, DirsShape DEF Before, CrTypes
  <2>2. QED BY <1>1, <2>1 DEF AppliedOK
<1>12. QED BY <1>2, <1>3, <1>5, <1>7, <1>8, <1>9, <1>10, <1>11

\* Reconcile ends with the CR and the resources as they are.
LEMMA IdleStep ==
  ASSUME Inv, UNCHANGED <<kind, life, uid, fin, fg, state, owner, own, stale, pos,
                          got, failed, left, tracked, tainted>>,
         pc' = "idle", queue' \in BOOLEAN, BudgetTypes',
         ready' \in {"none", "false", "true"},
         ready' = ready \/ (kind = "config" /\ ready' = "false")
  PROVE  Inv'
<1> USE DEF Inv, Types, Safe
<1>1. CrTypes' /\ ObjTypes' /\ CrOK' /\ AllTracked' /\ ConfigOK'
  BY DEF CrTypes, ObjTypes, CrOK, AllTracked, ConfigOK, Nothing
<1>2. LoopTypes' /\ PosTypes' /\ TrackTypes'
  BY DEF LoopTypes, PosTypes, TrackTypes, Pcs
<1>3. ReadOK' /\ CleanOK'
  BY DEF ReadOK, CleanOK
<1>4. AppliedOK'
  BY DEF AppliedOK
<1>5. QED BY <1>1, <1>2, <1>3, <1>4

LEMMA UpdateFailsTypes ==
  ASSUME Inv, UpdateFails, UNCHANGED tainted
  PROVE  pc' = "idle" /\ queue' \in BOOLEAN /\ BudgetTypes'
BY FaultTypes, SameBudget DEF Inv, Types, BudgetTypes, UpdateFails, Error

\* The finalizer is added to a CR that is live: nobody has changed it.
LEMMA AddFinalizerStep == ASSUME Inv, AddFinalizer PROVE Inv'
<1> USE DEF Inv, Types, Safe
<1>1. /\ pc = "finalizer"
      /\ UNCHANGED <<kind, life, uid, fg, ready, state, owner, own, stale, pos, got,
                     failed, left, tracked, tainted>>
  BY DEF AddFinalizer, objVars, loopVars
<1>2. CASE UpdateFails /\ UNCHANGED fin
  BY <1>1, <1>2, UpdateFailsTypes, IdleStep DEF CrTypes
<1>3. CASE ~stale /\ fin' = TRUE /\ pc' = "idle" /\ queue' = TRUE /\ UNCHANGED budget
  <2>1. life = "live" /\ kind = "config"
    BY <1>1, <1>3 DEF ReadOK
  <2>2. BudgetTypes'
    BY <1>1, <1>3, SameBudget DEF BudgetTypes
  <2>3. CrTypes' /\ ObjTypes' /\ CrOK' /\ AllTracked' /\ ConfigOK'
    BY <1>1, <1>3, <2>1 DEF CrTypes, ObjTypes, CrOK, AllTracked, ConfigOK
  <2>4. LoopTypes' /\ PosTypes' /\ TrackTypes'
    BY <1>1, <1>3 DEF LoopTypes, PosTypes, TrackTypes, Pcs
  <2>5. ReadOK' /\ CleanOK'
    BY <1>3 DEF ReadOK, CleanOK
  <2>6. AppliedOK'
    BY <1>1, <1>3 DEF AppliedOK
  <2>7. QED BY <2>2, <2>3, <2>4, <2>5, <2>6
<1>4. QED BY <1>2, <1>3 DEF AddFinalizer

LEMMA InitializeStatusStep == ASSUME Inv, InitializeStatus PROVE Inv'
<1> USE DEF Inv, Types, Safe
<1>1. /\ pc = "initStatus"
      /\ UNCHANGED <<kind, life, uid, fin, fg, state, owner, own, stale, pos, got,
                     failed, left, tracked, tainted>>
  BY DEF InitializeStatus, objVars, loopVars
<1>2. CASE UpdateFails /\ UNCHANGED ready
  BY <1>1, <1>2, UpdateFailsTypes, IdleStep DEF CrTypes
<1>3. CASE /\ ready' = "false" /\ pc' = "get" /\ queue' = TRUE /\ UNCHANGED budget
  <2>1. kind = "config" /\ fin /\ own = uid /\ pos[1] = 1 /\ pos[2] = 1
    BY <1>1 DEF ReadOK
  <2>2. BudgetTypes'
    BY <1>1, <1>3, SameBudget DEF BudgetTypes
  <2>3. CrTypes' /\ ObjTypes' /\ CrOK' /\ AllTracked' /\ ConfigOK'
    BY <1>1, <1>3, <2>1
    DEF CrTypes, ObjTypes, CrOK, AllTracked, ConfigOK, Nothing
  <2>4. LoopTypes' /\ TrackTypes'
    BY <1>1, <1>3 DEF LoopTypes, TrackTypes, Pcs
  <2>5. PosTypes'
    <3>1. 1 \in DOMAIN DirsOf(kind) /\ 1 \in DOMAIN DirsOf(kind)[1]
      BY DirsShape DEF CrTypes
    <3>2. QED BY <1>1, <2>1, <3>1 DEF PosTypes
  <2>6. ReadOK' /\ CleanOK'
    BY <1>1, <1>3, <2>1 DEF ReadOK, CleanOK
  <2>7. AppliedOK'
    <3>1. \A i \in DOMAIN DirsOf(kind) : \A j \in DOMAIN DirsOf(kind)[i] :
             ~Before(i, j)'
      BY <1>1, <2>1, DirsShape DEF Before, CrTypes
    <3>2. QED BY <1>1, <1>3, <3>1 DEF AppliedOK
  <2>8. QED BY <2>2, <2>3, <2>4, <2>5, <2>6, <2>7
<1>4. QED BY <1>2, <1>3 DEF InitializeStatus

\* A file was not applied: the error is remembered, and nothing else changes.
LEMMA SkipStep ==
  ASSUME Inv, pc \in {"get", "put"}, NextFile(FALSE), BudgetTypes',
         UNCHANGED <<kind, life, uid, fin, fg, ready, state, owner, queue, stale,
                     own, got, left, tracked, tainted>>
  PROVE  Inv'
<1> USE DEF Inv, Types, Safe
<1>1. /\ PosTypes' /\ pc' \in {"get", "status"} /\ failed' = TRUE
      /\ pc' = "status" => pos'[1] > Len(DirsOf(kind))
  BY NextFileStep DEF LoopTypes
<1>2. CrTypes' /\ ObjTypes' /\ CrOK' /\ AllTracked' /\ ConfigOK'
  BY DEF CrTypes, ObjTypes, CrOK, AllTracked, ConfigOK, Nothing
<1>3. LoopTypes' /\ TrackTypes'
  BY <1>1 DEF LoopTypes, TrackTypes, Pcs
<1>4. ReadOK' /\ CleanOK'
  BY <1>1 DEF ReadOK, CleanOK
<1>5. AppliedOK'
  BY <1>1 DEF AppliedOK
<1>6. QED BY <1>1, <1>2, <1>3, <1>4, <1>5

LEMMA GetExistingStep == ASSUME Inv, GetExisting PROVE Inv'
<1> USE DEF Inv, Types, Safe
<1>1. /\ pc = "get"
      /\ UNCHANGED <<kind, life, uid, fin, fg, ready, state, owner, queue, stale,
                     own, left, tracked, tainted>>
  BY DEF GetExisting, crVars, objVars
<1>2. CASE NextFile(FALSE) /\ Fault /\ UNCHANGED got
  BY <1>1, <1>2, SkipStep, FaultTypes DEF BudgetTypes
<1>3. CASE /\ got' = <<state[File], owner[File]>>
           /\ pc' = "put" /\ UNCHANGED <<pos, failed, budget>>
  <2>1. got' \in States \X Uids
    BY <1>1, <1>3, FileIsResource DEF ObjTypes
  <2>2. BudgetTypes'
    BY <1>1, <1>3, SameBudget DEF BudgetTypes
  <2>3. CrTypes' /\ ObjTypes' /\ CrOK' /\ AllTracked' /\ ConfigOK'
    BY <1>1 DEF CrTypes, ObjTypes, CrOK, AllTracked, ConfigOK, Nothing
  <2>4. LoopTypes' /\ PosTypes' /\ TrackTypes'
    BY <1>1, <1>3, <2>1 DEF LoopTypes, PosTypes, TrackTypes, Pcs
  <2>5. ReadOK' /\ CleanOK'
    BY <1>1, <1>3 DEF ReadOK, CleanOK
  <2>6. AppliedOK'
    BY <1>1, <1>3 DEF AppliedOK, Before
  <2>7. QED BY <2>2, <2>3, <2>4, <2>5, <2>6
<1>4. QED BY <1>2, <1>3 DEF GetExisting

\* trackResource keeps what is tracked, and adds the resource.
LEMMA TrackStep ==
  ASSUME CrTypes, TrackTypes, NEW r \in ResourcesOf(kind), Track(r),
         UNCHANGED <<kind, left>>
  PROVE  /\ TrackTypes'
         /\ \E i \in 1..Len(tracked') : tracked'[i] = r
         /\ \A q : (\E i \in 1..Len(tracked) : tracked[i] = q) =>
                      \E i \in 1..Len(tracked') : tracked'[i] = q
<1>1. Len(tracked) \in Nat /\ DOMAIN tracked = 1..Len(tracked)
  BY LenProperties DEF TrackTypes
<1>2. CASE \E i \in DOMAIN tracked : tracked[i] = r
  BY <1>1, <1>2 DEF Track, TrackTypes
<1>3. CASE ~\E i \in DOMAIN tracked : tracked[i] = r
  <2>1. /\ tracked' \in Seq(ResourcesOf(kind)) /\ Len(tracked') = Len(tracked) + 1
        /\ \A i \in 1..Len(tracked) : tracked'[i] = tracked[i]
        /\ tracked'[Len(tracked) + 1] = r
    BY <1>3, AppendProperties DEF Track, TrackTypes
  <2>2. \A n \in Nat : /\ 1..n \subseteq 1..(n + 1) /\ n + 1 \in 1..(n + 1)
                       /\ 0..n \subseteq 0..(n + 1)
    OBVIOUS
  <2>3. /\ 1..Len(tracked) \subseteq 1..Len(tracked')
        /\ Len(tracked) + 1 \in 1..Len(tracked') /\ left' \in 0..Len(tracked')
    BY <1>1, <2>1, <2>2 DEF TrackTypes
  <2>4. QED BY <2>1, <2>3 DEF TrackTypes
<1>4. QED BY <1>2, <1>3

\* A file was applied.  It is live afterwards, if the CR is, and belongs to it.
LEMMA AppliedStep ==
  ASSUME Inv, pc = "put", NextFile(TRUE), Track(File), BudgetTypes',
         UNCHANGED <<kind, life, uid, fin, fg, ready, stale, own, got, left, tainted>>,
         queue' \in BOOLEAN, ObjTypes',
         \A q \in Resources : q # File => state'[q] = state[q] /\ owner'[q] = owner[q],
         state[File] = "absent" => state'[File] = "live" /\ owner'[File] = own,
         state[File] # "absent" =>
             state'[File] = state[File] /\ owner'[File] \in {owner[File], own}
  PROVE  Inv'
<1> USE DEF Inv, Types, Safe
<1> DEFINE f == File
<1>1. f \in ResourcesOf(kind) /\ f \in Resources
  BY FileIsResource
<1>2. /\ PosTypes' /\ pc' \in {"get", "status"} /\ failed' \in BOOLEAN
      /\ pc' = "status" => pos'[1] > Len(DirsOf(kind))
      /\ ~failed' => ~failed
      /\ \A i \in DOMAIN DirsOf(kind) : \A j \in DOMAIN DirsOf(kind)[i] :
            Before(i, j)' => Before(i, j) \/ (i = pos[1] /\ j = pos[2])
  BY NextFileStep
<1>3. CrTypes' /\ CrOK'
  BY DEF CrTypes, CrOK
<1>4. LoopTypes'
  BY <1>2 DEF LoopTypes, Pcs
<1>5. ReadOK' /\ CleanOK'
  BY <1>2 DEF ReadOK, CleanOK
<1>6. /\ TrackTypes'
      /\ \E i \in 1..Len(tracked') : tracked'[i] = f
      /\ \A q : (\E i \in 1..Len(tracked) : tracked[i] = q) =>
                   \E i \in 1..Len(tracked') : tracked'[i] = q
  BY <1>1, TrackStep
<1> HIDE DEF f
<1>7. AllTracked'
  <2> SUFFICES ASSUME ~tainted, NEW r \in Resources, state'[r] # "absent"
               PROVE  \E i \in 1..Len(tracked') : tracked'[i] = r
    BY DEF AllTracked
  <2>1. CASE r = f
    BY <2>1, <1>6
  <2>2. CASE r # f
    <3>1. \E i \in 1..Len(tracked) : tracked[i] = r
      BY <2>2 DEF AllTracked, f
    <3>2. QED BY <3>1, <1>6
  <2>3. QED BY <2>1, <2>2
<1>8. kind = "config" => fin /\ own = uid
  BY DEF ReadOK
<1>9. ConfigOK'
  <2> SUFFICES ASSUME kind = "config", ~tainted, life = "live",
                      NEW r \in Resources, state'[r] # "absent"
               PROVE  state'[r] = "live" /\ owner'[r] = uid
    BY <1>8 DEF ConfigOK
  <2>1. \A q \in Resources : state[q] # "absent" => state[q] = "live" /\ owner[q] = uid
    BY DEF ConfigOK
  <2>2. CASE r = f
    BY <1>1, <1>8, <2>1, <2>2 DEF f
  <2>3. CASE r # f
    BY <2>1, <2>3 DEF f
  <2>4. QED BY <2>2, <2>3
<1>10. AppliedOK'
  <2> SUFFICES ASSUME kind = "config", ~tainted, life = "live"
               PROVE  /\ ~failed' =>
                           \A i \in DOMAIN DirsOf(kind) :
                             \A j \in DOMAIN DirsOf(kind)[i] :
                               Before(i, j)' => state'[DirsOf(kind)[i][j]] = "live"
                      /\ ready = "true" => \A r \in ResourcesOf(kind) :
                                             state'[r] = "live"
    BY <1>2 DEF AppliedOK
  <2>1. \A q \in Resources : state[q] # "absent" => state[q] = "live"
    BY DEF ConfigOK
  <2>2. state'[f] = "live"
    BY <1>1, <2>1 DEF f
  <2>3. \A q \in Resources : state[q] = "live" => state'[q] = "live"
    BY <2>2 DEF f
  <2>4. ASSUME ~failed', NEW i \in DOMAIN DirsOf(kind),
               NEW j \in DOMAIN DirsOf(kind)[i], Before(i, j)'
        PROVE  state'[DirsOf(kind)[i][j]] = "live"
    <3>1. DirsOf(kind)[i][j] \in Resources
      BY DirsResources DEF CrTypes
    <3>2. CASE Before(i, j)
      BY <1>2, <2>3, <2>4, <3>1, <3>2 DEF AppliedOK
    <3>3. CASE i = pos[1] /\ j = pos[2]
      BY <2>2, <3>3 DEF f, File
    <3>4. QED BY <1>2, <2>4, <3>2, <3>3
  <2>5. ASSUME ready = "true", NEW r \in ResourcesOf(kind) PROVE state'[r] = "live"
    BY <2>3, <2>5, DirsResources DEF AppliedOK, CrTypes
  <2>6. QED BY <2>4, <2>5
<1>11. QED BY <1>2, <1>3, <1>4, <1>5, <1>6, <1>7, <1>9, <1>10

\* SetOwner changes an owner at most.
LEMMA SetOwnerStep ==
  ASSUME Inv, NEW f \in Resources, SetOwner(f), kind' = kind
  PROVE  /\ ObjTypes' /\ queue' \in BOOLEAN /\ UNCHANGED state
         /\ owner'[f] = own
         /\ \A q \in Resources : q # f => owner'[q] = owner[q]
BY DEF Inv, Types, ObjTypes, LoopTypes, SetOwner

LEMMA UpdateObjectStep == ASSUME Inv, UpdateObject PROVE Inv'
<1> USE DEF Inv, Types, Safe
<1>1. /\ pc = "put" /\ got[1] # "absent"
      /\ UNCHANGED <<kind, life, uid, fin, fg, ready, stale, own, got, left, tainted>>
  BY DEF UpdateObject, crVars
<1>2. File \in Resources
  BY <1>1, FileIsResource
<1>3. tainted' \in BOOLEAN
  BY <1>1 DEF BudgetTypes
<1>4. CASE NextFile(FALSE) /\ UNCHANGED <<objVars, queue, tracked, budget>>
  BY <1>1, <1>3, <1>4, SkipStep, SameBudget DEF objVars
<1>5. CASE NextFile(FALSE) /\ Fault /\ UNCHANGED <<objVars, queue, tracked>>
  BY <1>1, <1>3, <1>5, SkipStep, FaultTypes DEF objVars
<1>6. CASE /\ got = <<state[File], owner[File]>>
           /\ SetOwner(File) /\ Track(File) /\ NextFile(TRUE) /\ UNCHANGED budget
  <2>1. state[File] # "absent"
    BY <1>1, <1>6
  <2>2. /\ ObjTypes' /\ queue' \in BOOLEAN /\ UNCHANGED state
        /\ owner'[File] = own
        /\ \A q \in Resources : q # File => owner'[q] = owner[q]
    BY <1>1, <1>2, <1>6, SetOwnerStep
  <2>3. BudgetTypes'
    BY <1>3, <1>6, SameBudget
  <2>4. QED BY <1>1, <1>6, <2>1, <2>2, <2>3, AppliedStep
<1>7. QED BY <1>4, <1>5, <1>6 DEF UpdateObject

\* A new object is live and owned by the CR that Reconcile has read.
LEMMA CreatedStep ==
  ASSUME Inv, pc = "put", Created(File)
  PROVE  /\ ObjTypes' /\ queue' \in BOOLEAN
         /\ state[File] = "absent" /\ state'[File] = "live" /\ owner'[File] = own
         /\ \A q \in Resources : q # File =>
               state'[q] = state[q] /\ owner'[q] = owner[q]
<1> USE DEF Inv, Types, Created
<1>1. File \in Resources
  BY FileIsResource
<1>2. ObjTypes' /\ queue' \in BOOLEAN
  BY <1>1 DEF ObjTypes, LoopTypes, States
<1>3. QED BY <1>1, <1>2 DEF ObjTypes

LEMMA CreateObjectStep == ASSUME Inv, CreateObject PROVE Inv'
<1> USE DEF Inv, Types, Safe
<1>1. /\ pc = "put"
      /\ UNCHANGED <<kind, life, uid, fin, fg, ready, stale, own, got, left>>
  BY DEF CreateObject, crVars
<1>2. File \in Resources
  BY <1>1, FileIsResource
<1>3. tainted \in BOOLEAN
  BY DEF BudgetTypes
<1>4. CASE /\ NextFile(FALSE) /\ Fault
           /\ UNCHANGED <<objVars, queue, tracked, tainted>>
  BY <1>1, <1>3, <1>4, SkipStep, FaultTypes DEF objVars
<1>5. CASE /\ Created(File)
           /\ Track(File) /\ NextFile(TRUE) /\ UNCHANGED <<tainted, budget>>
  <2>1. BudgetTypes'
    BY <1>3, <1>5, SameBudget
  <2>2. /\ ObjTypes' /\ queue' \in BOOLEAN
        /\ state[File] = "absent" /\ state'[File] = "live" /\ owner'[File] = own
        /\ \A q \in Resources : q # File =>
              state'[q] = state[q] /\ owner'[q] = owner[q]
    BY <1>1, <1>5, CreatedStep
  <2>3. QED BY <1>1, <1>5, <2>1, <2>2, AppliedStep
<1>6. CASE /\ state[File] # "absent"
           /\ (File \notin Immutable /\ SetOwner(File)) \/ UNCHANGED <<objVars, queue>>
           /\ Track(File) /\ NextFile(TRUE) /\ UNCHANGED <<tainted, budget>>
  <2>1. /\ ObjTypes' /\ queue' \in BOOLEAN /\ UNCHANGED state
        /\ owner'[File] \in {owner[File], own}
        /\ \A q \in Resources : q # File => owner'[q] = owner[q]
    <3>1. CASE SetOwner(File)
      BY <1>1, <1>2, <3>1, SetOwnerStep
    <3>2. CASE UNCHANGED <<objVars, queue>>
      BY <3>2 DEF objVars, ObjTypes, LoopTypes
    <3>3. QED BY <1>6, <3>1, <3>2
  <2>2. BudgetTypes'
    BY <1>3, <1>6, SameBudget
  <2>3. QED BY <1>1, <1>6, <2>1, <2>2, AppliedStep
<1>7. CASE /\ NextFile(FALSE)
           /\ UNCHANGED <<objVars, queue, tracked, tainted, budget>>
  BY <1>1, <1>3, <1>7, SkipStep, SameBudget DEF objVars
<1>8. CASE /\ Created(File) /\ tainted' = TRUE
           /\ NextFile(FALSE) /\ Fault /\ UNCHANGED tracked
  <2>1. /\ PosTypes' /\ pc' \in {"get", "status"} /\ failed' \in BOOLEAN
        /\ pc' = "status" => pos'[1] > Len(DirsOf(kind))
    BY <1>1, <1>8, NextFileStep
  <2>2. ObjTypes' /\ queue' \in BOOLEAN
    BY <1>1, <1>8, CreatedStep
  <2>3. CrTypes' /\ CrOK'
    BY <1>1 DEF CrTypes, CrOK
  <2>4. LoopTypes' /\ TrackTypes'
    BY <1>1, <1>8, <2>1, <2>2 DEF LoopTypes, TrackTypes, Pcs
  <2>5. ReadOK'
    BY <1>1, <2>1 DEF ReadOK
  <2>6. QED BY <1>8, <2>1, <2>2, <2>3, <2>4, <2>5, FaultTypes, TaintedSafe
<1>9. QED BY <1>4, <1>5, <1>6, <1>7, <1>8 DEF CreateObject

LEMMA VspEnsuredStep == ASSUME Inv, VspEnsured PROVE Inv'
<1>1. BudgetTypes' /\ queue' \in BOOLEAN
  BY SameBudget DEF VspEnsured, Inv, Types, BudgetTypes, LoopTypes
<1>2. QED
  BY <1>1, IdleStep
  DEF VspEnsured, crVars, objVars, loopVars, Inv, Types, CrTypes

\* The CR is reported ready when no step has failed: all files are deployed then.
LEMMA UpdateStatusStep == ASSUME Inv, UpdateStatus PROVE Inv'
<1> USE DEF Inv, Types, Safe
<1>1. /\ pc = "status" /\ kind = "config"
      /\ UNCHANGED <<kind, life, uid, fin, fg, state, owner, own, stale, pos, got,
                     failed, left, tracked, tainted>>
  BY DEF UpdateStatus, objVars, loopVars
<1>2. CASE UpdateFails /\ UNCHANGED ready
  BY <1>1, <1>2, UpdateFailsTypes, IdleStep DEF CrTypes
<1>3. CASE /\ ready' = IF failed THEN "false" ELSE "true"
           /\ pc' = "idle" /\ queue' \in BOOLEAN
           /\ UNCHANGED budget
  <2>1. BudgetTypes'
    BY <1>1, <1>3, SameBudget DEF BudgetTypes
  <2>2. CrTypes' /\ ObjTypes' /\ CrOK' /\ AllTracked' /\ ConfigOK'
    BY <1>1, <1>3 DEF CrTypes, ObjTypes, CrOK, AllTracked, ConfigOK, Nothing
  <2>3. LoopTypes' /\ PosTypes' /\ TrackTypes'
    BY <1>1, <1>3 DEF LoopTypes, PosTypes, TrackTypes, Pcs
  <2>4. ReadOK' /\ CleanOK'
    BY <1>3 DEF ReadOK, CleanOK
  <2>5. AppliedOK'
    <3> SUFFICES ASSUME ~tainted, life = "live", ~failed, NEW r \in ResourcesOf(kind)
                 PROVE  state[r] = "live"
      BY <1>1, <1>3 DEF AppliedOK
    <3>1. PICK i \in DOMAIN DirsOf(kind) : \E j \in DOMAIN DirsOf(kind)[i] :
             r = DirsOf(kind)[i][j]
      BY DirsResources DEF CrTypes
    <3>2. PICK j \in DOMAIN DirsOf(kind)[i] : r = DirsOf(kind)[i][j]
      BY <3>1
    <3>3. i < pos[1]
      BY <1>1, DirsShape DEF ReadOK, PosTypes, CrTypes
    <3>4. QED BY <1>1, <3>2, <3>3 DEF AppliedOK, Before
  <2>6. QED BY <2>1, <2>2, <2>3, <2>4, <2>5
<1>4. QED BY <1>2, <1>3 DEF UpdateStatus, LoopTypes

(***************************************************************************)
(* Clean-up.                                                               *)
(***************************************************************************)
\* The resource at hand, when one is left.
LEMMA LeftIsTracked ==
  ASSUME CrTypes, TrackTypes, left > 0
  PROVE  /\ left \in 1..Len(tracked) /\ left - 1 \in 0..Len(tracked)
         /\ tracked[left] \in Resources
         /\ \A j \in 1..Len(tracked) : j > left - 1 => j = left \/ j > left
         /\ \A j \in 1..Len(tracked) : tracked[j] \in Resources
<1>1. Len(tracked) \in Nat
  BY LenProperties DEF TrackTypes
<1>2. \A n \in Nat : \A l \in 0..n : l > 0 =>
         /\ l \in 1..n /\ l - 1 \in 0..n
         /\ \A j \in 1..n : j > l - 1 => j = l \/ j > l
  OBVIOUS
<1>3. \A j \in 1..Len(tracked) : tracked[j] \in Resources
  BY ElementOfSeq, DirsResources DEF TrackTypes, CrTypes
<1>4. QED BY <1>1, <1>2, <1>3 DEF TrackTypes

\* Deletion of a resource, or waiting for its end, while the CR is held.
LEMMA CleanStep ==
  ASSUME Inv, pc \in {"delete", "wait"}, left > 0,
         UNCHANGED <<kind, life, uid, fin, fg, ready, owner, stale, own, pos, got,
                     tracked, tainted>>,
         pc' \in {"delete", "wait"}, left' \in {left, left - 1},
         pc' = "wait" => left' = left,
         queue' \in BOOLEAN, failed' \in BOOLEAN, BudgetTypes', ObjTypes',
         \A q \in Resources : state[q] = "absent" => state'[q] = "absent",
         ~failed' => ~failed /\ (left' = left - 1 => state'[tracked[left]] = "absent")
  PROVE  Inv'
<1> USE DEF Inv, Types, Safe
<1>1. /\ left \in 1..Len(tracked) /\ left - 1 \in 0..Len(tracked)
      /\ \A j \in 1..Len(tracked) : j > left - 1 => j = left \/ j > left
      /\ \A j \in 1..Len(tracked) : tracked[j] \in Resources
  BY LeftIsTracked
<1>2. CrTypes' /\ CrOK'
  BY DEF CrTypes, CrOK
<1>3. LoopTypes' /\ PosTypes'
  BY DEF LoopTypes, PosTypes, Pcs
<1>4. TrackTypes'
  BY <1>1 DEF TrackTypes
<1>5. ReadOK'
  BY DEF ReadOK
<1>6. AllTracked'
  BY DEF AllTracked
<1>7. CleanOK'
  <2> SUFFICES ASSUME ~tainted, ~failed', NEW j \in 1..Len(tracked), j > left'
               PROVE  state'[tracked[j]] = "absent"
    BY DEF CleanOK
  <2>1. \A k \in 1..Len(tracked) : k > left => state[tracked[k]] = "absent"
    BY DEF CleanOK
  <2>2. CASE j > left
    BY <1>1, <2>1, <2>2
  <2>3. CASE left' = left - 1 /\ j = left
    BY <2>3
  <2>4. QED BY <1>1, <2>2, <2>3
<1>8. ConfigOK' /\ AppliedOK'
  <2>1. kind = "config" => fin /\ life = "deleting"
    BY DEF ReadOK
  <2>2. QED BY <2>1 DEF ConfigOK, AppliedOK
<1>9. QED BY <1>2, <1>3, <1>4, <1>5, <1>6, <1>7, <1>8

LEMMA DeleteTrackedStep == ASSUME Inv, DeleteTracked PROVE Inv'
<1> USE DEF Inv, Types, Safe
<1> DEFINE r == tracked[left]
<1>1. /\ pc = "delete" /\ left > 0
      /\ UNCHANGED <<kind, life, uid, fin, fg, ready, owner, stale, own, pos, got,
                     tracked, tainted>>
  BY DEF DeleteTracked, crVars
<1>2. r \in Resources
  BY <1>1, LeftIsTracked
<1>3. tainted' \in BOOLEAN
  BY <1>1 DEF BudgetTypes
<1> HIDE DEF r
<1>4. CASE /\ state[r] = "absent" /\ left' = left - 1
           /\ UNCHANGED <<state, pc, queue, failed, budget>>
  <2>1. BudgetTypes'
    BY <1>3, <1>4, SameBudget
  <2>2. ObjTypes' /\ queue' \in BOOLEAN /\ failed' \in BOOLEAN
    BY <1>1, <1>4 DEF ObjTypes, LoopTypes
  <2>3. QED BY <1>1, <1>4, <2>1, <2>2, CleanStep DEF r
<1>5. CASE /\ state[r] # "absent"
           /\ state' = [state EXCEPT ![r] = "terminating"]
           /\ queue' = (queue \/ (kind = "dpu" /\ state[r] = "live"))
           /\ pc' = "wait" /\ UNCHANGED <<left, failed, budget>>
  <2>1. BudgetTypes'
    BY <1>3, <1>5, SameBudget
  <2>2. ObjTypes' /\ queue' \in BOOLEAN /\ failed' \in BOOLEAN
    BY <1>1, <1>2, <1>5 DEF ObjTypes, LoopTypes, States
  <2>3. \A q \in Resources : state[q] = "absent" => state'[q] = "absent"
    BY <1>2, <1>5 DEF ObjTypes
  <2>4. left # left - 1
    BY LenProperties DEF TrackTypes
  <2>5. QED BY <1>1, <1>5, <2>1, <2>2, <2>3, <2>4, CleanStep
<1>6. CASE /\ left' = left - 1 /\ failed' = TRUE /\ Fault
           /\ UNCHANGED <<state, pc, queue>>
  <2>1. BudgetTypes'
    BY <1>3, <1>6, FaultTypes
  <2>2. ObjTypes' /\ queue' \in BOOLEAN
    BY <1>1, <1>6 DEF ObjTypes, LoopTypes
  <2>3. QED BY <1>1, <1>6, <2>1, <2>2, CleanStep
<1>7. QED BY <1>4, <1>5, <1>6 DEF DeleteTracked, r

\* The time limit of a wait counts as a failure.
LEMMA WaitDeletedStep == ASSUME Inv, WaitDeleted PROVE Inv'
<1> USE DEF Inv, Types, Safe
<1>1. /\ pc = "wait" /\ pc' = "delete" /\ left' = left - 1 /\ left > 0
      /\ UNCHANGED <<kind, life, uid, fin, fg, ready, state, owner, queue, stale,
                     own, pos, got, tracked, tainted>>
  BY DEF WaitDeleted, crVars, objVars, ReadOK
<1>2. BudgetTypes'
  BY <1>1, SameBudget, FaultTypes DEF WaitDeleted, BudgetTypes
<1>3. ObjTypes' /\ queue' \in BOOLEAN /\ failed' \in BOOLEAN
  BY <1>1 DEF ObjTypes, LoopTypes, WaitDeleted
<1>4. ~failed' => ~failed /\ state[tracked[left]] = "absent"
  BY DEF WaitDeleted
<1>5. QED BY <1>1, <1>2, <1>3, <1>4, CleanStep

\* A clean-up that did not fail has removed everything.
LEMMA CleanedUpStep == ASSUME Inv, CleanedUp PROVE Inv'
<1> USE DEF Inv, Types, Safe
<1>1. /\ pc = "delete" /\ left = 0 /\ tracked' = <<>>
      /\ tainted' = (tainted \/ failed)
      /\ pc' = (IF ~failed /\ kind = "config" THEN "unfinalize" ELSE "idle")
      /\ queue' = (queue \/ failed)
      /\ UNCHANGED <<kind, life, uid, fin, fg, ready, state, owner, stale, own, pos,
                     got, failed, left, budget>>
  BY DEF CleanedUp, crVars, objVars, loopVars
<1>2. BudgetTypes'
  BY <1>1, SameBudget DEF BudgetTypes, LoopTypes
<1>3. CrTypes' /\ ObjTypes' /\ CrOK'
  BY <1>1 DEF CrTypes, ObjTypes, CrOK
<1>4. LoopTypes' /\ PosTypes'
  BY <1>1 DEF LoopTypes, PosTypes, Pcs
<1>5. TrackTypes'
  BY <1>1, EmptySeq DEF TrackTypes
<1>6. ~tainted /\ ~failed => Nothing
  <2> SUFFICES ASSUME ~tainted, ~failed, NEW r \in Resources, state[r] # "absent"
               PROVE  FALSE
    BY DEF Nothing
  <2>1. PICK i \in 1..Len(tracked) : tracked[i] = r
    BY DEF AllTracked
  <2>2. i > 0
    BY LenProperties DEF TrackTypes
  <2>3. QED BY <1>1, <2>1, <2>2 DEF CleanOK
<1>7. ReadOK'
  BY <1>1 DEF ReadOK
<1>8. AllTracked' /\ CleanOK'
  BY <1>1, <1>6 DEF AllTracked, CleanOK, Nothing
<1>9. ConfigOK' /\ AppliedOK'
  <2>1. kind = "config" => fin /\ life = "deleting"
    BY <1>1 DEF ReadOK
  <2>2. QED BY <1>1, <2>1 DEF ConfigOK, AppliedOK
<1>10. QED BY <1>2, <1>3, <1>4, <1>5, <1>7, <1>8, <1>9

LEMMA RemoveFinalizerStep == ASSUME Inv, RemoveFinalizer PROVE Inv'
<1> USE DEF Inv, Types, Safe
<1>1. /\ pc = "unfinalize"
      /\ UNCHANGED <<kind, uid, fg, ready, state, owner, own, stale, pos, got,
                     failed, left, tracked, tainted>>
  BY DEF RemoveFinalizer, objVars, loopVars
<1>2. CASE UpdateFails /\ UNCHANGED <<fin, life>>
  BY <1>1, <1>2, UpdateFailsTypes, IdleStep DEF CrTypes
<1>3. CASE /\ fin' = FALSE /\ life' = (IF fg THEN life ELSE "none")
           /\ pc' = "idle" /\ queue' = TRUE /\ UNCHANGED budget
  <2>1. life = "deleting" /\ kind = "config" /\ (~tainted => Nothing)
    BY <1>1 DEF ReadOK, CleanOK
  <2>2. BudgetTypes'
    BY <1>1, <1>3, SameBudget DEF BudgetTypes
  <2>3. CrTypes' /\ ObjTypes' /\ CrOK' /\ AllTracked'
    BY <1>1, <1>3, <2>1 DEF CrTypes, ObjTypes, CrOK, AllTracked
  <2>4. LoopTypes' /\ PosTypes' /\ TrackTypes'
    BY <1>1, <1>3 DEF LoopTypes, PosTypes, TrackTypes, Pcs
  <2>5. ReadOK' /\ CleanOK'
    BY <1>3 DEF ReadOK, CleanOK
  <2>6. ConfigOK' /\ AppliedOK'
    BY <1>1, <1>3, <2>1 DEF ConfigOK, AppliedOK, Nothing
  <2>7. QED BY <2>2, <2>3, <2>4, <2>5, <2>6
<1>4. QED BY <1>2, <1>3 DEF RemoveFinalizer

LEMMA RestartStep == ASSUME Inv, Restart PROVE Inv'
<1> USE DEF Inv, Types, Safe
<1>1. /\ pc' = "idle" /\ queue' = TRUE /\ left' = 0 /\ tracked' = <<>> /\ tainted'
      /\ UNCHANGED <<kind, life, uid, fin, fg, ready, state, owner, stale, own, pos,
                     got, failed>>
  BY DEF Restart, crVars, objVars
<1>2. BudgetTypes'
  BY Bounds DEF Restart, BudgetTypes
<1>3. CrTypes' /\ ObjTypes' /\ CrOK' /\ ReadOK'
  BY <1>1 DEF CrTypes, ObjTypes, CrOK, ReadOK
<1>4. LoopTypes' /\ PosTypes'
  BY <1>1 DEF LoopTypes, PosTypes, Pcs
<1>5. TrackTypes'
  BY <1>1, EmptySeq DEF TrackTypes
<1>6. QED BY <1>1, <1>2, <1>3, <1>4, <1>5, TaintedSafe

LEMMA StutterStep == ASSUME Inv, UNCHANGED vars PROVE Inv'
<1> USE DEF Inv, Types, Safe
<1>1. UNCHANGED <<kind, life, uid, fin, fg, ready, state, owner, queue, pc, own,
                  stale, pos, got, failed, left, tracked, tainted, faults, edits,
                  restarts>>
  BY DEF vars, crVars, objVars, loopVars, budget
<1>2. CrTypes' /\ ObjTypes' /\ LoopTypes' /\ PosTypes' /\ TrackTypes' /\ BudgetTypes'
  BY <1>1 DEF CrTypes, ObjTypes, LoopTypes, PosTypes, TrackTypes, BudgetTypes
<1>3. CrOK' /\ ReadOK' /\ AllTracked' /\ CleanOK' /\ ConfigOK'
  BY <1>1 DEF CrOK, ReadOK, AllTracked, CleanOK, ConfigOK, Nothing
<1>4. AppliedOK'
  BY <1>1 DEF AppliedOK, Before
<1>5. QED BY <1>2, <1>3, <1>4

(***************************************************************************)
(* The theorems.                                                           *)
(***************************************************************************)
LEMMA InitInv == ASSUME Init PROVE Inv
<1>0. 0 \in Uids /\ 0 \in 0..MaxFaults /\ 0 \in 0..MaxEdits /\ 0 \in 0..MaxRestarts
  BY Bounds DEF Uids
<1>1. CrTypes /\ ObjTypes /\ LoopTypes
  BY <1>0 DEF Init, CrTypes, ObjTypes, LoopTypes, States, Pcs
<1>2. PosTypes
  <2>1. Len(DirsOf(kind)) \in Nat \ {0}
    BY <1>1, DirsShape DEF CrTypes
  <2>2. 1 \in 1..(Len(DirsOf(kind)) + 1)
    BY <2>1
  <2>3. pos[1] = 1 /\ pos[2] = 1 /\ pc = "idle"
    BY DEF Init
  <2>4. QED BY <2>2, <2>3 DEF PosTypes
<1>3. TrackTypes /\ BudgetTypes
  <2>1. <<>> \in Seq(ResourcesOf(kind)) /\ Len(<<>>) = 0
    BY EmptySeq
  <2>2. TrackTypes
    BY <2>1 DEF Init, TrackTypes
  <2>3. BudgetTypes
    BY <1>0 DEF Init, BudgetTypes
  <2>4. QED BY <2>2, <2>3
<1>4. CrOK /\ ReadOK /\ AllTracked /\ CleanOK /\ ConfigOK /\ AppliedOK
  BY DEF Init, CrOK, ReadOK, AllTracked, CleanOK, ConfigOK, AppliedOK, Nothing
<1>5. QED BY <1>1, <1>2, <1>3, <1>4 DEF Inv, Types, Safe

LEMMA NextInv == ASSUME Inv, [Next]_vars PROVE Inv'
<1>1. ASSUME Controller PROVE Inv'
  BY <1>1, ReconcileStep, AddFinalizerStep, InitializeStatusStep, GetExistingStep,
     UpdateObjectStep, CreateObjectStep, VspEnsuredStep, UpdateStatusStep,
     DeleteTrackedStep, WaitDeletedStep, CleanedUpStep, RemoveFinalizerStep
  DEF Controller
<1>2. ASSUME NEW r \in Resources,
             DeleteResource(r) \/ CreateResource(r) \/ Terminated(r)
      PROVE  Inv'
  BY <1>2, DeleteResourceStep, CreateResourceStep, TerminatedStep
<1>3. ASSUME CollectGarbage PROVE Inv'
  BY <1>3, CollectCrStep, CollectResourceStep DEF CollectGarbage
<1>4. QED
  BY <1>1, <1>2, <1>3, CreateCrStep, DeleteCrStep, EditCrStep, RestartStep,
     StutterStep DEF Next

LEMMA InvHolds == Spec => []Inv
<1>1. Init => Inv
  BY InitInv
<1>2. Inv /\ [Next]_vars => Inv'
  BY NextInv
<1>3. QED BY <1>1, <1>2, PTL DEF Spec

\* Every variable of a controller keeps its type: it applies a file of its own
\* manifests, and clean-up stays within the list of tracked resources.
THEOREM TypeCorrect == Spec => []TypeOK
<1>1. Types => \A i \in DOMAIN tracked : tracked[i] \in ResourcesOf(kind)
  BY LenProperties, ElementOfSeq DEF Types, TrackTypes
<1>2. Types => TypeOK
  BY <1>1
  DEF Types, CrTypes, ObjTypes, LoopTypes, PosTypes, TrackTypes, BudgetTypes, TypeOK
<1>3. QED BY <1>2, InvHolds, PTL DEF Inv

\* A DpuOperatorConfig that says "All DPU operator components deployed
\* successfully" has all its resources, live and its own, unless the list of
\* resources was lost or somebody else changed them.
THEOREM ReadyIsDeployed == Spec => []ReadyMeansDeployed
<1>1. ASSUME Inv PROVE ReadyMeansDeployed
  <2> SUFFICES ASSUME life = "live", ready = "true", ~tainted,
                      NEW r \in ResourcesOf(kind)
               PROVE  state[r] = "live" /\ owner[r] = uid
    BY DEF ReadyMeansDeployed, Deployed
  <2>1. kind = "config"
    BY <1>1 DEF Inv, Safe, Types, CrOK, CrTypes, Kinds
  <2>2. state[r] = "live"
    BY <1>1, <2>1 DEF Inv, Safe, AppliedOK
  <2>3. r \in Resources
    BY <1>1, DirsResources DEF Inv, Types, CrTypes
  <2>4. QED BY <1>1, <2>1, <2>2, <2>3 DEF Inv, Safe, ConfigOK
<1>2. QED BY <1>1, InvHolds, PTL

\* The finalizer is removed only when nothing that was deployed for the CR is
\* left, unless the list of resources was lost.
THEOREM FinalizerHolds == Spec => FinalizerGuards
<1>1. ASSUME Inv, [Next]_vars, fin, ~fin', ~tainted PROVE Nothing
  <2>1. CASE RemoveFinalizer
    BY <1>1, <2>1 DEF RemoveFinalizer, Inv, Safe, CleanOK
  <2>2. CASE ~RemoveFinalizer
    <3>1. ~UNCHANGED fin
      BY <1>1
    <3>2. ~UNCHANGED crVars /\ ~UNCHANGED vars
      BY <3>1 DEF crVars, vars
    <3>3. ~CreateCr
      BY <1>1 DEF CreateCr, Inv, Safe, CrOK
    <3>4. ~DeleteCr /\ ~EditCr /\ ~CollectCr /\ ~Restart
      BY <3>1, <3>2 DEF DeleteCr, EditCr, CollectCr, Restart
    <3>5. \A r \in Resources : /\ ~DeleteResource(r) /\ ~CreateResource(r)
                               /\ ~Terminated(r) /\ ~CollectResource(r)
      BY <3>2 DEF DeleteResource, CreateResource, Terminated, CollectResource
    <3>6. ~Reconcile /\ ~AddFinalizer /\ ~InitializeStatus /\ ~GetExisting
      BY <1>1, <3>1, <3>2 DEF Reconcile, AddFinalizer, InitializeStatus, GetExisting
    <3>7. ~UpdateObject /\ ~CreateObject /\ ~VspEnsured /\ ~UpdateStatus
      BY <3>1, <3>2 DEF UpdateObject, CreateObject, VspEnsured, UpdateStatus
    <3>8. ~DeleteTracked /\ ~WaitDeleted /\ ~CleanedUp
      BY <3>2 DEF DeleteTracked, WaitDeleted, CleanedUp
    <3>9. ~Controller
      BY <2>2, <3>6, <3>7, <3>8 DEF Controller
    <3>10. QED
      BY <1>1, <3>2, <3>3, <3>4, <3>5, <3>9 DEF Next, CollectGarbage
  <2>3. QED BY <2>1, <2>2
<1>2. Inv /\ [Next]_vars => [fin /\ ~fin' /\ ~tainted => Nothing]_vars
  BY <1>1
<1>3. QED BY <1>2, InvHolds, PTL DEF Spec, FinalizerGuards

\* A tracked resource is deleted only when all that were applied after it are
\* gone, as long as the clean-up has not failed.
THEOREM CleanupIsReverse == Spec => ReverseOrder
<1>1. ASSUME Inv, pc = "delete", ~tainted, ~failed
      PROVE  \A j \in (left + 1)..Len(tracked) : state[tracked[j]] = "absent"
  <2>1. \A n \in Nat : \A l \in 0..n : \A j \in (l + 1)..n : j \in 1..n /\ j > l
    OBVIOUS
  <2>2. Len(tracked) \in Nat /\ left \in 0..Len(tracked)
    BY <1>1, LenProperties DEF Inv, Types, TrackTypes
  <2>3. \A j \in (left + 1)..Len(tracked) : j \in 1..Len(tracked) /\ j > left
    BY <2>1, <2>2
  <2>4. QED BY <1>1, <2>3 DEF Inv, Safe, CleanOK
<1>2. Inv => [pc = "delete" /\ pc' = "wait" /\ ~tainted /\ ~failed =>
                \A j \in (left + 1)..Len(tracked) : state[tracked[j]] = "absent"]_vars
  BY <1>1
<1>3. QED BY <1>2, InvHolds, PTL DEF Spec, ReverseOrder

(***************************************************************************)
(* ServiceFunctionChain: its inductive invariant.                          *)
(***************************************************************************)
Ctrls == Chain!Controllers
PodRecords == [img : Images \cup {0}, res : ResourceNames, uid : Nat,
               label : BOOLEAN, dying : BOOLEAN]
Specs == [Functions -> Images \cup {0}]
Calls == [pc : {"idle", "list", "delete", "pods"}, spec : Specs, uid : Nat,
          res : ResourceNames, left : SUBSET Functions]

ChainTypes ==
    /\ cr \in Nat /\ uids \in Nat /\ changes \in Nat
    /\ spec \in Specs /\ resource \in ResourceNames
    /\ pods \in [Ctrls -> [Functions -> PodRecords]]
    /\ work \in [Ctrls -> Calls]
    /\ requests \subseteq Ctrls /\ missed \subseteq Ctrls \X Functions

\* Owners are CRs that there were.
OwnersOK ==
    /\ cr <= uids /\ uids <= changes /\ changes <= MaxChanges
    /\ \A c \in Ctrls : work[c].uid <= uids
    /\ \A c \in Ctrls, n \in Functions :
         /\ pods[c][n].uid <= uids
         /\ pods[c][n] = Chain!NoPod \/ pods[c][n].uid # 0

\* A Reconcile works on the CR as it is, unless it will be called again.
Current(c) ==
    /\ work[c].pc = "idle" => work[c] = Chain!Idle
    /\ work[c].pc # "idle" =>
         work[c].uid # 0 /\ (c \in requests \/ (work[c].uid = cr /\ work[c].spec = spec))

\* The operator deletes no pod of the chain, and knows the name of the resource
\* or is known to have missed it.
Op == work["operator"]
OperatorOK ==
    /\ Op.pc = "delete" => \A n \in Op.left : Op.spec[n] = 0
    /\ Op.pc = "pods" => \A n \in Op.left : Op.spec[n] # 0
    /\ Op.pc # "idle" /\ Op.res # resource =>
         \A n \in Functions : <<"operator", n>> \in missed

\* A controller has a function of the chain as it should be, or has still to come
\* to it, or has missed a change.
Visits(c, n) == \/ work[c].pc = "list"
                \/ work[c].pc = "delete" /\ (n \in work[c].left \/ spec[n] # 0)
                \/ work[c].pc = "pods" /\ n \in work[c].left
Has(c, n) ==
    IF c = "operator"
    THEN Chain!AsWanted(n) \/ (spec[n] = 0 /\ pods[c][n].dying)
    ELSE Chain!Exists(n)
Known(c, n) ==
    cr # 0 => c \in requests \/ <<c, n>> \in missed \/ Visits(c, n) \/ Has(c, n)

ChainInv ==
    /\ ChainTypes /\ OwnersOK /\ OperatorOK
    /\ \A c \in Ctrls : Current(c)
    /\ \A c \in Ctrls, n \in Functions : Known(c, n)

(***************************************************************************)
(* Frames.                                                                 *)
(***************************************************************************)
LEMMA ChainConstants ==
  ASSUME Chain!ChainOK
  PROVE  /\ Ctrls = {"operator", "daemon"} /\ 0 \in ResourceNames
         /\ Chain!NoPod \in PodRecords /\ Chain!Idle \in Calls
         /\ Chain!NoPod.uid = 0 /\ ~Chain!NoPod.dying /\ ~Chain!NoPod.label
         /\ Chain!Idle.pc = "idle" /\ Chain!Idle.uid = 0
<1>1. 0 \in ResourceNames /\ [n \in Functions |-> 0] \in Specs
  BY DEF Chain!ChainOK, Specs
<1>2. QED BY <1>1 DEF Chain!NoPod, Chain!Idle, PodRecords, Calls, Ctrls, Chain!Controllers

\* A change of the CR puts both controllers to work.
LEMMA CrChanges ==
  ASSUME ChainInv, cr' \in Nat, uids' \in Nat, cr' <= uids', spec' \in Specs,
         requests' = Ctrls, changes' = changes + 1, changes < MaxChanges, MaxChanges \in Nat,
         uids <= uids', uids' <= uids + 1, UNCHANGED <<resource, pods, work, missed>>
  PROVE  ChainInv'
<1> USE DEF ChainInv
<1>1. ChainTypes'
  BY DEF ChainTypes
<1>2. OwnersOK'
  <2>1. \A c \in Ctrls : work[c].uid \in Nat /\ \A n \in Functions : pods[c][n].uid \in Nat
    BY DEF ChainTypes, Calls, PodRecords
  <2>2. uids \in Nat /\ changes \in Nat
    BY DEF ChainTypes
  <2>3. QED BY <2>1, <2>2 DEF OwnersOK
<1>3. OperatorOK'
  BY DEF OperatorOK, Op
<1>4. \A c \in Ctrls : Current(c)'
  BY DEF Current
<1>5. \A c \in Ctrls, n \in Functions : Known(c, n)'
  BY DEF Known
<1>6. QED BY <1>1, <1>2, <1>3, <1>4, <1>5

\* What happens to one pod without its controller.
LEMMA PodChanges ==
  ASSUME Chain!ChainOK, ChainInv, NEW c \in Ctrls, NEW n \in Functions, NEW q \in PodRecords,
         pods' = [pods EXCEPT ![c][n] = q],
         q = Chain!NoPod \/ (q.uid = pods[c][n].uid /\ pods[c][n] # Chain!NoPod),
         UNCHANGED <<cr, uids, spec, resource, requests, work>>,
         missed' \in {missed, missed \cup {<<c, n>>}},
         changes' \in {changes, changes + 1}, changes' <= MaxChanges,
         <<c, n>> \in missed' \/ (Has(c, n) => Has(c, n)')
  PROVE  ChainInv'
<1> USE DEF ChainInv
<1>1. /\ pods' \in [Ctrls -> [Functions -> PodRecords]] /\ pods'[c][n] = q
      /\ \A d \in Ctrls, m \in Functions :
           d # c \/ m # n => pods'[d][m] = pods[d][m]
  BY DEF ChainTypes
<1>2. ChainTypes'
  BY <1>1 DEF ChainTypes
<1>3. OwnersOK'
  <2>1. q.uid <= uids /\ (q = Chain!NoPod \/ q.uid # 0)
    BY ChainConstants DEF OwnersOK, ChainTypes
  <2>2. uids <= changes'
    BY DEF OwnersOK, ChainTypes
  <2>3. ASSUME NEW d \in Ctrls, NEW m \in Functions
        PROVE  pods'[d][m].uid <= uids /\ (pods'[d][m] = Chain!NoPod \/ pods'[d][m].uid # 0)
    BY <1>1, <2>1 DEF OwnersOK
  <2>4. QED BY <2>2, <2>3 DEF OwnersOK
<1>4. OperatorOK'
  BY DEF OperatorOK, Op
<1>5. \A d \in Ctrls : Current(d)'
  BY DEF Current
<1>6. ASSUME NEW d \in Ctrls, NEW m \in Functions PROVE Known(d, m)'
  <2>1. CASE d # c \/ m # n
    <3>1. Has(d, m)' <=> Has(d, m)
      <4>1. pods'[d][m] = pods[d][m]
        BY <1>1, <2>1
      <4>2. d = "operator" \/ d = "daemon"
        BY ChainConstants
      <4>3. QED BY <4>1, <4>2 DEF Has, Chain!AsWanted, Chain!Exists, Chain!Pod
    <3>2. QED BY <3>1 DEF Known, Visits
  <2>2. CASE d = c /\ m = n
    <3>1. Known(c, n)
      OBVIOUS
    <3>2. Known(c, n)'
      BY <3>1 DEF Known, Visits
    <3>3. QED BY <2>2, <3>2
  <2>3. QED BY <2>1, <2>2
<1>7. QED BY <1>2, <1>3, <1>4, <1>5, <1>6

\* A step of a controller leaves the pods, the request and the Reconcile of the
\* other one.
LEMMA ControllerStep ==
  ASSUME Chain!ChainOK, ChainInv, NEW c \in Ctrls, NEW w \in Calls, NEW f \in [Functions -> PodRecords],
         work' = [work EXCEPT ![c] = w], pods' = [pods EXCEPT ![c] = f],
         UNCHANGED <<cr, uids, spec, resource, changes>>,
         requests' \subseteq Ctrls, missed' \subseteq Ctrls \X Functions,
         \A d \in Ctrls : d # c => (d \in requests' <=> d \in requests),
         \A d \in Ctrls, n \in Functions : d # c => (<<d, n>> \in missed' <=> <<d, n>> \in missed),
         w.uid <= uids, \A n \in Functions : f[n].uid <= uids /\ (f[n] = Chain!NoPod \/ f[n].uid # 0),
         w.pc = "idle" => w = Chain!Idle,
         w.pc # "idle" => w.uid # 0 /\ (c \in requests' \/ (w.uid = cr /\ w.spec = spec)),
         c = "operator" =>
            /\ w.pc = "delete" => \A n \in w.left : w.spec[n] = 0
            /\ w.pc = "pods" => \A n \in w.left : w.spec[n] # 0
            /\ w.pc # "idle" /\ w.res # resource => \A n \in Functions : <<c, n>> \in missed',
         \A n \in Functions : Known(c, n)'
  PROVE  ChainInv'
<1> USE DEF ChainInv
<1>1. /\ work' \in [Ctrls -> Calls] /\ work'[c] = w
      /\ \A d \in Ctrls : d # c => work'[d] = work[d]
      /\ pods' \in [Ctrls -> [Functions -> PodRecords]] /\ pods'[c] = f
      /\ \A d \in Ctrls : d # c => pods'[d] = pods[d]
  BY DEF ChainTypes
<1>2. ChainTypes'
  BY <1>1 DEF ChainTypes
<1>3. OwnersOK'
  BY <1>1 DEF OwnersOK
<1>4. OperatorOK'
  <2>1. CASE c = "operator"
    BY <1>1, <2>1 DEF OperatorOK, Op
  <2>2. CASE c # "operator"
    <3>1. "operator" \in Ctrls
      BY ChainConstants
    <3>2. work'["operator"] = work["operator"]
      BY <1>1, <2>2, <3>1
    <3>3. QED BY <2>2, <3>1, <3>2 DEF OperatorOK, Op
  <2>3. QED BY <2>1, <2>2
<1>5. ASSUME NEW d \in Ctrls PROVE Current(d)'
  <2>1. CASE d = c
    BY <1>1, <2>1 DEF Current
  <2>2. CASE d # c
    BY <1>1, <2>2 DEF Current
  <2>3. QED BY <2>1, <2>2
<1>6. ASSUME NEW d \in Ctrls, NEW m \in Functions PROVE Known(d, m)'
  <2>1. CASE d = c
    BY <2>1
  <2>2. CASE d # c
    <3>1. work'[d] = work[d] /\ pods'[d] = pods[d]
      BY <1>1, <2>2
    <3>2. d = "operator" \/ d = "daemon"
      BY ChainConstants
    <3>3. Has(d, m)' <=> Has(d, m)
      BY <3>1, <3>2 DEF Has, Chain!AsWanted, Chain!Exists, Chain!Pod
    <3>4. QED BY <2>2, <3>1, <3>3 DEF Known, Visits
  <2>3. QED BY <2>1, <2>2
<1>7. QED BY <1>2, <1>3, <1>4, <1>5, <1>6

(***************************************************************************)
(* Users, the garbage collector and the kubelet.                           *)
(***************************************************************************)
LEMMA Marked ==
  ASSUME NEW p \in PodRecords, NEW b \in BOOLEAN
  PROVE  /\ [p EXCEPT !.dying = b] \in PodRecords /\ [p EXCEPT !.dying = b].uid = p.uid
         /\ [p EXCEPT !.dying = b].dying = b /\ [p EXCEPT !.dying = b].label = p.label
         /\ [p EXCEPT !.label = b] \in PodRecords /\ [p EXCEPT !.label = b].uid = p.uid
BY DEF PodRecords

LEMMA UserStepKeeps ==
  ASSUME Chain!ChainOK, ChainInv, Chain!UserStep PROVE ChainInv'
<1> USE DEF ChainInv, Chain!Edit
<1>1. MaxChanges \in Nat /\ cr \in Nat /\ uids \in Nat /\ cr <= uids /\ changes \in Nat
  BY DEF Chain!ChainOK, ChainTypes, OwnersOK
<1>2. CASE Chain!CreateCr
  <2>1. cr' \in Nat /\ uids' \in Nat /\ cr' <= uids' /\ uids <= uids' /\ uids' <= uids + 1
    BY <1>1, <1>2 DEF Chain!CreateCr
  <2>2. spec' \in Specs /\ requests' = Ctrls
    BY <1>2 DEF Chain!CreateCr, Specs, Ctrls
  <2>3. QED BY <1>1, <1>2, <2>1, <2>2, CrChanges DEF Chain!CreateCr
<1>3. CASE Chain!DeleteCr
  <2>1. cr' \in Nat /\ uids' = uids /\ cr' <= uids' /\ uids <= uids' /\ uids' <= uids + 1
    BY <1>1, <1>3 DEF Chain!DeleteCr
  <2>2. spec' \in Specs /\ requests' = Ctrls
    BY <1>3 DEF Chain!DeleteCr, Specs, Ctrls
  <2>3. QED BY <1>1, <1>3, <2>1, <2>2, CrChanges DEF Chain!DeleteCr
<1>4. ASSUME NEW n \in Functions, NEW i \in Images \cup {0}, Chain!EditCr(n, i)
      PROVE  ChainInv'
  <2>1. cr' = cr /\ uids' = uids /\ uids <= uids' /\ uids' <= uids + 1
    BY <1>1, <1>4 DEF Chain!EditCr
  <2>2. spec' \in Specs /\ requests' = Ctrls
    BY <1>4 DEF Chain!EditCr, Specs, Ctrls, ChainTypes
  <2>3. QED BY <1>1, <1>4, <2>1, <2>2, CrChanges DEF Chain!EditCr
<1>5. ASSUME NEW r \in ResourceNames, Chain!EditResource(r) PROVE ChainInv'
  <2>1. /\ resource' = r /\ changes' = changes + 1 /\ changes < MaxChanges
        /\ missed' = missed \cup ({"operator"} \X Functions)
        /\ UNCHANGED <<cr, uids, spec, pods, requests, work>>
    BY <1>5 DEF Chain!EditResource
  <2>2. /\ missed' \subseteq Ctrls \X Functions
        /\ \A n \in Functions : <<"operator", n>> \in missed'
    BY <2>1, ChainConstants DEF ChainTypes
  <2>3. ChainTypes'
    BY <1>1, <2>1, <2>2 DEF ChainTypes
  <2>4. OwnersOK'
    BY <1>1, <2>1 DEF OwnersOK
  <2>5. OperatorOK' /\ \A c \in Ctrls : Current(c)'
    BY <2>1, <2>2 DEF OperatorOK, Op, Current
  <2>6. ASSUME NEW c \in Ctrls, NEW n \in Functions PROVE Known(c, n)'
    <3>1. CASE c = "operator"
      BY <2>2, <3>1 DEF Known
    <3>2. CASE c # "operator"
      <4>1. Has(c, n)' <=> Has(c, n)
        BY <2>1, <3>2 DEF Has, Chain!Exists
      <4>2. QED BY <2>1, <4>1 DEF Known, Visits
    <3>3. QED BY <3>1, <3>2
  <2>7. QED BY <2>3, <2>4, <2>5, <2>6
<1>6. ASSUME NEW n \in Functions, Chain!UserDropsLabel(n) PROVE ChainInv'
  <2> DEFINE c == "operator"
             p == pods[c][n]
             q == [p EXCEPT !.label = FALSE]
  <2>1. c \in Ctrls /\ p \in PodRecords /\ p # Chain!NoPod /\ q \in PodRecords /\ q.uid = p.uid
    <3>1. c \in Ctrls /\ p \in PodRecords
      BY ChainConstants DEF ChainTypes
    <3>2. p # Chain!NoPod
      BY <1>6, ChainConstants DEF Chain!UserDropsLabel
    <3>3. q \in PodRecords /\ q.uid = p.uid
      BY <3>1, Marked
    <3>4. QED BY <3>1, <3>2, <3>3
  <2>2. pods' = [pods EXCEPT ![c][n] = q]
    BY <1>6 DEF Chain!UserDropsLabel
  <2>3. /\ UNCHANGED <<cr, uids, spec, resource, requests, work>>
        /\ missed' = missed \cup {<<c, n>>} /\ changes' = changes + 1 /\ changes' <= MaxChanges
    BY <1>1, <1>6 DEF Chain!UserDropsLabel
  <2> HIDE DEF c, q
  <2>4. QED BY <2>1, <2>2, <2>3, PodChanges
<1>7. ASSUME NEW c \in Ctrls, NEW n \in Functions, Chain!UserDeletesPod(c, n) PROVE ChainInv'
  <2> DEFINE p == pods[c][n]
             q == [p EXCEPT !.dying = TRUE]
  <2>1. p \in PodRecords /\ p # Chain!NoPod /\ q \in PodRecords /\ q.uid = p.uid
    <3>1. p \in PodRecords
      BY DEF ChainTypes
    <3>2. p # Chain!NoPod
      BY <1>7 DEF Chain!UserDeletesPod
    <3>3. QED BY <3>1, <3>2, Marked
  <2>2. pods' = [pods EXCEPT ![c][n] = q]
    BY <1>7 DEF Chain!UserDeletesPod, Chain!Dies
  <2>3. /\ UNCHANGED <<cr, uids, spec, resource, requests, work>>
        /\ missed' = missed \cup {<<c, n>>} /\ changes' = changes + 1 /\ changes' <= MaxChanges
    BY <1>1, <1>7 DEF Chain!UserDeletesPod
  <2> HIDE DEF q
  <2>4. QED BY <2>1, <2>2, <2>3, PodChanges
<1>8. QED BY <1>2, <1>3, <1>4, <1>5, <1>6, <1>7 DEF Chain!UserStep, Ctrls

\* The garbage collector takes no pod that a controller has as it should be.
LEMMA CollectPodKeeps ==
  ASSUME Chain!ChainOK, ChainInv, NEW c \in Ctrls, NEW n \in Functions, Chain!CollectPod(c, n)
  PROVE  ChainInv'
<1> USE DEF ChainInv
<1> DEFINE p == pods[c][n]
           q == [p EXCEPT !.dying = TRUE]
<1>1. /\ p \in PodRecords /\ p # Chain!NoPod /\ q \in PodRecords /\ q.uid = p.uid /\ q.dying
      /\ q.label = p.label /\ p.uid # cr
  <2>1. p \in PodRecords
    BY DEF ChainTypes
  <2>2. p # Chain!NoPod /\ p.uid # cr
    BY DEF Chain!CollectPod
  <2>3. QED BY <2>1, <2>2, Marked
<1>2. pods' = [pods EXCEPT ![c][n] = q]
  BY DEF Chain!CollectPod, Chain!Dies
<1>3. /\ UNCHANGED <<cr, uids, spec, resource, requests, work, missed, changes>>
      /\ changes' <= MaxChanges
  BY DEF Chain!CollectPod, OwnersOK
<1>4. pods'[c][n] = q
  BY <1>2 DEF ChainTypes
<1>5. c = "operator" \/ c = "daemon"
  BY ChainConstants
<1> HIDE DEF q
<1>6. Has(c, n) => Has(c, n)'
  <2>1. CASE c = "operator"
    <3>1. p # Chain!Pod(spec[n], resource, cr)
      BY <1>1 DEF Chain!Pod
    <3>2. QED BY <1>1, <1>3, <1>4, <2>1, <3>1 DEF Has, Chain!AsWanted
  <2>2. CASE c = "daemon"
    BY <1>1, <1>3, <2>2 DEF Has, Chain!Exists
  <2>3. QED BY <1>5, <2>1, <2>2
<1>7. QED BY <1>1, <1>2, <1>3, <1>6, PodChanges

LEMMA PodGoneKeeps ==
  ASSUME Chain!ChainOK, ChainInv, NEW c \in Ctrls, NEW n \in Functions, Chain!PodGone(c, n)
  PROVE  ChainInv'
<1> USE DEF ChainInv
<1>1. /\ pods' = [pods EXCEPT ![c][n] = Chain!NoPod] /\ pods[c][n].dying
      /\ UNCHANGED <<cr, uids, spec, resource, requests, work, missed, changes>>
      /\ changes' <= MaxChanges
  BY DEF Chain!PodGone, OwnersOK
<1>2. pods'[c][n] = Chain!NoPod /\ Chain!NoPod \in PodRecords
  BY <1>1, ChainConstants DEF ChainTypes
<1>3. c = "operator" \/ c = "daemon"
  BY ChainConstants
<1>4. Has(c, n) => Has(c, n)'
  <2>1. CASE c = "operator"
    <3>1. pods[c][n] # Chain!Pod(spec[n], resource, cr)
      BY <1>1 DEF Chain!Pod
    <3>2. ~pods'[c][n].label
      BY <1>2, ChainConstants
    <3>3. QED BY <1>1, <2>1, <3>1, <3>2 DEF Has, Chain!AsWanted
  <2>2. CASE c = "daemon"
    BY <1>1, <2>2 DEF Has, Chain!Exists
  <2>3. QED BY <1>3, <2>1, <2>2
<1>5. QED BY <1>1, <1>2, <1>4, PodChanges

LEMMA ResyncKeeps ==
  ASSUME ChainInv, Chain!Resync PROVE ChainInv'
<1> USE DEF ChainInv, Chain!Resync
<1>1. requests' = Ctrls
  BY DEF Ctrls
<1>2. ChainTypes' /\ OwnersOK' /\ OperatorOK'
  BY <1>1 DEF ChainTypes, OwnersOK, OperatorOK, Op
<1>3. \A c \in Ctrls : Current(c)'
  BY <1>1 DEF Current
<1>4. \A c \in Ctrls, n \in Functions : Known(c, n)'
  BY <1>1 DEF Known
<1>5. QED BY <1>2, <1>3, <1>4

(***************************************************************************)
(* The controllers.                                                        *)
(***************************************************************************)
\* What the invariant says of one controller.
LEMMA OfController ==
  ASSUME ChainInv, NEW c \in Ctrls
  PROVE  /\ work[c] \in Calls /\ pods[c] \in [Functions -> PodRecords] /\ work[c].uid <= uids
         /\ \A n \in Functions : /\ pods[c][n] \in PodRecords /\ pods[c][n].uid <= uids
                                 /\ pods[c][n] = Chain!NoPod \/ pods[c][n].uid # 0
         /\ pods = [pods EXCEPT ![c] = pods[c]] /\ work = [work EXCEPT ![c] = work[c]]
<1> USE DEF ChainInv
<1>1. /\ work[c] \in Calls /\ pods[c] \in [Functions -> PodRecords]
      /\ pods = [pods EXCEPT ![c] = pods[c]] /\ work = [work EXCEPT ![c] = work[c]]
  BY DEF ChainTypes
<1>2. QED BY <1>1 DEF OwnersOK

LEMMA SetPod ==
  ASSUME ChainInv, NEW c \in Ctrls, NEW n \in Functions, NEW q \in PodRecords,
         q.uid <= uids, q = Chain!NoPod \/ q.uid # 0
  PROVE  LET f == [pods[c] EXCEPT ![n] = q]
         IN  /\ f \in [Functions -> PodRecords] /\ f[n] = q
             /\ [pods EXCEPT ![c][n] = q] = [pods EXCEPT ![c] = f]
             /\ \A m \in Functions : /\ m # n => f[m] = pods[c][m]
                                     /\ f[m].uid <= uids
                                     /\ f[m] = Chain!NoPod \/ f[m].uid # 0
<1> DEFINE f == [pods[c] EXCEPT ![n] = q]
<1>1. /\ f \in [Functions -> PodRecords] /\ f[n] = q
      /\ \A m \in Functions : m # n => f[m] = pods[c][m]
  BY OfController
<1>2. [pods EXCEPT ![c][n] = q] = [pods EXCEPT ![c] = f]
  OBVIOUS
<1> HIDE DEF f
<1>3. \A m \in Functions : f[m].uid <= uids /\ (f[m] = Chain!NoPod \/ f[m].uid # 0)
  BY <1>1, OfController
<1>4. QED BY <1>1, <1>2, <1>3 DEF f

\* A pod that terminates keeps its owner.
LEMMA SetDying ==
  ASSUME ChainInv, NEW c \in Ctrls, NEW n \in Functions, pods[c][n] # Chain!NoPod,
         Chain!Dies(c, n)
  PROVE  \E f \in [Functions -> PodRecords] :
            /\ pods' = [pods EXCEPT ![c] = f] /\ f[n].dying
            /\ \A m \in Functions : /\ m # n => f[m] = pods[c][m]
                                    /\ f[m].uid <= uids
                                    /\ f[m] = Chain!NoPod \/ f[m].uid # 0
<1> DEFINE p == pods[c][n]
           q == [p EXCEPT !.dying = TRUE]
           f == [pods[c] EXCEPT ![n] = q]
<1>1. p \in PodRecords /\ p.uid <= uids /\ p.uid # 0
  BY OfController
<1>2. q \in PodRecords /\ q.uid <= uids /\ q.uid # 0 /\ q.dying
  BY <1>1, Marked
<1>3. pods' = [pods EXCEPT ![c][n] = q]
  BY DEF Chain!Dies
<1> HIDE DEF q
<1>4. /\ f \in [Functions -> PodRecords] /\ f[n] = q
      /\ [pods EXCEPT ![c][n] = q] = [pods EXCEPT ![c] = f]
      /\ \A m \in Functions : /\ m # n => f[m] = pods[c][m]
                              /\ f[m].uid <= uids
                              /\ f[m] = Chain!NoPod \/ f[m].uid # 0
  BY <1>2, SetPod
<1> HIDE DEF f
<1>5. pods' = [pods EXCEPT ![c] = f] /\ f[n].dying
  BY <1>2, <1>3, <1>4
<1>6. QED BY <1>4, <1>5

\* Reconcile ends and will be called again.
LEMMA RequeueKeeps ==
  ASSUME Chain!ChainOK, ChainInv, NEW c \in Ctrls, Chain!Requeue(c),
         UNCHANGED <<cr, uids, spec, resource, changes, missed>>,
         NEW f \in [Functions -> PodRecords], pods' = [pods EXCEPT ![c] = f],
         \A n \in Functions : f[n].uid <= uids /\ (f[n] = Chain!NoPod \/ f[n].uid # 0)
  PROVE  ChainInv'
<1> DEFINE w == Chain!Idle
<1>1. work' = [work EXCEPT ![c] = w] /\ requests' = requests \cup {c}
  BY DEF Chain!Requeue, Chain!Return
<1>2. w \in Calls /\ w.pc = "idle" /\ w.uid <= uids
  BY ChainConstants DEF ChainInv, ChainTypes
<1>3. /\ requests' \subseteq Ctrls /\ missed' \subseteq Ctrls \X Functions
      /\ \A d \in Ctrls : d # c => (d \in requests' <=> d \in requests)
  BY <1>1 DEF ChainInv, ChainTypes
<1>4. \A n \in Functions : Known(c, n)'
  BY <1>1 DEF Known
<1> HIDE DEF w
<1>5. QED BY <1>1, <1>2, <1>3, <1>4, ControllerStep DEF w

LEMMA RequeueOnly ==
  ASSUME Chain!ChainOK, ChainInv, NEW c \in Ctrls, Chain!Requeue(c),
         UNCHANGED <<cr, uids, spec, resource, changes, missed, pods>>
  PROVE  ChainInv'
<1> DEFINE f == pods[c]
<1>1. /\ f \in [Functions -> PodRecords] /\ pods' = [pods EXCEPT ![c] = f]
      /\ \A n \in Functions : f[n].uid <= uids /\ (f[n] = Chain!NoPod \/ f[n].uid # 0)
  BY OfController
<1> HIDE DEF f
<1>2. QED BY <1>1, RequeueKeeps

\* A step that changes the Reconcile of c, its request and what it has missed.
LEMMA CallStep ==
  ASSUME Chain!ChainOK, ChainInv, NEW c \in Ctrls, NEW w \in Calls,
         work' = [work EXCEPT ![c] = w],
         UNCHANGED <<cr, uids, spec, resource, changes, pods>>,
         requests' \subseteq Ctrls, missed' \subseteq Ctrls \X Functions,
         \A d \in Ctrls : d # c => (d \in requests' <=> d \in requests),
         \A d \in Ctrls, n \in Functions : d # c => (<<d, n>> \in missed' <=> <<d, n>> \in missed),
         w.uid <= uids,
         w.pc = "idle" => w = Chain!Idle,
         w.pc # "idle" => w.uid # 0 /\ (c \in requests' \/ (w.uid = cr /\ w.spec = spec)),
         c = "operator" =>
            /\ w.pc = "delete" => \A n \in w.left : w.spec[n] = 0
            /\ w.pc = "pods" => \A n \in w.left : w.spec[n] # 0
            /\ w.pc # "idle" /\ w.res # resource => \A n \in Functions : <<c, n>> \in missed',
         \A n \in Functions : Known(c, n)'
  PROVE  ChainInv'
<1> DEFINE f == pods[c]
<1>1. /\ f \in [Functions -> PodRecords] /\ pods' = [pods EXCEPT ![c] = f]
      /\ \A n \in Functions : f[n].uid <= uids /\ (f[n] = Chain!NoPod \/ f[n].uid # 0)
  BY OfController
<1> HIDE DEF f
<1>2. QED BY <1>1, ControllerStep

LEMMA OperatorStartKeeps ==
  ASSUME Chain!ChainOK, ChainInv, Chain!OperatorStart PROVE ChainInv'
<1> USE DEF Chain!Works, Chain!Fault, Chain!cluster
<1> DEFINE c == "operator"
<1>1. /\ c \in Ctrls /\ work[c] = Chain!Idle /\ requests' = requests \ {c}
      /\ UNCHANGED <<cr, uids, spec, resource, changes, pods>>
  BY ChainConstants DEF Chain!OperatorStart
<1>2. /\ requests' \subseteq Ctrls /\ \A d \in Ctrls : d # c => (d \in requests' <=> d \in requests)
  BY <1>1 DEF ChainInv, ChainTypes
<1>3. CASE cr = 0 /\ UNCHANGED <<work, missed>>
  <2> DEFINE w == work[c]
  <2>1. w \in Calls /\ work' = [work EXCEPT ![c] = w] /\ w.uid <= uids
    BY <1>1, <1>3, OfController
  <2>2. w = Chain!Idle /\ w.pc = "idle"
    BY <1>1, ChainConstants
  <2>3. \A n \in Functions : Known(c, n)'
    BY <1>1, <1>3 DEF Known
  <2>4. missed' \subseteq Ctrls \X Functions
    BY <1>3 DEF ChainInv, ChainTypes
  <2> HIDE DEF w, c
  <2>5. QED BY <1>1, <1>2, <1>3, <2>1, <2>2, <2>3, <2>4, CallStep DEF c
<1>4. CASE cr # 0 /\ \E r \in ResourceNames :
              /\ Chain!Begin(c, "list", r, {})
              /\ \/ r = resource /\ missed' = missed
                 \/ missed' = missed \cup ({c} \X Functions)
  <2>1. PICK r \in ResourceNames :
              /\ Chain!Begin(c, "list", r, {})
              /\ \/ r = resource /\ missed' = missed
                 \/ missed' = missed \cup ({c} \X Functions)
    BY <1>4
  <2> DEFINE w == [pc |-> "list", spec |-> spec, uid |-> cr, res |-> r, left |-> {}]
  <2>2. work' = [work EXCEPT ![c] = w]
    BY <2>1 DEF Chain!Begin
  <2>3. w \in Calls /\ w.uid <= uids
    BY DEF ChainInv, ChainTypes, OwnersOK, Calls
  <2>4. w.pc = "list" /\ w.uid = cr /\ w.spec = spec /\ w.res = r
    OBVIOUS
  <2>5. /\ missed' \subseteq Ctrls \X Functions
        /\ \A d \in Ctrls, n \in Functions : d # c => (<<d, n>> \in missed' <=> <<d, n>> \in missed)
        /\ r # resource => \A n \in Functions : <<c, n>> \in missed'
    BY <1>1, <2>1 DEF ChainInv, ChainTypes
  <2> HIDE DEF w, c
  <2>6. work'[c] = w
    BY <1>1, <2>2 DEF ChainInv, ChainTypes
  <2>7. \A n \in Functions : Known(c, n)'
    BY <2>4, <2>6 DEF Known, Visits
  <2>8. QED BY <1>1, <1>2, <1>4, <2>2, <2>3, <2>4, <2>5, <2>7, CallStep DEF c
<1>5. resource \in ResourceNames /\ 0 \in ResourceNames
  BY ChainConstants DEF ChainInv, ChainTypes
<1>6. QED BY <1>3, <1>4, <1>5 DEF Chain!OperatorStart

\* A Reconcile that goes on works on the CR that it has read.
LEMMA Ongoing ==
  ASSUME ChainInv, NEW c \in Ctrls, work[c].pc # "idle"
  PROVE  work[c].uid # 0 /\ (c \in requests \/ (work[c].uid = cr /\ work[c].spec = spec))
BY DEF ChainInv, Current

LEMMA OperatorListKeeps ==
  ASSUME Chain!ChainOK, ChainInv, Chain!OperatorList PROVE ChainInv'
<1> USE DEF Chain!Works, Chain!Fault, Chain!cluster
<1> DEFINE c == "operator"
           v == work[c]
<1>1. /\ c \in Ctrls /\ v.pc = "list" /\ UNCHANGED <<cr, uids, spec, resource, changes, pods, missed>>
  BY ChainConstants DEF Chain!OperatorList
<1>2. CASE Chain!Requeue(c)
  BY <1>1, <1>2, RequeueOnly
<1>3. CASE /\ UNCHANGED requests
           /\ work' = [work EXCEPT ![c].pc = "delete", ![c].left = Chain!Stale]
  <2> DEFINE w == [v EXCEPT !.pc = "delete", !.left = Chain!Stale]
  <2>1. work' = [work EXCEPT ![c] = w]
    BY <1>3
  <2>2. Chain!Stale \subseteq Functions /\ v \in Calls /\ v.uid <= uids
    BY <1>1, OfController DEF Chain!Stale
  <2>3. /\ w \in Calls /\ w.pc = "delete" /\ w.left = Chain!Stale
        /\ w.uid = v.uid /\ w.spec = v.spec /\ w.res = v.res
    BY <2>2 DEF Calls
  <2>4. \A n \in Functions : n \in Chain!Stale <=> pods[c][n].label /\ v.spec[n] = 0
    BY DEF Chain!Stale, Chain!Wanted
  <2>5. \A n \in w.left : w.spec[n] = 0
    BY <2>2, <2>3, <2>4
  <2>6. v.uid # 0 /\ (c \in requests \/ (v.uid = cr /\ v.spec = spec))
    BY <1>1, Ongoing
  <2>7. v.res # resource => \A n \in Functions : <<c, n>> \in missed
    BY <1>1 DEF ChainInv, OperatorOK, Op
  <2> HIDE DEF w
  <2>8. work'[c] = w
    BY <1>1, <2>1 DEF ChainInv, ChainTypes
  <2>9. ASSUME NEW n \in Functions PROVE Known(c, n)'
    <3>1. CASE c \in requests
      BY <1>3, <3>1 DEF Known
    <3>2. CASE v.spec = spec /\ (spec[n] # 0 \/ pods[c][n].label)
      BY <1>1, <2>3, <2>4, <2>8, <3>2 DEF Known, Visits
    <3>3. CASE v.spec = spec /\ spec[n] = 0 /\ ~pods[c][n].label
      BY <1>1, <3>3 DEF Known, Has, Chain!AsWanted
    <3>4. QED BY <2>6, <3>1, <3>2, <3>3
  <2>10. requests' \subseteq Ctrls /\ missed' \subseteq Ctrls \X Functions
    BY <1>1, <1>3 DEF ChainInv, ChainTypes
  <2> HIDE DEF v, c
  <2>11. QED BY <1>1, <1>3, <2>1, <2>2, <2>3, <2>5, <2>6, <2>7, <2>9, <2>10, CallStep
<1>4. QED BY <1>2, <1>3 DEF Chain!OperatorList

\* The next function of a list of the operator is done with.
LEMMA OperatorAdvance ==
  ASSUME Chain!ChainOK, ChainInv, NEW n \in Functions,
         Op.pc \in {"delete", "pods"}, n \in Op.left,
         work' = [work EXCEPT !["operator"].left = @ \ {n}],
         UNCHANGED <<cr, uids, spec, resource, changes, requests>>,
         NEW f \in [Functions -> PodRecords], pods' = [pods EXCEPT !["operator"] = f],
         \A m \in Functions : m # n => f[m] = pods["operator"][m],
         \A m \in Functions : f[m].uid <= uids /\ (f[m] = Chain!NoPod \/ f[m].uid # 0),
         \/ missed' = missed
         \/ Op.res = resource /\ missed' \in {missed \cup {<<"operator", n>>}, missed \ {<<"operator", n>>}},
         "operator" \notin requests /\ cr # 0 => <<"operator", n>> \in missed' \/ Has("operator", n)'
  PROVE  ChainInv'
<1> DEFINE c == "operator"
           v == work[c]
           w == [v EXCEPT !.left = @ \ {n}]
<1>1. c \in Ctrls /\ v \in Calls /\ v.uid <= uids
  BY ChainConstants, OfController
<1>2. work' = [work EXCEPT ![c] = w]
  OBVIOUS
<1>3. /\ w \in Calls /\ w.pc = v.pc /\ w.left = v.left \ {n}
      /\ w.uid = v.uid /\ w.spec = v.spec /\ w.res = v.res
  BY <1>1 DEF Calls
<1>4. v.uid # 0 /\ (c \in requests \/ (v.uid = cr /\ v.spec = spec))
  BY <1>1, Ongoing DEF Op
<1>5. /\ v.pc = "delete" => \A m \in w.left : v.spec[m] = 0
      /\ v.pc = "pods" => \A m \in w.left : v.spec[m] # 0
      /\ v.res # resource => \A m \in Functions : <<c, m>> \in missed
  BY <1>3 DEF ChainInv, OperatorOK, Op
<1> HIDE DEF w
<1>6. work'[c] = w /\ pods'[c] = f
  BY <1>1, <1>2 DEF ChainInv, ChainTypes
<1>7. /\ missed' \subseteq Ctrls \X Functions /\ requests' \subseteq Ctrls
      /\ \A d \in Ctrls, m \in Functions :
           d # c \/ m # n => (<<d, m>> \in missed' <=> <<d, m>> \in missed)
      /\ v.res # resource => missed' = missed
  BY <1>1 DEF ChainInv, ChainTypes, Op
<1>8. ASSUME NEW m \in Functions PROVE Known(c, m)'
  <2>1. CASE m = n
    BY <2>1 DEF Known
  <2>2. CASE m # n
    <3>1. Known(c, m)
      BY <1>1 DEF ChainInv
    <3>2. pods'[c][m] = pods[c][m]
      BY <1>6, <2>2
    <3>3. Has(c, m) => Has(c, m)'
      BY <3>2 DEF Has, Chain!AsWanted, Chain!Pod
    <3>4. Visits(c, m) => Visits(c, m)'
      BY <1>3, <1>6, <2>2 DEF Visits
    <3>5. QED BY <1>1, <1>7, <2>2, <3>1, <3>3, <3>4 DEF Known
  <2>3. QED BY <2>1, <2>2
<1>9. w.pc # "idle" /\ pods' = [pods EXCEPT ![c] = f]
  BY <1>3 DEF Op
<1> HIDE DEF v, c
<1>10. /\ w.pc = "delete" => \A m \in w.left : w.spec[m] = 0
       /\ w.pc = "pods" => \A m \in w.left : w.spec[m] # 0
       /\ w.res # resource => \A m \in Functions : <<c, m>> \in missed'
       /\ w.uid <= uids /\ w.uid # 0 /\ (c \in requests' \/ (w.uid = cr /\ w.spec = spec))
  BY <1>1, <1>3, <1>4, <1>5, <1>7
<1>11. /\ \A d \in Ctrls : d # c => (d \in requests' <=> d \in requests)
       /\ \A d \in Ctrls, m \in Functions : d # c => (<<d, m>> \in missed' <=> <<d, m>> \in missed)
  BY <1>7
<1>12. QED BY <1>1, <1>2, <1>3, <1>7, <1>8, <1>9, <1>10, <1>11, ControllerStep

LEMMA OperatorDeleteKeeps ==
  ASSUME Chain!ChainOK, ChainInv, NEW n \in Functions, Chain!OperatorDelete(n) PROVE ChainInv'
<1> USE DEF Chain!Works, Chain!Fault, Chain!cluster
<1> DEFINE c == "operator"
<1>1. /\ c \in Ctrls /\ Op.pc = "delete" /\ n \in Op.left
      /\ UNCHANGED <<cr, uids, spec, resource, changes, missed>>
  BY ChainConstants DEF Chain!OperatorDelete, Op
<1>2. CASE Chain!Requeue(c) /\ UNCHANGED pods
  BY <1>1, <1>2, RequeueOnly
<1>3. CASE /\ UNCHANGED requests
           /\ IF pods[c][n] # Chain!NoPod THEN Chain!Dies(c, n) ELSE UNCHANGED pods
           /\ work' = [work EXCEPT ![c].left = @ \ {n}]
  <2>1. c \notin requests => spec[n] = 0
    BY <1>1, Ongoing DEF ChainInv, OperatorOK, Op
  <2>2. CASE pods[c][n] # Chain!NoPod
    <3>1. PICK f \in [Functions -> PodRecords] :
            /\ pods' = [pods EXCEPT ![c] = f] /\ f[n].dying
            /\ \A m \in Functions : /\ m # n => f[m] = pods[c][m]
                                    /\ f[m].uid <= uids
                                    /\ f[m] = Chain!NoPod \/ f[m].uid # 0
      BY <1>1, <1>3, <2>2, SetDying
    <3>2. pods'[c][n].dying
      BY <1>1, <3>1 DEF ChainInv, ChainTypes
    <3>3. c \notin requests => Has(c, n)'
      BY <1>1, <2>1, <3>2 DEF Has
    <3>4. QED BY <1>1, <1>3, <3>1, <3>3, OperatorAdvance
  <2>3. CASE pods[c][n] = Chain!NoPod
    <3> DEFINE f == pods[c]
    <3>1. /\ f \in [Functions -> PodRecords] /\ pods' = [pods EXCEPT ![c] = f]
          /\ \A m \in Functions : f[m].uid <= uids /\ (f[m] = Chain!NoPod \/ f[m].uid # 0)
      BY <1>1, <1>3, <2>3, OfController
    <3>2. c \notin requests => Has(c, n)'
      BY <1>1, <1>3, <2>1, <2>3, ChainConstants DEF Has, Chain!AsWanted
    <3>3. \A m \in Functions : m # n => f[m] = pods[c][m]
      OBVIOUS
    <3> HIDE DEF f
    <3>4. QED BY <1>1, <1>3, <3>1, <3>2, <3>3, OperatorAdvance
  <2>4. QED BY <2>2, <2>3
<1>4. QED BY <1>2, <1>3 DEF Chain!OperatorDelete

LEMMA OperatorDeletedKeeps ==
  ASSUME Chain!ChainOK, ChainInv, Chain!OperatorDeleted PROVE ChainInv'
<1> USE DEF Chain!Works, Chain!cluster
<1> DEFINE c == "operator"
           v == work[c]
           w == [v EXCEPT !.pc = "pods", !.left = Chain!Wanted(v)]
<1>1. /\ c \in Ctrls /\ v.pc = "delete" /\ v.left = {}
      /\ UNCHANGED <<cr, uids, spec, resource, changes, pods, requests, missed>>
  BY ChainConstants DEF Chain!OperatorDeleted
<1>2. work' = [work EXCEPT ![c] = w]
  BY DEF Chain!OperatorDeleted
<1>3. v \in Calls /\ v.uid <= uids /\ Chain!Wanted(v) \subseteq Functions
  BY <1>1, OfController DEF Chain!Wanted
<1>4. /\ w \in Calls /\ w.pc = "pods" /\ w.left = Chain!Wanted(v)
      /\ w.uid = v.uid /\ w.spec = v.spec /\ w.res = v.res
  BY <1>3 DEF Calls
<1>5. v.uid # 0 /\ (c \in requests \/ (v.uid = cr /\ v.spec = spec))
  BY <1>1, Ongoing
<1>6. /\ \A n \in w.left : w.spec[n] # 0
      /\ v.res # resource => \A n \in Functions : <<c, n>> \in missed
  BY <1>1, <1>4 DEF ChainInv, OperatorOK, Op, Chain!Wanted
<1> HIDE DEF w
<1>7. work'[c] = w
  BY <1>1, <1>2 DEF ChainInv, ChainTypes
<1>8. ASSUME NEW n \in Functions PROVE Known(c, n)'
  <2>1. Known(c, n)
    BY <1>1 DEF ChainInv
  <2>2. Has(c, n) => Has(c, n)'
    BY <1>1 DEF Has, Chain!AsWanted, Chain!Pod
  <2>3. v.spec = spec /\ Visits(c, n) => Visits(c, n)'
    BY <1>1, <1>4, <1>7 DEF Visits, Chain!Wanted
  <2>4. QED BY <1>1, <1>5, <2>1, <2>2, <2>3 DEF Known
<1>9. requests' \subseteq Ctrls /\ missed' \subseteq Ctrls \X Functions
  BY <1>1 DEF ChainInv, ChainTypes
<1> HIDE DEF v, c
<1>10. QED BY <1>1, <1>2, <1>3, <1>4, <1>5, <1>6, <1>8, <1>9, CallStep

\* The end of Reconcile of either controller.
LEMMA FinishKeeps ==
  ASSUME Chain!ChainOK, ChainInv, NEW c \in Ctrls, Chain!Finish(c) PROVE ChainInv'
<1> USE DEF Chain!Works, Chain!cluster
<1> DEFINE w == Chain!Idle
<1>1. /\ work[c].pc = "pods" /\ work[c].left = {} /\ work' = [work EXCEPT ![c] = w]
      /\ UNCHANGED <<cr, uids, spec, resource, changes, pods, requests, missed>>
  BY DEF Chain!Finish, Chain!Return
<1>2. w \in Calls /\ w.pc = "idle" /\ w.uid <= uids
  BY ChainConstants DEF ChainInv, ChainTypes
<1>3. ASSUME NEW n \in Functions PROVE Known(c, n)'
  <2>1. Known(c, n) /\ ~Visits(c, n)
    BY <1>1 DEF ChainInv, Visits
  <2>2. Has(c, n) => Has(c, n)'
    BY <1>1 DEF Has, Chain!AsWanted, Chain!Exists, Chain!Pod
  <2>3. QED BY <1>1, <2>1, <2>2 DEF Known
<1>4. requests' \subseteq Ctrls /\ missed' \subseteq Ctrls \X Functions
  BY <1>1 DEF ChainInv, ChainTypes
<1> HIDE DEF w
<1>5. QED BY <1>1, <1>2, <1>3, <1>4, CallStep DEF w

LEMMA RestartKeeps ==
  ASSUME Chain!ChainOK, ChainInv, NEW c \in Ctrls, Chain!Restart(c) PROVE ChainInv'
<1>1. Chain!Requeue(c) /\ UNCHANGED <<cr, uids, spec, resource, changes, missed, pods>>
  BY DEF Chain!Restart, Chain!Requeue, Chain!Fault, Chain!cluster
<1>2. QED BY <1>1, RequeueOnly

LEMMA SameRecord ==
  ASSUME NEW A, NEW B, NEW C, NEW D, NEW E,
         NEW x \in [img : A, res : B, uid : C, label : D, dying : E],
         NEW y \in [img : A, res : B, uid : C, label : D, dying : E],
         x.img = y.img, x.res = y.res, x.uid = y.uid, x.label = y.label, x.dying = y.dying
  PROVE  x = y
OBVIOUS

LEMMA Labelled ==
  ASSUME NEW p \in PodRecords, ~p.dying
  PROVE  [p EXCEPT !.label = TRUE] = Chain!Pod(p.img, p.res, p.uid)
<1> DEFINE r == [p EXCEPT !.label = TRUE]
           q == Chain!Pod(p.img, p.res, p.uid)
<1>1. r \in PodRecords /\ q \in PodRecords
  BY Marked DEF Chain!Pod, PodRecords
<1>2. r.img = p.img /\ r.res = p.res /\ r.uid = p.uid /\ r.label = TRUE /\ r.dying = p.dying
  BY DEF PodRecords
<1>3. q.img = p.img /\ q.res = p.res /\ q.uid = p.uid /\ q.label = TRUE /\ q.dying = FALSE
  BY DEF Chain!Pod
<1>4. p.dying = FALSE
  BY DEF PodRecords
<1> HIDE DEF r, q
<1>5. r = q
  BY <1>1, <1>2, <1>3, <1>4, SameRecord DEF PodRecords
<1>6. QED BY <1>5 DEF r, q

\* reconcilePod, for each function of the chain in turn.
LEMMA OperatorPodKeeps ==
  ASSUME Chain!ChainOK, ChainInv, NEW n \in Functions, Chain!OperatorPod(n) PROVE ChainInv'
<1> USE DEF Chain!Works, Chain!Fault, Chain!cluster
<1> DEFINE c == "operator"
           w == work[c]
           p == pods[c][n]
           q == Chain!Pod(w.spec[n], w.res, w.uid)
<1>1. /\ c \in Ctrls /\ Op = w /\ Op.pc = "pods" /\ n \in Op.left
      /\ UNCHANGED <<cr, uids, spec, resource, changes>>
  BY ChainConstants DEF Chain!OperatorPod, Op
<1>2. /\ w \in Calls /\ w.uid <= uids /\ w.uid # 0 /\ w.spec[n] # 0
      /\ c \in requests \/ (w.uid = cr /\ w.spec = spec)
  BY <1>1, OfController, Ongoing DEF ChainInv, OperatorOK
<1>3. w.res # resource => <<c, n>> \in missed
  BY <1>1 DEF ChainInv, OperatorOK
<1>4. q \in PodRecords /\ q.uid = w.uid
  BY <1>2 DEF Chain!Pod, PodRecords, Calls, Specs
<1>5. p \in PodRecords /\ p.uid <= uids /\ (p = Chain!NoPod \/ p.uid # 0)
  BY <1>1, OfController
<1>6. CASE /\ p = Chain!NoPod /\ work' = [work EXCEPT ![c].left = @ \ {n}] /\ UNCHANGED requests
           /\ pods' = [pods EXCEPT ![c][n] = q]
           /\ IF w.res = resource THEN Chain!Forget(c, n) ELSE UNCHANGED missed
  <2> DEFINE f == [pods[c] EXCEPT ![n] = q]
  <2> HIDE DEF q
  <2>1. /\ f \in [Functions -> PodRecords] /\ f[n] = q
        /\ [pods EXCEPT ![c][n] = q] = [pods EXCEPT ![c] = f]
        /\ \A m \in Functions : /\ m # n => f[m] = pods[c][m]
                                /\ f[m].uid <= uids
                                /\ f[m] = Chain!NoPod \/ f[m].uid # 0
    BY <1>1, <1>2, <1>4, SetPod
  <2> HIDE DEF f
  <2>2. pods' = [pods EXCEPT ![c] = f] /\ pods'[c][n] = q
    BY <1>1, <1>6, <2>1 DEF ChainInv, ChainTypes
  <2>3. \/ missed' = missed
        \/ Op.res = resource /\ missed' = missed \ {<<c, n>>}
    BY <1>1, <1>6 DEF Chain!Forget
  <2>4. w.spec = spec /\ w.uid = cr /\ w.res = resource => Has(c, n)'
    BY <1>1, <1>2, <2>2 DEF Has, Chain!AsWanted, q
  <2>5. c \notin requests => <<c, n>> \in missed' \/ Has(c, n)'
    BY <1>2, <1>3, <1>6, <2>4
  <2>6. QED BY <1>1, <1>6, <2>1, <2>2, <2>3, <2>5, OperatorAdvance
<1>7. CASE p # Chain!NoPod /\ Chain!Requeue(c) /\ Chain!Dies(c, n) /\ UNCHANGED missed
  <2>1. PICK f \in [Functions -> PodRecords] :
            /\ pods' = [pods EXCEPT ![c] = f]
            /\ \A m \in Functions : f[m].uid <= uids /\ (f[m] = Chain!NoPod \/ f[m].uid # 0)
    BY <1>1, <1>7, SetDying
  <2>2. QED BY <1>1, <1>7, <2>1, RequeueKeeps
<1>8. CASE /\ p # Chain!NoPod /\ Chain!SameHash(p, q)
           /\ work' = [work EXCEPT ![c].left = @ \ {n}] /\ UNCHANGED requests
           /\ pods' = [pods EXCEPT ![c][n].label = TRUE]
           /\ IF w.res = resource THEN Chain!Left(c, n, p) ELSE UNCHANGED missed
  <2> DEFINE r == [p EXCEPT !.label = TRUE]
             f == [pods[c] EXCEPT ![n] = r]
  <2>1. r \in PodRecords /\ r.uid <= uids /\ r.uid # 0
    BY <1>5, <1>8, Marked
  <2>2. pods' = [pods EXCEPT ![c][n] = r]
    BY <1>8
  <2>3. p.img = w.spec[n] /\ p.res = w.res
    BY <1>8 DEF Chain!SameHash, Chain!Pod
  <2>4. ~p.dying /\ p.uid = w.uid => r = q
    <3> SUFFICES ASSUME ~p.dying, p.uid = w.uid PROVE r = q
      OBVIOUS
    <3>1. r = Chain!Pod(p.img, p.res, p.uid)
      BY <1>5, Labelled
    <3>2. QED BY <2>3, <3>1
  <2> HIDE DEF r
  <2>5. /\ f \in [Functions -> PodRecords] /\ f[n] = r
        /\ [pods EXCEPT ![c][n] = r] = [pods EXCEPT ![c] = f]
        /\ \A m \in Functions : /\ m # n => f[m] = pods[c][m]
                                /\ f[m].uid <= uids
                                /\ f[m] = Chain!NoPod \/ f[m].uid # 0
    BY <1>1, <2>1, SetPod
  <2> HIDE DEF f
  <2>6. pods' = [pods EXCEPT ![c] = f] /\ pods'[c][n] = r
    BY <1>1, <2>2, <2>5 DEF ChainInv, ChainTypes
  <2>7. \/ missed' = missed
        \/ Op.res = resource /\ missed' \in {missed \cup {<<c, n>>}, missed \ {<<c, n>>}}
    BY <1>1, <1>8 DEF Chain!Left
  <2>8. CASE c \notin requests
    <3>1. w.uid = cr /\ w.spec = spec
      BY <1>2, <2>8
    <3>2. <<c, n>> \in missed' \/ Has(c, n)'
      <4>1. CASE w.res # resource
        BY <1>3, <1>8, <4>1
      <4>2. CASE w.res = resource /\ (p.dying \/ p.uid # w.uid)
        BY <1>8, <4>2 DEF Chain!Left
      <4>3. CASE w.res = resource /\ ~p.dying /\ p.uid = w.uid
        <5>1. pods'[c][n] = Chain!Pod(spec[n], resource, cr) /\ spec[n] # 0
          BY <1>2, <2>4, <2>6, <3>1, <4>3
        <5>2. QED BY <1>1, <5>1 DEF Has, Chain!AsWanted
      <4>4. QED BY <4>1, <4>2, <4>3
    <3>3. QED BY <1>1, <1>8, <2>5, <2>6, <2>7, <3>2, OperatorAdvance
  <2>9. CASE c \in requests
    BY <1>1, <1>8, <2>5, <2>6, <2>7, <2>9, OperatorAdvance
  <2>10. QED BY <2>8, <2>9
<1>9. CASE Chain!Requeue(c) /\ UNCHANGED <<pods, missed>>
  BY <1>1, <1>9, RequeueOnly
<1>10. QED BY <1>6, <1>7, <1>8, <1>9 DEF Chain!OperatorPod

LEMMA DaemonStartKeeps ==
  ASSUME Chain!ChainOK, ChainInv, Chain!DaemonStart PROVE ChainInv'
<1> USE DEF Chain!Works, Chain!Fault, Chain!cluster
<1> DEFINE c == "daemon"
<1>1. /\ c \in Ctrls /\ work[c] = Chain!Idle /\ cr # 0
      /\ UNCHANGED <<cr, uids, spec, resource, changes, pods, missed>>
  BY ChainConstants DEF Chain!DaemonStart
<1>2. missed' \subseteq Ctrls \X Functions
  BY <1>1 DEF ChainInv, ChainTypes
<1>3. CASE UNCHANGED <<requests, work>>
  <2>1. ChainTypes' /\ OwnersOK' /\ OperatorOK'
    BY <1>1, <1>3 DEF ChainInv, ChainTypes, OwnersOK, OperatorOK, Op
  <2>2. \A d \in Ctrls : Current(d)'
    BY <1>1, <1>3 DEF ChainInv, Current
  <2>3. ASSUME NEW d \in Ctrls, NEW n \in Functions PROVE Known(d, n)'
    <3>1. Known(d, n)
      BY DEF ChainInv
    <3>2. Has(d, n)' <=> Has(d, n)
      BY <1>1 DEF Has, Chain!AsWanted, Chain!Exists, Chain!Pod
    <3>3. QED BY <1>1, <1>3, <3>1, <3>2 DEF Known, Visits
  <2>4. QED BY <2>1, <2>2, <2>3 DEF ChainInv
<1>4. CASE requests' = requests \ {c} /\ ~NodeMatches /\ UNCHANGED work
  <2> DEFINE w == work[c]
  <2>1. w \in Calls /\ work' = [work EXCEPT ![c] = w] /\ w.uid <= uids
    BY <1>1, <1>4, OfController
  <2>2. w = Chain!Idle /\ w.pc = "idle"
    BY <1>1, ChainConstants
  <2>3. \A n \in Functions : Known(c, n)'
    BY <1>4 DEF Known, Has, Chain!Exists
  <2>4. /\ requests' \subseteq Ctrls /\ \A d \in Ctrls : d # c => (d \in requests' <=> d \in requests)
    BY <1>4 DEF ChainInv, ChainTypes
  <2>5. c # "operator"
    OBVIOUS
  <2> HIDE DEF w, c
  <2>6. QED BY <1>1, <1>2, <1>4, <2>1, <2>2, <2>3, <2>4, <2>5, CallStep
<1>5. CASE /\ requests' = requests \ {c}
           /\ Chain!Begin(c, "pods", 0, {n \in Functions : spec[n] # 0})
  <2> DEFINE todo == {n \in Functions : spec[n] # 0}
             w == [pc |-> "pods", spec |-> spec, uid |-> cr, res |-> 0, left |-> todo]
  <2>1. work' = [work EXCEPT ![c] = w]
    BY <1>5 DEF Chain!Begin
  <2>2. todo \subseteq Functions /\ \A n \in Functions : spec[n] # 0 => n \in todo
    OBVIOUS
  <2> HIDE DEF todo
  <2>3. w \in Calls /\ w.uid <= uids
    BY <2>2, ChainConstants DEF ChainInv, ChainTypes, OwnersOK, Calls
  <2>4. w.pc = "pods" /\ w.uid = cr /\ w.spec = spec /\ w.left = todo
    OBVIOUS
  <2> HIDE DEF w
  <2>5. work'[c] = w
    BY <1>1, <2>1 DEF ChainInv, ChainTypes
  <2>6. ASSUME NEW n \in Functions PROVE Known(c, n)'
    <3>1. CASE spec[n] # 0
      BY <2>2, <2>4, <2>5, <3>1 DEF Known, Visits
    <3>2. CASE spec[n] = 0
      BY <1>1, <3>2 DEF Known, Has, Chain!Exists
    <3>3. QED BY <3>1, <3>2
  <2>7. /\ requests' \subseteq Ctrls /\ \A d \in Ctrls : d # c => (d \in requests' <=> d \in requests)
    BY <1>5 DEF ChainInv, ChainTypes
  <2>8. c # "operator"
    OBVIOUS
  <2> HIDE DEF c
  <2>9. QED BY <1>1, <1>2, <2>1, <2>3, <2>4, <2>6, <2>7, <2>8, CallStep
<1>6. QED BY <1>3, <1>4, <1>5 DEF Chain!DaemonStart

LEMMA DaemonPodKeeps ==
  ASSUME Chain!ChainOK, ChainInv, NEW n \in Functions, Chain!DaemonPod(n) PROVE ChainInv'
<1> USE DEF Chain!Works, Chain!Fault, Chain!cluster
<1> DEFINE c == "daemon"
           v == work[c]
           p == pods[c][n]
           q == IF p = Chain!NoPod THEN Chain!Pod(v.spec[n], 0, v.uid) ELSE p
           w == [v EXCEPT !.left = @ \ {n}]
           f == [pods[c] EXCEPT ![n] = q]
<1>1. /\ c \in Ctrls /\ v.pc = "pods" /\ n \in v.left
      /\ UNCHANGED <<cr, uids, spec, resource, changes>>
  BY ChainConstants DEF Chain!DaemonPod
<1>2. /\ v \in Calls /\ v.uid <= uids /\ v.uid # 0
      /\ c \in requests \/ (v.uid = cr /\ v.spec = spec)
      /\ p \in PodRecords /\ p.uid <= uids /\ (p = Chain!NoPod \/ p.uid # 0)
  BY <1>1, OfController, Ongoing
<1>3. CASE Chain!Requeue(c) /\ UNCHANGED <<pods, missed>>
  BY <1>1, <1>3, RequeueOnly
<1>4. CASE /\ UNCHANGED requests /\ work' = [work EXCEPT ![c].left = @ \ {n}]
           /\ pods' = [pods EXCEPT ![c][n] = q]
           /\ IF p = Chain!NoPod THEN Chain!Forget(c, n) ELSE Chain!Left(c, n, p)
  <2>1. /\ q \in PodRecords /\ q.uid <= uids /\ q.uid # 0
        /\ \/ q.uid = v.uid /\ ~q.dying
           \/ <<c, n>> \in missed'
        /\ missed' \in {missed \cup {<<c, n>>}, missed \ {<<c, n>>}}
    <3>1. Chain!Pod(v.spec[n], 0, v.uid) \in PodRecords
      BY <1>2, ChainConstants DEF Chain!Pod, PodRecords, Calls, Specs
    <3>2. CASE p = Chain!NoPod
      BY <1>2, <1>4, <3>1, <3>2 DEF Chain!Pod, Chain!Forget
    <3>3. CASE p # Chain!NoPod
      BY <1>2, <1>4, <3>3 DEF Chain!Left
    <3>4. QED BY <3>2, <3>3
  <2> HIDE DEF q
  <2>2. work' = [work EXCEPT ![c] = w]
    BY <1>4
  <2>3. /\ w \in Calls /\ w.pc = "pods" /\ w.left = v.left \ {n}
        /\ w.uid = v.uid /\ w.spec = v.spec
    BY <1>1, <1>2 DEF Calls
  <2>4. /\ f \in [Functions -> PodRecords] /\ f[n] = q
        /\ [pods EXCEPT ![c][n] = q] = [pods EXCEPT ![c] = f]
        /\ \A m \in Functions : /\ m # n => f[m] = pods[c][m]
                                /\ f[m].uid <= uids
                                /\ f[m] = Chain!NoPod \/ f[m].uid # 0
    BY <1>1, <2>1, SetPod
  <2> HIDE DEF f, w
  <2>5. work'[c] = w /\ pods'[c] = f /\ pods' = [pods EXCEPT ![c] = f]
    BY <1>1, <1>4, <2>2, <2>4 DEF ChainInv, ChainTypes
  <2>6. /\ requests' \subseteq Ctrls /\ missed' \subseteq Ctrls \X Functions
        /\ \A d \in Ctrls : d # c => (d \in requests' <=> d \in requests)
        /\ \A d \in Ctrls, m \in Functions :
             d # c \/ m # n => (<<d, m>> \in missed' <=> <<d, m>> \in missed)
    BY <1>1, <1>4, <2>1 DEF ChainInv, ChainTypes
  <2>7. ASSUME NEW m \in Functions PROVE Known(c, m)'
    <3>1. CASE m = n
      <4>1. CASE c \in requests
        BY <1>4, <4>1 DEF Known
      <4>2. CASE <<c, n>> \in missed'
        BY <3>1, <4>2 DEF Known
      <4>3. CASE c \notin requests /\ q.uid = v.uid /\ ~q.dying
        BY <1>1, <1>2, <2>4, <2>5, <3>1, <4>3 DEF Known, Has, Chain!Exists
      <4>4. QED BY <2>1, <4>1, <4>2, <4>3
    <3>2. CASE m # n
      <4>1. Known(c, m)
        BY <1>1 DEF ChainInv
      <4>2. pods'[c][m] = pods[c][m]
        BY <2>4, <2>5, <3>2
      <4>3. Has(c, m) => Has(c, m)'
        BY <1>1, <4>2 DEF Has, Chain!Exists
      <4>4. Visits(c, m) => Visits(c, m)'
        BY <1>1, <2>3, <2>5, <3>2 DEF Visits
      <4>5. QED BY <1>1, <1>4, <2>6, <3>2, <4>1, <4>3, <4>4 DEF Known
    <3>3. QED BY <3>1, <3>2
  <2>8. c # "operator"
    OBVIOUS
  <2>9. w.pc # "idle" /\ w.uid <= uids /\ w.uid # 0 /\ (c \in requests' \/ (w.uid = cr /\ w.spec = spec))
    BY <1>2, <1>4, <2>3
  <2>10. /\ \A d \in Ctrls, m \in Functions : d # c => (<<d, m>> \in missed' <=> <<d, m>> \in missed)
         /\ \A m \in Functions : f[m].uid <= uids /\ (f[m] = Chain!NoPod \/ f[m].uid # 0)
         /\ \A m \in Functions : Known(c, m)'
         /\ c \in Ctrls
    BY <1>1, <2>4, <2>6, <2>7
  <2> HIDE DEF v, p, c
  <2>11. QED BY <1>1, <2>2, <2>3, <2>4, <2>5, <2>6, <2>8, <2>9, <2>10, ControllerStep
<1>5. QED BY <1>3, <1>4 DEF Chain!DaemonPod

(***************************************************************************)
(* The invariant of ServiceFunctionChain holds.                            *)
(***************************************************************************)
LEMMA ChainInit == ASSUME Chain!ChainOK, Chain!Init PROVE ChainInv
<1> USE DEF Chain!Init
<1>1. spec \in Specs /\ Chain!NoPod \in PodRecords /\ Chain!Idle \in Calls /\ 0 \in ResourceNames
  BY ChainConstants DEF Specs
<1>2. /\ pods \in [Ctrls -> [Functions -> PodRecords]] /\ work \in [Ctrls -> Calls]
      /\ \A c \in Ctrls : work[c] = Chain!Idle
      /\ \A c \in Ctrls, n \in Functions : pods[c][n] = Chain!NoPod
  BY <1>1 DEF Ctrls
<1>3. ChainTypes
  BY <1>1, <1>2 DEF ChainTypes
<1>4. OwnersOK
  BY <1>2, ChainConstants DEF OwnersOK, Chain!ChainOK
<1>5. OperatorOK
  BY <1>2, ChainConstants DEF OperatorOK, Op
<1>6. \A c \in Ctrls : Current(c)
  BY <1>2, ChainConstants DEF Current
<1>7. \A c \in Ctrls, n \in Functions : Known(c, n)
  BY DEF Known
<1>8. QED BY <1>3, <1>4, <1>5, <1>6, <1>7 DEF ChainInv

LEMMA ChainStutter == ASSUME ChainInv, UNCHANGED Chain!vars PROVE ChainInv'
<1> USE DEF Chain!vars
<1>1. ChainTypes' /\ OwnersOK' /\ OperatorOK'
  BY DEF ChainInv, ChainTypes, OwnersOK, OperatorOK, Op
<1>2. \A d \in Ctrls : Current(d)'
  BY DEF ChainInv, Current
<1>3. ASSUME NEW d \in Ctrls, NEW n \in Functions PROVE Known(d, n)'
  <2>1. Known(d, n)
    BY DEF ChainInv
  <2>2. Has(d, n)' <=> Has(d, n)
    BY DEF Has, Chain!AsWanted, Chain!Exists, Chain!Pod
  <2>3. QED BY <2>1, <2>2 DEF Known, Visits
<1>4. QED BY <1>1, <1>2, <1>3 DEF ChainInv

LEMMA ChainNext == ASSUME Chain!ChainOK, ChainInv, [Chain!Next]_(Chain!vars) PROVE ChainInv'
<1>1. "operator" \in Ctrls /\ "daemon" \in Ctrls /\ Ctrls = Chain!Controllers
  BY ChainConstants DEF Ctrls
<1>2. CASE Chain!OperatorStep
  BY <1>1, <1>2, OperatorStartKeeps, OperatorListKeeps, OperatorDeletedKeeps, FinishKeeps,
     OperatorDeleteKeeps, OperatorPodKeeps DEF Chain!OperatorStep
<1>3. CASE Chain!DaemonStep
  BY <1>1, <1>3, DaemonStartKeeps, FinishKeeps, DaemonPodKeeps DEF Chain!DaemonStep
<1>4. QED
  BY <1>1, <1>2, <1>3, UserStepKeeps, ResyncKeeps, RestartKeeps, CollectPodKeeps,
     PodGoneKeeps, ChainStutter DEF Chain!Next

LEMMA ChainInvHolds == ASSUME Chain!ChainOK PROVE Chain!Spec => []ChainInv
<1>1. ChainInv /\ [Chain!Next]_(Chain!vars) => ChainInv'
  BY ChainNext
<1>2. Chain!Init => ChainInv
  BY ChainInit
<1>3. QED BY <1>1, <1>2, PTL DEF Chain!Spec

\* Every variable of ServiceFunctionChain holds a value of its kind: a pod has an
\* image of the chain, and as its owner a CR that there is or was.
THEOREM ChainTypeCorrect ==
  ASSUME Chain!ChainOK PROVE Chain!Spec => []Chain!TypeOK
<1>1. ChainInv => Chain!TypeOK
  <2> SUFFICES ASSUME ChainInv PROVE Chain!TypeOK
    OBVIOUS
  <2>1. \A c \in Ctrls, n \in Functions :
           pods[c][n].img \in Images \cup {0} /\ pods[c][n].uid \in Nat
    BY DEF ChainInv, ChainTypes, PodRecords
  <2>2. /\ cr \in 0 .. uids /\ uids \in 0 .. MaxChanges
        /\ \A c \in Ctrls, n \in Functions : pods[c][n].uid \in 0 .. uids
    BY <2>1 DEF ChainInv, ChainTypes, OwnersOK, Chain!ChainOK
  <2>3. QED BY <2>1, <2>2 DEF ChainInv, ChainTypes, Specs, Ctrls, Chain!TypeOK
<1>2. QED BY ChainInvHolds, <1>1, PTL

\* When neither the controllers nor the garbage collector nor the kubelet has
\* anything left to do, every network function has the pods that the CR asks for,
\* except where a controller could not hear of a change, and without a CR there
\* are no pods: a chain does not come to rest in a wrong state, whatever the
\* order of edits, Reconciles, failed calls and restarts.
THEOREM ChainRestsConverged ==
  ASSUME Chain!ChainOK PROVE Chain!Spec => []Chain!RestIsConverged
<1>1. ChainInv => Chain!RestIsConverged
  <2> SUFFICES ASSUME ChainInv, Chain!AtRest PROVE Chain!Converged
    BY DEF Chain!RestIsConverged
  <2>1. /\ \A c \in Ctrls : work[c] = Chain!Idle /\ (c \in requests => cr = 0)
        /\ \A c \in Ctrls, n \in Functions :
             pods[c][n] = Chain!NoPod \/ (~pods[c][n].dying /\ pods[c][n].uid = cr)
    BY DEF Chain!AtRest, Ctrls
  <2>2. CASE cr = 0
    <3>1. \A c \in Ctrls, n \in Functions : pods[c][n] = Chain!NoPod
      BY <2>1, <2>2 DEF ChainInv, OwnersOK
    <3>2. QED BY <2>2, <3>1 DEF Chain!Converged, Ctrls
  <2>3. CASE cr # 0
    <3>1. ASSUME NEW c \in Ctrls, NEW n \in Functions
          PROVE  <<c, n>> \in missed \/ Has(c, n)
      <4>1. Known(c, n)
        BY DEF ChainInv
      <4>2. c \notin requests /\ ~Visits(c, n)
        BY <2>1, <2>3, ChainConstants DEF Visits
      <4>3. QED BY <2>3, <4>1, <4>2 DEF Known
    <3>2. "operator" \in Ctrls /\ "daemon" \in Ctrls
      BY ChainConstants
    <3>3. ASSUME NEW n \in Functions
          PROVE  /\ Chain!AsWanted(n) \/ <<"operator", n>> \in missed
                 /\ Chain!Exists(n) \/ <<"daemon", n>> \in missed
      <4>1. Has("operator", n) => Chain!AsWanted(n)
        BY <2>1, <3>2, ChainConstants DEF Has
      <4>2. Has("daemon", n) => Chain!Exists(n)
        BY DEF Has
      <4>3. QED BY <3>1, <3>2, <4>1, <4>2
    <3>4. QED BY <2>3, <3>3 DEF Chain!Converged
  <2>4. QED BY <2>2, <2>3
<1>2. QED BY ChainInvHolds, <1>1, PTL
=============================================================================
