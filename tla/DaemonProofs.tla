----------------------------- MODULE DaemonProofs -----------------------------
(***************************************************************************)
(* Proofs about the main loop of the daemon and the goroutines of its side *)
(* managers, for any number of DPUs, routines, failures and restarts.      *)
(***************************************************************************)
EXTENDS Daemon, TLAPS

(***************************************************************************)
(* The inductive invariant.                                                *)
(***************************************************************************)
\* The type invariant in three parts: what the main loop keeps, what the
\* routines share, and the world outside the process.
LoopTypes ==
  /\ phase \in Phases
  /\ managed \in SUBSET Dpus
  /\ mgr \in [Dpus -> Routines]
  /\ cond \in [Dpus -> Conditions \cup {"none"}]
  /\ applied \in [Dpus -> Counts]
  /\ todo \in SUBSET Dpus
  /\ listed \in SUBSET Dpus /\ missed \in SUBSET Dpus
  /\ changed \in BOOLEAN /\ closing \in BOOLEAN /\ ready \in BOOLEAN

RoutineTypes ==
  /\ started \in Routines
  /\ st \in [Routines -> {"none", "vsp", "setup", "listen", "serve", "drain",
                          "send", "done"}]
  /\ rdpu \in [Routines -> Dpus \cup {None}]
  /\ stop \in [Routines -> {"no", "cancelled", "closed"}]
  /\ inited \in SUBSET Managers /\ served \in SUBSET Managers
  /\ sweep \in SUBSET Managers /\ abandoned \in SUBSET Managers
  /\ errs \in 0..ErrCapacity
  /\ sock \in Routines

WorldTypes ==
  /\ present \in SUBSET Dpus
  /\ cr \in [Dpus -> Conditions \cup {"absent", "blank"}]
  /\ want \in [Dpus -> SUBSET VfCounts]
  /\ vfs \in [Dpus -> Counts]
  /\ label \in {"absent", "dpu", "dpu-host"}

BudgetTypes ==
  flaps \in Nat /\ faults \in Nat /\ outside \in Nat

Types == LoopTypes /\ RoutineTypes /\ WorldTypes /\ BudgetTypes

\* During a shutdown no DPU is managed, and no tick begins.
Closing == closing => managed = {} /\ phase \in {"list", "sync", "orphans", "wait"}

\* A loop over the managed DPUs visits managed DPUs only.
Visits == phase \in {"remove", "removeWait", "sync", "vfs"} => todo \subseteq managed

\* The status that SyncDpuCRs writes was set in this tick.
Conditioned ==
  phase \in {"list", "sync", "orphans", "labels", "vfs"} =>
    \A d \in managed : cond[d] \in Conditions

\* The routines that were started are the readiness server and one for each
\* manager; the others have not run.  Sockets are left to remove only after a
\* manager was cancelled.
Started ==
  /\ st[0] \in {"serve", "send", "done"}
  /\ \A r \in Managers : r > started => st[r] = "none"
  /\ \A r \in sweep : st[r] = "done" /\ stop[r] # "no"

\* Each of them was started for a DPU.
Assigned == \A r \in 1..started : rdpu[r] \in Dpus

\* A manager in managedDpus is a routine that was started for that DPU, and only
\* entries that the tick in progress has added are without one.
Linked ==
  \A d \in Dpus : mgr[d] # 0 =>
    d \in managed /\ mgr[d] <= started /\ rdpu[mgr[d]] = d

Staffed ==
  /\ phase \notin {"remove", "removeWait", "manage"} =>
       \A d \in managed : mgr[d] # 0
  /\ phase \in {"remove", "removeWait"} => \A d \in todo : mgr[d] # 0

\* A manager that updateManagedDpus is through with: it is cancelled, its plugin
\* is closed, and it is done or was given up after 5 seconds.
Dismissed(r) == stop[r] = "closed" /\ (st[r] = "done" \/ r \in abandoned)

\* Until a shutdown, this holds of every routine that is not the manager of its
\* DPU any more ...
Former ==
  ~closing => \A r \in 1..started : mgr[rdpu[r]] # r => Dismissed(r)

\* ... and at any time of all routines of a DPU but the last.
Succeeded ==
  \A q, r \in 1..started : q < r /\ rdpu[q] = rdpu[r] => Dismissed(q)

Base == Types /\ Closing /\ Visits /\ Conditioned /\ Started /\ Assigned
          /\ Linked /\ Staffed

\* SyncDpuCRs leaves the CRs of the managed DPUs as the daemon has them, but for
\* those that it failed to sync or that others have deleted since it began.
Synced ==
  /\ phase = "sync" => \A d \in managed \ (todo \cup missed) : cr[d] = cond[d]
  /\ phase = "orphans" => todo \cap managed = {}
  /\ phase \in {"orphans", "labels", "vfs"} =>
       \A d \in managed \ missed : cr[d] = cond[d]

Inv == Base /\ Former /\ Succeeded /\ Synced

(***************************************************************************)
(* Steps of a kind.                                                        *)
(***************************************************************************)
\* The parts of the type invariant are the type invariant.
LEMMA TypesAreTypes ==
  Types /\ Closing /\ Linked => TypeOK
<1> SUFFICES ASSUME Types, Closing, Linked PROVE TypeOK
  OBVIOUS
<1>1. \A d \in managed : mgr[d] # 0 => rdpu[mgr[d]] = d
  BY DEF Types, LoopTypes, Linked
<1>2. {flaps, faults, outside} \subseteq Nat
  BY DEF Types, BudgetTypes
<1>3. QED
  BY <1>1, <1>2 DEF Types, LoopTypes, RoutineTypes, WorldTypes, Closing, TypeOK

LEMMA RoutineZero == 0 \in Routines /\ MaxRoutines \in Nat
BY ConstantsAssumption DEF Routines

LEMMA RoutineRange ==
  /\ \A r \in Managers : r \in Routines /\ r \in Nat /\ r # 0
  /\ \A r \in Routines : r \in Nat /\ (r # 0 => r \in Managers)
BY ConstantsAssumption DEF Routines, Managers

\* The invariant holds of a process that has just begun.
LEMMA FreshTypes ==
  ASSUME FreshLoop, FreshRoutines, phase' \in Phases
  PROVE  LoopTypes' /\ RoutineTypes'
<1>1. LoopTypes'
  BY RoutineZero DEF FreshLoop, LoopTypes, Counts
<1>2. RoutineTypes'
  BY RoutineZero, ConstantsAssumption DEF FreshRoutines, RoutineTypes
<1>3. QED BY <1>1, <1>2

LEMMA FreshInv ==
  ASSUME FreshLoop, FreshRoutines, phase' = "exited", WorldTypes', BudgetTypes'
  PROVE  Inv'
<1>1. Types'
  BY FreshTypes DEF Types, Phases
<1>2. Closing' /\ Visits' /\ Conditioned'
  BY DEF FreshLoop, Closing, Visits, Conditioned
<1>3. Started' /\ Assigned' /\ Linked' /\ Staffed'
  BY RoutineZero, RoutineRange
  DEF FreshLoop, FreshRoutines, Started, Linked, Assigned, Staffed
<1>4. \A r \in 1..started' : FALSE
  BY DEF FreshRoutines
<1>5. Former' /\ Succeeded'
  BY <1>4 DEF Former, Succeeded
<1>6. Synced'
  BY DEF Synced
<1>7. QED BY <1>1, <1>2, <1>3, <1>5, <1>6 DEF Inv, Base

\* The budgets stay numbers.
LEMMA FaultTypes ==
  ASSUME BudgetTypes, Fault PROVE BudgetTypes'
BY DEF BudgetTypes, Fault

LEMMA ApiTypes ==
  ASSUME BudgetTypes, NEW ok \in BOOLEAN, Api(ok) PROVE BudgetTypes'
BY DEF BudgetTypes, Api, Fault, budget

LEMMA SameBudget ==
  ASSUME BudgetTypes, UNCHANGED budget PROVE BudgetTypes'
BY DEF BudgetTypes, budget

LEMMA SameWorld ==
  ASSUME WorldTypes, UNCHANGED <<present, cluster, vfs>> PROVE WorldTypes'
BY DEF WorldTypes, cluster

\* An exit with the world unchanged.
LEMMA ExitInv ==
  ASSUME Inv, Exit, BudgetTypes', UNCHANGED <<present, cluster, vfs>>
  PROVE  Inv'
BY FreshInv, SameWorld DEF Inv, Base, Types, Exit

\* What leaves the routines and their entries in managedDpus alone.
LEMMA SameRoutines ==
  ASSUME Inv, UNCHANGED <<managed, mgr, closing, routines, sock>>
  PROVE  Started' /\ Assigned' /\ Linked' /\ Former' /\ Succeeded' /\ RoutineTypes'
<1>1. Started' /\ Assigned' /\ Linked'
  BY DEF Inv, Base, Started, Linked, Assigned, routines
<1>2. Former' /\ Succeeded'
  BY DEF Inv, Former, Succeeded, Dismissed, routines
<1>3. RoutineTypes'
  BY DEF Inv, Base, Types, RoutineTypes, routines
<1>4. QED BY <1>1, <1>2, <1>3

\* A manager that was dismissed stays so.
LEMMA StillDismissed ==
  ASSUME Inv, UNCHANGED <<mgr, closing, started, rdpu>>,
         \A r \in 1..started : Dismissed(r) => Dismissed(r)'
  PROVE  Former' /\ Succeeded'
BY DEF Inv, Former, Succeeded

LEMMA StartedRange ==
  ASSUME RoutineTypes
  PROVE  /\ started \in Nat
         /\ \A r \in 1..started : r \in Managers /\ r \in Routines /\ r \in Nat
BY RoutineZero DEF RoutineTypes, Routines, Managers

(***************************************************************************)
(* The steps of a tick.                                                    *)
(***************************************************************************)
LEMMA TickStep == ASSUME Inv, Tick PROVE Inv'
<1> USE DEF Inv, Base, Types
<1>1. CASE Fault /\ Exit
  BY <1>1, ExitInv, FaultTypes DEF Tick
<1>2. CASE ~(Fault /\ Exit)
  <2>1. /\ phase = "select" /\ phase' = "remove"
        /\ managed' = managed \cup present
        /\ todo' = managed \ present
        /\ UNCHANGED <<mgr, cond, applied, syncing, closing, ready, routines,
                       sock, budget, present, cluster, vfs>>
    BY <1>2 DEF Tick
  <2>2. LoopTypes'
    BY <2>1 DEF LoopTypes, WorldTypes, syncing, Phases
  <2>3. WorldTypes' /\ BudgetTypes'
    BY <2>1, SameWorld, SameBudget
  <2>4. RoutineTypes' /\ Started' /\ Assigned'
    BY <2>1 DEF RoutineTypes, Started, Assigned, routines
  <2>5. Closing' /\ Visits' /\ Conditioned' /\ Synced'
    BY <2>1 DEF Closing, Visits, Conditioned, Synced
  <2>6. Linked' /\ Staffed'
    BY <2>1 DEF Linked, Staffed, routines
  <2>7. Former' /\ Succeeded'
    BY <2>1, StillDismissed DEF Dismissed, routines
  <2>8. QED BY <2>2, <2>3, <2>4, <2>5, <2>6, <2>7
<1>3. QED BY <1>1, <1>2

LEMMA RemoveStep == ASSUME Inv, NEW d \in Dpus, Remove(d) PROVE Inv'
<1> USE DEF Inv, Base, Types
<1>1. LoopTypes'
  BY DEF LoopTypes, Remove, loop, syncing, Phases
<1>2. WorldTypes' /\ BudgetTypes'
  BY SameWorld, SameBudget DEF Remove
<1>3. RoutineTypes' /\ Assigned' /\ Linked'
  BY DEF RoutineTypes, Assigned, Linked, Remove, loop
<1>3a. Started'
  <2>1. \A r \in Routines : stop[r] # "no" => stop'[r] # "no"
    BY DEF Remove, RoutineTypes
  <2>2. QED BY <2>1, RoutineRange DEF Started, Remove, RoutineTypes
<1>4. Closing' /\ Visits' /\ Conditioned' /\ Synced' /\ Staffed'
  BY DEF Closing, Visits, Conditioned, Synced, Staffed, Remove, loop
<1>5. \A r \in 1..started : Dismissed(r) => Dismissed(r)'
  BY StartedRange DEF Dismissed, Remove, RoutineTypes
<1>6. Former' /\ Succeeded'
  BY <1>5, StillDismissed DEF Remove, loop
<1>7. QED BY <1>1, <1>2, <1>3, <1>3a, <1>4, <1>6

\* A DPU is forgotten: its manager is dismissed.
LEMMA RemovedStep == ASSUME Inv, NEW d \in Dpus, Removed(d) PROVE Inv'
<1> USE DEF Inv, Base, Types
<1>1. /\ Forget(d) /\ phase = "removeWait" /\ d \in todo
      /\ stop[mgr[d]] = "closed"
  BY DEF Removed, Forget
<1>2. mgr[d] # 0 /\ mgr[d] \in Managers
  BY <1>1, RoutineRange DEF Staffed, LoopTypes
<1>3. /\ abandoned \subseteq abandoned' /\ abandoned' \in SUBSET Managers
      /\ st[mgr[d]] = "done" \/ mgr[d] \in abandoned'
  BY <1>2 DEF Removed, RoutineTypes
<1>4. LoopTypes'
  BY <1>1, RoutineZero DEF LoopTypes, Forget, syncing, Phases, Counts
<1>5. WorldTypes' /\ BudgetTypes'
  BY <1>1, SameWorld, SameBudget DEF Forget
<1>6. UNCHANGED <<started, st, rdpu, stop, sweep, closing>>
  BY <1>1 DEF Forget
<1>7. RoutineTypes' /\ Started' /\ Assigned'
  BY <1>1, <1>3 DEF RoutineTypes, Started, Assigned, Forget
<1>8. ~closing
  BY <1>1 DEF Closing
<1>9. Closing' /\ Visits' /\ Conditioned' /\ Synced'
  BY <1>1, <1>8 DEF Closing, Visits, Conditioned, Synced, Forget
<1>10. Linked' /\ Staffed'
  BY <1>1 DEF LoopTypes, Linked, Staffed, Forget
<1>11. \A r \in 1..started : Dismissed(r) => Dismissed(r)'
  BY <1>3, <1>6 DEF Dismissed
<1>12. Succeeded'
  BY <1>6, <1>11 DEF Succeeded
<1>13. Former'
  <2> SUFFICES ASSUME NEW r \in 1..started, mgr'[rdpu[r]] # r
               PROVE  Dismissed(r)'
    BY <1>6 DEF Former
  <2>1. CASE mgr[rdpu[r]] = r
    <3>1. rdpu[r] = d
      BY <2>1, <1>1 DEF Forget, LoopTypes, Assigned
    <3>2. QED BY <2>1, <3>1, <1>1, <1>3, <1>6 DEF Dismissed
  <2>2. CASE mgr[rdpu[r]] # r
    BY <2>2, <1>8, <1>11 DEF Former
  <2>3. QED BY <2>1, <2>2
<1>14. QED BY <1>4, <1>5, <1>7, <1>9, <1>10, <1>12, <1>13

\* A manager is created for a DPU that has none: all former ones are dismissed.
LEMMA ManageStep == ASSUME Inv, NEW d \in Dpus, Manage(d) PROVE Inv'
<1> USE DEF Inv, Base, Types
<1>1. CASE Fault /\ Exit
  BY <1>1, ExitInv, FaultTypes DEF Manage
<1>2. CASE ~(Fault /\ Exit)
  <2> DEFINE n == started + 1
  <2>1. /\ phase \in {"remove", "manage"} /\ d \in managed /\ mgr[d] = 0
        /\ started < MaxRoutines
        /\ started' = n
        /\ mgr' = [mgr EXCEPT ![d] = n]
        /\ rdpu' = [rdpu EXCEPT ![n] = d]
        /\ st' = [st EXCEPT ![n] = "vsp"]
        /\ phase' = "manage"
    BY <1>2 DEF Manage, Move
  <2>2. UNCHANGED <<managed, cond, applied, todo, syncing, closing, ready, stop,
                    inited, served, sweep, abandoned, errs, sock, budget,
                    present, cluster, vfs>>
    BY <1>2 DEF Manage
  <2>3. started \in Nat /\ n \in Managers /\ n \in Routines /\ n # 0
    BY <2>1, RoutineZero DEF RoutineTypes, Routines, Managers
  <2>3a. \A r \in 0..started : r \in Routines /\ r # n /\ r <= n
    BY <2>1, RoutineZero DEF RoutineTypes, Routines
  <2>4. ~closing
    BY <2>1 DEF Closing
  <2>5. n \notin sweep
    BY <2>3 DEF Started, RoutineTypes
  <2> HIDE DEF n
  <2>6. LoopTypes'
    BY <2>1, <2>2, <2>3 DEF LoopTypes, syncing, Phases
  <2>7. WorldTypes' /\ BudgetTypes'
    BY <2>2, SameWorld, SameBudget
  <2>8. RoutineTypes'
    BY <2>1, <2>2, <2>3 DEF RoutineTypes
  <2>9. Closing' /\ Visits' /\ Conditioned' /\ Synced'
    BY <2>1, <2>2, <2>4 DEF Closing, Visits, Conditioned, Synced
  <2>10. Started'
    BY <2>1, <2>2, <2>3, <2>5, RoutineZero, RoutineRange
    DEF Started, RoutineTypes, n
  <2>11. Linked'
    <3> SUFFICES ASSUME NEW e \in Dpus, mgr'[e] # 0
                 PROVE  e \in managed /\ mgr'[e] <= n /\ rdpu'[mgr'[e]] = e
      BY <2>1, <2>2 DEF Linked
    <3>1. CASE e = d
      BY <3>1, <2>1, <2>3, RoutineRange DEF LoopTypes, RoutineTypes
    <3>2. CASE e # d
      <4>1. mgr'[e] = mgr[e]
        BY <3>2, <2>1 DEF LoopTypes
      <4>2. e \in managed /\ mgr[e] <= started /\ rdpu[mgr[e]] = e
        BY <4>1 DEF Linked
      <4>3. mgr[e] \in 0..started
        BY <4>2, <2>3 DEF LoopTypes, Routines
      <4>4. QED BY <4>1, <4>2, <4>3, <2>3a, <2>1 DEF RoutineTypes
    <3>3. QED BY <3>1, <3>2
  <2>12. \A r \in 1..started' : r = n \/ r \in 1..started
    <3>1. \A k \in Nat : \A r \in 1..(k + 1) : r = k + 1 \/ r \in 1..k
      OBVIOUS
    <3>2. QED BY <3>1, <2>1, <2>3 DEF n
  <2>13. \A r \in 1..started : r \in Routines /\ r # n
    BY <2>3, <2>3a
  <2>14. \A r \in 1..started : Dismissed(r)' = Dismissed(r) /\ rdpu'[r] = rdpu[r]
    BY <2>1, <2>2, <2>13 DEF Dismissed, RoutineTypes
  <2>14a. Assigned'
    <3> SUFFICES ASSUME NEW r \in 1..started' PROVE rdpu'[r] \in Dpus
      BY DEF Assigned
    <3>1. CASE r = n
      BY <3>1, <2>1, <2>3 DEF RoutineTypes
    <3>2. CASE r \in 1..started
      BY <3>2, <2>14 DEF Assigned
    <3>3. QED BY <3>1, <3>2, <2>12
  <2>15. rdpu'[n] = d /\ mgr'[d] = n
    BY <2>1, <2>3 DEF RoutineTypes, LoopTypes
  <2>16. \A r \in 1..started : rdpu[r] = d => Dismissed(r)
    BY <2>1, <2>4, <2>3 DEF Former
  <2>17. Former'
    <3> SUFFICES ASSUME NEW r \in 1..started', mgr'[rdpu'[r]] # r
                 PROVE  Dismissed(r)'
      BY DEF Former
    <3>1. r \in 1..started
      BY <2>12, <2>15
    <3>2. CASE rdpu[r] = d
      BY <3>1, <3>2, <2>14, <2>16
    <3>3. CASE rdpu[r] # d
      BY <3>1, <3>3, <2>1, <2>4, <2>14 DEF Former, LoopTypes, Assigned
    <3>4. QED BY <3>2, <3>3
  <2>18. Succeeded'
    <3> SUFFICES ASSUME NEW q \in 1..started', NEW r \in 1..started',
                        q < r, rdpu'[q] = rdpu'[r]
                 PROVE  Dismissed(q)'
      BY DEF Succeeded
    <3>1. q # n
      BY <2>1, <2>3
    <3>2. q \in 1..started
      BY <3>1, <2>12
    <3>3. CASE r = n
      BY <3>2, <3>3, <2>14, <2>15, <2>16
    <3>4. CASE r \in 1..started
      BY <3>2, <3>4, <2>14 DEF Succeeded
    <3>5. QED BY <3>3, <3>4, <2>12
  <2>19. Staffed'
    BY <2>1 DEF Staffed
  <2>20. QED BY <2>6, <2>7, <2>8, <2>9, <2>10, <2>11, <2>14a, <2>17, <2>18,
                <2>19
<1>3. QED BY <1>1, <1>2

LEMMA SetConditionsStep == ASSUME Inv, SetConditions PROVE Inv'
<1> USE DEF Inv, Base, Types
<1>1. UNCHANGED <<managed, mgr, applied, todo, syncing, closing, ready, routines,
                  present, cluster, vfs, sock, budget>>
  BY DEF SetConditions
<1>2. phase' = "list" /\ phase \in {"remove", "manage"}
  BY DEF SetConditions
<1>3. /\ cond' \in [Dpus -> Conditions \cup {"none"}]
      /\ \A d \in managed : cond'[d] \in Conditions
  BY DEF SetConditions, Conditions, LoopTypes
<1>4. LoopTypes'
  BY <1>1, <1>2, <1>3 DEF LoopTypes, syncing, Phases
<1>5. WorldTypes' /\ BudgetTypes'
  BY <1>1, SameWorld, SameBudget
<1>6. Closing' /\ Visits' /\ Conditioned' /\ Synced' /\ Staffed'
  BY <1>1, <1>2, <1>3 DEF Closing, Visits, Conditioned, Synced, Staffed, SetConditions
<1>7. QED BY <1>1, <1>4, <1>5, <1>6, SameRoutines

(***************************************************************************)
(* SyncDpuCRs and the end of a tick.                                       *)
(***************************************************************************)
\* What follows SyncDpuCRs cancels routines at most.
LEMMA AfterSyncStep ==
  ASSUME Inv, AfterSync, phase \in {"list", "orphans"},
         ~closing => \A d \in managed \ missed : cr'[d] = cond[d],
         UNCHANGED <<loop, todo, syncing, closing, ready, started, st, rdpu,
                     inited, served, sweep, abandoned, errs, sock>>,
         WorldTypes', BudgetTypes'
  PROVE  Inv'
<1> USE DEF Inv, Base, Types
<1>1. phase' = (IF closing THEN "wait" ELSE "labels")
  BY DEF AfterSync, LoopTypes
<1>2. stop' \in [Routines -> {"no", "cancelled", "closed"}]
  BY DEF AfterSync, RoutineTypes
<1>3. LoopTypes'
  BY <1>1 DEF LoopTypes, loop, syncing, Phases
<1>4. RoutineTypes' /\ Assigned' /\ Linked'
  BY <1>2 DEF RoutineTypes, Assigned, Linked, loop
<1>4a. Started'
  <2>1. \A r \in Routines : stop[r] # "no" => stop'[r] # "no"
    BY DEF AfterSync, RoutineTypes
  <2>2. QED BY <2>1, RoutineRange DEF Started, RoutineTypes
<1>5. Closing' /\ Visits' /\ Conditioned' /\ Staffed'
  BY <1>1 DEF Closing, Visits, Conditioned, Staffed, loop, LoopTypes
<1>6. \A r \in 1..started : Dismissed(r) => Dismissed(r)'
  BY StartedRange DEF AfterSync, Dismissed, RoutineTypes
<1>7. Former' /\ Succeeded'
  BY <1>6, StillDismissed DEF loop
<1>8. Synced'
  BY <1>1 DEF Synced, loop, syncing, LoopTypes
<1>9. QED BY <1>3, <1>4, <1>4a, <1>5, <1>7, <1>8

LEMMA SyncListStep == ASSUME Inv, SyncList PROVE Inv'
<1> USE DEF Inv, Base, Types
<1>1. phase = "list" /\ UNCHANGED <<present, cluster, vfs>> /\ WorldTypes'
  BY SameWorld DEF SyncList
<1>2. CASE /\ Api(TRUE)
           /\ listed' = {d \in Dpus : Exists(d)}
           /\ changed' = FALSE
           /\ missed' = {}
           /\ todo' = managed
           /\ phase' = "sync"
           /\ UNCHANGED <<loop, closing, ready, routines, sock>>
  <2>1. BudgetTypes'
    BY <1>2, ApiTypes
  <2>2. LoopTypes'
    BY <1>2 DEF LoopTypes, loop, Phases
  <2>3. Closing' /\ Visits' /\ Conditioned' /\ Synced' /\ Staffed'
    BY <1>1, <1>2 DEF Closing, Visits, Conditioned, Synced, Staffed, loop
  <2>4. UNCHANGED <<managed, mgr, closing, routines, sock>>
    BY <1>2 DEF loop
  <2>5. QED BY <1>1, <2>1, <2>2, <2>3, <2>4, SameRoutines
<1>3. CASE Api(FALSE) /\ Exit
  BY <1>1, <1>3, ExitInv, ApiTypes
<1>4. CASE /\ Api(FALSE)
           /\ closing
           /\ AfterSync
           /\ UNCHANGED <<loop, todo, syncing, closing, ready, started, st, rdpu,
                          inited, served, sweep, abandoned, errs, sock>>
  BY <1>1, <1>4, AfterSyncStep, ApiTypes
<1>5. QED BY <1>2, <1>3, <1>4 DEF SyncList

LEMMA SyncSingleStep == ASSUME Inv, NEW d \in Dpus, SyncSingleDpuCR(d) PROVE Inv'
<1> USE DEF Inv, Base, Types
<1>1. /\ phase = "sync" /\ d \in todo /\ todo' = todo \ {d}
      /\ UNCHANGED <<phase, loop, listed, closing, ready, routines, present,
                     want, label, vfs, sock>>
  BY DEF SyncSingleDpuCR
<1>2. d \in managed /\ cond[d] \in Conditions
  BY <1>1 DEF Visits, Conditioned
<1>3. BudgetTypes'
  BY ApiTypes DEF SyncSingleDpuCR
<1>4. changed' \in BOOLEAN /\ missed' \in SUBSET Dpus
  BY DEF SyncSingleDpuCR, LoopTypes
<1>5. cr' \in [Dpus -> Conditions \cup {"absent", "blank"}]
  BY <1>2 DEF SyncSingleDpuCR, WorldTypes
<1>6. LoopTypes' /\ WorldTypes'
  BY <1>1, <1>4, <1>5 DEF LoopTypes, WorldTypes, loop
<1>7. Closing' /\ Visits' /\ Conditioned' /\ Staffed'
  BY <1>1 DEF Closing, Visits, Conditioned, Staffed, loop
<1>8. Synced'
  <2>1. \A e \in Dpus : e # d => cr'[e] = cr[e]
    BY DEF SyncSingleDpuCR, WorldTypes
  <2>2. missed \subseteq missed' /\ (cr'[d] = cond[d] \/ d \in missed')
    BY DEF SyncSingleDpuCR, WorldTypes
  <2>3. \A e \in managed \ (todo \cup missed) : cr[e] = cond[e]
    BY <1>1 DEF Synced
  <2>4. \A e \in managed \ (todo' \cup missed') : cr'[e] = cond[e]
    BY <1>1, <2>1, <2>2, <2>3 DEF LoopTypes
  <2>5. QED BY <1>1, <2>4 DEF Synced, loop
<1>9. UNCHANGED <<managed, mgr, closing, routines, sock>>
  BY <1>1 DEF loop
<1>10. QED BY <1>3, <1>6, <1>7, <1>8, <1>9, SameRoutines

LEMMA SyncOrphansStep == ASSUME Inv, SyncOrphans PROVE Inv'
<1> USE DEF Inv, Base, Types
<1>1. LoopTypes'
  BY DEF LoopTypes, SyncOrphans, loop, syncing, Phases
<1>2. WorldTypes' /\ BudgetTypes'
  BY SameWorld, SameBudget DEF SyncOrphans
<1>3. Closing' /\ Visits' /\ Conditioned' /\ Staffed'
  BY DEF Closing, Visits, Conditioned, Staffed, SyncOrphans, loop
<1>4. Synced'
  BY DEF Synced, SyncOrphans, loop, syncing, cluster
<1>5. UNCHANGED <<managed, mgr, closing, routines, sock>>
  BY DEF SyncOrphans, loop
<1>6. QED BY <1>1, <1>2, <1>3, <1>4, <1>5, SameRoutines

LEMMA DeleteOrphanStep == ASSUME Inv, NEW d \in Dpus, DeleteOrphan(d) PROVE Inv'
<1> USE DEF Inv, Base, Types
<1>1. /\ phase = "orphans" /\ d \in todo /\ todo' = todo \ {d}
      /\ UNCHANGED <<phase, loop, listed, missed, closing, ready, routines,
                     present, label, vfs, sock>>
  BY DEF DeleteOrphan
<1>2. BudgetTypes'
  BY ApiTypes DEF DeleteOrphan
<1>3. changed' \in BOOLEAN
  BY DEF DeleteOrphan, LoopTypes
<1>4. /\ cr' \in [Dpus -> Conditions \cup {"absent", "blank"}]
      /\ want' \in [Dpus -> SUBSET VfCounts]
  BY DEF DeleteOrphan, WorldTypes
<1>5. LoopTypes' /\ WorldTypes'
  BY <1>1, <1>3, <1>4 DEF LoopTypes, WorldTypes, loop
<1>6. Closing' /\ Visits' /\ Conditioned' /\ Staffed'
  BY <1>1 DEF Closing, Visits, Conditioned, Staffed, loop
<1>7. Synced'
  <2>1. \A e \in Dpus : e # d => cr'[e] = cr[e]
    BY DEF DeleteOrphan, WorldTypes
  <2>2. QED BY <1>1, <2>1 DEF Synced, loop, LoopTypes
<1>8. UNCHANGED <<managed, mgr, closing, routines, sock>>
  BY <1>1 DEF loop
<1>9. QED BY <1>2, <1>5, <1>6, <1>7, <1>8, SameRoutines

LEMMA EndSyncStep == ASSUME Inv, EndSync PROVE Inv'
<1> USE DEF Inv, Base, Types
<1>1. WorldTypes' /\ BudgetTypes'
  BY SameWorld, SameBudget DEF EndSync
<1>2. \A d \in managed \ missed : cr'[d] = cond[d]
  BY DEF EndSync, Synced, cluster
<1>3. QED BY <1>1, <1>2, AfterSyncStep DEF EndSync

LEMMA UpdateNodeLabelsStep == ASSUME Inv, UpdateNodeLabels PROVE Inv'
<1> USE DEF Inv, Base, Types
<1>1. phase = "labels" /\ UNCHANGED <<present, cr, want, vfs>>
  BY DEF UpdateNodeLabels
<1>2. CASE Api(FALSE) /\ UNCHANGED label /\ Exit
  BY <1>1, <1>2, ExitInv, ApiTypes DEF cluster
<1>3. CASE /\ Api(TRUE)
           /\ label' \in LabelFor(managed)
           /\ todo' = managed \cap HostDpus
           /\ phase' = "vfs"
           /\ UNCHANGED <<loop, syncing, closing, ready, routines, sock>>
  <2>1. BudgetTypes'
    BY <1>3, ApiTypes
  <2>2. label' \in {"absent", "dpu", "dpu-host"}
    BY <1>3 DEF LabelFor
  <2>3. LoopTypes' /\ WorldTypes'
    BY <1>1, <1>3, <2>2 DEF LoopTypes, WorldTypes, loop, syncing, Phases
  <2>4. Closing' /\ Visits' /\ Conditioned' /\ Staffed'
    BY <1>1, <1>3 DEF Closing, Visits, Conditioned, Staffed, loop
  <2>5. Synced'
    BY <1>1, <1>3 DEF Synced, loop, syncing
  <2>6. UNCHANGED <<managed, mgr, closing, routines, sock>>
    BY <1>3 DEF loop
  <2>7. QED BY <2>1, <2>3, <2>4, <2>5, <2>6, SameRoutines
<1>4. QED BY <1>2, <1>3 DEF UpdateNodeLabels

LEMMA ApplyDesiredStep ==
  ASSUME Inv, NEW d \in Dpus, ApplyDesiredVfCount(d) PROVE Inv'
<1> USE DEF Inv, Base, Types
<1>1. /\ phase = "vfs" /\ d \in todo /\ todo' = todo \ {d}
      /\ UNCHANGED <<phase, managed, mgr, cond, syncing, closing, ready, routines,
                     present, cluster, sock>>
  BY DEF ApplyDesiredVfCount
<1>2. BudgetTypes'
  BY ApiTypes, FaultTypes, SameBudget DEF ApplyDesiredVfCount
<1>3. vfs' \in [Dpus -> Counts] /\ applied' \in [Dpus -> Counts]
  BY DEF ApplyDesiredVfCount, LoopTypes, WorldTypes, Counts
<1>4. LoopTypes' /\ WorldTypes'
  BY <1>1, <1>3 DEF LoopTypes, WorldTypes, cluster, syncing
<1>5. Closing' /\ Visits' /\ Conditioned' /\ Staffed'
  BY <1>1 DEF Closing, Visits, Conditioned, Staffed
<1>6. Synced'
  BY <1>1 DEF Synced, cluster, syncing
<1>7. QED BY <1>1, <1>2, <1>4, <1>5, <1>6, SameRoutines

LEMMA MarkReadyStep == ASSUME Inv, MarkReady PROVE Inv'
<1> USE DEF Inv, Base, Types
<1>1. LoopTypes'
  BY DEF LoopTypes, MarkReady, loop, syncing, Phases
<1>2. WorldTypes' /\ BudgetTypes'
  BY SameWorld, SameBudget DEF MarkReady
<1>3. Closing' /\ Visits' /\ Conditioned' /\ Synced' /\ Staffed'
  BY DEF Closing, Visits, Conditioned, Synced, Staffed, MarkReady, loop
<1>4. UNCHANGED <<managed, mgr, closing, routines, sock>>
  BY DEF MarkReady, loop
<1>5. QED BY <1>1, <1>2, <1>3, <1>4, SameRoutines

\* The shutdown forgets the managers at once, but starts no others.
LEMMA ShutdownStep == ASSUME Inv, Shutdown PROVE Inv'
<1> USE DEF Inv, Base, Types
<1>1. LoopTypes'
  BY RoutineZero DEF LoopTypes, Shutdown, syncing, Phases, Counts
<1>2. WorldTypes' /\ BudgetTypes'
  BY SameWorld, SameBudget DEF Shutdown
<1>3. RoutineTypes'
  BY ConstantsAssumption DEF RoutineTypes, Shutdown
<1>4. Started' /\ Assigned'
  BY DEF Started, Assigned, Shutdown
<1>5. Closing' /\ Visits' /\ Conditioned' /\ Synced' /\ Linked' /\ Staffed'
  BY DEF Closing, Visits, Conditioned, Synced, Linked, Staffed, Shutdown
<1>6. Former' /\ Succeeded'
  BY DEF Former, Succeeded, Dismissed, Shutdown
<1>7. QED BY <1>1, <1>2, <1>3, <1>4, <1>5, <1>6

LEMMA RoutinesStoppedStep == ASSUME Inv, RoutinesStopped PROVE Inv'
BY ExitInv, SameBudget DEF RoutinesStopped, Inv, Base, Types

(***************************************************************************)
(* The routines.                                                           *)
(***************************************************************************)
LEMMA FrameStep ==
  ASSUME Inv, RoutineFrame
  PROVE  /\ LoopTypes' /\ Closing' /\ Visits' /\ Conditioned'
         /\ Assigned' /\ Linked' /\ Staffed' /\ Synced'
         /\ vfs' \in [Dpus -> Counts] => WorldTypes'
<1> USE DEF Inv, Base, Types
<1>1. LoopTypes'
  BY DEF LoopTypes, RoutineFrame, loop, syncing
<1>2. Closing' /\ Visits' /\ Conditioned' /\ Assigned' /\ Linked' /\ Staffed'
  BY DEF Closing, Visits, Conditioned, Assigned, Linked, Staffed, RoutineFrame, loop
<1>3. Synced'
  BY DEF Synced, RoutineFrame, loop, syncing, cluster
<1>4. vfs' \in [Dpus -> Counts] => WorldTypes'
  BY DEF WorldTypes, RoutineFrame, cluster
<1>5. QED BY <1>1, <1>2, <1>3, <1>4

\* Routine r goes on, and others do not; nothing takes it back from "done".
LEMMA MoveKeeps ==
  ASSUME Inv, RoutineFrame, NEW r \in Routines,
         st[r] = "done" => st'[r] = "done",
         \A q \in Routines : q # r => st'[q] = st[q]
  PROVE  Former' /\ Succeeded'
<1>1. UNCHANGED <<mgr, closing, started, rdpu, stop, abandoned>>
  BY DEF RoutineFrame, loop
<1>2. \A q \in 1..started : Dismissed(q) => Dismissed(q)'
  BY <1>1, StartedRange DEF Dismissed, Inv, Base, Types
<1>3. QED BY <1>1, <1>2, StillDismissed

\* A step of a manager that was not through, and that does not begin to serve.
LEMMA ManagerMoves ==
  ASSUME Inv, NEW r \in Routines, NEW s \in {"setup", "listen", "drain", "send"},
         st[r] \in {"vsp", "setup", "listen", "serve", "drain"}, r # 0,
         Move(r, s), RoutineFrame, UNCHANGED <<sweep, errs, sock, served>>,
         inited' \in SUBSET Managers, vfs' \in [Dpus -> Counts], BudgetTypes'
  PROVE  Inv'
<1> USE DEF Inv, Base, Types
<1>1. r \in Managers /\ r \notin sweep
  BY RoutineRange DEF Started
<1>2. UNCHANGED <<loop, closing, started, rdpu, stop, abandoned>>
  BY DEF RoutineFrame
<1>3. /\ st'[r] = s
      /\ \A q \in Routines : q # r => st'[q] = st[q]
  BY DEF Move, RoutineTypes
<1>4. RoutineTypes'
  BY <1>2 DEF RoutineTypes, Move
<1>5. Started'
  BY <1>1, <1>2, <1>3, RoutineRange, RoutineZero DEF Started, RoutineTypes
<1>6. Former' /\ Succeeded'
  BY <1>3, MoveKeeps
<1>7. QED BY <1>4, <1>5, <1>6, FrameStep

LEMMA StartVspStep == ASSUME Inv, NEW r \in Routines, StartVsp(r) PROVE Inv'
<1> USE DEF Inv, Base, Types
<1>1. st[r] = "vsp" /\ r # 0 /\ r \in Managers
  BY RoutineRange DEF StartVsp, Started
<1>2. /\ RoutineFrame /\ UNCHANGED <<served, sweep, errs, vfs, sock>>
      /\ Move(r, "setup") \/ Move(r, "send")
      /\ inited' \in SUBSET Managers
  BY <1>1 DEF StartVsp, RoutineTypes
<1>3. BudgetTypes'
  BY FaultTypes, SameBudget DEF StartVsp
<1>4. vfs' \in [Dpus -> Counts]
  BY <1>2 DEF WorldTypes
<1>5. QED BY <1>1, <1>2, <1>3, <1>4, ManagerMoves

LEMMA NilClientStep == ASSUME Inv, NEW r \in Routines, NilClient(r) PROVE Inv'
BY ExitInv, FaultTypes DEF NilClient, Inv, Base, Types

LEMMA SetupDevicesStep == ASSUME Inv, NEW r \in Routines, SetupDevices(r) PROVE Inv'
<1> USE DEF Inv, Base, Types
<1>1. st[r] = "setup" /\ r # 0
  BY DEF SetupDevices, Started
<1>2. /\ RoutineFrame /\ UNCHANGED <<inited, served, sweep, errs, sock>>
      /\ Move(r, "listen") \/ Move(r, "send")
      /\ inited' \in SUBSET Managers
  BY DEF SetupDevices, RoutineTypes
<1>3. BudgetTypes'
  BY FaultTypes, SameBudget DEF SetupDevices
<1>4. vfs' \in [Dpus -> Counts]
  BY DEF SetupDevices, WorldTypes, Counts
<1>5. QED BY <1>1, <1>2, <1>3, <1>4, ManagerMoves

\* The manager that begins to serve takes the sockets.
LEMMA ListenStep == ASSUME Inv, NEW r \in Routines, Listen(r) PROVE Inv'
<1> USE DEF Inv, Base, Types
<1>1. st[r] = "listen" /\ r # 0 /\ r \in Managers
  BY RoutineRange DEF Listen, Started
<1>2. RoutineFrame /\ UNCHANGED <<inited, sweep, errs, vfs>>
  BY DEF Listen
<1>3. BudgetTypes'
  BY FaultTypes, SameBudget DEF Listen
<1>4. vfs' \in [Dpus -> Counts]
  BY <1>2 DEF WorldTypes
<1>5. CASE Move(r, "send") /\ UNCHANGED <<sock, served>>
  BY <1>1, <1>2, <1>3, <1>4, <1>5, ManagerMoves DEF RoutineTypes
<1>6. CASE Move(r, "serve") /\ sock' = r /\ served' = served \cup {r}
  <2>1. UNCHANGED <<loop, closing, started, rdpu, stop, abandoned>>
    BY <1>2 DEF RoutineFrame
  <2>2. /\ st'[r] = "serve"
        /\ \A q \in Routines : q # r => st'[q] = st[q]
    BY <1>6 DEF Move, RoutineTypes
  <2>3. RoutineTypes'
    BY <1>1, <1>2, <1>6, <2>1 DEF RoutineTypes, Move
  <2>4. Started'
    BY <1>1, <1>2, <2>1, <2>2, RoutineRange, RoutineZero DEF Started, RoutineTypes
  <2>5. Former' /\ Succeeded'
    BY <1>1, <1>2, <2>2, MoveKeeps
  <2>6. QED BY <1>2, <1>3, <1>4, <2>3, <2>4, <2>5, FrameStep
<1>7. QED BY <1>5, <1>6 DEF Listen

LEMMA ServeFailsStep == ASSUME Inv, NEW r \in Routines, ServeFails(r) PROVE Inv'
<1> USE DEF Inv, Base, Types
<1>1. st[r] \in {"serve", "drain"} /\ r # 0
  BY DEF ServeFails
<1>2. /\ RoutineFrame /\ UNCHANGED <<inited, served, sweep, errs, vfs, sock>>
      /\ Move(r, "drain") \/ Move(r, "send")
  BY DEF ServeFails
<1>3. BudgetTypes'
  BY FaultTypes, SameBudget DEF ServeFails
<1>4. vfs' \in [Dpus -> Counts] /\ inited' \in SUBSET Managers
  BY <1>2 DEF WorldTypes, RoutineTypes
<1>5. QED BY <1>1, <1>2, <1>3, <1>4, ManagerMoves

\* A cancelled manager stops serving, with its sockets still to be removed.
LEMMA ServeStoppedStep == ASSUME Inv, NEW r \in Routines, ServeStopped(r) PROVE Inv'
<1> USE DEF Inv, Base, Types
<1>1. /\ st[r] \in {"serve", "drain"} /\ r # 0 /\ r \in Managers
      /\ stop[r] # "no"
  BY RoutineRange DEF ServeStopped
<1>2. /\ RoutineFrame /\ UNCHANGED <<inited, served, errs, vfs, sock, budget>>
      /\ Move(r, "done") /\ sweep' = sweep \cup {r}
  BY DEF ServeStopped
<1>3. UNCHANGED <<loop, closing, started, rdpu, stop, abandoned>>
  BY <1>2 DEF RoutineFrame
<1>4. /\ st'[r] = "done"
      /\ \A q \in Routines : q # r => st'[q] = st[q]
  BY <1>2 DEF Move, RoutineTypes
<1>5. RoutineTypes'
  BY <1>1, <1>2, <1>3 DEF RoutineTypes, Move
<1>6. Started'
  BY <1>1, <1>2, <1>3, <1>4, RoutineRange, RoutineZero DEF Started, RoutineTypes
<1>7. Former' /\ Succeeded'
  BY <1>2, <1>4, MoveKeeps
<1>8. BudgetTypes' /\ vfs' \in [Dpus -> Counts]
  BY <1>2, SameBudget DEF WorldTypes
<1>9. QED BY <1>2, <1>5, <1>6, <1>7, <1>8, FrameStep

LEMMA RemoveSocketsStep == ASSUME Inv, NEW r \in Routines, RemoveSockets(r) PROVE Inv'
<1> USE DEF Inv, Base, Types
<1>1. /\ RoutineFrame /\ UNCHANGED <<st, inited, served, errs, vfs, budget>>
      /\ sweep' = sweep \ {r} /\ sock' = 0
  BY DEF RemoveSockets
<1>2. UNCHANGED <<loop, closing, started, rdpu, stop, abandoned>>
  BY <1>1 DEF RoutineFrame
<1>3. RoutineTypes'
  BY <1>1, <1>2, RoutineZero DEF RoutineTypes
<1>4. Started'
  BY <1>1, <1>2 DEF Started
<1>5. Former' /\ Succeeded'
  BY <1>1, MoveKeeps
<1>6. BudgetTypes' /\ vfs' \in [Dpus -> Counts]
  BY <1>1, SameBudget DEF WorldTypes
<1>7. QED BY <1>1, <1>3, <1>4, <1>5, <1>6, FrameStep

\* The end of a routine that is not to serve any more.
LEMMA RoutineEnds ==
  ASSUME Inv, NEW r \in Routines, NEW s \in {"send", "done"},
         st[r] \in {"serve", "send"}, r = 0 \/ st[r] = "send",
         Move(r, s), RoutineFrame, UNCHANGED <<inited, served, sweep, vfs, sock>>,
         errs' \in 0..ErrCapacity, BudgetTypes'
  PROVE  Inv'
<1> USE DEF Inv, Base, Types
<1>1. r \notin sweep
  BY DEF Started
<1>2. UNCHANGED <<loop, closing, started, rdpu, stop, abandoned>>
  BY DEF RoutineFrame
<1>3. /\ st'[r] = s
      /\ \A q \in Routines : q # r => st'[q] = st[q]
  BY DEF Move, RoutineTypes
<1>4. RoutineTypes'
  BY <1>2 DEF RoutineTypes, Move
<1>5. Started'
  BY <1>1, <1>2, <1>3, RoutineRange, RoutineZero DEF Started, RoutineTypes
<1>6. Former' /\ Succeeded'
  BY <1>3, MoveKeeps
<1>7. vfs' \in [Dpus -> Counts]
  BY DEF WorldTypes
<1>8. QED BY <1>4, <1>5, <1>6, <1>7, FrameStep

LEMMA ReadinessServerStep == ASSUME Inv, ReadinessServer PROVE Inv'
<1> USE DEF Inv, Base, Types
<1>1. BudgetTypes'
  BY FaultTypes, SameBudget DEF ReadinessServer
<1>2. errs' \in 0..ErrCapacity
  BY DEF ReadinessServer, RoutineTypes
<1>3. QED BY <1>1, <1>2, RoutineZero, RoutineEnds DEF ReadinessServer

LEMMA SendErrStep == ASSUME Inv, NEW r \in Routines, SendErr(r) PROVE Inv'
<1> USE DEF Inv, Base, Types
<1>1. BudgetTypes'
  BY SameBudget DEF SendErr
<1>2. errs' \in 0..ErrCapacity
  BY ConstantsAssumption DEF SendErr, RoutineTypes
<1>3. QED BY <1>1, <1>2, RoutineEnds DEF SendErr

(***************************************************************************)
(* The environment.                                                        *)
(***************************************************************************)
\* Nothing changes in the process.
LEMMA ProcessSame ==
  ASSUME Inv, UNCHANGED process, WorldTypes', BudgetTypes', UNCHANGED cr
  PROVE  Inv'
<1> USE DEF Inv, Base, Types
<1>1. LoopTypes'
  BY DEF LoopTypes, process, loop, syncing
<1>2. Closing' /\ Visits' /\ Conditioned' /\ Staffed'
  BY DEF Closing, Visits, Conditioned, Staffed, process, loop
<1>3. Synced'
  BY DEF Synced, process, loop, syncing
<1>4. UNCHANGED <<managed, mgr, closing, routines, sock>>
  BY DEF process, loop
<1>5. QED BY <1>1, <1>2, <1>3, <1>4, SameRoutines

LEMMA FlapStep == ASSUME Inv, NEW d \in Dpus, Flap(d) PROVE Inv'
<1>1. WorldTypes'
  BY DEF Flap, Inv, Base, Types, WorldTypes, cluster
<1>2. BudgetTypes'
  BY DEF Flap, Inv, Base, Types, BudgetTypes
<1>3. QED BY <1>1, <1>2, ProcessSame DEF Flap, cluster

LEMMA AnnotateStep ==
  ASSUME Inv, NEW d \in Dpus, NEW S \in SUBSET VfCounts, Annotate(d, S) PROVE Inv'
<1>1. WorldTypes'
  BY DEF Annotate, Inv, Base, Types, WorldTypes
<1>2. BudgetTypes'
  BY DEF Annotate, Outside, Inv, Base, Types, BudgetTypes
<1>3. QED BY <1>1, <1>2, ProcessSame DEF Annotate

LEMMA DeleteCrStep == ASSUME Inv, NEW d \in Dpus, DeleteCr(d) PROVE Inv'
<1> USE DEF Inv, Base, Types
<1>1. /\ missed' = missed \cup {d}
      /\ UNCHANGED <<phase, loop, todo, listed, changed, closing, ready, routines,
                     sock, present, vfs, label, flaps, faults>>
  BY DEF DeleteCr
<1>2. WorldTypes'
  BY DEF DeleteCr, WorldTypes
<1>3. BudgetTypes'
  BY DEF DeleteCr, Outside, BudgetTypes
<1>4. LoopTypes'
  BY <1>1 DEF LoopTypes, loop
<1>5. Closing' /\ Visits' /\ Conditioned' /\ Staffed'
  BY <1>1 DEF Closing, Visits, Conditioned, Staffed, loop
<1>6. Synced'
  <2>1. \A e \in Dpus : e # d => cr'[e] = cr[e]
    BY DEF DeleteCr, WorldTypes
  <2>2. QED BY <1>1, <2>1 DEF Synced, loop, LoopTypes
<1>7. UNCHANGED <<managed, mgr, closing, routines, sock>>
  BY <1>1 DEF loop
<1>8. QED BY <1>2, <1>3, <1>4, <1>5, <1>6, <1>7, SameRoutines

LEMMA KillStep == ASSUME Inv, Kill PROVE Inv'
<1>1. BudgetTypes'
  BY DEF Kill, Outside, Inv, Base, Types, BudgetTypes
<1>2. QED BY <1>1, ExitInv DEF Kill

LEMMA RestartStep == ASSUME Inv, Restart PROVE Inv'
<1> USE DEF Inv, Base, Types
<1>1. LoopTypes'
  BY DEF LoopTypes, Restart, loop, syncing, Phases
<1>2. WorldTypes' /\ BudgetTypes'
  BY SameWorld, SameBudget DEF Restart
<1>3. Closing' /\ Visits' /\ Conditioned' /\ Synced' /\ Staffed'
  BY DEF Closing, Visits, Conditioned, Synced, Staffed, Restart, loop
<1>4. UNCHANGED <<managed, mgr, closing, routines, sock>>
  BY DEF Restart, loop
<1>5. QED BY <1>1, <1>2, <1>3, <1>4, SameRoutines

LEMMA StutterStep == ASSUME Inv, UNCHANGED vars PROVE Inv'
<1>1. WorldTypes' /\ BudgetTypes'
  BY DEF Inv, Base, Types, WorldTypes, BudgetTypes, vars
<1>2. UNCHANGED process /\ UNCHANGED cr
  BY DEF vars, process, loop, syncing, routines
<1>3. QED BY <1>1, <1>2, ProcessSame

(***************************************************************************)
(* The theorems.                                                           *)
(***************************************************************************)
LEMMA InitInv == ASSUME Init PROVE Inv
<1>1. LoopTypes
  BY RoutineZero DEF Init, LoopTypes, Counts, Phases
<1>2. RoutineTypes
  BY RoutineZero, ConstantsAssumption DEF Init, RoutineTypes
<1>3. WorldTypes /\ BudgetTypes
  BY DEF Init, WorldTypes, BudgetTypes, Counts
<1>4. Closing /\ Visits /\ Conditioned /\ Linked /\ Staffed
  BY DEF Init, Closing, Visits, Conditioned, Linked, Staffed
<1>5. Started
  BY RoutineZero, RoutineRange DEF Init, Started
<1>6. \A r \in 1..started : FALSE
  BY DEF Init
<1>7. Assigned /\ Former /\ Succeeded
  BY <1>6 DEF Assigned, Former, Succeeded
<1>8. Synced
  BY DEF Init, Synced
<1>9. QED BY <1>1, <1>2, <1>3, <1>4, <1>5, <1>7, <1>8 DEF Inv, Base, Types

LEMMA NextInv == ASSUME Inv, [Next]_vars PROVE Inv'
<1>1. ASSUME MainStep PROVE Inv'
  BY <1>1, TickStep, SetConditionsStep, SyncListStep, SyncOrphansStep, EndSyncStep,
     UpdateNodeLabelsStep, MarkReadyStep, RoutinesStoppedStep, RemoveStep,
     RemovedStep, ManageStep, SyncSingleStep, DeleteOrphanStep, ApplyDesiredStep
  DEF MainStep
<1>2. ASSUME Environment PROVE Inv'
  BY <1>2, KillStep, FlapStep, DeleteCrStep, AnnotateStep DEF Environment
<1>3. ASSUME NEW r \in Routines,
             RoutineStep(r) \/ StartVsp(r) \/ NilClient(r) \/ ServeFails(r)
      PROVE  Inv'
  BY <1>3, SetupDevicesStep, ListenStep, ServeStoppedStep, RemoveSocketsStep,
     SendErrStep, StartVspStep, NilClientStep, ServeFailsStep DEF RoutineStep
<1>4. QED
  BY <1>1, <1>2, <1>3, ShutdownStep, RestartStep, ReadinessServerStep, StutterStep
  DEF Next

LEMMA InvHolds == Spec => []Inv
<1>1. Init => Inv
  BY InitInv
<1>2. Inv /\ [Next]_vars => Inv'
  BY NextInv
<1>3. QED BY <1>1, <1>2, PTL DEF Spec

\* Every variable of the daemon keeps its type, a manager of a managed DPU works
\* for that DPU, and a shutdown goes on without managed DPUs.
THEOREM TypeCorrect == Spec => []TypeOK
<1>1. Inv => TypeOK
  BY TypesAreTypes DEF Inv, Base
<1>2. QED BY <1>1, InvHolds, PTL

\* Two side managers work for the same DPU only if the older one was cancelled,
\* had its plugin closed and was given up after 5 seconds, whatever comes and
\* goes, fails or is restarted.
THEOREM ManagersExclude == Spec => []OneManagerPerDpu
<1>1. Inv => OneManagerPerDpu
  BY DEF Inv, Succeeded, Dismissed, OneManagerPerDpu
<1>2. QED BY <1>1, InvHolds, PTL

\* The steps that do not touch what is at the socket paths: all but Listen,
\* RemoveSockets and the end of the process.
LEMMA SocketsSame ==
  ASSUME [Next]_vars, phase' # "exited",
         \A r \in Routines : ~Listen(r) /\ ~RemoveSockets(r)
  PROVE  UNCHANGED sock
<1>1. ~Exit
  BY DEF Exit
<1>2. ASSUME MainStep PROVE UNCHANGED sock
  <2>1. CASE Tick \/ SyncList \/ UpdateNodeLabels \/ RoutinesStopped
    BY <1>1, <2>1 DEF Tick, SyncList, UpdateNodeLabels, RoutinesStopped
  <2>2. CASE SetConditions \/ SyncOrphans \/ EndSync \/ MarkReady
    BY <2>2 DEF SetConditions, SyncOrphans, EndSync, MarkReady
  <2>3. \A d \in Dpus : Remove(d) \/ Removed(d) \/ Manage(d) => UNCHANGED sock
    BY <1>1 DEF Remove, Removed, Forget, Manage
  <2>4. \A d \in Dpus :
          SyncSingleDpuCR(d) \/ DeleteOrphan(d) \/ ApplyDesiredVfCount(d)
            => UNCHANGED sock
    BY DEF SyncSingleDpuCR, DeleteOrphan, ApplyDesiredVfCount
  <2>5. QED BY <1>2, <2>1, <2>2, <2>3, <2>4 DEF MainStep
<1>3. ASSUME NEW r \in Routines,
             RoutineStep(r) \/ StartVsp(r) \/ NilClient(r) \/ ServeFails(r)
      PROVE  UNCHANGED sock
  <2>1. SetupDevices(r) \/ ServeStopped(r) \/ SendErr(r) => UNCHANGED sock
    BY DEF SetupDevices, ServeStopped, SendErr
  <2>2. StartVsp(r) \/ NilClient(r) \/ ServeFails(r) => UNCHANGED sock
    BY <1>1 DEF StartVsp, NilClient, ServeFails
  <2>3. QED BY <1>3, <2>1, <2>2 DEF RoutineStep
<1>4. ASSUME Environment PROVE UNCHANGED sock
  <2>1. ~Kill
    BY <1>1 DEF Kill
  <2>2. \A d \in Dpus : Flap(d) \/ DeleteCr(d) => UNCHANGED sock
    BY DEF Flap, DeleteCr, process
  <2>3. \A d \in Dpus, S \in SUBSET VfCounts : Annotate(d, S) => UNCHANGED sock
    BY DEF Annotate, process
  <2>4. QED BY <1>4, <2>1, <2>2, <2>3 DEF Environment
<1>5. Shutdown \/ Restart \/ ReadinessServer => UNCHANGED sock
  BY DEF Shutdown, Restart, ReadinessServer
<1>6. UNCHANGED vars => UNCHANGED sock
  BY DEF vars
<1>7. QED BY <1>2, <1>3, <1>4, <1>5, <1>6 DEF Next

\* A side manager that serves and was not cancelled loses its sockets only to
\* what a cancelled manager left behind, or to the manager of another DPU: two
\* managers of one DPU that are not cancelled do not exist.
THEOREM SocketsStayWithServing == Spec => SocketsLeadToServing
<1> DEFINE Lost(r) == \/ /\ sock' = 0
                         /\ \E q \in sweep \ sweep' : q # r /\ stop[q] # "no"
                      \/ /\ sock' # 0
                         /\ stop[sock'] # "no" \/ rdpu[sock'] # rdpu[r]
<1>1. ASSUME Inv, [Next]_vars, NEW r \in Managers,
             sock = r, st[r] = "serve", stop[r] = "no",
             sock' # r, phase' # "exited"
      PROVE  Lost(r)
  <2> USE DEF Inv, Base, Types
  <2>1. PICK q \in Routines : Listen(q) \/ RemoveSockets(q)
    BY <1>1, SocketsSame
  <2>2. CASE RemoveSockets(q)
    <3>1. q \in sweep \ sweep' /\ sock' = 0
      BY <2>2 DEF RemoveSockets
    <3>2. st[q] = "done" /\ stop[q] # "no"
      BY <3>1, <1>1 DEF Started
    <3>3. QED BY <3>1, <3>2, <1>1
  <2>3. CASE Listen(q)
    <3>1. sock' = q /\ st[q] = "listen" /\ q # r
      BY <2>3, <1>1 DEF Listen
    <3>2. q # 0 /\ q \in Managers
      BY <3>1, <1>1, RoutineRange DEF Started
    <3>3. q \in 1..started /\ r \in 1..started
      BY <3>1, <3>2, <1>1, RoutineZero DEF Started, RoutineTypes, Managers, Routines
    <3>4. rdpu[q] = rdpu[r] => stop[q] # "no"
      BY <3>1, <3>3, <1>1, StartedRange DEF Succeeded, Dismissed
    <3>5. QED BY <3>1, <3>2, <3>4
  <2>4. QED BY <2>1, <2>2, <2>3
<1>2. Inv /\ [Next]_vars =>
        [\A r \in Managers :
           /\ sock = r /\ st[r] = "serve" /\ stop[r] = "no"
           /\ sock' # r /\ phase' # "exited"
           => Lost(r)]_vars
  BY <1>1
<1>3. QED BY <1>2, InvHolds, PTL DEF Spec, SocketsLeadToServing

\* The daemon reports ready only in a state in which the CR of every managed DPU
\* is as the daemon has it, but for those whose sync has just failed and those
\* that others have deleted since it began.
THEOREM ReadyIsSynced == Spec => ReadyMeansSynced
<1>1. ASSUME Inv, [Next]_vars, ~ready, ready'
      PROVE  \A d \in managed \ missed : cr[d] = cond[d]
  <2>1. CASE MarkReady
    BY <1>1, <2>1 DEF MarkReady, Inv, Synced
  <2>2. CASE ~MarkReady
    <3>1. ~Exit
      BY <1>1 DEF Exit, FreshLoop
    <3>2. UNCHANGED ready => FALSE
      BY <1>1
    <3>3. RoutineFrame \/ UNCHANGED process \/ UNCHANGED vars => UNCHANGED ready
      BY DEF RoutineFrame, process, vars
    <3>4. ASSUME MainStep PROVE FALSE
      <4>1. ~Tick /\ ~SyncList /\ ~UpdateNodeLabels /\ ~RoutinesStopped
        BY <3>1, <3>2 DEF Tick, SyncList, UpdateNodeLabels, RoutinesStopped
      <4>2. ~SetConditions /\ ~SyncOrphans /\ ~EndSync
        BY <3>2 DEF SetConditions, SyncOrphans, EndSync
      <4>3. \A d \in Dpus : ~Remove(d) /\ ~Removed(d) /\ ~Manage(d)
        BY <3>1, <3>2 DEF Remove, Removed, Forget, Manage
      <4>4. \A d \in Dpus : /\ ~SyncSingleDpuCR(d) /\ ~DeleteOrphan(d)
                            /\ ~ApplyDesiredVfCount(d)
        BY <3>2 DEF SyncSingleDpuCR, DeleteOrphan, ApplyDesiredVfCount
      <4>5. QED BY <2>2, <3>4, <4>1, <4>2, <4>3, <4>4 DEF MainStep
    <3>5. ~Shutdown /\ ~Restart
      BY <3>2 DEF Shutdown, Restart
    <3>6. ~ReadinessServer /\ ~Environment
      <4>1. ~ReadinessServer /\ ~Kill
        BY <3>1, <3>2, <3>3 DEF ReadinessServer, Kill
      <4>2. \A d \in Dpus : ~Flap(d) /\ ~DeleteCr(d)
        BY <3>2, <3>3 DEF Flap, DeleteCr
      <4>3. \A d \in Dpus, S \in SUBSET VfCounts : ~Annotate(d, S)
        BY <3>2, <3>3 DEF Annotate
      <4>4. QED BY <4>1, <4>2, <4>3 DEF Environment
    <3>7. ASSUME NEW r \in Routines,
                 RoutineStep(r) \/ StartVsp(r) \/ NilClient(r) \/ ServeFails(r)
          PROVE  FALSE
      <4>1. ~SetupDevices(r) /\ ~Listen(r) /\ ~ServeStopped(r)
        BY <3>2, <3>3 DEF SetupDevices, Listen, ServeStopped
      <4>2. ~RemoveSockets(r) /\ ~SendErr(r)
        BY <3>2, <3>3 DEF RemoveSockets, SendErr
      <4>3. ~StartVsp(r) /\ ~NilClient(r) /\ ~ServeFails(r)
        BY <3>1, <3>2, <3>3 DEF StartVsp, NilClient, ServeFails
      <4>4. QED BY <3>7, <4>1, <4>2, <4>3 DEF RoutineStep
    <3>8. QED BY <1>1, <3>2, <3>3, <3>4, <3>5, <3>6, <3>7 DEF Next
  <2>3. QED BY <2>1, <2>2
<1>2. Inv /\ [Next]_vars =>
        [~ready /\ ready' => \A d \in managed \ missed : cr[d] = cond[d]]_vars
  BY <1>1
<1>3. QED BY <1>2, InvHolds, PTL DEF Spec, ReadyMeansSynced
=============================================================================
