-------------------------------- MODULE Daemon --------------------------------
(***************************************************************************)
(* The daemon process of a node (internal/daemon/daemon.go): the main loop *)
(* that detects DPUs once a second, keeps one side manager per DPU in a    *)
(* goroutine of its own, mirrors the managed DPUs to DataProcessingUnit    *)
(* CRs, labels the node, applies VF count overrides and reports readiness; *)
(* the goroutines of the side managers with the error channel they share;  *)
(* shutdown, death and restart of the process.                             *)
(*                                                                         *)
(* A routine is a goroutine that Serve waits for: routine 0 is the         *)
(* readiness server, the others are side managers in the order of their    *)
(* creation.  One tick of the main loop is a sequence of steps, and the    *)
(* routines, the API server's other clients and the hardware take theirs   *)
(* in between.                                                             *)
(***************************************************************************)
EXTENDS Naturals, FiniteSets

CONSTANTS
  Dpus,          \* identifiers of the DPUs that the node may show
  HostDpus,      \* the ones for which this node is the host side
  None,          \* no DPU
  SetupVfCount,  \* number of VFs that SetupDevices asks for
  VfCounts,      \* VF counts that a DataProcessingUnitConfig may ask for
  ErrCapacity,   \* capacity of errChan
  MaxRoutines,   \* bound on side managers started by one process
  MaxFlaps,      \* bound on DPUs that come or go
  MaxFaults,     \* bound on failures of VSP calls, sockets, servers and calls
                 \* to the API server
  MaxOutside     \* bound on changes to CRs by other clients and on sudden
                 \* deaths of the process

ASSUME ConstantsAssumption ==
  /\ HostDpus \subseteq Dpus
  /\ None \notin Dpus
  /\ SetupVfCount \in Nat \ {0}
  /\ VfCounts \subseteq Nat \ {0}
  /\ ErrCapacity \in Nat
  /\ {MaxRoutines, MaxFlaps, MaxFaults, MaxOutside} \subseteq Nat

VARIABLES
  \* the main loop
  phase,     \* where Serve is
  managed,   \* keys of managedDpus
  mgr,       \* Manager of a managed DPU: its routine, 0 for nil
  cond,      \* Ready condition in the DpuCR of a managed DPU
  applied,   \* AppliedVfCount of a managed DPU, 0 for nil
  todo,      \* DPUs that the loop in progress has still to visit
  listed,    \* existingCRMap of SyncDpuCRs
  changed,   \* result of SyncDpuCRs
  missed,    \* DPUs without an up-to-date CR since that call began: its own
             \* failures, and CRs that others deleted (history)
  closing,   \* shutdown was called
  ready,     \* isReady
  \* the routines
  started,   \* side managers started so far
  st,        \* progress of a routine
  rdpu,      \* DPU of a side manager
  stop,      \* whether its context is cancelled, and its plugin closed
  inited,    \* routines whose plugin has initDone set
  served,    \* routines that have reached Serve
  sweep,     \* routines whose shutdown goroutine has sockets to remove
  abandoned, \* routines given up after 5 s, before they were done (history)
  errs,      \* errors in errChan
  \* the world outside the process
  present,   \* DPUs that detection finds
  cr,        \* Ready condition of the CR of a DPU
  want,      \* VF counts in the annotations of that CR
  vfs,       \* number of VFs of a DPU
  sock,      \* routine that the CNI and device plugin sockets lead to
  label,     \* value of the node's dpuside label
  flaps, faults, outside

loop     == <<managed, mgr, cond, applied>>
syncing  == <<listed, changed, missed>>
routines == <<started, st, rdpu, stop, inited, served, sweep, abandoned, errs>>
cluster  == <<cr, want, label>>
process  == <<phase, loop, todo, syncing, closing, ready, routines, sock>>
budget   == <<flaps, faults, outside>>
vars     == <<phase, managed, mgr, cond, applied, todo, listed, changed,
              missed, closing, ready, started, st, rdpu, stop, inited, served,
              sweep, abandoned, errs, present, cr, want, vfs, sock, label,
              flaps, faults, outside>>

Routines   == 0..MaxRoutines
Managers   == 1..MaxRoutines
Conditions == {"NotInitialized", "PingFailed", "Initialized"}
Phases     == {"select", "remove", "removeWait", "manage", "list", "sync",
               "orphans", "labels", "vfs", "wait", "exited"}
Counts     == {0, SetupVfCount} \cup VfCounts

(***************************************************************************)
(* Types.                                                                  *)
(***************************************************************************)
\* Every variable holds a value of its kind, errChan holds no more than its
\* capacity, a managed DPU's manager is a routine that works for it, and the
\* shutdown of the process goes on without any managed DPU.
TypeOK ==
  /\ phase \in Phases
  /\ managed \in SUBSET Dpus
  /\ mgr \in [Dpus -> Routines]
  /\ cond \in [Dpus -> Conditions \cup {"none"}]
  /\ applied \in [Dpus -> Counts]
  /\ todo \in SUBSET Dpus
  /\ listed \in SUBSET Dpus /\ missed \in SUBSET Dpus
  /\ changed \in BOOLEAN /\ closing \in BOOLEAN /\ ready \in BOOLEAN
  /\ started \in Routines
  /\ st \in [Routines -> {"none", "vsp", "setup", "listen", "serve", "drain",
                          "send", "done"}]
  /\ rdpu \in [Routines -> Dpus \cup {None}]
  /\ stop \in [Routines -> {"no", "cancelled", "closed"}]
  /\ inited \in SUBSET Managers /\ served \in SUBSET Managers
  /\ sweep \in SUBSET Managers /\ abandoned \in SUBSET Managers
  /\ errs \in 0..ErrCapacity
  /\ present \in SUBSET Dpus
  /\ cr \in [Dpus -> Conditions \cup {"absent", "blank"}]
  /\ want \in [Dpus -> SUBSET VfCounts]
  /\ vfs \in [Dpus -> Counts]
  /\ sock \in Routines
  /\ label \in {"absent", "dpu", "dpu-host"}
  /\ {flaps, faults, outside} \subseteq Nat
  /\ \A d \in managed : mgr[d] # 0 => rdpu[mgr[d]] = d
  /\ closing => managed = {} /\ phase \in {"list", "sync", "orphans", "wait"}

\* A process that has just entered Serve.
FreshLoop ==
  /\ managed' = {}
  /\ mgr' = [d \in Dpus |-> 0]
  /\ cond' = [d \in Dpus |-> "none"]
  /\ applied' = [d \in Dpus |-> 0]
  /\ todo' = {} /\ listed' = {} /\ missed' = {}
  /\ changed' = FALSE /\ closing' = FALSE /\ ready' = FALSE

FreshRoutines ==
  /\ started' = 0
  /\ st' = [r \in Routines |-> IF r = 0 THEN "serve" ELSE "none"]
  /\ rdpu' = [r \in Routines |-> None]
  /\ stop' = [r \in Routines |-> "no"]
  /\ inited' = {} /\ served' = {} /\ sweep' = {} /\ abandoned' = {}
  /\ errs' = 0
  /\ sock' = 0

Init ==
  /\ phase = "select"
  /\ managed = {}
  /\ mgr = [d \in Dpus |-> 0]
  /\ cond = [d \in Dpus |-> "none"]
  /\ applied = [d \in Dpus |-> 0]
  /\ todo = {} /\ listed = {} /\ missed = {}
  /\ changed = FALSE /\ closing = FALSE /\ ready = FALSE
  /\ started = 0
  /\ st = [r \in Routines |-> IF r = 0 THEN "serve" ELSE "none"]
  /\ rdpu = [r \in Routines |-> None]
  /\ stop = [r \in Routines |-> "no"]
  /\ inited = {} /\ served = {} /\ sweep = {} /\ abandoned = {}
  /\ errs = 0
  /\ present \in SUBSET Dpus
  /\ cr = [d \in Dpus |-> "absent"]
  /\ want = [d \in Dpus |-> {}]
  /\ vfs = [d \in Dpus |-> 0]
  /\ sock = 0
  /\ label = "absent"
  /\ flaps = 0 /\ faults = 0 /\ outside = 0

(***************************************************************************)
(* Helpers.                                                                *)
(***************************************************************************)
\* A step that meets a failure, and a call to the API server.
Fault ==
  /\ faults < MaxFaults
  /\ faults' = faults + 1
  /\ UNCHANGED <<flaps, outside>>

Api(ok) == IF ok THEN UNCHANGED budget ELSE Fault

\* The process ends: main calls os.Exit(1), or nothing runs any more.
Exit ==
  /\ phase' = "exited"
  /\ FreshLoop
  /\ FreshRoutines

Move(r, s) == st' = [st EXCEPT ![r] = s]

Exists(d) == cr[d] # "absent"

(***************************************************************************)
(* Serve: one tick.                                                        *)
(***************************************************************************)
\* DetectAll, and the part of updateManagedDpus that adds new entries.  An
\* error ends Serve without a shutdown.
Tick ==
  /\ phase = "select"
  /\ \/ /\ phase' = "remove"
        /\ managed' = managed \cup present
        /\ todo' = managed \ present
        /\ UNCHANGED <<mgr, cond, applied, syncing, closing, ready, routines,
                       sock, budget>>
     \/ Fault /\ Exit
  /\ UNCHANGED <<present, cluster, vfs>>

\* A DPU is no longer detected: cancel its manager and close its plugin.
Remove(d) ==
  /\ phase = "remove"
  /\ d \in todo
  /\ stop' = [stop EXCEPT ![mgr[d]] = "closed"]
  /\ phase' = "removeWait"
  /\ UNCHANGED <<loop, todo, syncing, closing, ready, started, st, rdpu,
                 inited, served, sweep, abandoned, errs, present, cluster,
                 vfs, sock, budget>>

\* The entry of a DPU goes.
Forget(d) ==
  /\ phase = "removeWait"
  /\ d \in todo
  /\ stop[mgr[d]] = "closed"
  /\ managed' = managed \ {d}
  /\ mgr' = [mgr EXCEPT ![d] = 0]
  /\ cond' = [cond EXCEPT ![d] = "none"]
  /\ applied' = [applied EXCEPT ![d] = 0]
  /\ todo' = todo \ {d}
  /\ phase' = "remove"
  /\ UNCHANGED <<syncing, closing, ready, started, st, rdpu, stop, inited,
                 served, sweep, errs, present, cluster, vfs, sock, budget>>

\* Faulty variant: the entry goes without waiting for the manager.
RemovedAtOnce(d) == Forget(d) /\ UNCHANGED abandoned

\* The manager's Done channel is closed, or 5 seconds have passed.
Removed(d) ==
  /\ Forget(d)
  /\ \/ st[mgr[d]] = "done" /\ UNCHANGED abandoned
     \/ st[mgr[d]] # "done" /\ abandoned' = abandoned \cup {mgr[d]}

\* Faulty variant: a DPU that has a manager gets another one.
ManageAgain(d) ==
  /\ phase \in {"remove", "manage"}
  /\ phase = "remove" => todo = {}
  /\ d \in managed
  /\ started < MaxRoutines
  /\ started' = started + 1
  /\ mgr' = [mgr EXCEPT ![d] = started + 1]
  /\ rdpu' = [rdpu EXCEPT ![started + 1] = d]
  /\ Move(started + 1, "vsp")
  /\ phase' = "manage"
  /\ UNCHANGED <<managed, cond, applied, todo, syncing, closing, ready, stop,
                 inited, served, sweep, abandoned, errs, sock, budget,
                 present, cluster, vfs>>

\* createSideManager for an entry that has none, and its goroutine.
Manage(d) ==
  /\ phase \in {"remove", "manage"}
  /\ phase = "remove" => todo = {}
  /\ d \in managed
  /\ mgr[d] = 0
  /\ \/ /\ started < MaxRoutines
        /\ started' = started + 1
        /\ mgr' = [mgr EXCEPT ![d] = started + 1]
        /\ rdpu' = [rdpu EXCEPT ![started + 1] = d]
        /\ Move(started + 1, "vsp")
        /\ phase' = "manage"
        /\ UNCHANGED <<managed, cond, applied, todo, syncing, closing, ready,
                       stop, inited, served, sweep, abandoned, errs, sock,
                       budget>>
     \/ Fault /\ Exit
  /\ UNCHANGED <<present, cluster, vfs>>

\* The Ready condition of every managed DPU, from initDone and CheckPing.
SetConditions ==
  /\ phase \in {"remove", "manage"}
  /\ phase = "remove" => todo = {}
  /\ \A d \in managed : mgr[d] # 0
  /\ \E pinged \in SUBSET {d \in managed : mgr[d] \in served} :
       cond' = [d \in Dpus |->
                  IF d \notin managed THEN "none"
                  ELSE IF mgr[d] \notin inited THEN "NotInitialized"
                  ELSE IF d \in pinged THEN "Initialized" ELSE "PingFailed"]
  /\ phase' = "list"
  /\ UNCHANGED <<managed, mgr, applied, todo, syncing, closing, ready,
                 routines, present, cluster, vfs, sock, budget>>

(***************************************************************************)
(* SyncDpuCRs, called by every tick and by shutdown.                       *)
(***************************************************************************)
\* Faulty variant: shutdown waits for the routines without cancelling them.
AfterSyncWaits == phase' = (IF closing THEN "wait" ELSE "labels")
                  /\ UNCHANGED stop

\* What follows SyncDpuCRs: shutdown cancels all routines.
AfterSync ==
  IF closing
    THEN /\ phase' = "wait"
         /\ stop' = [r \in Routines |-> IF stop[r] = "no" THEN "cancelled"
                                                         ELSE stop[r]]
    ELSE phase' = "labels" /\ UNCHANGED stop

\* List the CRs of this node.  A failure ends a tick, but not a shutdown.
SyncList ==
  /\ phase = "list"
  /\ \/ /\ Api(TRUE)
        /\ listed' = {d \in Dpus : Exists(d)}
        /\ changed' = FALSE
        /\ missed' = {}
        /\ todo' = managed
        /\ phase' = "sync"
        /\ UNCHANGED <<loop, closing, ready, routines, sock>>
     \/ /\ Api(FALSE)
        /\ ~closing
        /\ Exit
     \/ /\ Api(FALSE)
        /\ closing
        /\ AfterSync
        /\ UNCHANGED <<loop, todo, syncing, closing, ready, started, st, rdpu,
                       inited, served, sweep, abandoned, errs, sock>>
  /\ UNCHANGED <<present, cluster, vfs>>

\* Faulty variant: a CR that is not found is left to somebody else.
SyncSingleUpdatesOnly(d) ==
  /\ phase = "sync"
  /\ d \in todo
  /\ todo' = todo \ {d}
  /\ Api(TRUE)
  /\ cr' = IF Exists(d) THEN [cr EXCEPT ![d] = cond[d]] ELSE cr
  /\ changed' = (changed \/ (Exists(d) /\ cr[d] # cond[d]))
  /\ UNCHANGED <<phase, loop, listed, missed, closing, ready, routines, present, want,
                 label, vfs, sock>>

\* syncSingleDpuCR.  Its errors are logged and count as no change; a CR whose
\* status update fails after the create stays blank.
SyncSingleDpuCR(d) ==
  /\ phase = "sync"
  /\ d \in todo
  /\ todo' = todo \ {d}
  /\ \/ /\ Api(TRUE)
        /\ cr' = [cr EXCEPT ![d] = cond[d]]
        /\ changed' = (changed \/ cr[d] # cond[d])
        /\ UNCHANGED missed
     \/ /\ Api(FALSE)
        /\ missed' = missed \cup {d}
        /\ \/ UNCHANGED cr
           \/ ~Exists(d) /\ cr' = [cr EXCEPT ![d] = "blank"]
        /\ UNCHANGED changed
  /\ UNCHANGED <<phase, loop, listed, closing, ready, routines, present, want,
                 label, vfs, sock>>

\* Faulty variant: only shutdown removes CRs.
SyncOrphansAtShutdown ==
  /\ phase = "sync"
  /\ todo = {}
  /\ todo' = IF closing THEN listed ELSE {}
  /\ phase' = "orphans"
  /\ UNCHANGED <<loop, syncing, closing, ready, routines, present, cluster,
                 vfs, sock, budget>>

\* Then the CRs that were listed and have no managed DPU.
SyncOrphans ==
  /\ phase = "sync"
  /\ todo = {}
  /\ todo' = listed \ managed
  /\ phase' = "orphans"
  /\ UNCHANGED <<loop, syncing, closing, ready, routines, present, cluster,
                 vfs, sock, budget>>

\* Deleting one that is gone already is an error too.
DeleteOrphan(d) ==
  /\ phase = "orphans"
  /\ d \in todo
  /\ todo' = todo \ {d}
  /\ \/ /\ Api(TRUE)
        /\ cr' = [cr EXCEPT ![d] = "absent"]
        /\ want' = [want EXCEPT ![d] = {}]
        /\ changed' = (changed \/ Exists(d))
     \/ /\ Api(FALSE)
        /\ UNCHANGED <<cr, want, changed>>
  /\ UNCHANGED <<phase, loop, listed, missed, closing, ready, routines,
                 present, label, vfs, sock>>

EndSync ==
  /\ phase = "orphans"
  /\ todo = {}
  /\ AfterSync
  /\ UNCHANGED <<loop, todo, syncing, closing, ready, started, st, rdpu,
                 inited, served, sweep, abandoned, errs, present, cluster,
                 vfs, sock, budget>>

(***************************************************************************)
(* The end of a tick.                                                      *)
(***************************************************************************)
\* The label comes from any one managed DPU.
LabelFor(S) ==
  IF S = {} THEN {"absent"}
  ELSE {IF d \in HostDpus THEN "dpu-host" ELSE "dpu" : d \in S}

UpdateNodeLabels ==
  /\ phase = "labels"
  /\ \/ /\ Api(TRUE)
        /\ label' \in LabelFor(managed)
        /\ todo' = managed \cap HostDpus
        /\ phase' = "vfs"
        /\ UNCHANGED <<loop, syncing, closing, ready, routines, sock>>
     \/ /\ Api(FALSE)
        /\ UNCHANGED label
        /\ Exit
  /\ UNCHANGED <<present, cr, want, vfs>>

\* applyDesiredVfCounts for one DPU: a count on which all annotations of its CR
\* agree and that was not applied before.
ApplyDesiredVfCount(d) ==
  /\ phase = "vfs"
  /\ d \in todo
  /\ todo' = todo \ {d}
  /\ \/ \E n \in want[d] :
          /\ Exists(d) /\ want[d] = {n} /\ applied[d] # n
          /\ \/ /\ vfs' = [vfs EXCEPT ![d] = n]
                /\ applied' = [applied EXCEPT ![d] = n]
                /\ UNCHANGED budget
             \/ Fault /\ UNCHANGED <<vfs, applied>>
     \/ /\ ~Exists(d) \/ want[d] = {applied[d]} \/ Cardinality(want[d]) # 1
        /\ UNCHANGED <<vfs, applied, budget>>
     \/ Api(FALSE) /\ UNCHANGED <<vfs, applied>>
  /\ UNCHANGED <<phase, managed, mgr, cond, syncing, closing, ready, routines,
                 present, cluster, sock>>

\* markReady, once SyncDpuCRs reports no change.
MarkReady ==
  /\ phase = "vfs"
  /\ todo = {}
  /\ ready' = (ready \/ ~changed)
  /\ phase' = "select"
  /\ UNCHANGED <<loop, todo, syncing, closing, routines, present, cluster,
                 vfs, sock, budget>>

(***************************************************************************)
(* Serve: a routine failed.  shutdown empties managedDpus, removes the CRs *)
(* with SyncDpuCRs, cancels the routines and waits for all of them.        *)
(***************************************************************************)
\* The error is taken; the context of main never ends, so that the third case
\* of the select is not reached.
Shutdown ==
  /\ phase = "select"
  /\ errs > 0
  /\ errs' = errs - 1
  /\ closing' = TRUE
  /\ managed' = {}
  /\ mgr' = [d \in Dpus |-> 0]
  /\ cond' = [d \in Dpus |-> "none"]
  /\ applied' = [d \in Dpus |-> 0]
  /\ phase' = "list"
  /\ UNCHANGED <<todo, syncing, ready, started, st, rdpu, stop, inited,
                 served, sweep, abandoned, present, cluster, vfs, sock,
                 budget>>

RoutinesStopped ==
  /\ phase = "wait"
  /\ \A r \in 0..started : st[r] = "done"
  /\ Exit
  /\ UNCHANGED <<present, cluster, vfs, budget>>

(***************************************************************************)
(* The goroutine of a side manager: runSideManager, and errChan <- err.    *)
(***************************************************************************)
\* What the steps of a routine leave alone.
RoutineFrame ==
  UNCHANGED <<phase, loop, todo, syncing, closing, ready, started, rdpu, stop,
              abandoned, present, cluster>>

\* StartVsp.  Init is retried until it succeeds or the context is cancelled; a
\* cancelled context is an error like any other.
StartVsp(r) ==
  /\ st[r] = "vsp"
  /\ \/ /\ stop[r] = "no"
        /\ inited' = inited \cup {r}
        /\ \/ Move(r, "setup") /\ UNCHANGED budget
           \/ Move(r, "send") /\ Fault   \* "already initialized"
     \/ /\ stop[r] # "no"
        /\ Move(r, "send")
        /\ UNCHANGED <<inited, budget>>
  /\ RoutineFrame /\ UNCHANGED <<served, sweep, errs, vfs, sock>>

\* Plugin.Close, of the main loop or of a manager's own shutdown goroutine, sets
\* the clients to nil while Start, SetNumVfs, Ping or a call for a pod is about
\* to use one of them: the process panics.
NilClient(r) ==
  /\ phase # "exited"
  /\ \/ st[r] \in {"vsp", "setup"} /\ stop[r] = "closed"
     \/ r # 0 /\ st[r] \in {"serve", "drain"} /\ stop[r] # "no"
  /\ Fault
  /\ Exit
  /\ UNCHANGED <<present, cluster, vfs>>

\* SetupDevices sets the number of VFs.  The DPU side ignores an error.
SetupDevices(r) ==
  /\ st[r] = "setup"
  /\ \/ /\ vfs' = [vfs EXCEPT ![rdpu[r]] = SetupVfCount]
        /\ Move(r, "listen")
        /\ UNCHANGED budget
     \/ /\ Fault
        /\ UNCHANGED vfs
        /\ Move(r, "send") \/ (rdpu[r] \notin HostDpus /\ Move(r, "listen"))
  /\ RoutineFrame /\ UNCHANGED <<inited, served, sweep, errs, sock>>

\* Listen removes whatever is at the socket paths and binds them; Serve starts.
Listen(r) ==
  /\ st[r] = "listen"
  /\ \/ /\ Move(r, "serve")
        /\ sock' = r
        /\ served' = served \cup {r}
        /\ UNCHANGED budget
     \/ Fault /\ Move(r, "send") /\ UNCHANGED <<sock, served>>
  /\ RoutineFrame /\ UNCHANGED <<inited, sweep, errs, vfs>>

\* One of the four goroutines of Serve ends early.  Serve takes its error from
\* the done channel and waits for the other three, which go on until the
\* context is cancelled or they fail themselves.
ServeFails(r) ==
  /\ r # 0
  /\ stop[r] = "no"
  /\ \/ st[r] = "serve" /\ Move(r, "drain") /\ Fault
     \/ st[r] = "drain" /\ Move(r, "send") /\ UNCHANGED budget
  /\ RoutineFrame /\ UNCHANGED <<inited, served, sweep, errs, vfs, sock>>

\* The context of a manager that serves is cancelled: the four goroutines end,
\* and the error is dropped.  Nothing waits for the goroutine that stops the
\* servers: it may still have the socket files to remove.
ServeStopped(r) ==
  /\ r # 0
  /\ st[r] \in {"serve", "drain"}
  /\ stop[r] # "no"
  /\ Move(r, "done")
  /\ sweep' = sweep \cup {r}
  /\ RoutineFrame /\ UNCHANGED <<inited, served, errs, vfs, sock, budget>>

\* dp.Stop and Close of the listeners remove the files at the socket paths,
\* whoever bound them last.
RemoveSockets(r) ==
  /\ r \in sweep
  /\ sweep' = sweep \ {r}
  /\ sock' = 0
  /\ RoutineFrame /\ UNCHANGED <<st, inited, served, errs, vfs, budget>>

\* startReadinessServer fails, or ends because its context is cancelled.
ReadinessServer ==
  /\ st[0] = "serve"
  /\ \/ phase # "exited" /\ Fault /\ Move(0, "send")
     \/ stop[0] # "no" /\ Move(0, "done") /\ UNCHANGED budget
  /\ RoutineFrame /\ UNCHANGED <<inited, served, sweep, errs, vfs, sock>>

\* errChan <- err, then close(done).
SendErr(r) ==
  /\ st[r] = "send"
  /\ errs < ErrCapacity
  /\ errs' = errs + 1
  /\ Move(r, "done")
  /\ RoutineFrame /\ UNCHANGED <<inited, served, sweep, vfs, sock, budget>>

(***************************************************************************)
(* The environment.                                                        *)
(***************************************************************************)
Outside == outside < MaxOutside /\ outside' = outside + 1

\* A DPU appears or disappears (reset, firmware update, hot plug).
Flap(d) ==
  /\ flaps < MaxFlaps
  /\ flaps' = flaps + 1
  /\ present' = IF d \in present THEN present \ {d} ELSE present \cup {d}
  /\ UNCHANGED <<process, cluster, vfs, faults, outside>>

\* The controller of DataProcessingUnitConfigs annotates a CR.
Annotate(d, S) ==
  /\ Outside
  /\ Exists(d)
  /\ want[d] # S
  /\ want' = [want EXCEPT ![d] = S]
  /\ UNCHANGED <<process, present, cr, vfs, label, flaps, faults>>

\* A CR is deleted behind the daemon's back (kubectl, garbage collection).
DeleteCr(d) ==
  /\ Outside
  /\ Exists(d)
  /\ cr' = [cr EXCEPT ![d] = "absent"]
  /\ want' = [want EXCEPT ![d] = {}]
  /\ missed' = missed \cup {d}
  /\ UNCHANGED <<phase, loop, todo, listed, changed, closing, ready, routines,
                 sock, present, vfs, label, flaps, faults>>

\* The process dies: out of memory, or SIGTERM, which it does not handle.
Kill ==
  /\ phase # "exited"
  /\ Outside
  /\ Exit
  /\ UNCHANGED <<present, cluster, vfs, flaps, faults>>

\* kubelet restarts the container: NewDaemon, Prepare, Serve.
Restart ==
  /\ phase = "exited"
  /\ phase' = "select"
  /\ UNCHANGED <<loop, todo, syncing, closing, ready, routines, present,
                 cluster, vfs, sock, budget>>

(***************************************************************************)
(* The specification.                                                      *)
(***************************************************************************)
\* A step of the main loop other than the choice to take an error.
MainStep ==
  \/ Tick \/ SetConditions \/ SyncList \/ SyncOrphans \/ EndSync
  \/ UpdateNodeLabels \/ MarkReady \/ RoutinesStopped
  \/ \E d \in Dpus :
       \/ Remove(d) \/ Removed(d) \/ Manage(d) \/ SyncSingleDpuCR(d)
       \/ DeleteOrphan(d) \/ ApplyDesiredVfCount(d)

\* A step of routine r that is due once it is possible.
RoutineStep(r) ==
  \/ SetupDevices(r) \/ Listen(r) \/ ServeStopped(r)
  \/ RemoveSockets(r) \/ SendErr(r)

Environment ==
  \/ Kill
  \/ \E d \in Dpus :
       Flap(d) \/ DeleteCr(d) \/ \E S \in SUBSET VfCounts : Annotate(d, S)

Next ==
  \/ MainStep \/ Shutdown \/ Restart \/ ReadinessServer \/ Environment
  \/ \E r \in Routines :
       RoutineStep(r) \/ StartVsp(r) \/ NilClient(r) \/ ServeFails(r)

Spec == Init /\ [][Next]_vars

\* The scheduler runs every goroutine, calls return and kubelet restarts the
\* daemon; but a VSP may never come up.  select chooses at random among the
\* ready channels, so an error that stays in errChan is taken in the end.
FairSpec ==
  /\ Spec
  /\ WF_vars(MainStep)
  /\ SF_vars(Shutdown)
  /\ WF_vars(Restart)
  /\ WF_vars(stop[0] # "no" /\ ReadinessServer)
  /\ \A r \in Routines :
       /\ WF_vars(RoutineStep(r))
       /\ WF_vars(stop[r] # "no" /\ StartVsp(r))

(***************************************************************************)
(* Properties.                                                             *)
(***************************************************************************)
\* Two side managers work for the same DPU only if the older one was cancelled,
\* had its plugin closed and was given up by updateManagedDpus after 5 seconds: a
\* DPU that comes back gets a new manager otherwise only when the old one has
\* left runSideManager.
OneManagerPerDpu ==
  \A q, r \in 1..started :
    q < r /\ rdpu[q] = rdpu[r] =>
      \/ st[q] = "done"
      \/ q \in abandoned /\ stop[q] = "closed"

\* The CNI and device plugin sockets of a side manager that serves are lost only
\* to what a cancelled manager left behind (the removal of the socket files by
\* its shutdown goroutine, which nothing waits for, or its late Listen), or to
\* the manager of another DPU, which listens on the same paths.
SocketsLeadToServing ==
  [][\A r \in Managers :
       /\ sock = r /\ st[r] = "serve" /\ stop[r] = "no"
       /\ sock' # r /\ phase' # "exited"
       => \/ /\ sock' = 0
             /\ \E q \in sweep \ sweep' : q # r /\ stop[q] # "no"
          \/ /\ sock' # 0
             /\ stop[sock'] # "no" \/ rdpu[sock'] # rdpu[r]]_vars

\* "Mark daemon as ready only when DPU CRs are fully in sync.  This ensures CRs
\* are queryable before signaling readiness" (the comment before markReady): the
\* CR of every managed DPU is there with the condition that the daemon holds,
\* except for those whose sync has just failed, since SyncDpuCRs only logs that,
\* and those that others have deleted since it began.
ReadyMeansSynced ==
  [][~ready /\ ready' => \A d \in managed \ missed : cr[d] = cond[d]]_vars

\* shutdown waits for a routine that cannot get rid of its error: nobody reads
\* errChan any more, and it is full.
Stuck ==
  /\ phase = "wait"
  /\ errs = ErrCapacity
  /\ \E r \in Routines : st[r] = "send"

\* The CRs and the label of the node end up as the hardware is, after DPUs that
\* came or went, routines that failed, shutdowns, crashes between any two API
\* calls, failed calls and CRs deleted by others - unless a shutdown is stuck.
ClusterConverges ==
  \/ <>[](/\ \A d \in Dpus : Exists(d) <=> d \in present
          /\ label \in LabelFor(present))
  \/ <>[]Stuck

\* "Stop all routines": once a routine has failed, shutdown cancels the others
\* and gets to the end of its wait for them, unless more routines fail after the
\* first than errChan has room for.
ShutdownEnds == closing ~> (phase = "exited" \/ Stuck)

\* "Block on any go routines writing to the done channel when an error occurs":
\* a side manager one of whose servers has died does not stay that way.
FailureIsNoticed ==
  \A r \in Managers : st[r] = "drain" ~> st[r] # "drain"
====
