----------------------------- MODULE MarvellVsp -----------------------------
(***************************************************************************)
(* The vendor specific plugin of the Marvell Octeon on the DPU.  It steers *)
(* traffic with OVS flow rules: from the VF of a host pod to the network   *)
(* function and back, and from there to the wire (RPM).  The VFs and the   *)
(* ports of the network function are in networkStore; isNF says whether    *)
(* rules are wanted.  Nothing is locked, and the calls of the host         *)
(* (bridge ports) run beside those for the network function.               *)
(*                                                                         *)
(* A handler is a list of data plane commands, any of which may fail, and  *)
(* some steps on networkStore in between.  OVS is external: a command that *)
(* names a port which is not on the bridge fails, del-port leaves the flow *)
(* rules, del-br takes all.  A VF stands for its MAC address as well.      *)
(***************************************************************************)
EXTENDS Naturals, SequencesExt

CONSTANTS
    NumVfs,        \* VFs that the host uses
    MaxFaults,     \* system calls that fail
    MaxRestarts,   \* restarts of the DPU's daemon
    MaxCrashes,    \* deaths of the VSP that it does not cause itself
    MaxRaces,      \* updates of networkStore that are not atomic
    MaxTotal,      \* all of these together
    MaxStored      \* entries of networkStore's vfPort

ASSUME ConstantsAssumption ==
    /\ NumVfs \in Nat \ {0}
    /\ MaxFaults \in Nat /\ MaxRestarts \in Nat /\ MaxCrashes \in Nat
    /\ MaxRaces \in Nat /\ MaxTotal \in Nat /\ MaxStored \in Nat \ {0}

Vfs == 0 .. NumVfs - 1
InPair == NumVfs               \* a veth pair stands for its data plane end, too
OutPair == NumVfs + 1
Rpm == NumVfs + 2
NoPort == NumVfs + 3           \* the empty name
StoredIn == NumVfs + 4         \* networkStore[NfName].inpPort when it is used
StoredOut == NumVfs + 5        \* networkStore[NfName].outPort when it is used
NoMac == NumVfs + 6
Pairs == {InPair, OutPair}
Ports == Vfs \cup Pairs \cup {Rpm}

\* Data plane commands: c is the operation, s its port, d and m the
\* destination and the MAC address of a flow rule.
AddPort(s) == [c |-> "port", s |-> s, d |-> NoPort, m |-> NoMac]
DelPort(s) == [c |-> "unport", s |-> s, d |-> NoPort, m |-> NoMac]
AddFlow(s, d, m) == [c |-> "flow", s |-> s, d |-> d, m |-> m]
DelFlow(s, m) == [c |-> "unflow", s |-> s, d |-> NoPort, m |-> m]

VARIABLES
    \* memory of the VSP
    proc,          \* "up", or "hung": main waits for a goroutine that waits
    named,         \* bridgeName is set
    devs,          \* the pairs in deviceStore
    isNF, store,   \* store.made: networkStore has an entry for NfName
    bp, net,       \* handlers of bridge port and network function calls
    \* kernel and OVS
    ends,          \* where the NF end of a veth pair is
    br, ports, flows,
    \* daemons and pods
    boot, pod, nf, nfOk,
    torn,          \* networkStore lost an update to a race
    wiped,         \* flow rules were deleted that others still need
    faults, restarts, crashes, races

memory == <<proc, named, devs, isNF, store>>
kernel == <<ends, br, ports, flows>>
budget == <<faults, restarts, crashes, races>>
ghost == <<torn, wiped>>
vars == <<memory, bp, net, kernel, boot, pod, nf, nfOk, ghost, budget>>

EmptyStore == [made |-> FALSE, vfs |-> <<>>, inp |-> NoPort, out |-> NoPort]
Call(op, v, todo) ==
    [op |-> op, v |-> v, step |-> "begin", todo |-> todo, seen |-> EmptyStore]
Idle == Call("none", 0, <<>>)

Init ==
    /\ proc = "up" /\ named = FALSE /\ devs = {}
    /\ isNF = FALSE /\ store = EmptyStore
    /\ bp = Idle /\ net = Idle
    /\ ends = [p \in Pairs |-> "none"]
    /\ br = FALSE /\ ports = {} /\ flows = {}
    /\ boot = "begin" /\ pod = [v \in Vfs |-> "none"]
    /\ nf = "none" /\ nfOk = FALSE
    /\ torn = FALSE /\ wiped = FALSE
    /\ faults = 0 /\ restarts = 0 /\ crashes = 0 /\ races = 0

-----------------------------------------------------------------------------
(* The data plane.                                                         *)

Works == UNCHANGED budget
Disturbs == faults + restarts + crashes + races < MaxTotal
Fault == /\ Disturbs /\ faults < MaxFaults /\ faults' = faults + 1
         /\ UNCHANGED <<restarts, crashes, races>>
Race == /\ Disturbs /\ races < MaxRaces /\ races' = races + 1
        /\ UNCHANGED <<faults, restarts, crashes>>

Named(p) == CASE p = StoredIn -> store.inp
              [] p = StoredOut -> store.out
              [] OTHER -> p

\* add-port has --may-exist; the other commands need the ports they name.
Possible(cmd) ==
    /\ named /\ br
    /\ cmd.c = "port" => cmd.s # NoPort
    /\ cmd.c # "port" => Named(cmd.s) \in ports
    /\ cmd.c = "flow" => Named(cmd.d) \in ports

\* Without a MAC address del-flows takes every rule of the port.
Matching(cmd) ==
    {f \in flows : f[1] = Named(cmd.s) /\ (cmd.m = NoMac \/ f[3] = cmd.m)}

Effect(cmd) ==
    /\ ports' = CASE cmd.c = "port" -> ports \cup {cmd.s}
                  [] cmd.c = "unport" -> ports \ {cmd.s}
                  [] OTHER -> ports
    /\ flows' = CASE cmd.c = "flow" -> flows \cup
                            {<<Named(cmd.s), Named(cmd.d), cmd.m>>}
                  [] cmd.c = "unflow" -> flows \ Matching(cmd)
                  [] OTHER -> flows
    /\ UNCHANGED <<ends, br>>

\* The rules for a VF, and those for the wire.
FlowsFor(v, i, o) == <<AddFlow(v, i, NoMac), AddFlow(i, v, v), AddFlow(o, o, v)>>
FlowsToWire(o) == <<AddFlow(o, Rpm, NoMac), AddFlow(Rpm, o, NoMac)>>

-----------------------------------------------------------------------------
(* Calls of the host: CreateBridgePort ends the ADD of a pod, and          *)
(* DeleteBridgePort its DEL, which ignores what it returns.                *)

Ready == boot = "ready" /\ proc = "up"

AddPod(v) ==
    /\ Ready /\ bp = Idle /\ pod[v] = "none" /\ Len(store.vfs) < MaxStored
    /\ pod' = [pod EXCEPT ![v] = "add"]
    /\ bp' = Call("create", v, <<AddPort(v)>>)
    /\ Works /\ UNCHANGED <<memory, net, kernel, boot, nf, nfOk, ghost>>

\* The MAC address is unknown if networkStore does not have the VF.
StoredMac(v) == IF Contains(store.vfs, v) THEN v ELSE NoMac

DelPod(v) ==
    /\ Ready /\ bp = Idle /\ pod[v] \in {"up", "stale", "failed"}
    /\ pod' = [pod EXCEPT ![v] = "del"]
    /\ bp' = Call("delete", v,
                  IF isNF THEN <<DelFlow(v, NoMac), DelFlow(store.out, StoredMac(v)),
                                 DelFlow(store.inp, StoredMac(v)), DelPort(v)>>
                          ELSE <<DelPort(v)>>)
    /\ wiped' = (wiped \/ (isNF /\ v \in ports /\ StoredMac(v) = NoMac))
    /\ Works /\ UNCHANGED <<memory, net, kernel, boot, nf, nfOk, torn>>

\* Nobody serves the host while the daemon of the DPU starts; an ADD fails then
\* and its DEL follows.
DelPodUnserved(v) ==
    /\ boot # "ready" /\ pod[v] \in {"up", "stale", "failed"}
    /\ pod' = [pod EXCEPT ![v] = "none"]
    /\ Works /\ UNCHANGED <<memory, bp, net, kernel, boot, nf, nfOk, ghost>>

bpRest == <<memory, net, boot, nf, nfOk, ghost>>

BpGoto(step, todo) ==
    bp' = [bp EXCEPT !.step = step, !.todo = todo] /\ UNCHANGED pod

BpReply(ok) ==
    /\ bp' = Idle
    /\ pod' = [pod EXCEPT ![bp.v] = IF bp.op = "delete" THEN "none"
                                    ELSE IF ok THEN "up" ELSE "failed"]

\* The next command of the handler; a failure ends it at once.
BpCommand ==
    /\ bp.todo # <<>>
    /\ \/ /\ Possible(Head(bp.todo)) /\ Effect(Head(bp.todo))
          /\ BpGoto(bp.step, Tail(bp.todo)) /\ Works
       \/ /\ IF Possible(Head(bp.todo)) THEN Fault ELSE Works
          /\ BpReply(FALSE) /\ UNCHANGED kernel
    /\ UNCHANGED bpRest

BpAt(op, step) == bp.op = op /\ bp.step = step /\ bp.todo = <<>>

\* An entry for the VF is appended, and the first one of it is removed.
Updated(s) == IF bp.op = "create"
              THEN [s EXCEPT !.made = TRUE, !.vfs = Append(@, bp.v)]
              ELSE [s EXCEPT !.vfs = RemoveFirst(@, bp.v)]

\* networkStore is read and written back, at once or, in a race, with steps of
\* the other handler in between.
BpRead ==
    /\ BpAt("create", "begin") \/ BpAt("delete", "begin")
    /\ net.op # "none" /\ Race
    /\ bp' = [bp EXCEPT !.step = "write", !.seen = store]
    /\ UNCHANGED <<bpRest, pod, kernel>>

BpWrite ==
    /\ bp.op # "none" /\ bp.step \in {"begin", "write"} /\ bp.todo = <<>>
    /\ LET seen == IF bp.step = "write" THEN bp.seen ELSE store IN
       /\ store' = Updated(seen)
       /\ torn' = (torn \/ store # seen \/ (bp.op = "delete" /\ net.step = "loop"))
    /\ IF bp.op = "delete" THEN BpReply(TRUE)
       ELSE bp' = [bp EXCEPT !.step = "test", !.seen = EmptyStore] /\ UNCHANGED pod
    /\ Works /\ UNCHANGED <<proc, named, devs, isNF, net, kernel, boot, nf, nfOk, wiped>>

\* Rules are added if there is a network function by now.
BpTest ==
    /\ BpAt("create", "test")
    /\ IF isNF THEN BpGoto("flows", FlowsFor(bp.v, StoredIn, StoredOut))
               ELSE BpReply(TRUE)
    /\ Works /\ UNCHANGED <<bpRest, kernel>>

BpDone ==
    /\ BpAt("create", "flows") /\ BpReply(TRUE)
    /\ Works /\ UNCHANGED <<bpRest, kernel>>

-----------------------------------------------------------------------------
(* The network function: both NF ends move to its pod, and then            *)
(* CreateNetworkFunction is called; its first DEL moves one end back and   *)
(* calls DeleteNetworkFunction.  The CNI handlers ignore the results.      *)

netRest == <<proc, named, devs, bp, boot, pod, wiped>>

\* The name of the data plane end, empty if deviceStore does not know it.
DpName(p) == IF p \in devs THEN p ELSE NoPort

NfNotYet == isNF
NfFromNowOn == TRUE

AddNf ==
    /\ Ready /\ net = Idle /\ nf = "none" /\ \A p \in Pairs : ends[p] = "host"
    /\ ends' = [p \in Pairs |-> "pod"]
    /\ nf' = "add" /\ isNF' = NfFromNowOn
    /\ net' = Call("create", 1, <<AddPort(DpName(InPair)), AddPort(DpName(OutPair))>>)
    /\ Works /\ UNCHANGED <<netRest, store, br, ports, flows, nfOk, torn>>

DelNf(p) ==
    /\ Ready /\ net = Idle /\ nf = "up"
    /\ ends' = [ends EXCEPT ![p] = "host"]
    /\ nf' = "del" /\ nfOk' = FALSE /\ isNF' = FALSE
    /\ net' = [Call("delete", 1, <<>>) EXCEPT !.step = "loop", !.seen = [EmptyStore EXCEPT !.vfs = store.vfs]]
    /\ Works /\ UNCHANGED <<netRest, store, br, ports, flows, torn>>

DelNfSecond ==
    /\ Ready /\ net = Idle /\ nf = "half"
    /\ ends' = [p \in Pairs |-> "host"]
    /\ nf' = "none"
    /\ Works /\ UNCHANGED <<netRest, isNF, store, br, ports, flows, net, nfOk, torn>>

NetReply(ok) ==
    /\ net' = Idle
    /\ nf' = IF net.op = "create" THEN "up" ELSE "half"
    /\ nfOk' = (ok /\ net.op = "create")

NetGoto(step, i, todo) ==
    /\ net' = [net EXCEPT !.step = step, !.v = i, !.todo = todo,
                          !.seen = IF step = "last" THEN EmptyStore ELSE @]
    /\ UNCHANGED <<nf, nfOk>>

NetCommand ==
    /\ net.todo # <<>>
    /\ \/ /\ Possible(Head(net.todo)) /\ Effect(Head(net.todo))
          /\ NetGoto(net.step, net.v, Tail(net.todo)) /\ Works
       \/ /\ IF Possible(Head(net.todo)) THEN Fault ELSE Works
          /\ NetReply(FALSE) /\ UNCHANGED kernel
    /\ UNCHANGED <<netRest, isNF, store, torn>>

NetAt(op, step) == net.op = op /\ net.step = step /\ net.todo = <<>>

NetRead ==
    /\ NetAt("create", "begin") /\ bp.op # "none" /\ Race
    /\ net' = [net EXCEPT !.step = "write", !.seen = store]
    /\ UNCHANGED <<netRest, isNF, store, kernel, nf, nfOk, torn>>

\* The ports of the network function, in a new entry or in the one with the VFs.
NfStoredIfAny(seen) == IF seen.made THEN [seen EXCEPT !.inp = InPair, !.out = OutPair]
                                    ELSE [seen EXCEPT !.made = TRUE]
NfStored(seen) == [made |-> TRUE, vfs |-> seen.vfs, inp |-> InPair, out |-> OutPair]

NetWrite ==
    /\ NetAt("create", "begin") \/ NetAt("create", "write")
    /\ LET seen == IF net.step = "write" THEN net.seen ELSE store IN
       /\ store' = NfStored(seen)
       /\ torn' = (torn \/ store # seen)
       /\ net' = [net EXCEPT !.step = "loop", !.seen = [EmptyStore EXCEPT !.vfs = seen.vfs]]
    /\ Works /\ UNCHANGED <<netRest, isNF, kernel, nf, nfOk>>

\* The i-th VF.  The loop's slice shares its array with networkStore, unless an
\* append has moved that one.
Elements(i) == {net.seen.vfs[i]} \cup
               (IF i <= Len(store.vfs) THEN {store.vfs[i]} ELSE {})

NetLoop ==
    LET i == net.v IN
    /\ NetAt("create", "loop") \/ NetAt("delete", "loop")
    /\ \/ /\ i <= Len(net.seen.vfs)
          /\ \E v \in Elements(i) :
                NetGoto("loop", i + 1,
                        IF net.op = "create" THEN FlowsFor(v, InPair, OutPair)
                                             ELSE <<DelFlow(v, NoMac)>>)
       \/ /\ i > Len(net.seen.vfs)
          /\ NetGoto("last", i,
                IF net.op = "create" THEN FlowsToWire(OutPair)
                ELSE <<DelFlow(DpName(InPair), NoMac), DelFlow(DpName(OutPair), NoMac),
                       DelFlow(Rpm, NoMac),
                       DelPort(DpName(InPair)), DelPort(DpName(OutPair))>>)
    /\ Works /\ UNCHANGED <<netRest, isNF, store, kernel, torn>>

NetDone ==
    /\ NetAt("create", "last") \/ NetAt("delete", "last")
    /\ NetReply(TRUE)
    /\ Works /\ UNCHANGED <<netRest, isNF, store, kernel, torn>>

-----------------------------------------------------------------------------
(* The daemon of the DPU calls Init until it succeeds.                     *)

\* A pod loses its flow rules, and perhaps its port, without hearing of it.
Disconnected == [v \in Vfs |-> IF pod[v] = "up" THEN "stale" ELSE pod[v]]
CallFailed == [v \in Vfs |-> CASE pod[v] = "add" -> "failed"
                               [] pod[v] = "del" -> "none"
                               [] OTHER -> pod[v]]

\* A process that starts knows nothing.  The calls it served fail.
Forgotten ==
    /\ named' = FALSE /\ devs' = {} /\ isNF' = FALSE /\ store' = EmptyStore
    /\ bp' = Idle /\ net' = Idle
    /\ nf' = CASE nf = "add" -> "up" [] nf = "del" -> "half" [] OTHER -> nf

initRest == <<isNF, store, bp, net, nf>>

\* The failure of a step that configures interfaces or the data plane stops the
\* server.  CleanVethPairs deletes the pairs that deviceStore has and are on the
\* host, and del-br the bridge if its name is known.  Then Stop and the
\* goroutine of Serve both send to done, which is received from once: the VSP
\* panics in startedWg.Done, or main waits for the goroutine for good.
StopVsp(knowsName, left) ==
    /\ boot' = "begin"
    /\ ends' = [p \in Pairs |-> IF p \in devs /\ left[p] = "host"
                                 THEN "none" ELSE left[p]]
    /\ IF knowsName
       THEN br' = FALSE /\ ports' = {} /\ flows' = {} /\ nfOk' = FALSE
            /\ pod' = Disconnected
       ELSE UNCHANGED <<br, ports, flows, nfOk, pod>>
    /\ Forgotten
    /\ proc' \in {"up", "hung"}
    /\ UNCHANGED ghost

\* deviceStore is made anew; configureIP may fail.
InitBegin ==
    /\ boot = "begin" /\ proc = "up"
    /\ devs' = {}
    /\ \/ Works /\ boot' = "veth0"
       \/ Fault /\ boot' = "begin"
    /\ UNCHANGED <<initRest, proc, named, kernel, pod, nfOk, ghost>>

PairUsableNever(p) == ends[p] = "none"
PairUsable(p) == ends[p] # "pod"

\* A pair on the host is used again; a new one is made if the NF end is not
\* there, which fails if the other end is.
InitVeth(p, from, to) ==
    /\ boot = from
    /\ \/ /\ PairUsable(p) /\ Works /\ boot' = to
          /\ ends' = [ends EXCEPT ![p] = "host"] /\ devs' = devs \cup {p}
          /\ UNCHANGED <<initRest, proc, named, br, ports, flows, pod, nfOk, ghost>>
       \/ /\ PairUsable(p) /\ Fault
          /\ \E e \in {ends[p], "host"} : StopVsp(named, [ends EXCEPT ![p] = e])
       \/ ~PairUsable(p) /\ Works /\ StopVsp(named, ends)

\* InitDataPlane keeps a bridge and its ports, and deletes its flow rules.  An
\* RPM port that cannot be added is not an error.
InitPlane ==
    /\ boot = "plane"
    /\ \/ /\ boot' = "ready" /\ named' = TRUE /\ br' = TRUE /\ flows' = {}
          /\ \/ Works /\ ports' = ports \cup {Rpm}
             \/ Fault /\ ports' = ports
          /\ nfOk' = FALSE /\ pod' = Disconnected
          /\ UNCHANGED <<initRest, proc, devs, ends, ghost>>
       \/ Fault /\ StopVsp(TRUE, ends)

DpuDaemonRestarts ==
    /\ boot = "ready" /\ net = Idle /\ bp = Idle
    /\ Disturbs /\ restarts < MaxRestarts /\ restarts' = restarts + 1
    /\ boot' = "begin"
    /\ UNCHANGED <<memory, bp, net, kernel, pod, nf, nfOk, ghost, faults, crashes,
                   races>>

\* Nobody calls Init again after a crash, unless it was in progress.
VspDies ==
    /\ proc = "up" /\ Disturbs /\ crashes < MaxCrashes /\ crashes' = crashes + 1
    /\ Forgotten
    /\ pod' = CallFailed
    /\ boot' = IF boot = "ready" THEN "ready" ELSE "begin"
    /\ UNCHANGED <<proc, kernel, nfOk, ghost, faults, restarts, races>>

-----------------------------------------------------------------------------
BpStep == BpCommand \/ BpRead \/ BpWrite \/ BpTest \/ BpDone
NetStep == NetCommand \/ NetRead \/ NetWrite \/ NetLoop \/ NetDone
BootStep ==
    \/ InitBegin \/ InitVeth(InPair, "veth0", "veth1")
    \/ InitVeth(OutPair, "veth1", "plane") \/ InitPlane
HostStep(v) == AddPod(v) \/ DelPod(v) \/ DelPodUnserved(v)

Next ==
    \/ \E v \in Vfs : HostStep(v)
    \/ BpStep \/ NetStep \/ BootStep
    \/ AddNf \/ (\E p \in Pairs : DelNf(p)) \/ DelNfSecond
    \/ DpuDaemonRestarts \/ VspDies

\* Handlers and the daemon's start run on.
Fairness == WF_vars(BpStep) /\ WF_vars(NetStep) /\ WF_vars(BootStep)

Spec == Init /\ [][Next]_vars /\ Fairness

-----------------------------------------------------------------------------
(* Properties                                                              *)

\* Every variable holds a value of its kind.
TypeOK ==
    /\ proc \in {"up", "hung"} /\ named \in BOOLEAN /\ devs \subseteq Pairs
    /\ isNF \in BOOLEAN /\ store.vfs \in Seq(Vfs)
    /\ {store.inp, store.out} \subseteq Pairs \cup {NoPort}
    /\ ends \in [Pairs -> {"none", "host", "pod"}]
    /\ br \in BOOLEAN /\ ports \subseteq Ports
    /\ flows \subseteq Ports \X Ports \X (Vfs \cup {NoMac})
    /\ pod \in [Vfs -> {"none", "add", "up", "stale", "failed", "del"}]
    /\ nf \in {"none", "add", "up", "del", "half"} /\ nfOk \in BOOLEAN

\* Whatever the order in which pods and the network function come, and even if
\* the two calls overlap, a connected pod and a created network function have
\* all the rules between them: isNF is set before the VFs are read, and a VF
\* is stored before isNF is tested.
Steered ==
    nf = "up" /\ nfOk /\ ~torn /\ ~wiped =>
        /\ <<OutPair, Rpm, NoMac>> \in flows /\ <<Rpm, OutPair, NoMac>> \in flows
        /\ \A v \in Vfs : pod[v] = "up" =>
             /\ {v, InPair, OutPair} \subseteq ports
             /\ {<<v, InPair, NoMac>>, <<InPair, v, v>>, <<OutPair, OutPair, v>>}
                    \subseteq flows

\* The daemon of the DPU comes up, unless a network function holds the veth
\* pairs, or a failed Init left the VSP hanging in its own Stop.
BootEnds ==
    \/ []<>(boot = "ready") \/ <>[](\E p \in Pairs : ends[p] = "pod")
    \/ <>[](proc = "hung")

\* CreateBridgePort fails only for a cause that is present: a command fails,
\* Init is due, or rules are wanted while no network function is complete.  What
\* earlier calls left behind (ports, rules, entries of networkStore) does no harm.
FailsForCause ==
    [][\A v \in Vfs : pod[v] = "add" /\ pod'[v] = "failed" =>
          \/ faults' > faults \/ crashes' > crashes \/ ~named \/ torn
          \/ bp.step = "flows" /\ ~nfOk]_vars

=============================================================================
