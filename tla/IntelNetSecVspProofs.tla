----------------------- MODULE IntelNetSecVspProofs -----------------------
(***************************************************************************)
(* Proofs about IntelNetSecVsp for every number of VFs and every bound on  *)
(* faults, restarts and crashes: type correctness, ChainNotNil,            *)
(* NfConnected, DownBeforeLeaving and PodConnected.                        *)
(***************************************************************************)
EXTENDS IntelNetSecVsp, TLAPS

(***************************************************************************)
(* Types.                                                                  *)
(***************************************************************************)
\* Every start of the daemon runs one SetNumVfs, which goes through the VFs once.
GenBound ==
    /\ gen <= restarts + 1
    /\ boot \notin {"setup", "ready"} => gen <= restarts
    /\ boot = "setup" => nextVf < NumVfs

Types == TypeOK /\ GenBound

\* VFs, veth pairs and the external port are different links.
LEMMA LinksDiffer ==
  /\ 0 \in Vfs /\ 0 \in Gens
  /\ InPair \notin Vfs /\ OutPair \notin Vfs /\ InPair # OutPair
  /\ Sfp \notin Links
  BY ConstantsAssumption DEF Vfs, InPair, OutPair, Sfp, Links, Pairs, Gens

\* A handler has a VF, and works for nobody only when it has no operation.
LEMMA CallFields ==
  ASSUME TypeOK, NEW c \in Slots
  PROVE  /\ call[c].v \in Vfs /\ call[c].g \in Gens /\ call[c].live \in BOOLEAN
         /\ call[c].op \in {"none", "create", "delete"}
         /\ call[c].step \in {"lookup", "link", "ovs", "check", "write"}
         /\ call[c].op = "none" <=> call[c] = NoCall
         /\ call[c].op # "none" => call[c] \in Calls
         /\ call[c].live => call[c].op # "none"
<1>1. call[c] \in Calls \cup {NoCall}
  BY DEF TypeOK
<1>2. CASE call[c] \in Calls
  BY <1>2 DEF Calls, NoCall
<1>3. CASE call[c] = NoCall
  BY <1>3, LinksDiffer DEF NoCall
<1>4. QED BY <1>1, <1>2, <1>3

\* What changes when a handler goes on ...
LEMMA GotoFields ==
  ASSUME TypeOK, NEW c \in Slots, call[c].op # "none",
         NEW step \in {"lookup", "link", "ovs", "check", "write"}, Goto(c, step)
  PROVE  /\ call' \in [Slots -> Calls \cup {NoCall}] /\ pod' = pod
         /\ call'[c].op = call[c].op /\ call'[c].v = call[c].v
         /\ call'[c].live = call[c].live /\ call'[c].g = call[c].g
         /\ call'[c].step = step
         /\ \A d \in Slots \ {c} : call'[d] = call[d]
<1>1. call[c] \in Calls
  BY CallFields
<1>2. [call[c] EXCEPT !.step = step] \in Calls
  BY <1>1 DEF Calls
<1>3. QED BY <1>1, <1>2 DEF TypeOK, Goto, Calls

\* ... takes a VfDeviceInfo along ...
LEMMA TakeFields ==
  ASSUME TypeOK, NEW c \in Slots, call[c].op # "none", NEW g \in Gens,
         NEW step \in {"lookup", "link", "ovs", "check", "write"},
         call' = [call EXCEPT ![c].step = step, ![c].g = g]
  PROVE  /\ call' \in [Slots -> Calls \cup {NoCall}]
         /\ call'[c].op = call[c].op /\ call'[c].v = call[c].v
         /\ call'[c].live = call[c].live /\ call'[c].g = g
         /\ call'[c].step = step
         /\ \A d \in Slots \ {c} : call'[d] = call[d]
<1>1. call[c] \in Calls
  BY CallFields
<1>2. [call[c] EXCEPT !.step = step, !.g = g] \in Calls
  BY <1>1 DEF Calls
<1>3. call' = [call EXCEPT ![c] = [call[c] EXCEPT !.step = step, !.g = g]]
  BY DEF TypeOK
<1>4. QED BY <1>1, <1>2, <1>3 DEF TypeOK, Calls

\* ... or answers.
LEMMA ReplyFields ==
  ASSUME TypeOK, NEW c \in Slots, NEW ok \in BOOLEAN, Reply(c, ok)
  PROVE  /\ call' \in [Slots -> Calls \cup {NoCall}]
         /\ call'[c] = NoCall
         /\ \A d \in Slots \ {c} : call'[d] = call[d]
         /\ pod' \in [Vfs -> {"none", "add", "up", "stale", "failed", "del"}]
         /\ ~call[c].live => pod' = pod
         /\ \A v \in Vfs : v # call[c].v => pod'[v] = pod[v]
         /\ pod'[call[c].v] = "up" => pod[call[c].v] = "up" \/ (call[c].live /\ ok)
         /\ pod[call[c].v] = "del" => pod'[call[c].v] # "up"
<1>1. call[c].v \in Vfs
  BY CallFields
<1>2. /\ call' \in [Slots -> Calls \cup {NoCall}]
      /\ call'[c] = NoCall
      /\ \A d \in Slots \ {c} : call'[d] = call[d]
  BY DEF TypeOK, Reply
<1>3. CASE ~call[c].live
  <2>1. pod' = pod
    BY <1>3 DEF Reply
  <2>2. pod' \in [Vfs -> {"none", "add", "up", "stale", "failed", "del"}]
    BY <2>1 DEF TypeOK
  <2>3. QED BY <1>2, <2>1, <2>2
<1>4. CASE call[c].live
  <2>1. PICK s \in {"none", "up", "failed"} :
          /\ pod' = [pod EXCEPT ![call[c].v] = s]
          /\ s = "up" => ok /\ pod[call[c].v] # "del"
    BY <1>4 DEF Reply
  <2>2. QED BY <1>1, <1>2, <1>4, <2>1 DEF TypeOK
<1>5. QED BY <1>3, <1>4

\* The calls that the daemons abandon.
LEMMA AbandonedFields ==
  ASSUME TypeOK
  PROVE  /\ Abandoned \in [Slots -> Calls \cup {NoCall}]
         /\ \A c \in Slots : /\ ~Abandoned[c].live
                             /\ Abandoned[c].op = call[c].op
                             /\ Abandoned[c].v = call[c].v
                             /\ Abandoned[c].step = call[c].step
<1>1. ASSUME NEW c \in Slots
      PROVE  /\ [call[c] EXCEPT !.live = FALSE] \in Calls \cup {NoCall}
             /\ ~[call[c] EXCEPT !.live = FALSE].live
             /\ [call[c] EXCEPT !.live = FALSE].op = call[c].op
             /\ [call[c] EXCEPT !.live = FALSE].v = call[c].v
             /\ [call[c] EXCEPT !.live = FALSE].step = call[c].step
  <2>1. CASE call[c] = NoCall
    <3>1. [NoCall EXCEPT !.live = FALSE] = NoCall
      <4> DEFINE R == [op : {"none"}, v : {0}, live : {FALSE},
                       step : {"lookup"}, g : {0}]
      <4>1. [NoCall EXCEPT !.live = FALSE] \in R
        BY DEF NoCall
      <4>2. ASSUME NEW r \in R PROVE r = NoCall
        BY DEF NoCall
      <4>3. QED BY <4>1, <4>2
    <3>2. QED BY <2>1, <3>1 DEF NoCall
  <2>2. CASE call[c] \in Calls
    BY <2>2 DEF Calls
  <2>3. QED BY <2>1, <2>2 DEF TypeOK
<1>2. QED BY <1>1 DEF Abandoned

\* The pods whose call failed.
LEMMA CallFailedFields ==
  ASSUME TypeOK
  PROVE  /\ CallFailed \in [Vfs -> {"none", "add", "up", "stale", "failed", "del"}]
         /\ \A v \in Vfs : CallFailed[v] = "up" <=> pod[v] = "up"
  BY DEF TypeOK, CallFailed

\* The initial states are well typed.
LEMMA InitTypes == Init => Types
<1> SUFFICES ASSUME Init PROVE Types
  OBVIOUS
<1>1. NoCall \in Calls \cup {NoCall}
  OBVIOUS
<1>2. call \in [Slots -> Calls \cup {NoCall}]
  BY <1>1 DEF Init
<1>3. /\ cur \in [Vfs -> Gens] /\ chain \in [Vfs -> Gens]
      /\ ends \in [Pairs -> {"none", "host", "pod"}]
      /\ pod \in [Vfs -> {"none", "add", "up", "stale", "failed", "del"}]
  BY LinksDiffer DEF Init
<1>4. /\ nextVf \in 0 .. NumVfs /\ gen \in Gens
      /\ faults \in 0 .. MaxFaults /\ lost \in 0 .. MaxLost
      /\ restarts \in 0 .. MaxRestarts /\ crashes \in 0 .. MaxCrashes
      /\ GenBound
  BY ConstantsAssumption, LinksDiffer DEF Init, GenBound
<1>5. QED BY <1>2, <1>3, <1>4 DEF Init, Types, TypeOK

\* Steps of the host.
LEMMA HostTypes ==
  ASSUME Types, NEW v \in Vfs, HostStep(v)
  PROVE  Types'
<1> USE DEF memory, kernel, daemon, budget
<1>1. ASSUME NEW op \in {"create", "delete"}, NEW during \in {"add", "del"},
             Send(v, op, during)
      PROVE  Types'
  <2>1. PICK c \in Slots : call' = [call EXCEPT ![c] =
           [op |-> op, v |-> v, live |-> TRUE, step |-> "lookup", g |-> 0]]
    BY <1>1 DEF Send
  <2>2. call' \in [Slots -> Calls \cup {NoCall}]
    BY <2>1, LinksDiffer DEF Types, TypeOK, Calls
  <2>3. QED BY <1>1, <2>2 DEF Send, Types, TypeOK, GenBound, Links
<1>2. CASE AddPod(v)
  BY <1>1, <1>2 DEF AddPod
<1>3. CASE DelPod(v)
  BY <1>1, <1>3 DEF DelPod
<1>4. CASE AddPodUnserved(v) \/ DelPodUnserved(v)
  BY <1>4 DEF AddPodUnserved, DelPodUnserved, Types, TypeOK, GenBound
<1>5. QED BY <1>2, <1>3, <1>4 DEF HostStep

\* A failure is counted.
LEMMA BudgetTypes ==
  ASSUME TypeOK, Works \/ Fault
  PROVE  /\ faults' \in 0 .. MaxFaults
         /\ UNCHANGED <<lost, restarts, crashes>>
  BY ConstantsAssumption DEF TypeOK, Works, Fault, budget

\* Steps of the handlers of bridge port calls.
LEMMA HandlerTypes ==
  ASSUME Types, NEW c \in Slots, HandlerStep(c)
  PROVE  Types'
<1> USE DEF memory, kernel, daemon
<1>1. TypeOK /\ call[c].v \in Vfs /\ call[c].g \in Gens /\ call[c].op # "none"
  BY CallFields DEF Types, HandlerStep, Handles, CreateLookup, CreateUp,
     CreateAddPort, CreateCheck, CreateWrite, DeleteLookup, DeleteDown,
     DeleteDelPort, DeleteCheck, DeleteWrite
<1>2. /\ call' \in [Slots -> Calls \cup {NoCall}]
      /\ pod' \in [Vfs -> {"none", "add", "up", "stale", "failed", "del"}]
  <2> DEFINE Typed == /\ call' \in [Slots -> Calls \cup {NoCall}]
                      /\ pod' \in [Vfs -> {"none", "add", "up", "stale",
                                           "failed", "del"}]
  <2>1. ASSUME NEW ok \in BOOLEAN, Reply(c, ok) PROVE Typed
    BY <1>1, <2>1, ReplyFields
  <2>2. ASSUME NEW step \in {"link", "ovs", "check", "write"}, Goto(c, step)
        PROVE  Typed
    BY <1>1, <2>2, GotoFields DEF TypeOK
  <2>3. ASSUME NEW step \in {"link", "write"}, NEW g \in Gens, UNCHANGED pod,
               call' = [call EXCEPT ![c].step = step, ![c].g = g]
        PROVE  Typed
    BY <1>1, <2>3, TakeFields DEF TypeOK
  <2>4. cur[call[c].v] \in Gens /\ chain[call[c].v] \in Gens
    BY <1>1 DEF TypeOK
  <2> HIDE DEF Typed
  <2>5. Typed
    BY <2>1, <2>2, <2>3, <2>4 DEF HandlerStep, CreateLookup, CreateUp,
       CreateAddPort, CreateCheck, CreateWrite, DeleteLookup, DeleteDown,
       DeleteDelPort, DeleteCheck, DeleteWrite
  <2>6. QED BY <2>5 DEF Typed
<1>3. Works \/ Fault
  BY DEF HandlerStep, CreateLookup, CreateUp, CreateAddPort, CreateCheck,
     CreateWrite, DeleteLookup, DeleteDown, DeleteDelPort, DeleteCheck,
     DeleteWrite
<1>4. UNCHANGED <<isDPUMode, chainMade, cur, known, netdev, ends, boot, nextVf,
                  gen, nf, nfOk, raced>>
  BY DEF HandlerStep, CreateLookup, CreateUp, CreateAddPort, CreateCheck,
     CreateWrite, DeleteLookup, DeleteDown, DeleteDelPort, DeleteCheck,
     DeleteWrite
<1>5. chain' \in [Vfs -> Gens] /\ alloc' \subseteq Vfs \X Gens
  <2>1. CASE CreateWrite(c)
    BY <1>1, <2>1 DEF TypeOK, CreateWrite, Marked
  <2>2. CASE DeleteWrite(c)
    BY <1>1, <2>2, LinksDiffer DEF TypeOK, DeleteWrite
  <2>3. CASE UNCHANGED memory
    BY <1>1, <2>3 DEF TypeOK
  <2>4. QED BY <2>1, <2>2, <2>3 DEF HandlerStep, CreateLookup, CreateUp,
     CreateAddPort, CreateCheck, DeleteLookup, DeleteDown, DeleteDelPort,
     DeleteCheck
<1>6. up' \subseteq Links /\ bridge' \subseteq Links \cup {Sfp}
  BY <1>1 DEF TypeOK, Links, LinkDown, HandlerStep, CreateLookup, CreateUp,
     CreateAddPort, CreateCheck, CreateWrite, DeleteLookup, DeleteDown,
     DeleteDelPort, DeleteCheck, DeleteWrite
<1>7. QED BY <1>1, <1>2, <1>3, <1>4, <1>5, <1>6, BudgetTypes
         DEF Types, TypeOK, GenBound

\* Steps of the DPU's daemon: Init and SetNumVfs.
LEMMA BootTypes == Types /\ BootStep => Types'
<1> SUFFICES ASSUME Types, BootStep PROVE Types'
  OBVIOUS
<1> USE BudgetTypes, ConstantsAssumption
    DEF Types, TypeOK, GenBound, memory, kernel, InitFails
<1>1. CASE InitBegin
  BY <1>1 DEF InitBegin
<1>2. ASSUME NEW p \in Pairs, NEW from, NEW to \in {"veth1", "external"},
             from \in {"veth0", "veth1"}, InitVeth(p, from, to)
      PROVE  Types'
  BY <1>2 DEF InitVeth, Links
<1>3. CASE InitExternal
  BY <1>3 DEF InitExternal
<1>4. CASE InitOvs
  BY <1>4, LinksDiffer DEF InitOvs, NewChain
<1>5. CASE InitSfp
  BY <1>5 DEF InitSfp
<1>6. CASE ResetVfs
  BY <1>6 DEF ResetVfs, SetNumVfsFails, Links
<1>7. CASE CreateVfs
  BY <1>7 DEF CreateVfs, SetNumVfsFails, Gens, Links
<1>8. CASE SetupVf
  <2>1. nextVf \in Vfs /\ nextVf + 1 \in 0 .. NumVfs
        /\ (nextVf + 1 < NumVfs \/ nextVf + 1 = NumVfs)
    BY <1>8 DEF SetupVf, Vfs
  <2>2. CASE Works
    BY <1>8, <2>1, <2>2 DEF SetupVf, AfterVf, SetNumVfsFails, Links
  <2>3. CASE Fault
    BY <1>8, <2>1, <2>3 DEF SetupVf, AfterVf, SetNumVfsFails, Links
  <2>4. QED BY <1>8, <2>2, <2>3 DEF SetupVf
<1>9. QED BY <1>1, <1>2, <1>3, <1>4, <1>5, <1>6, <1>7, <1>8
         DEF BootStep, Pairs

\* Restarts and deaths.
LEMMA DeathTypes ==
  Types /\ (HostDaemonDies \/ DpuDaemonRestarts \/ VspDies) => Types'
<1> SUFFICES ASSUME Types, HostDaemonDies \/ DpuDaemonRestarts \/ VspDies
             PROVE  Types'
  OBVIOUS
<1> USE ConstantsAssumption, LinksDiffer, AbandonedFields, CallFailedFields
    DEF Types, TypeOK, GenBound, memory, kernel, daemon
<1>1. CASE HostDaemonDies
  BY <1>1 DEF HostDaemonDies
<1>2. CASE DpuDaemonRestarts
  <2>1. /\ restarts' \in 0 .. MaxRestarts
        /\ boot' = "begin" /\ gen' <= restarts' /\ gen' <= restarts' + 1
    BY <1>2 DEF DpuDaemonRestarts, Gens
  <2>2. pod' \in [Vfs -> {"none", "add", "up", "stale", "failed", "del"}]
    BY <1>2 DEF DpuDaemonRestarts
  <2>3. GenBound'
    BY <2>1
  <2>4. QED BY <1>2, <2>1, <2>2, <2>3 DEF DpuDaemonRestarts
<1>3. CASE VspDies
  <2>1. boot' \in {"begin", "reset", "ready"} /\ (boot = "ready" => boot' = "ready")
        /\ (boot = "setup" => boot' = "ready")
    BY <1>3 DEF VspDies
  <2>2. nf' \in {"none", "addIn", "addOut", "up", "delIn", "delInOvs", "delOut",
                 "delOutOvs", "half"}
    BY <1>3 DEF VspDies
  <2>3. /\ crashes' \in 0 .. MaxCrashes
        /\ UNCHANGED <<kernel, nextVf, gen, nfOk, raced, faults, lost, restarts>>
        /\ pod' = CallFailed /\ Forgotten
    BY <1>3 DEF VspDies
  <2>4. /\ cur' \in [Vfs -> Gens] /\ chain' \in [Vfs -> Gens]
        /\ call' \in [Slots -> Calls \cup {NoCall}]
    BY <2>3 DEF Forgotten
  <2>5. GenBound'
    BY <2>1, <2>3
  <2>6. QED BY <2>1, <2>2, <2>3, <2>4, <2>5 DEF Forgotten
<1>4. QED BY <1>1, <1>2, <1>3

\* Steps of the network function.
LEMMA NfTypes ==
  Types /\ (AddNf \/ (\E p \in Pairs : DelNf(p)) \/ NfStep) => Types'
<1> SUFFICES ASSUME Types, AddNf \/ (\E p \in Pairs : DelNf(p)) \/ NfStep
             PROVE  Types'
  OBVIOUS
<1> USE BudgetTypes DEF Types, TypeOK, GenBound, nfRest, memory, daemon
<1>1. CASE AddNf \/ DelNfSecond \/ \E p \in Pairs : DelNf(p)
  BY <1>1 DEF AddNf, DelNfSecond, DelNf
<1>2. ASSUME NEW p \in Pairs, NEW from, NEW to \in {"addOut", "up"},
             CreateNf(p, from, to)
      PROVE  Types'
  BY <1>2 DEF CreateNf, Links
<1>3. ASSUME NEW p \in Pairs, NEW from, NEW to \in {"delInOvs", "delOutOvs"},
             DeleteNfDown(p, from, to)
      PROVE  Types'
  BY <1>3 DEF DeleteNfDown, LinkDown
<1>4. ASSUME NEW p \in Pairs, NEW to \in {"delOut", "half"}, DeleteNfPort(p, to)
      PROVE  Types'
  BY <1>4 DEF DeleteNfPort
<1>5. QED BY <1>1, <1>2, <1>3, <1>4 DEF NfStep, Pairs

\* The types hold in every reachable state.
LEMMA TypesHold == Spec => []Types
<1>1. Types /\ [Next]_vars => Types'
  <2>1. Types /\ UNCHANGED vars => Types'
    BY DEF vars, memory, kernel, daemon, budget, Types, TypeOK, GenBound
  <2>2. QED BY <2>1, HostTypes, HandlerTypes, BootTypes, DeathTypes, NfTypes
           DEF Next
<1>2. QED BY <1>1, InitTypes, PTL DEF Spec

\* Every reachable state of the VSP is well typed; in particular SetNumVfs never
\* indexes past the VFs it asked for.
THEOREM TypeCorrect == Spec => []TypeOK
<1>1. Types => TypeOK
  BY DEF Types
<1>2. QED BY <1>1, TypesHold, PTL

(***************************************************************************)
(* The chain exists when a handler indexes it.                             *)
(***************************************************************************)
\* The chain is made before the VFs that a lookup finds, and goes with them.
ChainFirst ==
    /\ \A v \in Vfs : cur[v] # 0 => chainMade
    /\ boot \in {"sfp", "create", "setup"} => chainMade
    /\ boot = "reset" /\ isDPUMode => chainMade
    /\ \A c \in Slots : call[c].step # "lookup" => chainMade

\* Handlers get past their lookup only with a VF that was found.
LEMMA HandlerChain ==
  ASSUME Types, ChainFirst, NEW c \in Slots, HandlerStep(c)
  PROVE  ChainFirst'
<1> USE DEF HandlerStep, Handles, CreateLookup, CreateUp, CreateAddPort,
        CreateCheck, CreateWrite, DeleteLookup, DeleteDown, DeleteDelPort,
        DeleteCheck, DeleteWrite
<1>1. UNCHANGED <<cur, chainMade, boot, isDPUMode>>
  BY DEF memory, daemon
<1>2. TypeOK /\ call[c].v \in Vfs /\ call[c].op # "none"
  BY CallFields DEF Types
<1>3. \A d \in Slots \ {c} : call'[d].step = call[d].step
  <2>1. \A d \in Slots \ {c} : call'[d] = call[d]
    BY <1>2 DEF Goto, Reply, TypeOK
  <2>2. QED BY <2>1
<1>4. call[c].step # "lookup" \/ cur[call[c].v] # 0 \/ call'[c] = NoCall
  BY <1>2, ReplyFields
<1>5. NoCall.step = "lookup"
  BY DEF NoCall
<1> HIDE DEF HandlerStep
<1>6. QED BY <1>1, <1>2, <1>3, <1>4, <1>5 DEF ChainFirst

\* Init makes the chain; only the death of the VSP, with which its calls and its
\* VFs are forgotten, takes it away.
LEMMA NextChain == Types /\ ChainFirst /\ [Next]_vars => ChainFirst'
<1> SUFFICES ASSUME Types, ChainFirst, [Next]_vars PROVE ChainFirst'
  OBVIOUS
<1> USE DEF memory, kernel, daemon, budget
<1>1. ASSUME NEW v \in Vfs, HostStep(v) PROVE ChainFirst'
  <2>1. UNCHANGED <<memory, daemon>>
    BY <1>1 DEF HostStep, AddPod, DelPod, AddPodUnserved, DelPodUnserved, Send
  <2>2. \A c \in Slots : call'[c].step # "lookup" => call[c].step # "lookup"
    BY <1>1 DEF HostStep, AddPod, DelPod, AddPodUnserved, DelPodUnserved, Send,
       Types, TypeOK
  <2>3. QED BY <2>1, <2>2 DEF ChainFirst
<1>2. CASE HostDaemonDies \/ DpuDaemonRestarts
  BY <1>2, AbandonedFields DEF HostDaemonDies, DpuDaemonRestarts, ChainFirst,
     Types
<1>3. CASE VspDies
  BY <1>3 DEF VspDies, Forgotten, NoCall, ChainFirst
<1>4. CASE BootStep
  BY <1>4 DEF BootStep, InitBegin, InitVeth, InitExternal, InitOvs, InitSfp,
     ResetVfs, CreateVfs, SetupVf, InitFails, SetNumVfsFails, AfterVf, NewChain,
     ChainFirst, Types, TypeOK
<1>5. CASE AddNf \/ (\E p \in Pairs : DelNf(p)) \/ NfStep
  BY <1>5 DEF AddNf, DelNf, NfStep, CreateNf, DeleteNfDown, DeleteNfPort,
     DelNfSecond, nfRest, ChainFirst
<1>6. CASE UNCHANGED vars
  BY <1>6 DEF vars, ChainFirst
<1>7. QED BY <1>1, <1>2, <1>3, <1>4, <1>5, <1>6, HandlerChain DEF Next

\* No handler of the VSP indexes a service function chain that is not there,
\* whatever restarts, crashes and failed Inits it overlaps with.
THEOREM ChainIsNotNil == Spec => []ChainNotNil
<1>1. Init => ChainFirst
  BY DEF Init, ChainFirst, NoCall
<1>2. ChainFirst => ChainNotNil
  BY DEF ChainFirst, ChainNotNil
<1>3. QED BY <1>1, <1>2, NextChain, TypesHold, PTL DEF Spec

(***************************************************************************)
(* The network function stays connected.                                   *)
(***************************************************************************)
\* The network function has both NF ends while its peers are connected, one
\* after the other.
NfProgress ==
    /\ nfOk => nf = "up"
    /\ nf \in {"addIn", "addOut"} => \A p \in Pairs : ends[p] = "pod"
    /\ nf = "addOut" => InPair \in bridge \cap up

NfInv == NfProgress /\ NfConnected

\* Steps of bridge port calls move VFs only.
LEMMA VfStepsNf ==
  ASSUME NfInv, UNCHANGED <<nf, nfOk, ends>>,
         \A p \in Pairs : p \in bridge \cap up => p \in bridge' \cap up'
  PROVE  NfInv'
  BY DEF NfInv, NfProgress, NfConnected, Pairs

\* Handlers, Init and SetNumVfs leave the veth pairs of a network function alone.
LEMMA NextNf == Types /\ NfInv /\ [Next]_vars => NfInv'
<1> SUFFICES ASSUME Types, NfInv, [Next]_vars PROVE NfInv'
  OBVIOUS
<1> USE DEF Types, TypeOK, memory, kernel, daemon, budget
<1>1. ASSUME NEW v \in Vfs, HostStep(v) PROVE NfInv'
  BY <1>1, VfStepsNf DEF HostStep, AddPod, DelPod, AddPodUnserved,
     DelPodUnserved, Send
<1>2. CASE HostDaemonDies \/ DpuDaemonRestarts
  BY <1>2, VfStepsNf DEF HostDaemonDies, DpuDaemonRestarts
<1>3. CASE VspDies
  BY <1>3 DEF VspDies, NfInv, NfProgress, NfConnected
<1>4. ASSUME NEW c \in Slots, HandlerStep(c) PROVE NfInv'
  <2>1. call[c].v \notin Pairs
    BY CallFields, LinksDiffer DEF Pairs
  <2>2. QED BY <1>4, <2>1, VfStepsNf
     DEF HandlerStep, CreateLookup, CreateUp, CreateAddPort,
     CreateCheck, CreateWrite, DeleteLookup, DeleteDown, DeleteDelPort,
     DeleteCheck, DeleteWrite, LinkDown
<1>5. ASSUME NEW p \in Pairs, NEW from, NEW to, InitVeth(p, from, to)
      PROVE  NfInv'
  BY <1>5, LinksDiffer DEF InitVeth, PeerTaken, NfInv, NfProgress, NfConnected,
     Pairs
<1>6. CASE InitBegin \/ InitExternal \/ InitOvs \/ InitSfp \/ CreateVfs
  BY <1>6, VfStepsNf DEF InitBegin, InitExternal, InitOvs, InitSfp, CreateVfs
<1>7. CASE ResetVfs
  <2>1. \A p \in Pairs : p \notin Vfs
    BY LinksDiffer DEF Pairs
  <2>2. QED BY <1>7, <2>1, VfStepsNf DEF ResetVfs
<1>8. CASE SetupVf
  <2>1. nextVf \notin Pairs
    BY <1>8, ConstantsAssumption DEF SetupVf, GenBound, Pairs, InPair, OutPair
  <2>2. QED BY <1>8, <2>1, VfStepsNf DEF SetupVf
<1>9. CASE AddNf \/ (\E p \in Pairs : DelNf(p)) \/ DelNfSecond
  BY <1>9 DEF AddNf, DelNf, DelNfSecond, NfInv, NfProgress, NfConnected
<1>10. CASE \/ CreateNf(InPair, "addIn", "addOut")
            \/ CreateNf(OutPair, "addOut", "up")
  BY <1>10 DEF CreateNf, NfInv, NfProgress, NfConnected, Pairs
<1>11. CASE \/ DeleteNfDown(InPair, "delIn", "delInOvs")
            \/ DeleteNfPort(InPair, "delOut")
            \/ DeleteNfDown(OutPair, "delOut", "delOutOvs")
            \/ DeleteNfPort(OutPair, "half")
  BY <1>11, LinksDiffer DEF DeleteNfDown, DeleteNfPort, Leaving, NfInv, NfProgress,
     NfConnected
<1>12. CASE UNCHANGED vars
  BY <1>12, VfStepsNf DEF vars
<1>13. QED BY <1>1, <1>2, <1>3, <1>4, <1>5, <1>6, <1>7, <1>8, <1>9, <1>10,
          <1>11, <1>12 DEF Next, BootStep, NfStep, Pairs

\* A network function that was connected stays so until its DEL: neither a VSP
\* that dies, nor the Init of a restarted daemon, nor the VFs of host pods take
\* its veth pairs away.
THEOREM NfStaysConnected == Spec => []NfConnected
<1>1. Init => NfInv
  BY DEF Init, NfInv, NfProgress, NfConnected
<1>2. NfInv => NfConnected
  BY DEF NfInv
<1>3. QED BY <1>1, <1>2, NextNf, TypesHold, PTL DEF Spec

(***************************************************************************)
(* Bridge port calls of one VF and the host's pods.                        *)
(***************************************************************************)
\* The host waits for one call at most, for a pod that says so; calls that
\* overlap for a VF are known to.
CallsOfHost ==
    /\ \A c \in Slots : call[c].live =>
          pod[call[c].v] = IF call[c].op = "create" THEN "add" ELSE "del"
    /\ \A c, d \in Slots : call[c].live /\ call[d].live => c = d
    /\ \A c, d \in Slots :
          /\ call[c].op # "none" /\ call[d].op # "none"
          /\ call[c].v = call[d].v
          => c = d \/ call[c].v \in raced

\* No pod is served while the daemon starts.
NobodyServed ==
    boot # "ready" => /\ \A c \in Slots : ~call[c].live
                      /\ \A v \in Vfs : pod[v] # "up"

\* DeleteBridgePort has set the link down.
DeleteProgress ==
    \A c \in Slots :
        call[c].op = "delete" /\ call[c].step = "ovs" =>
            call[c].v \notin up \/ call[c].v \in raced

\* What a CreateBridgePort that the host waits for has done so far.
CreateProgress ==
    \A c \in Slots :
        call[c].op = "create" /\ call[c].live /\ call[c].v \notin raced =>
            /\ call[c].step # "lookup" => call[c].g = cur[call[c].v]
            /\ call[c].step \in {"ovs", "check", "write"} => call[c].v \in up
            /\ call[c].step \in {"check", "write"} => call[c].v \in bridge

\* No call is left for the VF of a pod that runs.
UpIsQuiet ==
    \A v \in Vfs : pod[v] = "up" /\ v \notin raced =>
        \A c \in Slots : call[c].op # "none" => call[c].v # v

CallInv == CallsOfHost /\ NobodyServed /\ DeleteProgress
PodInv == CreateProgress /\ UpIsQuiet /\ PodConnected

\* What a step of a handler does to the calls and the pods.
LEMMA HandlerFields ==
  ASSUME Types, NEW c \in Slots, HandlerStep(c)
  PROVE  /\ call[c].op # "none" /\ call[c].v \in Vfs
         /\ UNCHANGED <<boot, raced, cur, chainMade>>
         /\ \A d \in Slots \ {c} : call'[d] = call[d]
         /\ \/ call'[c] = NoCall /\ \E ok \in BOOLEAN : Reply(c, ok)
            \/ /\ pod' = pod
               /\ call'[c].op = call[c].op /\ call'[c].v = call[c].v
               /\ call'[c].live = call[c].live
<1> USE DEF HandlerStep, Handles, CreateLookup, CreateUp, CreateAddPort,
        CreateCheck, CreateWrite, DeleteLookup, DeleteDown, DeleteDelPort,
        DeleteCheck, DeleteWrite
<1>1. TypeOK /\ call[c].op # "none" /\ call[c].v \in Vfs
  BY CallFields DEF Types
<1>2. UNCHANGED <<boot, raced, cur, chainMade>>
  BY DEF memory, daemon
<1>3. cur[call[c].v] \in Gens /\ chain[call[c].v] \in Gens
  BY <1>1 DEF TypeOK
<1> DEFINE Replied == call'[c] = NoCall /\ \E ok \in BOOLEAN : Reply(c, ok)
           Same == /\ pod' = pod
                   /\ call'[c].op = call[c].op /\ call'[c].v = call[c].v
                   /\ call'[c].live = call[c].live
           Others == \A d \in Slots \ {c} : call'[d] = call[d]
<1>4. ASSUME NEW ok \in BOOLEAN, Reply(c, ok) PROVE Others /\ Replied
  BY <1>1, <1>4, ReplyFields
<1>5. ASSUME NEW step \in {"link", "ovs", "check", "write"}, Goto(c, step)
      PROVE  Others /\ Same
  BY <1>1, <1>5, GotoFields
<1>6. ASSUME NEW step \in {"link", "write"}, NEW g \in Gens, UNCHANGED pod,
             call' = [call EXCEPT ![c].step = step, ![c].g = g]
      PROVE  Others /\ Same
  BY <1>1, <1>6, TakeFields
<1> HIDE DEF Others, Replied, Same
<1>7. Others /\ (Replied \/ Same)
  BY <1>3, <1>4, <1>5, <1>6
<1>8. QED BY <1>1, <1>2, <1>7 DEF Others, Replied, Same

\* A handler works for a pod that waits for it, or for nobody.
LEMMA HandlerCalls ==
  ASSUME Types, CallInv, NEW c \in Slots, HandlerStep(c)
  PROVE  CallsOfHost' /\ NobodyServed'
<1>1. CASE call'[c] = NoCall /\ \E ok \in BOOLEAN : Reply(c, ok)
  <2>1. ~NoCall.live /\ NoCall.op = "none"
    BY DEF NoCall
  <2>2. /\ ~call[c].live => pod' = pod
        /\ \A v \in Vfs : v # call[c].v => pod'[v] = pod[v]
    BY <1>1, ReplyFields DEF Types
  <2>3. \A d \in Slots : call'[d].live \/ call'[d].op # "none"
                           => d # c /\ call'[d] = call[d]
    BY <1>1, <2>1, HandlerFields
  <2>4. boot' # "ready" => pod' = pod
    BY <2>2, HandlerFields DEF CallInv, NobodyServed
  <2>5. \A d \in Slots \ {c} : call[d].live => pod' = pod
    BY <2>2 DEF CallInv, CallsOfHost
  <2>6. QED BY <2>3, <2>4, <2>5, HandlerFields
           DEF CallInv, CallsOfHost, NobodyServed
<1>2. CASE /\ pod' = pod
           /\ call'[c].op = call[c].op /\ call'[c].v = call[c].v
           /\ call'[c].live = call[c].live
  <2>1. \A d \in Slots : /\ call'[d].op = call[d].op /\ call'[d].v = call[d].v
                         /\ call'[d].live = call[d].live
    BY <1>2, HandlerFields
  <2>2. QED BY <1>2, <2>1, HandlerFields DEF CallInv, CallsOfHost, NobodyServed
<1>3. QED BY <1>1, <1>2, HandlerFields

\* Only a CreateBridgePort sets the link up again, and then the calls overlap.
LEMMA HandlerDeletes ==
  ASSUME Types, CallInv, NEW c \in Slots, HandlerStep(c)
  PROVE  DeleteProgress'
<1> SUFFICES ASSUME NEW d \in Slots, call'[d].op = "delete", call'[d].step = "ovs"
             PROVE  call'[d].v \notin up' \/ call'[d].v \in raced'
  BY DEF DeleteProgress
<1>1. NoCall.op = "none"
  BY DEF NoCall
<1>2. call'[d].v = call[d].v /\ call[d].op = "delete"
  BY <1>1, HandlerFields
<1>3. TypeOK
  BY DEF Types
<1>4. CASE d = c
  <2>1. ASSUME NEW ok \in BOOLEAN, Reply(c, ok) PROVE FALSE
    BY <1>1, <1>3, <1>4, <2>1, ReplyFields
  <2>2. ASSUME NEW step \in {"link", "check"}, Goto(c, step) PROVE FALSE
    BY <1>2, <1>3, <1>4, <2>2, GotoFields
  <2>3. call[c].step = "link" /\ up' = LinkDown(call[c].v)
    <3>1. ~(call' = [call EXCEPT ![c].step = "write", ![c].g = chain[call[c].v]])
      <4>1. chain[call[c].v] \in Gens
        BY <1>3, CallFields DEF TypeOK
      <4>2. QED BY <1>2, <1>3, <1>4, <4>1, TakeFields
    <3>2. QED BY <1>2, <1>4, <2>1, <2>2, <3>1
       DEF HandlerStep, Handles, CreateLookup, CreateUp, CreateAddPort,
       CreateCheck, CreateWrite, DeleteLookup, DeleteDown, DeleteDelPort,
       DeleteCheck, DeleteWrite
  <2>4. QED BY <1>2, <1>4, <2>3 DEF LinkDown
<1>5. CASE d # c
  <2>1. call'[d] = call[d]
    BY <1>5, HandlerFields
  <2>2. up' \subseteq up \cup {call[c].v}
    BY DEF HandlerStep, CreateLookup, CreateUp, CreateAddPort, CreateCheck,
       CreateWrite, DeleteLookup, DeleteDown, DeleteDelPort, DeleteCheck,
       DeleteWrite, LinkDown, kernel
  <2>3. QED BY <1>2, <1>5, <2>1, <2>2, HandlerFields
           DEF CallInv, CallsOfHost, DeleteProgress
<1>6. QED BY <1>4, <1>5

\* A call that the host sends takes a free slot.
LEMMA SendFields ==
  ASSUME Types, NEW v \in Vfs, NEW op \in {"create", "delete"},
         NEW during, Send(v, op, during)
  PROVE  \E c \in Slots :
           /\ call[c].op = "none"
           /\ call'[c].op = op /\ call'[c].v = v /\ call'[c].live
           /\ call'[c].step = "lookup"
           /\ \A d \in Slots \ {c} : call'[d] = call[d]
           /\ \A d \in Slots : call[d].op # "none" /\ call[d].v = v => v \in raced'
<1>1. TypeOK
  BY DEF Types
<1>2. PICK c \in Slots :
        /\ call[c] = NoCall
        /\ call' = [call EXCEPT ![c] =
             [op |-> op, v |-> v, live |-> TRUE, step |-> "lookup", g |-> 0]]
  BY DEF Send
<1>3. ASSUME NEW d \in Slots, call[d].op # "none", call[d].v = v
      PROVE  v \in raced'
  <2>1. d \in InFlight(v)
    BY <1>1, <1>3, CallFields DEF InFlight
  <2>2. QED BY <2>1 DEF Send
<1>4. call[c].op = "none"
  BY <1>2 DEF NoCall
<1>5. QED BY <1>1, <1>2, <1>3, <1>4 DEF TypeOK

\* The host sends a call when it waits for none.
LEMMA HostCalls ==
  ASSUME Types, CallInv, NEW v \in Vfs, HostStep(v)
  PROVE  CallInv'
<1> USE DEF memory, kernel, daemon
<1>1. ASSUME NEW op \in {"create", "delete"}, NEW during, Send(v, op, during),
             boot = "ready", during = IF op = "create" THEN "add" ELSE "del"
      PROVE  CallInv'
  <2>1. PICK c \in Slots :
           /\ call[c].op = "none"
           /\ call'[c].op = op /\ call'[c].v = v /\ call'[c].live
           /\ call'[c].step = "lookup"
           /\ \A d \in Slots \ {c} : call'[d] = call[d]
           /\ \A d \in Slots : call[d].op # "none" /\ call[d].v = v => v \in raced'
    BY <1>1, SendFields
  <2>2. /\ pod'[v] = during /\ raced \subseteq raced'
        /\ UNCHANGED <<up, boot>>
        /\ \A d \in Slots : ~call[d].live
    BY <1>1 DEF Send, HostFree, Types, TypeOK
  <2>3. CallsOfHost'
    BY <1>1, <2>1, <2>2 DEF CallInv, CallsOfHost
  <2>4. NobodyServed'
    BY <1>1, <2>2 DEF NobodyServed
  <2>5. DeleteProgress'
    BY <2>1, <2>2 DEF CallInv, DeleteProgress
  <2>6. QED BY <2>3, <2>4, <2>5 DEF CallInv
<1>2. CASE AddPod(v)
  BY <1>1, <1>2 DEF AddPod
<1>3. CASE DelPod(v)
  BY <1>1, <1>3 DEF DelPod
<1>4. CASE AddPodUnserved(v) \/ DelPodUnserved(v)
  BY <1>4 DEF AddPodUnserved, DelPodUnserved, HostFree, Types, TypeOK, CallInv,
     CallsOfHost, NobodyServed, DeleteProgress
<1>5. QED BY <1>2, <1>3, <1>4 DEF HostStep

\* The start of the daemon serves nobody, and trusts a record again only when no
\* call for the VF is left.
LEMMA BootCalls == Types /\ CallInv /\ BootStep => CallInv'
<1> SUFFICES ASSUME Types, CallInv, BootStep PROVE CallInv'
  OBVIOUS
<1> USE DEF BootStep, InitBegin, InitVeth, InitExternal, InitOvs, InitSfp,
        ResetVfs, CreateVfs, SetupVf, memory, kernel
<1>1. UNCHANGED <<call, pod>> /\ boot # "ready"
  OBVIOUS
<1>2. ASSUME NEW c \in Slots, call[c].op # "none", call[c].v \in raced
      PROVE  call[c].v \in raced'
  <2>1. c \in InFlight(call[c].v)
    BY <1>2, CallFields DEF InFlight, Types
  <2>2. QED BY <1>2, <2>1 DEF SetNumVfsFails
<1>3. ASSUME NEW c \in Slots, call[c].v \in up' PROVE call[c].v \in up
  BY <1>3, CallFields, LinksDiffer DEF Types
<1> HIDE DEF BootStep
<1>4. CallsOfHost'
  BY <1>1, <1>2 DEF CallInv, CallsOfHost
<1>5. NobodyServed'
  BY <1>1 DEF CallInv, NobodyServed
<1>6. DeleteProgress'
  BY <1>1, <1>2, <1>3 DEF CallInv, DeleteProgress
<1>7. QED BY <1>4, <1>5, <1>6 DEF CallInv

\* Nobody waits for a call whose caller died.
LEMMA DeathCalls ==
  ASSUME Types, CallInv, HostDaemonDies \/ DpuDaemonRestarts \/ VspDies
  PROVE  CallInv'
<1> USE DEF memory, kernel, daemon
<1>1. CASE HostDaemonDies
  <2>1. /\ call' = Abandoned /\ pod' = CallFailed /\ UNCHANGED <<up, boot, raced>>
    BY <1>1 DEF HostDaemonDies
  <2>2. QED BY <2>1, AbandonedFields, CallFailedFields DEF Types, CallInv,
     CallsOfHost, NobodyServed, DeleteProgress
<1>2. CASE DpuDaemonRestarts
  <2>1. /\ call' = Abandoned /\ UNCHANGED <<up, raced>>
        /\ \A v \in Vfs : pod'[v] # "up"
    BY <1>2, CallFailedFields DEF DpuDaemonRestarts, Types
  <2>2. QED BY <2>1, AbandonedFields DEF Types, CallInv,
     CallsOfHost, NobodyServed, DeleteProgress
<1>3. CASE VspDies
  <2>1. \A c \in Slots : call'[c].op = "none" /\ ~call'[c].live
    BY <1>3 DEF VspDies, Forgotten, NoCall
  <2>2. pod' = CallFailed /\ (boot = "ready" => boot' = "ready")
    BY <1>3 DEF VspDies
  <2>3. QED BY <2>1, <2>2, CallFailedFields DEF Types, CallInv,
     CallsOfHost, NobodyServed, DeleteProgress
<1>4. QED BY <1>1, <1>2, <1>3

\* The network function's calls have nothing to do with VFs.
LEMMA NfCalls ==
  ASSUME Types, CallInv, AddNf \/ (\E p \in Pairs : DelNf(p)) \/ NfStep
  PROVE  CallInv'
<1>1. UNCHANGED <<call, pod, boot>>
  BY DEF AddNf, DelNf, NfStep, CreateNf, DeleteNfDown, DeleteNfPort, DelNfSecond,
     nfRest, daemon
<1>2. \A c \in Slots : call[c].v \in up' => call[c].v \in up
  BY CallFields, LinksDiffer DEF Types, AddNf, DelNf, NfStep, CreateNf,
     DeleteNfDown, DeleteNfPort, DelNfSecond, LinkDown
<1>3. \A c \in Slots : call[c].v \in raced => call[c].v \in raced'
  BY CallFields, LinksDiffer DEF Types, AddNf, DelNf, NfStep, CreateNf,
     DeleteNfDown, DeleteNfPort, DelNfSecond
<1>4. CallsOfHost' /\ NobodyServed'
  BY <1>1, <1>3 DEF CallInv, CallsOfHost, NobodyServed
<1>5. DeleteProgress'
  BY <1>1, <1>2, <1>3 DEF CallInv, DeleteProgress
<1>6. QED BY <1>4, <1>5 DEF CallInv

\* CallInv holds in every reachable state.
LEMMA CallsHold == Spec => [](Types /\ CallInv)
<1>1. Init => CallInv
  BY DEF Init, CallInv, CallsOfHost, NobodyServed, DeleteProgress, NoCall
<1>2. Types /\ CallInv /\ [Next]_vars => CallInv'
  <2>1. CallInv /\ UNCHANGED vars => CallInv'
    BY DEF vars, memory, kernel, daemon, CallInv, CallsOfHost, NobodyServed,
       DeleteProgress
  <2>2. Types /\ CallInv /\ (\E c \in Slots : HandlerStep(c)) => CallInv'
    BY HandlerCalls, HandlerDeletes DEF CallInv
  <2>3. QED BY <2>1, <2>2, HostCalls, BootCalls, DeathCalls, NfCalls DEF Next
<1>3. QED BY <1>1, <1>2, TypesHold, PTL DEF Spec

\* DeleteNetworkFunction has set the peer down, unless Init made the pair anew.
PairProgress == \A p \in Pairs : Leaving(p) /\ p \in up => p \in raced

LEMMA SamePairs ==
  ASSUME PairProgress, UNCHANGED nf,
         \A p \in Pairs : (p \in up' => p \in up) /\ (p \in raced => p \in raced')
  PROVE  PairProgress'
BY DEF PairProgress, Leaving

LEMMA NextPairs == Types /\ PairProgress /\ [Next]_vars => PairProgress'
<1> SUFFICES ASSUME Types, PairProgress, [Next]_vars PROVE PairProgress'
  OBVIOUS
<1> USE DEF Types, TypeOK, memory, kernel, daemon, budget, Leaving
<1>1. \A p \in Pairs : p \notin Vfs
  BY LinksDiffer DEF Pairs
<1>2. ASSUME NEW v \in Vfs, HostStep(v) PROVE PairProgress'
  BY SamePairs, <1>2 DEF HostStep, AddPod, DelPod, AddPodUnserved, DelPodUnserved, Send
<1>3. ASSUME NEW c \in Slots, HandlerStep(c) PROVE PairProgress'
  <2>1. call[c].v \notin Pairs
    BY <1>1, CallFields
  <2>2. QED BY SamePairs, <1>3, <2>1
     DEF HandlerStep, CreateLookup, CreateUp, CreateAddPort, CreateCheck,
     CreateWrite, DeleteLookup, DeleteDown, DeleteDelPort, DeleteCheck,
     DeleteWrite, LinkDown
<1>4. CASE HostDaemonDies \/ DpuDaemonRestarts
  BY SamePairs, <1>4 DEF HostDaemonDies, DpuDaemonRestarts
<1>5. CASE VspDies
  BY <1>5 DEF VspDies, PairProgress
<1>6. ASSUME NEW p \in Pairs, NEW from, NEW to, InitVeth(p, from, to)
      PROVE  PairProgress'
  BY <1>6 DEF InitVeth, PairProgress
<1>7. CASE InitBegin \/ InitExternal \/ InitOvs \/ InitSfp
  BY SamePairs, <1>7 DEF InitBegin, InitExternal, InitOvs, InitSfp
<1>8. CASE ResetVfs \/ CreateVfs \/ SetupVf
  <2>1. boot = "setup" => nextVf \in Vfs
    BY ConstantsAssumption DEF GenBound, Vfs
  <2>2. QED BY SamePairs, <1>1, <1>8, <2>1 DEF ResetVfs, CreateVfs, SetupVf, SetNumVfsFails
<1>9. CASE AddNf \/ (\E p \in Pairs : DelNf(p)) \/ DelNfSecond
  BY <1>9 DEF AddNf, DelNf, DelNfSecond, PairProgress
<1>10. CASE \/ CreateNf(InPair, "addIn", "addOut")
            \/ CreateNf(OutPair, "addOut", "up")
  BY <1>10 DEF CreateNf, PairProgress
<1>11. CASE \/ DeleteNfDown(InPair, "delIn", "delInOvs")
            \/ DeleteNfDown(OutPair, "delOut", "delOutOvs")
  BY <1>11, LinksDiffer DEF DeleteNfDown, LinkDown, PairProgress, Pairs
<1>12. CASE DeleteNfPort(InPair, "delOut") \/ DeleteNfPort(OutPair, "half")
  BY <1>12 DEF DeleteNfPort, PairProgress
<1>13. CASE UNCHANGED vars
  BY SamePairs, <1>13 DEF vars
<1>14. QED BY <1>2, <1>3, <1>4, <1>5, <1>6, <1>7, <1>8, <1>9, <1>10, <1>11,
          <1>12, <1>13 DEF Next, BootStep, NfStep, Pairs

LEMMA PairsHold == Spec => []PairProgress
<1>1. Init => PairProgress
  BY DEF Init, PairProgress, Leaving
<1>2. QED BY <1>1, NextPairs, TypesHold, PTL DEF Spec

\* A link is down before it leaves the bridge, unless two calls for its VF
\* overlap or Init makes the veth pair anew in between (ifDownAndDelFromBridge).
THEOREM LinksLeaveDown == Spec => DownBeforeLeaving
<1> DEFINE Leaves(l) == l \in bridge /\ l \notin bridge'
<1>1. Types /\ CallInv /\ PairProgress /\ [Next]_vars
        => [\A l \in Links : Leaves(l) => l \notin up' \/ l \in raced]_vars
  <2> SUFFICES ASSUME Types, CallInv, PairProgress, Next, NEW l \in Links, Leaves(l)
               PROVE  l \notin up' \/ l \in raced
    OBVIOUS
  <2> USE DEF memory, kernel, daemon
  <2>1. \/ \E c \in Slots : DeleteDelPort(c)
        \/ \E p \in Pairs, to \in {"delOut", "half"} : DeleteNfPort(p, to)
    BY DEF Next, HostStep, AddPod, DelPod, AddPodUnserved, DelPodUnserved, Send,
       HandlerStep, CreateLookup, CreateUp, CreateAddPort, CreateCheck,
       CreateWrite, DeleteLookup, DeleteDown, DeleteCheck, DeleteWrite,
       HostDaemonDies, DpuDaemonRestarts, VspDies, BootStep, InitBegin, InitVeth,
       InitExternal, InitOvs, InitSfp, ResetVfs, CreateVfs, SetupVf, AddNf,
       DelNf, NfStep, CreateNf, DeleteNfDown, DelNfSecond, Pairs
  <2>2. ASSUME NEW c \in Slots, DeleteDelPort(c)
        PROVE  l \notin up' \/ l \in raced
    BY <2>2 DEF DeleteDelPort, Handles, CallInv, DeleteProgress
  <2>3. ASSUME NEW p \in Pairs, NEW to, DeleteNfPort(p, to)
        PROVE  l \notin up' \/ l \in raced
    BY <2>3 DEF DeleteNfPort, PairProgress
  <2>4. QED BY <2>1, <2>2, <2>3
<1>2. QED BY <1>1, CallsHold, PairsHold, PTL DEF Spec, DownBeforeLeaving

\* A handler changes nothing of other VFs.
LEMMA HandlerLocal ==
  ASSUME Types, NEW c \in Slots, HandlerStep(c), NEW v \in Vfs, v # call[c].v
  PROVE  /\ v \in up' <=> v \in up
         /\ v \in bridge' <=> v \in bridge
         /\ chain'[v] = chain[v]
         /\ \A g : <<v, g>> \in alloc' <=> <<v, g>> \in alloc
<1> USE DEF HandlerStep, CreateLookup, CreateUp, CreateAddPort, CreateCheck,
        CreateWrite, DeleteLookup, DeleteDown, DeleteDelPort, DeleteCheck,
        DeleteWrite, memory, kernel
<1>1. (v \in up' <=> v \in up) /\ (v \in bridge' <=> v \in bridge)
  BY DEF LinkDown
<1>2. /\ chain'[v] = chain[v]
      /\ \A g : <<v, g>> \in alloc' <=> <<v, g>> \in alloc
  BY DEF Marked, Types, TypeOK
<1>3. QED BY <1>1, <1>2

\* A CreateBridgePort makes progress; a call of the same VF beside it is known.
LEMMA HandlerCreates ==
  ASSUME Types, CallInv, PodInv, NEW c \in Slots, HandlerStep(c)
  PROVE  CreateProgress'
<1> SUFFICES ASSUME NEW d \in Slots, call'[d].op = "create", call'[d].live,
                    call'[d].v \notin raced'
             PROVE
            /\ call'[d].step # "lookup" => call'[d].g = cur'[call'[d].v]
            /\ call'[d].step \in {"ovs", "check", "write"} => call'[d].v \in up'
            /\ call'[d].step \in {"check", "write"} => call'[d].v \in bridge'
  BY DEF CreateProgress
<1>1. TypeOK /\ NoCall.op = "none"
  BY DEF Types, NoCall
<1>2. /\ call[d].op = "create" /\ call[d].live /\ call'[d].v = call[d].v
      /\ UNCHANGED <<raced, cur>> /\ call[d].v \in Vfs
  BY <1>1, HandlerFields, CallFields
<1>3. CASE d # c
  <2>1. call'[d] = call[d] /\ call[c].op # "none"
    BY <1>3, HandlerFields
  <2>2. call[d].v # call[c].v
    BY <1>2, <1>3, <2>1 DEF CallInv, CallsOfHost
  <2>3. QED BY <1>2, <2>1, <2>2, HandlerLocal DEF PodInv, CreateProgress
<1>4. CASE d = c
  <2>1. ASSUME NEW ok \in BOOLEAN, Reply(c, ok) PROVE FALSE
    BY <1>1, <1>4, <2>1, ReplyFields
  <2>2. call[c].op = "create" /\ call[c].v \in Vfs
    BY <1>2, <1>4
  <2>3. CASE CreateLookup(c)
    <3>1. cur[call[c].v] \in Gens
      BY <1>1, <2>2 DEF TypeOK
    <3>2. call'[c].step = "link" /\ call'[c].g = cur[call[c].v]
      BY <1>1, <2>1, <2>2, <2>3, <3>1, TakeFields DEF CreateLookup
    <3>3. QED BY <1>2, <1>4, <3>2
  <2>4. CASE CreateUp(c)
    <3>1. /\ call'[c].step = "ovs" /\ call'[c].g = call[c].g
          /\ call[c].v \in up' /\ call[c].step = "link"
      BY <1>1, <2>1, <2>2, <2>4, GotoFields DEF CreateUp, Handles
    <3>2. QED BY <1>2, <1>4, <3>1 DEF PodInv, CreateProgress
  <2>5. CASE CreateAddPort(c)
    <3>1. /\ call'[c].step = "check" /\ call'[c].g = call[c].g /\ up' = up
          /\ call[c].v \in bridge' /\ call[c].step = "ovs"
      BY <1>1, <2>1, <2>2, <2>5, GotoFields DEF CreateAddPort, Handles
    <3>2. QED BY <1>2, <1>4, <3>1 DEF PodInv, CreateProgress
  <2>6. CASE CreateCheck(c)
    <3>1. /\ call'[c].step = "write" /\ call'[c].g = call[c].g
          /\ UNCHANGED <<up, bridge>> /\ call[c].step = "check"
      BY <1>1, <2>1, <2>2, <2>6, GotoFields DEF CreateCheck, Handles, kernel
    <3>2. QED BY <1>2, <1>4, <3>1 DEF PodInv, CreateProgress
  <2>7. QED BY <2>1, <2>2, <2>3, <2>4, <2>5, <2>6
     DEF HandlerStep, CreateWrite, DeleteLookup, DeleteDown, DeleteDelPort,
     DeleteCheck, DeleteWrite, Handles
<1>5. QED BY <1>3, <1>4

\* A pod runs when its CreateBridgePort answers, and is quiet then.
LEMMA HandlerPods ==
  ASSUME Types, CallInv, PodInv, NEW c \in Slots, HandlerStep(c)
  PROVE  UpIsQuiet' /\ PodConnected'
<1>1. TypeOK /\ NoCall.op = "none"
  BY DEF Types, NoCall
<1>2. \A d \in Slots : call'[d].op # "none" =>
         /\ call[d].op = call'[d].op /\ call[d].v = call'[d].v
         /\ d = c => pod' = pod
  BY <1>1, HandlerFields
<1>3. ASSUME NEW v \in Vfs, pod'[v] = "up", v \notin raced'
      PROVE  /\ \A d \in Slots : call'[d].op # "none" => call'[d].v # v
             /\ v \in bridge' /\ v \in up'
             /\ chainMade' => chain'[v] = cur'[v] /\ <<v, chain'[v]>> \in alloc'
  <2>1. CASE pod[v] = "up"
    <3>1. \A d \in Slots : call[d].op # "none" => call[d].v # v
      BY <1>3, <2>1, HandlerFields DEF PodInv, UpIsQuiet
    <3>2. v # call[c].v
      BY <3>1, HandlerFields
    <3>3. QED BY <1>2, <1>3, <2>1, <3>1, <3>2, HandlerLocal, HandlerFields
             DEF PodInv, PodConnected
  <2>2. CASE pod[v] # "up"
    <3>1. /\ Reply(c, TRUE) /\ call[c].live /\ call[c].v = v
          /\ call[c].op = "create" /\ call'[c] = NoCall
      <4>1. PICK ok \in BOOLEAN : Reply(c, ok) /\ call'[c] = NoCall
        BY <1>3, <2>2, HandlerFields
      <4>2. v = call[c].v
        BY <1>1, <1>3, <2>2, <4>1, ReplyFields
      <4>3. call[c].live /\ ok /\ pod[v] # "del"
        BY <1>1, <1>3, <2>2, <4>1, <4>2, ReplyFields
      <4>4. call[c].op = "create"
        BY <4>2, <4>3 DEF CallInv, CallsOfHost
      <4>5. ok = TRUE
        BY <4>3
      <4>6. QED BY <4>1, <4>2, <4>3, <4>4, <4>5
    <3>2. CreateWrite(c)
      <4>1. ASSUME NEW step \in {"link", "ovs", "check", "write"}, Goto(c, step)
            PROVE  FALSE
        BY <1>3, <2>2, <4>1 DEF Goto
      <4>2. pod' # pod
        BY <1>3, <2>2
      <4>3. ~Reply(c, FALSE)
        <5>1. ASSUME Reply(c, FALSE) PROVE FALSE
          BY <1>1, <1>3, <2>2, <3>1, <5>1, ReplyFields
        <5>2. QED BY <5>1
      <4>4. QED BY <3>1, <4>1, <4>2, <4>3
         DEF HandlerStep, Handles, CreateLookup, CreateUp, CreateAddPort,
         CreateCheck, DeleteLookup, DeleteDown, DeleteDelPort, DeleteCheck,
         DeleteWrite
    <3>3. /\ call[c].step = "write" /\ UNCHANGED <<up, bridge, cur>>
          /\ chain'[v] = call[c].g /\ <<v, call[c].g>> \in alloc'
      BY <3>1, <3>2 DEF CreateWrite, Handles, Marked, kernel, Types, TypeOK
    <3>4. v \in up /\ v \in bridge /\ call[c].g = cur[v]
      BY <1>3, <3>1, <3>3, HandlerFields DEF PodInv, CreateProgress
    <3>5. \A d \in Slots : call'[d].op # "none" => call'[d].v # v
      BY <1>1, <1>2, <1>3, <3>1, HandlerFields DEF CallInv, CallsOfHost
    <3>6. QED BY <3>3, <3>4, <3>5
  <2>3. QED BY <2>1, <2>2
<1>4. QED BY <1>3 DEF UpIsQuiet, PodConnected

\* The other steps.
LEMMA OtherPods ==
  ASSUME Types, CallInv, PodInv, [Next]_vars, ~\E c \in Slots : HandlerStep(c)
  PROVE  PodInv'
<1> USE DEF memory, kernel, daemon
<1>1. ASSUME NEW v \in Vfs, NEW op \in {"create", "delete"},
             NEW during \in {"add", "del"}, Send(v, op, during)
      PROVE  PodInv'
  <2>1. PICK c \in Slots :
           /\ call[c].op = "none"
           /\ call'[c].op = op /\ call'[c].v = v /\ call'[c].live
           /\ call'[c].step = "lookup"
           /\ \A d \in Slots \ {c} : call'[d] = call[d]
           /\ \A d \in Slots : call[d].op # "none" /\ call[d].v = v => v \in raced'
    BY <1>1, SendFields
  <2>2. /\ pod' = [pod EXCEPT ![v] = during] /\ raced \subseteq raced'
        /\ UNCHANGED <<up, bridge, cur, chain, chainMade, alloc>>
    BY <1>1 DEF Send
  <2>3. \A w \in Vfs : pod'[w] = "up" => w # v /\ pod[w] = "up"
    BY <2>2 DEF Types, TypeOK
  <2>4. CreateProgress'
    BY <2>1, <2>2 DEF PodInv, CreateProgress
  <2>5. UpIsQuiet'
    BY <2>1, <2>2, <2>3 DEF PodInv, UpIsQuiet
  <2>6. PodConnected'
    BY <2>2, <2>3 DEF PodInv, PodConnected
  <2>7. QED BY <2>4, <2>5, <2>6 DEF PodInv
<1>2. ASSUME NEW v \in Vfs, AddPodUnserved(v) \/ DelPodUnserved(v)
      PROVE  PodInv'
  <2>1. \A w \in Vfs : pod'[w] = "up" => pod[w] = "up"
    BY <1>2 DEF AddPodUnserved, DelPodUnserved, Types, TypeOK
  <2>2. UNCHANGED <<memory, call, kernel, raced>>
    BY <1>2 DEF AddPodUnserved, DelPodUnserved
  <2>3. QED BY <2>1, <2>2 DEF PodInv, CreateProgress, UpIsQuiet, PodConnected
<1>3. CASE HostDaemonDies
  <2>1. /\ call' = Abandoned /\ pod' = CallFailed
        /\ UNCHANGED <<memory, kernel, raced>>
    BY <1>3 DEF HostDaemonDies
  <2>2. QED BY <2>1, AbandonedFields, CallFailedFields
           DEF Types, PodInv, CreateProgress, UpIsQuiet, PodConnected
<1>4. CASE DpuDaemonRestarts
  <2>1. call' = Abandoned /\ \A v \in Vfs : pod'[v] # "up"
    BY <1>4, CallFailedFields DEF DpuDaemonRestarts, Types
  <2>2. QED BY <2>1, AbandonedFields
           DEF Types, PodInv, CreateProgress, UpIsQuiet, PodConnected
<1>5. CASE VspDies
  <2>1. \A c \in Slots : call'[c].op = "none"
    BY <1>5 DEF VspDies, Forgotten, NoCall
  <2>2. pod' = CallFailed /\ ~chainMade' /\ UNCHANGED <<up, bridge, raced>>
    BY <1>5 DEF VspDies, Forgotten
  <2>3. QED BY <2>1, <2>2, CallFailedFields
           DEF Types, PodInv, CreateProgress, UpIsQuiet, PodConnected
<1>6. CASE BootStep
  <2>1. UNCHANGED <<call, pod>> /\ boot # "ready"
    BY <1>6 DEF BootStep, InitBegin, InitVeth, InitExternal, InitOvs, InitSfp,
       ResetVfs, CreateVfs, SetupVf
  <2>2. (\A c \in Slots : ~call'[c].live) /\ (\A v \in Vfs : pod'[v] # "up")
    BY <2>1 DEF CallInv, NobodyServed
  <2>3. QED BY <2>2 DEF PodInv, CreateProgress, UpIsQuiet, PodConnected
<1>7. CASE AddNf \/ (\E p \in Pairs : DelNf(p)) \/ NfStep
  <2>1. UNCHANGED <<memory, call, pod>>
    BY <1>7 DEF AddNf, DelNf, NfStep, CreateNf, DeleteNfDown, DeleteNfPort,
       DelNfSecond, nfRest
  <2>2. \A v \in Vfs : /\ v \in up' <=> v \in up
                       /\ v \in bridge' <=> v \in bridge
                       /\ v \in raced' <=> v \in raced
    BY <1>7, LinksDiffer DEF AddNf, DelNf, NfStep, CreateNf, DeleteNfDown,
       DeleteNfPort, DelNfSecond, LinkDown
  <2>3. QED BY <2>1, <2>2, CallFields
           DEF Types, PodInv, CreateProgress, UpIsQuiet, PodConnected
<1>8. CASE UNCHANGED vars
  BY <1>8 DEF vars, PodInv, CreateProgress, UpIsQuiet, PodConnected
<1>9. QED
  BY <1>1, <1>2, <1>3, <1>4, <1>5, <1>6, <1>7, <1>8 DEF Next, HostStep, AddPod,
     DelPod

\* A pod of the host whose CreateBridgePort succeeded stays on the bridge with its
\* link up, and DeleteBridgePort will find the records it needs, whatever calls
\* for other VFs, network functions and crashes come, as long as no abandoned
\* call overlaps with one for its VF.
THEOREM PodStaysConnected == Spec => []PodConnected
<1>1. Init => PodInv
  BY DEF Init, PodInv, CreateProgress, UpIsQuiet, PodConnected, NoCall
<1>2. Types /\ CallInv /\ PodInv /\ [Next]_vars => PodInv'
  <2>1. ASSUME Types, CallInv, PodInv, NEW c \in Slots, HandlerStep(c)
        PROVE  PodInv'
    BY <2>1, HandlerCreates, HandlerPods DEF PodInv
  <2>2. QED BY <2>1, OtherPods
<1>3. PodInv => PodConnected
  BY DEF PodInv
<1>4. QED BY <1>1, <1>2, <1>3, CallsHold, PTL DEF Spec
=============================================================================
