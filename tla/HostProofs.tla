----------------------------- MODULE HostProofs -----------------------------
(***************************************************************************)
(* Proofs about what the host makes of its DPUs: the devices that          *)
(* HostDevices offers to the kubelet (type correctness and AllocateFinds), *)
(* the detection of Detection (type correctness) and the plugin registry   *)
(* that it asks (IndexExact), for every value of the constants.            *)
(*                                                                         *)
(* HostDevices and Detection share no state.  Detection is an instance     *)
(* here, under its own constants and variables and with the registry of    *)
(* this module, and its assumption about the constants is a hypothesis of  *)
(* its theorem.                                                            *)
(***************************************************************************)
EXTENDS HostDevices, Registry, Sequences, TLAPS

CONSTANTS
    Cards, Ports, Port, Space, Products, MaxFaults, MaxPlugs, MaxCalls

VARIABLES
    product, present, det, todo, port, dpuDevices,
    detected, managedDpus, faults, plugs, calls

Det == INSTANCE Detection

(***************************************************************************)
(* The devices of the host: types.                                         *)
(***************************************************************************)
\* The types, and the call of the main loop, whose count becomes AppliedVfCount:
\* it asks for what the configs ask for.
Types ==
    /\ TypeOK
    /\ call["apply"].count \in Counts \cup {0}

\* No devices are a list, too, and no lists a sequence of them.
LEMMA EmptyList == {} \in Lists /\ <<>> \in Seq(Lists)
<1>1. 0 \in VfCounts
  BY DEF VfCounts
<1>2. Stored(0) = {}
  BY DEF Stored
<1>3. {} \in Lists
  BY <1>1, <1>2 DEF Lists
<1>4. <<>> \in Seq(Lists)
  OBVIOUS
<1>5. QED BY <1>3, <1>4

\* The initial states are well typed.
LEMMA InitTypes == Init => Types
<1> SUFFICES ASSUME Init PROVE Types
  OBVIOUS
<1> USE ConstantsAssumption DEF Init, NoCall, NoCfg, Callers
<1>1. NoCall \in SetNumVfsCalls /\ NoCfg \in [is : BOOLEAN, vf : Counts \cup {0}]
  BY DEF SetNumVfsCalls, VfCounts
<1>2. call \in [Callers -> SetNumVfsCalls]
      /\ cfg \in [Configs -> [is : BOOLEAN, vf : Counts \cup {0}]]
      /\ ann \in [Configs -> Counts \cup {0}]
  BY <1>1
<1>3. vfs \in VfCounts /\ store \in VfCounts
  BY DEF VfCounts
<1>4. call["apply"].count = 0
  OBVIOUS
<1>5. late \in Seq(SetNumVfsCalls) /\ wire \in Seq(Lists)
  OBVIOUS
<1>6. QED BY <1>2, <1>3, <1>4, <1>5, EmptyList DEF Types, TypeOK

\* The device plugin's variables after its server has ended.
LEMMA EndTypes ==
  ASSUME PluginEnds
  PROVE  /\ lw' \in {"off", "idle", "got", "sent"} /\ registered' \in BOOLEAN
         /\ got' \in Lists /\ cache' \in Lists /\ kubelet' \in Lists
         /\ wire' \in Seq(Lists)
  BY EmptyList DEF PluginEnds

\* Steps of the controller of the configs.
LEMMA CfgTypes ==
  ASSUME Types, NEW k \in Configs, EditCfg(k) \/ ReconcileCfg(k)
  PROVE  Types'
<1> USE DEF Types, TypeOK, loop, vsp, plugin, NoCfg
<1>1. CASE EditCfg(k)
  <2>1. PICK c \in {NoCfg} \cup [is : {TRUE}, vf : Counts \cup {0}] :
               cfg' = [cfg EXCEPT ![k] = c]
    BY <1>1 DEF EditCfg
  <2>2. c \in [is : BOOLEAN, vf : Counts \cup {0}]
    <3>1. CASE c = NoCfg
      BY <3>1
    <3>2. CASE c \in [is : {TRUE}, vf : Counts \cup {0}]
      BY <3>2
    <3>3. QED BY <3>1, <3>2
  <2>3. cfg' \in [Configs -> [is : BOOLEAN, vf : Counts \cup {0}]]
    BY <2>1, <2>2
  <2>4. QED BY <1>1, <2>3 DEF EditCfg
<1>2. CASE ReconcileCfg(k)
  BY <1>2 DEF ReconcileCfg, Works, Event, Annotated
<1>3. QED BY <1>1, <1>2

\* Steps of the main loop.
LEMMA LoopTypes == Types /\ (LoopStep \/ TickLost) => Types'
<1> SUFFICES ASSUME Types, LoopStep \/ TickLost PROVE Types'
  OBVIOUS
<1> USE DEF Types, TypeOK, control, vsp, plugin, Works, Event, NewCR, NoCR
<1>1. CASE TickFound
  BY <1>1 DEF TickFound
<1>2. CASE TickLost
  BY <1>2, EndTypes DEF TickLost
<1>3. CASE ApplyRead
  <2> DEFINE n == CHOOSE m \in Desired : TRUE
  <2>1. Desired \subseteq Counts
    BY DEF Desired
  <2>2. (\E m \in Desired : ~InForce(m)) => n \in Counts
    BY <2>1
  <2>3. \/ UNCHANGED call /\ tick' = "idle"
        \/ /\ n \in Counts /\ tick' = "rpc"
           /\ call' = [call EXCEPT !["apply"] = [step |-> "reset", count |-> n]]
    BY <1>3, <2>2 DEF ApplyRead
  <2> HIDE DEF n
  <2>4. /\ call' \in [Callers -> SetNumVfsCalls]
        /\ call'["apply"].count \in Counts \cup {0}
    BY <2>3 DEF Callers, SetNumVfsCalls, VfCounts
  <2>5. QED BY <1>3, <2>3, <2>4 DEF ApplyRead
<1>4. QED BY <1>1, <1>2, <1>3 DEF LoopStep

\* Calls that are abandoned are calls.
LEMMA AbandonTypes ==
  ASSUME Types, NEW cs \in SUBSET Callers, Abandon(cs)
  PROVE  /\ call' \in [Callers -> SetNumVfsCalls] /\ call'["apply"].count = 0
         /\ late' \in Seq(SetNumVfsCalls)
<1>1. Running(cs, "setup") \in Seq(SetNumVfsCalls)
      /\ Running(cs, "apply") \in Seq(SetNumVfsCalls)
  BY DEF Running, Types, TypeOK, Callers
<1>2. NoCall \in SetNumVfsCalls
  BY DEF NoCall, SetNumVfsCalls, VfCounts
<1>3. call' = [c \in Callers |-> NoCall]
      /\ late' = late \o Running(cs, "setup") \o Running(cs, "apply")
  BY DEF Abandon
<1>4. late \in Seq(SetNumVfsCalls)
  BY DEF Types, TypeOK
<1>5. late' \in Seq(SetNumVfsCalls)
  BY <1>1, <1>3, <1>4
<1>6. QED BY <1>2, <1>3, <1>5 DEF Callers, NoCall

\* What is left of the daemon after it has exited.
LEMMA ExitTypes ==
  ASSUME Types, NEW clean \in BOOLEAN, Exit(clean),
         call' \in [Callers -> SetNumVfsCalls], call'["apply"].count = 0,
         late' \in Seq(SetNumVfsCalls), vfs' \in VfCounts, store' \in VfCounts
  PROVE  Types'
  BY EndTypes DEF Exit, NoCR, Types, TypeOK

\* Steps of the side manager and the end of the daemon.
LEMMA MgrTypes == Types /\ (MgrStep \/ DaemonDies) => Types'
<1> SUFFICES ASSUME Types, MgrStep \/ DaemonDies PROVE Types'
  OBVIOUS
<1>1. CASE StartVsp
  BY <1>1 DEF StartVsp, Types, TypeOK, control, loop, plugin, Works, Callers,
     SetNumVfsCalls, VfCounts
<1>2. CASE RegisterWithKubelet
  BY <1>2, EmptyList DEF RegisterWithKubelet, Types, TypeOK, control, loop, vsp, Works
<1>3. CASE DaemonDies
  <2>1. vfs' \in VfCounts /\ store' \in VfCounts
    BY <1>3 DEF DaemonDies, Types, TypeOK
  <2>2. QED BY <1>3, <2>1, AbandonTypes, ExitTypes DEF DaemonDies
<1>4. QED BY <1>1, <1>2, <1>3 DEF MgrStep

\* A call of SetNumVfs leaves numbers of VFs that a call may ask for.
LEMMA SetNumVfsTypes ==
  ASSUME Types, NEW k \in SetNumVfsCalls, NEW next, SetNumVfs(k, next)
  PROVE  vfs' \in VfCounts /\ store' \in VfCounts
<1>1. vfs \in VfCounts /\ store \in VfCounts /\ k.count \in VfCounts /\ 0 \in VfCounts
  BY DEF Types, TypeOK, SetNumVfsCalls, VfCounts
<1>2. CASE ResetVfs(k, next)
  BY <1>1, <1>2 DEF ResetVfs
<1>3. CASE CreateVfs(k, next)
  BY <1>1, <1>3 DEF CreateVfs
<1>4. CASE ReloadVfs(k, next)
  BY <1>1, <1>4 DEF ReloadVfs
<1>5. QED BY <1>2, <1>3, <1>4 DEF SetNumVfs

\* What an answer of the VSP leads to.
LEMMA AnswerTypes ==
  ASSUME Types, NEW c \in Callers, NEW ok \in BOOLEAN, Answer(c, ok),
         vfs' \in VfCounts, store' \in VfCounts
  PROVE  Types'
<1>1. NoCall \in SetNumVfsCalls
  BY DEF NoCall, SetNumVfsCalls, VfCounts
<1>2. CASE c = "apply"
  <2>1. /\ call' = [call EXCEPT !["apply"] = NoCall] /\ tick' = "idle"
        /\ applied' = IF ok THEN call["apply"].count ELSE applied
        /\ undone' = (undone /\ ~ok)
        /\ UNCHANGED <<control, plugin, managed, mgr, late>>
    BY <1>2 DEF Answer
  <2>2. call' \in [Callers -> SetNumVfsCalls] /\ call'["apply"].count = 0
    BY <1>1, <2>1 DEF Types, TypeOK, Callers, NoCall
  <2>3. undone' \in BOOLEAN
    BY <2>1
  <2>4. QED BY <2>1, <2>2, <2>3 DEF Types, TypeOK, control, plugin
<1>3. CASE c = "setup" /\ ok
  <2>1. /\ call' = [call EXCEPT !["setup"] = NoCall] /\ mgr' = "listen"
        /\ UNCHANGED <<control, plugin, loop, undone, late>>
    BY <1>3 DEF Answer
  <2>2. /\ call' \in [Callers -> SetNumVfsCalls]
        /\ call'["apply"].count = call["apply"].count
    BY <1>1, <2>1 DEF Types, TypeOK, Callers
  <2>3. QED BY <2>1, <2>2 DEF Types, TypeOK, control, plugin, loop
<1>4. CASE c = "setup" /\ ~ok
  <2>1. Abandon({"apply"}) /\ Exit(TRUE)
    BY <1>4 DEF Answer
  <2>2. {"apply"} \in SUBSET Callers
    BY DEF Callers
  <2>3. QED BY <2>1, <2>2, AbandonTypes, ExitTypes
<1>5. QED BY <1>2, <1>3, <1>4 DEF Callers

\* Steps of the VSP.
LEMMA VspTypes ==
  ASSUME Types, NEW c \in Callers, VspStep(c)
  PROVE  Types'
<1>1. call[c] \in SetNumVfsCalls
  BY DEF Types, TypeOK
<1>2. ASSUME NEW next \in {"set", "reload"}, SetNumVfs(call[c], next), Undone(next),
             call' = [call EXCEPT ![c].step = next],
             UNCHANGED <<control, plugin, loop, mgr, late>>
      PROVE  Types'
  <2>1. vfs' \in VfCounts /\ store' \in VfCounts
    BY <1>1, <1>2, SetNumVfsTypes
  <2>2. /\ call' \in [Callers -> SetNumVfsCalls]
        /\ call'["apply"].count = call["apply"].count
    BY <1>2 DEF Types, TypeOK, Callers, SetNumVfsCalls
  <2>3. undone' \in BOOLEAN
    BY <1>2 DEF Undone
  <2>4. QED BY <1>2, <2>1, <2>2, <2>3 DEF Types, TypeOK, control, plugin, loop
<1>3. ASSUME NEW next \in {"ok", "failed"}, SetNumVfs(call[c], next),
             Answer(c, next = "ok")
      PROVE  Types'
  <2>1. vfs' \in VfCounts /\ store' \in VfCounts
    BY <1>1, <1>3, SetNumVfsTypes
  <2>2. (next = "ok") \in BOOLEAN
    OBVIOUS
  <2>3. QED BY <1>3, <2>1, <2>2, AnswerTypes
<1>4. QED BY <1>2, <1>3 DEF VspStep

\* Late calls go on and end.
LEMMA LateTypes ==
  ASSUME Types, NEW i \in 1 .. MaxLate, LateStep(i)
  PROVE  Types'
<1>1. late \in Seq(SetNumVfsCalls) /\ i \in 1 .. Len(late)
  BY DEF LateStep, Types, TypeOK
<1>2. PICK next \in {"set", "reload", "ok", "failed"} :
        /\ SetNumVfs(late[i], next) /\ Undone(next)
        /\ late' = IF next \in {"set", "reload"} THEN [late EXCEPT ![i].step = next]
                   ELSE SubSeq(late, 1, i - 1) \o SubSeq(late, i + 1, Len(late))
  BY DEF LateStep
<1>3. late[i] \in SetNumVfsCalls
  BY <1>1
<1>4. vfs' \in VfCounts /\ store' \in VfCounts
  BY <1>2, <1>3, SetNumVfsTypes
<1>5. late' \in Seq(SetNumVfsCalls)
  <2>1. CASE next \in {"set", "reload"}
    <3>1. [late[i] EXCEPT !.step = next] \in SetNumVfsCalls
      BY <1>3, <2>1 DEF SetNumVfsCalls
    <3>2. QED BY <1>1, <1>2, <2>1, <3>1
  <2>2. CASE next \notin {"set", "reload"}
    <3>1. /\ SubSeq(late, 1, i - 1) \in Seq(SetNumVfsCalls)
          /\ SubSeq(late, i + 1, Len(late)) \in Seq(SetNumVfsCalls)
      BY <1>1
    <3>2. QED BY <1>2, <2>2, <3>1
  <2>3. QED BY <2>1, <2>2
<1>6. undone' \in BOOLEAN
  BY <1>2 DEF Undone
<1>7. QED BY <1>4, <1>5, <1>6 DEF LateStep, Types, TypeOK, control, plugin, loop

\* What GetDevices answers is a list.
LEMMA ListedTypes ==
  ASSUME Types PROVE Listed \in Lists /\ Stored(store) \in Lists
  BY DEF Types, TypeOK, Listed, Lists

\* Steps of the device plugin and the kubelet, and the end of the VSP.
LEMMA PluginTypes ==
  Types /\ (LwStep \/ KubeletReceives \/ KubeletRestarts \/ VspDies) => Types'
<1> SUFFICES ASSUME Types, LwStep \/ KubeletReceives \/ KubeletRestarts \/ VspDies
             PROVE  Types'
  OBVIOUS
<1> USE DEF control, loop, vsp, Works, Event
<1>1. CASE LwGet
  BY <1>1, ListedTypes, EmptyList DEF LwGet, Types, TypeOK
<1>2. CASE LwSend
  <2>1. got \in Lists /\ wire \in Seq(Lists)
    BY DEF Types, TypeOK
  <2>2. wire' \in Seq(Lists) /\ got' \in Lists
    <3>1. CASE wire' = Append(wire, got) /\ got' = got
      BY <2>1, <3>1
    <3>2. CASE wire' = <<>> /\ got' = {}
      BY <3>2, EmptyList
    <3>3. QED BY <1>2, <3>1, <3>2 DEF LwSend
  <2>3. kubelet' \in Lists /\ cache' \in Lists /\ lw' \in {"sent", "off"}
        /\ registered' \in BOOLEAN /\ mgr' \in {mgr, "deaf"}
    BY <1>2, EmptyList DEF LwSend, Types, TypeOK
  <2>4. QED BY <1>2, <2>2, <2>3 DEF LwSend, Types, TypeOK
<1>3. CASE LwCache
  BY <1>3 DEF LwCache, Cached, Types, TypeOK
<1>4. CASE KubeletReceives
  BY <1>4 DEF KubeletReceives, Types, TypeOK
<1>5. CASE KubeletRestarts
  BY <1>5, EmptyList DEF KubeletRestarts, Types, TypeOK
<1>6. CASE VspDies
  <2>1. vfs' \in VfCounts /\ store' \in VfCounts /\ late' \in Seq(SetNumVfsCalls)
    BY <1>6 DEF VspDies, Types, TypeOK, VfCounts
  <2>2. call' \in [Callers -> SetNumVfsCalls] /\ call'["apply"].count = 0
    BY <1>6 DEF VspDies, Callers, NoCall, SetNumVfsCalls, VfCounts
  <2>3. CASE Exit(TRUE)
    BY <2>1, <2>2, <2>3, ExitTypes
  <2>4. CASE /\ tick' = IF tick = "rpc" THEN "idle" ELSE tick
             /\ UNCHANGED <<control, plugin, managed, applied, undone, mgr>>
    BY <2>1, <2>2, <2>4 DEF Types, TypeOK, plugin
  <2>5. QED BY <1>6, <2>3, <2>4 DEF VspDies
<1>7. QED BY <1>1, <1>2, <1>3, <1>4, <1>5, <1>6 DEF LwStep

\* Every reachable state is well typed; in particular AppliedVfCount is a number
\* that a config asked for, never the one of SetupDevices.
THEOREM TypeCorrect == Spec => []TypeOK
<1>1. Types /\ [Next]_vars => Types'
  <2>1. Types /\ UNCHANGED vars => Types'
    BY DEF vars, control, loop, vsp, plugin, Types, TypeOK
  <2>2. QED
    BY <2>1, CfgTypes, LoopTypes, MgrTypes, VspTypes, LateTypes, PluginTypes DEF Next
<1>2. Types => TypeOK
  BY DEF Types
<1>3. QED BY <1>1, <1>2, InitTypes, PTL DEF Spec

(***************************************************************************)
(* What the kubelet and Allocate know.                                     *)
(***************************************************************************)
\* SetupDevices ends before the side manager serves, and ListAndWatch and the
\* stream of the kubelet begin after that.
InOrder ==
    /\ call["setup"].step # "none" => mgr = "setup"
    /\ lw # "off" \/ registered => mgr \in {"serving", "deaf"}

\* The list that was sent last: what the kubelet knows when it has received all.
LastSent == IF Len(wire) = 0 THEN kubelet ELSE wire[Len(wire)]

\* A kubelet with a stream was sent last the list that Allocate has or, between
\* Send and setDeviceCache, the one that ListAndWatch has; a kubelet without one
\* has nothing, so that a new stream starts with nothing on either side.
KnownDevices ==
    /\ ~registered => kubelet = {} /\ wire = <<>>
    /\ registered /\ lw # "sent" => LastSent = cache
    /\ registered /\ lw = "sent" => LastSent = got

IInv == TypeOK /\ InOrder /\ KnownDevices

\* Steps that leave the device plugin and SetupDevices alone.
LEMMA OtherSteps ==
  ASSUME InOrder, KnownDevices, UNCHANGED plugin,
         mgr' = mgr \/ mgr \notin {"setup", "serving", "deaf"},
         call'["setup"].step # "none" => call["setup"].step # "none"
  PROVE  InOrder' /\ KnownDevices'
  BY DEF InOrder, KnownDevices, LastSent, plugin

\* With the daemon or the side manager the stream and the calls end.
LEMMA EndOrder ==
  ASSUME PluginEnds, call'["setup"].step = "none"
  PROVE  InOrder' /\ KnownDevices'
  BY DEF InOrder, KnownDevices, PluginEnds

\* Steps of the main loop and the side manager.
LEMMA ManagerOrder ==
  ASSUME IInv, LoopStep \/ TickLost \/ MgrStep \/ DaemonDies
  PROVE  InOrder' /\ KnownDevices'
<1> USE DEF IInv, TypeOK, Callers
<1>1. CASE TickFound
  BY <1>1, OtherSteps DEF TickFound, vsp
<1>2. CASE ApplyRead
  BY <1>2, OtherSteps DEF ApplyRead
<1>3. CASE TickLost
  BY <1>3, EndOrder DEF TickLost, InOrder
<1>4. CASE StartVsp
  BY <1>4 DEF StartVsp, InOrder, KnownDevices, LastSent, plugin
<1>5. CASE RegisterWithKubelet
  <2>1. ~registered /\ lw' = "idle" /\ cache' = {} /\ UNCHANGED <<wire, kubelet>>
    BY <1>5 DEF RegisterWithKubelet, InOrder
  <2>2. KnownDevices'
    BY <2>1 DEF KnownDevices, LastSent
  <2>3. QED BY <1>5, <2>2 DEF RegisterWithKubelet, InOrder, vsp
<1>6. CASE DaemonDies
  BY <1>6, EndOrder DEF DaemonDies, Exit, Abandon, NoCall
<1>7. QED BY <1>1, <1>2, <1>3, <1>4, <1>5, <1>6 DEF LoopStep, MgrStep

\* The answers of the VSP.
LEMMA AnswerOrder ==
  ASSUME IInv, NEW c \in Callers, NEW ok \in BOOLEAN, Answer(c, ok),
         call[c].step # "none"
  PROVE  InOrder' /\ KnownDevices'
<1> USE DEF IInv, TypeOK, Callers
<1>1. CASE c = "apply"
  BY <1>1, OtherSteps DEF Answer
<1>2. CASE c = "setup" /\ ok
  BY <1>2 DEF Answer, plugin, InOrder, KnownDevices, LastSent, NoCall
<1>3. CASE c = "setup" /\ ~ok
  <2>1. call' = [d \in Callers |-> NoCall] /\ PluginEnds
    BY <1>3 DEF Answer, Abandon, Exit
  <2>2. call'["setup"].step = "none"
    BY <2>1 DEF NoCall
  <2>3. QED BY <2>1, <2>2, EndOrder
<1>4. QED BY <1>1, <1>2, <1>3

\* Steps of the VSP.
LEMMA VspOrder ==
  ASSUME IInv, NEW c \in Callers, VspStep(c)
  PROVE  InOrder' /\ KnownDevices'
<1>1. call[c].step # "none"
  BY DEF VspStep, SetNumVfs, ResetVfs, CreateVfs, ReloadVfs
<1>2. ASSUME NEW next \in {"set", "reload"}, call' = [call EXCEPT ![c].step = next],
             UNCHANGED <<control, plugin, loop, mgr, late>>
      PROVE  InOrder' /\ KnownDevices'
  BY <1>1, <1>2, OtherSteps DEF IInv, TypeOK, Callers
<1>3. ASSUME NEW next \in {"ok", "failed"}, Answer(c, next = "ok")
      PROVE  InOrder' /\ KnownDevices'
  <2>1. (next = "ok") \in BOOLEAN
    OBVIOUS
  <2>2. QED BY <1>1, <1>3, <2>1, AnswerOrder
<1>4. QED BY <1>2, <1>3 DEF VspStep

\* The last element of a sequence is the last of its tail, or its head.
LEMMA TailLast ==
  ASSUME NEW S, NEW w \in Seq(S), w # <<>>
  PROVE  w[Len(w)] = IF Len(Tail(w)) = 0 THEN Head(w) ELSE Tail(w)[Len(Tail(w))]
<1>1. Len(w) \in Nat /\ Len(w) # 0
  OBVIOUS
<1>2. Len(Tail(w)) = Len(w) - 1
  OBVIOUS
<1>3. CASE Len(w) = 1
  BY <1>2, <1>3
<1>4. CASE Len(w) # 1
  <2>1. Len(w) - 1 # 0 /\ Len(w) - 1 \in 1 .. Len(Tail(w))
    BY <1>1, <1>2, <1>4
  <2>2. Tail(w)[Len(w) - 1] = w[Len(w)]
    BY <2>1
  <2>3. QED BY <1>2, <2>1, <2>2
<1>5. QED BY <1>3, <1>4

\* Steps of ListAndWatch and the kubelet, and the end of the VSP.
LEMMA PluginOrder ==
  ASSUME IInv, LwStep \/ KubeletReceives \/ KubeletRestarts \/ VspDies
  PROVE  InOrder' /\ KnownDevices'
<1> USE DEF IInv, TypeOK
<1>1. CASE LwGet
  BY <1>1 DEF LwGet, InOrder, KnownDevices, LastSent, vsp
<1>2. CASE LwSend
  <2>1. CASE wire' = Append(wire, got) /\ lw' = "sent" /\ UNCHANGED <<got, registered>>
    <3>1. LastSent' = got'
      BY <2>1 DEF LastSent
    <3>2. KnownDevices'
      BY <1>2, <2>1, <3>1 DEF KnownDevices, LwSend
    <3>3. QED BY <1>2, <2>1, <3>2 DEF LwSend, InOrder, vsp
  <2>2. CASE wire' = <<>> /\ registered' = FALSE /\ kubelet' = {} /\ lw' = "off"
    BY <1>2, <2>2 DEF LwSend, InOrder, KnownDevices, vsp
  <2>3. QED BY <1>2, <2>1, <2>2 DEF LwSend
<1>3. CASE LwCache
  BY <1>3 DEF LwCache, Cached, InOrder, KnownDevices, LastSent, vsp
<1>4. CASE KubeletReceives
  <2>1. wire # <<>> /\ kubelet' = Head(wire) /\ wire' = Tail(wire)
        /\ UNCHANGED <<mgr, call, lw, got, cache, registered>>
    BY <1>4 DEF KubeletReceives, vsp
  <2>2. LastSent' = LastSent
    <3>1. wire \in Seq(Lists)
      OBVIOUS
    <3>2. Len(wire) # 0
      BY <2>1, <3>1
    <3>3. LastSent = wire[Len(wire)]
      BY <3>2 DEF LastSent
    <3>4. LastSent' = IF Len(Tail(wire)) = 0 THEN Head(wire)
                      ELSE Tail(wire)[Len(Tail(wire))]
      BY <2>1 DEF LastSent
    <3>5. QED BY <2>1, <3>1, <3>3, <3>4, TailLast
  <2>3. registered
    BY <2>1 DEF KnownDevices
  <2>4. QED BY <2>1, <2>2, <2>3 DEF InOrder, KnownDevices
<1>5. CASE KubeletRestarts
  BY <1>5 DEF KubeletRestarts, InOrder, KnownDevices, vsp
<1>6. CASE VspDies
  <2>1. call'["setup"].step = "none"
    BY <1>6 DEF VspDies, Callers, NoCall
  <2>2. CASE Exit(TRUE)
    BY <2>1, <2>2, EndOrder DEF Exit
  <2>3. CASE UNCHANGED <<control, plugin, managed, applied, undone, mgr>>
    BY <2>1, <2>3, OtherSteps
  <2>4. QED BY <1>6, <2>2, <2>3 DEF VspDies
<1>7. QED BY <1>1, <1>2, <1>3, <1>4, <1>5, <1>6 DEF LwStep

\* Whatever device the kubelet asks for, Allocate knows it, or is about to, or the
\* kubelet is about to hear that it is gone: restarts of the kubelet, of the VSP
\* and of the daemon, streams that break and lists that arrive late never leave
\* the kubelet with a device that the device plugin has forgotten.
THEOREM AllocateKnowsDevices == Spec => []AllocateFinds
<1>1. Init => InOrder /\ KnownDevices
  BY DEF Init, InOrder, KnownDevices, NoCall, Callers
<1>2. TypeOK /\ InOrder /\ KnownDevices /\ [Next]_vars
        => InOrder' /\ KnownDevices'
  <2> SUFFICES ASSUME IInv, [Next]_vars PROVE InOrder' /\ KnownDevices'
    BY DEF IInv
  <2>1. CASE \E k \in Configs : EditCfg(k) \/ ReconcileCfg(k)
    BY <2>1, OtherSteps DEF IInv, EditCfg, ReconcileCfg, vsp
  <2>2. CASE UNCHANGED vars
    BY <2>2, OtherSteps DEF IInv, vars, vsp
  <2>3. CASE \E i \in 1 .. MaxLate : LateStep(i)
    BY <2>3, OtherSteps DEF IInv, LateStep
  <2>4. QED BY <2>1, <2>2, <2>3, ManagerOrder, VspOrder, PluginOrder DEF Next
<1>3. TypeOK /\ KnownDevices => AllocateFinds
  <2> SUFFICES ASSUME TypeOK, KnownDevices, NEW d \in kubelet
               PROVE  \/ Allocates(d)
                      \/ lw = "sent" /\ d \in got
                      \/ \E i \in DOMAIN wire : d \notin wire[i]
    BY DEF AllocateFinds
  <2>1. registered
    BY DEF KnownDevices
  <2>2. LastSent = cache \/ (lw = "sent" /\ LastSent = got)
    BY <2>1 DEF KnownDevices
  <2>3. CASE wire = <<>>
    BY <2>2, <2>3 DEF LastSent, Allocates
  <2>4. CASE wire # <<>>
    <3>1. Len(wire) \in DOMAIN wire /\ LastSent = wire[Len(wire)]
      BY <2>4 DEF TypeOK, LastSent
    <3>2. QED BY <2>2, <3>1 DEF Allocates
  <2>5. QED BY <2>3, <2>4
<1>4. QED BY <1>1, <1>2, <1>3, TypeCorrect, PTL DEF Spec

(***************************************************************************)
(* Detection and registry: types.                                          *)
(***************************************************************************)
\* The initial states are well typed.
LEMMA InitTypeOK == Det!NodeOK /\ Det!Init => Det!TypeOK
<1> SUFFICES ASSUME Det!NodeOK, Det!Init PROVE Det!TypeOK
  OBVIOUS
<1> USE DEF Det!NodeOK, Det!Init, Det!Filled
<1>1. \A k \in DOMAIN deviceIndex : deviceIndex[k] \in Compiled
  OBVIOUS
<1>2. det \in 0 .. Len(Det!Detectors)
  BY DEF Det!Detectors
<1>3. QED BY <1>1, <1>2 DEF Det!TypeOK

\* The calls of the registry keep to plugins that there are.
LEMMA RegistryCallTypes == Det!TypeOK /\ Det!RegistryCall => Det!TypeOK'
<1> SUFFICES ASSUME Det!TypeOK, Det!RegistryCall PROVE Det!TypeOK'
  OBVIOUS
<1> USE DEF Det!TypeOK, Det!RegistryCall, Det!scan
<1>1. ASSUME NEW p \in Plugins, Det!Register(p) PROVE Det!TypeOK'
  BY <1>1 DEF Det!Register
<1>2. ASSUME NEW p \in Plugins, Det!Unregister(p) PROVE Det!TypeOK'
  BY <1>2 DEF Det!Unregister, Det!Kept
<1>3. CASE Det!Clear
  BY <1>3 DEF Det!Clear
<1>4. QED BY <1>1, <1>2, <1>3

\* The steps of DetectAll keep to the detectors and ports that there are.
LEMMA DetectTypes == Det!TypeOK /\ (Det!DetectStep \/ Det!PlatformFails) => Det!TypeOK'
<1> SUFFICES ASSUME Det!TypeOK, Det!DetectStep \/ Det!PlatformFails PROVE Det!TypeOK'
  OBVIOUS
<1> USE DEF Det!TypeOK, Det!environment, Det!registry, Det!DetectAllFails
<1>1. Len(Det!Detectors) = 6
  BY DEF Det!Detectors
<1>2. CASE Det!NextDetector
  BY <1>1, <1>2 DEF Det!NextDetector
<1>3. ASSUME NEW i \in Ports, Det!IsDPU(i) PROVE Det!TypeOK'
  BY <1>3 DEF Det!IsDPU
<1>4. CASE Det!GetDpuIdentifier
  BY <1>4 DEF Det!GetDpuIdentifier
<1>5. CASE Det!SerialFails
  BY <1>1, <1>5 DEF Det!SerialFails
<1>6. CASE Det!Finish
  BY <1>1, <1>6 DEF Det!Finish
<1>7. CASE Det!PlatformFails
  BY <1>1, <1>7 DEF Det!PlatformFails
<1>8. QED BY <1>2, <1>3, <1>4, <1>5, <1>6, <1>7 DEF Det!DetectStep

\* Every reachable state of the detection is well typed.
THEOREM DetectionTypeCorrect ==
  ASSUME Det!NodeOK PROVE Det!Spec => []Det!TypeOK
<1>1. Det!TypeOK /\ [Det!Next]_(Det!vars) => Det!TypeOK'
  <2> SUFFICES ASSUME Det!TypeOK, [Det!Next]_(Det!vars) PROVE Det!TypeOK'
    OBVIOUS
  <2>1. ASSUME NEW c \in Cards, Det!PlugOrUnplug(c) PROVE Det!TypeOK'
    BY <2>1 DEF Det!PlugOrUnplug, Det!TypeOK, Det!registry, Det!scan
  <2>2. CASE UNCHANGED Det!vars
    BY <2>2 DEF Det!vars, Det!TypeOK, Det!registry, Det!scan
  <2>3. QED BY <2>1, <2>2, RegistryCallTypes, DetectTypes DEF Det!Next
<1>2. QED BY <1>1, InitTypeOK, PTL DEF Det!Spec

(***************************************************************************)
(* The index of the plugin registry.                                       *)
(***************************************************************************)
\* Detection has the registry of this module.
LEMMA SameRegistry ==
  /\ Det!Filled <=> Filled
  /\ Det!Clear <=> Clear
  /\ \A p : (Det!Register(p) <=> Register(p)) /\ (Det!Unregister(p) <=> Unregister(p))
BY DEF Det!Filled, Filled, Det!Clear, Clear, Det!Register, Register,
   Det!Unregister, Unregister, Det!Claimed, Claimed, Det!Kept, Kept, Det!Keys, Keys,
   Det!Lower, Lower

\* Register, whose check of all device IDs comes before its first write, keeps
\* the index exact.
LEMMA RegisterExact ==
  ASSUME IndexExact, NEW p \in Plugins, Register(p)
  PROVE  IndexExact'
<1> USE DEF Register
<1>1. Keys(p) \cap DOMAIN deviceIndex = {}
  BY DEF Claimed
<1>2. /\ DOMAIN deviceIndex' = DOMAIN deviceIndex \cup Keys(p)
      /\ \A k \in Keys(p) : deviceIndex'[k] = p
      /\ \A k \in DOMAIN deviceIndex : deviceIndex'[k] = deviceIndex[k]
  BY <1>1
<1>3. ASSUME NEW k \in DOMAIN deviceIndex'
      PROVE  deviceIndex'[k] \in plugins' /\ k \in Keys(deviceIndex'[k])
  BY <1>2 DEF IndexExact
<1>4. ASSUME NEW q \in plugins', NEW k \in Keys(q)
      PROVE  k \in DOMAIN deviceIndex' /\ deviceIndex'[k] = q
  BY <1>2 DEF IndexExact
<1>5. QED BY <1>3, <1>4 DEF IndexExact

\* Unregister takes away the keys of one plugin and no others.
LEMMA UnregisterExact ==
  ASSUME IndexExact, NEW p \in Plugins, Unregister(p)
  PROVE  IndexExact'
<1> USE DEF Unregister
<1>1. /\ DOMAIN deviceIndex' = Kept(p)
      /\ \A k \in Kept(p) : deviceIndex'[k] = deviceIndex[k]
  OBVIOUS
<1>2. \A k \in DOMAIN deviceIndex : k \in Kept(p) <=> deviceIndex[k] # p
  BY DEF Kept, IndexExact
<1>3. ASSUME NEW k \in DOMAIN deviceIndex'
      PROVE  deviceIndex'[k] \in plugins' /\ k \in Keys(deviceIndex'[k])
  BY <1>1, <1>2 DEF IndexExact, Kept
<1>4. ASSUME NEW q \in plugins', NEW k \in Keys(q)
      PROVE  k \in DOMAIN deviceIndex' /\ deviceIndex'[k] = q
  BY <1>1, <1>2 DEF IndexExact
<1>5. QED BY <1>3, <1>4 DEF IndexExact

\* The packages that are compiled in claim different devices.
LEMMA FilledExact == Filled => IndexExact
<1> SUFFICES ASSUME Filled PROVE IndexExact
  OBVIOUS
<1> USE DEF Filled
<1>1. ASSUME NEW k, NEW p \in Compiled, NEW q \in Compiled,
             k \in Keys(p), k \in Keys(q)
      PROVE  p = q
  BY <1>1, CompiledAssumption DEF ClaimedOnce, Keys, Lower
<1>2. ASSUME NEW k \in DOMAIN deviceIndex
      PROVE  deviceIndex[k] \in Compiled /\ k \in Keys(deviceIndex[k])
  OBVIOUS
<1>3. ASSUME NEW p \in Compiled, NEW k \in Keys(p)
      PROVE  k \in DOMAIN deviceIndex /\ deviceIndex[k] = p
  <2>1. k \in DOMAIN deviceIndex
    OBVIOUS
  <2>2. QED BY <1>1, <1>2, <2>1
<1>4. QED BY <1>2, <1>3 DEF IndexExact

\* The device index of the plugin registry leads from every device ID to the one
\* registered plugin that claims it, and from no other, whatever calls of
\* Register, Unregister and Clear came before.
THEOREM IndexStaysExact == Det!Spec => []IndexExact
<1>1. IndexExact /\ [Det!Next]_(Det!vars) => IndexExact'
  <2> SUFFICES ASSUME IndexExact, [Det!Next]_(Det!vars) PROVE IndexExact'
    OBVIOUS
  <2>1. CASE UNCHANGED registry
    BY <2>1 DEF registry, IndexExact
  <2>2. CASE Det!RegistryCall
    <3>1. CASE Clear
      BY <3>1 DEF Clear, IndexExact
    <3>2. QED
      BY <2>2, <3>1, RegisterExact, UnregisterExact, SameRegistry DEF Det!RegistryCall
  <2>3. QED
    BY <2>1, <2>2 DEF Det!Next, Det!vars, Det!DetectStep, Det!NextDetector, Det!IsDPU,
       Det!GetDpuIdentifier, Det!SerialFails, Det!Finish, Det!PlatformFails, Det!PlugOrUnplug,
       Det!environment, Det!registry, registry
<1>2. Det!Init => IndexExact
  BY FilledExact, SameRegistry DEF Det!Init
<1>3. QED BY <1>1, <1>2, PTL DEF Det!Spec

=============================================================================
