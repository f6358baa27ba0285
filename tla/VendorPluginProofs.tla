------------------------- MODULE VendorPluginProofs -------------------------
(***************************************************************************)
(* Proofs about VendorPlugin for every set of plugins, callers and ports   *)
(* and every bound: type correctness, ClientOutlivesCreate, FlagIsRight    *)
(* for a plugin that does not share the registry plugin, PortOnBridge and  *)
(* DeletedIsGone.                                                          *)
(***************************************************************************)
EXTENDS VendorPlugin, TLAPS

\* Only a plugin that has been removed is being closed.
CloseAfterRemove ==
    \A g \in Plugins, w \in Closers :
        life[g] # "removed" => closing[<<g, w>>] = "idle"

\* Readers are calls of CreateBridgePort.
ReadersCreate == \A c \in Readers : arg[c].op = "create"

\* The vendor has one GrpcPlugin.
OnePlugin == \E g : Plugins = {g}

\* FlagIsRight is inductive together with CloseAfterRemove: Remove starts both
\* Closes anew, and must not hide one that has shut the registry plugin down.
IInv ==
    /\ TypeOK
    /\ ReadersCreate
    /\ ClientOutlivesCreate
    /\ CloseAfterRemove
    /\ OnePlugin => FlagIsRight

\* An idle caller has an argument of the right type.
LEMMA NoArgType == NoArg \in Args
BY ConstantsAssumption DEF NoArg, Args, AllOps, PortOps

\* The initial states satisfy it.
LEMMA InitIInv == Init => IInv
<1> SUFFICES ASSUME Init PROVE IInv
  OBVIOUS
<1> USE ConstantsAssumption DEF Init
<1>1. TypeOK
  <2>1. life \in [Plugins -> {"absent", "open", "removed"}]
    OBVIOUS
  <2>2. pc \in [Callers -> Pcs] /\ arg \in [Callers -> Args]
        /\ res \in [Callers -> Results]
    BY NoArgType DEF Pcs, Results
  <2>3. closing \in [Plugins \X Closers -> ClosePcs]
    BY DEF ClosePcs
  <2>4. calls \in 0..MaxCalls /\ faults \in 0..MaxBridgeFaults
    OBVIOUS
  <2>5. QED BY <2>1, <2>2, <2>3, <2>4 DEF TypeOK
<1>2. ReadersCreate
  BY DEF ReadersCreate, Readers
<1>3. ClientOutlivesCreate
  BY DEF ClientOutlivesCreate, Readers
<1>4. CloseAfterRemove
  BY DEF CloseAfterRemove
<1>5. FlagIsRight
  BY DEF FlagIsRight
<1>6. QED BY <1>1, <1>2, <1>3, <1>4, <1>5 DEF IInv

(***************************************************************************)
(* Every step preserves it.                                                *)
(***************************************************************************)
\* A call that begins holds nothing.
LEMMA BeginStep ==
  ASSUME IInv, NEW c \in Callers, NEW g \in Plugins, NEW op \in AllOps,
         NEW p \in Ports \cup {NoPort},
         Begin(c, g, op, p)
  PROVE  IInv'
<1> USE ConstantsAssumption DEF IInv, Begin, plugVars, callVars, bridgeVars, At
<1>1. TypeOK'
  <2>1. calls' \in 0..MaxCalls
    BY DEF TypeOK
  <2>2. [g |-> g, op |-> op, port |-> p] \in Args
    BY DEF Args
  <2>3. pc' \in [Callers -> Pcs] /\ arg' \in [Callers -> Args]
        /\ res' \in [Callers -> Results]
    BY <2>2 DEF TypeOK, Pcs, Results
  <2>4. QED BY <2>1, <2>3 DEF TypeOK
<1>2. ReadersCreate'
  BY DEF TypeOK, ReadersCreate, Readers
<1>3. ClientOutlivesCreate'
  BY DEF TypeOK, ClientOutlivesCreate, Readers
<1>4. CloseAfterRemove'
  BY DEF CloseAfterRemove
<1>5. OnePlugin => FlagIsRight'
  BY DEF FlagIsRight
<1>6. QED BY <1>1, <1>2, <1>3, <1>4, <1>5

\* Initialize waits for the readers and leaves the plugin initialized when it
\* sets registryInitialized.
LEMMA EnsureStep ==
  ASSUME IInv, NEW c \in Callers,
         Ensure(c)
  PROVE  IInv'
<1> USE ConstantsAssumption DEF IInv, Ensure, plugVars, callVars, bridgeVars, At, GoTo, Initialize
<1>1. TypeOK'
  BY DEF TypeOK, Pcs, Results, Setups
<1>2. ReadersCreate'
  BY DEF TypeOK, ReadersCreate, Readers
<1>3. ClientOutlivesCreate'
  BY DEF TypeOK, ClientOutlivesCreate, Readers
<1>4. CloseAfterRemove'
  BY DEF TypeOK, CloseAfterRemove
<1>5. OnePlugin => FlagIsRight'
  <2> SUFFICES ASSUME OnePlugin PROVE FlagIsRight'
    OBVIOUS
  <2>1. CASE UNCHANGED plugVars
    BY <2>1 DEF FlagIsRight
  <2>2. CASE Initialize(arg[c].g)
    <3>1. \A h \in Plugins : h = arg[c].g
      BY DEF TypeOK, Args, OnePlugin
    <3>2. \A h \in Plugins : flag'[h] => shared'
      BY <2>2, <3>1 DEF TypeOK
    <3>3. QED BY <3>2 DEF FlagIsRight
  <2>3. QED BY <2>1, <2>2
<1>6. QED BY <1>1, <1>2, <1>3, <1>4, <1>5

\* Only the time of the last attempt changes.
LEMMA RetryIntervalStep ==
  ASSUME IInv, NEW g \in Plugins,
         RetryInterval(g)
  PROVE  IInv'
<1> USE ConstantsAssumption DEF IInv, RetryInterval, plugVars, callVars, bridgeVars
<1>1. TypeOK'
  BY DEF TypeOK
<1>2. ReadersCreate'
  BY DEF ReadersCreate, Readers
<1>3. ClientOutlivesCreate'
  BY DEF ClientOutlivesCreate, Readers
<1>4. CloseAfterRemove'
  BY DEF CloseAfterRemove
<1>5. OnePlugin => FlagIsRight'
  BY DEF FlagIsRight
<1>6. QED BY <1>1, <1>2, <1>3, <1>4, <1>5

\* The call ends or goes on to the VSP.
LEMMA RegistryClosedStep ==
  ASSUME IInv, NEW c \in Callers,
         RegistryClosed(c)
  PROVE  IInv'
<1> USE ConstantsAssumption DEF IInv, RegistryClosed, plugVars, callVars, bridgeVars, At, GoTo, Return, FallBack, RegistryError
<1>1. TypeOK'
  BY NoArgType DEF TypeOK, Pcs, Results
<1>2. ReadersCreate'
  BY DEF TypeOK, ReadersCreate, Readers
<1>3. ClientOutlivesCreate'
  BY DEF TypeOK, ClientOutlivesCreate, Readers
<1>4. CloseAfterRemove'
  BY DEF CloseAfterRemove
<1>5. OnePlugin => FlagIsRight'
  BY DEF FlagIsRight
<1>6. QED BY <1>1, <1>2, <1>3, <1>4, <1>5

\* The call ends or goes on.
LEMMA DiscoverStep ==
  ASSUME IInv, NEW c \in Callers,
         Discover(c)
  PROVE  IInv'
<1> USE ConstantsAssumption DEF IInv, Discover, plugVars, callVars, bridgeVars, At, GoTo, Return, FallBack
<1>1. TypeOK'
  BY NoArgType DEF TypeOK, Pcs, Results
<1>2. ReadersCreate'
  BY DEF TypeOK, ReadersCreate, Readers
<1>3. ClientOutlivesCreate'
  BY DEF TypeOK, ClientOutlivesCreate, Readers
<1>4. CloseAfterRemove'
  BY DEF CloseAfterRemove
<1>5. OnePlugin => FlagIsRight'
  BY DEF FlagIsRight
<1>6. QED BY <1>1, <1>2, <1>3, <1>4, <1>5

\* The call ends.
LEMMA SetVfsStep ==
  ASSUME IInv, NEW c \in Callers,
         SetVfs(c)
  PROVE  IInv'
<1> USE ConstantsAssumption DEF IInv, SetVfs, plugVars, callVars, bridgeVars, At, Return, RegistryError
<1>1. TypeOK'
  BY NoArgType DEF TypeOK, Pcs, Results
<1>2. ReadersCreate'
  BY DEF TypeOK, ReadersCreate, Readers
<1>3. ClientOutlivesCreate'
  BY DEF TypeOK, ClientOutlivesCreate, Readers
<1>4. CloseAfterRemove'
  BY DEF CloseAfterRemove
<1>5. OnePlugin => FlagIsRight'
  BY DEF FlagIsRight
<1>6. QED BY <1>1, <1>2, <1>3, <1>4, <1>5

\* The call goes on to the VSP.
LEMMA RegistryNfStep ==
  ASSUME IInv, NEW c \in Callers,
         RegistryNf(c)
  PROVE  IInv'
<1> USE ConstantsAssumption DEF IInv, RegistryNf, plugVars, callVars, bridgeVars, At, GoTo, FallBack
<1>1. TypeOK'
  BY DEF TypeOK, Pcs, Results
<1>2. ReadersCreate'
  BY DEF TypeOK, ReadersCreate, Readers
<1>3. ClientOutlivesCreate'
  BY DEF TypeOK, ClientOutlivesCreate, Readers
<1>4. CloseAfterRemove'
  BY DEF CloseAfterRemove
<1>5. OnePlugin => FlagIsRight'
  BY DEF FlagIsRight
<1>6. QED BY <1>1, <1>2, <1>3, <1>4, <1>5

\* The call ends or goes on to the VSP.
LEMMA RegistryDeleteStep ==
  ASSUME IInv, NEW c \in Callers,
         RegistryDelete(c)
  PROVE  IInv'
<1> USE ConstantsAssumption DEF IInv, RegistryDelete, plugVars, callVars, bridgeVars, At, GoTo, Return, FallBack, RegistryError
<1>1. TypeOK'
  <2>1. opiPorts' \subseteq Ports
    BY DEF TypeOK
  <2>2. arg' \in [Callers -> Args]
    BY NoArgType DEF TypeOK
  <2>3. QED BY <2>1, <2>2 DEF TypeOK, Pcs, Results
<1>2. ReadersCreate'
  BY DEF TypeOK, ReadersCreate, Readers
<1>3. ClientOutlivesCreate'
  BY DEF TypeOK, ClientOutlivesCreate, Readers
<1>4. CloseAfterRemove'
  BY DEF CloseAfterRemove
<1>5. OnePlugin => FlagIsRight'
  BY DEF FlagIsRight
<1>6. QED BY <1>1, <1>2, <1>3, <1>4, <1>5

\* The one step that makes a reader, after a look at p.initialized.
LEMMA RegistryCreateStep ==
  ASSUME IInv, NEW c \in Callers,
         RegistryCreate(c)
  PROVE  IInv'
<1> USE ConstantsAssumption DEF IInv, RegistryCreate, plugVars, callVars, bridgeVars, At, GoTo
<1>1. TypeOK'
  BY DEF TypeOK, Pcs, Results
<1>2. ReadersCreate'
  BY DEF TypeOK, ReadersCreate, Readers
<1>3. ClientOutlivesCreate'
  BY DEF TypeOK, ClientOutlivesCreate, Readers
<1>4. CloseAfterRemove'
  BY DEF CloseAfterRemove
<1>5. OnePlugin => FlagIsRight'
  BY DEF FlagIsRight
<1>6. QED BY <1>1, <1>2, <1>3, <1>4, <1>5

\* A reader goes on or stops being one.
LEMMA GetLogicalBridgeStep ==
  ASSUME IInv, NEW c \in Callers,
         GetLogicalBridge(c)
  PROVE  IInv'
<1> USE ConstantsAssumption DEF IInv, GetLogicalBridge, plugVars, callVars, bridgeVars, At, GoTo, Return, FallBack, RegistryError
<1>1. TypeOK'
  BY NoArgType DEF TypeOK, Pcs, Results
<1>2. ReadersCreate'
  BY DEF TypeOK, ReadersCreate, Readers
<1>3. ClientOutlivesCreate'
  BY DEF TypeOK, ClientOutlivesCreate, Readers
<1>4. CloseAfterRemove'
  BY DEF CloseAfterRemove
<1>5. OnePlugin => FlagIsRight'
  BY DEF FlagIsRight
<1>6. QED BY <1>1, <1>2, <1>3, <1>4, <1>5

\* A reader goes on or stops being one.
LEMMA CreateLogicalBridgeStep ==
  ASSUME IInv, NEW c \in Callers,
         CreateLogicalBridge(c)
  PROVE  IInv'
<1> USE ConstantsAssumption DEF IInv, CreateLogicalBridge, plugVars, callVars, bridgeVars, At, GoTo, Return,
        FallBack, RegistryError
<1>1. TypeOK'
  <2>1. arg' \in [Callers -> Args]
    BY NoArgType DEF TypeOK
  <2>2. logical' \in BOOLEAN
    BY DEF TypeOK
  <2>3. QED BY <2>1, <2>2 DEF TypeOK, Pcs, Results
<1>2. ReadersCreate'
  BY DEF TypeOK, ReadersCreate, Readers
<1>3. ClientOutlivesCreate'
  BY DEF TypeOK, ClientOutlivesCreate, Readers
<1>4. CloseAfterRemove'
  BY DEF CloseAfterRemove
<1>5. OnePlugin => FlagIsRight'
  BY DEF FlagIsRight
<1>6. QED BY <1>1, <1>2, <1>3, <1>4, <1>5

\* A reader stops being one.
LEMMA CreatePortStep ==
  ASSUME IInv, NEW c \in Callers,
         CreatePort(c)
  PROVE  IInv'
<1> USE ConstantsAssumption DEF IInv, CreatePort, plugVars, callVars, bridgeVars, At, GoTo, Return,
        FallBack, RegistryError
<1>1. TypeOK'
  <2>1. arg[c].port \in Ports
    BY DEF TypeOK, Args, PortOps, ReadersCreate, Readers
  <2>2. opiPorts' \subseteq Ports
    BY <2>1 DEF TypeOK
  <2>3. arg' \in [Callers -> Args]
    BY NoArgType DEF TypeOK
  <2>4. QED BY <2>2, <2>3 DEF TypeOK, Pcs, Results
<1>2. ReadersCreate'
  BY DEF TypeOK, ReadersCreate, Readers
<1>3. ClientOutlivesCreate'
  BY DEF TypeOK, ClientOutlivesCreate, Readers
<1>4. CloseAfterRemove'
  BY DEF CloseAfterRemove
<1>5. OnePlugin => FlagIsRight'
  BY DEF FlagIsRight
<1>6. QED BY <1>1, <1>2, <1>3, <1>4, <1>5

\* Only the connection to the VSP changes.
LEMMA ConnectStep ==
  ASSUME IInv, NEW c \in Callers,
         Connect(c)
  PROVE  IInv'
<1> USE ConstantsAssumption DEF IInv, Connect, plugVars, callVars, bridgeVars, At, GoTo
<1>1. TypeOK'
  BY DEF TypeOK, Pcs, Results
<1>2. ReadersCreate'
  BY DEF TypeOK, ReadersCreate, Readers
<1>3. ClientOutlivesCreate'
  BY DEF TypeOK, ClientOutlivesCreate, Readers
<1>4. CloseAfterRemove'
  BY DEF CloseAfterRemove
<1>5. OnePlugin => FlagIsRight'
  BY DEF FlagIsRight
<1>6. QED BY <1>1, <1>2, <1>3, <1>4, <1>5

\* The call ends.
LEMMA CallVspStep ==
  ASSUME IInv, NEW c \in Callers,
         CallVsp(c)
  PROVE  IInv'
<1> USE ConstantsAssumption DEF IInv, CallVsp, plugVars, callVars, bridgeVars, At, Return, PortOps
<1>1. TypeOK'
  <2>1. arg[c].op = "create" => arg[c].port \in Ports
    BY DEF TypeOK, Args
  <2>2. vspPorts' \subseteq Ports
    BY <2>1 DEF TypeOK
  <2>3. /\ pc' \in [Callers -> Pcs] /\ arg' \in [Callers -> Args]
        /\ res' \in [Callers -> Results]
    BY NoArgType DEF TypeOK, Pcs, Results
  <2>4. crashed' \in BOOLEAN
    BY DEF TypeOK
  <2>5. QED BY <2>2, <2>3, <2>4 DEF TypeOK
<1>2. ReadersCreate'
  BY DEF TypeOK, ReadersCreate, Readers
<1>3. ClientOutlivesCreate'
  BY DEF TypeOK, ClientOutlivesCreate, Readers
<1>4. CloseAfterRemove'
  BY DEF CloseAfterRemove
<1>5. OnePlugin => FlagIsRight'
  BY DEF FlagIsRight
<1>6. QED BY <1>1, <1>2, <1>3, <1>4, <1>5

\* A new plugin has not initialized anything.
LEMMA AttachStep ==
  ASSUME IInv, NEW g \in Plugins,
         Attach(g)
  PROVE  IInv'
<1> USE ConstantsAssumption DEF IInv, Attach, plugVars, callVars, bridgeVars
<1>1. TypeOK'
  BY DEF TypeOK
<1>2. ReadersCreate'
  BY DEF ReadersCreate, Readers
<1>3. ClientOutlivesCreate'
  BY DEF ClientOutlivesCreate, Readers
<1>4. CloseAfterRemove'
  BY DEF TypeOK, CloseAfterRemove
<1>5. OnePlugin => FlagIsRight'
  BY DEF TypeOK, OnePlugin, FlagIsRight, CloseAfterRemove
<1>6. QED BY <1>1, <1>2, <1>3, <1>4, <1>5

\* Both Closes begin; none was under way.
LEMMA RemoveStep ==
  ASSUME IInv, NEW g \in Plugins,
         Remove(g)
  PROVE  IInv'
<1> USE ConstantsAssumption DEF IInv, Remove, plugVars, callVars, bridgeVars
<1>1. TypeOK'
  BY DEF TypeOK, ClosePcs
<1>2. ReadersCreate'
  BY DEF ReadersCreate, Readers
<1>3. ClientOutlivesCreate'
  BY DEF ClientOutlivesCreate, Readers
<1>4. CloseAfterRemove'
  BY DEF TypeOK, CloseAfterRemove
<1>5. OnePlugin => FlagIsRight'
  <2> SUFFICES ASSUME OnePlugin, flag[g] PROVE shared
    BY DEF OnePlugin, FlagIsRight
  <2>1. \A w \in Closers : closing[<<g, w>>] # "clear"
    BY DEF CloseAfterRemove
  <2>2. QED BY <2>1 DEF FlagIsRight
<1>6. QED BY <1>1, <1>2, <1>3, <1>4, <1>5

\* Close proceeds.
LEMMA CloseReadStep ==
  ASSUME IInv, NEW g \in Plugins, NEW w \in Closers,
         CloseRead(g, w)
  PROVE  IInv'
<1> USE ConstantsAssumption DEF IInv, CloseRead, plugVars, callVars, bridgeVars, CloseAt, CloseTo
<1>1. TypeOK'
  BY DEF TypeOK, ClosePcs
<1>2. ReadersCreate'
  BY DEF ReadersCreate, Readers
<1>3. ClientOutlivesCreate'
  BY DEF ClientOutlivesCreate, Readers
<1>4. CloseAfterRemove'
  BY DEF TypeOK, CloseAfterRemove
<1>5. OnePlugin => FlagIsRight'
  BY DEF TypeOK, OnePlugin, FlagIsRight, CloseAfterRemove
<1>6. QED BY <1>1, <1>2, <1>3, <1>4, <1>5

\* There is no reader, and this Close is now the one that excuses the flag.
LEMMA CloseShutdownStep ==
  ASSUME IInv, NEW g \in Plugins, NEW w \in Closers,
         CloseShutdown(g, w)
  PROVE  IInv'
<1> USE ConstantsAssumption DEF IInv, CloseShutdown, plugVars, callVars, bridgeVars, CloseAt, CloseTo
<1>1. TypeOK'
  BY DEF TypeOK, ClosePcs
<1>2. ReadersCreate'
  BY DEF ReadersCreate, Readers
<1>3. ClientOutlivesCreate'
  BY DEF ClientOutlivesCreate, Readers
<1>4. CloseAfterRemove'
  BY DEF TypeOK, CloseAfterRemove
<1>5. OnePlugin => FlagIsRight'
  BY DEF TypeOK, OnePlugin, FlagIsRight, CloseAfterRemove
<1>6. QED BY <1>1, <1>2, <1>3, <1>4, <1>5

\* The flag is down when the excuse ends.
LEMMA CloseClearStep ==
  ASSUME IInv, NEW g \in Plugins, NEW w \in Closers,
         CloseClear(g, w)
  PROVE  IInv'
<1> USE ConstantsAssumption DEF IInv, CloseClear, plugVars, callVars, bridgeVars, CloseAt, CloseTo
<1>1. TypeOK'
  BY DEF TypeOK, ClosePcs
<1>2. ReadersCreate'
  BY DEF ReadersCreate, Readers
<1>3. ClientOutlivesCreate'
  BY DEF ClientOutlivesCreate, Readers
<1>4. CloseAfterRemove'
  BY DEF TypeOK, CloseAfterRemove
<1>5. OnePlugin => FlagIsRight'
  BY DEF TypeOK, OnePlugin, FlagIsRight, CloseAfterRemove
<1>6. QED BY <1>1, <1>2, <1>3, <1>4, <1>5

\* Close proceeds.
LEMMA CloseConnStep ==
  ASSUME IInv, NEW g \in Plugins, NEW w \in Closers,
         CloseConn(g, w)
  PROVE  IInv'
<1> USE ConstantsAssumption DEF IInv, CloseConn, plugVars, callVars, bridgeVars, CloseAt, CloseTo
<1>1. TypeOK'
  BY DEF TypeOK, ClosePcs
<1>2. ReadersCreate'
  BY DEF ReadersCreate, Readers
<1>3. ClientOutlivesCreate'
  BY DEF ClientOutlivesCreate, Readers
<1>4. CloseAfterRemove'
  BY DEF TypeOK, CloseAfterRemove
<1>5. OnePlugin => FlagIsRight'
  BY DEF TypeOK, OnePlugin, FlagIsRight, CloseAfterRemove
<1>6. QED BY <1>1, <1>2, <1>3, <1>4, <1>5

\* Only the bridge changes.
LEMMA BridgeDownStep ==
  ASSUME IInv, BridgeDown
  PROVE  IInv'
<1> USE ConstantsAssumption DEF IInv, BridgeDown, plugVars, callVars, bridgeVars
<1>1. TypeOK'
  <2>1. faults' \in 0..MaxBridgeFaults
    BY DEF TypeOK
  <2>2. QED BY <2>1 DEF TypeOK
<1>2. ReadersCreate'
  BY DEF ReadersCreate, Readers
<1>3. ClientOutlivesCreate'
  BY DEF ClientOutlivesCreate, Readers
<1>4. CloseAfterRemove'
  BY DEF CloseAfterRemove
<1>5. OnePlugin => FlagIsRight'
  BY DEF FlagIsRight
<1>6. QED BY <1>1, <1>2, <1>3, <1>4, <1>5

\* Only the bridge changes.
LEMMA BridgeUpStep ==
  ASSUME IInv, BridgeUp
  PROVE  IInv'
<1> USE ConstantsAssumption DEF IInv, BridgeUp, plugVars, callVars, bridgeVars
<1>1. TypeOK'
  BY DEF TypeOK
<1>2. ReadersCreate'
  BY DEF ReadersCreate, Readers
<1>3. ClientOutlivesCreate'
  BY DEF ClientOutlivesCreate, Readers
<1>4. CloseAfterRemove'
  BY DEF CloseAfterRemove
<1>5. OnePlugin => FlagIsRight'
  BY DEF FlagIsRight
<1>6. QED BY <1>1, <1>2, <1>3, <1>4, <1>5

\* The invariant is inductive.
LEMMA NextIInv == IInv /\ [Next]_vars => IInv'
<1> SUFFICES ASSUME IInv, [Next]_vars PROVE IInv'
  OBVIOUS
<1>1. CASE \E c \in Callers, g \in Plugins, op \in AllOps,
              p \in Ports \cup {NoPort} : Begin(c, g, op, p)
  BY <1>1, BeginStep
<1>2. ASSUME NEW c \in Callers, CallStep(c) PROVE IInv'
  BY <1>2, EnsureStep, RegistryClosedStep, DiscoverStep, SetVfsStep, RegistryNfStep, RegistryDeleteStep, RegistryCreateStep, GetLogicalBridgeStep, CreateLogicalBridgeStep, CreatePortStep, ConnectStep, CallVspStep DEF CallStep
<1>3. CASE \E g \in Plugins : RetryInterval(g) \/ Attach(g) \/ Remove(g)
  BY <1>3, RetryIntervalStep, AttachStep, RemoveStep
<1>4. ASSUME NEW g \in Plugins, NEW w \in Closers, CloseStep(g, w) PROVE IInv'
  BY <1>4, CloseReadStep, CloseShutdownStep, CloseClearStep, CloseConnStep
     DEF CloseStep
<1>5. CASE BridgeDown \/ BridgeUp
  BY <1>5, BridgeDownStep, BridgeUpStep
<1>6. CASE UNCHANGED vars
  <2> USE <1>6 DEF IInv, vars, plugVars, callVars, bridgeVars
  <2>1. TypeOK' BY DEF TypeOK
  <2>2. ReadersCreate' BY DEF ReadersCreate, Readers
  <2>3. ClientOutlivesCreate' BY DEF ClientOutlivesCreate, Readers
  <2>4. CloseAfterRemove' BY DEF CloseAfterRemove
  <2>5. OnePlugin => FlagIsRight' BY DEF FlagIsRight
  <2>6. QED BY <2>1, <2>2, <2>3, <2>4, <2>5
<1>7. QED BY <1>1, <1>2, <1>3, <1>4, <1>5, <1>6 DEF Next

\* Every reachable state of a GrpcPlugin and its registry plugin is well typed.
THEOREM TypeCorrect == Spec => []TypeOK
<1>1. IInv => TypeOK BY DEF IInv
<1>2. QED BY <1>1, InitIInv, NextIInv, PTL DEF Spec

\* CreateBridgePort of the registry plugin never works with clients that a
\* Close has shut down, however many plugins share the registry plugin.
THEOREM CreateKeepsClient == Spec => []ClientOutlivesCreate
<1>1. IInv => ClientOutlivesCreate BY DEF IInv
<1>2. QED BY <1>1, InitIInv, NextIInv, PTL DEF Spec

\* A GrpcPlugin that does not share the registry plugin knows whether it is
\* initialized, whatever calls run beside its two Closes.
THEOREM UnsharedFlagIsRight == Spec => [](OnePlugin => FlagIsRight)
<1>1. IInv => (OnePlugin => FlagIsRight) BY DEF IInv
<1>2. QED BY <1>1, InitIInv, NextIInv, PTL DEF Spec

(***************************************************************************)
(* Creation and deletion of bridge ports take one path.                    *)
(***************************************************************************)
\* The OPI bridge takes bridge ports: its endpoint is valid and it implements
\* both services.
HasOpi ==
    /\ setup.valid /\ "ports" \in setup.opi
    /\ "getBridge" \in setup.opi /\ "createBridge" \in setup.opi

\* The OPI bridge that takes ports gets all of them, and the VSP gets none:
\* ensureRegistryInitialized does not give up on a valid endpoint, and a call
\* for a port falls back only when the OPI bridge does not take ports.
OnePath ==
    /\ opiPorts # {} => HasOpi /\ logical
    /\ vspPorts # {} => ~HasOpi
    /\ shared => setup.valid
    /\ logical => "createBridge" \in setup.opi
    /\ \A g \in Plugins : /\ flag[g] => setup.valid
                          /\ tried[g] => flag[g] \/ ~setup.valid
    /\ \A c \in Callers :
          /\ pc[c] \in {"connect", "vsp"} /\ arg[c].op \in PortOps => ~HasOpi
          /\ pc[c] \in {"createBridge", "createPort"}
             => setup.valid /\ "getBridge" \in setup.opi
          /\ pc[c] = "createPort" => logical
          /\ pc[c] = "setVfs" => arg[c].op \notin PortOps

\* The path is chosen by ensureRegistryInitialized ...
LEMMA EnsurePath ==
  ASSUME IInv, OnePath, NEW c \in Callers, Ensure(c)
  PROVE  OnePath'
<1> USE DEF IInv, TypeOK, OnePath, HasOpi, Ensure, Initialize, plugVars,
        bridgeVars, At, GoTo
<1>1. arg[c].g \in Plugins
  BY DEF Args
<1>2. CASE Initialize(arg[c].g)
  BY <1>1, <1>2
<1>3. CASE UNCHANGED plugVars
  BY <1>1, <1>3
<1>4. QED BY <1>2, <1>3

\* ... and kept by the calls to the OPI bridge, which fall back only when it
\* does not take ports ...
LEMMA BridgePath ==
  ASSUME IInv, OnePath, NEW c \in Callers,
         \/ RegistryClosed(c) \/ Discover(c) \/ SetVfs(c) \/ RegistryNf(c)
         \/ RegistryDelete(c) \/ RegistryCreate(c) \/ GetLogicalBridge(c)
         \/ CreateLogicalBridge(c) \/ CreatePort(c)
  PROVE  OnePath'
<1> USE DEF IInv, TypeOK, OnePath, HasOpi, plugVars, bridgeVars, At, GoTo,
        Return, FallBack, RegistryError, PortOps
<1>1. CASE RegistryClosed(c)
  BY <1>1 DEF RegistryClosed
<1>2. CASE Discover(c)
  BY <1>2 DEF Discover
<1>3. CASE SetVfs(c)
  BY <1>3 DEF SetVfs
<1>4. CASE RegistryNf(c)
  BY <1>4 DEF RegistryNf
<1>5. CASE RegistryDelete(c)
  BY <1>5 DEF RegistryDelete
<1>6. CASE RegistryCreate(c)
  BY <1>6 DEF RegistryCreate
<1>7. CASE GetLogicalBridge(c)
  <2>1. setup.valid
    BY <1>7 DEF GetLogicalBridge, ClientOutlivesCreate, Readers
  <2>2. QED BY <1>7, <2>1 DEF GetLogicalBridge
<1>8. CASE CreateLogicalBridge(c)
  BY <1>8 DEF CreateLogicalBridge
<1>9. CASE CreatePort(c)
  BY <1>9 DEF CreatePort
<1>10. QED BY <1>1, <1>2, <1>3, <1>4, <1>5, <1>6, <1>7, <1>8, <1>9

\* ... and by those to the VSP.
LEMMA VspPath ==
  ASSUME IInv, OnePath, NEW c \in Callers, Connect(c) \/ CallVsp(c)
  PROVE  OnePath'
<1> USE DEF IInv, TypeOK, OnePath, HasOpi, plugVars, bridgeVars, At, GoTo,
        Return, PortOps
<1>1. CASE Connect(c)
  BY <1>1 DEF Connect
<1>2. CASE CallVsp(c)
  BY <1>2 DEF CallVsp
<1>3. QED BY <1>1, <1>2

\* OnePath is inductive, relative to IInv.
LEMMA NextOnePath == IInv /\ OnePath /\ [Next]_vars => OnePath'
<1> SUFFICES ASSUME IInv, OnePath, [Next]_vars PROVE OnePath'
  OBVIOUS
<1>1. ASSUME NEW c \in Callers, NEW g \in Plugins, NEW op \in AllOps,
             NEW p \in Ports \cup {NoPort}, Begin(c, g, op, p)
      PROVE  OnePath'
  BY <1>1 DEF Begin, At, IInv, TypeOK, OnePath, HasOpi, plugVars, bridgeVars
<1>2. ASSUME NEW c \in Callers, CallStep(c) PROVE OnePath'
  BY <1>2, EnsurePath, BridgePath, VspPath DEF CallStep
<1>3. ASSUME NEW g \in Plugins, RetryInterval(g) \/ Attach(g) \/ Remove(g)
      PROVE  OnePath'
  BY <1>3 DEF RetryInterval, Attach, Remove, IInv, TypeOK, OnePath, HasOpi,
     callVars, bridgeVars
<1>4. ASSUME NEW g \in Plugins, NEW w \in Closers, CloseStep(g, w)
      PROVE  OnePath'
  BY <1>4 DEF CloseStep, CloseRead, CloseShutdown, CloseClear, CloseConn,
     IInv, TypeOK, OnePath, HasOpi, callVars, bridgeVars
<1>5. CASE BridgeDown \/ BridgeUp
  BY <1>5 DEF BridgeDown, BridgeUp, OnePath, HasOpi, plugVars, callVars
<1>6. CASE UNCHANGED vars
  BY <1>6 DEF vars, plugVars, callVars, bridgeVars, OnePath, HasOpi
<1>7. QED BY <1>1, <1>2, <1>3, <1>4, <1>5, <1>6 DEF Next

\* Every reachable state has it.
LEMMA OnePathHolds == Spec => [](IInv /\ OnePath)
<1>1. Init => OnePath
  BY DEF Init, OnePath, HasOpi
<1>2. QED BY <1>1, InitIInv, NextIInv, NextOnePath, PTL DEF Spec

\* A bridge port of the OPI bridge has its logical bridge, however many
\* goroutines look for that bridge and create it at once.
THEOREM PortsAreOnBridge == Spec => []PortOnBridge
<1>1. OnePath => PortOnBridge
  BY DEF OnePath, PortOnBridge
<1>2. QED BY <1>1, OnePathHolds, PTL

\* A DeleteBridgePort that succeeds leaves the port neither on the OPI bridge
\* nor on the VSP, whatever Closes, failures of the bridge and other calls came
\* between its creation and its deletion.
THEOREM DeleteTakesThePath == Spec => DeletedIsGone
<1> DEFINE Gone(c) ==
      /\ pc[c] # "idle" /\ arg[c].op = "delete"
      /\ pc'[c] = "idle" /\ res'[c] = "ok"
      => arg[c].port \notin opiPorts' \cup vspPorts'
<1>1. IInv /\ OnePath /\ [Next]_vars => [\A c \in Callers : Gone(c)]_vars
  <2> SUFFICES ASSUME IInv, OnePath, Next, NEW c \in Callers,
                      pc[c] # "idle", arg[c].op = "delete",
                      pc'[c] = "idle", res'[c] = "ok"
               PROVE  arg[c].port \notin opiPorts' \cup vspPorts'
    OBVIOUS
  <2>1. RegistryDelete(c) \/ CallVsp(c)
    <3> USE DEF IInv, TypeOK, At, GoTo, Return, FallBack, RegistryError,
            plugVars, callVars, bridgeVars
    <3>1. ASSUME NEW d \in Callers, CallStep(d) PROVE d = c
      BY <3>1 DEF CallStep, Ensure, RegistryClosed, Discover, SetVfs,
         RegistryNf, RegistryDelete, RegistryCreate, GetLogicalBridge,
         CreateLogicalBridge, CreatePort, Connect, CallVsp
    <3>2. CallStep(c)
      BY <3>1 DEF Next, Begin, RetryInterval, Attach, Remove, CloseStep,
         CloseRead, CloseShutdown, CloseClear, CloseConn, BridgeDown, BridgeUp
    <3>3. ~SetVfs(c) /\ ~CreatePort(c)
      BY DEF SetVfs, CreatePort, ReadersCreate, Readers, OnePath, PortOps
    <3>4. QED
      BY <3>2, <3>3 DEF CallStep, Ensure, RegistryClosed, Discover, RegistryNf,
         RegistryCreate, GetLogicalBridge, CreateLogicalBridge, Connect
  <2>2. CASE RegistryDelete(c)
    BY <2>2 DEF RegistryDelete, IInv, TypeOK, OnePath, HasOpi, At, GoTo,
       Return, FallBack, RegistryError
  <2>3. CASE CallVsp(c)
    BY <2>3 DEF CallVsp, IInv, TypeOK, OnePath, HasOpi, At, Return, PortOps,
       bridgeVars
  <2>4. QED BY <2>1, <2>2, <2>3
<1>2. QED BY <1>1, OnePathHolds, PTL DEF Spec, DeletedIsGone

=============================================================================
