-------------------------- MODULE MarvellVspProofs --------------------------
(***************************************************************************)
(* Proofs about the Marvell VSP for any number of VFs, faults, restarts,   *)
(* crashes and races: the flow rules between the pods and the network      *)
(* function are complete, and CreateBridgePort does not fail without a     *)
(* cause.                                                                  *)
(*                                                                         *)
(* Both handlers have a list of commands still to do.  The invariant says  *)
(* of every rule that it is on the bridge, or in one of these lists, or    *)
(* due for a VF that AddNetworkFunction has still to come to.              *)
(***************************************************************************)
EXTENDS MarvellVsp, SequenceTheorems, WellFoundedInduction, TLAPS

(***************************************************************************)
(* The inductive invariant.                                                *)
(***************************************************************************)
Macs == Vfs \cup {NoMac}
NfPorts == Pairs \cup {NoPort}
Commands ==
    {x \in [c : {"port", "unport", "flow", "unflow"}, s : Nat, d : Nat, m : Macs] :
        x.c = "port" => x.s \in Vfs \cup NfPorts}
Stores == [made : BOOLEAN, vfs : Seq(Vfs), inp : NfPorts, out : NfPorts]

KernelTypes ==
    /\ ends \in [Pairs -> {"none", "host", "pod"}]
    /\ br \in BOOLEAN /\ ports \subseteq Ports
    /\ flows \subseteq Ports \X Ports \X Macs
HandlerTypes ==
    /\ bp \in [op : {"none", "create", "delete"}, v : Vfs,
               step : {"begin", "write", "test", "flows"},
               todo : Seq(Commands), seen : Stores]
    /\ net \in [op : {"none", "create", "delete"}, v : Nat,
                step : {"begin", "write", "loop", "last"},
                todo : Seq(Commands), seen : Stores]
    /\ pod \in [Vfs -> {"none", "add", "up", "stale", "failed", "del"}]
    /\ nf \in {"none", "add", "up", "del", "half"} /\ nfOk \in BOOLEAN
MemoryTypes ==
    /\ proc \in {"up", "hung"} /\ named \in BOOLEAN /\ devs \subseteq Pairs
    /\ isNF \in BOOLEAN /\ store \in Stores
    /\ torn \in BOOLEAN /\ wiped \in BOOLEAN
    /\ faults \in Nat /\ restarts \in Nat /\ crashes \in Nat /\ races \in Nat

Types == KernelTypes /\ HandlerTypes /\ MemoryTypes

\* Handlers run only for a daemon that is up, and a handler that has ended has
\* left nothing.  A pod waits for the call that is made for it.
Served ==
    /\ bp.op = "none" => bp = Idle
    /\ net.op = "none" => net = Idle
    /\ boot # "ready" => bp.op = "none" /\ net.op = "none"
    /\ bp.op = "create" => pod[bp.v] = "add"
    /\ bp.op = "delete" => pod[bp.v] = "del"
    /\ nfOk => nf = "up" /\ net.op = "none"
    /\ net.op = "create" => isNF

\* A VSP that was not initialised since it started does not get past the first
\* command of a handler.
Nameless ==
    /\ named => br
    /\ ~named /\ bp.op # "none" => bp.step = "begin" /\ bp.todo # <<>>
    /\ ~named /\ net.op = "create" => net.step = "begin" /\ net.todo # <<>>
    /\ named /\ nfOk => isNF

\* What is left of a list of commands.
Left(s) == {s[i] : i \in 1 .. Len(s)}

\* A bridge port call.  Creation makes the port and stores the VF before it
\* comes to the rules; deletion touches nothing of another VF, unless it says so
\* (wiped) or fails at its first command.
Deletes(v, macs) ==
    {DelFlow(v, NoMac), DelPort(v)} \cup {DelFlow(p, m) : p \in NfPorts, m \in macs}
BpFlows(v) ==
    {AddFlow(v, StoredIn, NoMac), AddFlow(StoredIn, v, v), AddFlow(StoredOut, StoredOut, v)}

BpProgress ==
    /\ bp.op = "create" =>
          /\ bp.step = "begin" => Left(bp.todo) \subseteq {AddPort(bp.v)}
          /\ bp.step \in {"write", "test"} => bp.todo = <<>>
          /\ bp.step = "flows" => Left(bp.todo) \subseteq BpFlows(bp.v)
          /\ bp.step # "begin" \/ bp.todo = <<>> => bp.v \in ports
    /\ bp.op = "delete" =>
          /\ bp.step \in {"begin", "write"}
          /\ Left(bp.todo) \subseteq Deletes(bp.v, {bp.v, NoMac})
          /\ \/ wiped
             \/ Left(bp.todo) \subseteq Deletes(bp.v, {bp.v})
             \/ bp.todo # <<>> /\ Head(bp.todo) = DelFlow(bp.v, NoMac)
                /\ bp.v \notin ports
    /\ \A v \in Vfs : pod[v] = "up" => v \in ports

\* A network function call.
NetProgress ==
    /\ net.op # "none" => net.v # 0
    /\ net.op = "create" =>
          /\ net.step = "begin" =>
                /\ Left(net.todo) \subseteq {AddPort(p) : p \in NfPorts}
                /\ \A p \in Pairs : \/ p \in ports
                                    \/ AddPort(p) \in Left(net.todo)
                                    \/ AddPort(NoPort) \in Left(net.todo)
          /\ net.step = "write" => net.todo = <<>>
          /\ net.step \in {"begin", "write"} => net.v = 1
          /\ net.step # "begin" => Pairs \subseteq ports
          /\ net.step \in {"loop", "last"} => \A x \in Left(net.todo) : x.c = "flow"
          /\ net.step = "last" => net.seen = EmptyStore
    /\ net.op = "delete" =>
          \A x \in Left(net.todo) : x.c = "unflow" \/ (x.c = "unport" /\ x.s \in NfPorts)
    /\ nfOk => Pairs \subseteq ports

\* AddNetworkFunction has its list of VFs, or has ended with success.
Active == nfOk \/ (net.op = "create" /\ net.step \in {"loop", "last"})

\* CreateBridgePort has stored its VF.
Creating(v) == bp.op = "create" /\ bp.v = v /\ bp.step \in {"test", "flows"}

\* Unless an update was lost, networkStore has the VFs of all connected pods, and
\* the ports of the network function; appends leave the part of it alone over
\* which AddNetworkFunction walks.
Stored ==
    ~torn =>
        /\ named => \A v \in Vfs :
              pod[v] = "up" \/ Creating(v) => v \in Left(store.vfs)
        /\ named /\ Active => store.inp = InPair /\ store.out = OutPair
        /\ net.op = "create" /\ net.step = "loop" =>
              /\ Len(net.seen.vfs) <= Len(store.vfs)
              /\ \A i \in 1 .. Len(net.seen.vfs) : store.vfs[i] = net.seen.vfs[i]

\* AddNetworkFunction has still to come to the VF.
Listed(v) == \E j \in 1 .. Len(net.seen.vfs) : net.v <= j /\ net.seen.vfs[j] = v

\* A rule f for VF v is there, or one of the handlers will add it; x is the
\* command of CreateBridgePort that does.
Coming(v, f, x) ==
    \/ f \in flows \/ AddFlow(f[1], f[2], f[3]) \in Left(net.todo) \/ Listed(v)
    \/ bp.op = "create" /\ bp.v = v /\ x \in Left(bp.todo)

\* The rules to the wire, and the VFs for which there must be rules.
WireRules == {<<OutPair, Rpm, NoMac>>, <<Rpm, OutPair, NoMac>>}
Due(v) == pod[v] = "up" \/ (Creating(v) /\ bp.step = "flows")

Rules ==
    Active /\ ~torn /\ ~wiped =>
        /\ \A v \in Vfs : Due(v) =>
              /\ Coming(v, <<v, InPair, NoMac>>, AddFlow(v, StoredIn, NoMac))
              /\ Coming(v, <<InPair, v, v>>, AddFlow(StoredIn, v, v))
              /\ Coming(v, <<OutPair, OutPair, v>>, AddFlow(StoredOut, StoredOut, v))
        /\ nfOk \/ net.step = "last" =>
              \A f \in WireRules :
                 f \in flows \/ AddFlow(f[1], f[2], f[3]) \in Left(net.todo)

Inv == Types /\ Served /\ Nameless /\ BpProgress /\ NetProgress /\ Stored /\ Rules

(***************************************************************************)
(* Lists.                                                                  *)
(***************************************************************************)
LEMMA LeftEmpty == Left(<<>>) = {}
BY DEF Left

LEMMA LeftTail ==
  ASSUME NEW S, NEW s \in Seq(S), s # <<>>
  PROVE  /\ Head(s) \in S /\ Tail(s) \in Seq(S)
         /\ Left(s) = {Head(s)} \cup Left(Tail(s))
<1>1. /\ Head(s) \in S /\ Tail(s) \in Seq(S) /\ Len(Tail(s)) = Len(s) - 1
      /\ \A i \in 1 .. Len(Tail(s)) : Tail(s)[i] = s[i + 1]
  BY HeadTailProperties
<1>2. Len(s) \in Nat \ {0} /\ Head(s) = s[1]
  BY EmptySeq
<1>3. ASSUME NEW x \in Left(s) PROVE x \in {Head(s)} \cup Left(Tail(s))
  <2>1. PICK i \in 1 .. Len(s) : x = s[i]
    BY <1>3 DEF Left
  <2>2. CASE i = 1
    BY <2>1, <2>2, <1>2
  <2>3. CASE i # 1
    <3>1. i - 1 \in 1 .. Len(Tail(s)) /\ Tail(s)[i - 1] = s[i]
      BY <2>1, <2>3, <1>1, <1>2
    <3>2. QED BY <2>1, <3>1 DEF Left
  <2>4. QED BY <2>2, <2>3
<1>4. ASSUME NEW x \in Left(Tail(s)) PROVE x \in Left(s)
  <2>1. PICK i \in 1 .. Len(Tail(s)) : x = Tail(s)[i]
    BY <1>4 DEF Left
  <2>2. i + 1 \in 1 .. Len(s) /\ s[i + 1] = x
    BY <2>1, <1>1, <1>2
  <2>3. QED BY <2>2 DEF Left
<1>5. Head(s) \in Left(s)
  BY <1>2 DEF Left
<1>6. QED BY <1>1, <1>3, <1>4, <1>5

LEMMA LeftAppend ==
  ASSUME NEW S, NEW s \in Seq(S), NEW e \in S
  PROVE  /\ Append(s, e) \in Seq(S)
         /\ Left(s) \subseteq Left(Append(s, e)) /\ e \in Left(Append(s, e))
<1>1. /\ Append(s, e) \in Seq(S) /\ Len(Append(s, e)) = Len(s) + 1
      /\ \A i \in 1 .. Len(s) : Append(s, e)[i] = s[i]
      /\ Append(s, e)[Len(s) + 1] = e
  BY AppendProperties
<1>2. Len(s) \in Nat
  BY LenProperties
<1>3. Len(s) + 1 \in 1 .. Len(Append(s, e))
  BY <1>1, <1>2
<1>4. e \in Left(Append(s, e))
  BY <1>1, <1>3 DEF Left
<1>5. ASSUME NEW x \in Left(s) PROVE x \in Left(Append(s, e))
  <2>1. PICK i \in 1 .. Len(s) : x = s[i]
    BY <1>5 DEF Left
  <2>2. i \in 1 .. Len(Append(s, e)) /\ Append(s, e)[i] = x
    BY <2>1, <1>1, <1>2
  <2>3. QED BY <2>2 DEF Left
<1>6. QED BY <1>1, <1>4, <1>5

\* A list has a first entry for the element, and RemoveFirst takes that one.
LEMMA MinExists ==
  ASSUME NEW I \in SUBSET Nat, I # {}
  PROVE  Min(I) \in I /\ \A j \in I : Min(I) <= j
<1>1. PICK x \in I : \A y \in I : ~(<<y, x>> \in OpToRel(<, Nat))
  BY NatLessThanWellFounded, WFMin
<1>2. \A y \in I : x <= y
  <2> SUFFICES ASSUME NEW y \in I PROVE x <= y
    OBVIOUS
  <2>1. x \in Nat /\ y \in Nat
    OBVIOUS
  <2>2. <<y, x>> \in Nat \X Nat /\ <<y, x>> \notin OpToRel(<, Nat)
    BY <1>1, <2>1
  <2>3. ~(y < x)
    BY <2>2 DEF OpToRel
  <2>4. QED BY <2>1, <2>3
<1>3. QED BY <1>2 DEF Min

LEMMA LeftRemoveFirst ==
  ASSUME NEW S, NEW s \in Seq(S), NEW e
  PROVE  /\ RemoveFirst(s, e) \in Seq(S)
         /\ Left(s) \ {e} \subseteq Left(RemoveFirst(s, e))
<1>1. CASE ~\E i \in 1 .. Len(s) : s[i] = e
  BY <1>1 DEF RemoveFirst
<1>2. CASE \E i \in 1 .. Len(s) : s[i] = e
  <2> DEFINE I == {i \in 1 .. Len(s) : s[i] = e}
             k == Min(I)
             a == SubSeq(s, 1, k - 1)
             b == SubSeq(s, k + 1, Len(s))
  <2>1. Len(s) \in Nat /\ \A i \in 1 .. Len(s) : s[i] \in S
    BY LenProperties, ElementOfSeq
  <2>2. k \in I
    <3>1. I \in SUBSET Nat /\ I # {}
      BY <1>2, <2>1
    <3> HIDE DEF I
    <3>2. QED BY <3>1, MinExists
  <2> HIDE DEF k
  <2>3. RemoveFirst(s, e) = a \o b
    BY <1>2, <2>2 DEF RemoveFirst, RemoveAt, SelectInSeq, k
  <2>4. k \in 1 .. Len(s) /\ s[k] = e
    BY <2>2
  <2>5. /\ a \in Seq(S) /\ Len(a) = k - 1
        /\ \A i \in 1 .. k - 1 : a[i] = s[i]
    <3>1. /\ SubSeq(s, 1, k - 1) \in Seq(S)
          /\ Len(SubSeq(s, 1, k - 1)) = IF 1 <= k - 1 THEN (k - 1) - 1 + 1 ELSE 0
          /\ \A i \in 1 .. (k - 1) - 1 + 1 : SubSeq(s, 1, k - 1)[i] = s[1 + i - 1]
      BY <2>1, <2>4, SubSeqProperties
    <3>2. QED BY <3>1, <2>1, <2>4
  <2>6. /\ b \in Seq(S) /\ Len(b) = Len(s) - k
        /\ \A i \in 1 .. Len(s) - k : b[i] = s[k + i]
    <3>1. /\ SubSeq(s, k + 1, Len(s)) \in Seq(S)
          /\ Len(SubSeq(s, k + 1, Len(s))) =
               IF k + 1 <= Len(s) THEN Len(s) - (k + 1) + 1 ELSE 0
          /\ \A i \in 1 .. Len(s) - (k + 1) + 1 :
               SubSeq(s, k + 1, Len(s))[i] = s[(k + 1) + i - 1]
      BY <2>1, <2>4, SubSeqProperties
    <3>2. QED BY <3>1, <2>1, <2>4
  <2> HIDE DEF a, b
  <2>7. /\ a \o b \in Seq(S) /\ Len(a \o b) = Len(s) - 1
        /\ \A i \in 1 .. Len(s) - 1 : (a \o b)[i] = IF i < k THEN a[i] ELSE b[i - (k - 1)]
    <3>1. /\ a \o b \in Seq(S) /\ Len(a \o b) = Len(a) + Len(b)
          /\ \A i \in 1 .. Len(a) + Len(b) :
               (a \o b)[i] = IF i <= Len(a) THEN a[i] ELSE b[i - Len(a)]
      BY <2>5, <2>6, ConcatProperties
    <3>2. Len(a) + Len(b) = Len(s) - 1
      BY <2>1, <2>4, <2>5, <2>6
    <3>3. \A i \in 1 .. Len(s) - 1 : i <= Len(a) <=> i < k
      BY <2>1, <2>4, <2>5
    <3>4. QED BY <3>1, <3>2, <3>3, <2>5
  <2>8. ASSUME NEW x \in Left(s), x # e PROVE x \in Left(a \o b)
    <3>1. PICK i \in 1 .. Len(s) : x = s[i]
      BY <2>8 DEF Left
    <3>2. CASE i < k
      <4>1. i \in 1 .. Len(a \o b) /\ (a \o b)[i] = s[i]
        BY <3>2, <2>1, <2>4, <2>5, <2>7
      <4>2. QED BY <3>1, <4>1 DEF Left
    <3>3. CASE i > k
      <4>1. i - 1 \in 1 .. Len(a \o b) /\ i - k \in 1 .. Len(s) - k
        BY <3>3, <2>1, <2>4, <2>7
      <4>2. (a \o b)[i - 1] = b[i - k]
        <5>1. i - 1 \in 1 .. Len(s) - 1 /\ ~(i - 1 < k)
          BY <3>3, <2>1, <2>4
        <5>2. (i - 1) - (k - 1) = i - k
          BY <2>1, <2>4
        <5>3. QED BY <5>1, <5>2, <2>7
      <4>3. b[i - k] = s[i]
        BY <4>1, <2>1, <2>4, <2>6
      <4>4. QED BY <3>1, <4>1, <4>2, <4>3 DEF Left
    <3>4. QED BY <3>1, <3>2, <3>3, <2>1, <2>4, <2>8
  <2>9. QED BY <2>3, <2>7, <2>8
<1>3. QED BY <1>1, <1>2

\* Lists that the handlers are given.
LEMMA LeftOne ==
  ASSUME NEW S, NEW w \in S
  PROVE  <<w>> \in Seq(S) /\ Left(<<w>>) = {w}
BY DEF Left

LEMMA LeftTwo ==
  ASSUME NEW S, NEW w \in S, NEW x \in S
  PROVE  <<w, x>> \in Seq(S) /\ Left(<<w, x>>) = {w, x}
BY DEF Left

LEMMA LeftThree ==
  ASSUME NEW S, NEW w \in S, NEW x \in S, NEW y \in S
  PROVE  <<w, x, y>> \in Seq(S) /\ Left(<<w, x, y>>) = {w, x, y}
<1> DEFINE s == <<w, x, y>>
<1>1. s \in Seq(S) /\ Len(s) = 3 /\ s[1] = w /\ s[2] = x /\ s[3] = y
  OBVIOUS
<1>2. 1 .. 3 = {1, 2, 3}
  OBVIOUS
<1> HIDE DEF s
<1>3. Left(s) = {w, x, y}
  BY <1>1, <1>2 DEF Left
<1>4. QED BY <1>1, <1>3 DEF s

LEMMA LeftFour ==
  ASSUME NEW S, NEW w \in S, NEW x \in S, NEW y \in S, NEW z \in S
  PROVE  /\ <<w, x, y, z>> \in Seq(S) /\ Left(<<w, x, y, z>>) = {w, x, y, z}
         /\ <<w, x, y, z>> # <<>> /\ Head(<<w, x, y, z>>) = w
<1> DEFINE s == <<w, x, y, z>>
<1>1. /\ s \in Seq(S) /\ Len(s) = 4 /\ s # <<>> /\ Head(s) = w
      /\ s[1] = w /\ s[2] = x /\ s[3] = y /\ s[4] = z
  OBVIOUS
<1>2. 1 .. 4 = {1, 2, 3, 4}
  OBVIOUS
<1> HIDE DEF s
<1>3. Left(s) = {w, x, y, z}
  BY <1>1, <1>2 DEF Left
<1>4. QED BY <1>1, <1>3 DEF s

(***************************************************************************)
(* Ports, commands and budgets.                                            *)
(***************************************************************************)
LEMMA Distinct ==
  /\ 0 \in Vfs /\ Vfs \subseteq Nat
  /\ {InPair, OutPair, Rpm, NoPort, StoredIn, StoredOut, NoMac} \subseteq Nat
  /\ Vfs \cap {InPair, OutPair, Rpm, NoPort, StoredIn, StoredOut, NoMac} = {}
  /\ InPair \notin {OutPair, Rpm, NoPort, StoredIn, StoredOut, NoMac}
  /\ OutPair \notin {Rpm, NoPort, StoredIn, StoredOut, NoMac}
  /\ Rpm \notin {NoPort, StoredIn, StoredOut, NoMac}
  /\ NoPort \notin {StoredIn, StoredOut, NoMac}
  /\ StoredIn # StoredOut
BY ConstantsAssumption
DEF Vfs, InPair, OutPair, Rpm, NoPort, StoredIn, StoredOut, NoMac

\* Ports, and the empty name, stand for themselves.
LEMMA NamedPorts ==
  /\ \A p \in Ports \cup {NoPort} : Named(p) = p
  /\ Named(StoredIn) = store.inp /\ Named(StoredOut) = store.out
<1>1. \A p \in Ports \cup {NoPort} : p # StoredIn /\ p # StoredOut
  BY Distinct DEF Ports, Pairs
<1>2. StoredIn # StoredOut
  BY Distinct
<1>3. QED BY <1>1, <1>2 DEF Named

LEMMA CommandTypes ==
  /\ \A s \in Vfs \cup NfPorts : AddPort(s) \in Commands
  /\ \A s \in Nat : DelPort(s) \in Commands
  /\ \A s, d \in Nat : \A m \in Macs : AddFlow(s, d, m) \in Commands
  /\ \A s \in Nat : \A m \in Macs : DelFlow(s, m) \in Commands
<1>1. NoPort \in Nat /\ NoMac \in Macs /\ Vfs \cup NfPorts \subseteq Nat
  BY Distinct DEF Macs, NfPorts, Pairs
<1>2. \A s \in Vfs \cup NfPorts : AddPort(s) \in Commands
  BY <1>1 DEF Commands, AddPort
<1>3. \A s \in Nat : DelPort(s) \in Commands
  BY <1>1 DEF Commands, DelPort
<1>4. \A s, d \in Nat : \A m \in Macs : AddFlow(s, d, m) \in Commands
  BY DEF Commands, AddFlow
<1>5. \A s \in Nat : \A m \in Macs : DelFlow(s, m) \in Commands
  BY <1>1 DEF Commands, DelFlow
<1>6. QED BY <1>2, <1>3, <1>4, <1>5

LEMMA StoreTypes == EmptyStore \in Stores /\ EmptyStore.vfs = <<>>
BY DEF EmptyStore, Stores, NfPorts

LEMMA IdleFields ==
  /\ Idle.op = "none" /\ Idle.v = 0 /\ Idle.step = "begin" /\ Idle.todo = <<>>
  /\ Idle.seen = EmptyStore
BY DEF Idle, Call

\* Faults are counted.
Counted == faults \in Nat /\ restarts \in Nat /\ crashes \in Nat /\ races \in Nat

LEMMA BudgetSteps ==
  ASSUME Counted, Works \/ Fault \/ Race
  PROVE  Counted'
BY DEF Counted, Works, Fault, Race, budget

\* A command leaves ports and rules between ports.
LEMMA EffectTypes ==
  ASSUME KernelTypes, NEW x \in Commands, Possible(x), Effect(x)
  PROVE  KernelTypes'
<1>1. x.m \in Macs /\ (x.c = "port" => x.s \in Ports)
  BY DEF Commands, NfPorts, Ports, Possible
<1>2. ports' \subseteq Ports
  BY <1>1 DEF Effect, KernelTypes
<1>3. CASE x.c = "flow"
  <2>1. flows' = flows \cup {<<Named(x.s), Named(x.d), x.m>>}
    BY <1>3 DEF Effect
  <2>2. Named(x.s) \in Ports /\ Named(x.d) \in Ports
    BY <1>3 DEF Possible, KernelTypes
  <2>3. QED BY <1>1, <1>2, <2>1, <2>2 DEF Effect, KernelTypes
<1>4. CASE x.c # "flow"
  <2>1. flows' \subseteq flows
    BY <1>4 DEF Effect, Matching
  <2>2. QED BY <1>2, <2>1 DEF Effect, KernelTypes
<1>5. QED BY <1>3, <1>4

(***************************************************************************)
(* What most steps leave alone.                                            *)
(***************************************************************************)
\* A step that changes the handlers, and nothing that the network function needs.
LEMMA StoredFrame ==
  ASSUME Stored, UNCHANGED <<named, store, nfOk>>, torn' = torn,
         net'.op = net.op, net'.step = net.step, net'.seen = net.seen,
         \A v \in Vfs : pod'[v] = "up" \/ Creating(v)' => pod[v] = "up" \/ Creating(v)
  PROVE  Stored'
BY DEF Stored, Active

\* A step of the host's calls that leaves the data plane and the other handler.
LEMMA RulesFrame ==
  ASSUME Rules, UNCHANGED <<nfOk, flows, net>>, torn => torn', wiped => wiped',
         \A v \in Vfs : Due(v)' =>
            /\ Due(v)
            /\ bp.op = "create" /\ bp.v = v =>
                 bp'.op = "create" /\ bp'.v = v /\ Left(bp.todo) \subseteq Left(bp'.todo)
  PROVE  Rules'
<1> SUFFICES ASSUME Active', ~torn', ~wiped' PROVE Rules'
  BY DEF Rules
<1>1. Active /\ ~torn /\ ~wiped
  BY DEF Active
<1>2. ASSUME NEW v \in Vfs, NEW f, NEW x, Due(v)', Coming(v, f, x)
      PROVE  Coming(v, f, x)'
  BY <1>2 DEF Coming, Listed
<1>3. QED BY <1>1, <1>2 DEF Rules

LEMMA NetProgressFrame ==
  ASSUME NetProgress, UNCHANGED <<net, nfOk>>, ports \cap Pairs \subseteq ports'
  PROVE  NetProgress'
BY DEF NetProgress

(***************************************************************************)
(* Pods of the host come and go.                                           *)
(***************************************************************************)
LEMMA AddPodStep == ASSUME Inv, NEW v \in Vfs, AddPod(v) PROVE Inv'
<1> USE DEF Inv
<1>1. /\ bp.op = "none" /\ boot = "ready"
      /\ UNCHANGED <<memory, net, kernel, boot, nf, nfOk, ghost, budget>>
      /\ pod' = [pod EXCEPT ![v] = "add"]
  BY IdleFields DEF AddPod, Works, Ready
<1>2. /\ bp' = [op |-> "create", v |-> v, step |-> "begin", todo |-> <<AddPort(v)>>,
                seen |-> EmptyStore]
      /\ AddPort(v) \in Commands
      /\ <<AddPort(v)>> \in Seq(Commands) /\ Left(<<AddPort(v)>>) = {AddPort(v)}
      /\ <<AddPort(v)>> # <<>>
  BY CommandTypes, LeftOne DEF AddPod, Call
<1>3. /\ bp'.op = "create" /\ bp'.v = v /\ bp'.step = "begin"
      /\ bp'.todo = <<AddPort(v)>>
  BY <1>2
<1>4. /\ pod' \in [Vfs -> {"none", "add", "up", "stale", "failed", "del"}]
      /\ pod'[v] = "add" /\ \A w \in Vfs : pod'[w] = "up" => pod[w] = "up"
  BY <1>1 DEF Types, HandlerTypes
<1> USE DEF memory, kernel, ghost, budget
<1>5. Types'
  BY <1>1, <1>2, <1>4, StoreTypes DEF Types, KernelTypes, HandlerTypes, MemoryTypes
<1>6. Served'
  BY <1>1, <1>3, <1>4 DEF Served
<1>7. Nameless'
  BY <1>1, <1>2, <1>3 DEF Nameless
<1>8. BpProgress'
  BY <1>1, <1>2, <1>3, <1>4 DEF BpProgress
<1>9. NetProgress'
  BY <1>1 DEF NetProgress
<1>10. Stored'
  BY <1>1, <1>3, <1>4, StoredFrame DEF Creating
<1>11. Rules'
  BY <1>1, <1>3, <1>4, RulesFrame DEF Creating, Due
<1>12. QED BY <1>5, <1>6, <1>7, <1>8, <1>9, <1>10, <1>11

LEMMA DelPodStep == ASSUME Inv, NEW v \in Vfs, DelPod(v) PROVE Inv'
<1> USE DEF Inv
<1> DEFINE m == StoredMac(v)
           long == <<DelFlow(v, NoMac), DelFlow(store.out, m), DelFlow(store.inp, m),
                     DelPort(v)>>
           short == <<DelPort(v)>>
<1>1. /\ bp.op = "none" /\ boot = "ready"
      /\ UNCHANGED <<memory, net, kernel, boot, nf, nfOk, torn, budget>>
      /\ pod' = [pod EXCEPT ![v] = "del"]
      /\ wiped' = (wiped \/ (isNF /\ v \in ports /\ m = NoMac))
  BY IdleFields DEF DelPod, Works, Ready
<1>2. bp' = [op |-> "delete", v |-> v, step |-> "begin",
             todo |-> IF isNF THEN long ELSE short, seen |-> EmptyStore]
  BY DEF DelPod, Call
<1>3. m \in {v, NoMac} /\ store.out \in NfPorts /\ store.inp \in NfPorts
  BY DEF StoredMac, Types, MemoryTypes, Stores
<1>4. /\ DelFlow(v, NoMac) \in Commands /\ DelFlow(store.out, m) \in Commands
      /\ DelFlow(store.inp, m) \in Commands /\ DelPort(v) \in Commands
  BY <1>3, CommandTypes, Distinct DEF NfPorts, Pairs, Macs
<1>5. /\ long \in Seq(Commands) /\ short \in Seq(Commands)
      /\ Left(long) = {DelFlow(v, NoMac), DelFlow(store.out, m), DelFlow(store.inp, m),
                       DelPort(v)}
      /\ Left(short) = {DelPort(v)}
      /\ long # <<>> /\ short # <<>> /\ Head(long) = DelFlow(v, NoMac)
  <2> HIDE DEF m
  <2>1. /\ long \in Seq(Commands) /\ long # <<>> /\ Head(long) = DelFlow(v, NoMac)
        /\ Left(long) = {DelFlow(v, NoMac), DelFlow(store.out, m), DelFlow(store.inp, m),
                         DelPort(v)}
    BY <1>4, LeftFour
  <2>2. short \in Seq(Commands) /\ short # <<>> /\ Left(short) = {DelPort(v)}
    BY <1>4, LeftOne
  <2>3. QED BY <2>1, <2>2
<1> HIDE DEF long, short, m
<1>6. /\ bp'.op = "delete" /\ bp'.v = v /\ bp'.step = "begin"
      /\ bp'.todo = IF isNF THEN long ELSE short
      /\ bp'.todo # <<>>
  BY <1>2, <1>5
<1>7. /\ pod' \in [Vfs -> {"none", "add", "up", "stale", "failed", "del"}]
      /\ pod'[v] = "del" /\ \A w \in Vfs : pod'[w] = "up" => pod[w] = "up"
  BY <1>1 DEF Types, HandlerTypes
<1> USE DEF memory, kernel, budget
<1>8. Types'
  BY <1>1, <1>2, <1>5, <1>7, StoreTypes DEF Types, KernelTypes, HandlerTypes, MemoryTypes
<1>9. Served'
  BY <1>1, <1>6, <1>7 DEF Served
<1>10. Nameless'
  BY <1>1, <1>6 DEF Nameless
<1>11. BpProgress'
  <2>1. Left(bp'.todo) \subseteq Deletes(v, {m})
    BY <1>3, <1>5, <1>6 DEF Deletes
  <2>2. Deletes(v, {m}) \subseteq Deletes(v, {v, NoMac})
    BY <1>3 DEF Deletes
  <2>3. ASSUME ~wiped'
        PROVE  \/ Left(bp'.todo) \subseteq Deletes(v, {v})
               \/ Head(bp'.todo) = DelFlow(v, NoMac) /\ v \notin ports'
    <3>1. CASE m = v
      BY <2>1, <3>1
    <3>2. CASE ~isNF
      BY <1>5, <1>6, <3>2 DEF Deletes
    <3>3. CASE isNF /\ m = NoMac
      BY <1>1, <1>5, <1>6, <2>3, <3>3
    <3>4. QED BY <1>3, <3>1, <3>2, <3>3
  <2>4. QED BY <1>1, <1>6, <1>7, <2>1, <2>2, <2>3 DEF BpProgress
<1>12. NetProgress'
  BY <1>1 DEF NetProgress
<1>13. Stored'
  BY <1>1, <1>6, <1>7, StoredFrame DEF Creating
<1>14. Rules'
  BY <1>1, <1>6, <1>7, RulesFrame DEF Creating, Due
<1>15. QED BY <1>8, <1>9, <1>10, <1>11, <1>12, <1>13, <1>14

LEMMA DelPodUnservedStep == ASSUME Inv, NEW v \in Vfs, DelPodUnserved(v) PROVE Inv'
<1> USE DEF Inv
<1>1. /\ UNCHANGED <<memory, bp, net, kernel, boot, nf, nfOk, ghost, budget>>
      /\ pod' = [pod EXCEPT ![v] = "none"] /\ boot # "ready"
  BY DEF DelPodUnserved, Works
<1>2. bp.op = "none"
  BY <1>1 DEF Served
<1>3. /\ pod' \in [Vfs -> {"none", "add", "up", "stale", "failed", "del"}]
      /\ \A w \in Vfs : pod'[w] = "up" => pod[w] = "up"
  BY <1>1 DEF Types, HandlerTypes
<1> USE DEF memory, kernel, ghost, budget
<1>4. Types'
  BY <1>1, <1>3 DEF Types, KernelTypes, HandlerTypes, MemoryTypes
<1>5. Served'
  BY <1>1, <1>2 DEF Served
<1>6. Nameless'
  BY <1>1 DEF Nameless
<1>7. BpProgress'
  BY <1>1, <1>2, <1>3 DEF BpProgress
<1>8. NetProgress'
  BY <1>1 DEF NetProgress
<1>9. Stored'
  BY <1>1, <1>3, StoredFrame DEF Creating
<1>10. Rules'
  BY <1>1, <1>2, <1>3, RulesFrame DEF Creating, Due
<1>11. QED BY <1>4, <1>5, <1>6, <1>7, <1>8, <1>9, <1>10

(***************************************************************************)
(* Bridge port calls.                                                      *)
(***************************************************************************)
\* A call that is under way has an operation.
LEMMA BpWorks ==
  ASSUME Inv, bp.todo # <<>> \/ bp.step # "begin" PROVE bp.op # "none"
BY IdleFields DEF Inv, Served

\* A deletion takes the rules of its own VF.
LEMMA DeleteKeeps ==
  ASSUME NEW v \in Vfs, NEW x \in Deletes(v, {v}), Effect(x),
         NEW f \in flows, f[1] # v, f[3] # v
  PROVE  f \in flows'
<1>1. Named(v) = v /\ v # NoMac
  BY NamedPorts, Distinct DEF Ports
<1>2. CASE x = DelFlow(v, NoMac)
  <2>1. f \notin Matching(x)
    BY <1>1, <1>2 DEF Matching, DelFlow
  <2>2. QED BY <1>2, <2>1 DEF Effect, DelFlow
<1>3. CASE x = DelPort(v)
  BY <1>3 DEF Effect, DelPort
<1>4. CASE x \in {DelFlow(p, m) : p \in NfPorts, m \in {v}}
  <2>1. PICK p \in NfPorts : x = DelFlow(p, v)
    BY <1>4
  <2>2. f \notin Matching(x)
    BY <1>1, <2>1 DEF Matching, DelFlow
  <2>3. QED BY <2>1, <2>2 DEF Effect, DelFlow
<1>5. QED BY <1>2, <1>3, <1>4 DEF Deletes

\* It takes its own port, too, and no other.
LEMMA DeletePorts ==
  ASSUME NEW v \in Vfs, NEW x \in Deletes(v, {v, NoMac}), Effect(x)
  PROVE  ports \ {v} \subseteq ports'
<1>1. x = DelPort(v) \/ x.c = "unflow"
  BY DEF Deletes, DelFlow
<1>2. QED BY <1>1 DEF Effect, DelPort

\* Creation only adds.
LEMMA CreateAdds ==
  ASSUME NEW x, x.c \in {"port", "flow"}, Effect(x)
  PROVE  ports \subseteq ports' /\ flows \subseteq flows'
BY DEF Effect

\* The three rules of CreateBridgePort, once the ports are stored.
LEMMA CreateRules ==
  ASSUME NEW v \in Vfs, store.inp = InPair, store.out = OutPair
  PROVE  /\ Effect(AddFlow(v, StoredIn, NoMac)) => <<v, InPair, NoMac>> \in flows'
         /\ Effect(AddFlow(StoredIn, v, v)) => <<InPair, v, v>> \in flows'
         /\ Effect(AddFlow(StoredOut, StoredOut, v)) => <<OutPair, OutPair, v>> \in flows'
<1>1. Named(v) = v /\ Named(StoredIn) = InPair /\ Named(StoredOut) = OutPair
  BY NamedPorts DEF Ports
<1>2. QED BY <1>1 DEF Effect, AddFlow

\* A command that succeeds.
LEMMA BpCommandWorks ==
  ASSUME Inv, bp.todo # <<>>, Possible(Head(bp.todo)), Effect(Head(bp.todo)),
         BpGoto(bp.step, Tail(bp.todo)), Works, UNCHANGED bpRest
  PROVE  Inv'
<1> DEFINE x == Head(bp.todo)
           v == bp.v
<1> USE DEF Inv
<1>1. /\ bp.op # "none" /\ v \in Vfs /\ named /\ boot = "ready"
      /\ UNCHANGED <<memory, net, boot, nf, nfOk, ghost, budget, pod>>
  BY BpWorks DEF Types, HandlerTypes, Possible, BpGoto, Works, bpRest, Served
<1>2. /\ x \in Commands /\ bp'.todo \in Seq(Commands)
      /\ Left(bp.todo) = {x} \cup Left(bp'.todo)
      /\ bp' = [bp EXCEPT !.todo = Tail(bp.todo)]
      /\ bp'.op = bp.op /\ bp'.v = v /\ bp'.step = bp.step
  BY LeftTail DEF BpGoto, Types, HandlerTypes
<1>3. Possible(x) /\ Effect(x)
  OBVIOUS
<1> HIDE DEF x
<1> USE DEF memory, ghost, budget
<1>4. KernelTypes' /\ br' = br
  BY <1>2, <1>3, EffectTypes DEF Types, Effect
<1>5. Types'
  BY <1>1, <1>2, <1>4 DEF Types, HandlerTypes, MemoryTypes
<1>6. Served'
  BY <1>1, <1>2 DEF Served
<1>7. Nameless'
  BY <1>1, <1>4 DEF Nameless
<1>8. Creating(v)' = Creating(v) /\ \A w \in Vfs : Creating(w)' = Creating(w)
  BY <1>1, <1>2 DEF Creating
<1>9. Stored'
  BY <1>1, <1>8, StoredFrame
<1>10. CASE bp.op = "create"
  <2>1. \/ bp.step = "begin" /\ x = AddPort(v)
        \/ bp.step = "flows" /\ x \in BpFlows(v)
    BY <1>2, <1>10, EmptySeq DEF BpProgress, Types, HandlerTypes
  <2>2. ports \subseteq ports' /\ flows \subseteq flows'
    BY <1>3, <2>1, CreateAdds DEF AddPort, AddFlow, BpFlows
  <2>3. bp.step = "begin" => v \in ports'
    BY <1>3, <2>1 DEF Effect, AddPort
  <2>4. BpProgress'
    BY <1>1, <1>2, <1>10, <2>1, <2>2, <2>3 DEF BpProgress
  <2>5. NetProgress'
    BY <1>1, <2>2, NetProgressFrame
  <2>6. Rules'
    <3> SUFFICES ASSUME Active', ~torn', ~wiped' PROVE Rules'
      BY DEF Rules
    <3>1. Active /\ ~torn /\ ~wiped /\ store.inp = InPair /\ store.out = OutPair
      BY <1>1 DEF Active, Stored
    <3>2. /\ x = AddFlow(v, StoredIn, NoMac) => <<v, InPair, NoMac>> \in flows'
          /\ x = AddFlow(StoredIn, v, v) => <<InPair, v, v>> \in flows'
          /\ x = AddFlow(StoredOut, StoredOut, v) => <<OutPair, OutPair, v>> \in flows'
      BY <1>1, <1>3, <3>1, CreateRules
    <3>3. ASSUME NEW w \in Vfs, NEW f, NEW y, Coming(w, f, y), w = v /\ x = y => f \in flows'
          PROVE  Coming(w, f, y)'
      BY <1>1, <1>2, <2>2, <3>3 DEF Coming, Listed
    <3>4. \A w \in Vfs : Due(w)' => Due(w)
      BY <1>1, <1>2, <1>8 DEF Due
    <3>5. QED BY <1>1, <2>2, <3>1, <3>2, <3>3, <3>4 DEF Rules
  <2>7. QED BY <1>5, <1>6, <1>7, <1>9, <2>4, <2>5, <2>6
<1>11. CASE bp.op = "delete"
  <2>1. x \in Deletes(v, {v, NoMac}) /\ ~(x = DelFlow(v, NoMac) /\ v \notin ports)
    <3>1. Named(v) = v
      BY <1>1, NamedPorts DEF Ports
    <3>2. x \in Deletes(v, {v, NoMac})
      BY <1>2, <1>11 DEF BpProgress
    <3>3. x = DelFlow(v, NoMac) => x.c = "unflow" /\ x.s = v
      BY DEF DelFlow
    <3>4. QED BY <1>3, <3>1, <3>2, <3>3 DEF Possible
  <2>2. wiped \/ Left(bp.todo) \subseteq Deletes(v, {v})
    BY <1>11, <2>1 DEF BpProgress, x
  <2>3. ports \ {v} \subseteq ports'
    BY <1>1, <1>3, <2>1, DeletePorts
  <2>4. pod[v] = "del"
    BY <1>11 DEF Served
  <2>5. BpProgress'
    BY <1>1, <1>2, <1>11, <2>2, <2>3, <2>4 DEF BpProgress
  <2>6. v \notin Pairs
    BY <1>1, Distinct DEF Pairs
  <2>7. NetProgress'
    BY <1>1, <2>3, <2>6, NetProgressFrame
  <2>8. Rules'
    <3> SUFFICES ASSUME Active', ~torn', ~wiped' PROVE Rules'
      BY DEF Rules
    <3>1. Active /\ ~torn /\ ~wiped /\ x \in Deletes(v, {v})
      BY <1>1, <1>2, <2>2 DEF Active
    <3>2. \A f \in flows : f[1] # v /\ f[3] # v => f \in flows'
      BY <1>1, <1>3, <3>1, DeleteKeeps
    <3>3. \A w \in Vfs : Due(w)' => Due(w) /\ w # v
      BY <1>1, <1>2, <1>11, <2>4 DEF Due, Creating
    <3>4. ASSUME NEW w \in Vfs, NEW f, NEW y, Coming(w, f, y), f[1] # v /\ f[3] # v
          PROVE  Coming(w, f, y)'
      BY <1>1, <1>2, <1>11, <3>2, <3>4 DEF Coming, Listed
    <3>5. v \notin {InPair, OutPair, Rpm, NoMac}
      BY <1>1, Distinct
    <3>6. ASSUME NEW w \in Vfs, Due(w)'
          PROVE  /\ Coming(w, <<w, InPair, NoMac>>, AddFlow(w, StoredIn, NoMac))'
                 /\ Coming(w, <<InPair, w, w>>, AddFlow(StoredIn, w, w))'
                 /\ Coming(w, <<OutPair, OutPair, w>>, AddFlow(StoredOut, StoredOut, w))'
      <4>1. w # v /\ Due(w)
        BY <3>3, <3>6
      <4>2. /\ Coming(w, <<w, InPair, NoMac>>, AddFlow(w, StoredIn, NoMac))
            /\ Coming(w, <<InPair, w, w>>, AddFlow(StoredIn, w, w))
            /\ Coming(w, <<OutPair, OutPair, w>>, AddFlow(StoredOut, StoredOut, w))
        BY <3>1, <4>1 DEF Rules
      <4>3. QED BY <3>4, <3>5, <4>1, <4>2
    <3>7. \A f \in WireRules : f \in flows => f \in flows'
      BY <3>2, <3>5 DEF WireRules
    <3>8. QED BY <1>1, <3>1, <3>6, <3>7 DEF Rules
  <2>9. QED BY <1>5, <1>6, <1>7, <1>9, <2>5, <2>7, <2>8
<1>12. QED BY <1>1, <1>10, <1>11 DEF Types, HandlerTypes

\* The end of a call.  A pod that is connected by it needs its port and its rules.
LEMMA BpEnds ==
  ASSUME Inv, bp.op # "none", bp' = Idle, NEW s \in {"none", "failed", "up"},
         pod' = [pod EXCEPT ![bp.v] = s],
         UNCHANGED <<proc, named, devs, isNF, net, kernel, boot, nf, nfOk, wiped>>,
         torn => torn',
         s = "up" => /\ bp.v \in ports
                     /\ Active /\ ~torn /\ ~wiped =>
                          bp.op = "create" /\ bp.step = "flows" /\ bp.todo = <<>>
  PROVE  HandlerTypes' /\ Served' /\ Nameless' /\ BpProgress' /\ NetProgress' /\ Rules'
<1> USE DEF Inv
<1>1. /\ bp'.op = "none" /\ bp'.step = "begin" /\ bp'.todo = <<>> /\ bp'.v = 0
      /\ bp'.seen = EmptyStore
  BY IdleFields
<1>2. /\ pod' \in [Vfs -> {"none", "add", "up", "stale", "failed", "del"}]
      /\ \A w \in Vfs : pod'[w] = "up" => pod[w] = "up" \/ (w = bp.v /\ s = "up")
  BY DEF Types, HandlerTypes
<1> USE DEF kernel
<1>3. HandlerTypes'
  <2>1. Idle \in [op : {"none", "create", "delete"}, v : Vfs,
                  step : {"begin", "write", "test", "flows"},
                  todo : Seq(Commands), seen : Stores]
    BY Distinct, StoreTypes, EmptySeq DEF Idle, Call
  <2>2. QED BY <1>2, <2>1 DEF Types, HandlerTypes
<1>4. Served'
  BY <1>1 DEF Served
<1>5. Nameless'
  BY <1>1 DEF Nameless
<1>6. BpProgress'
  BY <1>1, <1>2 DEF BpProgress
<1>7. NetProgress'
  BY DEF NetProgress
<1>8. Rules'
  <2> SUFFICES ASSUME Active', ~torn', ~wiped' PROVE Rules'
    BY DEF Rules
  <2>1. Active /\ ~torn /\ ~wiped
    BY DEF Active
  <2>2. \A w \in Vfs : Due(w)' => Due(w) /\ (bp.op = "create" /\ bp.v = w => bp.todo = <<>>)
    <3> SUFFICES ASSUME NEW w \in Vfs, Due(w)'
                 PROVE  Due(w) /\ (bp.op = "create" /\ bp.v = w => bp.todo = <<>>)
      OBVIOUS
    <3>1. pod'[w] = "up"
      BY <1>1 DEF Due, Creating
    <3>2. CASE pod[w] = "up"
      BY <3>2 DEF Due, Served
    <3>3. CASE w = bp.v /\ s = "up"
      BY <2>1, <3>3 DEF Due, Creating
    <3>4. QED BY <1>2, <3>1, <3>2, <3>3
  <2>3. ASSUME NEW w \in Vfs, NEW f, NEW y, Due(w)', Coming(w, f, y)
        PROVE  Coming(w, f, y)'
    BY <2>2, <2>3, LeftEmpty DEF Coming, Listed
  <2>4. QED BY <2>1, <2>2, <2>3 DEF Rules
<1>9. QED BY <1>3, <1>4, <1>5, <1>6, <1>7, <1>8

\* The same, if networkStore is left alone.
LEMMA BpReplies ==
  ASSUME Inv, bp.op # "none", bp' = Idle, NEW s \in {"none", "failed", "up"},
         pod' = [pod EXCEPT ![bp.v] = s], Works \/ Fault,
         UNCHANGED <<memory, net, kernel, boot, nf, nfOk, ghost>>,
         s = "up" => /\ bp.v \in ports
                     /\ Creating(bp.v)
                     /\ Active /\ ~torn /\ ~wiped => bp.step = "flows" /\ bp.todo = <<>>
  PROVE  Inv'
<1> USE DEF Inv, memory, ghost
<1>1. HandlerTypes' /\ Served' /\ Nameless' /\ BpProgress' /\ NetProgress' /\ Rules'
  BY BpEnds DEF Creating
<1>2. KernelTypes'
  BY DEF Types, KernelTypes, kernel
<1>3. MemoryTypes'
  BY BudgetSteps DEF Types, MemoryTypes, Counted
<1>4. Stored'
  <2>1. \A w \in Vfs : pod'[w] = "up" \/ Creating(w)' => pod[w] = "up" \/ Creating(w)
    BY IdleFields DEF Creating, Types, HandlerTypes
  <2>2. QED BY <2>1, StoredFrame
<1>5. QED BY <1>1, <1>2, <1>3, <1>4 DEF Types

LEMMA BpCommandStep == ASSUME Inv, BpCommand PROVE Inv'
<1>1. CASE Possible(Head(bp.todo)) /\ Effect(Head(bp.todo))
           /\ BpGoto(bp.step, Tail(bp.todo)) /\ Works
  BY <1>1, BpCommandWorks DEF BpCommand
<1>2. CASE /\ IF Possible(Head(bp.todo)) THEN Fault ELSE Works
           /\ BpReply(FALSE) /\ UNCHANGED kernel
  <2>1. bp.op # "none"
    BY BpWorks DEF BpCommand
  <2>2. PICK s \in {"none", "failed"} : pod' = [pod EXCEPT ![bp.v] = s]
    BY <1>2 DEF BpReply
  <2>3. /\ bp' = Idle /\ (Works \/ Fault)
        /\ UNCHANGED <<memory, net, kernel, boot, nf, nfOk, ghost>>
    BY <1>2 DEF BpReply, BpCommand, bpRest
  <2>4. QED BY <2>1, <2>2, <2>3, BpReplies
<1>3. QED BY <1>1, <1>2 DEF BpCommand

LEMMA BpTestStep == ASSUME Inv, BpTest PROVE Inv'
<1> USE DEF Inv
<1> DEFINE v == bp.v
<1>1. /\ bp.op = "create" /\ bp.step = "test" /\ bp.todo = <<>> /\ v \in Vfs
      /\ UNCHANGED <<memory, net, kernel, boot, nf, nfOk, ghost, budget>>
  BY DEF BpTest, BpAt, bpRest, Works, Types, HandlerTypes
<1>2. named /\ v \in ports /\ Creating(v)
  BY <1>1 DEF Nameless, BpProgress, Creating
<1>3. CASE ~isNF
  <2>1. ~Active
    BY <1>2, <1>3 DEF Active, Served, Nameless
  <2>2. bp' = Idle /\ pod' = [pod EXCEPT ![v] = "up"] /\ Works
    BY <1>1, <1>3 DEF BpTest, BpReply
  <2>3. QED BY <1>1, <1>2, <2>1, <2>2, BpReplies
<1>4. CASE isNF
  <2> DEFINE a == AddFlow(v, StoredIn, NoMac)
             b == AddFlow(StoredIn, v, v)
             c == AddFlow(StoredOut, StoredOut, v)
  <2>1. bp' = [bp EXCEPT !.step = "flows", !.todo = <<a, b, c>>] /\ pod' = pod
    BY <1>4 DEF BpTest, BpGoto, FlowsFor
  <2>2. a \in Commands /\ b \in Commands /\ c \in Commands
    BY <1>1, CommandTypes, Distinct DEF Macs
  <2>3. <<a, b, c>> \in Seq(Commands) /\ Left(<<a, b, c>>) = {a, b, c}
    BY <2>2, LeftThree
  <2>4. /\ bp'.op = "create" /\ bp'.v = v /\ bp'.step = "flows"
        /\ bp'.todo = <<a, b, c>>
    BY <1>1, <2>1 DEF Types, HandlerTypes
  <2>5. BpFlows(v) = {a, b, c}
    BY DEF BpFlows
  <2> HIDE DEF a, b, c
  <2> USE DEF memory, kernel, ghost, budget
  <2>6. Types'
    <3>1. bp' \in [op : {"none", "create", "delete"}, v : Vfs,
                   step : {"begin", "write", "test", "flows"},
                   todo : Seq(Commands), seen : Stores]
      BY <2>1, <2>3 DEF Types, HandlerTypes
    <3>2. QED BY <1>1, <2>1, <3>1 DEF Types, KernelTypes, HandlerTypes, MemoryTypes
  <2>7. Served' /\ Nameless'
    BY <1>1, <1>2, <2>1, <2>4 DEF Served, Nameless
  <2>8. BpProgress'
    BY <1>1, <1>2, <2>1, <2>3, <2>4, <2>5 DEF BpProgress
  <2>9. NetProgress'
    BY <1>1 DEF NetProgress
  <2>10. Stored'
    BY <1>1, <1>2, <2>1, <2>4, StoredFrame DEF Creating
  <2>11. Rules'
    <3> SUFFICES ASSUME Active', ~torn', ~wiped' PROVE Rules'
      BY DEF Rules
    <3>1. Active /\ ~torn /\ ~wiped
      BY <1>1 DEF Active
    <3>2. /\ AddFlow(v, StoredIn, NoMac) \in Left(bp'.todo)
          /\ AddFlow(StoredIn, v, v) \in Left(bp'.todo)
          /\ AddFlow(StoredOut, StoredOut, v) \in Left(bp'.todo)
      BY <2>3, <2>4 DEF a, b, c
    <3>3. ASSUME NEW w \in Vfs, NEW f, NEW y, Coming(w, f, y), w # v
          PROVE  Coming(w, f, y)'
      BY <1>1, <3>3 DEF Coming, Listed
    <3>4. \A w \in Vfs : Due(w)' => w = v \/ Due(w)
      BY <2>1, <2>4 DEF Due, Creating
    <3>5. ASSUME NEW w \in Vfs, Due(w)'
          PROVE  /\ Coming(w, <<w, InPair, NoMac>>, AddFlow(w, StoredIn, NoMac))'
                 /\ Coming(w, <<InPair, w, w>>, AddFlow(StoredIn, w, w))'
                 /\ Coming(w, <<OutPair, OutPair, w>>, AddFlow(StoredOut, StoredOut, w))'
      <4>1. CASE w = v
        BY <2>4, <3>2, <4>1 DEF Coming
      <4>2. CASE w # v
        <5>1. Due(w)
          BY <3>4, <3>5, <4>2
        <5>2. QED BY <3>1, <3>3, <4>2, <5>1 DEF Rules
      <4>3. QED BY <4>1, <4>2
    <3>6. QED BY <1>1, <3>1, <3>5 DEF Rules
  <2>12. QED BY <2>6, <2>7, <2>8, <2>9, <2>10, <2>11
<1>5. QED BY <1>3, <1>4

LEMMA BpDoneStep == ASSUME Inv, BpDone PROVE Inv'
<1>1. /\ bp.op = "create" /\ bp.step = "flows" /\ bp.todo = <<>>
      /\ bp' = Idle /\ pod' = [pod EXCEPT ![bp.v] = "up"] /\ Works
      /\ UNCHANGED <<memory, net, kernel, boot, nf, nfOk, ghost>>
  BY DEF BpDone, BpAt, BpReply, bpRest
<1>2. bp.v \in ports /\ Creating(bp.v)
  BY <1>1 DEF Inv, BpProgress, Creating
<1>3. QED BY <1>1, <1>2, BpReplies

LEMMA BpReadStep == ASSUME Inv, BpRead PROVE Inv'
<1> USE DEF Inv
<1>1. /\ bp.op \in {"create", "delete"} /\ bp.step = "begin" /\ bp.todo = <<>> /\ Race
      /\ bp' = [bp EXCEPT !.step = "write", !.seen = store]
      /\ UNCHANGED <<memory, net, kernel, boot, nf, nfOk, ghost, pod>>
  BY DEF BpRead, BpAt, bpRest
<1>2. /\ bp'.op = bp.op /\ bp'.v = bp.v /\ bp'.step = "write" /\ bp'.todo = bp.todo
      /\ bp' \in [op : {"none", "create", "delete"}, v : Vfs,
                  step : {"begin", "write", "test", "flows"},
                  todo : Seq(Commands), seen : Stores]
  BY <1>1 DEF Types, HandlerTypes, MemoryTypes
<1> USE DEF memory, kernel, ghost
<1>3. Types'
  BY <1>1, <1>2, BudgetSteps DEF Types, KernelTypes, HandlerTypes, MemoryTypes, Counted
<1>4. Served' /\ Nameless'
  BY <1>1, <1>2 DEF Served, Nameless
<1>5. BpProgress'
  BY <1>1, <1>2, LeftEmpty DEF BpProgress
<1>6. NetProgress'
  BY <1>1 DEF NetProgress
<1>7. Stored'
  BY <1>1, <1>2, StoredFrame DEF Creating
<1>8. Rules'
  BY <1>1, <1>2, RulesFrame DEF Creating, Due
<1>9. QED BY <1>3, <1>4, <1>5, <1>6, <1>7, <1>8

\* The update of networkStore.  What one call appends or removes is what it means
\* to, unless the other one wrote in between, which is a torn update.
LEMMA UpdatedStore ==
  ASSUME NEW s \in Stores, bp.v \in Vfs, bp.op \in {"create", "delete"}
  PROVE  /\ Updated(s) \in Stores
         /\ Updated(s).inp = s.inp /\ Updated(s).out = s.out
         /\ \A w \in Left(s.vfs) : bp.op = "create" \/ w # bp.v => w \in Left(Updated(s).vfs)
         /\ bp.op = "create" =>
              /\ bp.v \in Left(Updated(s).vfs)
              /\ Len(s.vfs) <= Len(Updated(s).vfs)
              /\ \A i \in 1 .. Len(s.vfs) : Updated(s).vfs[i] = s.vfs[i]
<1>1. s.vfs \in Seq(Vfs)
  BY DEF Stores
<1>2. CASE bp.op = "create"
  <2> DEFINE t == Append(s.vfs, bp.v)
  <2>1. Updated(s) = [s EXCEPT !.made = TRUE, !.vfs = t]
    BY <1>2 DEF Updated
  <2>2. /\ t \in Seq(Vfs) /\ Left(s.vfs) \subseteq Left(t) /\ bp.v \in Left(t)
    BY <1>1, LeftAppend
  <2>3. /\ Len(t) = Len(s.vfs) + 1 /\ \A i \in 1 .. Len(s.vfs) : t[i] = s.vfs[i]
    BY <1>1, AppendProperties
  <2>4. Len(s.vfs) <= Len(t)
    BY <1>1, <2>3, LenProperties
  <2> HIDE DEF t
  <2>5. /\ Updated(s) \in Stores /\ Updated(s).vfs = t
        /\ Updated(s).inp = s.inp /\ Updated(s).out = s.out
    BY <2>1, <2>2 DEF Stores
  <2>6. QED BY <2>2, <2>3, <2>4, <2>5
<1>3. CASE bp.op = "delete"
  <2> DEFINE t == RemoveFirst(s.vfs, bp.v)
  <2>1. Updated(s) = [s EXCEPT !.vfs = t]
    BY <1>3 DEF Updated
  <2>2. t \in Seq(Vfs) /\ Left(s.vfs) \ {bp.v} \subseteq Left(t)
    BY <1>1, LeftRemoveFirst
  <2> HIDE DEF t
  <2>3. /\ Updated(s) \in Stores /\ Updated(s).vfs = t
        /\ Updated(s).inp = s.inp /\ Updated(s).out = s.out
    BY <2>1, <2>2 DEF Stores
  <2>4. QED BY <1>3, <2>2, <2>3
<1>4. QED BY <1>2, <1>3

LEMMA BpWriteStep == ASSUME Inv, BpWrite PROVE Inv'
<1> USE DEF Inv
<1> DEFINE v == bp.v
           seen == IF bp.step = "write" THEN bp.seen ELSE store
<1>1. /\ bp.op \in {"create", "delete"} /\ v \in Vfs /\ bp.todo = <<>>
      /\ bp.step \in {"begin", "write"} /\ seen \in Stores
  BY DEF BpWrite, Types, HandlerTypes, MemoryTypes
<1>2. /\ store' = Updated(seen)
      /\ torn' = (torn \/ store # seen \/ (bp.op = "delete" /\ net.step = "loop"))
      /\ UNCHANGED <<proc, named, devs, isNF, net, kernel, boot, nf, nfOk, wiped, budget>>
  BY DEF BpWrite, Works
<1> HIDE DEF seen
<1>3. /\ store' \in Stores
      /\ torn' \in BOOLEAN
      /\ store'.inp = seen.inp /\ store'.out = seen.out
      /\ \A w \in Left(seen.vfs) : bp.op = "create" \/ w # v => w \in Left(store'.vfs)
      /\ bp.op = "create" =>
              /\ v \in Left(store'.vfs)
              /\ Len(seen.vfs) <= Len(store'.vfs)
              /\ \A i \in 1 .. Len(seen.vfs) : store'.vfs[i] = seen.vfs[i]
  BY <1>1, <1>2, UpdatedStore
<1>4. named
  BY <1>1 DEF Nameless
<1>5. KernelTypes' /\ MemoryTypes'
  BY <1>2, <1>3 DEF Types, KernelTypes, MemoryTypes, kernel, budget
<1>6. /\ bp.op = "create" => pod[v] = "add"
      /\ bp.op = "delete" => pod[v] = "del"
  BY DEF Served
<1>7. CASE bp.op = "delete"
  <2>1. bp' = Idle /\ pod' = [pod EXCEPT ![v] = "none"]
    BY <1>7 DEF BpWrite, BpReply
  <2>2. bp.op # "none" /\ (torn => torn')
    BY <1>2, <1>7
  <2>3. HandlerTypes' /\ Served' /\ Nameless' /\ BpProgress' /\ NetProgress' /\ Rules'
    BY <1>2, <2>1, <2>2, BpEnds
  <2>4. \A w \in Vfs : ~Creating(w)' /\ (pod'[w] = "up" => pod[w] = "up" /\ w # v)
    BY <1>1, <2>1, IdleFields DEF Creating, Types, HandlerTypes
  <2>5. Stored'
    <3> SUFFICES ASSUME ~torn' PROVE Stored'
      BY DEF Stored
    <3>1. ~torn /\ store = seen /\ net.step # "loop"
      BY <1>2, <1>7
    <3>2. \A w \in Vfs : pod'[w] = "up" => w \in Left(store'.vfs)
      BY <1>3, <1>4, <2>4, <3>1 DEF Stored
    <3>3. Active' => store'.inp = InPair /\ store'.out = OutPair
      BY <1>2, <1>3, <1>4, <3>1 DEF Stored, Active
    <3>4. QED BY <1>2, <2>4, <3>1, <3>2, <3>3 DEF Stored
  <2>6. QED BY <1>5, <2>3, <2>5 DEF Types
<1>8. CASE bp.op = "create"
  <2>1. bp' = [bp EXCEPT !.step = "test", !.seen = EmptyStore] /\ pod' = pod
    BY <1>8 DEF BpWrite
  <2>2. /\ bp'.op = "create" /\ bp'.v = v /\ bp'.step = "test" /\ bp'.todo = <<>>
        /\ bp' \in [op : {"none", "create", "delete"}, v : Vfs,
                    step : {"begin", "write", "test", "flows"},
                    todo : Seq(Commands), seen : Stores]
    BY <1>1, <1>8, <2>1, StoreTypes DEF Types, HandlerTypes
  <2>3. HandlerTypes'
    BY <1>2, <2>1, <2>2 DEF Types, HandlerTypes
  <2>4. Served' /\ Nameless'
    BY <1>2, <1>4, <1>8, <2>1, <2>2 DEF Served, Nameless, kernel
  <2>5. v \in ports
    BY <1>1, <1>8 DEF BpProgress
  <2>6. BpProgress'
    BY <1>2, <2>1, <2>2, <2>5 DEF BpProgress, kernel
  <2>7. NetProgress'
    BY <1>2, NetProgressFrame DEF kernel
  <2>8. Rules'
    BY <1>1, <1>2, <2>1, <2>2, RulesFrame DEF Creating, Due, kernel
  <2>9. Stored'
    <3> SUFFICES ASSUME ~torn' PROVE Stored'
      BY DEF Stored
    <3>1. ~torn /\ store = seen
      BY <1>2
    <3>2. ASSUME NEW w \in Vfs, pod'[w] = "up" \/ Creating(w)' PROVE w \in Left(store'.vfs)
      <4>1. CASE w = v
        BY <1>3, <1>8, <4>1
      <4>2. CASE w # v
        <5>1. pod[w] = "up"
          BY <2>1, <2>2, <3>2, <4>2 DEF Creating
        <5>2. w \in Left(store.vfs)
          BY <1>4, <3>1, <5>1 DEF Stored
        <5>3. QED BY <1>3, <1>8, <3>1, <5>2
      <4>3. QED BY <4>1, <4>2
    <3>3. Active' => store'.inp = InPair /\ store'.out = OutPair
      BY <1>2, <1>3, <1>4, <3>1 DEF Stored, Active
    <3>4. net'.op = "create" /\ net'.step = "loop" =>
             /\ Len(net'.seen.vfs) <= Len(store'.vfs)
             /\ \A i \in 1 .. Len(net'.seen.vfs) : store'.vfs[i] = net'.seen.vfs[i]
      <4> SUFFICES ASSUME net.op = "create", net.step = "loop"
                   PROVE  /\ Len(net.seen.vfs) <= Len(store'.vfs)
                          /\ \A i \in 1 .. Len(net.seen.vfs) : store'.vfs[i] = net.seen.vfs[i]
        BY <1>2
      <4>1. /\ Len(net.seen.vfs) <= Len(store.vfs)
            /\ \A i \in 1 .. Len(net.seen.vfs) : store.vfs[i] = net.seen.vfs[i]
        BY <3>1 DEF Stored
      <4>2. /\ Len(store.vfs) <= Len(store'.vfs)
            /\ \A i \in 1 .. Len(store.vfs) : store'.vfs[i] = store.vfs[i]
        BY <1>3, <1>8, <3>1
      <4>3. Len(net.seen.vfs) \in Nat /\ Len(store.vfs) \in Nat /\ Len(store'.vfs) \in Nat
        BY <1>3, LenProperties DEF Types, HandlerTypes, MemoryTypes, Stores
      <4>4. QED BY <4>1, <4>2, <4>3
    <3>5. QED BY <3>2, <3>3, <3>4 DEF Stored
  <2>10. QED BY <1>5, <2>3, <2>4, <2>6, <2>7, <2>8, <2>9 DEF Types
<1>9. QED BY <1>1, <1>7, <1>8

(***************************************************************************)
(* Calls for the network function.                                         *)
(***************************************************************************)
LEMMA NetWorks ==
  ASSUME Inv, net.todo # <<>> \/ net.step # "begin" PROVE net.op # "none"
BY IdleFields DEF Inv, Served

\* They touch no port of a VF.
LEMMA BpProgressFrame ==
  ASSUME BpProgress, HandlerTypes, UNCHANGED <<bp, pod, wiped>>,
         ports' \cap Vfs = ports \cap Vfs
  PROVE  BpProgress'
<1>1. bp.v \in Vfs
  BY DEF HandlerTypes
<1>2. (bp.v \in ports) = (bp.v \in ports')
  BY <1>1
<1>3. \A v \in Vfs : v \in ports => v \in ports'
  OBVIOUS
<1>4. QED BY <1>2, <1>3 DEF BpProgress

\* The end of a call.
LEMMA NetEnds ==
  ASSUME Inv, net.op # "none", NEW ok \in BOOLEAN, NetReply(ok), Works \/ Fault,
         UNCHANGED <<netRest, isNF, store, kernel, torn>>,
         ok /\ net.op = "create" => net.step = "last" /\ net.todo = <<>>
  PROVE  Inv'
<1> USE DEF Inv, netRest, kernel
<1>1. /\ net'.op = "none" /\ net'.step = "begin" /\ net'.todo = <<>> /\ net'.v = 0
      /\ net'.seen = EmptyStore /\ net' = Idle
  BY IdleFields DEF NetReply
<1>2. /\ nf' \in {"up", "half"} /\ nfOk' \in BOOLEAN
      /\ nfOk' => /\ net.op = "create" /\ nf' = "up"
                  /\ net.step = "last" /\ net.todo = <<>>
  BY DEF NetReply
<1>3. boot = "ready"
  BY DEF Served
<1>4. Types'
  <2>1. Idle \in [op : {"none", "create", "delete"}, v : Nat,
                  step : {"begin", "write", "loop", "last"},
                  todo : Seq(Commands), seen : Stores]
    BY StoreTypes, EmptySeq DEF Idle, Call
  <2>2. HandlerTypes' /\ KernelTypes'
    BY <1>1, <1>2, <2>1 DEF Types, HandlerTypes, KernelTypes
  <2>3. MemoryTypes'
    BY BudgetSteps DEF Types, MemoryTypes, Counted
  <2>4. QED BY <2>2, <2>3 DEF Types
<1>5. Served'
  BY <1>1, <1>2 DEF Served
<1>6. Nameless'
  BY <1>1, <1>2 DEF Nameless, Served
<1>7. BpProgress'
  BY DEF BpProgress
<1>8. NetProgress'
  BY <1>1, <1>2 DEF NetProgress
<1>9. Active' => nfOk' /\ Active
  BY <1>1, <1>2 DEF Active
<1>10. Stored'
  <2>1. \A w \in Vfs : Creating(w)' = Creating(w)
    BY DEF Creating
  <2>2. QED BY <1>1, <1>9, <2>1 DEF Stored
<1>11. Rules'
  <2> SUFFICES ASSUME Active', ~torn', ~wiped' PROVE Rules'
    BY DEF Rules
  <2>1. Active /\ ~torn /\ ~wiped /\ net.op = "create" /\ net.step = "last" /\ net.todo = <<>>
    BY <1>2, <1>9
  <2>2. net.seen = EmptyStore
    BY <2>1 DEF NetProgress
  <2>3. \A v \in Vfs : ~Listed(v)
    BY <2>2, StoreTypes DEF Listed
  <2>4. ASSUME NEW v \in Vfs, NEW f, NEW x, Coming(v, f, x)
        PROVE  Coming(v, f, x)'
    BY <2>1, <2>3, <2>4, LeftEmpty DEF Coming
  <2>5. \A v \in Vfs : Due(v)' => Due(v)
    BY DEF Due, Creating
  <2>6. \A f \in WireRules : f \in flows'
    BY <2>1, LeftEmpty DEF Rules
  <2>7. QED BY <2>1, <2>4, <2>5, <2>6 DEF Rules
<1>12. QED BY <1>4, <1>5, <1>6, <1>7, <1>8, <1>10, <1>11

LEMMA AddPortFields ==
  /\ \A p, q : AddPort(p) = AddPort(q) => p = q
  /\ \A p : AddPort(p).c = "port" /\ AddPort(p).s = p
BY DEF AddPort

\* The rules of AddNetworkFunction name their ports themselves.
LEMMA NetRule ==
  ASSUME NEW i \in Ports, NEW o \in Ports, NEW m, Effect(AddFlow(i, o, m))
  PROVE  <<i, o, m>> \in flows'
BY NamedPorts DEF Effect, AddFlow

\* A command that succeeds.
LEMMA NetCommandWorks ==
  ASSUME Inv, net.todo # <<>>, Possible(Head(net.todo)), Effect(Head(net.todo)),
         NetGoto(net.step, net.v, Tail(net.todo)), Works,
         UNCHANGED <<netRest, isNF, store, torn>>
  PROVE  Inv'
<1> DEFINE x == Head(net.todo)
<1> USE DEF Inv, netRest
<1>1. net.op # "none" /\ named /\ boot = "ready" /\ UNCHANGED <<nf, nfOk, budget>>
  BY NetWorks DEF Possible, NetGoto, Works, Served
<1>2. /\ x \in Commands /\ net'.todo \in Seq(Commands)
      /\ Left(net.todo) = {x} \cup Left(net'.todo)
      /\ net' \in [op : {"none", "create", "delete"}, v : Nat,
                   step : {"begin", "write", "loop", "last"},
                   todo : Seq(Commands), seen : Stores]
      /\ net'.op = net.op /\ net'.v = net.v /\ net'.step = net.step
      /\ net'.seen = IF net.step = "last" THEN EmptyStore ELSE net.seen
  BY LeftTail, StoreTypes DEF NetGoto, Types, HandlerTypes
<1>3. Possible(x) /\ Effect(x)
  OBVIOUS
<1> HIDE DEF x
<1> USE DEF budget
<1>4. KernelTypes' /\ br' = br
  BY <1>2, <1>3, EffectTypes DEF Types, Effect
<1>5. Types'
  BY <1>1, <1>2, <1>4 DEF Types, HandlerTypes, MemoryTypes
<1>6. Served' /\ Nameless'
  BY <1>1, <1>2, <1>4, IdleFields DEF Served, Nameless
<1>7. \A w \in Vfs : Creating(w)' = Creating(w) /\ Due(w)' = Due(w)
  BY DEF Creating, Due
<1>8. Stored'
  BY <1>1, <1>2, <1>7 DEF Stored, Active
<1>9. CASE net.op = "create"
  <2>1. net.step # "write"
    BY <1>9 DEF NetProgress
  <2>2. CASE net.step = "begin"
    <3>1. PICK p \in NfPorts : x = AddPort(p)
      BY <1>2, <1>9, <2>2 DEF NetProgress
    <3>2. p # NoPort /\ p \in Pairs /\ x.c = "port" /\ x.s = p
      BY <1>3, <3>1, AddPortFields DEF Possible, NfPorts
    <3>3. ports' = ports \cup {p} /\ flows' = flows
      BY <1>3, <3>2 DEF Effect
    <3>4. BpProgress'
      <4>1. ports' \cap Vfs = ports \cap Vfs
        BY <3>2, <3>3, Distinct DEF Pairs
      <4>2. QED BY <4>1, BpProgressFrame DEF Types
    <3>5. NetProgress'
      <4>1. Left(net'.todo) \subseteq {AddPort(q) : q \in NfPorts}
        BY <1>2, <1>9, <2>2 DEF NetProgress
      <4>2. ASSUME NEW q \in Pairs
            PROVE  \/ q \in ports' \/ AddPort(q) \in Left(net'.todo)
                   \/ AddPort(NoPort) \in Left(net'.todo)
        <5>1. \/ q \in ports \/ AddPort(q) \in Left(net.todo)
              \/ AddPort(NoPort) \in Left(net.todo)
          BY <1>9, <2>2, <4>2 DEF NetProgress
        <5>2. AddPort(NoPort) # x /\ (AddPort(q) = x => q = p)
          BY <3>1, <3>2, AddPortFields
        <5>3. QED BY <1>2, <3>3, <5>1, <5>2
      <4>3. ~nfOk
        BY <1>1 DEF Served
      <4>4. QED BY <1>1, <1>2, <1>9, <2>2, <4>1, <4>2, <4>3 DEF NetProgress
    <3>6. Rules'
      BY <1>1, <1>2, <2>2 DEF Rules, Active, Served
    <3>7. QED BY <1>5, <1>6, <1>8, <3>4, <3>5, <3>6
  <2>3. CASE net.step \in {"loop", "last"}
    <3>1. x.c = "flow"
      BY <1>2, <1>9, <2>3 DEF NetProgress
    <3>2. ports' = ports /\ flows \subseteq flows'
      BY <1>3, <3>1 DEF Effect
    <3>3. BpProgress'
      BY <3>2, BpProgressFrame DEF Types
    <3>4. NetProgress'
      <4>1. net.step = "last" => net.seen = EmptyStore
        BY <1>9 DEF NetProgress
      <4>2. QED BY <1>1, <1>2, <1>9, <2>3, <3>2, <4>1 DEF NetProgress
    <3>5. net'.seen = net.seen
      BY <1>2, <1>9 DEF NetProgress
    <3>6. Rules'
      <4> SUFFICES ASSUME Active', ~torn', ~wiped' PROVE Rules'
        BY DEF Rules
      <4>1. Active /\ ~torn /\ ~wiped
        BY <1>1, <1>2 DEF Active
      <4>2. ASSUME NEW i \in Ports, NEW o \in Ports, NEW m, AddFlow(i, o, m) \in Left(net.todo)
            PROVE  <<i, o, m>> \in flows' \/ AddFlow(i, o, m) \in Left(net'.todo)
        BY <1>2, <1>3, <4>2, NetRule
      <4>3. ASSUME NEW v \in Vfs, NEW i \in Ports, NEW o \in Ports, NEW m, NEW y,
                   Coming(v, <<i, o, m>>, y)
            PROVE  Coming(v, <<i, o, m>>, y)'
        <5>1. CASE <<i, o, m>> \in flows
          BY <3>2, <5>1 DEF Coming
        <5>2. CASE AddFlow(i, o, m) \in Left(net.todo)
          BY <4>2, <5>2 DEF Coming
        <5>3. CASE Listed(v) \/ (bp.op = "create" /\ bp.v = v /\ y \in Left(bp.todo))
          BY <1>2, <3>5, <5>3 DEF Coming, Listed
        <5>4. QED BY <4>3, <5>1, <5>2, <5>3 DEF Coming
      <4>4. {InPair, OutPair, Rpm} \subseteq Ports /\ Vfs \subseteq Ports
        BY DEF Ports, Pairs
      <4>5. ASSUME NEW w \in Vfs, Due(w)'
            PROVE  /\ Coming(w, <<w, InPair, NoMac>>, AddFlow(w, StoredIn, NoMac))'
                   /\ Coming(w, <<InPair, w, w>>, AddFlow(StoredIn, w, w))'
                   /\ Coming(w, <<OutPair, OutPair, w>>, AddFlow(StoredOut, StoredOut, w))'
        <5>1. Due(w)
          BY <1>7, <4>5
        <5>2. /\ Coming(w, <<w, InPair, NoMac>>, AddFlow(w, StoredIn, NoMac))
              /\ Coming(w, <<InPair, w, w>>, AddFlow(StoredIn, w, w))
              /\ Coming(w, <<OutPair, OutPair, w>>, AddFlow(StoredOut, StoredOut, w))
          BY <4>1, <5>1 DEF Rules
        <5>3. QED BY <4>3, <4>4, <5>2
      <4>6. ASSUME NEW f \in WireRules, nfOk' \/ net'.step = "last"
            PROVE  f \in flows' \/ AddFlow(f[1], f[2], f[3]) \in Left(net'.todo)
        <5>1. f \in flows \/ AddFlow(f[1], f[2], f[3]) \in Left(net.todo)
          BY <1>1, <1>2, <4>1, <4>6 DEF Rules
        <5>2. f[1] \in Ports /\ f[2] \in Ports /\ f = <<f[1], f[2], f[3]>>
          BY <4>4 DEF WireRules
        <5>3. QED BY <3>2, <4>2, <5>1, <5>2
      <4>7. QED BY <4>5, <4>6 DEF Rules
    <3>7. QED BY <1>5, <1>6, <1>8, <3>3, <3>4, <3>6
  <2>4. QED BY <2>1, <2>2, <2>3 DEF Types, HandlerTypes
<1>10. CASE net.op = "delete"
  <2>1. x.c = "unflow" \/ (x.c = "unport" /\ x.s \in NfPorts)
    BY <1>2, <1>10 DEF NetProgress
  <2>2. ports' \cap Vfs = ports \cap Vfs
    BY <1>3, <2>1, Distinct DEF Effect, NfPorts, Pairs
  <2>3. BpProgress'
    BY <2>2, BpProgressFrame DEF Types
  <2>4. ~nfOk
    BY <1>1 DEF Served
  <2>5. NetProgress'
    BY <1>1, <1>2, <1>10, <2>4 DEF NetProgress
  <2>6. Rules'
    BY <1>1, <1>2, <1>10, <2>4 DEF Rules, Active
  <2>7. QED BY <1>5, <1>6, <1>8, <2>3, <2>5, <2>6
<1>11. QED BY <1>1, <1>9, <1>10 DEF Types, HandlerTypes

LEMMA NetCommandStep == ASSUME Inv, NetCommand PROVE Inv'
<1>1. CASE Possible(Head(net.todo)) /\ Effect(Head(net.todo))
           /\ NetGoto(net.step, net.v, Tail(net.todo)) /\ Works
  BY <1>1, NetCommandWorks DEF NetCommand
<1>2. CASE /\ IF Possible(Head(net.todo)) THEN Fault ELSE Works
           /\ NetReply(FALSE) /\ UNCHANGED kernel
  <2>1. net.op # "none"
    BY NetWorks DEF NetCommand
  <2>2. (Works \/ Fault) /\ UNCHANGED <<netRest, isNF, store, kernel, torn>>
    BY <1>2 DEF NetCommand
  <2>3. QED BY <1>2, <2>1, <2>2, NetEnds
<1>3. QED BY <1>1, <1>2 DEF NetCommand

LEMMA NetDoneStep == ASSUME Inv, NetDone PROVE Inv'
<1>1. /\ net.op # "none" /\ net.step = "last" /\ net.todo = <<>>
      /\ NetReply(TRUE) /\ Works
      /\ UNCHANGED <<netRest, isNF, store, kernel, torn>>
  BY DEF NetDone, NetAt
<1>2. QED BY <1>1, NetEnds

\* The ports of the network function are there before they are stored.
LEMMA NetHasPorts ==
  ASSUME Inv, net.op = "create", net.step \in {"begin", "write"}, net.todo = <<>>
  PROVE  Pairs \subseteq ports /\ named /\ ~nfOk /\ net.v = 1 /\ ~Active /\ boot = "ready"
<1>1. Pairs \subseteq ports /\ net.v = 1
  BY LeftEmpty DEF Inv, NetProgress
<1>2. named /\ ~nfOk /\ boot = "ready"
  BY DEF Inv, Nameless, Served
<1>3. QED BY <1>1, <1>2 DEF Active

LEMMA NetReadStep == ASSUME Inv, NetRead PROVE Inv'
<1> USE DEF Inv, netRest, kernel
<1>1. /\ net.op = "create" /\ net.step = "begin" /\ net.todo = <<>> /\ Race
      /\ net' = [net EXCEPT !.step = "write", !.seen = store]
      /\ UNCHANGED <<netRest, isNF, store, kernel, nf, nfOk, torn>>
  BY DEF NetRead, NetAt
<1>2. /\ net'.op = "create" /\ net'.v = net.v /\ net'.step = "write" /\ net'.todo = <<>>
      /\ net' \in [op : {"none", "create", "delete"}, v : Nat,
                   step : {"begin", "write", "loop", "last"},
                   todo : Seq(Commands), seen : Stores]
  BY <1>1 DEF Types, HandlerTypes, MemoryTypes
<1>3. Pairs \subseteq ports /\ named /\ ~nfOk /\ net.v = 1 /\ ~Active /\ boot = "ready"
  BY <1>1, NetHasPorts
<1>4. Types'
  <2>1. KernelTypes' /\ HandlerTypes'
    BY <1>1, <1>2 DEF Types, KernelTypes, HandlerTypes
  <2>2. MemoryTypes'
    BY <1>1, BudgetSteps DEF Types, MemoryTypes, Counted
  <2>3. QED BY <2>1, <2>2 DEF Types
<1>5. Served' /\ Nameless'
  BY <1>1, <1>2, <1>3 DEF Served, Nameless
<1>6. BpProgress'
  BY <1>1, BpProgressFrame DEF Types
<1>7. NetProgress'
  BY <1>1, <1>2, <1>3 DEF NetProgress
<1>8. ~Active'
  BY <1>1, <1>2, <1>3 DEF Active
<1>9. Stored'
  <2>1. \A w \in Vfs : Creating(w)' = Creating(w)
    BY <1>1 DEF Creating
  <2>2. QED BY <1>1, <1>2, <1>8, <2>1 DEF Stored
<1>10. Rules'
  BY <1>8 DEF Rules
<1>11. QED BY <1>4, <1>5, <1>6, <1>7, <1>9, <1>10

\* From now on a VF with its entry in networkStore is on the list.
LEMMA NetWriteStep == ASSUME Inv, NetWrite PROVE Inv'
<1> USE DEF Inv, netRest, kernel
<1> DEFINE seen == IF net.step = "write" THEN net.seen ELSE store
           list == [EmptyStore EXCEPT !.vfs = seen.vfs]
<1>1. /\ net.op = "create" /\ net.step \in {"begin", "write"} /\ net.todo = <<>>
      /\ seen \in Stores
  BY DEF NetWrite, NetAt, Types, HandlerTypes, MemoryTypes
<1>2. /\ store' = NfStored(seen) /\ torn' = (torn \/ store # seen)
      /\ net' = [net EXCEPT !.step = "loop", !.seen = list]
      /\ UNCHANGED <<netRest, isNF, kernel, nf, nfOk, budget>>
  BY DEF NetWrite, Works
<1> HIDE DEF seen
<1>3. list \in Stores /\ list.vfs = seen.vfs
  BY <1>1, StoreTypes DEF Stores, EmptyStore
<1>4. /\ store' \in Stores /\ store'.vfs = seen.vfs
      /\ store'.inp = InPair /\ store'.out = OutPair
  BY <1>1, <1>2 DEF Stores, NfStored, NfPorts, Pairs
<1> HIDE DEF list
<1>5. /\ net'.op = "create" /\ net'.v = net.v /\ net'.step = "loop" /\ net'.todo = <<>>
      /\ net'.seen.vfs = seen.vfs
      /\ net' \in [op : {"none", "create", "delete"}, v : Nat,
                   step : {"begin", "write", "loop", "last"},
                   todo : Seq(Commands), seen : Stores]
  BY <1>1, <1>2, <1>3 DEF Types, HandlerTypes
<1>6. Pairs \subseteq ports /\ named /\ ~nfOk /\ net.v = 1 /\ boot = "ready"
  BY <1>1, NetHasPorts
<1>7. Types'
  BY <1>2, <1>4, <1>5 DEF Types, KernelTypes, HandlerTypes, MemoryTypes, budget
<1>8. Served' /\ Nameless'
  BY <1>1, <1>2, <1>5, <1>6 DEF Served, Nameless
<1>9. BpProgress'
  BY <1>2, BpProgressFrame DEF Types
<1>10. NetProgress'
  BY <1>2, <1>5, <1>6, LeftEmpty DEF NetProgress
<1>11. \A w \in Vfs : Creating(w)' = Creating(w) /\ Due(w)' = Due(w)
  BY <1>2 DEF Creating, Due
<1>12. Stored'
  <2> SUFFICES ASSUME ~torn' PROVE Stored'
    BY DEF Stored
  <2>1. ~torn /\ store = seen
    BY <1>2
  <2>2. \A w \in Vfs : pod'[w] = "up" \/ Creating(w)' => w \in Left(store'.vfs)
    BY <1>2, <1>4, <1>6, <1>11, <2>1 DEF Stored
  <2>3. Len(net'.seen.vfs) <= Len(store'.vfs)
    BY <1>4, <1>5, LenProperties DEF Stores
  <2>4. QED BY <1>4, <1>5, <2>2, <2>3 DEF Stored
<1>13. Rules'
  <2> SUFFICES ASSUME ~torn' PROVE Rules'
    BY DEF Rules
  <2>1. ~torn /\ store = seen
    BY <1>2
  <2>2. ASSUME NEW w \in Vfs, Due(w)' PROVE Listed(w)'
    <3>1. w \in Left(seen.vfs)
      BY <1>6, <1>11, <2>1, <2>2 DEF Stored, Due
    <3>2. PICK j \in 1 .. Len(seen.vfs) : seen.vfs[j] = w
      BY <3>1 DEF Left
    <3>3. Len(seen.vfs) \in Nat
      BY <1>1, LenProperties DEF Stores
    <3>4. QED BY <1>5, <1>6, <3>2, <3>3 DEF Listed
  <2>3. \A w \in Vfs : \A f, x : Due(w)' => Coming(w, f, x)'
    BY <2>2 DEF Coming
  <2>4. QED BY <1>2, <1>5, <1>6, <2>3 DEF Rules
<1>14. QED BY <1>7, <1>8, <1>9, <1>10, <1>12, <1>13

LEMMA LeftFive ==
  ASSUME NEW S, NEW v \in S, NEW w \in S, NEW x \in S, NEW y \in S, NEW z \in S
  PROVE  <<v, w, x, y, z>> \in Seq(S) /\ Left(<<v, w, x, y, z>>) = {v, w, x, y, z}
<1> DEFINE s == <<v, w, x, y, z>>
<1>1. /\ s \in Seq(S) /\ Len(s) = 5
      /\ s[1] = v /\ s[2] = w /\ s[3] = x /\ s[4] = y /\ s[5] = z
  OBVIOUS
<1>2. 1 .. 5 = {1, 2, 3, 4, 5}
  OBVIOUS
<1> HIDE DEF s
<1>3. Left(s) = {v, w, x, y, z}
  BY <1>1, <1>2 DEF Left
<1>4. QED BY <1>1, <1>3 DEF s

\* A step of the loop that leaves all but the handler.
LEMMA NetGoes ==
  ASSUME Inv, NEW op \in {"create", "delete"}, net.op = op,
         NEW step \in {"loop", "last"}, NEW i \in Nat, i # 0,
         NEW todo \in Seq(Commands), NetGoto(step, i, todo), net.step = "loop",
         net.todo = <<>>, Works, UNCHANGED <<netRest, isNF, store, kernel, torn>>,
         op = "create" => \A x \in Left(todo) : x.c = "flow",
         op = "delete" => \A x \in Left(todo) : x.c = "unflow" \/ (x.c = "unport" /\ x.s \in NfPorts)
  PROVE  /\ Types' /\ Served' /\ Nameless' /\ BpProgress' /\ NetProgress' /\ Stored'
         /\ net'.op = op /\ net'.v = i /\ net'.step = step /\ net'.todo = todo
         /\ net'.seen = IF step = "last" THEN EmptyStore ELSE net.seen
         /\ nfOk' = nfOk /\ ~nfOk
         /\ \A w \in Vfs : Due(w)' = Due(w)
<1> USE DEF Inv, netRest, kernel
<1>1. /\ net'.op = op /\ net'.v = i /\ net'.step = step /\ net'.todo = todo
      /\ net'.seen = IF step = "last" THEN EmptyStore ELSE net.seen
      /\ net' \in [op : {"none", "create", "delete"}, v : Nat,
                   step : {"begin", "write", "loop", "last"},
                   todo : Seq(Commands), seen : Stores]
  BY StoreTypes DEF NetGoto, Types, HandlerTypes
<1>2. nfOk' = nfOk /\ ~nfOk /\ nf' = nf /\ boot = "ready"
  BY DEF NetGoto, Served
<1>3. Types'
  BY <1>1, <1>2 DEF Types, KernelTypes, HandlerTypes, MemoryTypes, Works, budget
<1>4. op = "create" => named /\ Pairs \subseteq ports
  BY DEF Nameless, NetProgress
<1>5. Served' /\ Nameless'
  BY <1>1, <1>2, <1>4 DEF Served, Nameless
<1>6. BpProgress'
  BY BpProgressFrame DEF Types
<1>7. NetProgress'
  BY <1>1, <1>2, <1>4 DEF NetProgress
<1>8. \A w \in Vfs : Creating(w)' = Creating(w) /\ Due(w)' = Due(w)
  BY DEF Creating, Due
<1>9. Stored'
  BY <1>1, <1>2, <1>8 DEF Stored, Active
<1>10. QED BY <1>1, <1>2, <1>3, <1>5, <1>6, <1>7, <1>8, <1>9

\* The next VF of the list.
LEMMA NetVisits ==
  ASSUME Inv, NetAt("create", "loop") \/ NetAt("delete", "loop"),
         net.v <= Len(net.seen.vfs), NEW v \in Elements(net.v),
         NetGoto("loop", net.v + 1,
                 IF net.op = "create" THEN FlowsFor(v, InPair, OutPair)
                                      ELSE <<DelFlow(v, NoMac)>>),
         Works, UNCHANGED <<netRest, isNF, store, kernel, torn>>
  PROVE  Inv'
<1> USE DEF Inv, netRest, kernel
<1> DEFINE i == net.v
           a == AddFlow(v, InPair, NoMac)
           b == AddFlow(InPair, v, v)
           c == AddFlow(OutPair, OutPair, v)
           d == DelFlow(v, NoMac)
<1>1. net.op \in {"create", "delete"} /\ net.step = "loop" /\ net.todo = <<>>
  BY DEF NetAt
<1>2. /\ i \in Nat \ {0} /\ net.seen.vfs \in Seq(Vfs) /\ store.vfs \in Seq(Vfs)
      /\ Len(net.seen.vfs) \in Nat /\ Len(store.vfs) \in Nat
  BY <1>1, LenProperties DEF Types, HandlerTypes, MemoryTypes, Stores, NetProgress
<1>3. i \in 1 .. Len(net.seen.vfs) /\ v \in Vfs
  <2>1. i \in 1 .. Len(net.seen.vfs)
    BY <1>2
  <2>2. net.seen.vfs[i] \in Vfs /\ (i <= Len(store.vfs) => store.vfs[i] \in Vfs)
    BY <1>2, <2>1, ElementOfSeq
  <2>3. QED BY <2>1, <2>2 DEF Elements
<1>4. a \in Commands /\ b \in Commands /\ c \in Commands /\ d \in Commands
  BY <1>3, CommandTypes, Distinct DEF Macs
<1>5. a.c = "flow" /\ b.c = "flow" /\ c.c = "flow" /\ d.c = "unflow"
  BY DEF AddFlow, DelFlow
<1>6. <<a, b, c>> \in Seq(Commands) /\ Left(<<a, b, c>>) = {a, b, c}
  <2> HIDE DEF a, b, c, d
  <2>1. QED BY <1>4, LeftThree
<1>7. <<d>> \in Seq(Commands) /\ Left(<<d>>) = {d}
  <2> HIDE DEF a, b, c, d
  <2>1. QED BY <1>4, LeftOne
<1>8. CASE net.op = "create"
  <2>1. NetGoto("loop", i + 1, <<a, b, c>>)
    BY <1>8 DEF FlowsFor
  <2> HIDE DEF a, b, c, d
  <2>2. \A x \in Left(<<a, b, c>>) : x.c = "flow"
    BY <1>5, <1>6
  <2>3. i + 1 \in Nat /\ i + 1 # 0
    BY <1>2
  <2>4. /\ Types' /\ Served' /\ Nameless' /\ BpProgress' /\ NetProgress' /\ Stored'
        /\ net'.op = "create" /\ net'.v = i + 1 /\ net'.step = "loop"
        /\ net'.todo = <<a, b, c>> /\ net'.seen = net.seen
        /\ nfOk' = nfOk /\ ~nfOk
        /\ \A w \in Vfs : Due(w)' = Due(w)
    BY <1>1, <1>6, <1>8, <2>1, <2>2, <2>3, NetGoes
  <2>5. Rules'
    <3> SUFFICES ASSUME ~torn', ~wiped' PROVE Rules'
      BY DEF Rules
    <3>1. Active /\ ~torn /\ ~wiped
      BY <1>1, <1>8 DEF Active
    <3>2. v = net.seen.vfs[i]
      BY <1>1, <1>3, <1>8, <3>1 DEF Stored, Elements
    <3>3. ASSUME NEW w \in Vfs, Listed(w) PROVE w = v \/ Listed(w)'
      <4>1. PICK j \in 1 .. Len(net.seen.vfs) : i <= j /\ net.seen.vfs[j] = w
        BY <3>3 DEF Listed
      <4>2. CASE j = i
        BY <3>2, <4>1, <4>2
      <4>3. CASE j # i
        <5>1. i + 1 <= j
          BY <1>2, <4>1, <4>3
        <5>2. QED BY <2>4, <4>1, <5>1 DEF Listed
      <4>4. QED BY <4>2, <4>3
    <3>4. ASSUME NEW w \in Vfs, NEW f, NEW y, Coming(w, f, y),
                 w = v => AddFlow(f[1], f[2], f[3]) \in Left(net'.todo)
          PROVE  Coming(w, f, y)'
      BY <1>1, <3>3, <3>4, LeftEmpty DEF Coming
    <3>5. a \in Left(net'.todo) /\ b \in Left(net'.todo) /\ c \in Left(net'.todo)
      BY <1>6, <2>4
    <3>6. ASSUME NEW w \in Vfs, Due(w)'
          PROVE  /\ Coming(w, <<w, InPair, NoMac>>, AddFlow(w, StoredIn, NoMac))'
                 /\ Coming(w, <<InPair, w, w>>, AddFlow(StoredIn, w, w))'
                 /\ Coming(w, <<OutPair, OutPair, w>>, AddFlow(StoredOut, StoredOut, w))'
      <4>1. Due(w)
        BY <2>4, <3>6
      <4>2. /\ Coming(w, <<w, InPair, NoMac>>, AddFlow(w, StoredIn, NoMac))
            /\ Coming(w, <<InPair, w, w>>, AddFlow(StoredIn, w, w))
            /\ Coming(w, <<OutPair, OutPair, w>>, AddFlow(StoredOut, StoredOut, w))
        BY <3>1, <4>1 DEF Rules
      <4>3. w = v => /\ AddFlow(w, InPair, NoMac) \in Left(net'.todo)
                     /\ AddFlow(InPair, w, w) \in Left(net'.todo)
                     /\ AddFlow(OutPair, OutPair, w) \in Left(net'.todo)
        BY <3>5 DEF a, b, c
      <4>4. QED BY <3>4, <4>2, <4>3
    <3>7. QED BY <2>4, <3>6 DEF Rules
  <2>6. QED BY <2>4, <2>5
<1>9. CASE net.op = "delete"
  <2>1. NetGoto("loop", i + 1, <<d>>)
    BY <1>9
  <2> HIDE DEF a, b, c, d
  <2>2. \A x \in Left(<<d>>) : x.c = "unflow"
    BY <1>5, <1>7
  <2>3. i + 1 \in Nat /\ i + 1 # 0
    BY <1>2
  <2>4. /\ Types' /\ Served' /\ Nameless' /\ BpProgress' /\ NetProgress' /\ Stored'
        /\ net'.op = "delete" /\ nfOk' = nfOk /\ ~nfOk
    BY <1>1, <1>7, <1>9, <2>1, <2>2, <2>3, NetGoes
  <2>5. Rules'
    BY <2>4 DEF Rules, Active
  <2>6. QED BY <2>4, <2>5
<1>10. QED BY <1>1, <1>8, <1>9

\* The end of the list.
LEMMA NetLeaves ==
  ASSUME Inv, NetAt("create", "loop") \/ NetAt("delete", "loop"),
         net.v > Len(net.seen.vfs),
         NetGoto("last", net.v,
                IF net.op = "create" THEN FlowsToWire(OutPair)
                ELSE <<DelFlow(DpName(InPair), NoMac), DelFlow(DpName(OutPair), NoMac),
                       DelFlow(Rpm, NoMac),
                       DelPort(DpName(InPair)), DelPort(DpName(OutPair))>>),
         Works, UNCHANGED <<netRest, isNF, store, kernel, torn>>
  PROVE  Inv'
<1> USE DEF Inv, netRest, kernel
<1> DEFINE p == DpName(InPair)
           q == DpName(OutPair)
           a == AddFlow(OutPair, Rpm, NoMac)
           b == AddFlow(Rpm, OutPair, NoMac)
           c == DelFlow(p, NoMac)
           d == DelFlow(q, NoMac)
           e == DelFlow(Rpm, NoMac)
           f == DelPort(p)
           g == DelPort(q)
<1>1. net.op \in {"create", "delete"} /\ net.step = "loop" /\ net.todo = <<>>
  BY DEF NetAt
<1>2. net.v \in Nat /\ net.v # 0 /\ Len(net.seen.vfs) \in Nat
  BY <1>1, LenProperties DEF Types, HandlerTypes, Stores, NetProgress
<1>3. p \in NfPorts /\ q \in NfPorts /\ NfPorts \subseteq Nat /\ NoMac \in Macs
  BY Distinct DEF DpName, NfPorts, Pairs, Macs
<1>4. /\ a \in Commands /\ b \in Commands /\ c \in Commands /\ d \in Commands
      /\ e \in Commands /\ f \in Commands /\ g \in Commands
  <2> HIDE DEF p, q
  <2>1. QED BY <1>3, CommandTypes, Distinct
<1>5. /\ a.c = "flow" /\ b.c = "flow" /\ c.c = "unflow" /\ d.c = "unflow" /\ e.c = "unflow"
      /\ f.c = "unport" /\ f.s = p /\ g.c = "unport" /\ g.s = q
  <2> HIDE DEF p, q
  <2>1. QED BY DEF AddFlow, DelFlow, DelPort
<1>6. CASE net.op = "create"
  <2>1. NetGoto("last", net.v, <<a, b>>)
    BY <1>6 DEF FlowsToWire
  <2> HIDE DEF a, b, c, d, e, f, g
  <2>2. /\ <<a, b>> \in Seq(Commands) /\ Left(<<a, b>>) = {a, b}
    BY <1>4, LeftTwo
  <2>3. \A x \in Left(<<a, b>>) : x.c = "flow"
    BY <1>5, <2>2
  <2>4. /\ Types' /\ Served' /\ Nameless' /\ BpProgress' /\ NetProgress' /\ Stored'
        /\ net'.op = "create" /\ net'.step = "last" /\ net'.todo = <<a, b>>
        /\ nfOk' = nfOk /\ ~nfOk
        /\ \A w \in Vfs : Due(w)' = Due(w)
    BY <1>1, <1>2, <1>6, <2>1, <2>2, <2>3, NetGoes
  <2>5. Rules'
    <3> SUFFICES ASSUME ~torn', ~wiped' PROVE Rules'
      BY DEF Rules
    <3>1. Active /\ ~torn /\ ~wiped
      BY <1>1, <1>6 DEF Active
    <3>2. \A w \in Vfs : ~Listed(w)
      BY <1>2 DEF Listed
    <3>3. ASSUME NEW w \in Vfs, NEW h, NEW y, Coming(w, h, y)
          PROVE  Coming(w, h, y)'
      BY <1>1, <3>2, <3>3, LeftEmpty DEF Coming
    <3>4. ASSUME NEW h \in WireRules
          PROVE  AddFlow(h[1], h[2], h[3]) \in Left(net'.todo)
      <4>1. AddFlow(h[1], h[2], h[3]) \in {a, b}
        BY DEF WireRules, a, b
      <4>2. QED BY <2>2, <2>4, <4>1
    <3>5. QED BY <2>4, <3>1, <3>3, <3>4 DEF Rules
  <2>6. QED BY <2>4, <2>5
<1>7. CASE net.op = "delete"
  <2>1. NetGoto("last", net.v, <<c, d, e, f, g>>)
    BY <1>7
  <2> HIDE DEF a, b, c, d, e, f, g
  <2>2. /\ <<c, d, e, f, g>> \in Seq(Commands)
        /\ Left(<<c, d, e, f, g>>) = {c, d, e, f, g}
    BY <1>4, LeftFive
  <2>3. \A x \in Left(<<c, d, e, f, g>>) : x.c = "unflow" \/ (x.c = "unport" /\ x.s \in NfPorts)
    BY <1>3, <1>5, <2>2
  <2> DEFINE todo == <<c, d, e, f, g>>
  <2> HIDE DEF todo
  <2>4. /\ Types' /\ Served' /\ Nameless' /\ BpProgress' /\ NetProgress' /\ Stored'
        /\ net'.op = "delete" /\ nfOk' = nfOk /\ ~nfOk
    <3>1. /\ todo \in Seq(Commands) /\ NetGoto("last", net.v, todo)
          /\ \A x \in Left(todo) : x.c = "unflow" \/ (x.c = "unport" /\ x.s \in NfPorts)
      BY <2>1, <2>2, <2>3 DEF todo
    <3>2. QED BY <1>1, <1>2, <1>7, <3>1, NetGoes
  <2>5. Rules'
    BY <2>4 DEF Rules, Active
  <2>6. QED BY <2>4, <2>5
<1>8. QED BY <1>1, <1>6, <1>7

LEMMA NetLoopStep == ASSUME Inv, NetLoop PROVE Inv'
<1>1. CASE net.v <= Len(net.seen.vfs)
           /\ \E v \in Elements(net.v) :
                NetGoto("loop", net.v + 1,
                        IF net.op = "create" THEN FlowsFor(v, InPair, OutPair)
                                             ELSE <<DelFlow(v, NoMac)>>)
  BY <1>1, NetVisits DEF NetLoop
<1>2. CASE net.v > Len(net.seen.vfs)
           /\ NetGoto("last", net.v,
                IF net.op = "create" THEN FlowsToWire(OutPair)
                ELSE <<DelFlow(DpName(InPair), NoMac), DelFlow(DpName(OutPair), NoMac),
                       DelFlow(Rpm, NoMac),
                       DelPort(DpName(InPair)), DelPort(DpName(OutPair))>>)
  BY <1>2, NetLeaves DEF NetLoop
<1>3. QED BY <1>1, <1>2 DEF NetLoop

LEMMA AddNfStep == ASSUME Inv, AddNf PROVE Inv'
<1> USE DEF Inv, netRest
<1> DEFINE a == AddPort(DpName(InPair))
           b == AddPort(DpName(OutPair))
<1>1. /\ boot = "ready" /\ net.op = "none" /\ nf = "none" /\ nf' = "add" /\ isNF' = TRUE
      /\ ends' = [p \in Pairs |-> "pod"]
      /\ net' = Call("create", 1, <<a, b>>)
      /\ UNCHANGED <<netRest, store, br, ports, flows, nfOk, torn, budget>>
  BY IdleFields DEF AddNf, Ready, Works, NfFromNowOn
<1>2. ~nfOk
  BY <1>1 DEF Served
<1>3. DpName(InPair) \in {InPair, NoPort} /\ DpName(OutPair) \in {OutPair, NoPort}
  BY DEF DpName
<1>4. a \in Commands /\ b \in Commands
  BY <1>3, CommandTypes DEF NfPorts, Pairs
<1>5. <<a, b>> \in Seq(Commands) /\ Left(<<a, b>>) = {a, b} /\ <<a, b>> # <<>>
  <2> HIDE DEF a, b
  <2>1. QED BY <1>4, LeftTwo
<1>6. /\ net'.op = "create" /\ net'.v = 1 /\ net'.step = "begin" /\ net'.todo = <<a, b>>
      /\ net' \in [op : {"none", "create", "delete"}, v : Nat,
                   step : {"begin", "write", "loop", "last"},
                   todo : Seq(Commands), seen : Stores]
  <2> HIDE DEF a, b
  <2>1. QED BY <1>1, <1>5, StoreTypes DEF Call
<1>7. Types'
  BY <1>1, <1>6 DEF Types, KernelTypes, HandlerTypes, MemoryTypes, budget
<1>8. Served' /\ Nameless'
  BY <1>1, <1>2, <1>5, <1>6 DEF Served, Nameless
<1>9. BpProgress'
  BY <1>1, BpProgressFrame DEF Types
<1>10. NetProgress'
  <2>1. Left(net'.todo) \subseteq {AddPort(p) : p \in NfPorts}
    BY <1>3, <1>5, <1>6 DEF NfPorts, Pairs
  <2>2. ASSUME NEW p \in Pairs
        PROVE  AddPort(p) \in Left(net'.todo) \/ AddPort(NoPort) \in Left(net'.todo)
    BY <1>3, <1>5, <1>6, <2>2 DEF Pairs
  <2> HIDE DEF a, b
  <2>3. net'.op = "create" /\ net'.step = "begin" /\ net'.v = 1 /\ ~nfOk'
    BY <1>1, <1>2, <1>6
  <2>4. QED BY <2>1, <2>2, <2>3 DEF NetProgress
<1>11. ~Active'
  BY <1>1, <1>2, <1>6 DEF Active
<1>12. Stored'
  <2>1. \A w \in Vfs : Creating(w)' = Creating(w)
    BY <1>1 DEF Creating
  <2>2. QED BY <1>1, <1>6, <1>11, <2>1 DEF Stored
<1>13. Rules'
  BY <1>11 DEF Rules
<1>14. QED BY <1>7, <1>8, <1>9, <1>10, <1>12, <1>13

LEMMA DelNfStep == ASSUME Inv, NEW p \in Pairs, DelNf(p) PROVE Inv'
<1> USE DEF Inv, netRest
<1> DEFINE list == [EmptyStore EXCEPT !.vfs = store.vfs]
<1>1. /\ boot = "ready" /\ net.op = "none" /\ nf' = "del" /\ nfOk' = FALSE /\ isNF' = FALSE
      /\ ends' = [ends EXCEPT ![p] = "host"]
      /\ net' = [Call("delete", 1, <<>>) EXCEPT !.step = "loop", !.seen = list]
      /\ UNCHANGED <<netRest, store, br, ports, flows, torn, budget>>
  BY IdleFields DEF DelNf, Ready, Works
<1>2. list \in Stores
  BY DEF Types, MemoryTypes, Stores, EmptyStore, NfPorts
<1> HIDE DEF list
<1>3. /\ net'.op = "delete" /\ net'.v = 1 /\ net'.step = "loop" /\ net'.todo = <<>>
      /\ net' \in [op : {"none", "create", "delete"}, v : Nat,
                   step : {"begin", "write", "loop", "last"},
                   todo : Seq(Commands), seen : Stores]
  <2>1. <<>> \in Seq(Commands)
    BY EmptySeq
  <2>2. QED BY <1>1, <1>2, <2>1 DEF Call
<1>4. Types'
  BY <1>1, <1>3 DEF Types, KernelTypes, HandlerTypes, MemoryTypes, budget
<1>5. Served' /\ Nameless'
  BY <1>1, <1>3 DEF Served, Nameless
<1>6. BpProgress'
  BY <1>1, BpProgressFrame DEF Types
<1>7. NetProgress'
  BY <1>1, <1>3, LeftEmpty DEF NetProgress
<1>8. ~Active'
  BY <1>1, <1>3 DEF Active
<1>9. Stored'
  <2>1. \A w \in Vfs : Creating(w)' = Creating(w)
    BY <1>1 DEF Creating
  <2>2. QED BY <1>1, <1>3, <1>8, <2>1 DEF Stored
<1>10. Rules'
  BY <1>8 DEF Rules
<1>11. QED BY <1>4, <1>5, <1>6, <1>7, <1>9, <1>10

LEMMA DelNfSecondStep == ASSUME Inv, DelNfSecond PROVE Inv'
<1> USE DEF Inv, netRest
<1>1. /\ nf = "half" /\ nf' = "none" /\ ends' = [p \in Pairs |-> "host"]
      /\ UNCHANGED <<netRest, isNF, store, br, ports, flows, net, nfOk, torn, budget>>
  BY DEF DelNfSecond, Works
<1>2. ~nfOk
  BY <1>1 DEF Served
<1>3. Types'
  BY <1>1 DEF Types, KernelTypes, HandlerTypes, MemoryTypes, budget
<1>4. Served' /\ Nameless'
  BY <1>1, <1>2 DEF Served, Nameless
<1>5. BpProgress' /\ NetProgress'
  BY <1>1 DEF BpProgress, NetProgress
<1>6. Stored'
  BY <1>1, StoredFrame DEF Creating
<1>7. Rules'
  BY <1>1, RulesFrame DEF Due, Creating
<1>8. QED BY <1>3, <1>4, <1>5, <1>6, <1>7

(***************************************************************************)
(* Once AddNetworkFunction has ended, every rule is on the bridge.         *)
(***************************************************************************)
LEMMA SteeredHolds == ASSUME Inv PROVE Steered
<1> USE DEF Inv
<1> SUFFICES ASSUME nfOk, ~torn, ~wiped
             PROVE  /\ WireRules \subseteq flows
                    /\ \A v \in Vfs : pod[v] = "up" =>
                         /\ {v, InPair, OutPair} \subseteq ports
                         /\ {<<v, InPair, NoMac>>, <<InPair, v, v>>, <<OutPair, OutPair, v>>}
                               \subseteq flows
  BY DEF Steered, WireRules
<1>1. net.todo = <<>> /\ net.seen = EmptyStore
  BY IdleFields DEF Served
<1>2. WireRules \subseteq flows
  BY <1>1, LeftEmpty DEF Rules, Active
<1>3. ASSUME NEW v \in Vfs, pod[v] = "up"
      PROVE  /\ {v, InPair, OutPair} \subseteq ports
             /\ {<<v, InPair, NoMac>>, <<InPair, v, v>>, <<OutPair, OutPair, v>>}
                   \subseteq flows
  <2>1. {v, InPair, OutPair} \subseteq ports
    BY <1>3 DEF BpProgress, NetProgress, Pairs
  <2>2. ~Listed(v) /\ ~(bp.op = "create" /\ bp.v = v)
    BY <1>1, <1>3, StoreTypes DEF Listed, Served
  <2>3. \A f, x : Coming(v, f, x) => f \in flows
    BY <1>1, <2>2, LeftEmpty DEF Coming
  <2>4. QED BY <1>3, <2>1, <2>3 DEF Rules, Active, Due
<1>4. QED BY <1>2, <1>3

(***************************************************************************)
(* Boot and crashes.                                                       *)
(***************************************************************************)
\* Connections that stay, in the same process or with a new one that knows nothing.
LEMMA ConnectionsStay ==
  ASSUME Inv, Types', bp' = Idle, net' = Idle, UNCHANGED <<br, ports, flows, nfOk, ghost>>,
         nf = "up" => nf' = "up", \A v \in Vfs : pod'[v] = "up" => pod[v] = "up",
         ~named' \/ UNCHANGED <<named, store, isNF>>
  PROVE  Inv'
<1> USE DEF Inv, ghost
<1>1. /\ bp'.op = "none" /\ bp'.step = "begin" /\ bp'.todo = <<>>
      /\ net'.op = "none" /\ net'.step = "begin" /\ net'.todo = <<>>
  BY IdleFields
<1>2. Served' /\ Nameless'
  BY <1>1 DEF Served, Nameless
<1>3. BpProgress' /\ NetProgress'
  BY <1>1 DEF BpProgress, NetProgress
<1>4. Stored'
  BY <1>1 DEF Stored, Active, Creating
<1>5. Rules'
  <2> SUFFICES ASSUME nfOk, ~torn, ~wiped PROVE Rules'
    BY <1>1 DEF Rules, Active
  <2>1. /\ WireRules \subseteq flows
        /\ \A v \in Vfs : pod[v] = "up" =>
             {<<v, InPair, NoMac>>, <<InPair, v, v>>, <<OutPair, OutPair, v>>} \subseteq flows
    BY SteeredHolds DEF Steered, WireRules, Served
  <2>2. \A v \in Vfs : Due(v)' => pod[v] = "up"
    BY <1>1 DEF Due, Creating
  <2>3. \A v, f, x : f \in flows' => Coming(v, f, x)'
    BY DEF Coming
  <2>4. QED BY <2>1, <2>2, <2>3 DEF Rules
<1>6. QED BY <1>2, <1>3, <1>4, <1>5

\* A data plane that is made anew, or taken down.
LEMMA ConnectionsEnd ==
  ASSUME Types', bp' = Idle, net' = Idle, nfOk' = FALSE, \A v \in Vfs : pod'[v] # "up",
         named' => br'
  PROVE  Inv'
<1>1. /\ bp'.op = "none" /\ bp'.step = "begin" /\ bp'.todo = <<>>
      /\ net'.op = "none" /\ net'.step = "begin" /\ net'.todo = <<>>
  BY IdleFields
<1>2. Served' /\ Nameless'
  BY <1>1 DEF Served, Nameless
<1>3. BpProgress' /\ NetProgress'
  BY <1>1 DEF BpProgress, NetProgress
<1>4. Stored' /\ Rules'
  BY <1>1 DEF Stored, Rules, Active, Creating
<1>5. QED BY <1>2, <1>3, <1>4 DEF Inv

\* Init runs while no handler does.
LEMMA Quiet == ASSUME Inv, boot # "ready" PROVE bp = Idle /\ net = Idle
BY DEF Inv, Served

LEMMA IdleTypes ==
  /\ Idle \in [op : {"none", "create", "delete"}, v : Vfs,
               step : {"begin", "write", "test", "flows"},
               todo : Seq(Commands), seen : Stores]
  /\ Idle \in [op : {"none", "create", "delete"}, v : Nat,
               step : {"begin", "write", "loop", "last"},
               todo : Seq(Commands), seen : Stores]
<1>1. 0 \in Vfs /\ EmptyStore \in Stores /\ <<>> \in Seq(Commands)
  BY Distinct, StoreTypes, EmptySeq
<1>2. QED BY <1>1 DEF Idle, Call

LEMMA ForgottenTypes ==
  ASSUME Types, Forgotten
  PROVE  /\ named' = FALSE /\ bp' = Idle /\ net' = Idle /\ devs' \subseteq Pairs
         /\ isNF' \in BOOLEAN /\ store' \in Stores
         /\ nf' \in {"none", "add", "up", "del", "half"} /\ (nf = "up" => nf' = "up")
BY StoreTypes DEF Forgotten, Types, HandlerTypes

LEMMA PodTypes ==
  ASSUME pod \in [Vfs -> {"none", "add", "up", "stale", "failed", "del"}]
  PROVE  /\ Disconnected \in [Vfs -> {"none", "add", "up", "stale", "failed", "del"}]
         /\ CallFailed \in [Vfs -> {"none", "add", "up", "stale", "failed", "del"}]
         /\ \A v \in Vfs : Disconnected[v] # "up"
         /\ \A v \in Vfs : Disconnected[v] = "failed" => pod[v] = "failed"
         /\ \A v \in Vfs : CallFailed[v] = "up" => pod[v] = "up"
BY DEF Disconnected, CallFailed

LEMMA StopVspStep ==
  ASSUME Inv, boot # "ready", NEW knowsName \in BOOLEAN, named => knowsName,
         NEW left \in [Pairs -> {"none", "host", "pod"}],
         StopVsp(knowsName, left), Works \/ Fault
  PROVE  Inv'
<1> USE DEF Inv, ghost
<1>1. /\ named' = FALSE /\ bp' = Idle /\ net' = Idle /\ devs' \subseteq Pairs
      /\ isNF' \in BOOLEAN /\ store' \in Stores
      /\ nf' \in {"none", "add", "up", "del", "half"} /\ (nf = "up" => nf' = "up")
  BY ForgottenTypes DEF StopVsp
<1>2. /\ ends' \in [Pairs -> {"none", "host", "pod"}] /\ proc' \in {"up", "hung"}
      /\ UNCHANGED ghost
  BY DEF StopVsp
<1>3. MemoryTypes'
  <2>1. Counted'
    BY BudgetSteps DEF Types, MemoryTypes, Counted
  <2>2. QED BY <1>1, <1>2, <2>1 DEF Types, MemoryTypes, Counted
<1>4. CASE knowsName
  <2>1. br' = FALSE /\ ports' = {} /\ flows' = {} /\ nfOk' = FALSE /\ pod' = Disconnected
    BY <1>4 DEF StopVsp
  <2>2. KernelTypes' /\ HandlerTypes'
    BY <1>1, <1>2, <2>1, IdleTypes, PodTypes DEF Types, KernelTypes, HandlerTypes
  <2>3. \A v \in Vfs : pod'[v] # "up"
    BY <2>1, PodTypes DEF Types, HandlerTypes
  <2>4. QED BY <1>1, <1>3, <2>1, <2>2, <2>3, ConnectionsEnd DEF Types
<1>5. CASE ~knowsName
  <2>1. UNCHANGED <<br, ports, flows, nfOk, pod>>
    BY <1>5 DEF StopVsp
  <2>2. KernelTypes' /\ HandlerTypes'
    BY <1>1, <1>2, <2>1, IdleTypes DEF Types, KernelTypes, HandlerTypes
  <2>3. QED BY <1>1, <1>2, <1>3, <2>1, <2>2, ConnectionsStay DEF Types
<1>6. QED BY <1>4, <1>5

LEMMA InitBeginStep == ASSUME Inv, InitBegin PROVE Inv'
<1> USE DEF Inv
<1>1. /\ boot = "begin" /\ devs' = {} /\ (Works \/ Fault)
      /\ UNCHANGED <<initRest, proc, named, kernel, pod, nfOk, ghost>>
  BY DEF InitBegin
<1>2. bp' = Idle /\ net' = Idle
  BY <1>1, Quiet DEF initRest
<1>3. Types'
  <2>1. Counted'
    BY <1>1, BudgetSteps DEF Types, MemoryTypes, Counted
  <2>2. QED BY <1>1, <2>1 DEF Types, KernelTypes, HandlerTypes, MemoryTypes, Counted,
                              initRest, kernel, ghost
<1>4. QED BY <1>1, <1>2, <1>3, ConnectionsStay DEF initRest, kernel

LEMMA InitVethStep ==
  ASSUME Inv, NEW p \in Pairs, NEW from, NEW to, from # "ready", InitVeth(p, from, to)
  PROVE  Inv'
<1> USE DEF Inv
<1>1. boot = from /\ named \in BOOLEAN /\ ends \in [Pairs -> {"none", "host", "pod"}]
  BY DEF InitVeth, Types, KernelTypes, MemoryTypes
<1>2. CASE /\ PairUsable(p) /\ Works /\ boot' = to
           /\ ends' = [ends EXCEPT ![p] = "host"] /\ devs' = devs \cup {p}
           /\ UNCHANGED <<initRest, proc, named, br, ports, flows, pod, nfOk, ghost>>
  <2>1. bp' = Idle /\ net' = Idle
    BY <1>1, <1>2, Quiet DEF initRest
  <2>2. Types'
    BY <1>2 DEF Types, KernelTypes, HandlerTypes, MemoryTypes, Works, budget, initRest, ghost
  <2>3. QED BY <1>2, <2>1, <2>2, ConnectionsStay DEF initRest
<1>3. CASE /\ PairUsable(p) /\ Fault
           /\ \E e \in {ends[p], "host"} : StopVsp(named, [ends EXCEPT ![p] = e])
  <2>1. PICK e \in {ends[p], "host"} : StopVsp(named, [ends EXCEPT ![p] = e])
    BY <1>3
  <2>2. [ends EXCEPT ![p] = e] \in [Pairs -> {"none", "host", "pod"}]
    BY <1>1
  <2>3. QED BY <1>1, <1>3, <2>1, <2>2, StopVspStep
<1>4. CASE ~PairUsable(p) /\ Works /\ StopVsp(named, ends)
  BY <1>1, <1>4, StopVspStep
<1>5. QED BY <1>2, <1>3, <1>4 DEF InitVeth

LEMMA InitPlaneStep == ASSUME Inv, InitPlane PROVE Inv'
<1> USE DEF Inv
<1>1. boot = "plane"
  BY DEF InitPlane
<1>2. CASE /\ boot' = "ready" /\ named' = TRUE /\ br' = TRUE /\ flows' = {}
           /\ \/ Works /\ ports' = ports \cup {Rpm}
              \/ Fault /\ ports' = ports
           /\ nfOk' = FALSE /\ pod' = Disconnected
           /\ UNCHANGED <<initRest, proc, devs, ends, ghost>>
  <2>1. bp' = Idle /\ net' = Idle
    BY <1>1, <1>2, Quiet DEF initRest
  <2>2. Counted'
    BY <1>2, BudgetSteps DEF Types, MemoryTypes, Counted
  <2>3. MemoryTypes'
    BY <1>2, <2>2 DEF Types, MemoryTypes, Counted, initRest, ghost
  <2>4. KernelTypes'
    BY <1>2 DEF Types, KernelTypes, Ports
  <2>5. HandlerTypes'
    BY <1>2, <2>1, IdleTypes, PodTypes DEF Types, HandlerTypes, initRest
  <2>6. \A v \in Vfs : pod'[v] # "up"
    BY <1>2, PodTypes DEF Types, HandlerTypes
  <2>7. QED BY <1>2, <2>1, <2>3, <2>4, <2>5, <2>6, ConnectionsEnd DEF Types
<1>3. CASE Fault /\ StopVsp(TRUE, ends)
  <2>1. ends \in [Pairs -> {"none", "host", "pod"}]
    BY DEF Types, KernelTypes
  <2>2. QED BY <1>1, <1>3, <2>1, StopVspStep
<1>4. QED BY <1>2, <1>3 DEF InitPlane

LEMMA DpuDaemonRestartsStep == ASSUME Inv, DpuDaemonRestarts PROVE Inv'
<1> USE DEF Inv
<1>1. /\ bp' = Idle /\ net' = Idle /\ restarts' = restarts + 1
      /\ UNCHANGED <<memory, bp, net, kernel, pod, nf, nfOk, ghost, faults, crashes, races>>
  BY DEF DpuDaemonRestarts
<1>2. Types'
  BY <1>1 DEF Types, KernelTypes, HandlerTypes, MemoryTypes, memory, kernel, ghost
<1>3. QED BY <1>1, <1>2, ConnectionsStay DEF memory, kernel

LEMMA VspDiesStep == ASSUME Inv, VspDies PROVE Inv'
<1> USE DEF Inv
<1>1. /\ crashes' = crashes + 1 /\ pod' = CallFailed /\ Forgotten
      /\ UNCHANGED <<proc, kernel, nfOk, ghost, faults, restarts, races>>
  BY DEF VspDies
<1>2. /\ named' = FALSE /\ bp' = Idle /\ net' = Idle /\ devs' \subseteq Pairs
      /\ isNF' \in BOOLEAN /\ store' \in Stores
      /\ nf' \in {"none", "add", "up", "del", "half"} /\ (nf = "up" => nf' = "up")
  BY <1>1, ForgottenTypes
<1>3. /\ pod' \in [Vfs -> {"none", "add", "up", "stale", "failed", "del"}]
      /\ \A v \in Vfs : pod'[v] = "up" => pod[v] = "up"
  BY <1>1, PodTypes DEF Types, HandlerTypes
<1>4. Types'
  <2>1. KernelTypes'
    BY <1>1 DEF Types, KernelTypes, kernel
  <2>2. HandlerTypes'
    BY <1>1, <1>2, <1>3, IdleTypes DEF Types, HandlerTypes
  <2>3. Counted'
    BY <1>1 DEF Types, MemoryTypes, Counted
  <2>4. proc' \in {"up", "hung"} /\ torn' \in BOOLEAN /\ wiped' \in BOOLEAN
    BY <1>1 DEF Types, MemoryTypes, ghost
  <2>5. MemoryTypes'
    BY <1>2, <2>3, <2>4 DEF MemoryTypes, Counted
  <2>6. QED BY <2>1, <2>2, <2>5 DEF Types
<1>5. QED BY <1>1, <1>2, <1>3, <1>4, ConnectionsStay DEF kernel

(***************************************************************************)
(* The invariant holds.                                                    *)
(***************************************************************************)
LEMMA InitInv == Init => Inv
<1> SUFFICES ASSUME Init PROVE Inv
  OBVIOUS
<1> USE DEF Init
<1>1. KernelTypes
  BY DEF KernelTypes
<1>2. HandlerTypes
  BY IdleTypes DEF HandlerTypes
<1>3. MemoryTypes
  BY StoreTypes DEF MemoryTypes
<1>4. Served /\ Nameless
  BY IdleFields DEF Served, Nameless
<1>5. BpProgress /\ NetProgress
  BY IdleFields DEF BpProgress, NetProgress
<1>6. Stored /\ Rules
  BY IdleFields DEF Stored, Rules, Active
<1>7. QED BY <1>1, <1>2, <1>3, <1>4, <1>5, <1>6 DEF Inv, Types

LEMMA StutterInv == ASSUME Inv, UNCHANGED vars PROVE Inv'
<1> USE DEF Inv, vars, memory, kernel, ghost, budget
<1>1. Types'
  BY DEF Types, KernelTypes, HandlerTypes, MemoryTypes
<1>2. Served' /\ Nameless'
  BY DEF Served, Nameless
<1>3. BpProgress' /\ NetProgress'
  BY DEF BpProgress, NetProgress
<1>4. Stored'
  BY StoredFrame DEF Creating
<1>5. Rules'
  BY RulesFrame DEF Due, Creating
<1>6. QED BY <1>1, <1>2, <1>3, <1>4, <1>5

LEMMA NextInv == ASSUME Inv, [Next]_vars PROVE Inv'
<1>1. ASSUME NEW v \in Vfs, HostStep(v) PROVE Inv'
  BY <1>1, AddPodStep, DelPodStep, DelPodUnservedStep DEF HostStep
<1>2. CASE BpStep
  BY <1>2, BpCommandStep, BpReadStep, BpWriteStep, BpTestStep, BpDoneStep DEF BpStep
<1>3. CASE NetStep
  BY <1>3, NetCommandStep, NetReadStep, NetWriteStep, NetLoopStep, NetDoneStep DEF NetStep
<1>4. CASE BootStep
  <2>1. InPair \in Pairs /\ OutPair \in Pairs
    BY DEF Pairs
  <2>2. CASE InitBegin
    BY <2>2, InitBeginStep
  <2>3. CASE InitVeth(InPair, "veth0", "veth1")
    BY <2>1, <2>3, InitVethStep
  <2>4. CASE InitVeth(OutPair, "veth1", "plane")
    BY <2>1, <2>4, InitVethStep
  <2>5. CASE InitPlane
    BY <2>5, InitPlaneStep
  <2>6. QED BY <1>4, <2>2, <2>3, <2>4, <2>5 DEF BootStep
<1>5. CASE AddNf
  BY <1>5, AddNfStep
<1>6. ASSUME NEW p \in Pairs, DelNf(p) PROVE Inv'
  BY <1>6, DelNfStep
<1>7. CASE DelNfSecond
  BY <1>7, DelNfSecondStep
<1>8. CASE DpuDaemonRestarts
  BY <1>8, DpuDaemonRestartsStep
<1>9. CASE VspDies
  BY <1>9, VspDiesStep
<1>10. CASE UNCHANGED vars
  BY <1>10, StutterInv
<1>11. QED
  BY <1>1, <1>2, <1>3, <1>4, <1>5, <1>6, <1>7, <1>8, <1>9, <1>10 DEF Next

LEMMA InvHolds == Spec => []Inv
<1>1. Inv /\ [Next]_vars => Inv'
  BY NextInv
<1>2. QED BY InitInv, <1>1, PTL DEF Spec

\* Every variable of the VSP, the data plane and the pods keeps a value of its
\* kind: in particular networkStore names only VFs of the host and ports of the
\* network function, and a flow rule connects ports that can be on the bridge.
THEOREM TypeCorrect == Spec => []TypeOK
<1>1. Inv => TypeOK
  BY DEF Inv, Types, KernelTypes, HandlerTypes, MemoryTypes, TypeOK, Stores, Macs, NfPorts
<1>2. QED BY InvHolds, <1>1, PTL

\* A connected pod and a created network function have all the rules between
\* them, whatever the order of CreateBridgePort and CreateNetworkFunction and
\* however their steps interleave.
THEOREM PodsAreSteered == Spec => []Steered
<1>1. Inv => Steered
  BY SteeredHolds
<1>2. QED BY InvHolds, <1>1, PTL

(***************************************************************************)
(* CreateBridgePort does not fail without a cause.                         *)
(***************************************************************************)
\* A pod's ADD fails in no other way than by the reply to its call or the death
\* of the VSP.
LEMMA AddFailsInCall ==
  ASSUME Inv, [Next]_vars, NEW v \in Vfs, pod[v] = "add", pod'[v] = "failed"
  PROVE  \/ crashes' > crashes
         \/ bp.op = "create" /\ BpCommand /\ (IF Possible(Head(bp.todo)) THEN Fault ELSE Works)
<1> USE DEF Inv
<1>1. pod \in [Vfs -> {"none", "add", "up", "stale", "failed", "del"}] /\ pod' # pod
  BY DEF Types, HandlerTypes
<1>2. ~(pod' = Disconnected)
  BY <1>1, PodTypes
<1>3. \A w, s : pod' = [pod EXCEPT ![w] = s] => s = "failed"
  BY <1>1
<1>4. ~\E w \in Vfs : HostStep(w)
  BY <1>3 DEF HostStep, AddPod, DelPod, DelPodUnserved
<1>5. CASE BpCommand
  <2>1. bp.op # "none" /\ bp.op \in {"none", "create", "delete"}
    BY <1>5, BpWorks DEF BpCommand, Types, HandlerTypes
  <2>2. BpReply(FALSE) /\ IF Possible(Head(bp.todo)) THEN Fault ELSE Works
    BY <1>1, <1>5 DEF BpCommand, BpGoto
  <2>3. bp.op # "delete"
    BY <1>3, <2>2 DEF BpReply
  <2>4. QED BY <1>5, <2>1, <2>2, <2>3
<1>6. ~BpRead /\ ~BpTest /\ ~BpDone /\ ~BpWrite
  <2>1. ~BpReply(TRUE)
    BY <1>3 DEF BpReply
  <2>2. QED BY <1>1, <2>1 DEF BpRead, BpTest, BpDone, BpWrite, BpGoto
<1>7. ~NetStep /\ ~AddNf /\ ~DelNfSecond /\ ~\E p \in Pairs : DelNf(p)
  BY <1>1 DEF NetStep, NetCommand, NetRead, NetWrite, NetLoop, NetDone, AddNf, DelNf,
              DelNfSecond, netRest
<1>8. ~BootStep
  <2>1. \A k, l : ~StopVsp(k, l)
    BY <1>1, <1>2 DEF StopVsp
  <2>2. QED BY <1>1, <1>2, <2>1 DEF BootStep, InitBegin, InitVeth, InitPlane
<1>9. ~DpuDaemonRestarts /\ ~UNCHANGED vars
  BY <1>1 DEF DpuDaemonRestarts, vars
<1>10. CASE VspDies
  <2>1. crashes' = crashes + 1 /\ crashes \in Nat
    BY <1>10 DEF VspDies, Types, MemoryTypes
  <2>2. QED BY <2>1
<1>11. QED BY <1>4, <1>5, <1>6, <1>7, <1>8, <1>9, <1>10 DEF Next, BpStep

\* With the network function complete, all ports that the commands name are on
\* the bridge.
LEMMA CreatePossible ==
  ASSUME Inv, bp.op = "create", bp.todo # <<>>, named, ~torn, bp.step = "flows" => nfOk
  PROVE  Possible(Head(bp.todo))
<1> USE DEF Inv
<1> DEFINE x == Head(bp.todo)
           v == bp.v
<1>1. br /\ v \in Vfs
  BY DEF Nameless, Types, HandlerTypes
<1>2. x \in Left(bp.todo)
  BY LeftTail DEF Types, HandlerTypes
<1> HIDE DEF x
<1>3. CASE bp.step = "begin"
  <2>1. x = AddPort(v) /\ v # NoPort
    BY <1>1, <1>2, <1>3, Distinct DEF BpProgress
  <2>2. Possible(x)
    BY <1>1, <2>1 DEF Possible, AddPort
  <2>3. QED BY <2>2 DEF x
<1>4. CASE bp.step = "flows"
  <2>1. x \in BpFlows(v) /\ v \in ports
    BY <1>2, <1>4 DEF BpProgress
  <2>2. Pairs \subseteq ports /\ store.inp = InPair /\ store.out = OutPair
    BY <1>4 DEF NetProgress, Stored, Active
  <2>3. Named(v) = v /\ Named(StoredIn) = InPair /\ Named(StoredOut) = OutPair
    BY <1>1, <2>2, NamedPorts DEF Ports
  <2>4. Named(v) \in ports /\ Named(StoredIn) \in ports /\ Named(StoredOut) \in ports
    BY <2>1, <2>2, <2>3 DEF Pairs
  <2>5. /\ x.c = "flow" /\ x.s \in {v, StoredIn, StoredOut} /\ x.d \in {v, StoredIn, StoredOut}
    BY <2>1 DEF BpFlows, AddFlow
  <2>6. Possible(x)
    BY <1>1, <2>4, <2>5 DEF Possible
  <2>7. QED BY <2>6 DEF x
<1>5. QED BY <1>3, <1>4 DEF BpProgress, Types, HandlerTypes

\* CreateBridgePort fails only if a command fails, the VSP dies or waits for its
\* Init, an update of networkStore was lost, or rules are wanted while no network
\* function is complete: what earlier calls left behind does no harm.
THEOREM FailureHasCause == Spec => FailsForCause
<1>1. ASSUME Inv, [Next]_vars, NEW v \in Vfs, pod[v] = "add", pod'[v] = "failed"
      PROVE  \/ faults' > faults \/ crashes' > crashes \/ ~named \/ torn
             \/ bp.step = "flows" /\ ~nfOk
  <2> SUFFICES ASSUME ~(crashes' > crashes), named, ~torn, bp.step = "flows" => nfOk
               PROVE  faults' > faults
    OBVIOUS
  <2>1. bp.op = "create" /\ BpCommand /\ (IF Possible(Head(bp.todo)) THEN Fault ELSE Works)
    BY <1>1, AddFailsInCall
  <2>2. Possible(Head(bp.todo))
    BY <1>1, <2>1, CreatePossible DEF BpCommand
  <2>3. faults' = faults + 1 /\ faults \in Nat
    BY <1>1, <2>1, <2>2 DEF Fault, Inv, Types, MemoryTypes
  <2>4. QED BY <2>3
<1>2. Inv /\ [Next]_vars =>
        [\A v \in Vfs : pod[v] = "add" /\ pod'[v] = "failed" =>
            \/ faults' > faults \/ crashes' > crashes \/ ~named \/ torn
            \/ bp.step = "flows" /\ ~nfOk]_vars
  BY <1>1
<1>3. QED BY InvHolds, <1>2, PTL DEF Spec, FailsForCause

=============================================================================
