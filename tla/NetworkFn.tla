----------------------------- MODULE NetworkFn -----------------------------
(***************************************************************************)
(* The CNI path of the DPU: the daemon moves the two links of a network    *)
(* function into its pod and asks the VSP to connect them when it has seen *)
(* the MAC of both; it remembers the MACs of a pod in memory.              *)
(*                                                                         *)
(* cniMutex makes requests run one at a time.  A kernel call, an IPAM      *)
(* plugin, the VSP or a reply may fail or get lost (MaxFaults times, at    *)
(* most one kernel call in each request, so that undoing does not fail),   *)
(* and the daemon may die between two kernel calls (MaxCrashes times).     *)
(*                                                                         *)
(* A link stands for its index and its MAC.  The VSP and the runtime are   *)
(* external.                                                               *)
(***************************************************************************)
EXTENDS Naturals, Sequences, FiniteSets

CONSTANTS
    Pods, Links,
    PciLinks,        \* links named by PCI address: found under any name
    IpamPods,        \* pods whose configuration names an IPAM plugin
    Host, None,
    Orderly,         \* namespace and links stay with a pod until its DELs
    MaxFaults, MaxCrashes

ASSUME ConstantsAssumption ==
    /\ PciLinks \subseteq Links /\ IpamPods \subseteq Pods
    /\ Host \notin Pods /\ None \notin Links
    /\ Orderly \in BOOLEAN
    /\ MaxFaults \in Nat /\ MaxCrashes \in Nat

Ifs == {1, 2}
Ends == Pods \X Ifs                   \* interfaces of pods
Names == {"orig", "temp", "net1", "net2"}
IfName == [i \in Ifs |-> IF i = 1 THEN "net1" ELSE "net2"]

VARIABLES
    rt,       \* rt[e]: what the runtime knows of interface e
    dev,      \* dev[e]: the link that kubelet gave to e, or None
    netns,    \* pods whose namespace exists
    req,      \* the request that holds cniMutex
    link,     \* link[d]: namespace, name, alias and state of a link
    ips,      \* interfaces that have an address of their IPAM plugin
    macStore, \* macStore[p]: the MACs stored for p
    nfs,      \* pairs of links that the VSP has connected
    tainted,  \* pods with a failed ADD, a lost namespace or a lost MAC
    panicked, \* pods whose DEL cut a MAC off an empty list
    faults, crashes

rtVars == <<rt, dev, netns>>
vars == <<rtVars, req, link, ips, macStore, nfs, tainted, panicked, faults,
          crashes>>

NoReq == [op |-> "none", e |-> <<>>, step |-> "idle", ok |-> TRUE]
Reqs == [op : {"ADD", "DEL"}, e : Ends, ok : BOOLEAN,
         step : {"begin", "ipam", "move", "handler", "reply"}]

LinkStates == [at : Pods \cup {Host}, name : Names,
               alias : Names \cup {"none"}, up : BOOLEAN]

TypeOK ==
    /\ rt \in [Ends -> {"none", "add", "up", "failed", "del", "gone"}]
    /\ dev \in [Ends -> Links \cup {None}]
    /\ netns \subseteq Pods
    /\ req \in Reqs \cup {NoReq}
    /\ link \in [Links -> LinkStates]
    /\ ips \subseteq Ends
    /\ macStore \in [Pods -> UNION {[1..n -> Links] : n \in 0..2}]
    /\ nfs \subseteq Links \X Links
    /\ tainted \subseteq Pods /\ panicked \subseteq Pods
    /\ faults \in 0..MaxFaults /\ crashes \in 0..MaxCrashes

Init ==
    /\ rt = [e \in Ends |-> "none"]
    /\ dev = [e \in Ends |-> None]
    /\ netns = Pods
    /\ req = NoReq
    /\ link = [d \in Links |-> [at |-> Host, name |-> "orig",
                                alias |-> "none", up |-> TRUE]]
    /\ ips = {}
    /\ macStore = [p \in Pods |-> <<>>]
    /\ nfs = {} /\ tainted = {} /\ panicked = {}
    /\ faults = 0 /\ crashes = 0

-----------------------------------------------------------------------------
(* The runtime: it adds one interface after the other, and when the pod is *)
(* stopped deletes, in any order and until it succeeds, those it tried to  *)
(* add.  Unless Orderly, kubelet gives links away that are not yet deleted.*)

CreatePod(p, d1, d2) ==
    /\ d1 # d2
    /\ \A i \in Ifs : rt[<<p, i>>] = "none" /\ dev[<<p, i>>] = None
    /\ \A e \in Ends : dev[e] \in {d1, d2} =>
                           rt[e] = "gone" \/ (~Orderly /\ rt[e] = "del")
    /\ dev' = [dev EXCEPT ![<<p, 1>>] = d1, ![<<p, 2>>] = d2]
    /\ rt' = [rt EXCEPT ![<<p, 1>>] = "add"]
    /\ UNCHANGED <<netns, req, link, ips, macStore, nfs, tainted, panicked,
                   faults, crashes>>

\* The runtime does not wait any longer for an ADD that is being handled.
GiveUp(e) ==
    /\ rt[e] = "add" /\ req.op = "ADD" /\ req.e = e /\ faults < MaxFaults
    /\ rt' = [rt EXCEPT ![e] = "failed"]
    /\ faults' = faults + 1
    /\ UNCHANGED <<dev, netns, req, link, ips, macStore, nfs, tainted,
                   panicked, crashes>>

StopPod(p) ==
    /\ rt[<<p, 1>>] \in {"up", "failed"} /\ rt[<<p, 2>>] # "add"
    /\ rt' = [e \in Ends |->
                 IF e[1] # p THEN rt[e]
                 ELSE IF rt[e] = "none" THEN "gone" ELSE "del"]
    /\ UNCHANGED <<dev, netns, req, link, ips, macStore, nfs, tainted,
                   panicked, faults, crashes>>

\* Its links return to the host under the names that they have.
LoseNetns(p) ==
    /\ ~Orderly /\ p \in netns
    /\ \E i \in Ifs : rt[<<p, i>>] = "del"
    /\ req = NoReq
    /\ netns' = netns \ {p}
    /\ link' = [d \in Links |-> IF link[d].at = p
                                THEN [link[d] EXCEPT !.at = Host, !.up = FALSE]
                                ELSE link[d]]
    /\ tainted' = tainted \cup {p}
    /\ UNCHANGED <<rt, dev, req, ips, macStore, nfs, panicked, faults, crashes>>

-----------------------------------------------------------------------------
(* Requests                                                                *)

Goto(step) == req' = [req EXCEPT !.step = step]
Fail == req' = [req EXCEPT !.step = "reply", !.ok = FALSE]

Handling(op, step) == req.op = op /\ req.step = step

Fault == faults < MaxFaults /\ faults' = faults + 1

\* handleCNIRequest takes cniMutex.
Acquire(e) ==
    /\ req = NoReq /\ rt[e] \in {"add", "del"}
    /\ req' = [op |-> IF rt[e] = "add" THEN "ADD" ELSE "DEL", e |-> e,
               step |-> "begin", ok |-> TRUE]
    /\ UNCHANGED <<rtVars, link, ips, macStore, nfs, tainted, panicked, faults,
                   crashes>>

\* CmdAdd: the link is found on the host by its name or by its PCI address.
FindLink ==
    LET l == link[dev[req.e]] IN
    /\ Handling("ADD", "begin")
    /\ IF /\ req.e[1] \in netns /\ l.at = Host
          /\ dev[req.e] \in PciLinks \/ l.name = "orig"
       THEN Goto("move") ELSE Fail
    /\ UNCHANGED <<rtVars, link, ips, macStore, nfs, tainted, panicked, faults,
                   crashes>>

\* A link after moveLinkInNetNamespace.
MovedIn(l, e) == [at |-> e[1], name |-> IfName[e[2]], alias |-> l.name,
                  up |-> TRUE]

Down(l) == [l EXCEPT !.up = FALSE]
Temp(l) == [Down(l) EXCEPT !.name = "temp"]

\* What moveLinkInNetNamespace may leave when one of its kernel calls fails.
MoveInErrors(l, e) ==
    { l,                                \* LinkSetDown, LinkSetNsFd: undone
      [l EXCEPT !.alias = l.name],      \* LinkSetName, LinkSetUp: undone
      Down(l),                          \* first rename: hostDev is nil
      Temp(l),                          \* LinkByName after it: the same
      [Temp(l) EXCEPT !.at = e[1]] }    \* LinkByName in the pod: not undone

\* Where the daemon may die in moveLinkInNetNamespace.  It also dies, by a nil
\* pointer in the deferred functions, when the last LinkByName fails.
MoveInCrashes(l, e) ==
    { l, Down(l), Temp(l), [Temp(l) EXCEPT !.at = e[1]],
      [Temp(l) EXCEPT !.at = e[1], !.alias = l.name], Down(MovedIn(l, e)),
      MovedIn(l, e) }

SetLink(d, l) == link' = [link EXCEPT ![d] = l]

AfterMove(e) == IF e[1] \in IpamPods THEN "ipam" ELSE "handler"

MoveLinkIn ==
    LET d == dev[req.e] IN
    /\ Handling("ADD", "move")
    /\ \/ /\ SetLink(d, MovedIn(link[d], req.e))
          /\ Goto(AfterMove(req.e)) /\ UNCHANGED faults
       \/ /\ \E l \in MoveInErrors(link[d], req.e) : SetLink(d, l)
          /\ Fail /\ Fault
    /\ UNCHANGED <<rtVars, ips, macStore, nfs, tainted, panicked, crashes>>

\* ExecAdd and the configuration of the interface.  An address is given back
\* when the interface cannot be configured, but not when the result of the
\* IPAM plugin has no address; the link stays in the pod either way.
IpamAdd ==
    /\ Handling("ADD", "ipam")
    /\ \/ ips' = ips \cup {req.e} /\ Goto("handler") /\ UNCHANGED faults
       \/ UNCHANGED ips /\ Fail /\ Fault
       \/ ips' = ips \cup {req.e} /\ Fail /\ Fault
    /\ UNCHANGED <<rtVars, link, macStore, nfs, tainted, panicked, crashes>>

\* cniCmdNfAddHandler after CmdAdd; an error of the VSP is dropped.
StoreMac ==
    LET p == req.e[1]
        macs == Append(macStore[p], dev[req.e]) IN
    /\ Handling("ADD", "handler")
    /\ macStore' = [macStore EXCEPT ![p] = macs]
    /\ \/ /\ nfs' = IF Len(macs) = 2 THEN nfs \cup {macs} ELSE nfs
          /\ UNCHANGED faults
       \/ Len(macs) = 2 /\ Fault /\ UNCHANGED nfs
    /\ Goto("reply")
    /\ UNCHANGED <<rtVars, link, ips, tainted, panicked, crashes>>

\* CmdDel.  With a namespace that is gone the DEL fails.  With none in the
\* request CmdDel has nothing to do, and the handler cuts a MAC off the empty
\* list of no namespace: see DropMac.
DelBegin ==
    LET p == req.e[1] IN
    /\ Handling("DEL", "begin")
    /\ \/ /\ p \in netns
          /\ Goto(IF p \in IpamPods THEN "ipam" ELSE "move") /\ UNCHANGED panicked
       \/ /\ p \notin netns
          /\ Fail /\ panicked' \in {panicked, panicked \cup {p}}
    /\ UNCHANGED <<rtVars, link, ips, macStore, nfs, tainted, faults, crashes>>

IpamDel ==
    /\ Handling("DEL", "ipam")
    /\ \/ ips' = ips \ {req.e} /\ Goto("move") /\ UNCHANGED faults
       \/ UNCHANGED ips /\ Fail /\ Fault
    /\ UNCHANGED <<rtVars, link, macStore, nfs, tainted, panicked, crashes>>

\* Faulty variant: the look-up is not confined to the pod.
FoundAnywhere(e) == {d \in Links : link[d].name = IfName[e[2]]}

\* The link that LinkByName(ifName) finds in the pod.
Found(e) == {d \in Links : link[d].at = e[1] /\ link[d].name = IfName[e[2]]}

\* Faulty variant: the link keeps its temporary name.
MovedOutTemp(l) == [Temp(l) EXCEPT !.at = Host]

\* A link after moveLinkOutToHost.
MovedOut(l) == [Down(l) EXCEPT !.at = Host, !.name = l.alias]

MoveOutErrors(l) ==
    { l,                              \* most calls: undone
      Down(l),                        \* LinkSetNsFd: not set up again
      [Temp(l) EXCEPT !.at = Host] }  \* LinkByName on the host: not undone

MoveOutCrashes(l) ==
    { l, Down(l), Temp(l), [Temp(l) EXCEPT !.at = Host], MovedOut(l) }

MoveLinkOut ==
    /\ Handling("DEL", "move")
    /\ \/ Found(req.e) = {} /\ Fail /\ UNCHANGED <<link, faults>>
       \/ \E d \in Found(req.e) :
             \/ /\ SetLink(d, MovedOut(link[d]))
                /\ Goto("handler") /\ UNCHANGED faults
             \/ /\ \E l \in MoveOutErrors(link[d]) : SetLink(d, l)
                /\ Fail /\ Fault
    /\ UNCHANGED <<rtVars, ips, macStore, nfs, tainted, panicked, crashes>>

\* Faulty variant: the first DEL forgets all MACs of the pod.
DropAllMacs ==
    LET p == req.e[1]
        macs == macStore[p] IN
    /\ Handling("DEL", "handler")
    /\ nfs' = nfs \ {macs}
    /\ \/ /\ macs = <<>>
          /\ Fail /\ panicked' = panicked \cup {p} /\ UNCHANGED macStore
       \/ /\ macs # <<>>
          /\ macStore' = [macStore EXCEPT ![p] = <<>>]
          /\ Goto("reply") /\ UNCHANGED panicked
    /\ UNCHANGED <<rtVars, link, ips, tainted, faults, crashes>>

\* Faulty variant: the MAC is dropped before the VSP is asked.
DropMacFirst ==
    LET p == req.e[1]
        macs == macStore[p] IN
    /\ Handling("DEL", "handler")
    /\ \/ /\ macs = <<>>
          /\ Fail /\ panicked' = panicked \cup {p} /\ UNCHANGED macStore
       \/ /\ macs # <<>>
          /\ macStore' = [macStore EXCEPT ![p] = SubSeq(macs, 1, Len(macs) - 1)]
          /\ Goto("reply") /\ UNCHANGED panicked
    /\ nfs' = nfs \ {macStore'[p]}
    /\ UNCHANGED <<rtVars, link, ips, tainted, faults, crashes>>

\* cniCmdNfDelHandler after CmdDel.  To cut the last MAC off an empty list
\* panics; the HTTP server recovers and the request fails.
DropMac ==
    LET p == req.e[1]
        macs == macStore[p] IN
    /\ Handling("DEL", "handler")
    /\ \/ nfs' = nfs \ {macs} /\ UNCHANGED faults
       \/ Len(macs) = 2 /\ Fault /\ UNCHANGED nfs
    /\ \/ /\ macs = <<>>
          /\ Fail /\ panicked' = panicked \cup {p} /\ UNCHANGED macStore
       \/ /\ macs # <<>>
          /\ macStore' = [macStore EXCEPT ![p] = SubSeq(macs, 1, Len(macs) - 1)]
          /\ Goto("reply") /\ UNCHANGED panicked
    /\ UNCHANGED <<rtVars, link, ips, tainted, crashes>>

\* What the runtime makes of an answer.  After the first ADD comes the second.
Answered(e, ok) ==
    LET next == <<e[1], 2>> IN
    CASE req.op = "ADD" /\ rt[e] = "add" /\ ok ->
           [rt EXCEPT ![e] = "up",
                      ![next] = IF e[2] = 1 THEN "add" ELSE "up"]
      [] req.op = "ADD" /\ rt[e] = "add" /\ ~ok -> [rt EXCEPT ![e] = "failed"]
      [] req.op = "DEL" /\ ok -> [rt EXCEPT ![e] = "gone"]
      [] OTHER -> rt

\* The answer reaches the runtime, or gets lost.
Reply ==
    LET e == req.e IN
    /\ req.step = "reply"
    /\ \/ rt' = Answered(e, req.ok) /\ UNCHANGED faults
       \/ req.ok /\ rt' = Answered(e, FALSE) /\ Fault
    /\ tainted' = IF req.op = "ADD" /\ ~req.ok THEN tainted \cup {e[1]}
                                               ELSE tainted
    /\ req' = NoReq
    /\ UNCHANGED <<dev, netns, link, ips, macStore, nfs, panicked, crashes>>

\* The daemon dies and is restarted with an empty macStore.
Crash ==
    /\ crashes < MaxCrashes
    /\ crashes' = crashes + 1
    /\ macStore' = [p \in Pods |-> <<>>]
    /\ tainted' = tainted \cup {p \in Pods : dev[<<p, 1>>] # None}
    /\ rt' = IF req = NoReq THEN rt ELSE Answered(req.e, FALSE)
    /\ req' = NoReq
    /\ \/ Handling("ADD", "move") /\
          \E l \in MoveInCrashes(link[dev[req.e]], req.e) :
             SetLink(dev[req.e], l)
       \/ Handling("DEL", "move") /\
          \E d \in Found(req.e) : \E l \in MoveOutCrashes(link[d]) :
             SetLink(d, l)
       \/ UNCHANGED link
    /\ UNCHANGED <<dev, netns, ips, nfs, panicked, faults>>

Handle ==
    \/ FindLink \/ MoveLinkIn \/ IpamAdd \/ StoreMac
    \/ DelBegin \/ IpamDel \/ MoveLinkOut \/ DropMac \/ Reply

Next ==
    \/ \E p \in Pods, d1, d2 \in Links : CreatePod(p, d1, d2)
    \/ \E p \in Pods : StopPod(p) \/ LoseNetns(p)
    \/ \E e \in Ends : GiveUp(e) \/ Acquire(e)
    \/ Handle
    \/ Crash

Spec == Init /\ [][Next]_vars

-----------------------------------------------------------------------------
(* Properties                                                              *)

\* An interface that the runtime believes to be added is in its pod, up, under
\* its name, and its alias is the name that a DEL will give back to the link,
\* whatever fails or is repeated for other interfaces.
UpIsAttached ==
    \A e \in Ends : rt[e] = "up" =>
        LET l == link[dev[e]] IN
        /\ l.at = e[1] /\ l.name = IfName[e[2]] /\ l.up
        /\ dev[e] \notin PciLinks => l.alias = "orig"

\* The DEL handler finds a MAC to forget, unless the pod had an ADD that
\* failed, lost its namespace, or the daemon was restarted since.
PanicOnlyAfterLoss == panicked \subseteq tainted

Nf(p) == <<dev[<<p, 1>>], dev[<<p, 2>>]>>

\* Nothing has failed, been lost or been given away too early so far.
Calm == faults = 0 /\ crashes = 0 /\ tainted = {}

\* As long as nothing has failed, the VSP connects the two links of every pod
\* that has both, and no others: not those of a pod that has lost one.
NfExact ==
    Calm =>
        /\ \A p \in Pods : (\A i \in Ifs : rt[<<p, i>>] = "up") => Nf(p) \in nfs
        /\ \A nf \in nfs : \E p \in Pods :
              nf = Nf(p) /\ \A i \in Ifs : rt[<<p, i>>] # "gone"

\* As long as nothing has failed, no DEL fails, and an interface that is deleted
\* has given its link back to the host, under its name and for the next pod to
\* use, and its address to the IPAM plugin.
DelGivesBack ==
    Calm =>
        /\ req.op = "DEL" => req.ok
        /\ \A e \in Ends : rt[e] = "gone" /\ dev[e] # None =>
              LET l == link[dev[e]] IN
              /\ e \notin ips
              /\ l.at # e[1] /\ (l.at = Host => l.name = "orig")

\* "Restore original link state in case of error", "Restore original netdev
\* name in case of error", "Move netdev back to host namespace in case of
\* error"; "If moving the device to the host namespace fails, set its name back
\* to ifName so that this function can be retried. Also bring the device back
\* up": when moveLinkInNetNamespace or moveLinkOutToHost fails, the link is
\* where it was, with its name and its state.
FailedMoveUndone ==
    [][req.step = "move" /\ req'.step = "reply" =>
          \A d \in Links :
              /\ link'[d].at = link[d].at /\ link'[d].name = link[d].name
              /\ link'[d].up = link[d].up]_vars
=============================================================================
