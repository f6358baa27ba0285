-------------------------- MODULE NetworkFnProofs --------------------------
(***************************************************************************)
(* Proofs about the CNI path of the DPU, for every set of pods and links   *)
(* and any number of faults and crashes.                                   *)
(*                                                                         *)
(* UpIsAttached and PanicOnlyAfterLoss hold whatever fails.  The first     *)
(* rests on who may own a link (PhaseOK, DevOK, OwnerOK, ReqOK) and on what *)
(* a request has done to it so far (LinkOK); the second on a count of the  *)
(* MACs of a pod, which is a lower bound only (MacOK): a DEL that is       *)
(* repeated after its answer was lost finds no link and never gets to the  *)
(* list.                                                                   *)
(*                                                                         *)
(* NfExact and DelGivesBack are about executions in which nothing has      *)
(* failed; CalmOK says exactly where each link, each address and each MAC  *)
(* is in one of those.                                                     *)
(***************************************************************************)
EXTENDS NetworkFn, SequenceTheorems, TLAPS

Adding(e) == req.op = "ADD" /\ req.e = e
Deleting(e) == req.op = "DEL" /\ req.e = e
Succeeded == req.step = "reply" /\ req.ok

Types ==
    /\ rt \in [Ends -> {"none", "add", "up", "failed", "del", "gone"}]
    /\ dev \in [Ends -> Links \cup {None}]
    /\ netns \subseteq Pods
    /\ req \in Reqs \cup {NoReq}
    /\ link \in [Links -> LinkStates]
    /\ ips \subseteq Ends
    /\ macStore \in [Pods -> Seq(Links)]
    /\ nfs \subseteq Links \X Links
    /\ tainted \subseteq Pods /\ panicked \subseteq Pods
    /\ faults \in 0..MaxFaults /\ crashes \in 0..MaxCrashes

\* A link with the name of an interface has a name to go back to.
Named(l) == l.name \in {"net1", "net2"} => l.alias \in Names

NamesOK == \A d \in Links : Named(link[d])

\* How far the two interfaces of a pod may have come.
PhaseOK ==
    \A p \in Pods :
        \/ rt[<<p, 1>>] = "none" /\ rt[<<p, 2>>] = "none"
        \/ rt[<<p, 1>>] \in {"add", "failed"} /\ rt[<<p, 2>>] = "none"
        \/ rt[<<p, 1>>] = "up" /\ rt[<<p, 2>>] \in {"add", "up", "failed"}
        \/ rt[<<p, 1>>] \in {"del", "gone"} /\ rt[<<p, 2>>] \in {"del", "gone"}

\* A pod that was created has two links.
DevOK ==
    \A p \in Pods :
        IF rt[<<p, 1>>] = "none"
        THEN dev[<<p, 1>>] = None /\ dev[<<p, 2>>] = None
        ELSE /\ dev[<<p, 1>>] \in Links /\ dev[<<p, 2>>] \in Links
             /\ dev[<<p, 1>>] # dev[<<p, 2>>]

Stopped(e) == rt[e] \in {"del", "gone"}

\* Of two interfaces with the same link, one is being deleted at least.
OwnerOK ==
    \A e, f \in Ends : dev[e] = dev[f] /\ dev[e] # None =>
                           e = f \/ Stopped(e) \/ Stopped(f)

\* What the runtime knows of the interface that a request is about.
ReqOK ==
    /\ req.op = "DEL" => rt[req.e] = "del"
    /\ req.op = "ADD" =>
          /\ rt[req.e] \in {"add", "failed", "del"}
          /\ \A f \in Ends : rt[f] = "up" => dev[f] # dev[req.e]
          /\ req.step = "ipam" => req.e[1] \in IpamPods
    /\ ~req.ok => req.step = "reply"

Attached(e) ==
    /\ link[dev[e]].at = e[1] /\ link[dev[e]].name = IfName[e[2]]
    /\ link[dev[e]].up
    /\ dev[e] \notin PciLinks => link[dev[e]].alias = "orig"

\* A link that is found under the name of an interface is the interface's own.
Owned == \A e \in Ends, d \in Links : d \in Found(e) => d = dev[e]

UpAttached == \A e \in Ends : rt[e] = "up" => Attached(e)

\* What an ADD has seen, and what it has done.
MoveReady ==
    Handling("ADD", "move") =>
        /\ link[dev[req.e]].at = Host
        /\ dev[req.e] \in PciLinks \/ link[dev[req.e]].name = "orig"
AddAttached ==
    req.op = "ADD" /\ (req.step \in {"ipam", "handler"} \/ Succeeded) =>
        Attached(req.e)

LinkOK == Owned /\ UpAttached /\ MoveReady /\ AddAttached

\* The ADD of e may have stored a MAC.
Handled(e) ==
    \/ rt[e] \notin {"none", "add"} /\ (Adding(e) => Succeeded)
    \/ rt[e] = "add" /\ Adding(e) /\ Succeeded

\* A DEL of e may still forget a MAC.
Has(e) ==
    \/ Found(e) # {} /\ (Adding(e) => Succeeded)
    \/ Deleting(e) /\ req.step = "handler"

\* Every interface has stored one MAC at most.
AtMost ==
    \A p \in Pods :
        /\ Len(macStore[p]) <= 2
        /\ \A i \in Ifs : ~Handled(<<p, i>>) => Len(macStore[p]) <= 1
        /\ (\A i \in Ifs : ~Handled(<<p, i>>)) => Len(macStore[p]) = 0

\* There is a MAC for every DEL that may forget one.
AtLeast ==
    \A p \in Pods \ tainted :
        /\ \A i \in Ifs : Has(<<p, i>>) => Len(macStore[p]) >= 1
        /\ (\A i \in Ifs : Has(<<p, i>>)) => Len(macStore[p]) >= 2

\* A DEL forgets a MAC when it has given the link back.
GivenBack ==
    Handling("DEL", "handler") /\ req.e[1] \notin tainted => Found(req.e) = {}

NetnsOK == Pods \ tainted \subseteq netns

MacOK == AtMost /\ AtLeast /\ GivenBack /\ NetnsOK /\ PanicOnlyAfterLoss

\* As long as nothing has failed: e is in its pod, its MAC is stored.
InPod(e) ==
    \/ rt[e] = "up"
    \/ rt[e] = "del" /\ (Deleting(e) => req.step \notin {"handler", "reply"})
    \/ Adding(e) /\ (req.step \in {"ipam", "handler"} \/ Succeeded)

Stored(e) ==
    \/ rt[e] = "up"
    \/ rt[e] = "del" /\ (Deleting(e) => req.step # "reply")
    \/ Adding(e) /\ Succeeded

CalmReq ==
    /\ \A e \in Ends : rt[e] # "failed"
    /\ req.op = "ADD" => rt[req.e] = "add"
    /\ req.op = "DEL" => req.ok

CalmLinks ==
    /\ \A d \in Links :
          \/ link[d].at = Host /\ link[d].name = "orig"
          \/ link[d].alias = "orig" /\ \E e \in Ends : InPod(e) /\ d \in Found(e)
    /\ \A e \in Ends : InPod(e) => dev[e] \in Found(e)

CalmIps ==
    \A e \in ips :
        /\ e[1] \in IpamPods
        /\ rt[e] \in {"add", "up", "del"}
        /\ Deleting(e) => req.step \in {"begin", "ipam"}

CalmMacs ==
    \A p \in Pods :
        /\ \A i \in Ifs : ~Stored(<<p, i>>) => Len(macStore[p]) <= 1
        /\ (\A i \in Ifs : ~Stored(<<p, i>>)) => Len(macStore[p]) = 0
        /\ \A i \in Ifs : Stored(<<p, i>>) => Len(macStore[p]) >= 1
        /\ (\A i \in Ifs : Stored(<<p, i>>)) => Len(macStore[p]) = 2
        /\ \A k \in 1..Len(macStore[p]) : macStore[p][k] = dev[<<p, k>>]

Both(p) == \A i \in Ifs : Stored(<<p, i>>)

CalmNfs == nfs = {Nf(p) : p \in {q \in Pods : Both(q)}}

CalmParts == CalmReq /\ CalmLinks /\ CalmIps /\ CalmMacs /\ CalmNfs

CalmOK == Calm => CalmParts

-----------------------------------------------------------------------------
(* The request and the links                                               *)

Steps == {"begin", "ipam", "move", "handler", "reply"}

LEMMA EndFields ==
  /\ \A e \in Ends : e[1] \in Pods /\ e[2] \in Ifs /\ e = <<e[1], e[2]>>
  /\ \A p \in Pods : <<p, 1>> \in Ends /\ <<p, 2>> \in Ends
  BY DEF Ends, Ifs

LEMMA ReqFields ==
  ASSUME Types
  PROVE  /\ req.op \in {"none", "ADD", "DEL"} /\ req.ok \in BOOLEAN
         /\ req.op = "none" <=> req = NoReq
         /\ req.step = "idle" <=> req = NoReq
         /\ req.op # "none" => req \in Reqs /\ req.e \in Ends /\ req.step \in Steps
         /\ NoReq.ok
<1>1. CASE req \in Reqs
  BY <1>1 DEF Reqs, NoReq, Steps
<1>2. CASE req = NoReq
  BY <1>2 DEF NoReq
<1>3. QED BY <1>1, <1>2 DEF Types

LEMMA GotoFields ==
  ASSUME Types, req.op # "none", NEW s \in Steps, Goto(s)
  PROVE  /\ req' \in Reqs
         /\ req'.op = req.op /\ req'.e = req.e /\ req'.ok = req.ok
         /\ req'.step = s
<1>1. req \in Reqs
  BY ReqFields
<1>2. QED BY <1>1 DEF Goto, Reqs, Steps

LEMMA FailFields ==
  ASSUME Types, req.op # "none", Fail
  PROVE  /\ req' \in Reqs
         /\ req'.op = req.op /\ req'.e = req.e /\ ~req'.ok
         /\ req'.step = "reply"
<1>1. req \in Reqs
  BY ReqFields
<1>2. QED BY <1>1 DEF Fail, Reqs, Steps

\* What the operators on links return.
LEMMA LinkUpdates ==
  ASSUME NEW l \in LinkStates, NEW a \in Pods \cup {Host}, NEW n \in Names,
         NEW s \in Names \cup {"none"}
  PROVE  /\ [l EXCEPT !.at = a, !.name = n] \in LinkStates
         /\ [l EXCEPT !.at = a, !.alias = s] \in LinkStates
         /\ [l EXCEPT !.at = a] \in LinkStates
         /\ [l EXCEPT !.alias = s] \in LinkStates
  BY DEF LinkStates

LEMMA LinkFields ==
  ASSUME NEW l \in LinkStates, NEW e \in Ends
  PROVE  /\ MovedIn(l, e) \in LinkStates
         /\ MovedIn(l, e).at = e[1] /\ MovedIn(l, e).name = IfName[e[2]]
         /\ MovedIn(l, e).alias = l.name /\ MovedIn(l, e).up
         /\ Down(l) \in LinkStates /\ Down(l).at = l.at
         /\ Down(l).name = l.name /\ Down(l).alias = l.alias
         /\ Temp(l) \in LinkStates /\ Temp(l).at = l.at
         /\ Temp(l).name = "temp" /\ Temp(l).alias = l.alias
         /\ e[1] \in Pods /\ l.name \in Names
<1>1. e[1] \in Pods /\ IfName[e[2]] \in Names
  BY EndFields DEF IfName, Ifs, Names
<1>2. MovedIn(l, e) \in LinkStates
  BY <1>1 DEF MovedIn, LinkStates
<1>3. /\ Down(l) \in LinkStates /\ Down(l).at = l.at
      /\ Down(l).name = l.name /\ Down(l).alias = l.alias
  BY DEF Down, LinkStates
<1>4. /\ Temp(l) \in LinkStates /\ Temp(l).at = l.at
      /\ Temp(l).name = "temp" /\ Temp(l).alias = l.alias
  BY <1>3 DEF Temp, LinkStates, Names
<1>5. QED BY <1>1, <1>2, <1>3, <1>4 DEF MovedIn, LinkStates

\* An attempt to move a link into a pod leaves it where it was with the name it
\* had, or gives it a temporary name, or moves it.
LEMMA MoveInFields ==
  ASSUME NEW l \in LinkStates, NEW e \in Ends, Named(l),
         NEW m \in MoveInErrors(l, e) \cup MoveInCrashes(l, e)
  PROVE  /\ m \in LinkStates /\ Named(m)
         /\ \/ m.at = l.at /\ m.name = l.name
            \/ m.name = "temp"
            \/ m.at = e[1] /\ m.name = IfName[e[2]]
<1> DEFINE t == [Temp(l) EXCEPT !.at = e[1]]
<1>2. t \in LinkStates /\ t.at = e[1] /\ t.name = "temp"
  BY LinkFields, LinkUpdates DEF LinkStates
<1>3. MovedIn(l, e) \in LinkStates
  BY LinkFields
<1> DEFINE u == [Temp(l) EXCEPT !.at = e[1], !.alias = l.name]
<1>4. u \in LinkStates /\ u.name = "temp"
  BY LinkFields, LinkUpdates DEF LinkStates
<1> DEFINE v == [l EXCEPT !.alias = l.name]
<1>5. v \in LinkStates /\ v.at = l.at /\ v.name = l.name /\ v.alias = l.name
  BY LinkUpdates DEF LinkStates
<1> DEFINE w == Down(MovedIn(l, e))
<1>6. w \in LinkStates /\ w.at = e[1] /\ w.name = IfName[e[2]] /\ w.alias = l.name
  BY <1>3, LinkFields
<1>7. m \in {l, v, Down(l), Temp(l), t, u, w, MovedIn(l, e)}
  BY DEF MoveInErrors, MoveInCrashes
<1> HIDE DEF t, u, v, w
<1>8. QED BY <1>2, <1>3, <1>4, <1>5, <1>6, <1>7, LinkFields DEF Named

\* What moveLinkOutToHost makes of a link.
LEMMA MovedOutFields ==
  ASSUME NEW l \in LinkStates, l.alias \in Names, Ends # {}
  PROVE  /\ MovedOut(l) \in LinkStates /\ Named(MovedOut(l))
         /\ MovedOut(l).at = Host /\ MovedOut(l).name = l.alias
         /\ MovedOut(l).alias = l.alias
<1> PICK e \in Ends : TRUE
  OBVIOUS
<1>1. Down(l) \in LinkStates /\ Down(l).alias = l.alias
  BY LinkFields
<1>2. QED BY <1>1, LinkUpdates DEF MovedOut, LinkStates, Named

\* A failed attempt leaves it in the pod, perhaps down, or renames it.
LEMMA MoveOutFields ==
  ASSUME NEW l \in LinkStates, l.alias \in Names, Ends # {}, Named(l),
         NEW m \in MoveOutErrors(l) \cup MoveOutCrashes(l)
  PROVE  /\ m \in LinkStates /\ Named(m)
         /\ \/ m.at = l.at /\ m.name = l.name
            \/ m.name = "temp"
            \/ m.at = Host
<1> PICK e \in Ends : TRUE
  OBVIOUS
<1> DEFINE t == [Temp(l) EXCEPT !.at = Host]
<1>1. t \in LinkStates /\ t.name = "temp"
  BY LinkFields, LinkUpdates DEF LinkStates
<1>2. m \in {l, Down(l), Temp(l), t, MovedOut(l)}
  BY DEF MoveOutErrors, MoveOutCrashes
<1> HIDE DEF t
<1>3. QED BY <1>1, <1>2, LinkFields, MovedOutFields DEF Named

-----------------------------------------------------------------------------
(* Who may own a link                                                      *)

\* The steps of a request but the answer.
Work ==
    \/ FindLink \/ MoveLinkIn \/ IpamAdd \/ StoreMac
    \/ DelBegin \/ IpamDel \/ MoveLinkOut \/ DropMac

\* A request goes on until it is to be answered; only its answer tells the
\* runtime anything.
LEMMA WorkGoesOn ==
  ASSUME Types, ReqOK, Work
  PROVE  /\ rt' = rt /\ dev' = dev /\ netns' = netns
         /\ tainted' = tainted /\ crashes' = crashes
         /\ req \in Reqs /\ req.ok /\ req.e \in Ends /\ req.step # "reply"
         /\ req' \in Reqs /\ req'.op = req.op /\ req'.e = req.e
         /\ req'.ok \/ req'.step = "reply"
         /\ req'.op = "ADD" /\ req'.step = "ipam" => req.e[1] \in IpamPods
<1> USE ReqFields
<1>1. CASE FindLink
  <2>1. req.op = "ADD" /\ req.step = "begin"
    BY <1>1 DEF FindLink, Handling
  <2>2. (Goto("move") \/ Fail) /\ UNCHANGED <<rtVars, tainted, crashes>>
    BY <1>1 DEF FindLink
  <2>3. QED BY <2>1, <2>2, GotoFields, FailFields DEF rtVars, ReqOK, Steps
<1>2. CASE MoveLinkIn
  <2>1. req.op = "ADD" /\ req.step = "move"
    BY <1>2 DEF MoveLinkIn, Handling
  <2>2. (Goto(AfterMove(req.e)) \/ Fail) /\ UNCHANGED <<rtVars, tainted, crashes>>
    BY <1>2 DEF MoveLinkIn
  <2>3. AfterMove(req.e) \in {"ipam", "handler"}
    BY DEF AfterMove
  <2>4. AfterMove(req.e) = "ipam" => req.e[1] \in IpamPods
    BY DEF AfterMove
  <2>5. QED
    BY <2>1, <2>2, <2>3, <2>4, GotoFields, FailFields DEF rtVars, ReqOK, Steps
<1>3. CASE IpamAdd
  <2>1. req.op = "ADD" /\ req.step = "ipam"
    BY <1>3 DEF IpamAdd, Handling
  <2>2. (Goto("handler") \/ Fail) /\ UNCHANGED <<rtVars, tainted, crashes>>
    BY <1>3 DEF IpamAdd
  <2>3. QED BY <2>1, <2>2, GotoFields, FailFields DEF rtVars, ReqOK, Steps
<1>4. CASE StoreMac
  <2>1. req.op = "ADD" /\ req.step = "handler"
    BY <1>4 DEF StoreMac, Handling
  <2>2. Goto("reply") /\ UNCHANGED <<rtVars, tainted, crashes>>
    BY <1>4 DEF StoreMac
  <2>3. QED BY <2>1, <2>2, GotoFields DEF rtVars, ReqOK, Steps
<1>5. CASE DelBegin
  <2>1. req.op = "DEL" /\ req.step = "begin"
    BY <1>5 DEF DelBegin, Handling
  <2>2. PICK s \in Steps : (Goto(s) \/ Fail) /\ UNCHANGED <<rtVars, tainted, crashes>>
    BY <1>5 DEF DelBegin, Steps
  <2>3. QED BY <2>1, <2>2, GotoFields, FailFields DEF rtVars, ReqOK
<1>6. CASE IpamDel
  <2>1. req.op = "DEL" /\ req.step = "ipam"
    BY <1>6 DEF IpamDel, Handling
  <2>2. (Goto("move") \/ Fail) /\ UNCHANGED <<rtVars, tainted, crashes>>
    BY <1>6 DEF IpamDel
  <2>3. QED BY <2>1, <2>2, GotoFields, FailFields DEF rtVars, ReqOK, Steps
<1>7. CASE MoveLinkOut
  <2>1. req.op = "DEL" /\ req.step = "move"
    BY <1>7 DEF MoveLinkOut, Handling
  <2>2. (Goto("handler") \/ Fail) /\ UNCHANGED <<rtVars, tainted, crashes>>
    BY <1>7 DEF MoveLinkOut
  <2>3. QED BY <2>1, <2>2, GotoFields, FailFields DEF rtVars, ReqOK, Steps
<1>8. CASE DropMac
  <2>1. req.op = "DEL" /\ req.step = "handler"
    BY <1>8 DEF DropMac, Handling
  <2>2. (Goto("reply") \/ Fail) /\ UNCHANGED <<rtVars, tainted, crashes>>
    BY <1>8 DEF DropMac
  <2>3. QED BY <2>1, <2>2, GotoFields, FailFields DEF rtVars, ReqOK, Steps
<1>9. QED
  BY <1>1, <1>2, <1>3, <1>4, <1>5, <1>6, <1>7, <1>8 DEF Work

\* An interface whose request is answered has a request no more.
LEMMA AnsweredRt ==
  ASSUME Types, req.op # "none", NEW ok \in BOOLEAN
  PROVE  LET e == req.e IN
         /\ Answered(e, ok) \in
              [Ends -> {"none", "add", "up", "failed", "del", "gone"}]
         /\ req.op = "ADD" /\ rt[e] = "add" /\ ok =>
              /\ Answered(e, ok)[e] = "up"
              /\ e[2] = 1 => Answered(e, ok)[<<e[1], 2>>] = "add"
              /\ \A f \in Ends : f # e /\ f # <<e[1], 2>> =>
                                    Answered(e, ok)[f] = rt[f]
         /\ req.op = "ADD" /\ rt[e] = "add" /\ ~ok =>
              /\ Answered(e, ok)[e] = "failed"
              /\ \A f \in Ends : f # e => Answered(e, ok)[f] = rt[f]
         /\ req.op = "DEL" /\ ok =>
              /\ Answered(e, ok)[e] = "gone"
              /\ \A f \in Ends : f # e => Answered(e, ok)[f] = rt[f]
         /\ ~(req.op = "ADD" /\ rt[e] = "add") /\ ~(req.op = "DEL" /\ ok) =>
              Answered(e, ok) = rt
<1> DEFINE e == req.e
           next == <<e[1], 2>>
<1>1. e \in Ends /\ next \in Ends /\ e = <<e[1], e[2]>> /\ e[2] \in {1, 2}
  BY ReqFields, EndFields DEF Ifs
<1>2. rt \in [Ends -> {"none", "add", "up", "failed", "del", "gone"}]
  BY DEF Types
<1> HIDE DEF e, next
<1>3. CASE req.op = "ADD" /\ rt[e] = "add" /\ ok
  <2>1. Answered(e, ok) = [rt EXCEPT ![e] = "up",
                             ![next] = IF e[2] = 1 THEN "add" ELSE "up"]
    BY <1>3 DEF Answered, next
  <2>2. CASE e[2] = 1
    <3>1. e # next
      BY <2>2, <1>1 DEF next
    <3>2. QED BY <1>1, <1>2, <1>3, <2>1, <2>2, <3>1 DEF e, next
  <2>3. CASE e[2] = 2
    <3>1. e = next
      BY <2>3, <1>1 DEF next
    <3>2. (IF e[2] = 1 THEN "add" ELSE "up") = "up"
      BY <2>3
    <3>3. Answered(e, ok) = [rt EXCEPT ![e] = "up", ![e] = "up"]
      BY <2>1, <3>1, <3>2
    <3>4. /\ Answered(e, ok) \in
               [Ends -> {"none", "add", "up", "failed", "del", "gone"}]
          /\ Answered(e, ok)[e] = "up"
          /\ \A f \in Ends : f # e => Answered(e, ok)[f] = rt[f]
      BY <1>1, <1>2, <3>3
    <3>5. e[2] # 1
      BY <2>3
    <3>6. QED BY <1>3, <3>4, <3>5 DEF e
  <2>4. QED BY <1>1, <2>2, <2>3
<1>4. CASE req.op = "ADD" /\ rt[e] = "add" /\ ~ok
  <2>1. Answered(e, ok) = [rt EXCEPT ![e] = "failed"]
    BY <1>4 DEF Answered
  <2>2. QED BY <1>1, <1>2, <1>4, <2>1 DEF e, next
<1>5. CASE req.op = "DEL" /\ ok
  <2>1. Answered(e, ok) = [rt EXCEPT ![e] = "gone"]
    BY <1>5 DEF Answered
  <2>2. QED BY <1>1, <1>2, <1>5, <2>1 DEF e, next
<1>6. CASE ~(req.op = "ADD" /\ rt[e] = "add") /\ ~(req.op = "DEL" /\ ok)
  <2>1. Answered(e, ok) = rt
    BY <1>6 DEF Answered
  <2>2. QED BY <1>1, <1>2, <1>6, <2>1 DEF e, next
<1>7. QED BY <1>3, <1>4, <1>5, <1>6

RtInv == PhaseOK /\ DevOK /\ OwnerOK /\ ReqOK

\* An interface that the runtime has asked for has a link.
LEMMA DevOfEnd ==
  ASSUME RtInv, NEW e \in Ends, rt[e] # "none"
  PROVE  dev[e] \in Links
<1>1. PICK p \in Pods, i \in {1, 2} : e = <<p, i>>
  BY EndFields DEF Ifs
<1>2. CASE i = 1
  BY <1>1, <1>2 DEF RtInv, DevOK
<1>3. CASE i = 2
  BY <1>1, <1>3 DEF RtInv, DevOK, PhaseOK
<1>4. QED BY <1>2, <1>3

\* An ADD that fails, and a DEL that succeeds, concern one interface.
LEMMA OneEndMoves ==
  ASSUME RtInv, NEW e \in Ends, dev' = dev,
         \A f \in Ends : f # e => rt'[f] = rt[f],
         \/ rt[e] = "add" /\ rt'[e] = "failed"
         \/ rt[e] = "del" /\ rt'[e] = "gone"
  PROVE  PhaseOK' /\ DevOK'
<1>1. PICK p \in Pods, i \in {1, 2} : e = <<p, i>>
  BY EndFields DEF Ifs
<1>2. \A q \in Pods \ {p} : /\ rt'[<<q, 1>>] = rt[<<q, 1>>]
                           /\ rt'[<<q, 2>>] = rt[<<q, 2>>]
  BY <1>1, EndFields
<1>3. CASE i = 1
  <2>1. rt'[<<p, 2>>] = rt[<<p, 2>>]
    BY <1>1, <1>3, EndFields
  <2>2. QED BY <1>1, <1>2, <1>3, <2>1 DEF RtInv, PhaseOK, DevOK
<1>4. CASE i = 2
  <2>1. rt'[<<p, 1>>] = rt[<<p, 1>>]
    BY <1>1, <1>4, EndFields
  <2>2. QED BY <1>1, <1>2, <1>4, <2>1 DEF RtInv, PhaseOK, DevOK
<1>5. QED BY <1>3, <1>4

\* What an answer does to the interfaces of a pod, when the request that is
\* answered is forgotten.
LEMMA AnswerKeepsRt ==
  ASSUME Types, RtInv, req.op # "none", NEW ok \in BOOLEAN,
         rt' = Answered(req.e, ok), dev' = dev, req' = NoReq
  PROVE  RtInv'
<1> DEFINE e == req.e
<1>1. e \in Ends /\ e[1] \in Pods /\ e[2] \in {1, 2} /\ e = <<e[1], e[2]>>
  BY ReqFields, EndFields DEF Ifs
<1>2. \/ req.op = "ADD" /\ rt[e] \in {"add", "failed", "del"}
      \/ req.op = "DEL" /\ rt[e] = "del"
  BY ReqFields DEF RtInv, ReqOK
<1>3. PICK p \in Pods, i \in {1, 2} : e = <<p, i>> /\ e[1] = p /\ e[2] = i
  BY <1>1
<1>4. ReqOK'
  BY DEF ReqOK, NoReq
<1>5. CASE req.op = "ADD" /\ rt[e] = "add" /\ ok
  <2>1. /\ rt'[e] = "up" /\ (e[2] = 1 => rt'[<<e[1], 2>>] = "add")
        /\ \A f \in Ends : f # e /\ f # <<e[1], 2>> => rt'[f] = rt[f]
    BY <1>5, AnsweredRt
  <2>2. PhaseOK' /\ DevOK'
    <3>0. /\ rt[<<p, i>>] = "add" /\ rt'[<<p, i>>] = "up"
          /\ i = 1 => rt'[<<p, 2>>] = "add"
          /\ \A f \in Ends : f # <<p, i>> /\ f # <<p, 2>> => rt'[f] = rt[f]
      BY <1>3, <1>5, <2>1
    <3>4. \A q \in Pods \ {p} : /\ rt'[<<q, 1>>] = rt[<<q, 1>>]
                               /\ rt'[<<q, 2>>] = rt[<<q, 2>>]
      <4> TAKE q \in Pods \ {p}
      <4>1. \A k \in {1, 2} : /\ <<q, k>> # <<p, i>> /\ <<q, k>> # <<p, 2>>
                              /\ <<q, k>> \in Ends
        BY EndFields
      <4>2. QED BY <3>0, <4>1
    <3>1. CASE i = 1
      <4>1. /\ rt[<<p, 1>>] = "add"
            /\ rt'[<<p, 1>>] = "up" /\ rt'[<<p, 2>>] = "add"
        BY <3>0, <3>1
      <4>2. QED BY <3>4, <4>1 DEF RtInv, PhaseOK, DevOK
    <3>2. CASE i = 2
      <4>1. /\ rt[<<p, 2>>] = "add" /\ rt'[<<p, 2>>] = "up"
            /\ rt'[<<p, 1>>] = rt[<<p, 1>>]
        BY <3>0, <3>2, EndFields
      <4>2. QED BY <3>4, <4>1 DEF RtInv, PhaseOK, DevOK
    <3>3. QED BY <3>1, <3>2
  <2>4. \A f \in Ends : Stopped(f) => Stopped(f)'
    <3> TAKE f \in Ends
    <3> HAVE Stopped(f)
    <3>1. f # e
      BY <1>5 DEF Stopped
    <3>2. f # <<e[1], 2>>
      BY <1>1, <1>5, <3>1 DEF Stopped, RtInv, PhaseOK
    <3>3. QED BY <2>1, <3>1, <3>2 DEF Stopped
  <2>5. OwnerOK'
    BY <2>4 DEF RtInv, OwnerOK
  <2>6. QED BY <1>4, <2>2, <2>5 DEF RtInv
<1>6. CASE req.op = "ADD" /\ rt[e] = "add" /\ ~ok
  <2>1. rt'[e] = "failed" /\ \A f \in Ends : f # e => rt'[f] = rt[f]
    BY <1>6, AnsweredRt
  <2>2. PhaseOK' /\ DevOK'
    BY <1>1, <1>6, <2>1, OneEndMoves
  <2>4. OwnerOK'
    BY <2>1, <1>1, <1>6 DEF RtInv, OwnerOK, Stopped
  <2>5. QED BY <1>4, <2>2, <2>4 DEF RtInv
<1>7. CASE req.op = "DEL" /\ ok
  <2>1. rt'[e] = "gone" /\ rt[e] = "del" /\ \A f \in Ends : f # e => rt'[f] = rt[f]
    BY <1>2, <1>7, AnsweredRt
  <2>2. PhaseOK' /\ DevOK'
    BY <1>1, <1>7, <2>1, OneEndMoves
  <2>4. OwnerOK'
    BY <2>1, <1>1, <1>7 DEF RtInv, OwnerOK, Stopped
  <2>5. QED BY <1>4, <2>2, <2>4 DEF RtInv
<1>8. CASE rt' = rt
  <2>1. PhaseOK'
    BY <1>8 DEF RtInv, PhaseOK
  <2>2. DevOK'
    BY <1>8 DEF RtInv, DevOK
  <2>3. OwnerOK'
    BY <1>8 DEF RtInv, OwnerOK, Stopped
  <2>4. QED BY <1>4, <2>1, <2>2, <2>3 DEF RtInv
<1>9. QED BY <1>5, <1>6, <1>7, <1>8, AnsweredRt

LEMMA RtStep ==
  ASSUME Types, RtInv, [Next]_vars
  PROVE  RtInv'
<1>0. \A f \in Ends : f = <<f[1], f[2]>> /\ f[1] \in Pods /\ f[2] \in {1, 2}
  BY EndFields DEF Ifs
<1>1. ASSUME NEW p \in Pods, NEW d1 \in Links, NEW d2 \in Links,
             CreatePod(p, d1, d2)
      PROVE  RtInv'
  <2>1. /\ d1 # d2 /\ rt[<<p, 1>>] = "none" /\ rt[<<p, 2>>] = "none"
        /\ dev[<<p, 1>>] = None /\ dev[<<p, 2>>] = None
        /\ \A f \in Ends : dev[f] \in {d1, d2} => Stopped(f)
    BY <1>1 DEF CreatePod, Stopped, Ifs
  <2>2. <<p, 1>> # <<p, 2>> /\ <<p, 1>> \in Ends /\ <<p, 2>> \in Ends
    BY EndFields
  <2>3. /\ dev'[<<p, 1>>] = d1 /\ dev'[<<p, 2>>] = d2
        /\ \A f \in Ends : f # <<p, 1>> /\ f # <<p, 2>> => dev'[f] = dev[f]
        /\ rt'[<<p, 1>>] = "add" /\ \A f \in Ends : f # <<p, 1>> => rt'[f] = rt[f]
        /\ req' = req
    BY <1>1, <2>2 DEF CreatePod, Types
  <2>4. PhaseOK'
    BY <2>1, <2>2, <2>3, EndFields DEF RtInv, PhaseOK
  <2>5. DevOK'
    <3> SUFFICES ASSUME NEW q \in Pods
                 PROVE  IF rt'[<<q, 1>>] = "none"
                        THEN dev'[<<q, 1>>] = None /\ dev'[<<q, 2>>] = None
                        ELSE /\ dev'[<<q, 1>>] \in Links /\ dev'[<<q, 2>>] \in Links
                             /\ dev'[<<q, 1>>] # dev'[<<q, 2>>]
      BY DEF DevOK
    <3>1. CASE q = p
      BY <2>1, <2>2, <2>3, <3>1
    <3>2. CASE q # p
      <4>1. /\ dev'[<<q, 1>>] = dev[<<q, 1>>] /\ dev'[<<q, 2>>] = dev[<<q, 2>>]
            /\ rt'[<<q, 1>>] = rt[<<q, 1>>]
        BY <2>3, <3>2, EndFields
      <4>2. QED BY <4>1 DEF RtInv, DevOK
    <3>3. QED BY <3>1, <3>2
  <2>6. \A f \in Ends : Stopped(f) => Stopped(f)' /\ dev'[f] = dev[f]
    BY <2>1, <2>3 DEF Stopped
  <2>7. OwnerOK'
    <3> SUFFICES ASSUME NEW e \in Ends, NEW f \in Ends, dev'[e] = dev'[f],
                        dev'[e] # None, e # f
                 PROVE  Stopped(e)' \/ Stopped(f)'
      BY DEF OwnerOK
    <3>1. CASE dev'[e] = dev[e] /\ dev'[f] = dev[f]
      BY <3>1, <2>6 DEF RtInv, OwnerOK
    <3>2. CASE dev'[e] # dev[e]
      <4>1. e \in {<<p, 1>>, <<p, 2>>} /\ dev'[e] \in {d1, d2}
        BY <3>2, <2>3
      <4>2. f \notin {<<p, 1>>, <<p, 2>>}
        BY <4>1, <2>1, <2>3
      <4>3. QED BY <4>1, <4>2, <2>1, <2>3, <2>6
    <3>3. CASE dev'[f] # dev[f]
      <4>1. f \in {<<p, 1>>, <<p, 2>>} /\ dev'[f] \in {d1, d2}
        BY <3>3, <2>3
      <4>2. e \notin {<<p, 1>>, <<p, 2>>}
        BY <4>1, <2>1, <2>3
      <4>3. QED BY <4>1, <4>2, <2>1, <2>3, <2>6
    <3>4. QED BY <3>1, <3>2, <3>3
  <2>8. ReqOK'
    <3>1. req.op # "none" => /\ req.e \in Ends /\ rt[req.e] # "none"
                             /\ req.e # <<p, 1>> /\ req.e # <<p, 2>>
      BY <2>1, ReqFields DEF RtInv, ReqOK
    <3>2. \A f \in Ends : rt'[f] = "up" => rt[f] = "up" /\ dev'[f] = dev[f]
      BY <2>1, <2>3
    <3>3. req.op # "none" => rt'[req.e] = rt[req.e] /\ dev'[req.e] = dev[req.e]
      BY <2>3, <3>1
    <3>4. QED BY <2>3, <3>2, <3>3, ReqFields DEF RtInv, ReqOK
  <2>9. QED BY <2>4, <2>5, <2>7, <2>8 DEF RtInv
<1>2. ASSUME NEW p \in Pods, StopPod(p) PROVE RtInv'
  <2>1. /\ rt[<<p, 1>>] \in {"up", "failed"} /\ rt[<<p, 2>>] # "add"
        /\ dev' = dev /\ req' = req
        /\ rt' = [e \in Ends |-> IF e[1] # p THEN rt[e]
                                 ELSE IF rt[e] = "none" THEN "gone" ELSE "del"]
    BY <1>2 DEF StopPod
  <2>2. /\ \A f \in Ends : f[1] # p => rt'[f] = rt[f]
        /\ \A f \in Ends : f[1] = p => rt'[f] = IF rt[f] = "none" THEN "gone"
                                                                 ELSE "del"
    BY <2>1
  <2>3. \A q \in Pods : <<q, 1>>[1] = q /\ <<q, 2>>[1] = q
    OBVIOUS
  <2> HIDE <1>2
  <2>4. PhaseOK'
    BY <2>1, <2>2, <2>3, EndFields DEF RtInv, PhaseOK
  <2>5. DevOK'
    BY <2>1, <2>2, <2>3, EndFields DEF RtInv, DevOK
  <2>6. OwnerOK'
    BY <2>1, <2>2 DEF RtInv, OwnerOK, Stopped
  <2>7. ReqOK'
    <3>1. req.op # "none" => req.e \in Ends /\ rt[req.e] # "none"
      BY ReqFields DEF RtInv, ReqOK
    <3>2. req.op # "none" => rt'[req.e] \in {rt[req.e], "del"}
      BY <3>1, <2>2
    <3>3. \A f \in Ends : rt'[f] = "up" => rt[f] = "up"
      BY <2>2
    <3>4. QED BY <2>1, <3>2, <3>3, ReqFields DEF RtInv, ReqOK
  <2>8. QED BY <2>4, <2>5, <2>6, <2>7 DEF RtInv
<1>3. ASSUME NEW e \in Ends, GiveUp(e) PROVE RtInv'
  <2>1. /\ rt[e] = "add" /\ req.op = "ADD" /\ req.e = e
        /\ rt'[e] = "failed" /\ \A f \in Ends : f # e => rt'[f] = rt[f]
        /\ dev' = dev /\ req' = req
    BY <1>3 DEF GiveUp, Types
  <2>3. PhaseOK' /\ DevOK'
    BY <2>1, OneEndMoves
  <2>5. OwnerOK'
    BY <2>1 DEF RtInv, OwnerOK, Stopped
  <2>6. ReqOK'
    BY <2>1 DEF RtInv, ReqOK
  <2>7. QED BY <2>3, <2>5, <2>6 DEF RtInv
<1>4. ASSUME NEW e \in Ends, Acquire(e) PROVE RtInv'
  <2>1. /\ rt[e] \in {"add", "del"} /\ rt' = rt /\ dev' = dev
        /\ req' = [op |-> IF rt[e] = "add" THEN "ADD" ELSE "DEL", e |-> e,
                   step |-> "begin", ok |-> TRUE]
    BY <1>4 DEF Acquire, rtVars
  <2>2. PhaseOK'
    BY <2>1 DEF RtInv, PhaseOK
  <2>3. DevOK'
    BY <2>1 DEF RtInv, DevOK
  <2>4. OwnerOK'
    BY <2>1 DEF RtInv, OwnerOK, Stopped
  <2>5. req'.e = e /\ req'.step = "begin" /\ req'.ok
    BY <2>1
  <2>6. dev[e] # None
    BY <2>1, DevOfEnd, ConstantsAssumption
  <2>7. rt[e] = "add" => \A f \in Ends : rt[f] = "up" => dev[f] # dev[e]
    BY <2>6 DEF RtInv, OwnerOK, Stopped
  <2>8. rt[e] = "add" => req'.op = "ADD"
    BY <2>1
  <2>9. rt[e] = "del" => req'.op = "DEL"
    BY <2>1
  <2>10. ReqOK'
    BY <2>1, <2>5, <2>7, <2>8, <2>9 DEF ReqOK
  <2>11. QED BY <2>2, <2>3, <2>4, <2>10 DEF RtInv
<1>5. ASSUME rt' = rt, dev' = dev, ReqOK' PROVE RtInv'
  <2>1. PhaseOK'
    BY <1>5 DEF RtInv, PhaseOK
  <2>2. DevOK'
    BY <1>5 DEF RtInv, DevOK
  <2>3. OwnerOK'
    BY <1>5 DEF RtInv, OwnerOK, Stopped
  <2>4. QED BY <1>5, <2>1, <2>2, <2>3 DEF RtInv
<1>6. CASE Work
  <2>1. ReqOK'
    BY <1>6, WorkGoesOn, ReqFields DEF RtInv, ReqOK, Reqs
  <2>2. QED BY <1>5, <1>6, <2>1, WorkGoesOn DEF RtInv
<1>7. CASE Reply
  <2>1. req.op # "none"
    BY <1>7, ReqFields DEF Reply, NoReq
  <2>2. PICK ok \in BOOLEAN : rt' = Answered(req.e, ok)
    BY <1>7, ReqFields DEF Reply
  <2>3. QED BY <1>7, <2>1, <2>2, AnswerKeepsRt DEF Reply
<1>8. CASE Crash
  <2>1. dev' = dev /\ req' = NoReq
    BY <1>8 DEF Crash
  <2>2. ReqOK' \/ req.op # "none"
    BY <2>1 DEF ReqOK, NoReq
  <2>3. CASE req = NoReq
    BY <1>5, <1>8, <2>1, <2>3 DEF Crash, RtInv, ReqOK, NoReq
  <2>4. CASE req # NoReq
    BY <1>8, <2>1, <2>4, AnswerKeepsRt, ReqFields DEF Crash
  <2>5. QED BY <2>3, <2>4
<1>9. ASSUME NEW p \in Pods, LoseNetns(p) PROVE RtInv'
  BY <1>5, <1>9 DEF LoseNetns, RtInv, ReqOK
<1>10. CASE UNCHANGED vars
  BY <1>5, <1>10 DEF vars, rtVars, RtInv, ReqOK
<1>11. QED
  BY <1>1, <1>2, <1>3, <1>4, <1>6, <1>7, <1>8, <1>9, <1>10
  DEF Next, Handle, Work

-----------------------------------------------------------------------------
(* Types                                                                   *)

LEMMA SetLinkFields ==
  ASSUME Types, NamesOK, NEW d \in Links, NEW l \in LinkStates, Named(l),
         SetLink(d, l)
  PROVE  /\ link' \in [Links -> LinkStates] /\ NamesOK'
         /\ link'[d] = l /\ \A c \in Links : c # d => link'[c] = link[c]
<1>1. /\ link' \in [Links -> LinkStates]
      /\ link'[d] = l /\ \A c \in Links : c # d => link'[c] = link[c]
  BY DEF SetLink, Types
<1>2. QED BY <1>1 DEF NamesOK, Named

\* A link that a DEL finds has a name to give back.
LEMMA FoundFields ==
  ASSUME Types, NamesOK, NEW e \in Ends, NEW d \in Found(e)
  PROVE  /\ d \in Links /\ link[d] \in LinkStates /\ link[d].at = e[1]
         /\ link[d].name = IfName[e[2]] /\ link[d].alias \in Names
         /\ Named(link[d])
<1>1. /\ d \in Links /\ link[d] \in LinkStates /\ link[d].at = e[1]
      /\ link[d].name = IfName[e[2]]
  BY DEF Found, Types
<1>2. IfName[e[2]] \in {"net1", "net2"}
  BY EndFields DEF IfName, Ifs
<1>3. QED BY <1>1, <1>2 DEF NamesOK, Named

\* What the steps that move a link do to the links.
LEMMA MoveInStep ==
  ASSUME Types, NamesOK, RtInv, Handling("ADD", "move"),
         NEW m \in MoveInErrors(link[dev[req.e]], req.e)
                     \cup MoveInCrashes(link[dev[req.e]], req.e),
         SetLink(dev[req.e], m)
  PROVE  LET d == dev[req.e]
             e == req.e IN
         /\ d \in Links /\ link' \in [Links -> LinkStates] /\ NamesOK'
         /\ \A c \in Links : c # d => link'[c] = link[c]
         /\ \/ link'[d].at = link[d].at /\ link'[d].name = link[d].name
            \/ link'[d].name = "temp"
            \/ link'[d].at = e[1] /\ link'[d].name = IfName[e[2]]
<1> DEFINE d == dev[req.e]
           e == req.e
<1>1. e \in Ends /\ rt[e] # "none"
  BY ReqFields DEF Handling, RtInv, ReqOK
<1>2. d \in Links /\ link[d] \in LinkStates /\ Named(link[d])
  BY <1>1, DevOfEnd DEF Types, NamesOK
<1>3. m \in MoveInErrors(link[d], e) \cup MoveInCrashes(link[d], e) /\ SetLink(d, m)
  OBVIOUS
<1> HIDE DEF d, e
<1>4. /\ m \in LinkStates /\ Named(m)
      /\ \/ m.at = link[d].at /\ m.name = link[d].name
         \/ m.name = "temp"
         \/ m.at = e[1] /\ m.name = IfName[e[2]]
  BY <1>1, <1>2, <1>3, MoveInFields
<1>5. QED BY <1>2, <1>3, <1>4, SetLinkFields DEF d, e

LEMMA MovedInStep ==
  ASSUME Types, NamesOK, RtInv, Handling("ADD", "move"),
         SetLink(dev[req.e], MovedIn(link[dev[req.e]], req.e))
  PROVE  LET d == dev[req.e]
             e == req.e IN
         /\ d \in Links /\ link' \in [Links -> LinkStates] /\ NamesOK'
         /\ \A c \in Links : c # d => link'[c] = link[c]
         /\ link'[d].at = e[1] /\ link'[d].name = IfName[e[2]]
         /\ link'[d].alias = link[d].name /\ link'[d].up
<1> DEFINE d == dev[req.e]
           e == req.e
<1>1. e \in Ends /\ rt[e] # "none"
  BY ReqFields DEF Handling, RtInv, ReqOK
<1>2. d \in Links /\ link[d] \in LinkStates
  BY <1>1, DevOfEnd DEF Types
<1>3. SetLink(d, MovedIn(link[d], e))
  OBVIOUS
<1> HIDE DEF d, e
<1>4. Named(MovedIn(link[d], e))
  BY <1>1, <1>2, LinkFields DEF Named, LinkStates
<1>5. QED BY <1>1, <1>2, <1>3, <1>4, SetLinkFields, LinkFields DEF d, e

LEMMA MoveOutStep ==
  ASSUME Types, NamesOK, req.op = "DEL", NEW d \in Found(req.e),
         NEW m \in MoveOutErrors(link[d]) \cup MoveOutCrashes(link[d]),
         SetLink(d, m)
  PROVE  /\ d \in Links /\ link' \in [Links -> LinkStates] /\ NamesOK'
         /\ \A c \in Links : c # d => link'[c] = link[c]
         /\ \/ link'[d].at = link[d].at /\ link'[d].name = link[d].name
            \/ link'[d].name = "temp"
            \/ link'[d].at = Host
<1>1. req.e \in Ends
  BY ReqFields
<1>2. /\ d \in Links /\ link[d] \in LinkStates /\ link[d].alias \in Names
      /\ Named(link[d]) /\ Ends # {}
  BY <1>1, FoundFields
<1>3. /\ m \in LinkStates /\ Named(m)
      /\ \/ m.at = link[d].at /\ m.name = link[d].name
         \/ m.name = "temp"
         \/ m.at = Host
  BY <1>2, MoveOutFields
<1>4. QED BY <1>2, <1>3, SetLinkFields

LEMMA MovedOutStep ==
  ASSUME Types, NamesOK, req.op = "DEL", NEW d \in Found(req.e),
         SetLink(d, MovedOut(link[d]))
  PROVE  /\ d \in Links /\ link' \in [Links -> LinkStates] /\ NamesOK'
         /\ \A c \in Links : c # d => link'[c] = link[c]
         /\ link'[d].at = Host /\ link'[d].name = link[d].alias
<1>1. req.e \in Ends
  BY ReqFields
<1>2. /\ d \in Links /\ link[d] \in LinkStates /\ link[d].alias \in Names
      /\ Named(link[d]) /\ Ends # {}
  BY <1>1, FoundFields
<1>3. QED BY <1>2, SetLinkFields, MovedOutFields

\* A pod's links leave with its namespace; the others stay.
LEMMA LostLinks ==
  ASSUME Types, NamesOK, NEW p \in Pods, LoseNetns(p)
  PROVE  /\ link' \in [Links -> LinkStates] /\ NamesOK'
         /\ \A d \in Links : IF link[d].at = p THEN link'[d].at = Host
                                               ELSE link'[d] = link[d]
<1>1. link' = [d \in Links |-> IF link[d].at = p
                               THEN [link[d] EXCEPT !.at = Host, !.up = FALSE]
                               ELSE link[d]]
  BY DEF LoseNetns
<1>2. \A d \in Links : link[d] \in LinkStates
  BY DEF Types
<1> DEFINE out(d) == [link[d] EXCEPT !.at = Host, !.up = FALSE]
<1>3. \A d \in Links : /\ out(d) \in LinkStates /\ out(d).at = Host
                       /\ out(d).name = link[d].name
                       /\ out(d).alias = link[d].alias
  BY <1>2 DEF LinkStates
<1>4. \A d \in Links : link'[d] = IF link[d].at = p THEN out(d) ELSE link[d]
  BY <1>1
<1>5. link' \in [Links -> LinkStates]
  BY <1>1, <1>2, <1>3
<1>6. QED BY <1>3, <1>4, <1>5 DEF NamesOK, Named

LEMMA LinkTypes ==
  ASSUME Types, NamesOK, RtInv, [Next]_vars
  PROVE  link' \in [Links -> LinkStates] /\ NamesOK'
<1>0. ASSUME link' = link PROVE link' \in [Links -> LinkStates] /\ NamesOK'
  BY <1>0 DEF Types, NamesOK, Named
<1>1. CASE MoveLinkIn
  <2>1. CASE SetLink(dev[req.e], MovedIn(link[dev[req.e]], req.e))
    BY <1>1, <2>1, MovedInStep DEF MoveLinkIn
  <2>2. CASE \E m \in MoveInErrors(link[dev[req.e]], req.e) : SetLink(dev[req.e], m)
    BY <1>1, <2>2, MoveInStep DEF MoveLinkIn
  <2>3. QED BY <1>1, <2>1, <2>2 DEF MoveLinkIn
<1>2. CASE MoveLinkOut
  <2>0. req.op = "DEL"
    BY <1>2 DEF MoveLinkOut, Handling
  <2>1. CASE \E d \in Found(req.e) : SetLink(d, MovedOut(link[d]))
    BY <2>0, <2>1, MovedOutStep
  <2>2. CASE \E d \in Found(req.e) : \E m \in MoveOutErrors(link[d]) : SetLink(d, m)
    BY <2>0, <2>2, MoveOutStep
  <2>3. QED BY <1>0, <1>2, <2>1, <2>2 DEF MoveLinkOut
<1>3. CASE Crash
  <2>1. CASE /\ Handling("ADD", "move")
             /\ \E m \in MoveInCrashes(link[dev[req.e]], req.e) :
                   SetLink(dev[req.e], m)
    BY <2>1, MoveInStep
  <2>2. CASE /\ Handling("DEL", "move")
             /\ \E d \in Found(req.e) : \E m \in MoveOutCrashes(link[d]) :
                   SetLink(d, m)
    BY <2>2, MoveOutStep DEF Handling
  <2>3. QED BY <1>0, <1>3, <2>1, <2>2 DEF Crash
<1>4. ASSUME NEW p \in Pods, LoseNetns(p)
      PROVE  link' \in [Links -> LinkStates] /\ NamesOK'
  BY <1>4, LostLinks
<1>5. ASSUME NEW p \in Pods, NEW d1 \in Links, NEW d2 \in Links,
             CreatePod(p, d1, d2)
      PROVE  link' = link
  BY <1>5 DEF CreatePod
<1>6. ASSUME NEW p \in Pods, StopPod(p) PROVE link' = link
  BY <1>6 DEF StopPod
<1>7. ASSUME NEW e \in Ends, GiveUp(e) \/ Acquire(e) PROVE link' = link
  BY <1>7 DEF GiveUp, Acquire
<1>8. CASE FindLink \/ IpamAdd \/ StoreMac \/ DelBegin \/ IpamDel \/ DropMac \/ Reply
  BY <1>0, <1>8 DEF FindLink, IpamAdd, StoreMac, DelBegin, IpamDel, DropMac, Reply
<1>9. CASE UNCHANGED vars
  BY <1>0, <1>9 DEF vars
<1>10. QED
  BY <1>0, <1>1, <1>2, <1>3, <1>4, <1>5, <1>6, <1>7, <1>8, <1>9 DEF Next, Handle

LEMMA MacTypes ==
  ASSUME Types, RtInv, [Next]_vars
  PROVE  /\ macStore' \in [Pods -> Seq(Links)]
         /\ nfs' \subseteq Links \X Links
<1>0. ASSUME UNCHANGED <<macStore, nfs>>
      PROVE  macStore' \in [Pods -> Seq(Links)] /\ nfs' \subseteq Links \X Links
  BY <1>0 DEF Types
<1>1. CASE StoreMac
  <2> DEFINE p == req.e[1]
             macs == Append(macStore[p], dev[req.e])
  <2>1. /\ macStore' = [macStore EXCEPT ![p] = macs]
        /\ nfs' \in {nfs, nfs \cup {macs}} /\ (nfs' # nfs => Len(macs) = 2)
    BY <1>1 DEF StoreMac
  <2>2. req.e \in Ends /\ p \in Pods /\ rt[req.e] # "none"
    BY <1>1, ReqFields, EndFields DEF StoreMac, Handling, RtInv, ReqOK
  <2>3. dev[req.e] \in Links /\ macStore[p] \in Seq(Links)
    BY <2>2, DevOfEnd DEF Types
  <2>4. macs \in Seq(Links)
    BY <2>3
  <2> HIDE DEF p, macs
  <2>5. Len(macs) = 2 => macs \in Links \X Links
    <3>1. SUFFICES ASSUME Len(macs) = 2 PROVE macs \in Links \X Links
      OBVIOUS
    <3>2. macs \in [1..2 -> Links]
      BY <2>4, <3>1, LenProperties
    <3>3. macs = <<macs[1], macs[2]>> /\ macs[1] \in Links /\ macs[2] \in Links
      BY <2>4, <3>1, <3>2
    <3>4. QED BY <3>3
  <2>6. QED BY <2>1, <2>2, <2>4, <2>5 DEF Types
<1>2. CASE DropMac
  <2> DEFINE p == req.e[1]
             macs == macStore[p]
  <2>1. /\ nfs' \subseteq nfs
        /\ \/ macStore' = macStore
           \/ /\ macs # <<>>
              /\ macStore' = [macStore EXCEPT ![p] = SubSeq(macs, 1, Len(macs) - 1)]
    BY <1>2 DEF DropMac
  <2>2. req.e \in Ends /\ p \in Pods
    BY <1>2, ReqFields, EndFields DEF DropMac, Handling
  <2>3. macs \in Seq(Links) /\ Len(macs) \in Nat
    BY <2>2 DEF Types
  <2> HIDE DEF p, macs
  <2>4. SubSeq(macs, 1, Len(macs) - 1) \in Seq(Links)
    <3>1. \A i \in 1..(Len(macs) - 1) : macs[i] \in Links
      BY <2>3, ElementOfSeq
    <3>2. QED BY <2>3, <3>1, SubSeqProperties
  <2>5. QED BY <2>1, <2>2, <2>4 DEF Types
<1>3. CASE Crash
  BY <1>3 DEF Crash, Types
<1>4. CASE FindLink \/ MoveLinkIn \/ IpamAdd \/ DelBegin \/ IpamDel \/ MoveLinkOut
           \/ Reply
  BY <1>0, <1>4
  DEF FindLink, MoveLinkIn, IpamAdd, DelBegin, IpamDel, MoveLinkOut, Reply
<1>5. ASSUME NEW p \in Pods, NEW d1 \in Links, NEW d2 \in Links,
             CreatePod(p, d1, d2)
      PROVE  UNCHANGED <<macStore, nfs>>
  BY <1>5 DEF CreatePod
<1>6. ASSUME NEW p \in Pods, StopPod(p) \/ LoseNetns(p)
      PROVE UNCHANGED <<macStore, nfs>>
  BY <1>6 DEF StopPod, LoseNetns
<1>7. ASSUME NEW e \in Ends, GiveUp(e) \/ Acquire(e)
      PROVE UNCHANGED <<macStore, nfs>>
  BY <1>7 DEF GiveUp, Acquire
<1>8. CASE UNCHANGED vars
  BY <1>0, <1>8 DEF vars
<1>9. QED
  BY <1>0, <1>1, <1>2, <1>3, <1>4, <1>5, <1>6, <1>7, <1>8 DEF Next, Handle

LEMMA TypesStep ==
  ASSUME Types, NamesOK, RtInv, [Next]_vars
  PROVE  Types' /\ NamesOK'
<1> DEFINE Rest ==
      /\ rt \in [Ends -> {"none", "add", "up", "failed", "del", "gone"}]
      /\ dev \in [Ends -> Links \cup {None}]
      /\ netns \subseteq Pods
      /\ req \in Reqs \cup {NoReq}
      /\ ips \subseteq Ends
      /\ tainted \subseteq Pods /\ panicked \subseteq Pods
      /\ faults \in 0..MaxFaults /\ crashes \in 0..MaxCrashes
<1> DEFINE FaultOK == faults' = faults \/ (faults < MaxFaults /\ faults' = faults + 1)
<1>0. ASSUME FaultOK PROVE faults' \in 0..MaxFaults
  BY <1>0, ConstantsAssumption DEF Types
<1>1. ASSUME NEW p \in Pods, NEW d1 \in Links, NEW d2 \in Links,
             CreatePod(p, d1, d2)
      PROVE  Rest'
  BY <1>1 DEF CreatePod, Types
<1>2. ASSUME NEW p \in Pods, StopPod(p) PROVE Rest'
  <2>1. rt' \in [Ends -> {"none", "add", "up", "failed", "del", "gone"}]
    BY <1>2 DEF StopPod, Types
  <2>2. QED BY <1>2, <2>1 DEF StopPod, Types
<1>3. ASSUME NEW p \in Pods, LoseNetns(p) PROVE Rest'
  BY <1>3 DEF LoseNetns, Types
<1>4. ASSUME NEW e \in Ends, GiveUp(e) PROVE Rest'
  <2>1. faults' \in 0..MaxFaults
    BY <1>0, <1>4 DEF GiveUp
  <2>2. QED BY <1>4, <2>1 DEF GiveUp, Types
<1>5. ASSUME NEW e \in Ends, Acquire(e) PROVE Rest'
  <2>1. req' \in Reqs
    BY <1>5 DEF Acquire, Reqs
  <2>2. QED BY <1>5, <2>1 DEF Acquire, Types, rtVars
<1>6. ASSUME Work PROVE Rest'
  <2>1. FaultOK
    BY <1>6 DEF Work, FindLink, MoveLinkIn, IpamAdd, StoreMac, DelBegin, IpamDel,
                MoveLinkOut, DropMac, Fault
  <2>2. req \in Reqs /\ req.e \in Ends
    BY <1>6, WorkGoesOn DEF RtInv
  <2>3. ips' \subseteq ips \cup {req.e}
    BY <1>6 DEF Work, FindLink, MoveLinkIn, IpamAdd, StoreMac, DelBegin, IpamDel,
                MoveLinkOut, DropMac
  <2>4. panicked' \subseteq panicked \cup {req.e[1]}
    BY <1>6 DEF Work, FindLink, MoveLinkIn, IpamAdd, StoreMac, DelBegin, IpamDel,
                MoveLinkOut, DropMac
  <2>5. /\ UNCHANGED <<rt, dev, netns, tainted, crashes>>
        /\ req' \in Reqs /\ req.e[1] \in Pods
    BY <1>6, <2>2, WorkGoesOn, EndFields DEF RtInv
  <2>6. ips' \subseteq Ends /\ panicked' \subseteq Pods
    BY <2>2, <2>3, <2>4, <2>5 DEF Types
  <2>7. faults' \in 0..MaxFaults
    BY <1>0, <2>1
  <2>8. QED BY <2>5, <2>6, <2>7 DEF Types
<1>7. ASSUME Reply PROVE Rest'
  <2>1. req.op # "none"
    BY <1>7, ReqFields DEF Reply, NoReq
  <2>2. PICK ok \in BOOLEAN : rt' = Answered(req.e, ok)
    BY <1>7, ReqFields DEF Reply
  <2>3. rt' \in [Ends -> {"none", "add", "up", "failed", "del", "gone"}]
    BY <2>1, <2>2, AnsweredRt
  <2>4. FaultOK
    BY <1>7 DEF Reply, Fault
  <2>5. tainted' \subseteq Pods
    BY <1>7, <2>1, ReqFields, EndFields DEF Reply, Types
  <2>6. UNCHANGED <<dev, netns, ips, panicked, crashes>> /\ req' = NoReq
    BY <1>7 DEF Reply
  <2>7. faults' \in 0..MaxFaults
    BY <1>0, <2>4
  <2>8. QED BY <2>3, <2>5, <2>6, <2>7 DEF Types
<1>8. ASSUME Crash PROVE Rest'
  <2>1. rt' \in [Ends -> {"none", "add", "up", "failed", "del", "gone"}]
    <3>1. CASE req = NoReq
      BY <1>8, <3>1 DEF Crash, Types
    <3>2. CASE req # NoReq
      BY <1>8, <3>2, AnsweredRt, ReqFields DEF Crash
    <3>3. QED BY <3>1, <3>2
  <2>2. crashes' \in 0..MaxCrashes
    BY <1>8, ConstantsAssumption DEF Crash, Types
  <2>3. tainted' \subseteq Pods /\ req' = NoReq
    BY <1>8 DEF Crash, Types
  <2>4. UNCHANGED <<dev, netns, ips, panicked, faults>>
    BY <1>8 DEF Crash
  <2>5. QED BY <2>1, <2>2, <2>3, <2>4 DEF Types
<1>9. ASSUME UNCHANGED vars PROVE Rest'
  BY <1>9 DEF vars, rtVars, Types
<1> HIDE DEF Rest
<1>10. Rest'
  BY <1>1, <1>2, <1>3, <1>4, <1>5, <1>6, <1>7, <1>8, <1>9 DEF Next, Handle, Work
<1>11. QED BY <1>10, LinkTypes, MacTypes DEF Types, Rest

-----------------------------------------------------------------------------
(* Where the links are                                                     *)

Base == Types /\ NamesOK /\ RtInv

LEMMA NamesDiffer ==
  /\ IfName[1] = "net1" /\ IfName[2] = "net2"
  /\ \A i, j \in Ifs : IfName[i] = IfName[j] => i = j
  /\ \A i \in Ifs : IfName[i] # "temp"
  BY DEF IfName, Ifs

\* A link is found by one interface at most, and by none on the host.
LEMMA FoundOnce ==
  ASSUME NEW e \in Ends, NEW f \in Ends, NEW d \in Found(e)
  PROVE  /\ d \in Found(f) => e = f
         /\ d \in Links /\ link[d].at = e[1] /\ link[d].name = IfName[e[2]]
         /\ link[d].at # Host
<1>1. d \in Links /\ link[d].at = e[1] /\ link[d].name = IfName[e[2]]
  BY DEF Found
<1>2. d \in Found(f) => e[1] = f[1] /\ e[2] = f[2]
  BY <1>1, NamesDiffer, EndFields DEF Found
<1>3. e = <<e[1], e[2]>> /\ f = <<f[1], f[2]>> /\ e[1] \in Pods
  BY EndFields
<1>4. QED BY <1>1, <1>2, <1>3, ConstantsAssumption

FoundSame == \A f \in Ends : Found(f)' = Found(f)

LEMMA SameLinks ==
  ASSUME link' = link
  PROVE  FoundSame
  BY DEF FoundSame, Found

\* An attempt to move a link in can only make it found by its interface.
LEMMA FoundMovingIn ==
  ASSUME Base, LinkOK, Handling("ADD", "move"), NEW e \in Ends, req.e = e,
         \/ SetLink(dev[req.e], MovedIn(link[dev[req.e]], req.e))
         \/ \E m \in MoveInErrors(link[dev[req.e]], req.e)
                       \cup MoveInCrashes(link[dev[req.e]], req.e) :
               SetLink(dev[req.e], m)
  PROVE  LET d == dev[e] IN
         /\ \A f \in Ends : f # e => Found(f)' = Found(f)
         /\ Found(e) = {} /\ Found(e)' \subseteq {d}
         /\ d \in Links /\ \A c \in Links : c # d => link'[c] = link[c]
<1> DEFINE d == dev[e]
<1>1. /\ d \in Links /\ \A c \in Links : c # d => link'[c] = link[c]
      /\ \/ link'[d].at = link[d].at /\ link'[d].name = link[d].name
         \/ link'[d].name = "temp"
         \/ link'[d].at = e[1] /\ link'[d].name = IfName[e[2]]
  BY MoveInStep, MovedInStep DEF Base
<1>3. link[d].at = Host
  BY DEF LinkOK, MoveReady
<1> HIDE DEF d
<1>4. \A f \in Ends : d \notin Found(f)
  BY <1>3, FoundOnce
<1>5. \A f \in Ends : f # e => d \notin Found(f)'
  <2> TAKE f \in Ends
  <2> HAVE f # e
  <2>1. f = <<f[1], f[2]>> /\ e = <<e[1], e[2]>> /\ f[2] \in Ifs /\ e[2] \in Ifs
    BY EndFields
  <2>2. f[1] # e[1] \/ IfName[f[2]] # IfName[e[2]]
    BY <2>1, NamesDiffer
  <2>3. f[1] # Host
    BY EndFields, ConstantsAssumption
  <2>4. QED BY <1>1, <1>3, <2>1, <2>2, <2>3, NamesDiffer DEF Found
<1>6. \A f \in Ends, c \in Links : c # d => (c \in Found(f)' <=> c \in Found(f))
  BY <1>1 DEF Found
<1>7. \A f \in Ends : Found(f) \subseteq Links /\ Found(f)' \subseteq Links
  BY DEF Found
<1>8. \A f \in Ends : f # e => Found(f)' = Found(f)
  BY <1>4, <1>5, <1>6, <1>7
<1>9. Found(e) = {}
  BY <1>4, <1>7 DEF LinkOK, Owned, d
<1>10. Found(e)' \subseteq {d}
  BY <1>6, <1>7, <1>9
<1>11. QED BY <1>1, <1>8, <1>9, <1>10 DEF d

\* An attempt to move a link out can only make it lost to its interface.
LEMMA FoundMovingOut ==
  ASSUME Base, LinkOK, req.op = "DEL", NEW e \in Ends, req.e = e,
         NEW d \in Found(e),
         \/ SetLink(d, MovedOut(link[d]))
         \/ \E m \in MoveOutErrors(link[d]) \cup MoveOutCrashes(link[d]) :
               SetLink(d, m)
  PROVE  /\ \A f \in Ends : f # e => Found(f)' = Found(f)
         /\ Found(e)' \subseteq Found(e)
         /\ SetLink(d, MovedOut(link[d])) => Found(e)' = {}
         /\ d \in Links /\ \A c \in Links : c # d => link'[c] = link[c]
<1>1. e \in Ends
  OBVIOUS
<1>2. /\ d \in Links /\ \A c \in Links : c # d => link'[c] = link[c]
      /\ \/ link'[d].at = link[d].at /\ link'[d].name = link[d].name
         \/ link'[d].name = "temp"
         \/ link'[d].at = Host
      /\ SetLink(d, MovedOut(link[d])) => link'[d].at = Host
  BY MoveOutStep, MovedOutStep DEF Base
<1>3. d \in Found(e) /\ (SetLink(d, MovedOut(link[d])) => link'[d].at = Host)
  BY <1>2
<1>4. \A f \in Ends : f # e => d \notin Found(f)
  BY <1>1, <1>3, FoundOnce
<1>5. \A f \in Ends : Host # f[1] /\ IfName[f[2]] # "temp"
  BY EndFields, NamesDiffer, ConstantsAssumption
<1>6. \A f \in Ends : f # e => d \notin Found(f)'
  BY <1>2, <1>4, <1>5 DEF Found
<1>7. \A f \in Ends, c \in Links : c # d => (c \in Found(f)' <=> c \in Found(f))
  BY <1>2 DEF Found
<1>8. \A f \in Ends : Found(f) \subseteq Links /\ Found(f)' \subseteq Links
  BY DEF Found
<1>9. \A f \in Ends : f # e => Found(f)' = Found(f)
  BY <1>4, <1>6, <1>7, <1>8
<1>10. Found(e)' \subseteq Found(e)
  BY <1>1, <1>3, <1>7, <1>8
<1>11. SetLink(d, MovedOut(link[d])) => Found(e)' = {}
  <2> HAVE SetLink(d, MovedOut(link[d]))
  <2>1. d \notin Found(e)'
    BY <1>1, <1>3, <1>5 DEF Found
  <2>2. \A c \in Found(e)' : c = d
    BY <1>1, <1>3, <1>7, <1>8 DEF LinkOK, Owned
  <2>3. QED BY <2>1, <2>2
<1>12. QED BY <1>2, <1>9, <1>10, <1>11

\* With a namespace its links are lost to the interfaces of the pod.
LEMMA FoundLost ==
  ASSUME Base, NEW p \in Pods, LoseNetns(p)
  PROVE  \A f \in Ends : Found(f)' = IF f[1] = p THEN {} ELSE Found(f)
<1>1. \A d \in Links : IF link[d].at = p THEN link'[d].at = Host
                                         ELSE link'[d] = link[d]
  BY LostLinks DEF Base
<1>2. \A f \in Ends : f[1] # Host
  BY EndFields, ConstantsAssumption
<1>3. \A f \in Ends : f[1] = p => Found(f)' = {}
  BY <1>1, <1>2 DEF Found
<1>4. \A f \in Ends, d \in Links : f[1] # p => (d \in Found(f)' <=> d \in Found(f))
  BY <1>1, <1>2 DEF Found
<1>5. \A f \in Ends : Found(f) \subseteq Links /\ Found(f)' \subseteq Links
  BY DEF Found
<1>6. QED BY <1>3, <1>4, <1>5

\* The interfaces that are up do not notice.
Undisturbed(d) == \A f \in Ends : rt[f] = "up" => dev[f] # d

LEMMA UpStaysAttached ==
  ASSUME LinkOK, NEW d, Undisturbed(d), dev' = dev,
         \A f \in Ends : rt[f] = "up" => dev[f] \in Links,
         \A c \in Links : c # d => link'[c] = link[c],
         \A f \in Ends : rt'[f] = "up" => rt[f] = "up"
  PROVE  \A f \in Ends : rt'[f] = "up" => Attached(f)'
<1> SUFFICES ASSUME NEW f \in Ends, rt'[f] = "up" PROVE Attached(f)'
  OBVIOUS
<1>1. rt[f] = "up" /\ Attached(f)
  BY DEF LinkOK, UpAttached
<1>2. dev'[f] = dev[f] /\ link'[dev[f]] = link[dev[f]]
  BY <1>1 DEF Undisturbed
<1>3. QED BY <1>1, <1>2 DEF Attached

LEMMA UpHasLink ==
  ASSUME Base, NEW f \in Ends, rt[f] = "up"
  PROVE  dev[f] \in Links
  BY DevOfEnd DEF Base

LEMMA FoundIsNotUp ==
  ASSUME Base, LinkOK, req.op = "DEL", NEW d \in Found(req.e)
  PROVE  Undisturbed(d)
<1> SUFFICES ASSUME NEW f \in Ends, rt[f] = "up", dev[f] = d PROVE FALSE
  BY DEF Undisturbed
<1>1. req.e \in Ends /\ rt[req.e] = "del"
  BY ReqFields DEF Base, RtInv, ReqOK
<1>2. Attached(f)
  BY DEF LinkOK, UpAttached
<1>3. d \in Found(f)
  BY <1>1, <1>2, FoundOnce DEF Attached, Found
<1>4. QED BY <1>1, <1>3, FoundOnce

LEMMA NothingPending ==
  ASSUME req' = NoReq \/ req'.op = "DEL" \/ (req'.step = "reply" /\ ~req'.ok)
  PROVE  MoveReady' /\ AddAttached'
  BY DEF MoveReady, AddAttached, Handling, Succeeded, NoReq

\* A request about the links that moves none of them.
LEMMA QuietLinks ==
  ASSUME Base, LinkOK, link' = link, dev' = dev,
         \A f \in Ends : rt'[f] = "up" => rt[f] = "up"
  PROVE  Owned' /\ UpAttached'
  BY DEF LinkOK, Owned, UpAttached, Found, Attached

LEMMA LinkStep ==
  ASSUME Base, LinkOK, [Next]_vars
  PROVE  LinkOK'
<1> USE DEF LinkOK
<1>0. /\ Types /\ NamesOK /\ RtInv /\ ReqOK
      /\ Owned /\ UpAttached /\ MoveReady /\ AddAttached
  BY DEF Base, RtInv
<1>1. ASSUME NEW p \in Pods, NEW d1 \in Links, NEW d2 \in Links,
             CreatePod(p, d1, d2)
      PROVE  LinkOK'
  <2>1. /\ \A e \in Ends : rt[e] # "none" => dev'[e] = dev[e]
        /\ \A e \in Ends : dev'[e] # dev[e] => dev[e] = None
        /\ \A e \in Ends : rt'[e] = "up" => rt[e] = "up"
        /\ req' = req /\ link' = link
    BY <1>1, EndFields DEF CreatePod, Base, Types, Ifs
  <2>2. Owned'
    <3> SUFFICES ASSUME NEW e \in Ends, NEW d \in Found(e)' PROVE d = dev'[e]
      BY DEF Owned
    <3>1. d \in Links /\ d \in Found(e)
      BY <2>1 DEF Found
    <3>2. d = dev[e] /\ dev[e] # None
      BY <1>0, <3>1, ConstantsAssumption DEF Owned
    <3>3. QED BY <2>1, <3>2
  <2>3. UpAttached'
    BY <1>0, <2>1 DEF UpAttached, Attached
  <2>4. req.op = "ADD" => dev'[req.e] = dev[req.e]
    BY <1>0, <2>1, ReqFields DEF ReqOK
  <2>5. MoveReady'
    BY <1>0, <2>1, <2>4 DEF MoveReady, Handling
  <2>6. AddAttached'
    BY <1>0, <2>1, <2>4 DEF AddAttached, Attached, Succeeded
  <2>7. QED BY <2>2, <2>3, <2>5, <2>6
<1>2. ASSUME \/ \E p \in Pods : StopPod(p)
             \/ \E e \in Ends : GiveUp(e)
             \/ UNCHANGED vars
      PROVE  LinkOK'
  <2>1. /\ link' = link /\ dev' = dev /\ req' = req
        /\ \A f \in Ends : rt'[f] = "up" => rt[f] = "up"
    BY <1>2 DEF StopPod, GiveUp, vars, rtVars, Base, Types
  <2>2. Owned' /\ UpAttached'
    BY <2>1, QuietLinks
  <2>3. MoveReady' /\ AddAttached'
    BY <1>0, <2>1 DEF MoveReady, AddAttached, Handling, Attached, Succeeded
  <2>4. QED BY <2>2, <2>3
<1>3. ASSUME NEW p \in Pods, LoseNetns(p) PROVE LinkOK'
  <2>1. \A f \in Ends : Found(f)' = IF f[1] = p THEN {} ELSE Found(f)
    BY <1>3, FoundLost
  <2>2. \A d \in Links : IF link[d].at = p THEN link'[d].at = Host
                                           ELSE link'[d] = link[d]
    BY <1>0, <1>3, LostLinks
  <2>3. rt' = rt /\ dev' = dev /\ req = NoReq /\ req' = NoReq
    BY <1>3 DEF LoseNetns
  <2>4. Owned'
    BY <1>0, <2>1, <2>3 DEF Owned
  <2>5. \A f \in Ends : rt[f] = "up" => f[1] # p
    <3>1. rt[<<p, 1>>] # "up" /\ rt[<<p, 2>>] # "up"
      BY <1>0, <1>3 DEF LoseNetns, RtInv, PhaseOK, Ifs
    <3>2. QED BY <3>1, EndFields DEF Ifs
  <2>6. UpAttached'
    <3> SUFFICES ASSUME NEW f \in Ends, rt[f] = "up" PROVE Attached(f)'
      BY <2>3 DEF UpAttached
    <3>1. Attached(f) /\ dev[f] \in Links /\ f[1] # p
      BY <1>0, <2>5, UpHasLink DEF UpAttached
    <3>2. link'[dev[f]] = link[dev[f]]
      BY <2>2, <3>1 DEF Attached
    <3>3. QED BY <2>3, <3>1, <3>2 DEF Attached
  <2>7. QED BY <2>3, <2>4, <2>6, NothingPending
<1>4. ASSUME NEW e \in Ends, Acquire(e) PROVE LinkOK'
  <2>1. link' = link /\ dev' = dev /\ rt' = rt /\ req'.step = "begin"
    BY <1>4 DEF Acquire, rtVars
  <2>2. Owned' /\ UpAttached'
    BY <2>1, QuietLinks
  <2>3. MoveReady' /\ AddAttached'
    BY <2>1 DEF MoveReady, AddAttached, Handling, Succeeded
  <2>4. QED BY <2>2, <2>3
<1>5. CASE FindLink
  <2>1. link' = link /\ dev' = dev /\ rt' = rt
    BY <1>5 DEF FindLink, rtVars
  <2>2. Owned' /\ UpAttached'
    BY <2>1, QuietLinks
  <2>3. req.op = "ADD"
    BY <1>5 DEF FindLink, Handling
  <2>4. CASE Fail
    BY <1>0, <2>2, <2>3, <2>4, FailFields, NothingPending
  <2>5. CASE /\ link[dev[req.e]].at = Host
             /\ dev[req.e] \in PciLinks \/ link[dev[req.e]].name = "orig"
             /\ Goto("move")
    <3>1. req'.step = "move" /\ req'.e = req.e
      BY <1>0, <2>3, <2>5, GotoFields DEF Steps
    <3>2. MoveReady' /\ AddAttached'
      BY <2>1, <2>5, <3>1 DEF MoveReady, AddAttached, Succeeded
    <3>3. QED BY <2>2, <3>2
  <2>6. QED BY <1>5, <2>4, <2>5 DEF FindLink
<1>6. CASE MoveLinkIn
  <2>0. PICK e \in Ends : req.e = e
    BY <1>0, <1>6, ReqFields DEF MoveLinkIn, Handling
  <2> DEFINE d == dev[e]
  <2>1. Handling("ADD", "move") /\ req.op = "ADD" /\ dev' = dev /\ rt' = rt
    BY <1>6 DEF MoveLinkIn, rtVars, Handling
  <2>2. /\ \A f \in Ends : f # e => Found(f)' = Found(f)
        /\ Found(e)' \subseteq {d}
        /\ d \in Links /\ \A c \in Links : c # d => link'[c] = link[c]
    BY <1>6, <2>0, <2>1, FoundMovingIn DEF MoveLinkIn
  <2>3. Owned'
    BY <1>0, <2>1, <2>2 DEF Owned
  <2>4. Undisturbed(d)
    BY <1>0, <2>0, <2>1 DEF ReqOK, Undisturbed
  <2>5. UpAttached'
    BY <2>1, <2>2, <2>4, UpStaysAttached, UpHasLink DEF UpAttached
  <2>6. CASE Fail
    BY <1>0, <2>1, <2>3, <2>5, <2>6, FailFields, NothingPending
  <2>7. CASE SetLink(d, MovedIn(link[d], e)) /\ Goto(AfterMove(e))
    <3>1. /\ link'[d].at = e[1] /\ link'[d].name = IfName[e[2]]
          /\ link'[d].alias = link[d].name /\ link'[d].up
      BY <1>0, <2>0, <2>1, <2>7, MovedInStep
    <3>2. d \in PciLinks \/ link[d].name = "orig"
      BY <1>0, <2>0, <2>1 DEF MoveReady
    <3>3. req'.step # "move" /\ req'.e = e
      BY <1>0, <2>0, <2>1, <2>7, GotoFields DEF AfterMove, Steps
    <3>4. MoveReady' /\ AddAttached'
      BY <2>1, <3>1, <3>2, <3>3 DEF MoveReady, AddAttached, Attached, Handling
    <3>5. QED BY <2>3, <2>5, <3>4
  <2>8. QED BY <1>6, <2>0, <2>6, <2>7 DEF MoveLinkIn
<1>7. CASE IpamAdd \/ StoreMac
  <2>1. link' = link /\ dev' = dev /\ rt' = rt /\ req.op = "ADD"
    BY <1>7 DEF IpamAdd, StoreMac, rtVars, Handling
  <2>2. Owned' /\ UpAttached'
    BY <2>1, QuietLinks
  <2>3. Attached(req.e)
    BY <1>0, <1>7 DEF IpamAdd, StoreMac, Handling, AddAttached
  <2>4. req'.e = req.e /\ req'.step # "move"
    BY <1>0, <1>7, <2>1, GotoFields, FailFields DEF IpamAdd, StoreMac, Steps
  <2>5. MoveReady' /\ AddAttached'
    BY <2>1, <2>3, <2>4 DEF MoveReady, AddAttached, Attached, Handling
  <2>6. QED BY <2>2, <2>5
<1>8. CASE DelBegin \/ IpamDel \/ DropMac
  <2>1. link' = link /\ dev' = dev /\ rt' = rt /\ req.op = "DEL"
    BY <1>8 DEF DelBegin, IpamDel, DropMac, rtVars, Handling
  <2>2. Owned' /\ UpAttached'
    BY <2>1, QuietLinks
  <2>3. req'.op = "DEL"
    BY <1>0, <1>8, <2>1, WorkGoesOn DEF Work
  <2>4. QED BY <2>2, <2>3, NothingPending
<1>9. CASE MoveLinkOut
  <2>1. dev' = dev /\ rt' = rt /\ req.op = "DEL"
    BY <1>9 DEF MoveLinkOut, rtVars, Handling
  <2>2. req'.op = "DEL"
    BY <1>0, <1>9, <2>1, WorkGoesOn DEF Work
  <2>3. CASE link' = link
    BY <2>1, <2>2, <2>3, QuietLinks, NothingPending
  <2>4. CASE link' # link
    <3>1. PICK e \in Ends : req.e = e
      BY <1>0, <2>1, ReqFields
    <3>2. PICK d \in Found(e) :
            \/ SetLink(d, MovedOut(link[d]))
            \/ \E m \in MoveOutErrors(link[d]) : SetLink(d, m)
      BY <1>9, <2>4, <3>1 DEF MoveLinkOut
    <3>3. /\ \A f \in Ends : f # e => Found(f)' = Found(f)
          /\ Found(e)' \subseteq Found(e)
          /\ d \in Links /\ \A c \in Links : c # d => link'[c] = link[c]
      BY <2>1, <3>1, <3>2, FoundMovingOut
    <3>4. Owned'
      BY <1>0, <2>1, <3>3 DEF Owned
    <3>5. Undisturbed(d)
      BY <2>1, <3>1, FoundIsNotUp
    <3>6. UpAttached'
      BY <2>1, <3>3, <3>5, UpStaysAttached, UpHasLink DEF UpAttached
    <3>7. QED BY <2>2, <3>4, <3>6, NothingPending
  <2>5. QED BY <2>3, <2>4
<1>10. CASE Reply
  <2>1. link' = link /\ dev' = dev /\ req' = NoReq /\ req.op # "none"
    BY <1>0, <1>10, ReqFields DEF Reply, NoReq
  <2>2. PICK ok \in BOOLEAN : rt' = Answered(req.e, ok) /\ (ok => req.ok)
    BY <1>0, <1>10, ReqFields DEF Reply
  <2>3. Owned'
    BY <1>0, <2>1 DEF Owned, Found
  <2>4. UpAttached'
    <3> SUFFICES ASSUME NEW f \in Ends, rt'[f] = "up" PROVE Attached(f)
      BY <2>1 DEF UpAttached, Attached
    <3>1. CASE rt[f] = "up"
      BY <1>0, <3>1 DEF UpAttached
    <3>2. CASE rt[f] # "up"
      <4>1. f = req.e /\ req.op = "ADD" /\ ok
        <5>1. CASE req.op = "ADD" /\ rt[req.e] = "add" /\ ok
          <6>1. f = req.e \/ f = <<req.e[1], 2>>
            BY <1>0, <2>1, <2>2, <3>2, <5>1, AnsweredRt
          <6>2. req.e = <<req.e[1], req.e[2]>> /\ req.e[2] \in {1, 2}
            BY <1>0, <2>1, ReqFields, EndFields DEF Ifs
          <6>3. req.e[2] = 1 => rt'[<<req.e[1], 2>>] = "add"
            BY <1>0, <2>1, <2>2, <5>1, AnsweredRt
          <6>4. f = req.e
            BY <6>1, <6>2, <6>3
          <6>5. QED BY <5>1, <6>4
        <5>2. CASE req.op = "ADD" /\ rt[req.e] = "add" /\ ~ok
          BY <1>0, <2>1, <2>2, <3>2, <5>2, AnsweredRt
        <5>3. CASE req.op = "DEL" /\ ok
          BY <1>0, <2>1, <2>2, <3>2, <5>3, AnsweredRt
        <5>4. CASE ~(req.op = "ADD" /\ rt[req.e] = "add") /\ ~(req.op = "DEL" /\ ok)
          BY <1>0, <2>1, <2>2, <3>2, <5>4, AnsweredRt
        <5>5. QED BY <5>1, <5>2, <5>3, <5>4
      <4>2. Succeeded
        BY <1>10, <2>2, <4>1 DEF Reply, Succeeded
      <4>3. QED BY <1>0, <4>1, <4>2 DEF AddAttached
    <3>3. QED BY <3>1, <3>2
  <2>5. QED BY <2>1, <2>3, <2>4, NothingPending
<1>11. CASE Crash
  <2>1. dev' = dev /\ req' = NoReq
    BY <1>11 DEF Crash
  <2>2. \A f \in Ends : rt'[f] = "up" => rt[f] = "up"
    <3>1. CASE req = NoReq
      BY <1>11, <3>1 DEF Crash
    <3>2. CASE req # NoReq
      <4>1. rt' = Answered(req.e, FALSE) /\ req.op # "none"
        BY <1>0, <1>11, <3>2, ReqFields DEF Crash
      <4>2. QED BY <1>0, <4>1, AnsweredRt
    <3>3. QED BY <3>1, <3>2
  <2>3. CASE link' = link
    BY <2>1, <2>2, <2>3, QuietLinks, NothingPending
  <2>4. CASE /\ Handling("ADD", "move")
             /\ \E m \in MoveInCrashes(link[dev[req.e]], req.e) :
                   SetLink(dev[req.e], m)
    <3>0. PICK e \in Ends : req.e = e
      BY <1>0, <2>4, ReqFields DEF Handling
    <3> DEFINE d == dev[e]
    <3>1. /\ \A f \in Ends : f # e => Found(f)' = Found(f)
          /\ Found(e)' \subseteq {d}
          /\ d \in Links /\ \A c \in Links : c # d => link'[c] = link[c]
      BY <2>4, <3>0, FoundMovingIn
    <3>2. Owned'
      BY <1>0, <2>1, <3>1 DEF Owned
    <3>3. Undisturbed(d)
      BY <1>0, <2>4, <3>0 DEF ReqOK, Undisturbed, Handling
    <3>4. UpAttached'
      BY <2>1, <2>2, <3>1, <3>3, UpStaysAttached, UpHasLink DEF UpAttached
    <3>5. QED BY <2>1, <3>2, <3>4, NothingPending
  <2>5. CASE /\ Handling("DEL", "move")
             /\ \E d \in Found(req.e) : \E m \in MoveOutCrashes(link[d]) :
                   SetLink(d, m)
    <3>0. PICK e \in Ends : req.e = e /\ req.op = "DEL"
      BY <1>0, <2>5, ReqFields DEF Handling
    <3>1. PICK d \in Found(e) : \E m \in MoveOutCrashes(link[d]) : SetLink(d, m)
      BY <2>5, <3>0
    <3>2. /\ \A f \in Ends : f # e => Found(f)' = Found(f)
          /\ Found(e)' \subseteq Found(e)
          /\ d \in Links /\ \A c \in Links : c # d => link'[c] = link[c]
      BY <3>0, <3>1, FoundMovingOut
    <3>3. Owned'
      BY <1>0, <2>1, <3>2 DEF Owned
    <3>4. Undisturbed(d)
      BY <3>0, FoundIsNotUp
    <3>5. UpAttached'
      BY <2>1, <2>2, <3>2, <3>4, UpStaysAttached, UpHasLink DEF UpAttached
    <3>6. QED BY <2>1, <3>3, <3>5, NothingPending
  <2>6. QED BY <1>11, <2>3, <2>4, <2>5 DEF Crash
<1>12. QED
  BY <1>1, <1>2, <1>3, <1>4, <1>5, <1>6, <1>7, <1>8, <1>9, <1>10, <1>11
  DEF Next, Handle

-----------------------------------------------------------------------------
(* How many MACs a pod has                                                 *)

LEMMA MacLen ==
  ASSUME Types, NEW p \in Pods
  PROVE  macStore[p] \in Seq(Links) /\ Len(macStore[p]) \in Nat
  BY DEF Types

LEMMA AtMostKept ==
  ASSUME Types, Types', AtMost, \A e \in Ends : Handled(e) => Handled(e)',
         \A p \in Pods : Len(macStore'[p]) <= Len(macStore[p])
  PROVE  AtMost'
<1> SUFFICES ASSUME NEW p \in Pods
             PROVE  /\ Len(macStore'[p]) <= 2
                    /\ \A i \in Ifs : ~Handled(<<p, i>>)' => Len(macStore'[p]) <= 1
                    /\ (\A i \in Ifs : ~Handled(<<p, i>>)') => Len(macStore'[p]) = 0
  BY DEF AtMost
<1>1. \A i \in Ifs : ~Handled(<<p, i>>)' => ~Handled(<<p, i>>)
  BY EndFields DEF Ifs
<1>2. Len(macStore'[p]) \in Nat /\ Len(macStore[p]) \in Nat
  BY MacLen DEF Types
<1>3. Len(macStore'[p]) <= Len(macStore[p])
  OBVIOUS
<1>4. /\ Len(macStore[p]) <= 2
      /\ \A i \in Ifs : ~Handled(<<p, i>>) => Len(macStore[p]) <= 1
      /\ (\A i \in Ifs : ~Handled(<<p, i>>)) => Len(macStore[p]) = 0
  BY DEF AtMost
<1>5. (\A i \in Ifs : ~Handled(<<p, i>>)') => Len(macStore'[p]) = 0
  BY <1>1, <1>2, <1>3, <1>4
<1>6. \A i \in Ifs : ~Handled(<<p, i>>)' => Len(macStore'[p]) <= 1
  BY <1>1, <1>2, <1>3, <1>4
<1>7. QED BY <1>2, <1>3, <1>4, <1>5, <1>6

\* What StoreMac and DropMac do to the lists.
LEMMA StoreMacLen ==
  ASSUME Types, RtInv, StoreMac, NEW e \in Ends, req.e = e
  PROVE  /\ macStore'[e[1]] = Append(macStore[e[1]], dev[e])
         /\ dev[e] \in Links
         /\ Len(macStore'[e[1]]) = Len(macStore[e[1]]) + 1
         /\ \A p \in Pods : p # e[1] => macStore'[p] = macStore[p]
         /\ link' = link /\ rt' = rt /\ dev' = dev /\ tainted' = tainted
         /\ netns' = netns /\ panicked' = panicked
         /\ req.op = "ADD" /\ req.step = "handler" /\ req.ok
         /\ req'.op = "ADD" /\ req'.e = e /\ req'.step = "reply" /\ req'.ok
<1>1. /\ req.op = "ADD" /\ req.step = "handler" /\ Goto("reply")
      /\ macStore' = [macStore EXCEPT ![e[1]] = Append(macStore[e[1]], dev[e])]
      /\ link' = link /\ rt' = rt /\ dev' = dev /\ tainted' = tainted
      /\ netns' = netns /\ panicked' = panicked
  BY DEF StoreMac, Handling, rtVars
<1>2. e[1] \in Pods /\ dev[e] \in Links
  BY <1>1, EndFields, DevOfEnd DEF RtInv, ReqOK
<1>3. req.ok
  BY <1>1 DEF RtInv, ReqOK
<1>4. req'.op = "ADD" /\ req'.e = e /\ req'.step = "reply" /\ req'.ok
  BY <1>1, <1>3, GotoFields DEF Steps
<1>5. macStore[e[1]] \in Seq(Links)
  BY <1>2, MacLen
<1>6. /\ macStore'[e[1]] = Append(macStore[e[1]], dev[e])
      /\ \A p \in Pods : p # e[1] => macStore'[p] = macStore[p]
  BY <1>1, <1>2 DEF Types
<1>7. QED BY <1>1, <1>2, <1>3, <1>4, <1>5, <1>6

LEMMA DropMacLen ==
  ASSUME Types, RtInv, DropMac, NEW e \in Ends, req.e = e
  PROVE  LET macs == macStore[e[1]] IN
         /\ \A p \in Pods : p # e[1] => macStore'[p] = macStore[p]
         /\ macs = <<>> => macStore' = macStore /\ panicked' = panicked \cup {e[1]}
                           /\ ~req'.ok
         /\ macs # <<>> => /\ Len(macStore'[e[1]]) = Len(macs) - 1
                           /\ \A k \in 1..Len(macs) - 1 : macStore'[e[1]][k] = macs[k]
                           /\ panicked' = panicked /\ req'.ok
         /\ link' = link /\ rt' = rt /\ dev' = dev /\ tainted' = tainted
         /\ netns' = netns
         /\ req.op = "DEL" /\ req.step = "handler"
         /\ req'.op = "DEL" /\ req'.e = e /\ req'.step = "reply"
<1> DEFINE macs == macStore[e[1]]
<1>1. /\ req.op = "DEL" /\ req.step = "handler" /\ (Goto("reply") \/ Fail)
      /\ macs = <<>> => Fail /\ macStore' = macStore /\ panicked' = panicked \cup {e[1]}
      /\ macs # <<>> => /\ macStore' = [macStore EXCEPT ![e[1]] =
                                          SubSeq(macs, 1, Len(macs) - 1)]
                        /\ Goto("reply") /\ panicked' = panicked
      /\ link' = link /\ rt' = rt /\ dev' = dev /\ tainted' = tainted
      /\ netns' = netns
  BY DEF DropMac, Handling, rtVars
<1>2. e[1] \in Pods /\ req.ok
  BY <1>1, EndFields DEF RtInv, ReqOK
<1>3. /\ req'.op = "DEL" /\ req'.e = e /\ req'.step = "reply"
      /\ macs = <<>> => ~req'.ok
      /\ macs # <<>> => req'.ok
  BY <1>1, <1>2, GotoFields, FailFields DEF Steps
<1>4. macs \in Seq(Links) /\ Len(macs) \in Nat
  BY <1>2, MacLen
<1>5. macs # <<>> => Len(macs) >= 1
  BY <1>4, EmptySeq
<1>6. ASSUME macs # <<>>
      PROVE  /\ Len(SubSeq(macs, 1, Len(macs) - 1)) = Len(macs) - 1
             /\ \A k \in 1..Len(macs) - 1 : SubSeq(macs, 1, Len(macs) - 1)[k] = macs[k]
  <2>1. \A i \in 1..(Len(macs) - 1) : macs[i] \in Links
    BY <1>4, ElementOfSeq
  <2>2. Len(macs) - 1 \in Int
    BY <1>4
  <2> DEFINE n == Len(macs) - 1
  <2>3. n \in Nat
    BY <1>4, <1>5, <1>6
  <2> HIDE DEF macs, n
  <2>4. /\ Len(SubSeq(macs, 1, n)) = IF 1 <= n THEN n - 1 + 1 ELSE 0
        /\ \A i \in 1 .. n - 1 + 1 : SubSeq(macs, 1, n)[i] = macs[1 + i - 1]
    BY <1>4, <2>1, <2>3, SubSeqProperties DEF n
  <2>5. Len(SubSeq(macs, 1, n)) = n
    BY <2>3, <2>4
  <2>6. \A k \in 1..n : k \in 1 .. n - 1 + 1 /\ 1 + k - 1 = k
    BY <2>3
  <2>7. \A k \in 1..n : SubSeq(macs, 1, n)[k] = macs[k]
    BY <2>4, <2>6
  <2>8. QED BY <2>5, <2>7 DEF n
<1>7. macs # <<>> => macStore'[e[1]] = SubSeq(macs, 1, Len(macs) - 1)
  BY <1>1, <1>2 DEF Types
<1>8. \A p \in Pods : p # e[1] => macStore'[p] = macStore[p]
  BY <1>1, <1>2 DEF Types
<1>9. QED BY <1>1, <1>3, <1>6, <1>7, <1>8

\* Only StoreMac makes a list longer, only DropMac and a crash make it shorter.
LEMMA SameMacs ==
  ASSUME \/ \E p \in Pods, d1, d2 \in Links : CreatePod(p, d1, d2)
         \/ \E p \in Pods : StopPod(p) \/ LoseNetns(p)
         \/ \E e \in Ends : GiveUp(e) \/ Acquire(e)
         \/ FindLink \/ MoveLinkIn \/ IpamAdd \/ DelBegin \/ IpamDel
         \/ MoveLinkOut \/ Reply \/ UNCHANGED vars
  PROVE  macStore' = macStore /\ (~DelBegin => panicked' = panicked)
  BY DEF CreatePod, StopPod, LoseNetns, GiveUp, Acquire, FindLink, MoveLinkIn,
         IpamAdd, DelBegin, IpamDel, MoveLinkOut, Reply, vars

LEMMA HandledKept ==
  ASSUME Base, [Next]_vars, ~Crash, NEW f \in Ends, Handled(f)
  PROVE  Handled(f)'
<1>0. Types /\ RtInv /\ ReqOK
  BY DEF Base, RtInv
<1>1. ASSUME NEW p \in Pods, NEW d1 \in Links, NEW d2 \in Links,
             CreatePod(p, d1, d2)
      PROVE  Handled(f)'
  <2>1. rt[<<p, 1>>] = "none"
    BY <1>1 DEF CreatePod, Ifs
  <2>2. rt' = [rt EXCEPT ![<<p, 1>>] = "add"] /\ req' = req
    BY <1>1 DEF CreatePod
  <2>3. f # <<p, 1>>
    BY <2>1 DEF Handled
  <2>4. rt'[f] = rt[f]
    BY <1>0, <2>2, <2>3 DEF Types
  <2>5. QED BY <2>2, <2>4 DEF Handled, Adding, Succeeded
<1>2. ASSUME NEW p \in Pods, StopPod(p) PROVE Handled(f)'
  <2>1. /\ rt[<<p, 1>>] \in {"up", "failed"} /\ rt[<<p, 2>>] # "add" /\ req' = req
        /\ rt' = [e \in Ends |-> IF e[1] # p THEN rt[e]
                                 ELSE IF rt[e] = "none" THEN "gone" ELSE "del"]
    BY <1>2 DEF StopPod
  <2>2. rt[f] = "add" => f[1] # p
    BY <2>1, EndFields DEF Ifs
  <2>3. rt'[f] = rt[f] \/ (rt'[f] \in {"gone", "del"} /\ rt[f] # "add")
    BY <2>1, <2>2
  <2>4. QED BY <2>1, <2>3 DEF Handled, Adding, Succeeded
<1>3. ASSUME NEW e \in Ends, GiveUp(e) PROVE Handled(f)'
  <2>1. /\ rt[e] = "add" /\ req' = req
        /\ rt'[e] = "failed" /\ \A g \in Ends : g # e => rt'[g] = rt[g]
    BY <1>0, <1>3 DEF GiveUp, Types
  <2>2. QED BY <2>1 DEF Handled, Adding, Succeeded
<1>4. ASSUME NEW e \in Ends, Acquire(e) PROVE Handled(f)'
  <2>1. req'.op # "ADD" \/ rt[e] = "add"
    BY <1>4 DEF Acquire, rtVars
  <2>2. rt' = rt /\ req = NoReq /\ req'.e = e
    BY <1>4 DEF Acquire, rtVars
  <2>3. rt[f] \notin {"none", "add"}
    BY <2>2 DEF Handled, Adding, NoReq
  <2>4. QED BY <2>1, <2>2, <2>3 DEF Handled, Adding
<1>5. CASE Work
  <2>1. rt' = rt /\ req'.op = req.op /\ req'.e = req.e /\ req.step # "reply"
    BY <1>0, <1>5, WorkGoesOn
  <2>2. QED BY <2>1 DEF Handled, Adding, Succeeded
<1>6. CASE Reply
  <2>1. req.op # "none" /\ req' = NoReq
    BY <1>0, <1>6, ReqFields DEF Reply, NoReq
  <2>2. PICK ok \in BOOLEAN : rt' = Answered(req.e, ok)
    BY <1>0, <1>6, ReqFields DEF Reply
  <2>3. rt'[f] \notin {"none", "add"}
    <3>0. rt[f] \notin {"none", "add"} \/ (rt[f] = "add" /\ Adding(f))
      BY DEF Handled
    <3>1. CASE req.op = "ADD" /\ rt[req.e] = "add" /\ ok
      <4>1. f # req.e => f # <<req.e[1], 2>>
        <5>1. req.e = <<req.e[1], req.e[2]>> /\ req.e[1] \in Pods /\ req.e[2] \in {1, 2}
          BY <1>0, <2>1, ReqFields, EndFields DEF Ifs
        <5>2. req.e[2] = 1 => rt[<<req.e[1], 2>>] = "none"
          BY <1>0, <3>1, <5>1 DEF RtInv, PhaseOK
        <5>3. rt[f] # "none"
          BY <3>0
        <5>4. QED BY <5>1, <5>2, <5>3
      <4>2. CASE f = req.e
        BY <1>0, <2>1, <2>2, <3>1, <4>2, AnsweredRt
      <4>3. CASE f # req.e
        <5>1. rt'[f] = rt[f]
          BY <1>0, <2>1, <2>2, <3>1, <4>1, <4>3, AnsweredRt
        <5>2. QED BY <3>0, <4>3, <5>1 DEF Adding
      <4>4. QED BY <4>2, <4>3
    <3>2. CASE req.op = "ADD" /\ rt[req.e] = "add" /\ ~ok
      BY <1>0, <2>1, <2>2, <3>0, <3>2, AnsweredRt DEF Adding
    <3>3. CASE req.op = "DEL" /\ ok
      BY <1>0, <2>1, <2>2, <3>0, <3>3, AnsweredRt DEF Adding
    <3>4. CASE ~(req.op = "ADD" /\ rt[req.e] = "add") /\ ~(req.op = "DEL" /\ ok)
      BY <1>0, <2>1, <2>2, <3>0, <3>4, AnsweredRt DEF Adding
    <3>5. QED BY <3>1, <3>2, <3>3, <3>4
  <2>4. QED BY <2>1, <2>3 DEF Handled, Adding, NoReq
<1>7. CASE (\E p \in Pods : LoseNetns(p)) \/ UNCHANGED vars
  BY <1>7 DEF LoseNetns, vars, rtVars, Handled, Adding, Succeeded
<1>8. QED
  BY <1>1, <1>2, <1>3, <1>4, <1>5, <1>6, <1>7 DEF Next, Handle, Work

LEMMA AtMostStep ==
  ASSUME Base, Base', AtMost, [Next]_vars
  PROVE  AtMost'
<1>0. Types /\ Types' /\ RtInv
  BY DEF Base
<1>1. CASE Crash
  <2>1. \A p \in Pods : macStore'[p] = <<>>
    BY <1>1 DEF Crash
  <2>2. QED BY <2>1 DEF AtMost
<1>2. CASE StoreMac
  <2>1. PICK e \in Ends : req.e = e
    BY <1>0, <1>2, ReqFields DEF StoreMac, Handling
  <2>2. /\ Len(macStore'[e[1]]) = Len(macStore[e[1]]) + 1
        /\ \A p \in Pods : p # e[1] => macStore'[p] = macStore[p]
        /\ rt' = rt /\ req.op = "ADD" /\ req.step = "handler"
        /\ req'.op = "ADD" /\ req'.e = e /\ req'.step = "reply" /\ req'.ok
    BY <1>0, <1>2, <2>1, StoreMacLen
  <2>3. ~Handled(e)
    BY <2>1, <2>2 DEF Handled, Adding, Succeeded
  <2>4. Handled(e)'
    BY <1>0, <2>1, <2>2 DEF Handled, Adding, Succeeded, RtInv, ReqOK
  <2>5. \A f \in Ends : f # e => (Handled(f)' <=> Handled(f))
    BY <2>1, <2>2 DEF Handled, Adding
  <2>6. \A p \in Pods : Len(macStore[p]) \in Nat
    BY <1>0, MacLen
  <2>7. PICK p \in Pods, i \in {1, 2} : e = <<p, i>> /\ e[1] = p
    BY EndFields DEF Ifs
  <2>8. \A q \in Pods, j \in Ifs : q # p => <<q, j>> # e /\ <<q, j>> \in Ends
    BY <2>7 DEF Ends
  <2>9. ASSUME NEW q \in Pods, q # p
        PROVE  /\ Len(macStore'[q]) <= 2
               /\ \A j \in Ifs : ~Handled(<<q, j>>)' => Len(macStore'[q]) <= 1
               /\ (\A j \in Ifs : ~Handled(<<q, j>>)') => Len(macStore'[q]) = 0
    <3>1. macStore'[q] = macStore[q]
      BY <2>2, <2>7, <2>9
    <3>2. \A j \in Ifs : Handled(<<q, j>>)' <=> Handled(<<q, j>>)
      BY <2>5, <2>8, <2>9
    <3>3. QED BY <3>1, <3>2 DEF AtMost
  <2>10. /\ Len(macStore'[p]) <= 2
         /\ \A j \in Ifs : ~Handled(<<p, j>>)' => Len(macStore'[p]) <= 1
         /\ (\A j \in Ifs : ~Handled(<<p, j>>)') => Len(macStore'[p]) = 0
    <3>1. i \in Ifs /\ ~Handled(<<p, i>>) /\ Handled(<<p, i>>)'
      BY <2>3, <2>4, <2>7 DEF Ifs
    <3>2. Len(macStore'[p]) = Len(macStore[p]) + 1 /\ Len(macStore[p]) <= 1
      BY <2>2, <2>7, <3>1 DEF AtMost
    <3>3. \A j \in Ifs : ~Handled(<<p, j>>)' => Len(macStore[p]) = 0
      <4> TAKE j \in Ifs
      <4> HAVE ~Handled(<<p, j>>)'
      <4>1. j # i
        BY <3>1
      <4>2. <<p, j>> # e /\ <<p, j>> \in Ends
        BY <2>7, <4>1 DEF Ends
      <4>3. ~Handled(<<p, j>>)
        BY <2>5, <4>2
      <4>4. \A k \in Ifs : k = i \/ k = j
        BY <4>1 DEF Ifs
      <4>5. QED BY <3>1, <4>3, <4>4 DEF AtMost
    <3>4. QED BY <2>6, <3>1, <3>2, <3>3
  <2>11. QED BY <2>9, <2>10 DEF AtMost
<1>3. CASE ~Crash /\ ~StoreMac
  <2>1. \A p \in Pods : Len(macStore'[p]) <= Len(macStore[p])
    <3>1. CASE DropMac
      <4>1. PICK e \in Ends : req.e = e
        BY <1>0, <3>1, ReqFields DEF DropMac, Handling
      <4>2. /\ \A p \in Pods : p # e[1] => macStore'[p] = macStore[p]
            /\ macStore[e[1]] = <<>> => macStore' = macStore
            /\ macStore[e[1]] # <<>> => Len(macStore'[e[1]]) = Len(macStore[e[1]]) - 1
        BY <1>0, <3>1, <4>1, DropMacLen
      <4>3. QED BY <1>0, <4>2, MacLen
    <3>2. CASE ~DropMac
      <4>1. macStore' = macStore
        BY <1>3, <3>2, SameMacs DEF Next, Handle
      <4>2. QED BY <1>0, <4>1, MacLen
    <3>3. QED BY <3>1, <3>2
  <2>2. QED BY <1>0, <1>3, <2>1, HandledKept, AtMostKept
<1>4. QED BY <1>1, <1>2, <1>3

LEMMA AtLeastKept ==
  ASSUME Types, Types', AtLeast, tainted \subseteq tainted',
         \A e \in Ends : e[1] \notin tainted' /\ Has(e)' => Has(e),
         \A p \in Pods \ tainted' : macStore'[p] = macStore[p]
  PROVE  AtLeast'
<1> SUFFICES ASSUME NEW p \in Pods \ tainted'
             PROVE  /\ \A i \in Ifs : Has(<<p, i>>)' => Len(macStore'[p]) >= 1
                    /\ (\A i \in Ifs : Has(<<p, i>>)') => Len(macStore'[p]) >= 2
  BY DEF AtLeast
<1>1. \A i \in Ifs : Has(<<p, i>>)' => Has(<<p, i>>)
  <2> TAKE i \in Ifs
  <2>1. <<p, i>> \in Ends /\ <<p, i>>[1] = p
    BY DEF Ends
  <2>2. QED BY <2>1
<1>2. macStore'[p] = macStore[p] /\ p \in Pods \ tainted
  OBVIOUS
<1>3. /\ \A i \in Ifs : Has(<<p, i>>) => Len(macStore[p]) >= 1
      /\ (\A i \in Ifs : Has(<<p, i>>)) => Len(macStore[p]) >= 2
  BY <1>2 DEF AtLeast
<1>4. QED BY <1>1, <1>2, <1>3

\* A step that is not StoreMac, DropMac or a crash gives no interface of a pod
\* in order a MAC to forget.
LEMMA HasKept ==
  ASSUME Base, LinkOK, MacOK, [Next]_vars, ~Crash, ~StoreMac, ~DropMac,
         NEW f \in Ends, f[1] \notin tainted', Has(f)'
  PROVE  Has(f)
<1>0. Types /\ RtInv /\ ReqOK
  BY DEF Base, RtInv
<1>1. ASSUME link' = link, req' = req PROVE Has(f)
  BY <1>1 DEF Has, Found, Adding, Deleting, Succeeded
<1>2. ASSUME NEW p \in Pods, LoseNetns(p) PROVE Has(f)
  <2>1. Found(f)' \subseteq Found(f)
    BY <1>2, FoundLost
  <2>2. req' = req
    BY <1>2 DEF LoseNetns
  <2>3. QED BY <2>1, <2>2 DEF Has, Adding, Deleting, Succeeded
<1>3. ASSUME NEW e \in Ends, Acquire(e) PROVE Has(f)
  <2>1. link' = link /\ req = NoReq /\ req'.step = "begin"
    BY <1>3 DEF Acquire
  <2>2. Found(f)' = Found(f)
    BY <2>1, SameLinks DEF FoundSame
  <2>3. QED BY <2>1, <2>2 DEF Has, Adding, NoReq
<1>4. CASE Work
  <2>1. /\ req'.op = req.op /\ req'.e = req.e /\ req.step # "reply"
        /\ tainted' = tainted
    BY <1>0, <1>4, WorkGoesOn
  <2>2. ASSUME Found(f)' \subseteq Found(f), Adding(f) => ~Succeeded',
               Deleting(f) => (req'.step = "handler" => Has(f))
        PROVE  Has(f)
    BY <2>1, <2>2 DEF Has, Adding, Deleting, Succeeded
  <2>3. CASE FindLink \/ IpamAdd
    <3>1. link' = link /\ req.op = "ADD"
      BY <2>3 DEF FindLink, IpamAdd, Handling
    <3>2. ~Succeeded'
      BY <1>0, <2>3, <3>1, GotoFields, FailFields
      DEF FindLink, IpamAdd, Succeeded, Steps
    <3>3. QED BY <2>2, <3>1, <3>2, SameLinks DEF FoundSame, Deleting
  <2>4. CASE MoveLinkIn
    <3>1. PICK e \in Ends : req.e = e
      BY <1>0, <2>4, ReqFields DEF MoveLinkIn, Handling
    <3>2. req.op = "ADD" /\ Handling("ADD", "move")
      BY <2>4 DEF MoveLinkIn, Handling
    <3>3. \A g \in Ends : g # e => Found(g)' = Found(g)
      BY <2>4, <3>1, <3>2, FoundMovingIn DEF MoveLinkIn
    <3>4. ~Succeeded'
      BY <1>0, <2>4, <3>2, GotoFields, FailFields
      DEF MoveLinkIn, Succeeded, Steps, AfterMove
    <3>5. f # e
      BY <2>1, <3>1, <3>2, <3>4 DEF Has, Adding, Deleting
    <3>6. QED BY <2>2, <3>2, <3>3, <3>4, <3>5 DEF Deleting
  <2>5. CASE DelBegin
    <3>1. link' = link /\ req.op = "DEL"
      BY <2>5 DEF DelBegin, Handling
    <3>2. Deleting(f) => f[1] \in netns
      BY <2>1, EndFields DEF MacOK, NetnsOK
    <3>3. Deleting(f) => req'.step # "handler"
      <4> HAVE Deleting(f)
      <4>1. Goto("ipam") \/ Goto("move")
        BY <2>5, <3>2 DEF DelBegin, Deleting
      <4>2. QED BY <1>0, <3>1, <4>1, GotoFields DEF Steps
    <3>4. QED BY <2>2, <3>1, <3>3, SameLinks DEF FoundSame, Adding
  <2>6. CASE IpamDel
    <3>1. link' = link /\ req.op = "DEL"
      BY <2>6 DEF IpamDel, Handling
    <3>2. req'.step # "handler"
      BY <1>0, <2>6, <3>1, GotoFields, FailFields DEF IpamDel, Steps
    <3>3. QED BY <2>2, <3>1, <3>2, SameLinks DEF FoundSame, Adding
  <2>7. CASE MoveLinkOut
    <3>1. req.op = "DEL"
      BY <2>7 DEF MoveLinkOut, Handling
    <3>2. PICK e \in Ends : req.e = e
      BY <1>0, <3>1, ReqFields
    <3>3. CASE link' = link
      <4>1. Found(e) = {} => req'.step # "handler"
        BY <1>0, <2>7, <3>1, <3>2, FailFields DEF MoveLinkOut
      <4>2. Deleting(f) /\ Found(f) # {} => Has(f)
        BY <3>1 DEF Has, Adding
      <4>3. Deleting(f) => (req'.step = "handler" => Has(f))
        BY <3>2, <4>1, <4>2 DEF Deleting
      <4>4. QED BY <2>2, <3>1, <3>3, <4>3, SameLinks DEF FoundSame, Adding
    <3>4. CASE link' # link
      <4>1. PICK d \in Found(e) :
              \/ SetLink(d, MovedOut(link[d]))
              \/ \E m \in MoveOutErrors(link[d]) : SetLink(d, m)
        BY <2>7, <3>2, <3>4 DEF MoveLinkOut
      <4>2. /\ \A g \in Ends : g # e => Found(g)' = Found(g)
            /\ Found(e)' \subseteq Found(e)
        BY <3>1, <3>2, <4>1, FoundMovingOut
      <4>3. Found(f)' \subseteq Found(f)
        BY <4>2
      <4>4. Deleting(f) => Has(f)
        BY <3>1, <3>2, <4>1 DEF Has, Deleting, Adding
      <4>5. QED BY <2>2, <3>1, <4>3, <4>4 DEF Adding
    <3>5. QED BY <3>3, <3>4
  <2>8. QED BY <1>4, <2>3, <2>4, <2>5, <2>6, <2>7 DEF Work
<1>5. CASE Reply
  <2>1. link' = link /\ req' = NoReq /\ req.op # "none" /\ req.step = "reply"
    BY <1>0, <1>5, ReqFields DEF Reply, NoReq
  <2>2. Found(f)' = Found(f)
    BY <2>1, SameLinks DEF FoundSame
  <2>3. Adding(f) => req.ok
    BY <1>5 DEF Reply, Adding
  <2>4. QED BY <2>1, <2>2, <2>3 DEF Has, Deleting, Succeeded, NoReq
<1>6. CASE \/ \E p \in Pods, d1, d2 \in Links : CreatePod(p, d1, d2)
           \/ \E p \in Pods : StopPod(p)
           \/ \E e \in Ends : GiveUp(e)
           \/ UNCHANGED vars
  BY <1>1, <1>6 DEF CreatePod, StopPod, GiveUp, vars
<1>7. QED BY <1>2, <1>3, <1>4, <1>5, <1>6 DEF Next, Handle, Work

LEMMA TaintedGrows ==
  ASSUME [Next]_vars
  PROVE  tainted \subseteq tainted'
<1>1. CASE \/ FindLink \/ MoveLinkIn \/ IpamAdd \/ StoreMac \/ DelBegin
           \/ IpamDel \/ MoveLinkOut \/ DropMac \/ Reply \/ Crash
  BY <1>1 DEF FindLink, MoveLinkIn, IpamAdd, StoreMac, DelBegin, IpamDel,
              MoveLinkOut, DropMac, Reply, Crash
<1>2. CASE \/ \E p \in Pods, d1, d2 \in Links : CreatePod(p, d1, d2)
           \/ \E p \in Pods : StopPod(p) \/ LoseNetns(p)
           \/ \E e \in Ends : GiveUp(e) \/ Acquire(e)
           \/ UNCHANGED vars
  BY <1>2 DEF CreatePod, StopPod, LoseNetns, GiveUp, Acquire, vars
<1>3. QED BY <1>1, <1>2 DEF Next, Handle

\* A pod in order whose DEL is at the list has a MAC to forget.
LEMMA DelHasMac ==
  ASSUME Base, MacOK, NEW e \in Ends, req.op = "DEL", req.e = e,
         req.step = "handler", e[1] \notin tainted
  PROVE  macStore[e[1]] # <<>>
<1>1. Has(e)
  BY DEF Has, Deleting
<1>2. e = <<e[1], e[2]>> /\ e[1] \in Pods \ tainted /\ e[2] \in Ifs
  BY EndFields
<1>3. Len(macStore[e[1]]) >= 1
  BY <1>1, <1>2 DEF MacOK, AtLeast
<1>4. QED BY <1>3, EmptySeq

LEMMA AtLeastStep ==
  ASSUME Base, Base', LinkOK, LinkOK', MacOK, [Next]_vars
  PROVE  AtLeast'
<1>0. Types /\ Types' /\ RtInv /\ AtLeast /\ ReqOK
  BY DEF Base, MacOK, RtInv
<1>1. CASE Crash
  <2>1. \A e \in Ends : e[1] \notin tainted' => ~Has(e)'
    <3> SUFFICES ASSUME NEW e \in Ends, e[1] \notin tainted' PROVE ~Has(e)'
      OBVIOUS
    <3>1. dev[<<e[1], 1>>] = None /\ req' = NoReq /\ dev' = dev
      BY <1>1, EndFields DEF Crash
    <3>2. dev[<<e[1], 2>>] = None
      BY <1>0, <3>1, EndFields, ConstantsAssumption DEF RtInv, DevOK
    <3>3. dev'[e] = None
      BY <3>1, <3>2, EndFields DEF Ifs
    <3>4. Found(e)' = {}
      BY <3>3, ConstantsAssumption DEF LinkOK, Owned, Found
    <3>5. QED BY <3>1, <3>4 DEF Has, Deleting, NoReq
  <2>2. QED
    <3> SUFFICES ASSUME NEW p \in Pods \ tainted'
                 PROVE  \A i \in Ifs : ~Has(<<p, i>>)'
      BY DEF AtLeast, Ifs
    <3> TAKE i \in Ifs
    <3>1. <<p, i>> \in Ends /\ <<p, i>>[1] = p
      BY DEF Ends
    <3>2. QED BY <2>1, <3>1
<1>2. CASE StoreMac \/ DropMac
  <2>0. PICK e \in Ends : req.e = e
    BY <1>0, <1>2, ReqFields DEF StoreMac, DropMac, Handling
  <2>1. /\ tainted' = tainted /\ req'.op = req.op /\ req'.e = e
        /\ link' = link /\ req'.step = "reply"
        /\ \A p \in Pods : p # e[1] => macStore'[p] = macStore[p]
    BY <1>0, <1>2, <2>0, StoreMacLen, DropMacLen
  <2>2. \A f \in Ends : f # e => (Has(f)' <=> Has(f))
    <3> TAKE f \in Ends
    <3>1. Found(f)' = Found(f)
      BY <2>1, SameLinks DEF FoundSame
    <3>2. QED BY <2>0, <2>1, <3>1 DEF Has, Adding, Deleting
  <2>3. PICK p \in Pods, i \in Ifs : e = <<p, i>> /\ e[1] = p
    BY EndFields
  <2>4. \A q \in Pods, j \in Ifs : q # p \/ j # i => <<q, j>> # e /\ <<q, j>> \in Ends
    BY <2>3 DEF Ends
  <2>5. \A q \in Pods : Len(macStore[q]) \in Nat /\ Len(macStore'[q]) \in Nat
    BY <1>0, MacLen DEF Types
  <2>6. \A q \in Pods \ tainted :
          /\ \A j \in Ifs : Has(<<q, j>>) => Len(macStore[q]) >= 1
          /\ (\A j \in Ifs : Has(<<q, j>>)) => Len(macStore[q]) >= 2
    BY <1>0 DEF AtLeast
  <2>7. ASSUME NEW q \in Pods \ tainted, q # p
        PROVE  /\ \A j \in Ifs : Has(<<q, j>>)' => Len(macStore'[q]) >= 1
               /\ (\A j \in Ifs : Has(<<q, j>>)') => Len(macStore'[q]) >= 2
    <3>1. macStore'[q] = macStore[q]
      BY <2>1, <2>3, <2>7
    <3>2. \A j \in Ifs : Has(<<q, j>>)' <=> Has(<<q, j>>)
      BY <2>2, <2>4, <2>7
    <3>3. QED BY <2>6, <3>1, <3>2
  <2>8. ASSUME p \notin tainted
        PROVE  /\ \A j \in Ifs : Has(<<p, j>>)' => Len(macStore'[p]) >= 1
               /\ (\A j \in Ifs : Has(<<p, j>>)') => Len(macStore'[p]) >= 2
    <3>1. \A j \in Ifs : j # i => (Has(<<p, j>>)' <=> Has(<<p, j>>))
      BY <2>2, <2>4
    <3>2. PICK k \in Ifs : k # i /\ \A j \in Ifs : j = k \/ j = i
      BY DEF Ifs
    <3>3. CASE StoreMac
      <4>1. Len(macStore'[p]) = Len(macStore[p]) + 1
        BY <1>0, <2>0, <2>3, <3>3, StoreMacLen
      <4>2. Has(<<p, k>>)' => Len(macStore[p]) >= 1
        BY <2>6, <2>8, <3>1, <3>2
      <4>3. Len(macStore'[p]) >= 1
        BY <2>5, <4>1
      <4>4. Has(<<p, k>>)' => Len(macStore'[p]) >= 2
        BY <2>5, <4>1, <4>2
      <4>5. QED BY <3>2, <4>3, <4>4
    <3>4. CASE DropMac
      <4>1. req.op = "DEL" /\ req.step = "handler"
        BY <3>4 DEF DropMac, Handling
      <4>2. macStore[p] # <<>>
        BY <2>0, <2>3, <2>8, <4>1, DelHasMac
      <4>3. Len(macStore'[p]) = Len(macStore[p]) - 1
        BY <1>0, <2>0, <2>3, <3>4, <4>2, DropMacLen
      <4>4. Found(e) = {}
        BY <2>0, <2>3, <2>8, <4>1 DEF MacOK, GivenBack, Handling
      <4>5. ~Has(<<p, i>>)'
        <5>1. Found(e)' = {}
          BY <2>1, <4>4, SameLinks DEF FoundSame
        <5>2. QED BY <2>1, <2>3, <4>1, <5>1 DEF Has
      <4>6. Has(<<p, i>>)
        BY <2>0, <2>3, <4>1 DEF Has, Deleting
      <4>7. Has(<<p, k>>) => \A j \in Ifs : Has(<<p, j>>)
        BY <3>2, <4>6
      <4>8. Has(<<p, k>>)' => Len(macStore[p]) >= 2
        BY <2>6, <2>8, <3>1, <3>2, <4>7
      <4>9. Has(<<p, k>>)' => Len(macStore'[p]) >= 1
        BY <2>5, <4>3, <4>8
      <4>10. QED BY <3>2, <4>5, <4>9
    <3>5. QED BY <1>2, <3>3, <3>4
  <2>9. QED BY <2>1, <2>7, <2>8 DEF AtLeast
<1>3. CASE ~Crash /\ ~StoreMac /\ ~DropMac
  <2>1. macStore' = macStore
    BY <1>3, SameMacs DEF Next, Handle
  <2>2. \A e \in Ends : e[1] \notin tainted' /\ Has(e)' => Has(e)
    BY <1>3, HasKept
  <2>3. QED BY <1>0, <2>1, <2>2, TaintedGrows, AtLeastKept
<1>4. QED BY <1>1, <1>2, <1>3

LEMMA GivenBackStep ==
  ASSUME Base, LinkOK, MacOK, [Next]_vars
  PROVE  GivenBack'
<1>0. Types /\ RtInv /\ ReqOK
  BY DEF Base, RtInv
<1>1. ASSUME req' = req, link' = link, tainted' = tainted PROVE GivenBack'
  BY <1>1 DEF MacOK, GivenBack, Handling, Found
<1>2. ASSUME req'.op # "DEL" \/ req'.step # "handler" PROVE GivenBack'
  BY <1>2 DEF GivenBack, Handling
<1>3. CASE \/ \E p \in Pods : LoseNetns(p)
           \/ \E e \in Ends : Acquire(e)
           \/ Reply \/ Crash
  <2>1. ASSUME NEW p \in Pods, LoseNetns(p) PROVE req' = NoReq
    BY <2>1 DEF LoseNetns
  <2>2. ASSUME NEW e \in Ends, Acquire(e) PROVE req'.step = "begin"
    BY <2>2 DEF Acquire
  <2>3. ASSUME Reply \/ Crash PROVE req' = NoReq
    BY <2>3 DEF Reply, Crash
  <2>4. QED BY <1>2, <1>3, <2>1, <2>2, <2>3 DEF NoReq
<1>4. CASE FindLink \/ MoveLinkIn \/ IpamAdd \/ StoreMac
  <2>1. req.op = "ADD"
    BY <1>4 DEF FindLink, MoveLinkIn, IpamAdd, StoreMac, Handling
  <2>2. req'.op = "ADD"
    BY <1>0, <1>4, <2>1, WorkGoesOn DEF Work
  <2>3. QED BY <1>2, <2>2
<1>5. CASE IpamDel \/ DropMac
  <2>1. req.op = "DEL" /\ (Goto("move") \/ Goto("reply") \/ Fail)
    BY <1>5 DEF IpamDel, DropMac, Handling
  <2>2. req'.step # "handler"
    BY <1>0, <2>1, GotoFields, FailFields DEF Steps
  <2>3. QED BY <1>2, <2>2
<1>6. CASE DelBegin
  <2>1. req.op = "DEL"
    BY <1>6 DEF DelBegin, Handling
  <2>2. req'.e = req.e /\ req.e \in Ends /\ tainted' = tainted
    BY <1>0, <1>6, WorkGoesOn DEF Work
  <2>3. CASE req.e[1] \in netns
    <3>1. Goto("ipam") \/ Goto("move")
      BY <1>6, <2>3 DEF DelBegin
    <3>2. QED BY <1>0, <1>2, <2>1, <3>1, GotoFields DEF Steps
  <2>4. CASE req.e[1] \notin netns
    BY <2>2, <2>4, EndFields DEF GivenBack, MacOK, NetnsOK
  <2>5. QED BY <2>3, <2>4
<1>7. CASE MoveLinkOut
  <2>1. req.op = "DEL"
    BY <1>7 DEF MoveLinkOut, Handling
  <2>2. PICK e \in Ends : req.e = e /\ req'.e = e
    BY <1>0, <1>7, WorkGoesOn DEF Work
  <2>3. CASE Fail
    BY <1>0, <1>2, <2>1, <2>3, FailFields
  <2>4. CASE \E d \in Found(e) : SetLink(d, MovedOut(link[d]))
    <3>1. Found(e)' = {}
      BY <2>1, <2>2, <2>4, FoundMovingOut
    <3>2. QED BY <2>2, <3>1 DEF GivenBack
  <2>5. QED BY <1>7, <2>2, <2>3, <2>4 DEF MoveLinkOut
<1>8. CASE \/ \E p \in Pods, d1, d2 \in Links : CreatePod(p, d1, d2)
           \/ \E p \in Pods : StopPod(p)
           \/ \E e \in Ends : GiveUp(e)
           \/ UNCHANGED vars
  BY <1>1, <1>8 DEF CreatePod, StopPod, GiveUp, vars
<1>9. QED BY <1>3, <1>4, <1>5, <1>6, <1>7, <1>8 DEF Next, Handle

LEMMA MacStep ==
  ASSUME Base, Base', LinkOK, LinkOK', MacOK, [Next]_vars
  PROVE  MacOK'
<1>0. Types /\ RtInv /\ ReqOK
  BY DEF Base, RtInv
<1>1. AtMost' /\ AtLeast' /\ GivenBack'
  BY AtMostStep, AtLeastStep, GivenBackStep DEF MacOK
<1>2. NetnsOK'
  <2>1. CASE netns' = netns
    BY <2>1, TaintedGrows DEF MacOK, NetnsOK
  <2>2. ASSUME NEW p \in Pods, LoseNetns(p) PROVE NetnsOK'
    BY <2>2 DEF LoseNetns, MacOK, NetnsOK
  <2>3. CASE Work \/ Reply \/ Crash
    BY <1>0, <2>1, <2>3, WorkGoesOn DEF Reply, Crash
  <2>4. CASE \/ \E p \in Pods, d1, d2 \in Links : CreatePod(p, d1, d2)
             \/ \E p \in Pods : StopPod(p)
             \/ \E e \in Ends : GiveUp(e) \/ Acquire(e)
             \/ UNCHANGED vars
    BY <2>1, <2>4 DEF CreatePod, StopPod, GiveUp, Acquire, vars, rtVars
  <2>5. QED BY <2>2, <2>3, <2>4 DEF Next, Handle, Work
<1>3. PanicOnlyAfterLoss'
  <2>1. CASE DropMac
    <3>1. PICK e \in Ends : req.e = e
      BY <1>0, <2>1, ReqFields DEF DropMac, Handling
    <3>2. CASE macStore[e[1]] # <<>>
      <4>1. panicked' = panicked /\ tainted' = tainted
        BY <1>0, <2>1, <3>1, <3>2, DropMacLen
      <4>2. QED BY <4>1 DEF MacOK, PanicOnlyAfterLoss
    <3>3. CASE macStore[e[1]] = <<>>
      <4>1. panicked' = panicked \cup {e[1]} /\ tainted' = tainted
        BY <1>0, <2>1, <3>1, <3>3, DropMacLen
      <4>2. e[1] \in tainted
        BY <2>1, <3>1, <3>3, DelHasMac DEF DropMac, Handling
      <4>3. QED BY <4>1, <4>2 DEF MacOK, PanicOnlyAfterLoss
    <3>4. QED BY <3>2, <3>3
  <2>2. CASE DelBegin
    <3>1. PICK e \in Ends : req.e = e
      BY <1>0, <2>2, ReqFields DEF DelBegin, Handling
    <3>2. /\ tainted' = tainted
          /\ panicked' # panicked =>
                panicked' = panicked \cup {e[1]} /\ e[1] \notin netns
      BY <2>2, <3>1 DEF DelBegin
    <3>3. e[1] \notin netns => e[1] \in tainted
      BY EndFields DEF MacOK, NetnsOK
    <3>4. QED BY <3>2, <3>3 DEF MacOK, PanicOnlyAfterLoss
  <2>3. CASE ~DropMac /\ ~DelBegin
    <3>1. panicked' = panicked
      <4>1. CASE StoreMac \/ Crash
        BY <4>1 DEF StoreMac, Crash
      <4>2. CASE ~StoreMac /\ ~Crash
        BY <2>3, <4>2, SameMacs DEF Next, Handle
      <4>3. \A n \in Nat : n <= 2 => n \in 0..2
        OBVIOUS
      <4>4. QED BY <4>1, <4>2, <4>3
    <3>2. QED BY <3>1, TaintedGrows DEF MacOK, PanicOnlyAfterLoss
  <2>4. QED BY <2>1, <2>2, <2>3
<1>4. QED BY <1>1, <1>2, <1>3 DEF MacOK

-----------------------------------------------------------------------------
(* What holds whatever fails                                               *)

LEMMA InitHolds ==
  ASSUME Init
  PROVE  Base /\ LinkOK /\ MacOK
<1>1. Types
  <2>1. link \in [Links -> LinkStates]
    BY DEF Init, LinkStates, Names
  <2>2. macStore \in [Pods -> Seq(Links)]
    BY EmptySeq DEF Init
  <2>3. faults \in 0..MaxFaults /\ crashes \in 0..MaxCrashes
    BY ConstantsAssumption DEF Init
  <2>4. QED BY <2>1, <2>2, <2>3 DEF Init, Types
<1>2. \A d \in Links : link[d].name = "orig" /\ link[d].at = Host
  BY DEF Init
<1>3. \A e \in Ends : rt[e] = "none" /\ dev[e] = None
  BY DEF Init
<1>4. req = NoReq
  BY DEF Init
<1>5. NamesOK
  BY <1>2 DEF NamesOK, Named
<1>6. PhaseOK /\ DevOK
  BY <1>3, EndFields DEF PhaseOK, DevOK
<1>7. OwnerOK
  BY <1>3 DEF OwnerOK
<1>8. ReqOK
  BY <1>4 DEF ReqOK, NoReq
<1>9. \A e \in Ends : Found(e) = {}
  BY <1>2, EndFields, ConstantsAssumption DEF Found
<1>10. LinkOK
  BY <1>3, <1>4, <1>9
  DEF LinkOK, Owned, UpAttached, MoveReady, AddAttached, Handling, Succeeded, NoReq
<1>11. \A p \in Pods : Len(macStore[p]) = 0
  BY DEF Init
<1>12. AtMost
  BY <1>11 DEF AtMost
<1>13. AtLeast
  <2>1. \A e \in Ends : ~Has(e)
    BY <1>4, <1>9 DEF Has, Deleting, NoReq
  <2>2. \A p \in Pods, i \in Ifs : <<p, i>> \in Ends
    BY DEF Ends
  <2>3. QED BY <2>1, <2>2 DEF AtLeast, Ifs
<1>14. GivenBack /\ NetnsOK /\ PanicOnlyAfterLoss
  BY <1>4 DEF GivenBack, Handling, NetnsOK, PanicOnlyAfterLoss, Init, NoReq
<1>15. QED
  BY <1>1, <1>5, <1>6, <1>7, <1>8, <1>10, <1>12, <1>13, <1>14 DEF Base, RtInv, MacOK

Inv == Base /\ LinkOK /\ MacOK

LEMMA InvStep ==
  ASSUME Inv, [Next]_vars
  PROVE  Inv'
<1>1. Base'
  BY RtStep, TypesStep DEF Inv, Base
<1>2. LinkOK'
  BY LinkStep DEF Inv
<1>3. MacOK'
  BY <1>1, <1>2, MacStep DEF Inv
<1>4. QED BY <1>1, <1>2, <1>3 DEF Inv

LEMMA InvHolds == Spec => []Inv
<1>1. Init => Inv
  BY InitHolds DEF Inv
<1>2. Inv /\ [Next]_vars => Inv'
  BY InvStep
<1>3. QED BY <1>1, <1>2, PTL DEF Spec

\* The variables keep their types.  macStore is the interesting one: no pod ever
\* has more than two MACs stored, although nothing in cniCmdNfAddHandler counts
\* them and the answer to an ADD may be lost.
THEOREM TypeCorrect == Spec => []TypeOK
<1>1. ASSUME Inv PROVE TypeOK
  <2>1. Types /\ AtMost
    BY <1>1 DEF Inv, Base, MacOK
  <2>2. \A p \in Pods : macStore[p] \in UNION {[1..n -> Links] : n \in 0..2}
    <3> TAKE p \in Pods
    <3>1. macStore[p] \in Seq(Links)
      BY <2>1, MacLen
    <3>2. Len(macStore[p]) \in 0..2
      <4>1. Len(macStore[p]) <= 2
        BY <2>1 DEF AtMost
      <4>2. Len(macStore[p]) \in Nat
        BY <2>1, MacLen
      <4>3. \A n \in Nat : n <= 2 => n \in 0..2
        OBVIOUS
      <4>4. QED BY <4>1, <4>2, <4>3
    <3>3. macStore[p] \in [1..Len(macStore[p]) -> Links]
      BY <3>1, LenProperties
    <3>4. QED BY <3>2, <3>3
  <2>3. macStore \in [Pods -> UNION {[1..n -> Links] : n \in 0..2}]
    BY <2>1, <2>2 DEF Types
  <2>4. QED BY <2>1, <2>3 DEF Types, TypeOK
<1>2. QED BY <1>1, InvHolds, PTL

\* An interface that the runtime believes to be added stays in its pod, up, under
\* its name and with the name of its link as alias, whatever moveLinkInNetNamespace
\* and moveLinkOutToHost leave behind for other interfaces when they fail, and
\* even when kubelet gives away links that are not yet deleted.
THEOREM UpStaysInPod == Spec => []UpIsAttached
<1>1. ASSUME Inv PROVE UpIsAttached
  BY <1>1 DEF Inv, LinkOK, UpAttached, Attached, UpIsAttached
<1>2. QED BY <1>1, InvHolds, PTL

\* cniCmdNfDelHandler cuts a MAC off an empty list only for a pod that had a
\* failed ADD, lost its namespace, or lived through a restart of the daemon.
THEOREM PanicNeedsLoss == Spec => []PanicOnlyAfterLoss
<1>1. Inv => PanicOnlyAfterLoss
  BY DEF Inv, MacOK
<1>2. QED BY <1>1, InvHolds, PTL

-----------------------------------------------------------------------------
(* What holds as long as nothing has failed                                *)

\* A step after which nothing has failed is one that does not fail.
LEMMA CalmBefore ==
  ASSUME Inv, [Next]_vars, Calm'
  PROVE  /\ Calm /\ tainted = {} /\ tainted' = {} /\ ~Crash /\ ~Fault
         /\ \A e \in Ends : ~GiveUp(e)
         /\ \A p \in Pods : ~LoseNetns(p)
<1>0. faults \in Nat /\ crashes \in Nat /\ faults' = 0 /\ crashes' = 0
  BY ConstantsAssumption DEF Inv, Base, Types, Calm
<1>1. ~Crash
  <2>1. Crash => crashes' = crashes + 1
    BY DEF Crash
  <2>2. QED BY <1>0, <2>1
<1>2. ~Fault
  BY <1>0 DEF Fault
<1>3. \A e \in Ends : ~GiveUp(e)
  BY <1>0 DEF GiveUp
<1>4. tainted = {} /\ tainted' = {}
  BY TaintedGrows DEF Calm
<1>5. \A p \in Pods : ~LoseNetns(p)
  BY <1>4 DEF LoseNetns
<1>6. faults' = faults /\ crashes' = crashes
  <2>1. CASE \/ FindLink \/ MoveLinkIn \/ IpamAdd \/ StoreMac \/ DelBegin
             \/ IpamDel \/ MoveLinkOut \/ DropMac \/ Reply
    BY <1>2, <2>1 DEF FindLink, MoveLinkIn, IpamAdd, StoreMac, DelBegin, IpamDel,
                      MoveLinkOut, DropMac, Reply
  <2>2. CASE \/ \E p \in Pods, d1, d2 \in Links : CreatePod(p, d1, d2)
             \/ \E p \in Pods : StopPod(p)
             \/ \E e \in Ends : Acquire(e)
             \/ UNCHANGED vars
    BY <2>2 DEF CreatePod, StopPod, Acquire, vars
  <2>3. QED BY <1>1, <1>3, <1>5, <2>1, <2>2 DEF Next, Handle
<1>7. QED BY <1>0, <1>1, <1>2, <1>3, <1>4, <1>5, <1>6 DEF Calm

InPodSame == \A f \in Ends : InPod(f)' <=> InPod(f)
StoredSame == \A f \in Ends : Stored(f)' <=> Stored(f)

\* Requests that are created, found or answered change neither.
LEMMA RuntimeIsQuiet ==
  ASSUME Inv, CalmReq, Calm', [Next]_vars,
         \/ \E p \in Pods, d1, d2 \in Links : CreatePod(p, d1, d2)
         \/ \E p \in Pods : StopPod(p)
         \/ \E e \in Ends : Acquire(e)
         \/ Reply
         \/ UNCHANGED vars
  PROVE  CalmReq' /\ InPodSame /\ StoredSame /\ link' = link /\ ips' = ips
         /\ macStore' = macStore /\ nfs' = nfs
<1>0. Types /\ RtInv /\ ReqOK
  BY DEF Inv, Base, RtInv
<1>1. ASSUME NEW p \in Pods, NEW d1 \in Links, NEW d2 \in Links,
             CreatePod(p, d1, d2)
      PROVE  CalmReq' /\ InPodSame /\ StoredSame
  <2>1. rt[<<p, 1>>] = "none" /\ req' = req
    BY <1>1 DEF CreatePod, Ifs
  <2>2. /\ \A f \in Ends : f # <<p, 1>> => rt'[f] = rt[f]
        /\ rt'[<<p, 1>>] = "add"
    BY <1>0, <1>1, EndFields DEF CreatePod, Types
  <2>3. req.op # "none" => req.e # <<p, 1>> /\ req.e \in Ends
    BY <1>0, <2>1, ReqFields DEF ReqOK
  <2>4. CalmReq'
    BY <1>0, <2>1, <2>2, <2>3, ReqFields DEF CalmReq
  <2>5. ~Adding(<<p, 1>>) /\ ~Deleting(<<p, 1>>)
    BY <2>3 DEF Adding, Deleting
  <2>6. InPodSame
    BY <2>1, <2>2, <2>5 DEF InPodSame, InPod, Adding, Deleting, Succeeded
  <2>7. StoredSame
    BY <2>1, <2>2, <2>5 DEF StoredSame, Stored, Adding, Deleting, Succeeded
  <2>8. QED BY <2>4, <2>6, <2>7
<1>2. ASSUME NEW p \in Pods, StopPod(p) PROVE CalmReq' /\ InPodSame /\ StoredSame
  <2>1. /\ rt[<<p, 1>>] \in {"up", "failed"} /\ rt[<<p, 2>>] # "add" /\ req' = req
        /\ rt' = [e \in Ends |-> IF e[1] # p THEN rt[e]
                                 ELSE IF rt[e] = "none" THEN "gone" ELSE "del"]
    BY <1>2 DEF StopPod
  <2>2. rt[<<p, 1>>] = "up" /\ rt[<<p, 2>>] = "up"
    BY <1>0, <2>1, EndFields DEF CalmReq, RtInv, PhaseOK
  <2>3. \A f \in Ends : f[1] = p => rt[f] = "up" /\ rt'[f] = "del"
    <3> SUFFICES ASSUME NEW f \in Ends, f[1] = p PROVE rt[f] = "up" /\ rt'[f] = "del"
      OBVIOUS
    <3>1. rt[f] = "up"
      BY <2>2, EndFields DEF Ifs
    <3>2. QED BY <2>1, <3>1
  <2>4. \A f \in Ends : f[1] # p => rt'[f] = rt[f]
    BY <2>1
  <2>5. req.op # "none" => req.e \in Ends /\ req.e[1] # p
    BY <1>0, <2>3, ReqFields DEF ReqOK
  <2> HIDE <1>2
  <2>6. \A f \in Ends : f[1] = p => ~Adding(f) /\ ~Deleting(f)
    BY <2>5 DEF Adding, Deleting
  <2>7. CalmReq'
    <3>1. \A f \in Ends : rt'[f] # "failed"
      BY <2>3, <2>4 DEF CalmReq
    <3>2. req.op # "none" => rt'[req.e] = rt[req.e]
      BY <2>4, <2>5
    <3>3. QED BY <2>1, <3>1, <3>2 DEF CalmReq
  <2>8. InPodSame
    <3> SUFFICES ASSUME NEW f \in Ends PROVE InPod(f)' <=> InPod(f)
      BY DEF InPodSame
    <3>1. CASE f[1] = p
      BY <2>1, <2>3, <2>6, <3>1 DEF InPod, Deleting
    <3>2. CASE f[1] # p
      BY <2>1, <2>4, <3>2 DEF InPod, Deleting, Adding, Succeeded
    <3>3. QED BY <3>1, <3>2
  <2>9. StoredSame
    <3> SUFFICES ASSUME NEW f \in Ends PROVE Stored(f)' <=> Stored(f)
      BY DEF StoredSame
    <3>1. CASE f[1] = p
      BY <2>1, <2>3, <2>6, <3>1 DEF Stored, Deleting
    <3>2. CASE f[1] # p
      BY <2>1, <2>4, <3>2 DEF Stored, Deleting, Adding, Succeeded
    <3>3. QED BY <3>1, <3>2
  <2>10. QED BY <2>7, <2>8, <2>9
<1>3. ASSUME NEW e \in Ends, Acquire(e) PROVE CalmReq' /\ InPodSame /\ StoredSame
  <2>1. /\ req = NoReq /\ rt' = rt /\ req'.step = "begin" /\ req'.e = e /\ req'.ok
        /\ req'.op = "ADD" => rt[e] = "add"
    BY <1>3 DEF Acquire, rtVars
  <2>2. CalmReq'
    BY <2>1 DEF CalmReq
  <2>3. \A f \in Ends : ~Adding(f) /\ ~Deleting(f)
    BY <2>1 DEF Adding, Deleting, NoReq
  <2>4. InPodSame
    BY <2>1, <2>3 DEF InPodSame, InPod, Succeeded
  <2>5. StoredSame
    BY <2>1, <2>3 DEF StoredSame, Stored, Succeeded
  <2>6. QED BY <2>2, <2>4, <2>5
<1>4. ASSUME Reply PROVE CalmReq' /\ InPodSame /\ StoredSame
  <2>1. /\ req.op # "none" /\ req' = NoReq /\ req.step = "reply"
        /\ req.e \in Ends
    BY <1>0, <1>4, ReqFields DEF Reply, NoReq
  <2>2. rt' = Answered(req.e, req.ok)
    BY <1>4, CalmBefore DEF Reply
  <2>3. req.ok
    <3>1. req.op = "ADD" => req.ok
      BY <1>4, CalmBefore DEF Reply
    <3>2. QED BY <1>0, <2>1, <3>1, ReqFields DEF CalmReq
  <2>4. \A f \in Ends : ~Adding(f)' /\ ~Deleting(f)'
    BY <2>1 DEF Adding, Deleting, NoReq
  <2>5. CASE req.op = "ADD"
    <3> DEFINE next == <<req.e[1], 2>>
    <3>1. rt[req.e] = "add"
      BY <2>5 DEF CalmReq
    <3>2. /\ rt'[req.e] = "up"
          /\ \A f \in Ends : f # req.e /\ f # next => rt'[f] = rt[f]
          /\ req.e[2] = 1 => rt'[next] = "add"
      BY <1>0, <2>1, <2>2, <2>3, <2>5, <3>1, AnsweredRt
    <3>3. /\ req.e = <<req.e[1], req.e[2]>> /\ req.e[1] \in Pods
          /\ req.e[2] \in {1, 2} /\ next \in Ends
      BY <2>1, EndFields DEF Ifs
    <3>4. next # req.e => rt[next] = "none" /\ rt'[next] = "add"
      <4> HAVE next # req.e
      <4>1. req.e[2] = 1 /\ req.e = <<req.e[1], 1>>
        BY <3>3
      <4>2. QED BY <1>0, <3>1, <3>2, <3>3, <4>1 DEF RtInv, PhaseOK
    <3> HIDE DEF next
    <3>5. \A f \in Ends : \/ f = req.e /\ rt'[f] = "up"
                          \/ f # req.e /\ rt'[f] = rt[f]
                          \/ f # req.e /\ rt[f] = "none" /\ rt'[f] = "add"
      BY <3>2, <3>4
    <3>6. CalmReq'
      BY <2>1, <3>5 DEF CalmReq, NoReq
    <3>7. \A f \in Ends : ~Deleting(f) /\ (Adding(f) <=> f = req.e)
      BY <2>5 DEF Adding, Deleting
    <3>8. InPodSame
      <4> SUFFICES ASSUME NEW f \in Ends PROVE InPod(f)' <=> InPod(f)
        BY DEF InPodSame
      <4>1. InPod(f)' <=> rt'[f] \in {"up", "del"}
        BY <2>4 DEF InPod
      <4>2. InPod(f) <=> rt[f] \in {"up", "del"} \/ f = req.e
        BY <2>1, <2>3, <3>7 DEF InPod, Succeeded
      <4>3. QED BY <3>5, <4>1, <4>2
    <3>9. StoredSame
      <4> SUFFICES ASSUME NEW f \in Ends PROVE Stored(f)' <=> Stored(f)
        BY DEF StoredSame
      <4>1. Stored(f)' <=> rt'[f] \in {"up", "del"}
        BY <2>4 DEF Stored
      <4>2. Stored(f) <=> rt[f] \in {"up", "del"} \/ f = req.e
        BY <2>1, <2>3, <3>7 DEF Stored, Succeeded
      <4>3. QED BY <3>5, <4>1, <4>2
    <3>10. QED BY <3>6, <3>8, <3>9
  <2>6. CASE req.op = "DEL"
    <3>1. rt[req.e] = "del"
      BY <1>0, <2>6 DEF ReqOK
    <3>2. rt'[req.e] = "gone" /\ \A f \in Ends : f # req.e => rt'[f] = rt[f]
      BY <1>0, <2>1, <2>2, <2>3, <2>6, AnsweredRt
    <3>3. CalmReq'
      BY <2>1, <3>2 DEF CalmReq, NoReq
    <3>4. \A f \in Ends : ~Adding(f) /\ (Deleting(f) <=> f = req.e)
      BY <2>6 DEF Adding, Deleting
    <3>5. InPodSame
      BY <2>1, <2>4, <3>1, <3>2, <3>4 DEF InPodSame, InPod
    <3>6. StoredSame
      BY <2>1, <2>4, <3>1, <3>2, <3>4 DEF StoredSame, Stored
    <3>7. QED BY <3>3, <3>5, <3>6
  <2>7. QED BY <1>0, <2>1, <2>5, <2>6, ReqFields
<1>5. ASSUME UNCHANGED vars PROVE CalmReq' /\ InPodSame /\ StoredSame
  BY <1>5 DEF vars, rtVars, CalmReq, InPodSame, StoredSame, InPod, Stored, Adding,
              Deleting, Succeeded
<1>6. link' = link /\ ips' = ips /\ macStore' = macStore /\ nfs' = nfs
  BY DEF CreatePod, StopPod, Acquire, Reply, vars
<1>7. QED BY <1>1, <1>2, <1>3, <1>4, <1>5, <1>6

LEMMA CalmLinksKept ==
  ASSUME CalmLinks, InPodSame, link' = link,
         \A e \in Ends : InPod(e) => dev'[e] = dev[e]
  PROVE  CalmLinks'
<1>1. \A f \in Ends : Found(f)' = Found(f)
  BY SameLinks DEF FoundSame
<1>2. \A e \in Ends : InPod(e)' => dev'[e] \in Found(e)'
  BY <1>1 DEF CalmLinks, InPodSame
<1>3. ASSUME NEW d \in Links
      PROVE  \/ link'[d].at = Host /\ link'[d].name = "orig"
             \/ link'[d].alias = "orig" /\ \E e \in Ends : InPod(e)' /\ d \in Found(e)'
  BY <1>1 DEF CalmLinks, InPodSame
<1>4. QED BY <1>2, <1>3 DEF CalmLinks

LEMMA CalmMacsKept ==
  ASSUME Types, CalmMacs, CalmNfs, StoredSame, macStore' = macStore, nfs' = nfs,
         \A p \in Pods : (\E i \in Ifs : Stored(<<p, i>>)) =>
             dev'[<<p, 1>>] = dev[<<p, 1>>] /\ dev'[<<p, 2>>] = dev[<<p, 2>>]
  PROVE  CalmMacs' /\ CalmNfs'
<1>1. \A p \in Pods, i \in Ifs : Stored(<<p, i>>)' <=> Stored(<<p, i>>)
  BY DEF StoredSame, Ends
<1>2. CalmMacs'
  <2> SUFFICES ASSUME NEW p \in Pods
               PROVE /\ \A i \in Ifs : ~Stored(<<p, i>>)' => Len(macStore'[p]) <= 1
                     /\ (\A i \in Ifs : ~Stored(<<p, i>>)') => Len(macStore'[p]) = 0
                     /\ \A i \in Ifs : Stored(<<p, i>>)' => Len(macStore'[p]) >= 1
                     /\ (\A i \in Ifs : Stored(<<p, i>>)') => Len(macStore'[p]) = 2
                     /\ \A k \in 1..Len(macStore'[p]) : macStore'[p][k] = dev'[<<p, k>>]
    BY DEF CalmMacs
  <2>1. /\ \A i \in Ifs : ~Stored(<<p, i>>) => Len(macStore[p]) <= 1
        /\ (\A i \in Ifs : ~Stored(<<p, i>>)) => Len(macStore[p]) = 0
        /\ \A i \in Ifs : Stored(<<p, i>>) => Len(macStore[p]) >= 1
        /\ (\A i \in Ifs : Stored(<<p, i>>)) => Len(macStore[p]) = 2
        /\ \A k \in 1..Len(macStore[p]) : macStore[p][k] = dev[<<p, k>>]
    BY DEF CalmMacs
  <2>2. \A k \in 1..Len(macStore[p]) : macStore[p][k] = dev'[<<p, k>>]
    <3> TAKE k \in 1..Len(macStore[p])
    <3>0. Len(macStore[p]) \in Nat
      BY MacLen
    <3>1. Len(macStore[p]) # 0
      OBVIOUS
    <3>2. \E i \in Ifs : Stored(<<p, i>>)
      BY <2>1, <3>1
    <3>3. Len(macStore[p]) \in {0, 1, 2}
      <4>1. CASE \A i \in Ifs : Stored(<<p, i>>)
        BY <2>1, <4>1
      <4>2. CASE \E i \in Ifs : ~Stored(<<p, i>>)
        <5>1. Len(macStore[p]) <= 1
          BY <2>1, <4>2
        <5>2. \A n \in Nat : n <= 1 => n \in {0, 1, 2}
          OBVIOUS
        <5>3. QED BY <3>0, <5>1, <5>2
      <4>3. QED BY <4>1, <4>2
    <3>4. k \in {1, 2}
      <4>1. \A n \in {0, 1, 2} : \A j \in 1..n : j \in {1, 2}
        OBVIOUS
      <4>2. QED BY <3>3, <4>1
    <3>5. dev'[<<p, k>>] = dev[<<p, k>>]
      BY <3>2, <3>4
    <3>6. QED BY <2>1, <3>5
  <2>3. QED BY <1>1, <2>1, <2>2
<1>3. \A p \in Pods : Both(p)' <=> Both(p)
  BY <1>1 DEF Both
<1>4. \A p \in Pods : Both(p) => Nf(p)' = Nf(p)
  BY DEF Both, Nf, Ifs
<1>5. CalmNfs'
  BY <1>3, <1>4 DEF CalmNfs
<1>6. QED BY <1>2, <1>5

\* The requests of the runtime keep everything where it is.
LEMMA RuntimeKeepsCalm ==
  ASSUME Inv, CalmParts, Calm', [Next]_vars,
         \/ \E p \in Pods, d1, d2 \in Links : CreatePod(p, d1, d2)
         \/ \E p \in Pods : StopPod(p)
         \/ \E e \in Ends : Acquire(e)
         \/ Reply
         \/ UNCHANGED vars
  PROVE  CalmParts'
<1>0. Types /\ RtInv /\ ReqOK
  BY DEF Inv, Base, RtInv
<1>1. /\ CalmReq' /\ InPodSame /\ StoredSame /\ link' = link /\ ips' = ips
      /\ macStore' = macStore /\ nfs' = nfs
  BY RuntimeIsQuiet DEF CalmParts
<1>2. \A e \in Ends : rt[e] # "none" => dev'[e] = dev[e]
  <2>1. ASSUME NEW p \in Pods, NEW d1 \in Links, NEW d2 \in Links,
               CreatePod(p, d1, d2)
        PROVE  \A e \in Ends : rt[e] # "none" => dev'[e] = dev[e]
    BY <1>0, <2>1, EndFields DEF CreatePod, Types, Ifs
  <2>2. ASSUME \/ \E p \in Pods : StopPod(p)
               \/ \E e \in Ends : Acquire(e)
               \/ Reply
               \/ UNCHANGED vars
        PROVE  dev' = dev
    BY <2>2 DEF StopPod, Acquire, Reply, vars, rtVars
  <2>3. QED BY <2>1, <2>2
<1>3. \A e \in Ends : InPod(e) \/ Stored(e) => rt[e] # "none"
  BY <1>0 DEF InPod, Stored, Adding, CalmParts, CalmReq
<1>4. CalmLinks'
  BY <1>1, <1>2, <1>3, CalmLinksKept DEF CalmParts
<1>5. \A p \in Pods : (\E i \in Ifs : Stored(<<p, i>>)) =>
          dev'[<<p, 1>>] = dev[<<p, 1>>] /\ dev'[<<p, 2>>] = dev[<<p, 2>>]
  <2> TAKE p \in Pods
  <2> HAVE \E i \in Ifs : Stored(<<p, i>>)
  <2>1. rt[<<p, 1>>] # "none"
    <3>1. rt[<<p, 1>>] # "none" \/ rt[<<p, 2>>] # "none"
      BY <1>3, EndFields DEF Ifs
    <3>2. QED BY <1>0, <3>1 DEF RtInv, PhaseOK
  <2>2. CASE dev' = dev
    BY <2>2
  <2>3. ASSUME NEW q \in Pods, NEW d1 \in Links, NEW d2 \in Links,
               CreatePod(q, d1, d2)
        PROVE  dev'[<<p, 1>>] = dev[<<p, 1>>] /\ dev'[<<p, 2>>] = dev[<<p, 2>>]
    <3>1. q # p
      BY <2>1, <2>3 DEF CreatePod, Ifs
    <3>2. dev' = [dev EXCEPT ![<<q, 1>>] = d1, ![<<q, 2>>] = d2]
      BY <2>3 DEF CreatePod
    <3>3. QED BY <1>0, <3>1, <3>2, EndFields DEF Types
  <2>4. QED BY <2>2, <2>3 DEF StopPod, Acquire, Reply, vars, rtVars
<1>6. CalmMacs' /\ CalmNfs'
  BY <1>0, <1>1, <1>5, CalmMacsKept DEF CalmParts
<1>7. CalmIps'
  <2> SUFFICES ASSUME NEW e \in ips
               PROVE  /\ rt'[e] \in {"add", "up", "del"}
                      /\ Deleting(e)' => req'.step \in {"begin", "ipam"}
    BY <1>1 DEF CalmIps, CalmParts
  <2>1. /\ e \in Ends /\ rt[e] \in {"add", "up", "del"}
        /\ Deleting(e) => req.step \in {"begin", "ipam"}
    BY <1>0 DEF CalmParts, CalmIps, Types
  <2>2. ASSUME NEW p \in Pods, NEW d1 \in Links, NEW d2 \in Links,
               CreatePod(p, d1, d2)
        PROVE  rt'[e] = rt[e] /\ req' = req
    BY <1>0, <2>1, <2>2, EndFields DEF CreatePod, Types, Ifs
  <2>3. ASSUME NEW p \in Pods, StopPod(p)
        PROVE  rt'[e] \in {rt[e], "del"} /\ req' = req
    BY <2>1, <2>3 DEF StopPod
  <2>4. ASSUME NEW f \in Ends, Acquire(f)
        PROVE  rt'[e] = rt[e] /\ req'.step = "begin"
    BY <2>4 DEF Acquire, rtVars
  <2>5. ASSUME Reply PROVE rt'[e] \in {"add", "up", "del"} /\ req' = NoReq
    <3>1. /\ req.op # "none" /\ req' = NoReq /\ req.step = "reply"
          /\ req.e \in Ends
      BY <1>0, <2>5, ReqFields DEF Reply, NoReq
    <3>2. rt' = Answered(req.e, req.ok)
      BY <2>5, CalmBefore DEF Reply
    <3>3. ~Deleting(e)
      BY <2>1, <3>1
    <3>4. CASE req.op = "ADD"
      <4>1. rt[req.e] = "add" /\ req.ok
        BY <2>5, <3>4, CalmBefore DEF Reply, CalmParts, CalmReq
      <4>2. CASE e = req.e
        BY <1>0, <3>1, <3>2, <3>4, <4>1, <4>2, AnsweredRt
      <4>3. CASE e # req.e
        <5>1. /\ req.e = <<req.e[1], req.e[2]>> /\ req.e[1] \in Pods
              /\ req.e[2] \in {1, 2}
          BY <3>1, EndFields DEF Ifs
        <5>2. req.e[2] = 1 => rt[<<req.e[1], 2>>] = "none"
          BY <1>0, <4>1, <5>1 DEF RtInv, PhaseOK
        <5>3. e # <<req.e[1], 2>>
          BY <2>1, <4>3, <5>1, <5>2
        <5>4. rt'[e] = rt[e]
          BY <1>0, <2>1, <3>1, <3>2, <3>4, <4>1, <4>3, <5>3, AnsweredRt
        <5>5. QED BY <2>1, <3>1, <5>4
      <4>4. QED BY <3>1, <4>2, <4>3
    <3>5. CASE req.op = "DEL"
      <4>1. e # req.e /\ req.ok
        BY <1>0, <3>3, <3>5 DEF Deleting, CalmParts, CalmReq
      <4>2. rt'[e] = rt[e]
        BY <1>0, <2>1, <3>1, <3>2, <3>5, <4>1, AnsweredRt
      <4>3. QED BY <2>1, <3>1, <4>2
    <3>6. QED BY <1>0, <3>1, <3>4, <3>5, ReqFields
  <2>6. ASSUME UNCHANGED vars PROVE rt'[e] = rt[e] /\ req' = req
    BY <2>6 DEF vars, rtVars
  <2>7. QED BY <2>1, <2>2, <2>3, <2>4, <2>5, <2>6 DEF Deleting, NoReq
<1>8. QED BY <1>1, <1>4, <1>6, <1>7 DEF CalmParts

\* The steps of an ADD before the MAC is stored.
LEMMA AddKeepsCalm ==
  ASSUME Inv, CalmParts, Calm', [Next]_vars, FindLink \/ MoveLinkIn \/ IpamAdd
  PROVE  CalmParts'
<1>0. Types /\ NamesOK /\ RtInv /\ ReqOK /\ LinkOK /\ Base /\ Work
  BY DEF Inv, Base, RtInv, Work
<1>1. PICK e \in Ends : req.e = e
  BY <1>0, WorkGoesOn
<1>2. /\ rt' = rt /\ dev' = dev /\ req.op = "ADD" /\ req'.op = "ADD" /\ req'.e = e
      /\ req.step # "reply"
  BY <1>0, <1>1, WorkGoesOn DEF FindLink, MoveLinkIn, IpamAdd, Handling
<1>3. macStore' = macStore /\ nfs' = nfs
  BY DEF FindLink, MoveLinkIn, IpamAdd
<1>4. ~Succeeded'
  BY <1>0, <1>2, GotoFields, FailFields
  DEF FindLink, MoveLinkIn, IpamAdd, Succeeded, Steps, AfterMove
<1>5. CalmReq'
  BY <1>1, <1>2 DEF CalmParts, CalmReq
<1>6. \A f \in Ends : ~Deleting(f) /\ ~Deleting(f)'
  BY <1>2 DEF Deleting
<1>7. \A f \in Ends : f # e => ~Adding(f) /\ ~Adding(f)'
  BY <1>1, <1>2 DEF Adding
<1>8. StoredSame
  BY <1>1, <1>2, <1>4, <1>6, <1>7 DEF StoredSame, Stored, Succeeded
<1>9. CalmMacs' /\ CalmNfs'
  BY <1>0, <1>2, <1>3, <1>8, CalmMacsKept DEF CalmParts
<1>10. rt[e] = "add"
  BY <1>1, <1>2 DEF CalmParts, CalmReq
<1>11. ips' \subseteq ips \cup {e}
  BY <1>1 DEF FindLink, MoveLinkIn, IpamAdd
<1>12. ips' # ips => e[1] \in IpamPods
  BY <1>0, <1>1 DEF FindLink, MoveLinkIn, IpamAdd, Handling, ReqOK
<1>13. ips \subseteq Ends
  BY <1>0 DEF Types
<1>14. CalmIps'
  <2> SUFFICES ASSUME NEW f \in ips'
               PROVE  /\ f \in Ends /\ f[1] \in IpamPods
                      /\ rt[f] \in {"add", "up", "del"}
    BY <1>2, <1>6 DEF CalmIps
  <2>1. CASE f \in ips
    BY <1>13, <2>1 DEF CalmParts, CalmIps
  <2>2. CASE f \notin ips
    BY <1>10, <1>11, <1>12, <2>2
  <2>3. QED BY <2>1, <2>2
<1>15. CASE FindLink \/ IpamAdd
  <2>1. link' = link
    BY <1>15 DEF FindLink, IpamAdd
  <2>2. (req.step \in {"ipam", "handler"}) <=> (req'.step \in {"ipam", "handler"})
    <3>1. CASE FindLink
      <4>1. req.step = "begin" /\ (Goto("move") \/ Fail)
        BY <3>1 DEF FindLink, Handling
      <4>2. QED BY <1>0, <1>2, <4>1, GotoFields, FailFields DEF Steps
    <3>2. CASE IpamAdd
      <4>1. req.step = "ipam" /\ Goto("handler")
        BY <3>2, CalmBefore DEF IpamAdd, Handling
      <4>2. QED BY <1>0, <1>2, <4>1, GotoFields DEF Steps
    <3>3. QED BY <1>15, <3>1, <3>2
  <2>3. InPodSame
    <3> SUFFICES ASSUME NEW f \in Ends PROVE InPod(f)' <=> InPod(f)
      BY DEF InPodSame
    <3>1. CASE f = e
      BY <1>1, <1>2, <1>4, <1>10, <2>2, <3>1 DEF InPod, Adding, Succeeded
    <3>2. CASE f # e
      BY <1>2, <1>6, <1>7, <3>2 DEF InPod
    <3>3. QED BY <3>1, <3>2
  <2>4. CalmLinks'
    BY <1>2, <2>1, <2>3, CalmLinksKept DEF CalmParts
  <2>5. QED BY <1>5, <1>9, <1>14, <2>4 DEF CalmParts
<1>16. CASE MoveLinkIn
  <2> DEFINE d == dev[e]
  <2>1. /\ Handling("ADD", "move") /\ SetLink(d, MovedIn(link[d], e))
        /\ Goto(AfterMove(e))
    BY <1>1, <1>16, CalmBefore DEF MoveLinkIn
  <2>2. /\ \A f \in Ends : f # e => Found(f)' = Found(f)
        /\ Found(e) = {}
        /\ d \in Links /\ \A c \in Links : c # d => link'[c] = link[c]
    BY <1>0, <1>1, <2>1, FoundMovingIn
  <2>3. /\ link'[d].at = e[1] /\ link'[d].name = IfName[e[2]]
        /\ link'[d].alias = link[d].name
    BY <1>0, <1>1, <2>1, MovedInStep
  <2>4. d \in Found(e)'
    BY <2>2, <2>3 DEF Found
  <2>5. link[d].at = Host
    BY <1>0, <1>1, <2>1 DEF LinkOK, MoveReady
  <2>6. link'[d].alias = "orig"
    <3>1. \A f \in Ends : d \notin Found(f)
      BY <2>5, FoundOnce
    <3>2. QED BY <2>2, <2>3, <3>1 DEF CalmParts, CalmLinks
  <2>7. req'.step \in {"ipam", "handler"}
    BY <1>0, <1>2, <2>1, GotoFields DEF AfterMove, Steps
  <2>8. InPod(e)'
    BY <1>2, <2>7 DEF InPod, Adding
  <2>9. \A f \in Ends : f # e => (InPod(f)' <=> InPod(f))
    BY <1>2, <1>6, <1>7 DEF InPod
  <2>10. \A f \in Ends : InPod(f)' => dev'[f] \in Found(f)'
    <3> SUFFICES ASSUME NEW f \in Ends, InPod(f)' PROVE dev[f] \in Found(f)'
      BY <1>2
    <3>1. CASE f = e
      BY <2>4, <3>1
    <3>2. CASE f # e
      BY <2>2, <2>9, <3>2 DEF CalmParts, CalmLinks
    <3>3. QED BY <3>1, <3>2
  <2>11. ASSUME NEW c \in Links
         PROVE  \/ link'[c].at = Host /\ link'[c].name = "orig"
                \/ /\ link'[c].alias = "orig"
                   /\ \E f \in Ends : InPod(f)' /\ c \in Found(f)'
    <3>1. CASE c = d
      BY <2>4, <2>6, <2>8, <3>1
    <3>2. CASE c # d
      <4>1. link'[c] = link[c]
        BY <2>2, <3>2
      <4>2. CASE link[c].at = Host /\ link[c].name = "orig"
        BY <4>1, <4>2
      <4>3. CASE link[c].alias = "orig" /\ \E f \in Ends : InPod(f) /\ c \in Found(f)
        <5>1. PICK f \in Ends : InPod(f) /\ c \in Found(f)
          BY <4>3
        <5>2. f # e
          BY <2>2, <5>1
        <5>3. QED BY <2>2, <2>9, <4>1, <4>3, <5>1, <5>2
      <4>4. QED BY <4>2, <4>3 DEF CalmParts, CalmLinks
    <3>3. QED BY <3>1, <3>2
  <2>12. CalmLinks'
    BY <2>10, <2>11 DEF CalmLinks
  <2>13. QED BY <1>5, <1>9, <1>14, <2>12 DEF CalmParts
<1>17. QED BY <1>15, <1>16

\* The steps of a DEL before the MAC is forgotten: none of them fails.
LEMMA DelKeepsCalm ==
  ASSUME Inv, CalmParts, Calm', [Next]_vars, DelBegin \/ IpamDel \/ MoveLinkOut
  PROVE  CalmParts'
<1>0. Types /\ NamesOK /\ RtInv /\ ReqOK /\ LinkOK /\ Base /\ Work /\ MacOK
  BY DEF Inv, Base, RtInv, Work
<1>1. PICK e \in Ends : req.e = e
  BY <1>0, WorkGoesOn
<1>2. /\ rt' = rt /\ dev' = dev /\ req.op = "DEL" /\ req'.op = "DEL" /\ req'.e = e
      /\ req.step # "reply" /\ req.ok /\ rt[e] = "del"
  BY <1>0, <1>1, WorkGoesOn DEF DelBegin, IpamDel, MoveLinkOut, Handling, ReqOK
<1>3. macStore' = macStore /\ nfs' = nfs
  BY DEF DelBegin, IpamDel, MoveLinkOut
<1>4. \A f \in Ends : ~Adding(f) /\ ~Adding(f)'
  BY <1>2 DEF Adding
<1>5. \A f \in Ends : f # e => ~Deleting(f) /\ ~Deleting(f)'
  BY <1>1, <1>2 DEF Deleting
<1>6. Deleting(e) /\ Deleting(e)'
  BY <1>1, <1>2 DEF Deleting
<1>7. e[1] \in netns
  BY EndFields, CalmBefore, <1>0 DEF MacOK, NetnsOK
<1>8. ASSUME req'.ok, req'.step # "reply" PROVE CalmReq' /\ CalmMacs' /\ CalmNfs'
  <2>1. CalmReq'
    BY <1>2, <1>8 DEF CalmParts, CalmReq
  <2>2. StoredSame
    BY <1>2, <1>4, <1>5, <1>8 DEF StoredSame, Stored
  <2>3. QED BY <1>0, <1>2, <1>3, <2>1, <2>2, CalmMacsKept DEF CalmParts
<1>9. CASE DelBegin \/ IpamDel
  <2>1. link' = link
    BY <1>9 DEF DelBegin, IpamDel
  <2>2. /\ req.step \notin {"handler", "reply"} /\ req'.ok
        /\ req'.step \in {"ipam", "move"} /\ ips' \subseteq ips
        /\ req'.step = "move" => e \notin ips'
    <3>1. CASE DelBegin
      <4>1. Goto(IF e[1] \in IpamPods THEN "ipam" ELSE "move")
        BY <1>1, <1>7, <3>1 DEF DelBegin
      <4>2. req.step = "begin" /\ ips' = ips
        BY <3>1 DEF DelBegin, Handling
      <4>3. CASE e[1] \in IpamPods
        BY <1>0, <1>2, <4>1, <4>2, <4>3, GotoFields DEF Steps
      <4>4. CASE e[1] \notin IpamPods
        <5>1. e \notin ips
          BY <4>4 DEF CalmParts, CalmIps
        <5>2. QED BY <1>0, <1>2, <4>1, <4>2, <4>4, <5>1, GotoFields DEF Steps
      <4>5. QED BY <4>3, <4>4
    <3>2. CASE IpamDel
      <4>1. req.step = "ipam" /\ Goto("move") /\ ips' = ips \ {e}
        BY <1>1, <3>2, CalmBefore DEF IpamDel, Handling
      <4>2. QED BY <1>0, <1>2, <4>1, GotoFields DEF Steps
    <3>3. QED BY <1>9, <3>1, <3>2
  <2>3. InPodSame
    BY <1>2, <1>4, <1>5, <2>2 DEF InPodSame, InPod
  <2>4. CalmLinks'
    BY <1>2, <2>1, <2>3, CalmLinksKept DEF CalmParts
  <2>5. CalmIps'
    <3> SUFFICES ASSUME NEW f \in ips'
                 PROVE  /\ f[1] \in IpamPods /\ rt[f] \in {"add", "up", "del"}
                        /\ Deleting(f)' => req'.step \in {"begin", "ipam"}
      BY <1>2 DEF CalmIps
    <3>1. f \in ips /\ f[1] \in IpamPods /\ rt[f] \in {"add", "up", "del"}
      BY <2>2 DEF CalmParts, CalmIps
    <3>2. Deleting(f)' => f = e
      BY <1>2 DEF Deleting
    <3>3. QED BY <2>2, <3>1, <3>2
  <2>6. QED BY <1>8, <2>2, <2>4, <2>5 DEF CalmParts
<1>10. CASE MoveLinkOut
  <2>1. req.step = "move"
    BY <1>10 DEF MoveLinkOut, Handling
  <2>2. InPod(e)
    BY <1>2, <2>1 DEF InPod
  <2>3. dev[e] \in Found(e)
    BY <2>2 DEF CalmParts, CalmLinks
  <2>4. PICK d \in Found(e) : SetLink(d, MovedOut(link[d])) /\ Goto("handler")
    BY <1>1, <1>10, <2>3, CalmBefore DEF MoveLinkOut
  <2>5. req'.ok /\ req'.step = "handler"
    BY <1>0, <1>2, <2>4, GotoFields DEF Steps
  <2>6. /\ \A f \in Ends : f # e => Found(f)' = Found(f)
        /\ Found(e)' = {}
        /\ d \in Links /\ \A c \in Links : c # d => link'[c] = link[c]
    BY <1>0, <1>1, <1>2, <2>4, FoundMovingOut
  <2>7. link'[d].at = Host /\ link'[d].name = link[d].alias
    BY <1>0, <1>1, <1>2, <2>4, MovedOutStep
  <2>8. link[d].alias = "orig"
    <3>1. link[d].at # Host
      BY FoundOnce
    <3>2. QED BY <2>6, <3>1 DEF CalmParts, CalmLinks
  <2>9. ~InPod(e)'
    BY <1>2, <1>4, <1>6, <2>5 DEF InPod
  <2>10. \A f \in Ends : f # e => (InPod(f)' <=> InPod(f))
    BY <1>2, <1>4, <1>5 DEF InPod
  <2>11. \A f \in Ends : InPod(f)' => dev'[f] \in Found(f)'
    BY <1>2, <2>6, <2>9, <2>10 DEF CalmParts, CalmLinks
  <2>12. ASSUME NEW c \in Links
         PROVE  \/ link'[c].at = Host /\ link'[c].name = "orig"
                \/ /\ link'[c].alias = "orig"
                   /\ \E f \in Ends : InPod(f)' /\ c \in Found(f)'
    <3>1. CASE c = d
      BY <2>7, <2>8, <3>1
    <3>2. CASE c # d
      <4>1. link'[c] = link[c]
        BY <2>6, <3>2
      <4>2. CASE link[c].at = Host /\ link[c].name = "orig"
        BY <4>1, <4>2
      <4>3. CASE link[c].alias = "orig" /\ \E f \in Ends : InPod(f) /\ c \in Found(f)
        <5>1. PICK f \in Ends : InPod(f) /\ c \in Found(f)
          BY <4>3
        <5>2. f # e
          BY <1>0, <3>2, <5>1, <2>4 DEF LinkOK, Owned, Found
        <5>3. QED BY <2>6, <2>10, <4>1, <4>3, <5>1, <5>2
      <4>4. QED BY <4>2, <4>3 DEF CalmParts, CalmLinks
    <3>3. QED BY <3>1, <3>2
  <2>13. CalmLinks'
    BY <2>11, <2>12 DEF CalmLinks
  <2>14. CalmIps'
    <3>1. ips' = ips
      BY <1>10 DEF MoveLinkOut
    <3>2. e \notin ips
      BY <1>6, <2>1 DEF CalmParts, CalmIps
    <3>3. QED BY <1>2, <1>5, <3>1, <3>2, <1>0 DEF CalmParts, CalmIps, Types
  <2>15. QED BY <1>8, <2>5, <2>13, <2>14 DEF CalmParts
<1>11. QED BY <1>9, <1>10

\* How many MACs of a pod are stored, and which.
CountOf(p) ==
    /\ \A i \in Ifs : ~Stored(<<p, i>>) => Len(macStore[p]) <= 1
    /\ (\A i \in Ifs : ~Stored(<<p, i>>)) => Len(macStore[p]) = 0
    /\ \A i \in Ifs : Stored(<<p, i>>) => Len(macStore[p]) >= 1
    /\ (\A i \in Ifs : Stored(<<p, i>>)) => Len(macStore[p]) = 2
    /\ \A k \in 1..Len(macStore[p]) : macStore[p][k] = dev[<<p, k>>]

LEMMA CalmMacsByPod == CalmMacs <=> \A p \in Pods : CountOf(p)
  BY DEF CalmMacs, CountOf

\* The count of a pod that a step does not concern.
LEMMA CountKept ==
  ASSUME NEW p \in Pods, CountOf(p), macStore'[p] = macStore[p], dev' = dev,
         \A i \in Ifs : Stored(<<p, i>>)' <=> Stored(<<p, i>>)
  PROVE  CountOf(p)'
  BY DEF CountOf

\* A list of two MACs names the network function of the pod.
LEMMA TwoMacs ==
  ASSUME NEW macs \in Seq(Links), NEW x, NEW y, Len(macs) = 2,
         macs[1] = x, macs[2] = y
  PROVE  macs = <<x, y>>
<1>1. macs \in [1..2 -> Links]
  BY LenProperties
<1>2. x \in Links /\ y \in Links
  BY <1>1
<1>3. <<x, y>> \in Seq(Links) /\ Len(<<x, y>>) = 2
  BY <1>2
<1>4. \A k \in 1..2 : macs[k] = <<x, y>>[k]
  OBVIOUS
<1>5. QED BY <1>3, <1>4, SeqEqual

LEMMA StoreKeepsCalm ==
  ASSUME Inv, CalmParts, Calm', [Next]_vars, StoreMac
  PROVE  CalmParts'
<1>0. Types /\ RtInv /\ ReqOK
  BY DEF Inv, Base, RtInv
<1>1. PICK e \in Ends : req.e = e
  BY <1>0, WorkGoesOn DEF Work
<1>2. /\ macStore'[e[1]] = Append(macStore[e[1]], dev[e]) /\ dev[e] \in Links
      /\ \A p \in Pods : p # e[1] => macStore'[p] = macStore[p]
      /\ link' = link /\ rt' = rt /\ dev' = dev
      /\ req.op = "ADD" /\ req.step = "handler" /\ req.ok
      /\ req'.op = "ADD" /\ req'.e = e /\ req'.step = "reply" /\ req'.ok
  BY <1>0, <1>1, StoreMacLen
<1>3. PICK p \in Pods, i \in {1, 2} : e = <<p, i>> /\ e[1] = p
  BY EndFields DEF Ifs
<1>4. rt[e] = "add"
  BY <1>1, <1>2 DEF CalmParts, CalmReq
<1>5. \A f \in Ends : ~Deleting(f) /\ ~Deleting(f)' /\ (Adding(f) <=> f = e)
                      /\ (Adding(f)' <=> f = e)
  BY <1>1, <1>2 DEF Adding, Deleting
<1>6. Succeeded' /\ ~Succeeded
  BY <1>2 DEF Succeeded
<1>7. CalmReq'
  BY <1>2, <1>4 DEF CalmParts, CalmReq
<1>8. InPodSame
  BY <1>2, <1>5, <1>6 DEF InPodSame, InPod
<1>9. CalmLinks'
  BY <1>2, <1>8, CalmLinksKept DEF CalmParts
<1>10. CalmIps'
  <2>1. ips' = ips /\ ips \subseteq Ends
    BY <1>0 DEF StoreMac, Types
  <2>2. QED BY <1>2, <1>5, <2>1 DEF CalmParts, CalmIps
<1>11. Stored(e)' /\ ~Stored(e) /\ \A f \in Ends : f # e => (Stored(f)' <=> Stored(f))
  BY <1>2, <1>4, <1>5, <1>6 DEF Stored
<1>12. \A q \in Pods : q # p => CountOf(q)'
  <2> SUFFICES ASSUME NEW q \in Pods, q # p PROVE CountOf(q)'
    OBVIOUS
  <2>1. \A j \in Ifs : <<q, j>> # e /\ <<q, j>> \in Ends
    BY <1>3 DEF Ends
  <2>2. QED
    BY <1>2, <1>3, <1>11, <2>1, CountKept, CalmMacsByPod DEF CalmParts
<1> DEFINE macs == macStore'[p]
           old == macStore[p]
<1>13. CountOf(p) /\ old \in Seq(Links) /\ macs = Append(old, dev[e])
  BY <1>0, <1>2, <1>3, MacLen, CalmMacsByPod DEF CalmParts
<1>14. CASE i = 1
  <2>1. rt[<<p, 2>>] = "none" /\ <<p, 2>> # e /\ <<p, 2>> \in Ends /\ <<p, 1>> = e
    BY <1>0, <1>3, <1>4, <1>14, EndFields DEF RtInv, PhaseOK
  <2>2. ~Stored(<<p, 2>>) /\ ~Stored(<<p, 2>>)'
    BY <1>2, <1>5, <1>11, <2>1 DEF Stored
  <2>3. Len(old) = 0
    BY <1>11, <1>13, <2>1, <2>2 DEF CountOf, Ifs
  <2>4. Len(macs) = 1 /\ macs[1] = dev[<<p, 1>>] /\ macs \in Seq(Links)
    BY <1>2, <1>13, <2>1, <2>3
  <2>5. CountOf(p)'
    <3> HIDE DEF macs
    <3>1. /\ \A j \in Ifs : ~Stored(<<p, j>>)' => Len(macs) <= 1
          /\ \A j \in Ifs : Stored(<<p, j>>)' => Len(macs) >= 1
          /\ \A k \in 1..Len(macs) : macs[k] = dev[<<p, k>>]
      BY <2>4
    <3>2. (\E j \in Ifs : Stored(<<p, j>>)') /\ (\E j \in Ifs : ~Stored(<<p, j>>)')
      BY <1>11, <2>1, <2>2 DEF Ifs
    <3>3. QED BY <1>2, <3>1, <3>2 DEF CountOf, macs
  <2>6. nfs' = nfs
    <3>1. nfs' = IF Len(Append(macStore[req.e[1]], dev[req.e])) = 2
                 THEN nfs \cup {Append(macStore[req.e[1]], dev[req.e])} ELSE nfs
      BY CalmBefore DEF StoreMac
    <3>2. Len(Append(macStore[req.e[1]], dev[req.e])) = 1
      BY <1>1, <1>3, <1>13, <2>4
    <3>3. QED BY <3>1, <3>2
  <2>7. \A q \in Pods : Both(q)' <=> Both(q)
    <3> SUFFICES ASSUME NEW q \in Pods PROVE Both(q)' <=> Both(q)
      OBVIOUS
    <3>1. CASE q = p
      BY <2>2, <3>1 DEF Both, Ifs
    <3>2. CASE q # p
      BY <1>3, <1>11, <3>2 DEF Both, Ends
    <3>3. QED BY <3>1, <3>2
  <2>8. CalmNfs'
    BY <1>2, <2>6, <2>7 DEF CalmParts, CalmNfs, Nf
  <2>9. QED
    BY <1>7, <1>9, <1>10, <1>12, <2>5, <2>8 DEF CalmParts, CalmMacs, CountOf
<1>15. CASE i = 2
  <2>1. rt[<<p, 1>>] = "up" /\ <<p, 1>> # e /\ <<p, 1>> \in Ends /\ <<p, 2>> = e
    BY <1>0, <1>3, <1>4, <1>15, EndFields DEF RtInv, PhaseOK
  <2>2. Stored(<<p, 1>>) /\ Stored(<<p, 1>>)'
    BY <1>11, <2>1 DEF Stored
  <2>3. Len(old) = 1
    <3>1. Len(old) >= 1 /\ Len(old) <= 1
      BY <1>11, <1>13, <2>1, <2>2 DEF CountOf, Ifs
    <3>2. \A n \in Nat : n >= 1 /\ n <= 1 => n = 1
      OBVIOUS
    <3>3. Len(old) \in Nat
      BY <1>13
    <3>4. QED BY <3>1, <3>2, <3>3
  <2>4. old[1] = dev[<<p, 1>>]
    <3>1. 1 \in 1..Len(old)
      BY <2>3
    <3>2. QED BY <1>13, <3>1 DEF CountOf
  <2>5. /\ Len(macs) = 2 /\ macs[1] = dev[<<p, 1>>] /\ macs[2] = dev[<<p, 2>>]
        /\ macs \in Seq(Links)
    BY <1>2, <1>13, <2>1, <2>3, <2>4
  <2>6. macs = Nf(p)
    BY <2>5, TwoMacs DEF Nf
  <2>7. \A j \in Ifs : Stored(<<p, j>>)'
    BY <1>11, <2>1, <2>2 DEF Ifs
  <2>8. CountOf(p)'
    <3> HIDE DEF macs
    <3>1. \A k \in 1..Len(macs) : macs[k] = dev[<<p, k>>]
      BY <2>5
    <3>2. QED BY <1>2, <2>5, <2>7, <3>1 DEF CountOf, macs, Ifs
  <2>9. nfs' = nfs \cup {Nf(p)}
    <3>1. nfs' = IF Len(Append(macStore[req.e[1]], dev[req.e])) = 2
                 THEN nfs \cup {Append(macStore[req.e[1]], dev[req.e])} ELSE nfs
      BY CalmBefore DEF StoreMac
    <3>2. Append(macStore[req.e[1]], dev[req.e]) = macs
      BY <1>1, <1>3, <1>13
    <3>3. QED BY <2>5, <2>6, <3>1, <3>2
  <2>10. Both(p)' /\ \A q \in Pods : q # p => (Both(q)' <=> Both(q))
    <3>1. Both(p)'
      BY <2>7 DEF Both
    <3>2. \A q \in Pods : q # p => (Both(q)' <=> Both(q))
      BY <1>3, <1>11 DEF Both, Ends
    <3>3. QED BY <3>1, <3>2
  <2>11. ~Both(p)
    BY <1>11, <2>1 DEF Both, Ifs
  <2>12. CalmNfs'
    <3>1. \A q \in Pods : Nf(q)' = Nf(q)
      BY <1>2 DEF Nf
    <3>2. QED BY <2>9, <2>10, <2>11, <3>1 DEF CalmParts, CalmNfs
  <2>13. QED
    BY <1>7, <1>9, <1>10, <1>12, <2>8, <2>12 DEF CalmParts, CalmMacs, CountOf
<1>16. QED BY <1>14, <1>15

\* No two pods have a network function of the same links: while the DEL of an
\* interface of p is at the list, the other link of p is still in p.
LEMMA FunctionsDiffer ==
  ASSUME Inv, CalmParts, NEW p \in Pods, NEW q \in Pods, p # q,
         req.op = "DEL", req.e[1] = p, Both(p), Both(q)
  PROVE  Nf(p) # Nf(q)
<1>0. Types
  BY DEF Inv, Base
<1>1. PICK i \in {1, 2}, k \in {1, 2} : req.e = <<p, i>> /\ k # i
  BY <1>0, ReqFields, EndFields DEF Ifs
<1>2. <<p, k>> \in Ends /\ <<q, k>> \in Ends /\ <<p, k>> # req.e /\ <<q, k>> # req.e
  BY <1>1 DEF Ends, Ifs
<1>3. \A f \in Ends : f # req.e /\ Stored(f) => InPod(f)
  BY DEF Stored, InPod, Adding, Deleting
<1>4. Stored(<<p, k>>) /\ Stored(<<q, k>>)
  BY DEF Both, Ifs
<1>5. dev[<<p, k>>] \in Found(<<p, k>>) /\ dev[<<q, k>>] \in Found(<<q, k>>)
  BY <1>2, <1>3, <1>4 DEF CalmParts, CalmLinks
<1>6. <<p, k>> # <<q, k>>
  OBVIOUS
<1>7. dev[<<p, k>>] # dev[<<q, k>>]
  BY <1>2, <1>5, <1>6, FoundOnce
<1>8. QED BY <1>7 DEF Nf

LEMMA DropKeepsCalm ==
  ASSUME Inv, CalmParts, Calm', [Next]_vars, DropMac
  PROVE  CalmParts'
<1>0. Types /\ RtInv /\ ReqOK
  BY DEF Inv, Base, RtInv
<1>1. PICK e \in Ends : req.e = e
  BY <1>0, WorkGoesOn DEF Work
<1>2. req.op = "DEL" /\ req.step = "handler" /\ rt[e] = "del"
  BY <1>0, <1>1 DEF DropMac, Handling, ReqOK
<1>3. PICK p \in Pods, i \in Ifs : e = <<p, i>> /\ e[1] = p
  BY EndFields
<1> DEFINE macs == macStore'[p]
           old == macStore[p]
<1>4. old # <<>>
  BY <1>1, <1>2, <1>3, CalmBefore, DelHasMac DEF Inv
<1>5. /\ \A q \in Pods : q # p => macStore'[q] = macStore[q]
      /\ Len(macs) = Len(old) - 1
      /\ \A k \in 1..Len(old) - 1 : macs[k] = old[k]
      /\ link' = link /\ rt' = rt /\ dev' = dev
      /\ req'.op = "DEL" /\ req'.e = e /\ req'.step = "reply" /\ req'.ok
  BY <1>0, <1>1, <1>3, <1>4, DropMacLen
<1>6. nfs' = nfs \ {old} /\ ips' = ips
  BY <1>1, <1>3, CalmBefore DEF DropMac
<1>7. \A f \in Ends : /\ ~Adding(f) /\ ~Adding(f)'
                      /\ Deleting(f) <=> f = e
                      /\ Deleting(f)' <=> f = e
  BY <1>1, <1>2, <1>5 DEF Adding, Deleting
<1>8. CalmReq'
  BY <1>5 DEF CalmParts, CalmReq
<1>9. InPodSame
  BY <1>2, <1>5, <1>7 DEF InPodSame, InPod
<1>10. CalmLinks'
  BY <1>5, <1>9, CalmLinksKept DEF CalmParts
<1>11. CalmIps'
  <2>1. e \notin ips
    BY <1>2, <1>7 DEF CalmParts, CalmIps
  <2>2. QED BY <1>0, <1>5, <1>6, <1>7, <2>1 DEF CalmParts, CalmIps, Types
<1>12. Stored(e) /\ ~Stored(e)' /\ \A f \in Ends : f # e => (Stored(f)' <=> Stored(f))
  BY <1>2, <1>5, <1>7 DEF Stored
<1>13. \A q \in Pods : q # p => CountOf(q)'
  <2> SUFFICES ASSUME NEW q \in Pods, q # p PROVE CountOf(q)'
    OBVIOUS
  <2>1. \A j \in Ifs : <<q, j>> # e /\ <<q, j>> \in Ends
    BY <1>3 DEF Ends
  <2>2. QED
    BY <1>5, <1>12, <2>1, CountKept, CalmMacsByPod DEF CalmParts
<1>14. CountOf(p) /\ old \in Seq(Links) /\ Len(old) \in Nat
  BY <1>0, MacLen, CalmMacsByPod DEF CalmParts
<1>15. PICK k \in Ifs : k # i /\ \A j \in Ifs : j = i \/ j = k
  BY DEF Ifs
<1>16. <<p, k>> # e /\ <<p, k>> \in Ends /\ (Stored(<<p, k>>)' <=> Stored(<<p, k>>))
  BY <1>3, <1>12, <1>15 DEF Ends
<1>17. Stored(<<p, i>>) /\ ~Stored(<<p, i>>)' /\ ~Both(p)'
  BY <1>3, <1>12 DEF Both
<1>18. \A q \in Pods : q # p => (Both(q)' <=> Both(q))
  BY <1>3, <1>12 DEF Both, Ends
<1>19. \A q \in Pods : Nf(q)' = Nf(q)
  BY <1>5 DEF Nf
<1>20. \A j \in 1..Len(macs) : macs[j] = dev'[<<p, j>>]
  <2>1. \A n \in Nat : \A j \in 1..n - 1 : j \in 1..n
    OBVIOUS
  <2>2. QED BY <1>5, <1>14, <2>1 DEF CountOf
<1>21. CASE Stored(<<p, k>>)
  <2>1. Both(p)
    BY <1>15, <1>17, <1>21 DEF Both
  <2>2. Len(old) = 2 /\ Len(macs) = 1
    <3>1. Len(old) = 2
      BY <1>14, <2>1 DEF CountOf, Both
    <3>2. QED BY <1>5, <3>1
  <2>3. CountOf(p)'
    <3>1. (\E j \in Ifs : Stored(<<p, j>>)') /\ (\E j \in Ifs : ~Stored(<<p, j>>)')
      BY <1>16, <1>17, <1>21
    <3>2. Len(macs) <= 1 /\ Len(macs) >= 1
      BY <2>2
    <3>3. QED BY <1>20, <3>1, <3>2 DEF CountOf
  <2>4. old = Nf(p)
    <3>1. 1 \in 1..Len(old) /\ 2 \in 1..Len(old)
      BY <2>2
    <3>2. old[1] = dev[<<p, 1>>] /\ old[2] = dev[<<p, 2>>]
      BY <1>14, <3>1 DEF CountOf
    <3>3. QED BY <1>14, <2>2, <3>2, TwoMacs DEF Nf
  <2>5. \A q \in Pods : q # p /\ Both(q) => Nf(q) # Nf(p)
    BY <1>1, <1>2, <1>3, <2>1, FunctionsDiffer
  <2>6. CalmNfs'
    BY <1>6, <1>17, <1>18, <1>19, <2>1, <2>4, <2>5 DEF CalmParts, CalmNfs
  <2>7. QED
    BY <1>8, <1>10, <1>11, <1>13, <2>3, <2>6 DEF CalmParts, CalmMacs, CountOf
<1>22. CASE ~Stored(<<p, k>>)
  <2>1. ~Both(p)
    BY <1>22 DEF Both
  <2>2. Len(old) = 1 /\ Len(macs) = 0
    <3>1. Len(old) >= 1 /\ Len(old) <= 1
      BY <1>14, <1>17, <1>22 DEF CountOf
    <3>2. \A n \in Nat : n >= 1 /\ n <= 1 => n = 1
      OBVIOUS
    <3>3. Len(old) = 1
      BY <1>14, <3>1, <3>2
    <3>4. QED BY <1>5, <3>3
  <2>3. CountOf(p)'
    <3>1. \A j \in Ifs : ~Stored(<<p, j>>)'
      BY <1>15, <1>16, <1>17, <1>22
    <3>2. Len(macs) = 0 /\ Len(macs) <= 1
      BY <2>2
    <3>3. QED BY <1>20, <3>1, <3>2 DEF CountOf, Ifs
  <2>4. old \notin nfs
    <3>1. \A nf \in Links \X Links : Len(nf) = 2
      OBVIOUS
    <3>2. QED BY <1>0, <2>2, <3>1 DEF Types
  <2>5. nfs' = nfs
    BY <1>6, <2>4
  <2>6. CalmNfs'
    BY <1>17, <1>18, <1>19, <2>1, <2>5 DEF CalmParts, CalmNfs
  <2>7. QED
    BY <1>8, <1>10, <1>11, <1>13, <2>3, <2>6 DEF CalmParts, CalmMacs, CountOf
<1>23. QED BY <1>21, <1>22

LEMMA CalmStep ==
  ASSUME Inv, CalmOK, [Next]_vars
  PROVE  CalmOK'
<1> SUFFICES ASSUME Calm' PROVE CalmParts'
  BY DEF CalmOK
<1>1. CalmParts
  BY CalmBefore DEF CalmOK
<1>2. CASE FindLink \/ MoveLinkIn \/ IpamAdd
  BY <1>1, <1>2, AddKeepsCalm
<1>3. CASE StoreMac
  BY <1>1, <1>3, StoreKeepsCalm
<1>4. CASE DelBegin \/ IpamDel \/ MoveLinkOut
  BY <1>1, <1>4, DelKeepsCalm
<1>5. CASE DropMac
  BY <1>1, <1>5, DropKeepsCalm
<1>6. CASE \/ \E p \in Pods, d1, d2 \in Links : CreatePod(p, d1, d2)
           \/ \E p \in Pods : StopPod(p)
           \/ \E e \in Ends : Acquire(e)
           \/ Reply
           \/ UNCHANGED vars
  BY <1>1, <1>6, RuntimeKeepsCalm
<1>7. QED BY <1>2, <1>3, <1>4, <1>5, <1>6, CalmBefore DEF Next, Handle

LEMMA CalmInit ==
  ASSUME Init
  PROVE  CalmOK
<1> SUFFICES CalmParts
  BY DEF CalmOK
<1>1. req = NoReq /\ (\A e \in Ends : rt[e] = "none")
  BY DEF Init
<1>2. \A e \in Ends : ~InPod(e) /\ ~Stored(e)
  BY <1>1 DEF InPod, Stored, Adding, NoReq
<1>3. CalmReq
  BY <1>1 DEF CalmReq, NoReq
<1>4. CalmLinks
  BY <1>2 DEF CalmLinks, Init
<1>5. CalmIps
  BY DEF CalmIps, Init
<1>6. \A p \in Pods, i \in Ifs : ~Stored(<<p, i>>)
  BY <1>2 DEF Ends
<1>7. \A p \in Pods : macStore[p] = <<>> /\ Len(macStore[p]) = 0
  BY DEF Init
<1>8. CalmMacs
  <2> SUFFICES ASSUME NEW p \in Pods
               PROVE  /\ \A i \in Ifs : ~Stored(<<p, i>>) => Len(macStore[p]) <= 1
                      /\ (\A i \in Ifs : ~Stored(<<p, i>>)) => Len(macStore[p]) = 0
                      /\ \A i \in Ifs : Stored(<<p, i>>) => Len(macStore[p]) >= 1
                      /\ (\A i \in Ifs : Stored(<<p, i>>)) => Len(macStore[p]) = 2
                      /\ \A k \in 1..Len(macStore[p]) :
                            macStore[p][k] = dev[<<p, k>>]
    BY DEF CalmMacs
  <2>1. \A n : n = 0 => n <= 1 /\ 1..n = {}
    OBVIOUS
  <2>2. Len(macStore[p]) <= 1 /\ 1..Len(macStore[p]) = {}
    BY <1>7, <2>1
  <2>3. 1 \in Ifs
    BY DEF Ifs
  <2>4. \A i \in Ifs : ~Stored(<<p, i>>)
    BY <1>6
  <2> HIDE DEF Ifs
  <2>5. QED BY <1>7, <2>2, <2>3, <2>4, Zenon
<1>9. CalmNfs
  BY <1>6 DEF CalmNfs, Both, Ifs, Init
<1>10. QED BY <1>3, <1>4, <1>5, <1>8, <1>9 DEF CalmParts

LEMMA CalmHolds == Spec => [](Inv /\ CalmOK)
<1>1. Init => CalmOK
  BY CalmInit
<1>2. Inv /\ CalmOK /\ [Next]_vars => CalmOK'
  BY CalmStep
<1>3. QED BY <1>1, <1>2, InvHolds, PTL DEF Spec

\* As long as nothing has failed, CreateNetworkFunction and DeleteNetworkFunction
\* leave the VSP with the pairs of links of the pods that have both, whatever the
\* order of the DELs and although links are given to another pod in between.
THEOREM FunctionsAreExact == Spec => []NfExact
<1>1. ASSUME Inv, CalmOK PROVE NfExact
  <2> SUFFICES ASSUME Calm
               PROVE  /\ \A p \in Pods : (\A i \in Ifs : rt[<<p, i>>] = "up") =>
                                             Nf(p) \in nfs
                      /\ \A nf \in nfs : \E p \in Pods :
                            nf = Nf(p) /\ \A i \in Ifs : rt[<<p, i>>] # "gone"
    BY DEF NfExact
  <2>1. CalmReq /\ CalmNfs
    BY <1>1 DEF CalmOK, CalmParts
  <2>2. \A p \in Pods : (\A i \in Ifs : rt[<<p, i>>] = "up") => Both(p)
    BY DEF Both, Stored
  <2>3. \A p \in Pods : Both(p) => \A i \in Ifs : rt[<<p, i>>] # "gone"
    <3> SUFFICES ASSUME NEW p \in Pods, Both(p), NEW i \in Ifs
                 PROVE  rt[<<p, i>>] # "gone"
      OBVIOUS
    <3>1. Stored(<<p, i>>)
      BY DEF Both
    <3>2. Adding(<<p, i>>) => rt[<<p, i>>] = "add"
      BY <2>1 DEF Adding, CalmReq
    <3>3. QED BY <3>1, <3>2 DEF Stored
  <2>4. QED BY <2>1, <2>2, <2>3 DEF CalmNfs
<1>2. QED BY <1>1, CalmHolds, PTL

\* As long as nothing has failed no DEL fails, and what it has deleted is given
\* back: the link to the host under its name, the address to the IPAM plugin.
THEOREM DeletedIsGivenBack == Spec => []DelGivesBack
<1>1. ASSUME Inv, CalmOK PROVE DelGivesBack
  <2> SUFFICES ASSUME Calm
               PROVE  /\ req.op = "DEL" => req.ok
                      /\ \A e \in Ends : rt[e] = "gone" /\ dev[e] # None =>
                            LET l == link[dev[e]] IN
                            /\ e \notin ips
                            /\ l.at # e[1] /\ (l.at = Host => l.name = "orig")
    BY DEF DelGivesBack
  <2>1. CalmReq /\ CalmLinks /\ CalmIps /\ Types /\ RtInv /\ LinkOK
    BY <1>1 DEF CalmOK, CalmParts, Inv, Base
  <2>2. ASSUME NEW e \in Ends, rt[e] = "gone"
        PROVE  /\ e \notin ips /\ link[dev[e]].at # e[1]
               /\ link[dev[e]].at = Host => link[dev[e]].name = "orig"
    <3> DEFINE d == dev[e]
    <3>1. d \in Links
      BY <2>1, <2>2, DevOfEnd
    <3>2. e \notin ips
      BY <2>1, <2>2 DEF CalmIps
    <3>3. CASE link[d].at = Host /\ link[d].name = "orig"
      BY <3>2, <3>3, EndFields, ConstantsAssumption
    <3>4. CASE \E f \in Ends : InPod(f) /\ d \in Found(f)
      <4>1. PICK f \in Ends : InPod(f) /\ d \in Found(f)
        BY <3>4
      <4>2. link[d].at = f[1] /\ link[d].at # Host
        BY <4>1, FoundOnce
      <4>3. f # e
        BY <2>1, <2>2, <4>1 DEF InPod, Adding, CalmReq
      <4>4. dev[f] = d
        BY <2>1, <3>1, <4>1 DEF LinkOK, Owned
      <4>5. f[1] # e[1]
        <5> SUFFICES ASSUME f[1] = e[1] PROVE FALSE
          OBVIOUS
        <5>1. PICK p \in Pods : {e, f} = {<<p, 1>>, <<p, 2>>}
          <6>1. /\ e = <<e[1], e[2]>> /\ f = <<e[1], f[2]>> /\ e[1] \in Pods
                /\ e[2] \in {1, 2} /\ f[2] \in {1, 2}
            BY EndFields DEF Ifs
          <6>2. \/ e = <<e[1], 1>> /\ f = <<e[1], 2>>
                \/ e = <<e[1], 2>> /\ f = <<e[1], 1>>
            BY <4>3, <6>1
          <6>3. QED BY <6>1, <6>2
        <5>2. dev[<<p, 1>>] = dev[<<p, 2>>] /\ dev[<<p, 1>>] = d
          BY <4>4, <5>1
        <5>3. QED BY <2>1, <3>1, <5>2, ConstantsAssumption DEF RtInv, DevOK
      <4>6. QED BY <3>2, <4>2, <4>5
    <3>5. QED BY <2>1, <3>1, <3>3, <3>4 DEF CalmLinks
  <2>3. QED BY <2>1, <2>2 DEF CalmReq
<1>2. QED BY <1>1, CalmHolds, PTL
=============================================================================
