------------------------ MODULE NodeProtectionProofs ------------------------
(***************************************************************************)
(* Theorems about NodeProtection, for any nodes, zones, handlers and       *)
(* bounds.                                                                 *)
(***************************************************************************)
EXTENDS NodeProtection, TLAPS

-----------------------------------------------------------------------------
(***************************************************************************)
(* One change of one node.                                                 *)
(***************************************************************************)

\* What achieved says of a node's object.
Done(k, o) ==
  CASE k = "protect"   -> o.annotated /\ o.cordoned
    [] k = "unprotect" -> ~o.annotated /\ ~o.cordoned
    [] k = "taint"     -> o.taint # NoTaint
    [] OTHER           -> o.taint = NoTaint

\* The first of the two stages of work k has been done to o.
FirstDone(k, o) ==
  (k = "protect" => o.annotated) /\ (k = "unprotect" => ~o.annotated)

\* A write yields an object again, and touches only what its work is about.
LEMMA Changes ==
  ASSUME NEW k \in Kinds, NEW s \in {"first", "second"}, NEW z \in NodeZone,
         NEW o \in NodeObject
  PROVE  /\ changed(k, s, z, o) \in NodeObject
         /\ changed(k, s, z, o).annotated => o.annotated \/ k = "protect"
         /\ changed(k, s, z, o).cordoned => o.cordoned \/ k = "protect"
         /\ o.cordoned /\ k # "unprotect" => changed(k, s, z, o).cordoned
         /\ \/ changed(k, s, z, o).taint \in {o.taint, NoTaint}
            \/ k = "taint" /\ changed(k, s, z, o).taint = z
  BY DEF Kinds, NodeObject, changed, annotateNode, cordonNode, removeAnnotation,
         uncordonNode, taintNode, untaintNode

\* A write of the same work undoes nothing, and the last one completes the work.
LEMMA ChangesAdvance ==
  ASSUME NEW k \in Kinds, NEW s \in {"first", "second"}, NEW z \in NodeZone,
         NEW o \in NodeObject
  PROVE  /\ Done(k, o) => Done(k, changed(k, s, z, o))
         /\ FirstDone(k, o) \/ s = "first" => FirstDone(k, changed(k, s, z, o))
         /\ following(k, s, o) = "none" /\ (s = "second" => FirstDone(k, o))
              => Done(k, changed(k, s, z, o))
  BY ProtectionAssumption
     DEF Kinds, NodeObject, changed, annotateNode, cordonNode, removeAnnotation,
         uncordonNode, taintNode, untaintNode, Done, FirstDone, following, ProtectionAssumption

\* A stage that has nothing to write was done before.
LEMMA NothingToWrite ==
  ASSUME NEW k \in Kinds, NEW s \in {"first", "second"}, NEW o \in NodeObject,
         ~needsWrite(k, s, o)
  PROVE  /\ following(k, s, o) = "second" => FirstDone(k, o)
         /\ following(k, s, o) = "none" /\ (s = "second" => FirstDone(k, o)) => Done(k, o)
  BY DEF Kinds, NodeObject, needsWrite, following, Done, FirstDone

LEMMA Followings ==
  ASSUME NEW k, NEW s, NEW o
  PROVE  following(k, s, o) \in {"none", "second"}
  BY DEF following

\* The nodes looked up are tracked, and those of one zone are stored with it.
LEMMA LookedUp ==
  ASSUME nodes \in Store, NEW z \in NodeZone
  PROVE  /\ lookedUp(z) \subseteq Tracked(nodes)
         /\ z # NoZone => \A n \in lookedUp(z) : nodes[n] = z
  BY DEF lookedUp, GetNodesByAZ, Tracked

-----------------------------------------------------------------------------
(***************************************************************************)
(* Types, and where the handlers are.                                      *)
(***************************************************************************)

LEMMA TypeInit == Init => TypeOK
<1>. SUFFICES ASSUME Init PROVE TypeOK
  OBVIOUS
<1>1. [annotated |-> FALSE, cordoned |-> FALSE, taint |-> NoTaint] \in NodeObject
  BY DEF NodeObject
<1>2. api \in [Node -> NodeObject \cup {Missing}]
  BY <1>1 DEF Init
<1>3. nodes \in Store
  BY ProtectionAssumption DEF Init, Store, ProtectionAssumption
<1>4. 0 \in 0 .. MaxTrouble
  BY ProtectionAssumption DEF ProtectionAssumption
<1>5. NoZone \in NodeZone
  BY StoreAssumption DEF StoreAssumption
<1>. QED  BY <1>2, <1>3, <1>4, <1>5 DEF Init, TypeOK

LEMMA TroubleType ==
  ASSUME trouble \in 0 .. MaxTrouble, Trouble \/ UNCHANGED trouble
  PROVE  trouble' \in 0 .. MaxTrouble /\ (trouble' = 0 => trouble = 0 /\ UNCHANGED trouble)
  BY ProtectionAssumption DEF Trouble, ProtectionAssumption

\* What a handler has read it still has to write, on a node that it looked up.
Places ==
  /\ \A n \in Node : nodes[n] \in {NotStored, zoneOf[n]}
  /\ \A h \in Handler : \A n \in scope[h] : zone[h] \in {zoneOf[n], NoZone}
  /\ \A h \in Handler, n \in Node : stage[h][n] # "none" => Work(h) /\ n \in scope[h]
  /\ \A h \in Handler, n \in Node : copy[h][n] # Missing => stage[h][n] # "none"
  /\ \A h \in Started : kind[h] \in Kinds /\ (kind[h] = "taint" => zone[h] # NoZone)

Placed == TypeOK /\ Places

LEMMA PlacedInit == Init => Placed
  BY TypeInit, StoreAssumption DEF Placed, Places, Init, Started, StoreAssumption

LEMMA PlacedBegin ==
  ASSUME Placed, NEW h \in Handler, NEW k \in Kinds, NEW z \in NodeZone, Begin(h, k, z)
  PROVE  Placed'
<1>. USE DEF Placed, TypeOK
<1>1. lookedUp(z) \subseteq Node
  BY DEF lookedUp, GetNodesByAZ, Tracked
<1>2. TypeOK'
  BY <1>1 DEF Begin
<1>3. \A n \in lookedUp(z) : z \in {zoneOf[n], NoZone}
  BY <1>1, LookedUp DEF Places, Tracked
<1>4. Places'
  BY <1>1, <1>3 DEF Places, Begin, updateCalls, restoreCalls, Work, Started
<1>. QED  BY <1>2, <1>4

LEMMA PlacedGet ==
  ASSUME Placed, NEW h \in Handler, NEW n \in Node, Get(h, n)
  PROVE  Placed'
<1>. USE DEF Placed
<1>1. PICK s \in {"none", "second", stage[h][n]}, c \in {Missing, api[n]} :
        /\ stage' = [stage EXCEPT ![h][n] = s]
        /\ copy' = [copy EXCEPT ![h][n] = c]
        /\ c # Missing => s # "none"
  <2>1. stage = [stage EXCEPT ![h][n] = stage[h][n]] /\ copy = [copy EXCEPT ![h][n] = Missing]
    BY DEF Get, TypeOK
  <2>. QED  BY <2>1, Followings DEF Get, Proceed
<1>2. Trouble \/ UNCHANGED trouble
  BY Zenon DEF Get
<1>3. trouble' \in 0 .. MaxTrouble
  BY <1>2, TroubleType DEF TypeOK
<1>4. stage' \in [Handler -> [Node -> {"none", "first", "second"}]]
  BY <1>1 DEF TypeOK
<1>5. copy' \in [Handler -> [Node -> NodeObject \cup {Missing}]]
  BY <1>1 DEF TypeOK
<1>6. TypeOK'
  BY <1>3, <1>4, <1>5 DEF TypeOK, Get
<1>7. Places'
  BY <1>1 DEF Places, TypeOK, Get, Work, Started
<1>. QED  BY <1>6, <1>7

\* What the PUT of a stage does, for the proofs below.
LEMMA UpdateEffect ==
  ASSUME Placed, NEW h \in Handler, NEW n \in Node, Update(h, n)
  PROVE  /\ kind[h] \in Kinds /\ stage[h][n] \in {"first", "second"} /\ zone[h] \in NodeZone
         /\ n \in scope[h] /\ zone[h] \in {zoneOf[n], NoZone}
         /\ kind[h] = "taint" => zone[h] = zoneOf[n]
         /\ \/ /\ api[n] \in NodeObject /\ copy[h][n] = api[n]
               /\ api' = [api EXCEPT ![n] = changed(kind[h], stage[h][n], zone[h], api[n])]
               /\ stage' = [stage EXCEPT ![h][n] = following(kind[h], stage[h][n], api[n])]
               /\ UNCHANGED trouble
            \/ /\ UNCHANGED api
               /\ stage' = [stage EXCEPT ![h][n] = "none"]
               /\ (copy[h][n] # api[n] /\ UNCHANGED trouble) \/ Trouble
<1>1. h \in Started /\ stage[h][n] # "none"
  BY DEF Placed, Places, Update, Work, Started
<1>2. kind[h] \in Kinds /\ (kind[h] = "taint" => zone[h] # NoZone)
  BY <1>1 DEF Placed, Places
<1>3. stage[h][n] \in {"first", "second"} /\ zone[h] \in NodeZone
  BY <1>1 DEF Placed, TypeOK
<1>4. n \in scope[h] /\ zone[h] \in {zoneOf[n], NoZone}
  BY <1>1 DEF Placed, Places
<1>5. copy[h][n] \in NodeObject
  BY DEF Update, Placed, TypeOK
<1>. QED  BY <1>2, <1>3, <1>4, <1>5 DEF Update, conflicts, Proceed

LEMMA PlacedUpdate ==
  ASSUME Placed, NEW h \in Handler, NEW n \in Node, Update(h, n)
  PROVE  Placed'
<1>. USE DEF Placed
<1>1. PICK s \in {"none", "second"} : stage' = [stage EXCEPT ![h][n] = s]
  BY UpdateEffect, Followings
<1>2. copy' = [copy EXCEPT ![h][n] = Missing]
  BY DEF Update, Forget
<1>3. trouble' \in 0 .. MaxTrouble
  BY UpdateEffect, TroubleType DEF TypeOK
<1>4. api' \in [Node -> NodeObject \cup {Missing}]
  BY UpdateEffect, Changes DEF TypeOK
<1>5. stage' \in [Handler -> [Node -> {"none", "first", "second"}]]
  BY <1>1 DEF TypeOK
<1>6. copy' \in [Handler -> [Node -> NodeObject \cup {Missing}]]
  BY <1>2 DEF TypeOK
<1>7. TypeOK'
  BY <1>3, <1>4, <1>5, <1>6 DEF TypeOK, Update
<1>8. Work(h) /\ n \in scope[h]
  BY DEF Update, Places
<1>9. Places'
  BY <1>1, <1>2, <1>8 DEF Places, TypeOK, Update, Work, Started
<1>. QED  BY <1>7, <1>9

LEMMA PlacedOthers == Placed /\ Others => Placed'
<1>. SUFFICES ASSUME Placed, Others PROVE Placed'
  OBVIOUS
<1>. USE DEF Placed
<1>1. NewNode \in NodeObject
  BY DEF NewNode, NodeObject
<1>2. ASSUME NEW n \in Node, Join(n) \/ Leave(n) \/ OperatorCordons(n) \/ OperatorUncordons(n)
      PROVE  Placed'
  <2>1. \A o \in NodeObject : cordonNode(o) \in NodeObject /\ uncordonNode(o) \in NodeObject
    BY DEF NodeObject, cordonNode, uncordonNode
  <2>2. api' \in [Node -> NodeObject \cup {Missing}]
    <3>1. PICK o \in NodeObject \cup {Missing} : api' = [api EXCEPT ![n] = o]
      <4>1. api[n] \in NodeObject \cup {Missing}
        BY DEF TypeOK
      <4>2. CASE Join(n) \/ Leave(n)
        BY <1>1, <4>2 DEF Join, Leave
      <4>3. CASE OperatorCordons(n) \/ OperatorUncordons(n)
        BY <2>1, <4>1, <4>3 DEF OperatorCordons, OperatorUncordons
      <4>. QED  BY <1>2, <4>2, <4>3
    <3>. QED  BY <3>1 DEF TypeOK
  <2>3. trouble' \in 0 .. MaxTrouble
    BY <1>2, TroubleType DEF Join, Leave, OperatorCordons, OperatorUncordons, TypeOK
  <2>4. byOperator' \subseteq Node
    BY <1>2 DEF Join, Leave, OperatorCordons, OperatorUncordons, TypeOK
  <2>5. UNCHANGED <<nodes, handlers, doNotDisruptEnabled, alike>>
    BY <1>2 DEF Join, Leave, OperatorCordons, OperatorUncordons
  <2>. QED  BY <2>2, <2>3, <2>4, <2>5 DEF handlers, TypeOK, Places, Work, Started
<1>3. ASSUME NEW n \in Node, Track(n) \/ Untrack(n)  PROVE Placed'
  <2>1. nodes' \in Store /\ \A m \in Node : nodes'[m] \in {NotStored, zoneOf[m]}
    <3>1. PICK s \in {NotStored, zoneOf[n]} : nodes' = [nodes EXCEPT ![n] = s]
      BY <1>3 DEF Track, Untrack, AddNode, RemoveNode
    <3>2. zoneOf[n] \in NodeZone
      BY ProtectionAssumption DEF ProtectionAssumption
    <3>. QED  BY <3>1, <3>2 DEF TypeOK, Store, Places
  <2>2. UNCHANGED <<api, handlers, trouble, doNotDisruptEnabled, byOperator, alike>>
    BY <1>3 DEF Track, Untrack
  <2>. QED  BY <2>1, <2>2 DEF handlers, TypeOK, Places, Work, Started
<1>4. CASE Restart
  <2>1. trouble' \in 0 .. MaxTrouble
    BY <1>4, TroubleType DEF Restart, TypeOK
  <2>2. nodes' \in Store /\ \A m \in Node : nodes'[m] \in {NotStored, zoneOf[m]}
    BY <1>4 DEF Restart, NewNodeStore, Store
  <2>3. pc' \in [Handler -> {"idle", "work", "done", "dead"}] /\ Started' = Started
    BY <1>4 DEF Restart, TypeOK, Started, Work
  <2>4. TypeOK'
    BY <1>4, <2>1, <2>2, <2>3 DEF Restart, TypeOK
  <2>5. Places'
    BY <1>4, <2>2, <2>3 DEF Restart, Places
  <2>. QED  BY <2>4, <2>5
<1>. QED  BY <1>2, <1>3, <1>4 DEF Others

LEMMA PlacedNext == Placed /\ [Next]_vars => Placed'
<1>. SUFFICES ASSUME Placed, [Next]_vars PROVE Placed'
  OBVIOUS
<1>1. ASSUME NEW h \in Handler, Return(h)  PROVE Placed'
  BY <1>1 DEF Placed, TypeOK, Places, Return, Work, Started
<1>2. CASE UNCHANGED vars
  BY <1>2 DEF Placed, TypeOK, Places, vars, handlers, Work, Started
<1>. QED
  BY <1>1, <1>2, PlacedBegin, PlacedGet, PlacedUpdate, PlacedOthers
  DEF Next, HandlerStep, AllHandled

\* The handlers' state, the store and the Node objects keep their types.
THEOREM TypeCorrect == Spec => []TypeOK
<1>1. Placed => TypeOK
  BY DEF Placed
<1>. QED  BY <1>1, PlacedInit, PlacedNext, PTL DEF Spec
-----------------------------------------------------------------------------
(***************************************************************************)
(* Which nodes are touched.                                                *)
(***************************************************************************)

Touched == Placed /\ OnlyImpairedZone

\* What has been asked for stays asked for.
LEMMA AskedStays ==
  ASSUME Placed, [Next]_vars, NEW k \in Kinds, NEW n \in Node, Asked(k, n)
  PROVE  Asked(k, n)'
<1>1. PICK h \in Started : kind[h] = k /\ zone[h] \in {zoneOf[n], NoZone}
  BY DEF Asked
<1>2. h \in Handler /\ pc[h] # "idle"
  BY <1>1 DEF Started
<1>3. pc'[h] # "idle" /\ kind'[h] = kind[h] /\ zone'[h] = zone[h]
  <2>1. ASSUME NEW g \in Handler, NEW j \in Kinds, NEW z \in NodeZone, Begin(g, j, z)
        PROVE  pc'[h] # "idle" /\ kind'[h] = kind[h] /\ zone'[h] = zone[h]
    BY <1>2, <2>1 DEF Begin, Placed, TypeOK
  <2>2. ASSUME NEW g \in Handler, HandlerStep(g)
        PROVE  pc'[h] # "idle" /\ kind'[h] = kind[h] /\ zone'[h] = zone[h]
    BY <1>2, <2>2 DEF HandlerStep, Get, Update, Return, Placed, TypeOK
  <2>3. CASE Others
    BY <1>2, <2>3
    DEF Others, Join, Leave, Track, Untrack, OperatorCordons, OperatorUncordons, Restart,
        handlers, Placed, TypeOK, Work
  <2>4. CASE UNCHANGED vars
    BY <1>2, <2>4 DEF vars, handlers
  <2>. QED  BY <2>1, <2>2, <2>3, <2>4 DEF Next, AllHandled
<1>. QED  BY <1>1, <1>2, <1>3 DEF Asked, Started

\* The conditions on one object.
Explained(n, o) ==
  o # Missing =>
    /\ o.annotated => Asked("protect", n)
    /\ o.cordoned => Asked("protect", n) \/ n \in byOperator
    /\ o.taint # NoTaint => Asked("taint", n) /\ o.taint = zoneOf[n]

\* Changes of another node leave this one alone.
LEMMA Elsewhere ==
  ASSUME TypeOK, NEW n \in Node, NEW m \in Node, m # n,
         Join(m) \/ Leave(m) \/ OperatorCordons(m) \/ OperatorUncordons(m)
  PROVE  api'[n] = api[n] /\ (n \in byOperator <=> n \in byOperator')
<1>1. api \in [Node -> NodeObject \cup {Missing}]
  BY DEF TypeOK
<1>2. CASE Join(m)
  BY <1>1, <1>2 DEF Join
<1>3. CASE Leave(m)
  BY <1>1, <1>3 DEF Leave
<1>4. CASE OperatorCordons(m)
  BY <1>1, <1>4 DEF OperatorCordons
<1>5. CASE OperatorUncordons(m)
  BY <1>1, <1>5 DEF OperatorUncordons
<1>. QED  BY <1>2, <1>3, <1>4, <1>5

LEMMA AskedByWriter ==
  ASSUME Placed, NEW h \in Handler, NEW n \in Node, Update(h, n)
  PROVE  Asked(kind[h], n)
<1>1. h \in Started
  BY DEF Update, Work, Started
<1>. QED  BY <1>1, UpdateEffect DEF Asked

LEMMA TouchedNext == Touched /\ [Next]_vars => Touched'
<1>. SUFFICES ASSUME Touched, [Next]_vars, NEW n \in Node, api'[n] # Missing
              PROVE  /\ api'[n].annotated => Asked("protect", n)'
                     /\ api'[n].cordoned => Asked("protect", n)' \/ n \in byOperator'
                     /\ api'[n].taint # NoTaint => Asked("taint", n)' /\ api'[n].taint = zoneOf[n]
  BY PlacedNext DEF Touched, OnlyImpairedZone
<1>1. Placed /\ Explained(n, api[n])
  BY DEF Touched, OnlyImpairedZone, Explained
<1>2. (Asked("protect", n) => Asked("protect", n)') /\ (Asked("taint", n) => Asked("taint", n)')
  BY <1>1, AskedStays DEF Kinds
<1>3. CASE api'[n] = api[n] /\ (n \in byOperator => n \in byOperator')
  BY <1>1, <1>2, <1>3 DEF Explained
<1>4. ASSUME NEW h \in Handler, Update(h, n), api'[n] # api[n]
      PROVE  /\ api'[n].annotated => Asked("protect", n)'
             /\ api'[n].cordoned => Asked("protect", n)' \/ n \in byOperator'
             /\ api'[n].taint # NoTaint => Asked("taint", n)' /\ api'[n].taint = zoneOf[n]
  <2>. DEFINE o == changed(kind[h], stage[h][n], zone[h], api[n])
  <2>1. api'[n] = o /\ api[n] \in NodeObject
    BY <1>1, <1>4, UpdateEffect DEF Placed, TypeOK
  <2>2. Asked(kind[h], n)
    BY <1>1, <1>4, AskedByWriter
  <2>3. /\ kind[h] \in Kinds /\ stage[h][n] \in {"first", "second"} /\ zone[h] \in NodeZone
        /\ kind[h] = "taint" => zone[h] = zoneOf[n]
    BY <1>1, <1>4, UpdateEffect
  <2>4. /\ o.annotated => api[n].annotated \/ kind[h] = "protect"
        /\ o.cordoned => api[n].cordoned \/ kind[h] = "protect"
        /\ \/ o.taint \in {api[n].taint, NoTaint}
           \/ kind[h] = "taint" /\ o.taint = zone[h]
    <3>1. api[n] \in NodeObject
      BY <2>1
    <3>. QED  BY <2>3, <3>1, Changes
  <2>5. api[n] # Missing
    BY <2>1, ProtectionAssumption DEF ProtectionAssumption
  <2>6. byOperator' = byOperator
    BY <1>4 DEF Update
  <2>. HIDE DEF o
  <2>. QED  BY <1>1, <1>2, <2>1, <2>2, <2>3, <2>4, <2>5, <2>6 DEF Explained
<1>5. ASSUME NEW m \in Node, Join(m) \/ Leave(m) \/ OperatorCordons(m) \/ OperatorUncordons(m)
      PROVE  /\ api'[n].annotated => Asked("protect", n)'
             /\ api'[n].cordoned => Asked("protect", n)' \/ n \in byOperator'
             /\ api'[n].taint # NoTaint => Asked("taint", n)' /\ api'[n].taint = zoneOf[n]
  <2>1. CASE m # n
    BY <1>1, <1>3, <1>5, <2>1, Elsewhere DEF Placed
  <2>2. CASE m = n
    <3>1. api[n] \in NodeObject \cup {Missing} /\ api \in [Node -> NodeObject \cup {Missing}]
      BY <1>1 DEF Placed, TypeOK
    <3>2. CASE Join(n)
      BY <3>1, <3>2 DEF Join, NewNode
    <3>3. CASE Leave(n)
      BY <3>1, <3>3 DEF Leave
    <3>4. CASE OperatorCordons(n)
      BY <1>1, <1>2, <3>1, <3>4 DEF OperatorCordons, cordonNode, NodeObject, Explained
    <3>5. CASE OperatorUncordons(n)
      BY <1>1, <1>2, <3>1, <3>5 DEF OperatorUncordons, uncordonNode, NodeObject, Explained
    <3>. QED  BY <1>5, <2>2, <3>2, <3>3, <3>4, <3>5
  <2>. QED  BY <2>1, <2>2
<1>6. ASSUME NEW h \in Handler, NEW m \in Node, Update(h, m), api'[n] = api[n]
      PROVE  byOperator' = byOperator
  BY <1>6 DEF Update
<1>7. ASSUME NEW h \in Handler, NEW m \in Node, Update(h, m), m # n
      PROVE  api'[n] = api[n]
  BY <1>1, <1>7, UpdateEffect DEF Placed, TypeOK
<1>8. CASE UNCHANGED <<api, byOperator>>
  BY <1>3, <1>8
<1>9. ASSUME NEW h \in Handler, NEW k \in Kinds, NEW z \in NodeZone, Begin(h, k, z)
      PROVE  UNCHANGED <<api, byOperator>>
  BY <1>9 DEF Begin
<1>10. ASSUME NEW h \in Handler, NEW m \in Node, Get(h, m) \/ Return(h)
       PROVE  UNCHANGED <<api, byOperator>>
  BY <1>10 DEF Get, Return
<1>11. ASSUME NEW m \in Node, Track(m) \/ Untrack(m) \/ Restart
       PROVE  UNCHANGED <<api, byOperator>>
  BY <1>11 DEF Track, Untrack, Restart
<1>12. CASE \E h \in Handler : HandlerStep(h)
  <2>1. PICK h \in Handler : HandlerStep(h)
    BY <1>12
  <2>2. CASE Return(h)
    BY <1>8, <2>2 DEF Return
  <2>3. CASE \E m \in Node : Get(h, m)
    BY <1>8, <1>10, <2>3
  <2>4. ASSUME NEW m \in Node, Update(h, m)
        PROVE  /\ api'[n].annotated => Asked("protect", n)'
               /\ api'[n].cordoned => Asked("protect", n)' \/ n \in byOperator'
               /\ api'[n].taint # NoTaint => Asked("taint", n)' /\ api'[n].taint = zoneOf[n]
    BY <1>3, <1>4, <1>6, <1>7, <2>4
  <2>. QED  BY <2>1, <2>2, <2>3, <2>4 DEF HandlerStep
<1>13. CASE Restart
  BY <1>8, <1>13 DEF Restart
<1>. QED  BY <1>5, <1>8, <1>9, <1>11, <1>12, <1>13 DEF Next, Others, AllHandled, vars

\* Whatever the zones, the events and the order of the steps, a node bears the marks
\* of a shift only when its own zone, or none, was named.
THEOREM OnlyImpairedZoneAlways == Spec => []OnlyImpairedZone
<1>1. Init => Touched
  <2>. SUFFICES ASSUME Init PROVE OnlyImpairedZone
    BY PlacedInit DEF Touched
  <2>. QED  BY DEF Init, OnlyImpairedZone
<1>2. Touched => OnlyImpairedZone
  BY DEF Touched
<1>. QED  BY <1>1, <1>2, TouchedNext, PTL DEF Spec

-----------------------------------------------------------------------------
(***************************************************************************)
(* Cordons of operators.                                                   *)
(***************************************************************************)

LEMMA CordonNext == Placed /\ CordonSurvivesShift /\ [Next]_vars => CordonSurvivesShift'
<1>. SUFFICES ASSUME Placed, CordonSurvivesShift, [Next]_vars,
                     \A h \in Started' : kind'[h] # "unprotect",
                     NEW n \in byOperator', api'[n] # Missing
              PROVE  api'[n].cordoned
  BY DEF CordonSurvivesShift
<1>1. n \in Node
  BY PlacedNext DEF Placed, TypeOK
<1>2. ASSUME NEW h \in Started  PROVE kind[h] # "unprotect"
  <2>1. h \in Handler /\ pc[h] # "idle"
    BY DEF Started
  <2>2. pc'[h] # "idle" /\ kind'[h] = kind[h]
    <3>1. ASSUME NEW g \in Handler, NEW j \in Kinds, NEW z \in NodeZone, Begin(g, j, z)
          PROVE  pc'[h] # "idle" /\ kind'[h] = kind[h]
      BY <2>1, <3>1 DEF Begin, Placed, TypeOK
    <3>2. ASSUME NEW g \in Handler, HandlerStep(g)
          PROVE  pc'[h] # "idle" /\ kind'[h] = kind[h]
      BY <2>1, <3>2 DEF HandlerStep, Get, Update, Return, Placed, TypeOK
    <3>3. CASE Others
      BY <2>1, <3>3
      DEF Others, Join, Leave, Track, Untrack, OperatorCordons, OperatorUncordons, Restart,
          handlers, Placed, TypeOK, Work
    <3>4. CASE UNCHANGED vars
      BY <2>1, <3>4 DEF vars, handlers
    <3>. QED  BY <3>1, <3>2, <3>3, <3>4 DEF Next, AllHandled
  <2>. QED  BY <2>1, <2>2 DEF Started
<1>3. n \in byOperator /\ api[n] # Missing => api[n].cordoned
  BY <1>2 DEF CordonSurvivesShift
<1>4. CASE api'[n] = api[n] /\ n \in byOperator
  BY <1>3, <1>4
<1>5. ASSUME NEW m \in Node, Join(m) \/ Leave(m) \/ OperatorCordons(m) \/ OperatorUncordons(m)
      PROVE  api'[n].cordoned
  <2>1. CASE m # n
    BY <1>1, <1>4, <1>5, <2>1, Elsewhere DEF Placed
  <2>2. CASE m = n
    <3>1. OperatorCordons(n)
      BY <1>5, <2>2 DEF Join, Leave, OperatorUncordons
    <3>2. api[n] \in NodeObject /\ api \in [Node -> NodeObject \cup {Missing}]
      BY <1>1, <3>1 DEF OperatorCordons, Placed, TypeOK
    <3>. QED  BY <1>1, <3>1, <3>2 DEF OperatorCordons, cordonNode, NodeObject
  <2>. QED  BY <2>1, <2>2
<1>6. ASSUME NEW h \in Handler, NEW m \in Node, Update(h, m)  PROVE api'[n].cordoned
  <2>1. n \in byOperator
    BY <1>6 DEF Update
  <2>2. CASE api'[n] = api[n]
    BY <1>4, <2>1, <2>2
  <2>3. CASE api'[n] # api[n]
    <3>1. /\ m = n /\ api[n] \in NodeObject
          /\ api'[n] = changed(kind[h], stage[h][n], zone[h], api[n])
      BY <1>1, <1>6, <2>3, UpdateEffect DEF Placed, TypeOK
    <3>2. /\ kind[h] \in Kinds /\ stage[h][n] \in {"first", "second"} /\ zone[h] \in NodeZone
      BY <1>6, <3>1, UpdateEffect
    <3>3. kind[h] # "unprotect"
      BY <1>2, <1>6 DEF Update, Work, Started
    <3>4. api[n].cordoned
      BY <1>3, <2>1, <3>1, ProtectionAssumption DEF ProtectionAssumption
    <3>. QED  BY <3>1, <3>2, <3>3, <3>4, Changes
  <2>. QED  BY <2>2, <2>3
<1>7. CASE UNCHANGED <<api, byOperator>>
  BY <1>4, <1>7
<1>8. ASSUME NEW h \in Handler, NEW m \in Node, Get(h, m) \/ Return(h)
      PROVE  UNCHANGED <<api, byOperator>>
  BY <1>8 DEF Get, Return
<1>9. ASSUME NEW h \in Handler, HandlerStep(h)  PROVE api'[n].cordoned
  <2>1. CASE Return(h)
    BY <1>7, <2>1 DEF Return
  <2>. QED  BY <1>6, <1>7, <1>8, <1>9, <2>1 DEF HandlerStep
<1>10. ASSUME NEW m \in Node, Track(m) \/ Untrack(m)  PROVE UNCHANGED <<api, byOperator>>
  BY <1>10 DEF Track, Untrack
<1>11. CASE Restart
  BY <1>7, <1>11 DEF Restart
<1>12. ASSUME NEW h \in Handler, NEW k \in Kinds, NEW z \in NodeZone, Begin(h, k, z)
       PROVE  UNCHANGED <<api, byOperator>>
  BY <1>12 DEF Begin
<1>. QED  BY <1>5, <1>7, <1>9, <1>10, <1>11, <1>12 DEF Next, Others, AllHandled, vars

\* As long as nothing has been restored every cordon of an operator is kept, for any
\* number of shifts, nodes and failing calls.
THEOREM CordonAlwaysSurvivesShift == Spec => []CordonSurvivesShift
<1>1. Init => CordonSurvivesShift
  BY DEF Init, CordonSurvivesShift
<1>. QED  BY <1>1, PlacedInit, PlacedNext, CordonNext, PTL DEF Spec

-----------------------------------------------------------------------------
(***************************************************************************)
(* Handlers of one kind settle.                                            *)
(*                                                                         *)
(* A handler that meets a conflict gives its node up half done.  Why is it *)
(* done in the end?  Some handler of the same kind wrote in between, and   *)
(* the last to write has read the node as it is now: it, or one that still *)
(* has to read, carries the pledge for the node on, up to the last stage.  *)
(***************************************************************************)

\* Of the handlers at work on n one will not meet a conflict as things are.
Pledged(k, n) ==
  \E g \in Running : kind[g] = k /\ stage[g][n] # "none" /\ copy[g][n] \in {Missing, api[n]}

\* While there are handlers that met only their kind, there are no others at work.
Alike ==
  /\ alike \subseteq Started
  /\ \A g, h \in alike : kind[g] = kind[h]
  /\ alike # {} => Running \subseteq alike

NodeSettles(h, n) ==
  api[n] # Missing /\ (Done(kind[h], api[n]) \/ Pledged(kind[h], n))

Settles ==
  trouble = 0 =>
    /\ \A n \in Node : nodes[n] # NotStored => api[n] # Missing
    /\ \A h \in alike : \A n \in scope[h] : NodeSettles(h, n)
    /\ \A h \in alike, n \in Node : stage[h][n] = "second" => FirstDone(kind[h], api[n])

SettleInv == Placed /\ Alike /\ Settles

LEMMA AlikeInit == Init => Alike /\ Settles
  BY DEF Init, Alike, Settles, Running

LEMMA AlikeBegin ==
  ASSUME Placed, Alike, NEW h \in Handler, NEW k \in Kinds, NEW z \in NodeZone, Begin(h, k, z)
  PROVE  Alike'
<1>1. h \notin Started /\ h \notin alike /\ h \notin Running
  BY DEF Begin, Started, Alike, Running
<1>2. Started' = Started \cup {h} /\ Running' = Running \cup {h}
  BY DEF Begin, Placed, TypeOK, Started, Running
<1>3. kind'[h] = k /\ \A g \in Handler : g # h => kind'[g] = kind[g]
  BY DEF Begin, Placed, TypeOK
<1>4. alike \subseteq Handler /\ Running \subseteq Handler
  BY DEF Placed, TypeOK, Running
<1>5. CASE \A g \in Running : g \in alike /\ kind[g] = k
  <2>1. alike' = {g \in alike : kind[g] = k} \cup {h}
    BY <1>5 DEF Begin
  <2>. QED  BY <1>1, <1>2, <1>3, <1>4, <1>5, <2>1 DEF Alike
<1>6. CASE ~ \A g \in Running : g \in alike /\ kind[g] = k
  <2>1. alike' = {g \in alike : kind[g] = k}
    BY <1>6 DEF Begin
  <2>2. alike' = {}
    BY <1>6, <2>1 DEF Alike
  <2>. QED  BY <2>2 DEF Alike
<1>. QED  BY <1>5, <1>6

LEMMA SettlesBegin ==
  ASSUME SettleInv, NEW h \in Handler, NEW k \in Kinds, NEW z \in NodeZone, Begin(h, k, z)
  PROVE  Settles'
<1>. SUFFICES ASSUME trouble' = 0
              PROVE  /\ \A n \in Node : nodes'[n] # NotStored => api'[n] # Missing
                     /\ \A g \in alike' : \A n \in scope'[g] : NodeSettles(g, n)'
                     /\ \A g \in alike', n \in Node :
                          stage'[g][n] = "second" => FirstDone(kind'[g], api'[n])
  BY DEF Settles
<1>. USE DEF SettleInv, Placed
<1>1. /\ trouble = 0 /\ api' = api /\ nodes' = nodes /\ copy' = copy
      /\ pc[h] = "idle" /\ h \notin alike
  BY DEF Begin, Alike, Started
<1>2. /\ kind'[h] = k /\ scope'[h] = lookedUp(z)
      /\ \A n \in Node : stage'[h][n] = IF n \in lookedUp(z) THEN "first" ELSE "none"
      /\ \A g \in Handler : g # h => /\ kind'[g] = kind[g] /\ scope'[g] = scope[g]
                                     /\ stage'[g] = stage[g]
  BY DEF Begin, TypeOK
<1>3. Running' = Running \cup {h} /\ h \notin Running
  BY DEF Begin, TypeOK, Running
<1>4. alike' \subseteq alike \cup {h} /\ alike \subseteq Handler
  BY DEF Begin, TypeOK
<1>5. \A n \in Node : nodes[n] # NotStored => api[n] # Missing
  BY <1>1 DEF Settles
<1>6. ASSUME NEW g \in alike', NEW n \in scope'[g]  PROVE NodeSettles(g, n)'
  <2>1. CASE g = h
    <3>1. n \in lookedUp(z) /\ n \in Node /\ nodes[n] # NotStored
      BY <1>2, <1>6, <2>1, LookedUp DEF TypeOK, Tracked
    <3>2. copy[h][n] = Missing
      BY <1>1, <3>1 DEF Places, Work
    <3>. QED  BY <1>1, <1>2, <1>3, <1>5, <2>1, <3>1, <3>2 DEF NodeSettles, Pledged
  <2>2. CASE g # h
    <3>1. g \in alike /\ g \in Handler /\ n \in scope[g] /\ kind'[g] = kind[g]
      BY <1>2, <1>4, <1>6, <2>2
    <3>2. NodeSettles(g, n)
      BY <1>1, <3>1 DEF Settles
    <3>3. ASSUME Pledged(kind[g], n)  PROVE Pledged(kind[g], n)'
      <4>1. PICK f \in Running : /\ kind[f] = kind[g] /\ stage[f][n] # "none"
                                 /\ copy[f][n] \in {Missing, api[n]}
        BY <3>3 DEF Pledged
      <4>2. f \in Running' /\ f # h /\ f \in Handler
        BY <1>3, <4>1 DEF Running
      <4>3. kind'[f] = kind[f] /\ stage'[f] = stage[f]
        BY <1>2, <4>2
      <4>. QED  BY <1>1, <3>1, <4>1, <4>2, <4>3 DEF Pledged
    <3>4. api'[n] # Missing /\ (Done(kind[g], api[n]) => Done(kind'[g], api'[n]))
      BY <1>1, <3>1, <3>2 DEF NodeSettles
    <3>. QED  BY <3>1, <3>2, <3>3, <3>4 DEF NodeSettles, Pledged
  <2>. QED  BY <2>1, <2>2
<1>7. ASSUME NEW g \in alike', NEW n \in Node, stage'[g][n] = "second"
      PROVE  FirstDone(kind'[g], api'[n])
  <2>1. g # h
    BY <1>2, <1>7
  <2>. QED  BY <1>1, <1>2, <1>4, <1>7, <2>1 DEF Settles
<1>. QED  BY <1>1, <1>5, <1>6, <1>7

\* What a step of one handler at one node has to keep, to keep Settles.
LEMMA SettlesStep ==
  ASSUME SettleInv, Placed', NEW w \in Running, NEW m \in Node, trouble = 0, alike # {},
         UNCHANGED <<nodes, pc, kind, scope, alike>>,
         \A g \in Handler, n \in Node :
           g # w \/ n # m => stage'[g][n] = stage[g][n] /\ copy'[g][n] = copy[g][n],
         \A n \in Node : n # m => api'[n] = api[n],
         api[m] # Missing => api'[m] # Missing,
         Done(kind[w], api[m]) => Done(kind[w], api'[m]),
         api[m] # Missing /\ Pledged(kind[w], m)
           => Done(kind[w], api'[m]) \/ Pledged(kind[w], m)',
         FirstDone(kind[w], api[m]) => FirstDone(kind[w], api'[m]),
         stage'[w][m] = "second" => FirstDone(kind[w], api'[m])
  PROVE  Settles'
<1>. USE DEF SettleInv
<1>1. w \in alike /\ alike \subseteq Handler /\ \A g \in alike : kind[g] = kind[w]
  BY DEF Alike, Placed, TypeOK
<1>2. Running' = Running
  BY DEF Running
<1>3. \A n \in Node : nodes'[n] # NotStored => api'[n] # Missing
  BY DEF Settles
<1>4. ASSUME NEW g \in alike', NEW n \in scope'[g]  PROVE NodeSettles(g, n)'
  <2>1. g \in alike /\ n \in scope[g] /\ n \in Node /\ kind'[g] = kind[w] /\ kind[g] = kind[w]
    BY <1>1, <1>4 DEF Placed, TypeOK
  <2>2. api[n] # Missing /\ (Done(kind[w], api[n]) \/ Pledged(kind[w], n))
    BY <2>1 DEF Settles, NodeSettles
  <2>3. CASE n # m
    <3>1. Pledged(kind[w], n) => Pledged(kind[w], n)'
      BY <1>2, <2>1, <2>3 DEF Pledged, Running
    <3>. QED  BY <2>1, <2>2, <2>3, <3>1 DEF NodeSettles, Pledged
  <2>4. CASE n = m
    BY <2>1, <2>2, <2>4 DEF NodeSettles, Pledged
  <2>. QED  BY <2>3, <2>4
<1>5. ASSUME NEW g \in alike', NEW n \in Node, stage'[g][n] = "second"
      PROVE  FirstDone(kind'[g], api'[n])
  <2>1. g \in alike /\ g \in Handler /\ kind'[g] = kind[w] /\ kind[g] = kind[w]
    BY <1>1, <1>5
  <2>2. CASE n # m
    BY <1>5, <2>1, <2>2 DEF Settles
  <2>3. CASE n = m /\ g = w
    BY <1>5, <2>1, <2>3
  <2>4. CASE n = m /\ g # w
    <3>1. FirstDone(kind[w], api[m])
      BY <1>5, <2>1, <2>4 DEF Settles
    <3>. QED  BY <2>1, <2>4, <3>1
  <2>. QED  BY <2>2, <2>3, <2>4
<1>. QED  BY <1>3, <1>4, <1>5 DEF Settles

LEMMA SettlesGet ==
  ASSUME SettleInv, NEW w \in Handler, NEW m \in Node, Get(w, m)
  PROVE  Settles'
<1>. SUFFICES ASSUME trouble' = 0, alike # {}  PROVE Settles'
  <2>1. alike' = alike /\ nodes' = nodes /\ api' = api
    BY DEF Get
  <2>2. trouble' = 0 => trouble = 0
    <3>1. Trouble \/ UNCHANGED trouble
      BY Zenon DEF Get
    <3>. QED  BY <3>1, TroubleType DEF SettleInv, Placed, TypeOK
  <2>3. CASE alike = {}
    BY <2>1, <2>2, <2>3 DEF SettleInv, Settles
  <2>4. CASE trouble' # 0
    BY <2>4 DEF Settles
  <2>. QED  BY <2>3, <2>4
<1>. USE DEF SettleInv
<1>1. w \in Running /\ w \in Started /\ kind[w] \in Kinds
  BY DEF Get, Work, Running, Started, Placed, Places
<1>2. ~Trouble /\ UNCHANGED trouble /\ trouble = 0
  <2>1. Trouble \/ UNCHANGED trouble
    BY Zenon DEF Get
  <2>2. trouble = 0 /\ UNCHANGED trouble
    BY <2>1, TroubleType DEF Placed, TypeOK
  <2>. QED  BY <2>2 DEF Trouble
<1>3. /\ stage[w][m] \in {"first", "second"} /\ copy[w][m] = Missing
      /\ m \in scope[w] /\ w \in alike
  BY <1>1 DEF Get, Placed, TypeOK, Places, Alike
<1>4. api[m] # Missing /\ api[m] \in NodeObject
  BY <1>2, <1>3 DEF Settles, NodeSettles, Placed, TypeOK
<1>5. stage[w][m] = "second" => FirstDone(kind[w], api[m])
  BY <1>2, <1>3 DEF Settles
<1>6. /\ UNCHANGED <<nodes, pc, kind, scope, alike, api>>
      /\ \A g \in Handler, n \in Node :
           g # w \/ n # m => stage'[g][n] = stage[g][n] /\ copy'[g][n] = copy[g][n]
  BY DEF Get, Proceed, Placed, TypeOK
<1>7. Running' = Running
  BY <1>6 DEF Running
<1>8. CASE needsWrite(kind[w], stage[w][m], api[m])
  <2>1. stage' = stage /\ copy'[w][m] = api[m]
    BY <1>2, <1>4, <1>8 DEF Get, Placed, TypeOK
  <2>2. Pledged(kind[w], m)'
    BY <1>1, <1>3, <1>6, <1>7, <2>1 DEF Pledged
  <2>. QED  BY <1>1, <1>2, <1>3, <1>5, <1>6, <2>1, <2>2, PlacedGet, SettlesStep
<1>9. CASE ~needsWrite(kind[w], stage[w][m], api[m])
  <2>. DEFINE s == following(kind[w], stage[w][m], api[m])
  <2>1. copy' = copy /\ stage'[w][m] = s
    BY <1>2, <1>4, <1>9 DEF Get, Proceed, Placed, TypeOK
  <2>2. s \in {"none", "second"}
    BY Followings
  <2>3. /\ s = "second" => FirstDone(kind[w], api[m])
        /\ s = "none" => Done(kind[w], api[m])
    BY <1>1, <1>3, <1>4, <1>5, <1>9, NothingToWrite
  <2>. HIDE DEF s
  <2>4. s = "second" => Pledged(kind[w], m)'
    BY <1>1, <1>3, <1>6, <1>7, <2>1 DEF Pledged
  <2>5. Done(kind[w], api'[m]) \/ Pledged(kind[w], m)'
    BY <1>6, <2>2, <2>3, <2>4
  <2>. QED  BY <1>1, <1>2, <1>3, <1>6, <2>1, <2>3, <2>5, PlacedGet, SettlesStep
<1>. QED  BY <1>8, <1>9

LEMMA SettlesUpdate ==
  ASSUME SettleInv, NEW w \in Handler, NEW m \in Node, Update(w, m)
  PROVE  Settles'
<1>. USE DEF SettleInv
<1>1. w \in Running /\ Work(w)
  BY DEF Update, Work, Running
<1>2. /\ kind[w] \in Kinds /\ stage[w][m] \in {"first", "second"} /\ zone[w] \in NodeZone
      /\ m \in scope[w] /\ copy[w][m] # Missing
  BY UpdateEffect DEF Update
<1>3. CASE alike = {}
  <2>1. alike' = {} /\ nodes' = nodes
    BY <1>3 DEF Update
  <2>2. trouble' = 0 => trouble = 0
    BY UpdateEffect, TroubleType DEF Placed, TypeOK
  <2>3. \A n \in Node : api[n] # Missing => api'[n] # Missing
    <3>1. api[m] \in NodeObject => changed(kind[w], stage[w][m], zone[w], api[m]) # Missing
      BY <1>2, Changes, ProtectionAssumption DEF ProtectionAssumption
    <3>. QED  BY <3>1, UpdateEffect DEF Placed, TypeOK
  <2>. QED  BY <2>1, <2>2, <2>3 DEF Settles
<1>4. CASE trouble' # 0
  BY <1>4 DEF Settles
<1>5. CASE alike # {} /\ trouble' = 0
  <2>1. trouble = 0 /\ UNCHANGED trouble
    BY <1>5, UpdateEffect, TroubleType DEF Placed, TypeOK
  <2>2. ~Trouble
    BY <2>1 DEF Trouble
  <2>3. w \in alike
    BY <1>1, <1>5 DEF Alike
  <2>4. stage[w][m] = "second" => FirstDone(kind[w], api[m])
    BY <2>1, <2>3 DEF Settles
  <2>5. /\ UNCHANGED <<nodes, pc, kind, scope, alike>>
        /\ \A g \in Handler, n \in Node :
             g # w \/ n # m => stage'[g][n] = stage[g][n] /\ copy'[g][n] = copy[g][n]
        /\ copy'[w][m] = Missing
    <3>1. PICK s \in {"none", "second"} : stage' = [stage EXCEPT ![w][m] = s]
      BY UpdateEffect, Followings
    <3>. QED  BY <3>1 DEF Update, Forget, Placed, TypeOK
  <2>6. Running' = Running
    BY <2>5 DEF Running
  <2>7. CASE /\ api[m] \in NodeObject /\ copy[w][m] = api[m]
             /\ api' = [api EXCEPT ![m] = changed(kind[w], stage[w][m], zone[w], api[m])]
             /\ stage' = [stage EXCEPT ![w][m] = following(kind[w], stage[w][m], api[m])]
    <3>. DEFINE s == following(kind[w], stage[w][m], api[m])
                o == changed(kind[w], stage[w][m], zone[w], api[m])
    <3>1. /\ api'[m] = o /\ stage'[w][m] = s /\ s \in {"none", "second"}
          /\ \A n \in Node : n # m => api'[n] = api[n]
      BY <2>7, Followings DEF Placed, TypeOK
    <3>2. o \in NodeObject /\ o # Missing
      BY <1>2, <2>7, Changes, ProtectionAssumption DEF ProtectionAssumption
    <3>3. /\ Done(kind[w], api[m]) => Done(kind[w], o)
          /\ FirstDone(kind[w], api[m]) => FirstDone(kind[w], o)
          /\ s = "none" => Done(kind[w], o)
          /\ stage[w][m] = "first" => FirstDone(kind[w], o)
      BY <1>2, <2>4, <2>7, ChangesAdvance
    <3>4. s = "second" => FirstDone(kind[w], o)
      BY <1>2, <2>4, <3>3
    <3>. HIDE DEF s, o
    <3>5. s = "second" => Pledged(kind[w], m)'
      BY <1>1, <2>5, <2>6, <3>1 DEF Pledged
    <3>6. Done(kind[w], api'[m]) \/ Pledged(kind[w], m)'
      BY <3>1, <3>3, <3>5
    <3>7. /\ Done(kind[w], api[m]) => Done(kind[w], api'[m])
          /\ FirstDone(kind[w], api[m]) => FirstDone(kind[w], api'[m])
          /\ stage'[w][m] = "second" => FirstDone(kind[w], api'[m])
          /\ api'[m] # Missing
      BY <3>1, <3>2, <3>3, <3>4
    <3>. QED
      BY <1>1, <1>5, <2>1, <2>5, <3>1, <3>6, <3>7, PlacedUpdate, SettlesStep
  <2>8. CASE api' = api /\ stage' = [stage EXCEPT ![w][m] = "none"] /\ copy[w][m] # api[m]
    <3>1. stage'[w][m] = "none"
      BY <2>8 DEF Placed, TypeOK
    <3>2. Pledged(kind[w], m) => Pledged(kind[w], m)'
      <4>. SUFFICES ASSUME Pledged(kind[w], m)  PROVE Pledged(kind[w], m)'
        OBVIOUS
      <4>1. PICK g \in Running : /\ kind[g] = kind[w] /\ stage[g][m] # "none"
                                 /\ copy[g][m] \in {Missing, api[m]}
        BY DEF Pledged
      <4>2. g # w /\ g \in Handler
        BY <1>2, <2>8, <4>1 DEF Running
      <4>. QED  BY <2>5, <2>6, <2>8, <4>1, <4>2 DEF Pledged
    <3>. QED  BY <1>1, <1>5, <2>1, <2>5, <2>8, <3>1, <3>2, PlacedUpdate, SettlesStep
  <2>. QED  BY <2>2, <2>7, <2>8, UpdateEffect
<1>. QED  BY <1>3, <1>4, <1>5

LEMMA SettlesReturn ==
  ASSUME SettleInv, NEW w \in Handler, Return(w)
  PROVE  Alike' /\ Settles'
<1>. USE DEF SettleInv
<1>1. Started' = Started /\ Running' = Running \ {w}
  BY DEF Return, Work, Started, Running, Placed, TypeOK
<1>2. UNCHANGED <<api, nodes, kind, zone, scope, stage, copy, trouble, alike>>
  BY DEF Return
<1>3. Alike'
  BY <1>1, <1>2 DEF Alike
<1>4. ASSUME NEW k, NEW n \in Node, Pledged(k, n)  PROVE Pledged(k, n)'
  BY <1>1, <1>2, <1>4 DEF Pledged, Return
<1>5. alike \subseteq Handler /\ \A g \in Handler : scope[g] \subseteq Node
  BY DEF Placed, TypeOK
<1>6. \A g \in alike : \A n \in scope[g] : NodeSettles(g, n) => NodeSettles(g, n)'
  BY <1>2, <1>4, <1>5 DEF NodeSettles, Pledged
<1>7. Settles'
  BY <1>2, <1>6 DEF Settles
<1>. QED  BY <1>3, <1>7

LEMMA SettlesOthers ==
  ASSUME SettleInv, Others
  PROVE  Alike' /\ Settles'
<1>. USE DEF SettleInv
<1>1. ASSUME NEW n \in Node, Track(n) \/ Untrack(n)  PROVE Alike' /\ Settles'
  <2>1. UNCHANGED <<api, handlers, trouble, alike>>
    BY <1>1 DEF Track, Untrack
  <2>2. \A m \in Node : nodes'[m] # NotStored => nodes[m] # NotStored \/ api[m] # Missing
    BY <1>1 DEF Track, Untrack, AddNode, RemoveNode, Placed, TypeOK, Store
  <2>. QED
    BY <2>1, <2>2 DEF handlers, Alike, Started, Running, Settles, NodeSettles, Pledged
<1>2. ASSUME Trouble, UNCHANGED <<handlers, alike>>  PROVE Alike' /\ Settles'
  <2>1. trouble' # 0
    BY <1>2 DEF Trouble, Placed, TypeOK
  <2>. QED  BY <1>2, <2>1 DEF handlers, Alike, Started, Running, Settles
<1>3. CASE Restart
  <2>1. trouble' # 0
    BY <1>3 DEF Restart, Trouble, Placed, TypeOK
  <2>2. Started' = Started /\ Running' = {}
    BY <1>3 DEF Restart, Work, Started, Running, Placed, TypeOK
  <2>. QED  BY <1>3, <2>1, <2>2 DEF Restart, Alike, Settles
<1>4. ASSUME NEW n \in Node, Join(n) \/ Leave(n) \/ OperatorCordons(n) \/ OperatorUncordons(n)
      PROVE  Trouble /\ UNCHANGED <<handlers, alike>>
  BY <1>4 DEF Join, Leave, OperatorCordons, OperatorUncordons
<1>. QED  BY <1>1, <1>2, <1>3, <1>4 DEF Others

LEMMA SettleNext == SettleInv /\ [Next]_vars => SettleInv'
<1>. SUFFICES ASSUME SettleInv, [Next]_vars PROVE Alike' /\ Settles'
  BY PlacedNext DEF SettleInv
<1>1. ASSUME NEW h \in Handler, NEW k \in Kinds, NEW z \in NodeZone, Begin(h, k, z)
      PROVE  Alike' /\ Settles'
  BY <1>1, AlikeBegin, SettlesBegin DEF SettleInv
<1>2. ASSUME NEW h \in Handler, NEW n \in Node, Get(h, n) \/ Update(h, n)
      PROVE  Alike' /\ Settles'
  <2>1. UNCHANGED <<pc, kind, alike>>
    BY <1>2 DEF Get, Update
  <2>2. Alike'
    BY <2>1 DEF SettleInv, Alike, Started, Running
  <2>. QED  BY <1>2, <2>2, SettlesGet, SettlesUpdate
<1>3. ASSUME NEW h \in Handler, HandlerStep(h)  PROVE Alike' /\ Settles'
  BY <1>2, <1>3, SettlesReturn DEF HandlerStep
<1>4. CASE UNCHANGED vars
  BY <1>4
  DEF vars, handlers, SettleInv, Alike, Started, Running, Settles, NodeSettles, Pledged
<1>. QED  BY <1>1, <1>3, <1>4, SettlesOthers DEF Next, AllHandled

\* However many deliveries of one event are handled at once, and however their writes
\* conflict, every node they found is done when the last of them is through.
THEOREM RepeatsAlwaysSettle == Spec => []RepeatsSettle
<1>1. SettleInv => RepeatsSettle
  <2>. SUFFICES ASSUME SettleInv, Running = {}, trouble = 0, NEW h \in alike, NEW n \in scope[h]
                PROVE  api[n] # Missing /\ achieved(kind[h], n)
    BY DEF RepeatsSettle
  <2>1. api[n] # Missing /\ Done(kind[h], api[n])
    BY DEF SettleInv, Settles, NodeSettles, Pledged
  <2>. QED  BY <2>1 DEF Done, achieved
<1>2. Init => SettleInv
  BY PlacedInit, AlikeInit DEF SettleInv
<1>. QED  BY <1>1, <1>2, SettleNext, PTL DEF Spec

-----------------------------------------------------------------------------
(***************************************************************************)
(* Every step is a step of AtomicNodes.                                    *)
(***************************************************************************)

\* A handler that starts asks for what its event allows.
LEMMA BeginAsks ==
  ASSUME Placed, NEW h \in Handler, NEW k \in Kinds, NEW z \in NodeZone, Begin(h, k, z)
  PROVE  Atomic!Ask
<1>1. pc[h] = "idle" /\ UNCHANGED api
  BY DEF Begin
<1>2. \A g \in Handler : g # h => pc'[g] = pc[g] /\ kind'[g] = kind[g] /\ zone'[g] = zone[g]
  BY DEF Begin, Placed, TypeOK
<1>3. pc'[h] = "work" /\ kind'[h] = k /\ zone'[h] = z
  BY DEF Begin, Placed, TypeOK
<1>4. requested' = requested \cup {<<k, z>>}
  BY <1>1, <1>2, <1>3 DEF requested, Started
<1>5. requested \subseteq Atomic!Request
  BY DEF Placed, TypeOK, Places, requested, Started, Kinds, Atomic!Request
<1>6. <<k, z>> \in Atomic!Request
  BY DEF Begin, updateCalls, restoreCalls, Atomic!Request
<1>. QED  BY <1>1, <1>4, <1>5, <1>6 DEF Atomic!Ask

\* No other step asks for anything.
LEMMA OthersAskNothing ==
  ASSUME Placed,
         (\E h \in Handler : HandlerStep(h)) \/ Others \/ AllHandled \/ UNCHANGED vars
  PROVE  UNCHANGED requested
<1>1. Started' = Started /\ UNCHANGED <<kind, zone>>
  <2>1. ASSUME NEW h \in Handler, HandlerStep(h)
        PROVE  Started' = Started /\ UNCHANGED <<kind, zone>>
    BY <2>1 DEF HandlerStep, Get, Update, Return, Work, Started, Placed, TypeOK
  <2>2. CASE Others
    <3>1. CASE Restart
      BY <3>1 DEF Restart, Work, Started, Placed, TypeOK
    <3>2. CASE ~Restart
      BY <2>2, <3>2 DEF Others, Join, Leave, Track, Untrack, OperatorCordons,
                        OperatorUncordons, handlers, Started
    <3>. QED  BY <3>1, <3>2
  <2>3. CASE AllHandled \/ UNCHANGED vars
    BY <2>3 DEF AllHandled, vars, handlers, Started
  <2>. QED  BY <2>1, <2>2, <2>3
<1>. QED  BY <1>1 DEF requested, Started

\* A PUT that does not fail changes the node as it is, for an event of its zone.
LEMMA UpdateIsAtomic ==
  ASSUME Placed, NEW h \in Handler, NEW n \in Node, Update(h, n)
  PROVE  Atomic!Change(n) \/ UNCHANGED <<api, requested>>
<1>1. UNCHANGED requested
  BY OthersAskNothing DEF HandlerStep
<1>2. h \in Started /\ <<kind[h], zone[h]>> \in requested
  BY DEF Update, Work, Started, requested
<1>3. /\ kind[h] \in Kinds /\ stage[h][n] \in {"first", "second"}
      /\ zone[h] \in {zoneOf[n], NoZone}
      /\ kind[h] = "taint" => zone[h] = zoneOf[n]
  BY UpdateEffect
<1>4. Atomic!Due(kind[h], n)
  BY <1>2, <1>3 DEF Atomic!Due
<1>5. CASE UNCHANGED api
  BY <1>1, <1>5
<1>6. CASE ~ UNCHANGED api
  <2>1. /\ api[n] # Missing
        /\ api' = [api EXCEPT ![n] = changed(kind[h], stage[h][n], zone[h], api[n])]
    BY <1>6, UpdateEffect, ProtectionAssumption DEF ProtectionAssumption
  <2>2. CASE kind[h] = "protect"
    BY <1>1, <1>4, <2>1, <2>2
    DEF changed, annotateNode, cordonNode, Atomic!Change, Atomic!Protect, Atomic!Becomes
  <2>3. CASE kind[h] = "unprotect"
    BY <1>1, <1>4, <2>1, <2>3
    DEF changed, removeAnnotation, uncordonNode, Atomic!Change, Atomic!Unprotect, Atomic!Becomes
  <2>4. CASE kind[h] = "taint"
    BY <1>1, <1>3, <1>4, <2>1, <2>4
    DEF changed, taintNode, Atomic!Change, Atomic!Taint, Atomic!Becomes
  <2>5. CASE kind[h] = "untaint"
    BY <1>1, <1>4, <2>1, <2>5
    DEF changed, untaintNode, Atomic!Change, Atomic!Untaint, Atomic!Becomes
  <2>. QED  BY <1>3, <2>2, <2>3, <2>4, <2>5 DEF Kinds
<1>. QED  BY <1>5, <1>6

\* So are the changes of others.
LEMMA OthersAreAtomic ==
  ASSUME Placed, Others
  PROVE  Atomic!Next \/ UNCHANGED <<api, requested>>
<1>1. UNCHANGED requested
  BY OthersAskNothing
<1>2. ASSUME NEW n \in Node, Join(n) \/ Leave(n) \/ OperatorCordons(n) \/ OperatorUncordons(n)
      PROVE  Atomic!Next
  <2>1. CASE Join(n)
    BY <1>1, <2>1 DEF Join, NewNode, Atomic!NewNode, Atomic!Next, Atomic!Join, Atomic!Becomes
  <2>2. CASE Leave(n)
    BY <1>1, <2>2 DEF Leave, Atomic!Next, Atomic!Change, Atomic!Leave, Atomic!Becomes
  <2>3. CASE OperatorCordons(n)
    BY <1>1, <2>3
    DEF OperatorCordons, cordonNode, Atomic!Next, Atomic!Change, Atomic!Operate, Atomic!Becomes
  <2>4. CASE OperatorUncordons(n)
    BY <1>1, <2>4
    DEF OperatorUncordons, uncordonNode, Atomic!Next, Atomic!Change, Atomic!Operate, Atomic!Becomes
  <2>. QED  BY <1>2, <2>1, <2>2, <2>3, <2>4
<1>3. ASSUME NEW n \in Node, Track(n) \/ Untrack(n)
      PROVE  UNCHANGED api
  BY <1>3 DEF Track, Untrack
<1>4. CASE Restart
  BY <1>1, <1>4 DEF Restart
<1>. QED  BY <1>1, <1>2, <1>3, <1>4 DEF Others

\* A GET and the PUT that follows it are one step: the resourceVersion sees to that, for
\* any handlers that work on one node, and for any change that others make in between.
THEOREM NoChangeIsLost == Spec => NoChangeLost
<1>1. Init => Atomic!Init
  BY DEF Init, Started, requested, Atomic!Init, Atomic!NewNode
<1>2. Placed /\ [Next]_vars => [Atomic!Next]_<<api, requested>>
  <2>. SUFFICES ASSUME Placed, [Next]_vars
                PROVE  Atomic!Next \/ UNCHANGED <<api, requested>>
    OBVIOUS
  <2>1. ASSUME NEW h \in Handler, NEW k \in Kinds, NEW z \in NodeZone, Begin(h, k, z)
        PROVE  Atomic!Next
    BY <2>1, BeginAsks DEF Atomic!Next
  <2>2. ASSUME NEW h \in Handler, HandlerStep(h)
        PROVE  Atomic!Next \/ UNCHANGED <<api, requested>>
    <3>1. ASSUME NEW n \in Node, Get(h, n) \/ Return(h)
          PROVE  UNCHANGED <<api, requested>>
      BY <2>2, <3>1, OthersAskNothing DEF Get, Return
    <3>2. ASSUME NEW n \in Node, Update(h, n)
          PROVE  Atomic!Next \/ UNCHANGED <<api, requested>>
      BY <3>2, UpdateIsAtomic DEF Atomic!Next
    <3>3. CASE Return(h)
      BY <2>2, <3>3, OthersAskNothing DEF Return
    <3>. QED  BY <2>2, <3>1, <3>2, <3>3 DEF HandlerStep
  <2>3. CASE AllHandled \/ UNCHANGED vars
    BY <2>3, OthersAskNothing DEF AllHandled, vars
  <2>. QED  BY <2>1, <2>2, <2>3, OthersAreAtomic DEF Next
<1>. QED  BY <1>1, <1>2, PlacedInit, PlacedNext, PTL DEF Spec, NoChangeLost, Atomic!Spec
=============================================================================
