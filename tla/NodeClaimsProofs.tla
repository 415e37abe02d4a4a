--------------------------- MODULE NodeClaimsProofs ---------------------------
(***************************************************************************)
(* Theorems about NodeClaims, for any claims, nodes, labels and bounds.    *)
(***************************************************************************)
EXTENDS NodeClaims, TLAPS

-----------------------------------------------------------------------------
(***************************************************************************)
(* The queue of notifications.                                             *)
(***************************************************************************)

LEMMA Appending ==
  ASSUME NEW s \in Seq(Notice), NEW e \in Notice
  PROVE  /\ Append(s, e) \in Seq(Notice) /\ Len(Append(s, e)) = Len(s) + 1
         /\ DOMAIN Append(s, e) = 1 .. Len(s) + 1 /\ DOMAIN s = 1 .. Len(s) /\ Len(s) \in Nat
         /\ Append(s, e)[Len(s) + 1] = e
         /\ \A i \in 1 .. Len(s) : Append(s, e)[i] = s[i]
  OBVIOUS

LEMMA Taking ==
  ASSUME NEW s \in Seq(Notice), s # <<>>
  PROVE  /\ Tail(s) \in Seq(Notice) /\ Len(Tail(s)) = Len(s) - 1 /\ Len(s) \in Nat \ {0}
         /\ DOMAIN Tail(s) = 1 .. Len(s) - 1 /\ DOMAIN s = 1 .. Len(s)
         /\ Head(s) = s[1] /\ Head(s) \in Notice
         /\ \A i \in 1 .. Len(s) - 1 : Tail(s)[i] = s[i + 1]
  OBVIOUS

LEMMA EventIsNotice ==
  ASSUME NEW s \in Seq(Notice), NEW i \in DOMAIN s
  PROVE  s[i] \in Notice /\ s[i].claim \in Claim
<1>1. s[i] \in Notice
  OBVIOUS
<1>. QED  BY <1>1 DEF Notice

-----------------------------------------------------------------------------
(***************************************************************************)
(* Types.                                                                  *)
(***************************************************************************)

LEMMA ZoneOfClaim ==
  ASSUME NEW c \in Claim
  PROVE  zoneLabel(c) \in NodeZone
  BY StoreAssumption, ClaimsAssumption
  DEF StoreAssumption, ClaimsAssumption, zoneLabel, LabelKind

LEMMA NodeOfClaim ==
  ASSUME NEW c \in Claim
  PROVE  nodeOf[c] \in Node
  BY ClaimsAssumption DEF ClaimsAssumption

LEMMA ProcessedStore ==
  ASSUME NEW s \in Store, NEW e \in Notice
  PROVE  processNodeClaim(s, e) \in Store
<1>1. e.claim \in Claim
  BY DEF Notice
<1>2. zoneLabel(e.claim) \in NodeZone /\ nodeOf[e.claim] \in Node
  BY <1>1, ZoneOfClaim, NodeOfClaim
<1>. QED
  BY <1>2 DEF processNodeClaim, Added, Removed, AddNode, RemoveNode, Store

LEMMA TypeInit == Init => TypeOK
<1>1. 0 \in 0 .. Steps /\ 0 \in 0 .. MaxBreaks
  BY ClaimsAssumption DEF ClaimsAssumption
<1>2. ASSUME Init  PROVE claims \in [Claim -> Stage] /\ seen \in [Claim -> Object \cup {"absent"}]
  BY <1>2 DEF Init, Stage, Object
<1>3. NewNodeStore \in Store /\ <<>> \in Seq(Notice)
  BY DEF NewNodeStore, Store
<1>. QED  BY <1>1, <1>2, <1>3 DEF Init, TypeOK

LEMMA TypeNext == TypeOK /\ [Next]_vars => TypeOK'
<1>. SUFFICES ASSUME TypeOK, [Next]_vars PROVE TypeOK'
  OBVIOUS
<1>1. ASSUME NEW c \in Claim, CreateClaim(c) \/ RegisterNode(c)  PROVE TypeOK'
  <2>1. PICK t \in {"add", "update"}, f \in Stage, o \in Object : Changes(c, f, o, t)
    BY <1>1 DEF CreateClaim, RegisterNode, Stage, Object
  <2>2. [type |-> t, claim |-> c, stage |-> o] \in Notice
    BY DEF Notice
  <2>3. events' \in Seq(Notice)
    <3>1. events' = events \/ events' = Append(events, [type |-> t, claim |-> c, stage |-> o])
      BY <2>1 DEF Changes, Notify
    <3>. QED  BY <2>2, <3>1 DEF TypeOK
  <2>. QED  BY <2>1, <2>3 DEF Changes, TypeOK, Stage
<1>2. ASSUME NEW c \in Claim, DeleteClaim(c)  PROVE TypeOK'
  <2>1. [type |-> "delete", claim |-> c, stage |-> claims[c]] \in Notice
    BY <1>2 DEF Notice, DeleteClaim
  <2>2. events' \in Seq(Notice)
    BY <1>2, <2>1 DEF DeleteClaim, Notify, TypeOK
  <2>. QED  BY <1>2, <2>2 DEF DeleteClaim, TypeOK, Stage
<1>3. ASSUME NEW c \in Claim, Relist(c)  PROVE TypeOK'
  <2>1. Visible(c) \in Object \cup {"absent"} /\ seen[c] \in Object \cup {"absent"}
    BY DEF Visible, TypeOK
  <2>2. PICK t \in {"add", "update", "unknown"}, o \in Object : Notify(t, c, o)
    BY <1>3, <2>1 DEF Relist
  <2>3. [type |-> t, claim |-> c, stage |-> o] \in Notice
    BY DEF Notice
  <2>4. events' \in Seq(Notice)
    BY <2>2, <2>3 DEF Notify, TypeOK
  <2>. QED  BY <1>3, <2>1, <2>4 DEF Relist, TypeOK
<1>4. CASE WatchBreaks
  <2>1. MaxBreaks \in Nat
    BY ClaimsAssumption DEF ClaimsAssumption
  <2>2. breaks' \in 0 .. MaxBreaks
    BY <1>4, <2>1 DEF WatchBreaks, TypeOK
  <2>. QED  BY <1>4, <2>2 DEF WatchBreaks, TypeOK
<1>5. CASE WatchResumes
  BY <1>5 DEF WatchResumes, TypeOK
<1>6. CASE HandleEvent
  <2>1. events \in Seq(Notice) /\ events # <<>>
    BY <1>6 DEF HandleEvent, TypeOK
  <2>2. nodes' \in Store /\ events' \in Seq(Notice)
    BY <1>6, <2>1, Taking, ProcessedStore DEF HandleEvent, TypeOK
  <2>. QED  BY <1>6, <2>2 DEF HandleEvent, TypeOK
<1>7. CASE ListNodeClaims
  BY <1>7, ClaimsAssumption
  DEF ListNodeClaims, triesLeft, TypeOK, ClaimsAssumption, cluster, Registered
<1>8. ASSUME NEW c \in Claim, AddListed(c)  PROVE TypeOK'
  <2>1. nodes' \in Store
    BY <1>8, ZoneOfClaim, NodeOfClaim DEF AddListed, AddNode, Store, TypeOK
  <2>. QED  BY <1>8, <2>1 DEF AddListed, TypeOK, cluster
<1>9. CASE CacheSynced \/ GiveUp \/ Initialized
  BY <1>9 DEF CacheSynced, GiveUp, Initialized, TypeOK, cluster
<1>10. CASE UNCHANGED vars
  BY <1>10 DEF vars, cluster, TypeOK
<1>. QED
  BY <1>1, <1>2, <1>3, <1>4, <1>5, <1>6, <1>7, <1>8, <1>9, <1>10
  DEF Next, Informer, initializeStore, Finished

\* The store, the queue of notifications and the informer's cache keep their types.
THEOREM TypeCorrect == Spec => []TypeOK
  BY TypeInit, TypeNext, PTL DEF Spec

-----------------------------------------------------------------------------
(***************************************************************************)
(* Claims and the notifications about them.                                *)
(***************************************************************************)

Labelled(c) == DOMAIN labels[c] # {}
Adds(e)     == e.type \in {"add", "update"} /\ hasNode(e)
Removes(e)  == e.type = "delete" /\ hasNode(e)

\* The claims, the cache and what initializeStore has listed.
Cluster ==
  /\ \A c \in Registered : Labelled(c)
  /\ \A c, d \in Registered : nodeOf[c] = nodeOf[d] => c = d
  /\ watching => \A c \in Claim : seen[c] = Visible(c)
  /\ \A c \in todo : claims[c] \in {"registered", "gone"} /\ Labelled(c)
  /\ \A c \in Claim : seen[c] = "registered" => claims[c] \in {"registered", "gone"}

\* A notification of a node comes after its registration.  A deletion that the informer
\* saw is the last thing it hears of a claim, and names the node if there ever was one.
Notices ==
  /\ \A i \in DOMAIN events :
       Adds(events[i]) => claims[events[i].claim] \in {"registered", "gone"}
  /\ \A i \in DOMAIN events : events[i].type = "delete" =>
       /\ claims[events[i].claim] = "gone" /\ seen[events[i].claim] = "absent"
       /\ ~hasNode(events[i]) =>
            /\ events[i].claim \notin todo
            /\ \A j \in DOMAIN events : events[j].claim = events[i].claim => ~Adds(events[j])

ClusterInv == TypeOK /\ Cluster /\ Notices

\* How a step may change the queue: one notification more, or the first one less.
Sent(e)  == e \in Notice /\ events' = Append(events, e)

LEMMA SentFacts ==
  ASSUME TypeOK, NEW e, Sent(e)
  PROVE  /\ Len(events) \in Nat /\ DOMAIN events = 1 .. Len(events)
         /\ DOMAIN events' = 1 .. Len(events) + 1
         /\ events'[Len(events) + 1] = e /\ e.claim \in Claim
         /\ \A i \in 1 .. Len(events) : events'[i] = events[i]
<1>1. events \in Seq(Notice) /\ e \in Notice
  BY DEF TypeOK, Sent
<1>2. e.claim \in Claim
  BY <1>1 DEF Notice
<1>. QED  BY <1>1, <1>2, Appending DEF Sent

LEMMA TakenFacts ==
  ASSUME TypeOK, HandleEvent
  PROVE  /\ Len(events) \in Nat \ {0} /\ DOMAIN events = 1 .. Len(events)
         /\ DOMAIN events' = 1 .. Len(events) - 1
         /\ \A i \in 1 .. Len(events) - 1 : events'[i] = events[i + 1]
         /\ Head(events) = events[1] /\ events[1] \in Notice /\ events[1].claim \in Claim
         /\ nodes' = processNodeClaim(nodes, events[1])
         /\ UNCHANGED <<claims, seen, watching, breaks, pc, tries, todo, lost>>
<1>1. events \in Seq(Notice) /\ events # <<>>
  BY DEF TypeOK, HandleEvent
<1>2. 1 \in DOMAIN events
  BY <1>1
<1>. QED  BY <1>1, <1>2, Taking, EventIsNotice DEF HandleEvent

LEMMA ClusterInit == Init => Cluster /\ Notices
  BY DEF Init, Cluster, Notices, Registered, Labelled

\* Claims only move on.
MovesOn ==
  \A c \in Claim : /\ claims[c] = "gone" => claims'[c] = "gone"
                   /\ claims[c] = "registered" => claims'[c] \in {"registered", "gone"}

\* A notification that is not of a deletion keeps Notices, unless the informer
\* has already seen the claim go.
LEMMA NoticesSent ==
  ASSUME ClusterInv, NEW e, Sent(e), e.type # "delete", MovesOn,
         Adds(e) => claims'[e.claim] = "registered",
         \A c \in Claim : c # e.claim => seen'[c] = seen[c],
         claims[e.claim] # "gone" \/ seen[e.claim] # "absent",
         todo' = todo
  PROVE  Notices'
<1>. USE DEF ClusterInv
<1>1. ASSUME NEW i \in DOMAIN events', i # Len(events) + 1
      PROVE  i \in DOMAIN events /\ events'[i] = events[i] /\ events[i].claim \in Claim
  <2>1. i \in DOMAIN events /\ events'[i] = events[i]
    BY <1>1, SentFacts
  <2>. QED  BY <2>1, EventIsNotice DEF TypeOK
<1>2. events'[Len(events) + 1] = e /\ e.claim \in Claim
  BY SentFacts
<1>3. ASSUME NEW i \in DOMAIN events', Adds(events'[i])
      PROVE  claims'[events'[i].claim] \in {"registered", "gone"}
  BY <1>1, <1>2, <1>3 DEF Notices, MovesOn
<1>4. ASSUME NEW i \in DOMAIN events', events'[i].type = "delete"
      PROVE  /\ claims'[events'[i].claim] = "gone" /\ seen'[events'[i].claim] = "absent"
             /\ ~hasNode(events'[i]) =>
                  /\ events'[i].claim \notin todo
                  /\ \A j \in DOMAIN events' : events'[j].claim = events'[i].claim => ~Adds(events'[j])
  <2>1. i \in DOMAIN events /\ events'[i] = events[i] /\ events[i].claim \in Claim
    BY <1>1, <1>2, <1>4
  <2>2. /\ claims[events[i].claim] = "gone" /\ seen[events[i].claim] = "absent"
        /\ ~hasNode(events[i]) =>
             /\ events[i].claim \notin todo
             /\ \A j \in DOMAIN events : events[j].claim = events[i].claim => ~Adds(events[j])
    BY <1>4, <2>1 DEF Notices
  <2>3. events[i].claim # e.claim
    BY <2>2
  <2>4. ASSUME NEW j \in DOMAIN events', events'[j].claim = events[i].claim, ~hasNode(events[i])
        PROVE  ~Adds(events'[j])
    BY <1>1, <1>2, <2>2, <2>3, <2>4
  <2>. QED  BY <2>1, <2>2, <2>3, <2>4 DEF MovesOn
<1>. QED  BY <1>3, <1>4 DEF Notices, hasNode, Adds

\* The same for steps that send nothing.
LEMMA NoticesQuiet ==
  ASSUME ClusterInv, MovesOn, UNCHANGED <<seen, events>>,
         \A c \in todo' : c \in todo \/ claims[c] # "gone"
  PROVE  Notices'
<1>1. \A i \in DOMAIN events : events[i].claim \in Claim
  BY EventIsNotice DEF ClusterInv, TypeOK
<1>. QED  BY <1>1 DEF ClusterInv, Notices, MovesOn, hasNode, Adds

LEMMA ClusterNext == ClusterInv /\ [Next]_vars => ClusterInv'
<1>. SUFFICES ASSUME ClusterInv, [Next]_vars PROVE Cluster' /\ Notices'
  BY TypeNext DEF ClusterInv
<1>. USE DEF ClusterInv
<1>1. ASSUME NEW c \in Claim, CreateClaim(c)  PROVE Cluster' /\ Notices'
  <2>. DEFINE e == [type |-> "add", claim |-> c, stage |-> "created"]
  <2>1. /\ claims[c] = "unborn" /\ claims' = [claims EXCEPT ![c] = "created"]
        /\ UNCHANGED <<watching, todo>>
        /\ IF watching THEN events' = Append(events, e) /\ seen' = [seen EXCEPT ![c] = "created"]
           ELSE UNCHANGED <<events, seen>>
    BY <1>1 DEF CreateClaim, Changes, Notify
  <2>0. MovesOn
    BY <2>1 DEF MovesOn, TypeOK, Object
  <2>2. Cluster'
    BY <2>1 DEF Cluster, Registered, Labelled, Visible, Object, TypeOK
  <2>3. CASE watching
    <3>1. Sent(e) /\ e.type # "delete" /\ e.claim = c
      BY <2>1, <2>3 DEF Sent, Notice, Object
    <3>2. Adds(e) => claims'[c] = "registered"
      BY <2>1 DEF Adds, hasNode, TypeOK
    <3>3. \A d \in Claim : d # c => seen'[d] = seen[d]
      BY <2>1, <2>3 DEF TypeOK
    <3>. HIDE DEF e
    <3>. QED  BY <2>0, <2>1, <2>2, <3>1, <3>2, <3>3, NoticesSent
  <2>4. CASE ~watching
    BY <2>0, <2>1, <2>2, <2>4, NoticesQuiet
  <2>. QED  BY <2>3, <2>4
<1>2. ASSUME NEW c \in Claim, RegisterNode(c)  PROVE Cluster' /\ Notices'
  <2>. DEFINE e == [type |-> "update", claim |-> c, stage |-> "registered"]
  <2>1. /\ claims[c] = "created" /\ claims' = [claims EXCEPT ![c] = "registered"]
        /\ Labelled(c) /\ \A d \in Registered : nodeOf[d] # nodeOf[c]
        /\ UNCHANGED <<watching, todo>>
        /\ IF watching THEN events' = Append(events, e) /\ seen' = [seen EXCEPT ![c] = "registered"]
           ELSE UNCHANGED <<events, seen>>
    BY <1>2 DEF RegisterNode, Changes, Notify, Labelled
  <2>0. MovesOn
    BY <2>1 DEF MovesOn, TypeOK, Object
  <2>2. Cluster'
    BY <2>1 DEF Cluster, Registered, Labelled, Visible, Object, TypeOK
  <2>3. CASE watching
    <3>1. Sent(e) /\ e.type # "delete" /\ e.claim = c
      BY <2>1, <2>3 DEF Sent, Notice, Object
    <3>2. Adds(e) => claims'[c] = "registered"
      BY <2>1 DEF Adds, hasNode, TypeOK
    <3>3. \A d \in Claim : d # c => seen'[d] = seen[d]
      BY <2>1, <2>3 DEF TypeOK
    <3>. HIDE DEF e
    <3>. QED  BY <2>0, <2>1, <2>2, <3>1, <3>2, <3>3, NoticesSent
  <2>4. CASE ~watching
    BY <2>0, <2>1, <2>2, <2>4, NoticesQuiet
  <2>. QED  BY <2>3, <2>4
<1>3. ASSUME NEW c \in Claim, DeleteClaim(c)  PROVE Cluster' /\ Notices'
  <2>. DEFINE e == [type |-> "delete", claim |-> c, stage |-> claims[c]]
  <2>1. /\ claims[c] \in Object /\ claims' = [claims EXCEPT ![c] = "gone"]
        /\ UNCHANGED <<watching, todo>>
        /\ IF watching THEN events' = Append(events, e) /\ seen' = [seen EXCEPT ![c] = "absent"]
           ELSE UNCHANGED <<events, seen>>
    BY <1>3 DEF DeleteClaim, Notify
  <2>0. MovesOn
    BY <2>1 DEF MovesOn, TypeOK, Object
  <2>2. Cluster'
    BY <2>1 DEF Cluster, Registered, Labelled, Visible, Object, TypeOK
  <2>3. CASE ~watching
    BY <2>0, <2>1, <2>2, <2>3, NoticesQuiet
  <2>4. CASE watching
    <3>1. Sent(e) /\ e.type = "delete" /\ e.claim = c /\ e.stage = claims[c]
      BY <2>1, <2>4 DEF Sent, Notice
    <3>2. claims[c] = "created" => c \notin todo
      BY DEF Cluster
    <3>3. claims[c] = "registered" => hasNode(e)
      BY <3>1 DEF Cluster, Registered, hasNode, Labelled
    <3>. HIDE DEF e
    <3>4. ~hasNode(e) => claims[c] = "created"
      BY <2>1, <3>3 DEF Object
    <3>5. claims'[c] = "gone" /\ (\A d \in Claim : d # c => seen'[d] = seen[d]) /\ seen'[c] = "absent"
      BY <2>1, <2>4 DEF TypeOK
    <3>6. ASSUME NEW i \in DOMAIN events', i # Len(events) + 1
          PROVE  i \in DOMAIN events /\ events'[i] = events[i] /\ events[i].claim \in Claim
      <4>1. i \in DOMAIN events /\ events'[i] = events[i]
        BY <3>1, <3>6, SentFacts
      <4>. QED  BY <4>1, EventIsNotice DEF TypeOK
    <3>7. events'[Len(events) + 1] = e /\ ~Adds(e)
      BY <3>1, SentFacts DEF Adds
    <3>8. ASSUME NEW i \in DOMAIN events', Adds(events'[i])
          PROVE  claims'[events'[i].claim] \in {"registered", "gone"}
      BY <2>0, <3>6, <3>7, <3>8 DEF Notices, MovesOn
    <3>9. ASSUME NEW i \in DOMAIN events', events'[i].type = "delete"
          PROVE  /\ claims'[events'[i].claim] = "gone" /\ seen'[events'[i].claim] = "absent"
                 /\ ~hasNode(events'[i]) =>
                      /\ events'[i].claim \notin todo
                      /\ \A j \in DOMAIN events' :
                           events'[j].claim = events'[i].claim => ~Adds(events'[j])
      <4>1. CASE i = Len(events) + 1
        <5>1. ASSUME ~hasNode(e), NEW j \in DOMAIN events', events'[j].claim = c
              PROVE  ~Adds(events'[j])
          BY <3>4, <3>6, <3>7, <5>1 DEF Notices
        <5>. QED  BY <3>1, <3>2, <3>4, <3>5, <3>7, <4>1, <5>1
      <4>2. CASE i # Len(events) + 1
        <5>1. i \in DOMAIN events /\ events'[i] = events[i] /\ events[i].claim \in Claim
          BY <3>6, <4>2
        <5>2. /\ claims[events[i].claim] = "gone" /\ seen[events[i].claim] = "absent"
              /\ ~hasNode(events[i]) =>
                   /\ events[i].claim \notin todo
                   /\ \A j \in DOMAIN events : events[j].claim = events[i].claim => ~Adds(events[j])
          BY <3>9, <5>1 DEF Notices
        <5>3. events[i].claim # c
          BY <2>1, <5>2 DEF Object
        <5>4. ASSUME NEW j \in DOMAIN events', events'[j].claim = events[i].claim, ~hasNode(events[i])
              PROVE  ~Adds(events'[j])
          BY <3>6, <3>7, <5>2, <5>4
        <5>. QED  BY <2>0, <3>5, <5>1, <5>2, <5>3, <5>4 DEF MovesOn
      <4>. QED  BY <4>1, <4>2
    <3>10. Notices'
      BY <2>1, <3>8, <3>9 DEF Notices, hasNode, Adds
    <3>. QED  BY <2>2, <3>10
  <2>. QED  BY <2>3, <2>4
<1>4. ASSUME NEW c \in Claim, Relist(c)  PROVE Cluster' /\ Notices'
  <2>0. MovesOn /\ todo' = todo /\ claims' = claims /\ watching' = watching /\ ~watching
    BY <1>4 DEF Relist, MovesOn
  <2>1. \A d \in Claim : d # c => seen'[d] = seen[d]
    BY <1>4 DEF Relist, TypeOK
  <2>2. Cluster'
    <3>1. seen'[c] = "registered" => claims[c] = "registered"
      BY <1>4 DEF Relist, TypeOK, Visible, Object
    <3>. QED  BY <2>0, <2>1, <3>1 DEF Cluster, Registered, Labelled
  <2>3. Visible(c) \in Object \cup {"absent"} /\ seen[c] \in Object \cup {"absent"}
    BY DEF Visible, TypeOK
  <2>4. PICK t \in {"add", "update", "unknown"}, o \in Object :
          Notify(t, c, o) /\ (t # "unknown" => o = claims[c])
    BY <1>4, <2>3 DEF Relist, Visible
  <2>. DEFINE e == [type |-> t, claim |-> c, stage |-> o]
  <2>5. Sent(e) /\ e.type # "delete" /\ e.claim = c
    BY <2>4 DEF Sent, Notice, Notify
  <2>6. Adds(e) => claims'[c] = "registered"
    BY <2>0, <2>4 DEF Adds, hasNode
  <2>7. claims[c] # "gone" \/ seen[c] # "absent"
    BY <1>4 DEF Relist, Visible, Object
  <2>. HIDE DEF e
  <2>. QED  BY <2>0, <2>1, <2>2, <2>5, <2>6, <2>7, NoticesSent
<1>5. CASE WatchBreaks
  <2>1. MovesOn
    BY <1>5 DEF WatchBreaks, MovesOn
  <2>2. Cluster'
    BY <1>5 DEF WatchBreaks, Cluster, Registered, Labelled
  <2>. QED  BY <1>5, <2>1, <2>2, NoticesQuiet DEF WatchBreaks
<1>6. CASE WatchResumes
  <2>1. MovesOn
    BY <1>6 DEF WatchResumes, MovesOn
  <2>2. Cluster'
    BY <1>6 DEF WatchResumes, Cluster, Registered, Labelled, Visible
  <2>. QED  BY <1>6, <2>1, <2>2, NoticesQuiet DEF WatchResumes
<1>7. CASE HandleEvent
  <2>1. Cluster'
    BY <1>7 DEF HandleEvent, Cluster, Registered, Labelled, Visible
  <2>2. \A i \in DOMAIN events' : i + 1 \in DOMAIN events /\ events'[i] = events[i + 1]
    BY <1>7, TakenFacts
  <2>3. UNCHANGED <<claims, seen, todo>>
    BY <1>7 DEF HandleEvent
  <2>4. ASSUME NEW i \in DOMAIN events', events'[i].type = "delete", ~hasNode(events'[i]),
               NEW j \in DOMAIN events', events'[j].claim = events'[i].claim
        PROVE  ~Adds(events'[j])
    BY <2>2, <2>4 DEF Notices
  <2>5. Notices'
    BY <2>2, <2>3, <2>4 DEF Notices, hasNode, Adds
  <2>. QED  BY <2>1, <2>5
<1>8. CASE initializeStore
  <2>1. MovesOn /\ UNCHANGED <<claims, seen, watching, events>>
    BY <1>8
    DEF initializeStore, CacheSynced, ListNodeClaims, GiveUp, AddListed, Initialized, cluster, MovesOn
  <2>2. todo' \subseteq todo \cup Registered
    BY <1>8 DEF initializeStore, CacheSynced, ListNodeClaims, GiveUp, AddListed, Initialized
  <2>3. Cluster'
    BY <2>1, <2>2 DEF Cluster, Registered, Labelled, Visible
  <2>4. \A c \in todo' : c \in todo \/ claims[c] # "gone"
    BY <2>2 DEF Registered
  <2>. QED  BY <2>1, <2>3, <2>4, NoticesQuiet
<1>9. CASE UNCHANGED vars
  <2>1. MovesOn /\ UNCHANGED <<claims, seen, watching, events, todo>>
    BY <1>9 DEF vars, cluster, MovesOn
  <2>2. Cluster'
    BY <2>1 DEF Cluster, Registered, Labelled, Visible
  <2>. QED  BY <2>1, <2>2, NoticesQuiet
<1>. QED
  BY <1>1, <1>2, <1>3, <1>4, <1>5, <1>6, <1>7, <1>8, <1>9 DEF Next, Informer, Finished

LEMMA ClusterInvNext == ClusterInv /\ [Next]_vars => ClusterInv'
  BY ClusterNext

\* What a notification does to the store.
LEMMA Processed ==
  ASSUME NEW s \in Store, NEW e \in Notice, NEW n \in Node
  PROVE  processNodeClaim(s, e)[n] =
           IF nodeOf[e.claim] # n THEN s[n]
           ELSE IF Removes(e) THEN NotStored
           ELSE IF Adds(e) THEN zoneLabel(e.claim)
           ELSE s[n]
<1>1. e.type \in {"add", "update", "delete", "unknown"} /\ nodeOf[e.claim] \in Node
  BY NodeOfClaim DEF Notice
<1>. QED
  BY <1>1 DEF processNodeClaim, Added, Removed, AddNode, RemoveNode, Store, Removes, Adds

-----------------------------------------------------------------------------
(***************************************************************************)
(* Ghosts.                                                                 *)
(***************************************************************************)

Alright == Registered \cup lost

\* A node in the store belongs to a claim that is alright, or whose deletion the
\* informer's goroutine will come to.  What is still to be added is alright, or
\* will be removed after that.
Ghosts ==
  /\ \A n \in Tracked(nodes) : \E c \in Claim :
       /\ nodeOf[c] = n
       /\ c \in Alright \/ \E j \in DOMAIN events : Removes(events[j]) /\ events[j].claim = c
  /\ \A i \in DOMAIN events : Adds(events[i]) =>
       \/ events[i].claim \in Alright
       \/ \E j \in DOMAIN events : j > i /\ Removes(events[j]) /\ events[j].claim = events[i].claim

LEMMA GhostsInit == Init => Ghosts
  BY DEF Init, Ghosts, NewNodeStore, Tracked

LEMMA GhostsQuiet ==
  ASSUME ClusterInv, Ghosts, UNCHANGED <<events, nodes>>, Alright \subseteq Alright'
  PROVE  Ghosts'
<1>1. Tracked(nodes)' = Tracked(nodes)
  BY DEF Tracked
<1>2. \A i \in DOMAIN events : /\ Adds(events[i])' <=> Adds(events[i])
                              /\ Removes(events[i])' <=> Removes(events[i])
  BY DEF Adds, Removes, hasNode
<1>. QED  BY <1>1, <1>2 DEF Ghosts

LEMMA GhostsSent ==
  ASSUME ClusterInv, Ghosts, NEW e, Sent(e), nodes' = nodes,
         \A c \in Alright : c \in Alright' \/ (Removes(e) /\ e.claim = c),
         Adds(e) => e.claim \in Alright'
  PROVE  Ghosts'
<1>1. /\ Len(events) \in Nat /\ DOMAIN events = 1 .. Len(events)
      /\ DOMAIN events' = 1 .. Len(events) + 1 /\ events'[Len(events) + 1] = e
      /\ \A i \in DOMAIN events : i \in DOMAIN events' /\ i < Len(events) + 1 /\ events'[i] = events[i]
  BY SentFacts DEF ClusterInv
<1>2. ASSUME NEW n \in Tracked(nodes)
      PROVE  \E c \in Claim :
               /\ nodeOf[c] = n
               /\ \/ c \in Alright'
                  \/ \E j \in DOMAIN events' : Removes(events'[j]) /\ events'[j].claim = c
  <2>1. PICK c \in Claim :
          /\ nodeOf[c] = n
          /\ c \in Alright \/ \E j \in DOMAIN events : Removes(events[j]) /\ events[j].claim = c
    BY DEF Ghosts
  <2>. QED  BY <1>1, <2>1
<1>3. ASSUME NEW i \in DOMAIN events', Adds(events'[i])
      PROVE  \/ events'[i].claim \in Alright'
             \/ \E j \in DOMAIN events' :
                  j > i /\ Removes(events'[j]) /\ events'[j].claim = events'[i].claim
  <2>1. CASE i = Len(events) + 1
    BY <1>1, <1>3, <2>1
  <2>2. CASE i # Len(events) + 1
    <3>1. i \in DOMAIN events /\ events'[i] = events[i] /\ Len(events) + 1 > i
      BY <1>1, <2>2
    <3>2. \/ events[i].claim \in Alright
          \/ \E j \in DOMAIN events : j > i /\ Removes(events[j]) /\ events[j].claim = events[i].claim
      BY <1>3, <3>1 DEF Ghosts
    <3>. QED  BY <1>1, <3>1, <3>2
  <2>. QED  BY <2>1, <2>2
<1>. QED  BY <1>2, <1>3 DEF Ghosts, Adds, Removes, hasNode

LEMMA GhostsHandled ==
  ASSUME ClusterInv, Ghosts, HandleEvent
  PROVE  Ghosts'
<1>. DEFINE e == events[1]
<1>1. /\ Len(events) \in Nat \ {0} /\ DOMAIN events = 1 .. Len(events)
      /\ DOMAIN events' = 1 .. Len(events) - 1
      /\ \A i \in 1 .. Len(events) - 1 : events'[i] = events[i + 1]
      /\ e \in Notice /\ e.claim \in Claim
      /\ nodes' = processNodeClaim(nodes, e) /\ UNCHANGED <<claims, lost>>
  BY TakenFacts DEF ClusterInv
<1>2. Alright' = Alright
  BY <1>1 DEF Alright, Registered
<1>3. ASSUME NEW j \in DOMAIN events, j > 1
      PROVE  j - 1 \in DOMAIN events' /\ events'[j - 1] = events[j]
  BY <1>1, <1>3
<1>4. ASSUME NEW n \in Tracked(nodes')
      PROVE  \E c \in Claim :
               /\ nodeOf[c] = n
               /\ \/ c \in Alright'
                  \/ \E j \in DOMAIN events' : Removes(events'[j]) /\ events'[j].claim = c
  <2>1. n \in Node /\ nodes'[n] # NotStored /\ nodes \in Store
    BY DEF Tracked, ClusterInv, TypeOK
  <2>2. CASE nodeOf[e.claim] = n /\ Adds(e)
    <3>1. \/ e.claim \in Alright
          \/ \E j \in DOMAIN events : j > 1 /\ Removes(events[j]) /\ events[j].claim = e.claim
      BY <1>1, <2>2 DEF Ghosts
    <3>. QED  BY <1>1, <1>2, <1>3, <2>2, <3>1
  <2>3. CASE ~(nodeOf[e.claim] = n /\ Adds(e))
    <3>1. nodes[n] # NotStored /\ ~(nodeOf[e.claim] = n /\ Removes(e))
      BY <1>1, <2>1, <2>3, Processed
    <3>2. PICK c \in Claim :
            /\ nodeOf[c] = n
            /\ c \in Alright \/ \E j \in DOMAIN events : Removes(events[j]) /\ events[j].claim = c
      BY <2>1, <3>1 DEF Ghosts, Tracked
    <3>3. ASSUME NEW j \in DOMAIN events, Removes(events[j]), events[j].claim = c
          PROVE  j > 1
      <4>1. j # 1
        BY <3>1, <3>2, <3>3
      <4>. QED  BY <1>1, <4>1
    <3>. QED  BY <1>2, <1>3, <3>2, <3>3
  <2>. QED  BY <2>2, <2>3
<1>5. ASSUME NEW i \in DOMAIN events', Adds(events'[i])
      PROVE  \/ events'[i].claim \in Alright'
             \/ \E j \in DOMAIN events' :
                  j > i /\ Removes(events'[j]) /\ events'[j].claim = events'[i].claim
  <2>1. i \in Nat /\ i + 1 \in DOMAIN events /\ events'[i] = events[i + 1]
    BY <1>1
  <2>2. \/ events[i + 1].claim \in Alright
        \/ \E j \in DOMAIN events :
             j > i + 1 /\ Removes(events[j]) /\ events[j].claim = events[i + 1].claim
    BY <1>5, <2>1 DEF Ghosts
  <2>3. ASSUME NEW j \in DOMAIN events, j > i + 1  PROVE j > 1 /\ j - 1 > i
    BY <1>1, <2>1, <2>3
  <2>. QED  BY <1>2, <1>3, <2>1, <2>2, <2>3
<1>. QED  BY <1>4, <1>5 DEF Ghosts, Adds, Removes, hasNode

LEMMA GhostsAddListed ==
  ASSUME ClusterInv, Ghosts, NEW c \in Claim, AddListed(c)
  PROVE  Ghosts'
<1>1. /\ c \in todo /\ nodes' = AddNode(nodes, nodeOf[c], zoneLabel(c)) /\ UNCHANGED <<claims, events>>
      /\ lost \subseteq lost' /\ (claims[c] = "gone" /\ ~Pending("delete", c) => c \in lost')
  BY DEF AddListed, cluster
<1>2. Alright \subseteq Alright'
  BY <1>1 DEF Alright, Registered
<1>3. c \in Alright' \/ \E j \in DOMAIN events : Removes(events[j]) /\ events[j].claim = c
  <2>1. claims[c] \in {"registered", "gone"}
    BY <1>1 DEF ClusterInv, Cluster
  <2>2. CASE Pending("delete", c)
    <3>1. PICK j \in DOMAIN events : events[j].type = "delete" /\ events[j].claim = c
      BY <2>2 DEF Pending
    <3>2. hasNode(events[j])
      BY <1>1, <3>1 DEF ClusterInv, Notices
    <3>. QED  BY <3>1, <3>2 DEF Removes
  <2>3. CASE claims[c] = "registered"
    BY <1>1, <2>3 DEF Alright, Registered
  <2>. QED  BY <1>1, <2>1, <2>2, <2>3 DEF Alright
<1>4. \A n \in Tracked(nodes') : n = nodeOf[c] \/ n \in Tracked(nodes)
  BY <1>1 DEF AddNode, Tracked, ClusterInv, TypeOK, Store
<1>. QED  BY <1>1, <1>2, <1>3, <1>4 DEF Ghosts, Adds, Removes, hasNode

LEMMA GhostsNext == ClusterInv /\ Ghosts /\ [Next]_vars => Ghosts'
<1>. SUFFICES ASSUME ClusterInv, Ghosts, [Next]_vars PROVE Ghosts'
  OBVIOUS
<1>1. ASSUME NEW c \in Claim, NEW f \in {"unborn", "created"}, NEW o \in Object,
             NEW t \in {"add", "update"}, Changes(c, f, o, t)
      PROVE  Ghosts'
  <2>. DEFINE e == [type |-> t, claim |-> c, stage |-> o]
  <2>1. Alright \subseteq Alright' /\ nodes' = nodes /\ claims'[c] = o /\ lost' = lost
    BY <1>1 DEF Changes, Alright, Registered, ClusterInv, TypeOK
  <2>2. CASE watching
    <3>1. Sent(e) /\ ~Removes(e) /\ e.claim = c
      BY <1>1, <2>2 DEF Changes, Notify, Sent, Notice, Removes
    <3>2. Adds(e) => c \in Alright'
      BY <2>1 DEF Adds, hasNode, Alright, Registered
    <3>. HIDE DEF e
    <3>3. (\A d \in Alright : d \in Alright' \/ (Removes(e) /\ e.claim = d)) /\ (Adds(e) => e.claim \in Alright')
      BY <2>1, <3>1, <3>2
    <3>. QED  BY <2>1, <3>1, <3>3, GhostsSent
  <2>3. CASE ~watching
    BY <1>1, <2>1, <2>3, GhostsQuiet DEF Changes
  <2>. QED  BY <2>2, <2>3
<1>2. ASSUME NEW c \in Claim, DeleteClaim(c)  PROVE Ghosts'
  <2>. DEFINE e == [type |-> "delete", claim |-> c, stage |-> claims[c]]
  <2>1. claims[c] \in Object /\ claims' = [claims EXCEPT ![c] = "gone"] /\ nodes' = nodes
    BY <1>2 DEF DeleteClaim
  <2>2. \A d \in Registered : d = c \/ d \in Registered'
    BY <2>1 DEF Registered, ClusterInv, TypeOK
  <2>3. CASE watching
    <3>1. Sent(e) /\ ~Adds(e) /\ e.claim = c /\ lost' = lost
      BY <1>2, <2>1, <2>3 DEF DeleteClaim, Notify, Sent, Notice, Adds
    <3>2. c \in Registered => Removes(e)
      BY DEF ClusterInv, Cluster, Registered, Labelled, Removes, hasNode
    <3>. HIDE DEF e
    <3>3. (\A d \in Alright : d \in Alright' \/ (Removes(e) /\ e.claim = d)) /\ (Adds(e) => e.claim \in Alright')
      BY <2>2, <3>1, <3>2 DEF Alright
    <3>. QED  BY <2>1, <3>1, <3>3, GhostsSent
  <2>4. CASE ~watching
    <3>1. lost' = lost \cup {c} /\ events' = events
      BY <1>2, <2>4 DEF DeleteClaim
    <3>2. Alright \subseteq Alright'
      BY <2>2, <3>1 DEF Alright
    <3>. QED  BY <2>1, <3>1, <3>2, GhostsQuiet
  <2>. QED  BY <2>3, <2>4
<1>3. ASSUME NEW c \in Claim, Relist(c)  PROVE Ghosts'
  <2>1. Visible(c) \in Object \cup {"absent"} /\ seen[c] \in Object \cup {"absent"}
    BY DEF Visible, ClusterInv, TypeOK
  <2>2. PICK t \in {"add", "update", "unknown"}, o \in Object :
          Notify(t, c, o) /\ (t # "unknown" => o = claims[c])
    BY <1>3, <2>1 DEF Relist, Visible
  <2>. DEFINE e == [type |-> t, claim |-> c, stage |-> o]
  <2>3. Sent(e) /\ ~Removes(e) /\ e.claim = c
    BY <2>2 DEF Sent, Notice, Notify, Removes
  <2>4. nodes' = nodes /\ Alright' = Alright
    BY <1>3 DEF Relist, Alright, Registered
  <2>5. Adds(e) => c \in Alright'
    BY <2>2, <2>4 DEF Adds, hasNode, Alright, Registered
  <2>. HIDE DEF e
  <2>6. (\A d \in Alright : d \in Alright' \/ (Removes(e) /\ e.claim = d)) /\ (Adds(e) => e.claim \in Alright')
    BY <2>3, <2>4, <2>5
  <2>. QED  BY <2>3, <2>4, <2>6, GhostsSent
<1>4. ASSUME NEW c \in Claim, CreateClaim(c) \/ RegisterNode(c)  PROVE Ghosts'
  BY <1>1, <1>4 DEF CreateClaim, RegisterNode, Object
<1>5. CASE CacheSynced \/ ListNodeClaims \/ GiveUp \/ Initialized
  <2>1. UNCHANGED <<claims, events, nodes, lost>>
    BY <1>5 DEF CacheSynced, ListNodeClaims, GiveUp, Initialized, cluster
  <2>. QED  BY <2>1, GhostsQuiet DEF Alright, Registered
<1>6. CASE WatchBreaks \/ WatchResumes \/ UNCHANGED vars
  <2>1. UNCHANGED <<claims, events, nodes, lost>>
    BY <1>6 DEF WatchBreaks, WatchResumes, vars, cluster
  <2>. QED  BY <2>1, GhostsQuiet DEF Alright, Registered
<1>. QED
  BY <1>2, <1>3, <1>4, <1>5, <1>6, GhostsHandled, GhostsAddListed
  DEF Next, Informer, initializeStore, Finished

\* For any claims and any number of broken watches: when the informer has caught up,
\* every node in the store is that of a registered claim, or of one whose deletion
\* fell into a break of the watch or was overtaken by initializeStore.
THEOREM GhostsAlwaysExplained == Spec => []GhostsExplained
<1>1. Init => ClusterInv
  BY TypeInit, ClusterInit DEF ClusterInv
<1>2. Ghosts => GhostsExplained
  BY DEF Ghosts, GhostsExplained, Idle, Alright
<1>. QED  BY <1>1, <1>2, ClusterInvNext, GhostsInit, GhostsNext, PTL DEF Spec

-----------------------------------------------------------------------------
(***************************************************************************)
(* Nodes known.                                                            *)
(***************************************************************************)

RemovesNode(e, c) == Removes(e) /\ nodeOf[e.claim] = nodeOf[c]

\* The node of c is stored, or will be by the notification at i, and no removal of a
\* node of that name comes afterwards.
KnownFrom(c, i) ==
  /\ i = 0 => nodes[nodeOf[c]] = zoneLabel(c)
  /\ i > 0 => Adds(events[i]) /\ events[i].claim = c
  /\ \A j \in DOMAIN events : j > i => ~RemovesNode(events[j], c)

Known(c) == \E i \in 0 .. Len(events) : KnownFrom(c, i)

SeenRegistered == {c \in Registered : seen[c] = "registered"}

AllKnown == \A c \in SeenRegistered : Known(c)

LEMMA KnownQuiet ==
  ASSUME ClusterInv, AllKnown, events' = events, SeenRegistered' \subseteq SeenRegistered,
         \A c \in SeenRegistered : nodes[nodeOf[c]] = zoneLabel(c)
                                     => nodes'[nodeOf[c]] = zoneLabel(c)
  PROVE  AllKnown'
<1>. SUFFICES ASSUME NEW c \in SeenRegistered' PROVE Known(c)'
  BY DEF AllKnown
<1>1. PICK i \in 0 .. Len(events) : KnownFrom(c, i)
  BY DEF AllKnown, Known
<1>2. nodes[nodeOf[c]] = zoneLabel(c) => nodes'[nodeOf[c]] = zoneLabel(c)
  OBVIOUS
<1>3. KnownFrom(c, i)'
  BY <1>1, <1>2 DEF KnownFrom, RemovesNode, Removes, Adds, hasNode
<1>. QED  BY <1>1, <1>3 DEF Known

LEMMA KnownSent ==
  ASSUME ClusterInv, AllKnown, NEW e, Sent(e), nodes' = nodes,
         \A c \in SeenRegistered' : c \in SeenRegistered \/ (Adds(e) /\ e.claim = c),
         \A c \in SeenRegistered' : ~RemovesNode(e, c)
  PROVE  AllKnown'
<1>. SUFFICES ASSUME NEW c \in SeenRegistered' PROVE Known(c)'
  BY DEF AllKnown
<1>1. /\ Len(events) \in Nat /\ DOMAIN events = 1 .. Len(events)
      /\ DOMAIN events' = 1 .. Len(events) + 1 /\ events'[Len(events) + 1] = e
      /\ \A i \in DOMAIN events : events'[i] = events[i]
  BY SentFacts DEF ClusterInv
<1>2. Len(events') = Len(events) + 1
  BY Appending DEF Sent, ClusterInv, TypeOK
<1>3. CASE Adds(e) /\ e.claim = c
  <2>0. PICK k \in Nat : k = Len(events) + 1
    BY <1>1
  <2>1. k > 0 /\ k \in 0 .. Len(events') /\ events'[k] = e /\ \A j \in DOMAIN events' : ~(j > k)
    BY <1>1, <1>2, <2>0
  <2>2. KnownFrom(c, k)'
    BY <1>3, <2>1 DEF KnownFrom, Adds, hasNode
  <2>. QED  BY <2>1, <2>2 DEF Known
<1>4. CASE c \in SeenRegistered
  <2>1. PICK i \in 0 .. Len(events) : KnownFrom(c, i)
    BY <1>4 DEF AllKnown, Known
  <2>2. i > 0 => events'[i] = events[i]
    BY <1>1, <2>1
  <2>3. ~RemovesNode(e, c)
    OBVIOUS
  <2>4. \A j \in DOMAIN events' : j > i => ~RemovesNode(events'[j], c)
    BY <1>1, <2>1, <2>3 DEF KnownFrom
  <2>5. KnownFrom(c, i)'
    BY <2>1, <2>2, <2>4 DEF KnownFrom, RemovesNode, Removes, Adds, hasNode
  <2>. QED  BY <1>1, <1>2, <2>1, <2>5 DEF Known
<1>. QED  BY <1>3, <1>4

LEMMA KnownHandled ==
  ASSUME ClusterInv, AllKnown, HandleEvent
  PROVE  AllKnown'
<1>. SUFFICES ASSUME NEW c \in SeenRegistered' PROVE Known(c)'
  BY DEF AllKnown
<1>. DEFINE e == events[1]
<1>1. /\ Len(events) \in Nat \ {0} /\ DOMAIN events = 1 .. Len(events)
      /\ DOMAIN events' = 1 .. Len(events) - 1
      /\ \A i \in 1 .. Len(events) - 1 : events'[i] = events[i + 1]
      /\ e \in Notice /\ e.claim \in Claim
      /\ nodes' = processNodeClaim(nodes, e) /\ UNCHANGED <<claims, seen>>
  BY TakenFacts DEF ClusterInv
<1>2. Len(events') = Len(events) - 1
  BY Taking DEF HandleEvent, ClusterInv, TypeOK
<1>3. c \in SeenRegistered /\ c \in Registered /\ c \in Claim /\ nodeOf[c] \in Node
  BY <1>1, NodeOfClaim DEF SeenRegistered, Registered
<1>4. PICK i \in 0 .. Len(events) : KnownFrom(c, i)
  BY <1>3 DEF AllKnown, Known
<1>5. CASE i > 1
  <2>1. i - 1 \in 0 .. Len(events') /\ i - 1 > 0 /\ events'[i - 1] = events[i]
    BY <1>1, <1>2, <1>4, <1>5
  <2>2. \A j \in DOMAIN events' : j > i - 1 => ~RemovesNode(events'[j], c)
    BY <1>1, <1>4 DEF KnownFrom
  <2>3. KnownFrom(c, i - 1)'
    BY <1>4, <1>5, <2>1, <2>2 DEF KnownFrom, RemovesNode, Removes, Adds, hasNode
  <2>. QED  BY <2>1, <2>3 DEF Known
<1>6. CASE i \in {0, 1}
  <2>1. \A j \in DOMAIN events' : ~RemovesNode(events'[j], c)
    BY <1>1, <1>4, <1>6 DEF KnownFrom
  <2>2. nodes'[nodeOf[c]] = zoneLabel(c)
    <3>1. nodes \in Store /\ Labelled(c)
      BY <1>3 DEF ClusterInv, TypeOK, Cluster
    <3>2. nodeOf[e.claim] = nodeOf[c] /\ Adds(e) => zoneLabel(e.claim) = zoneLabel(c)
      BY <1>1, <1>3, <3>1, NameAssumption DEF NameAssumption, Adds, hasNode, Labelled
    <3>3. CASE i = 0
      <4>1. ~RemovesNode(e, c) /\ nodes[nodeOf[c]] = zoneLabel(c)
        BY <1>1, <1>4, <3>3 DEF KnownFrom
      <4>. QED  BY <1>1, <1>3, <3>1, <3>2, <4>1, Processed DEF RemovesNode
    <3>4. CASE i = 1
      <4>1. Adds(e) /\ e.claim = c
        BY <1>1, <1>4, <3>4 DEF KnownFrom
      <4>2. ~Removes(e)
        BY <4>1 DEF Adds, Removes
      <4>. QED  BY <1>1, <1>3, <3>1, <4>1, <4>2, Processed
    <3>. QED  BY <1>6, <3>3, <3>4
  <2>3. KnownFrom(c, 0)' /\ 0 \in 0 .. Len(events')
    BY <1>1, <1>2, <2>1, <2>2 DEF KnownFrom, RemovesNode, Removes, hasNode
  <2>. QED  BY <2>3 DEF Known
<1>. QED  BY <1>1, <1>4, <1>5, <1>6

LEMMA KnownNext == ClusterInv /\ AllKnown /\ [Next]_vars => AllKnown'
<1>. SUFFICES ASSUME ClusterInv, AllKnown, [Next]_vars PROVE AllKnown'
  OBVIOUS
<1>1. ASSUME NEW c \in Claim, NEW f \in {"unborn", "created"}, NEW o \in Object,
             NEW t \in {"add", "update"}, Changes(c, f, o, t), o = "registered" => Labelled(c)
      PROVE  AllKnown'
  <2>. DEFINE e == [type |-> t, claim |-> c, stage |-> o]
  <2>1. nodes' = nodes /\ claims' = [claims EXCEPT ![c] = o] /\ claims[c] = f
    BY <1>1 DEF Changes
  <2>2. CASE watching
    <3>1. Sent(e) /\ ~Removes(e) /\ e.claim = c /\ e.stage = o /\ e.type = t
      BY <1>1, <2>2 DEF Changes, Notify, Sent, Notice, Removes
    <3>2. seen' = [seen EXCEPT ![c] = o]
      BY <1>1, <2>2 DEF Changes
    <3>3. \A d \in SeenRegistered' : d \in SeenRegistered \/ (d = c /\ o = "registered")
      BY <2>1, <3>2 DEF SeenRegistered, Registered, ClusterInv, TypeOK
    <3>4. o = "registered" => Adds(e)
      BY <1>1, <3>1 DEF Adds, hasNode, Labelled
    <3>. HIDE DEF e
    <3>. QED  BY <2>1, <3>1, <3>3, <3>4, KnownSent DEF RemovesNode
  <2>3. CASE ~watching
    <3>1. seen' = seen /\ events' = events
      BY <1>1, <2>3 DEF Changes
    <3>2. SeenRegistered' \subseteq SeenRegistered
      <4>1. seen[c] # "registered"
        BY <1>1, <2>1 DEF ClusterInv, Cluster
      <4>. QED  BY <2>1, <3>1, <4>1 DEF SeenRegistered, Registered, ClusterInv, TypeOK
    <3>. QED  BY <2>1, <3>1, <3>2, KnownQuiet
  <2>. QED  BY <2>2, <2>3
<1>2. ASSUME NEW c \in Claim, DeleteClaim(c)  PROVE AllKnown'
  <2>. DEFINE e == [type |-> "delete", claim |-> c, stage |-> claims[c]]
  <2>1. /\ nodes' = nodes /\ claims[c] \in Object /\ claims' = [claims EXCEPT ![c] = "gone"]
    BY <1>2 DEF DeleteClaim
  <2>2. Registered' \subseteq Registered \ {c}
    BY <2>1 DEF Registered, ClusterInv, TypeOK
  <2>3. CASE watching
    <3>1. Sent(e) /\ e.claim = c /\ e.stage = claims[c] /\ e.type = "delete"
      BY <1>2, <2>1, <2>3 DEF DeleteClaim, Notify, Sent, Notice
    <3>2. seen' = [seen EXCEPT ![c] = "absent"]
      BY <1>2, <2>3 DEF DeleteClaim
    <3>. HIDE DEF e
    <3>3. SeenRegistered' \subseteq SeenRegistered \ {c}
      BY <2>2, <3>2 DEF SeenRegistered, ClusterInv, TypeOK, Registered
    <3>4. ASSUME NEW d \in SeenRegistered'  PROVE ~RemovesNode(e, d)
      <4>1. d \in Registered /\ d # c
        BY <3>3 DEF SeenRegistered
      <4>2. Removes(e) => c \in Registered
        BY <3>1 DEF Removes, hasNode, Registered
      <4>. QED  BY <3>1, <4>1, <4>2 DEF RemovesNode, ClusterInv, Cluster
    <3>. QED  BY <2>1, <3>1, <3>3, <3>4, KnownSent
  <2>4. CASE ~watching
    <3>1. UNCHANGED <<events, seen>>
      BY <1>2, <2>4 DEF DeleteClaim
    <3>2. SeenRegistered' \subseteq SeenRegistered
      BY <2>2, <3>1 DEF SeenRegistered
    <3>. QED  BY <2>1, <3>1, <3>2, KnownQuiet
  <2>. QED  BY <2>3, <2>4
<1>3. ASSUME NEW c \in Claim, Relist(c)  PROVE AllKnown'
  <2>1. Visible(c) \in Object \cup {"absent"} /\ seen[c] \in Object \cup {"absent"}
    BY DEF Visible, ClusterInv, TypeOK
  <2>2. PICK t \in {"add", "update", "unknown"}, o \in Object :
          /\ Notify(t, c, o)
          /\ t # "unknown" => o = Visible(c)
          /\ t = "unknown" => Visible(c) = "absent"
    BY <1>3, <2>1 DEF Relist
  <2>. DEFINE e == [type |-> t, claim |-> c, stage |-> o]
  <2>3. Sent(e) /\ e.claim = c /\ e.type = t /\ e.stage = o
    BY <2>2 DEF Sent, Notice, Notify
  <2>4. nodes' = nodes /\ claims' = claims /\ seen' = [seen EXCEPT ![c] = Visible(c)]
    BY <1>3 DEF Relist
  <2>. HIDE DEF e
  <2>5. ASSUME NEW d \in SeenRegistered'
        PROVE  (d \in SeenRegistered \/ (Adds(e) /\ e.claim = d)) /\ ~RemovesNode(e, d)
    <3>1. ~RemovesNode(e, d)
      BY <2>2, <2>3 DEF RemovesNode, Removes
    <3>2. d \in Registered /\ Labelled(d)
      BY <2>4 DEF SeenRegistered, Registered, ClusterInv, Cluster
    <3>3. CASE d = c
      <4>1. Visible(c) = "registered"
        BY <2>4, <3>3 DEF SeenRegistered, ClusterInv, TypeOK
      <4>. QED  BY <2>2, <2>3, <3>1, <3>2, <3>3, <4>1 DEF Adds, hasNode, Labelled
    <3>4. CASE d # c
      <4>1. seen[d] = "registered"
        BY <2>4, <3>4 DEF SeenRegistered, Registered, ClusterInv, TypeOK
      <4>. QED  BY <3>1, <3>2, <4>1 DEF SeenRegistered
    <3>. QED  BY <3>3, <3>4
  <2>. QED  BY <2>3, <2>4, <2>5, KnownSent
<1>4. ASSUME NEW c \in Claim, CreateClaim(c) \/ RegisterNode(c)  PROVE AllKnown'
  BY <1>1, <1>4 DEF CreateClaim, RegisterNode, Object, Labelled
<1>5. ASSUME NEW c \in Claim, AddListed(c)  PROVE AllKnown'
  <2>1. c \in todo /\ nodes' = AddNode(nodes, nodeOf[c], zoneLabel(c)) /\ UNCHANGED <<claims, seen, events>>
    BY <1>5 DEF AddListed, cluster
  <2>2. Labelled(c) /\ SeenRegistered' = SeenRegistered
    BY <2>1 DEF ClusterInv, Cluster, SeenRegistered, Registered
  <2>3. ASSUME NEW d \in SeenRegistered, nodes[nodeOf[d]] = zoneLabel(d)
        PROVE  nodes'[nodeOf[d]] = zoneLabel(d)
    <3>1. d \in Claim /\ Labelled(d) /\ nodeOf[d] \in Node /\ nodeOf[c] \in Node
      BY NodeOfClaim DEF SeenRegistered, Registered, ClusterInv, Cluster
    <3>2. nodeOf[d] = nodeOf[c] => zoneLabel(d) = zoneLabel(c)
      BY <2>2, <3>1, NameAssumption DEF NameAssumption, Labelled
    <3>. QED  BY <2>1, <2>3, <3>1, <3>2 DEF AddNode, ClusterInv, TypeOK, Store
  <2>. QED  BY <2>1, <2>2, <2>3, KnownQuiet
<1>6. CASE CacheSynced \/ ListNodeClaims \/ GiveUp \/ Initialized
  <2>1. UNCHANGED <<claims, seen, events, nodes>>
    BY <1>6 DEF CacheSynced, ListNodeClaims, GiveUp, Initialized, cluster
  <2>2. SeenRegistered' = SeenRegistered
    BY <2>1 DEF SeenRegistered, Registered
  <2>. QED  BY <2>1, <2>2, KnownQuiet
<1>7. CASE WatchBreaks \/ WatchResumes \/ UNCHANGED vars
  <2>1. UNCHANGED <<claims, seen, events, nodes>>
    BY <1>7 DEF WatchBreaks, WatchResumes, vars, cluster
  <2>2. SeenRegistered' = SeenRegistered
    BY <2>1 DEF SeenRegistered, Registered
  <2>. QED  BY <2>1, <2>2, KnownQuiet
<1>. QED
  BY <1>2, <1>3, <1>4, <1>5, <1>6, <1>7, KnownHandled
  DEF Next, Informer, initializeStore, Finished

\* For any claims and any number of broken watches, names used again and listings that
\* failed or came late: when the informer has caught up, a look-up of a zone finds the
\* node of every registered NodeClaim of the zone.
THEOREM NodesAlwaysKnown == Spec => []NodesKnown
<1>1. Init => ClusterInv /\ AllKnown
  <2>1. Init => AllKnown
    BY DEF Init, AllKnown, SeenRegistered, Registered
  <2>. QED  BY <2>1, TypeInit, ClusterInit DEF ClusterInv
<1>2. ClusterInv /\ AllKnown => NodesKnown
  <2>. SUFFICES ASSUME ClusterInv, AllKnown, Idle, NEW c \in Registered
                PROVE  nodeOf[c] \in GetNodesByAZ(nodes, zoneLabel(c))
    BY DEF NodesKnown
  <2>1. c \in Claim /\ nodeOf[c] \in Node /\ zoneLabel(c) \in NodeZone
    BY NodeOfClaim, ZoneOfClaim DEF Registered
  <2>2. c \in SeenRegistered /\ Len(events) = 0
    <3>1. events = <<>> /\ seen[c] = Visible(c) /\ claims[c] = "registered"
      BY <2>1 DEF Idle, ClusterInv, Cluster, Registered
    <3>. QED  BY <3>1 DEF SeenRegistered, Visible, Object
  <2>3. nodes[nodeOf[c]] = zoneLabel(c)
    BY <2>2 DEF AllKnown, Known, KnownFrom
  <2>4. zoneLabel(c) # NotStored
    BY <2>1, StoreAssumption DEF StoreAssumption
  <2>. QED  BY <2>1, <2>3, <2>4 DEF GetNodesByAZ, Tracked
<1>. QED  BY <1>1, <1>2, ClusterInvNext, KnownNext, PTL DEF Spec
=============================================================================
