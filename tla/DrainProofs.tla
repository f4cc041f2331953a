----------------------------- MODULE DrainProofs -----------------------------
(***************************************************************************)
(* Proofs about Drain: what is known of a node when it is deleted, for any *)
(* number of pods, tries and faults.                                       *)
(***************************************************************************)
EXTENDS Drain, TLAPS

\* The drain begins with nothing known and nothing claimed.
LEMMA DrainInit == Init => DrainInv
BY BoundsAssumption DEF Init, DrainInv, TypeOK, Begin, Reconcile, Steps, Place, Evictor, Tries, OnNode

\* The next step of the reconcile, with what it has listed kept.
LEMMA GotoStep ==
    ASSUME r \in Reconcile, NEW step \in Steps, Goto(step)
    PROVE /\ r' \in Reconcile /\ r'.step = step
          /\ r'.list = r.list /\ r'.left = r.left /\ r'.blind = r.blind
BY DEF Reconcile, Goto

\* A retry knows nothing.
LEMMA RetryStep == Retry => r' \in Reconcile /\ r'.step = "node"
BY DEF Retry, Begin, Reconcile, Steps

\* The types survive every step.
LEMMA TypeStep ==
    ASSUME TypeOK, Next
    PROVE TypeOK'
<1> USE BoundsAssumption, PodsAssumption, GotoStep, RetryStep DEF TypeOK, Fault, NoFault, goroutines
<1>1. CASE GetNode
  BY <1>1 DEF GetNode, Steps
<1>2. CASE Cordon
  <2>1. r' \in Reconcile
    BY <1>2 DEF Cordon, Steps
  <2>2. node' \in [live : BOOLEAN, cordoned : BOOLEAN]
    BY <1>2 DEF Cordon
  <2> QED
    BY <1>2, <2>1, <2>2 DEF Cordon
<1>3. CASE GetPodsForDeletion
  <2> DEFINE here == {p \in Pods : OnNode(p)}
  <2>1. here \in SUBSET Pods
    OBVIOUS
  <2>2. CASE r' = [r EXCEPT !.step = "support", !.list = here, !.left = here]
    <3> HIDE DEF here
    <3> QED
      BY <1>3, <2>1, <2>2 DEF GetPodsForDeletion, Reconcile, Steps
  <2> QED
    BY <1>3, <2>2 DEF GetPodsForDeletion
<1>4. CASE StartEvictions
  <2>1. r' \in Reconcile
    BY <1>4 DEF StartEvictions, Steps
  <2>2. go' \in [Tries -> [Pods -> Evictor]]
    <3>1. CASE UNCHANGED go
      BY <3>1
    <3>2. CASE go' = [go EXCEPT ![tries + 1] =
                        [p \in Pods |-> IF p \in r.list THEN "evict" ELSE "none"]]
      <4>1. [p \in Pods |-> IF p \in r.list THEN "evict" ELSE "none"] \in [Pods -> Evictor]
        BY DEF Evictor
      <4> QED
        BY <3>2, <4>1
    <3> QED
      BY <1>4, <3>1, <3>2 DEF StartEvictions
  <2> QED
    BY <1>4, <2>1, <2>2 DEF StartEvictions
<1>5. CASE PodsDeleted
  <2>1. r' \in Reconcile
    BY <1>5 DEF PodsDeleted, Reconcile, Steps
  <2> QED
    BY <1>5, <2>1 DEF PodsDeleted
<1>6. CASE PodsGone
  BY <1>6 DEF PodsGone, Steps
<1>7. CASE PollExpires
  BY <1>7 DEF PollExpires
<1>8. CASE DeleteNode
  <2>1. r' \in Reconcile
    BY <1>8 DEF DeleteNode, Steps
  <2>2. node' \in [live : BOOLEAN, cordoned : BOOLEAN]
    BY <1>8 DEF DeleteNode
  <2> QED
    BY <1>8, <2>1, <2>2 DEF DeleteNode
<1>9. CASE ReleaseSystem
  <2>1. r' \in Reconcile
    BY <1>9 DEF ReleaseSystem, Steps
  <2>2. pod' \in [Pods -> Place]
    <3>1. CASE UNCHANGED pod
      BY <3>1
    <3>2. CASE pod' = [p \in Pods |-> IF OnNode(p) THEN "gone" ELSE pod[p]]
      BY <3>2 DEF Place
    <3> QED
      BY <1>9, <3>1, <3>2 DEF ReleaseSystem
  <2> QED
    BY <1>9, <2>1, <2>2 DEF ReleaseSystem
<1>10. ASSUME NEW p \in Pods, DeletePod(p) \/ PollPod(p)
       PROVE TypeOK'
  <2>1. r' \in Reconcile
    <3>1. CASE r' = [r EXCEPT !.left = @ \ {p}]
      BY <3>1 DEF Reconcile
    <3>2. CASE r' = [r EXCEPT !.left = @ \ {p}, !.blind = @ \cup {p}]
      BY <3>2 DEF Reconcile
    <3> QED
      BY <1>10, <3>1, <3>2 DEF DeletePod, PollPod
  <2>2. pod' \in [Pods -> Place]
    BY <1>10 DEF DeletePod, PollPod, Leaves, Place
  <2> QED
    BY <1>10, <2>1, <2>2 DEF DeletePod, PollPod
<1>11. ASSUME NEW p \in Pods, Terminates(p) \/ Moves(p)
       PROVE TypeOK'
  <2>1. pod' \in [Pods -> Place]
    BY <1>11 DEF Terminates, Moves, Place
  <2> QED
    BY <1>11, <2>1 DEF Terminates, Moves
<1>12. ASSUME NEW t \in Tries, NEW p \in Pods, Goroutine(t, p)
       PROVE TypeOK'
  <2>1. pod' \in [Pods -> Place]
    <3>1. CASE UNCHANGED pod
      BY <3>1
    <3>2. CASE Leaves(p)
      BY <3>2 DEF Leaves, Place
    <3> QED
      BY <1>12, <3>1, <3>2 DEF Goroutine, EvictPod, Send, EvictedGone
  <2>2. go' \in [Tries -> [Pods -> Evictor]]
    <3>1. ASSUME NEW s \in Evictor, Turn(t, p, s)
          PROVE go' \in [Tries -> [Pods -> Evictor]]
      BY <3>1 DEF Turn
    <3>2. {"poll", "send", "last", "ended", "evict"} \subseteq Evictor
      BY DEF Evictor
    <3>3. CASE EvictPod(t, p)
      BY <3>1, <3>2, <3>3 DEF EvictPod
    <3>4. CASE Send(t, p)
      BY <3>1, <3>2, <3>4 DEF Send
    <3>5. CASE EvictedGone(t, p)
      BY <3>1, <3>2, <3>5 DEF EvictedGone
    <3> QED
      BY <1>12, <3>3, <3>4, <3>5 DEF Goroutine
  <2>3. full' \in [Tries -> BOOLEAN]
    BY <1>12 DEF Goroutine, EvictPod, Send, EvictedGone
  <2> QED
    BY <1>12, <2>1, <2>2, <2>3 DEF Goroutine, EvictPod, Send, EvictedGone
<1> QED
  BY <1>1, <1>2, <1>3, <1>4, <1>5, <1>6, <1>7, <1>8, <1>9, <1>10, <1>11, <1>12
     DEF Next, HandleDelete

\* A step of the reconcile keeps what it knows of the node true.
LEMMA DrainStep ==
    ASSUME DrainInv, HandleDelete, TypeOK'
    PROVE DrainInv'
<1> USE GotoStep, RetryStep DEF DrainInv, TypeOK, OnNode, Fault, NoFault, goroutines
<1>1. CASE GetNode
  BY <1>1 DEF GetNode, Steps
<1>2. CASE Cordon
  BY <1>2 DEF Cordon, Steps
<1>3. CASE GetPodsForDeletion
  <2>1. CASE r' = [r EXCEPT !.step = "support", !.list = {p \in Pods : OnNode(p)},
                                !.left = {p \in Pods : OnNode(p)}]
    <3>1. r'.step = "support" /\ r'.list = {p \in Pods : OnNode(p)}
      BY <2>1 DEF Reconcile
    <3> QED
      BY <1>3, <3>1 DEF GetPodsForDeletion
  <2> QED
    BY <1>3, <2>1 DEF GetPodsForDeletion
<1>4. CASE StartEvictions
  BY <1>4 DEF StartEvictions, Steps
<1>5. CASE PodsDeleted
  BY <1>5 DEF PodsDeleted, Reconcile
<1>6. CASE PodsGone
  BY <1>6 DEF PodsGone, AllGone, Steps
<1>7. CASE PollExpires
  BY <1>7 DEF PollExpires
<1>8. CASE DeleteNode
  BY <1>8 DEF DeleteNode, Steps
<1>9. CASE ReleaseSystem
  BY <1>9 DEF ReleaseSystem, Steps
<1>10. ASSUME NEW p \in Pods, DeletePod(p)
       PROVE DrainInv'
  <2>1. \A q \in Pods : OnNode(q)' => OnNode(q)
    BY <1>10 DEF DeletePod, Leaves, Place
  <2>2. CASE Retry
    BY <1>10, <2>2 DEF DeletePod
  <2>3. CASE r' = [r EXCEPT !.left = @ \ {p}]
    BY <1>10, <2>1, <2>3 DEF DeletePod, Reconcile
  <2> QED
    BY <1>10, <2>2, <2>3 DEF DeletePod
<1>11. ASSUME NEW p \in Pods, PollPod(p)
       PROVE DrainInv'
  <2>1. CASE r' = [r EXCEPT !.left = @ \ {p}] /\ ~OnNode(p)
    <3>1. /\ r'.step = r.step /\ r'.list = r.list
          /\ r'.left = r.left \ {p} /\ r'.blind = r.blind
      BY <2>1 DEF Reconcile
    <3> QED
      BY <1>11, <2>1, <3>1 DEF PollPod
  <2>2. CASE r' = [r EXCEPT !.left = @ \ {p}, !.blind = @ \cup {p}]
    <3>1. /\ r'.step = r.step /\ r'.list = r.list
          /\ r'.left = r.left \ {p} /\ r'.blind = r.blind \cup {p}
      BY <2>2 DEF Reconcile
    <3> QED
      BY <1>11, <2>2, <3>1 DEF PollPod
  <2> QED
    BY <1>11, <2>1, <2>2 DEF PollPod
<1> QED
  BY <1>1, <1>2, <1>3, <1>4, <1>5, <1>6, <1>7, <1>8, <1>9, <1>10, <1>11 DEF HandleDelete

\* Nothing else brings a pod to a node that is cordoned.
LEMMA OthersStep ==
    ASSUME DrainInv, NEW p \in Pods, TypeOK',
           Terminates(p) \/ Moves(p) \/ \E t \in Tries : Goroutine(t, p)
    PROVE DrainInv'
<1>1. node' = node /\ r' = r /\ evictions' = evictions
  BY DEF Terminates, Moves, Goroutine, EvictPod, Send, EvictedGone
<1>2. \A q \in Pods : OnNode(q)' => OnNode(q) \/ ~node.cordoned
  BY DEF Terminates, Moves, Goroutine, EvictPod, Send, EvictedGone, Leaves, OnNode, DrainInv, TypeOK, Place
<1> QED
  BY <1>1, <1>2 DEF DrainInv

\* The invariant of the drain: at each of its steps the pods that can still
\* be on the node are among those it has listed and not yet seen to be gone.
THEOREM DrainInvariant == Spec => []DrainInv
<1>1. DrainInv /\ [Next]_vars => DrainInv'
  <2> SUFFICES ASSUME DrainInv, [Next]_vars PROVE DrainInv'
    OBVIOUS
  <2>1. CASE UNCHANGED vars
    BY <2>1 DEF vars, DrainInv, TypeOK, OnNode
  <2>2. CASE Next
    BY <2>2, TypeStep, DrainStep, OthersStep DEF Next, DrainInv
  <2> QED
    BY <2>1, <2>2
<1> QED
  BY <1>1, DrainInit, PTL DEF Spec

\* Only DeleteNode deletes the node.
LEMMA NodeDeleted ==
    ASSUME TypeOK, Next, node.live, ~node'.live
    PROVE r.step = "deletenode"
BY DEF TypeOK, Next, HandleDelete, GetNode, Cordon, GetPodsForDeletion, StartEvictions, PodsDeleted,
       PodsGone, PollExpires, DeleteNode, ReleaseSystem, DeletePod, PollPod, Terminates, Moves,
       Goroutine, EvictPod, Send, EvictedGone

\* The pods a deleted node still runs have been listed.
THEOREM NoPodOverlooked == Spec => NoneOverlooked
<1>1. DrainInv /\ [Next]_vars
         => [node.live /\ ~node'.live => \A p \in Pods : OnNode(p) => p \in r.list]_vars
  BY NodeDeleted DEF DrainInv
<1> QED
  BY <1>1, DrainInvariant, PTL DEF Spec, NoneOverlooked

\* Without evictions no pod is on the node unless the poll was blind to it.
THEOREM DeletedPodsGone == Spec => DeletedAreGone
<1>1. DrainInv /\ [Next]_vars
         => [node.live /\ ~node'.live /\ ~evictions
               => \A p \in Pods : OnNode(p) => p \in r.blind]_vars
  BY NodeDeleted DEF DrainInv
<1> QED
  BY <1>1, DrainInvariant, PTL DEF Spec, DeletedAreGone

=============================================================================
