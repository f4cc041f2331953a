-------------------------------- MODULE Drain --------------------------------
(***************************************************************************)
(* What handleDelete does on the managed cluster before a system is given  *)
(* back: it cordons the node, lists its pods, and has them evicted by one  *)
(* goroutine each, or, where evictions are not supported, deletes them and *)
(* polls until they are gone; then the node is deleted and the system is   *)
(* released.  After an error Reconcile begins again with the node.         *)
(*                                                                         *)
(* Pods are known by their names; a pod that its owner makes again under   *)
(* the same name has another UID and runs on another node.                 *)
(***************************************************************************)
EXTENDS Naturals, FiniteSets

CONSTANTS
    Pods,       \* names of pods, those of daemon sets left out
    Guarded,    \* pods whose disruption budget may refuse an eviction
    MaxTries,   \* bound on the reconciles that reach the evictions
    MaxMoves,   \* bound on what else happens to pods
    MaxFaults   \* bound on requests that fail

ASSUME PodsAssumption == Guarded \subseteq Pods
ASSUME BoundsAssumption == MaxTries \in Nat \ {0} /\ MaxMoves \in Nat /\ MaxFaults \in Nat

VARIABLES
    node,       \* [live, cordoned]
    pod,        \* where each pod is
    evictions,  \* the API server of the managed cluster supports evictions
    r,          \* the reconcile
    go,         \* the goroutines of each try
    full,       \* whether the channel of each try, of capacity 1, holds a result
    tries, moves, faults

vars == <<node, pod, evictions, r, go, full, tries, moves, faults>>

Place == {"absent", "here", "leaving", "gone", "elsewhere"}
Steps == {"node", "cordon", "list", "support", "delete", "poll", "deletenode", "release", "done"}
Reconcile == [step : Steps, list : SUBSET Pods, left : SUBSET Pods, blind : SUBSET Pods]
Evictor == {"none", "evict", "poll", "send", "last", "ended"}
Tries == 1 .. MaxTries

TypeOK ==
    /\ node \in [live : BOOLEAN, cordoned : BOOLEAN]
    /\ pod \in [Pods -> Place] /\ evictions \in BOOLEAN
    /\ r \in Reconcile
    /\ go \in [Tries -> [Pods -> Evictor]] /\ full \in [Tries -> BOOLEAN]
    /\ tries \in 0 .. MaxTries /\ moves \in 0 .. MaxMoves /\ faults \in 0 .. MaxFaults

Begin == [step |-> "node", list |-> {}, left |-> {}, blind |-> {}]

\* The machine is deleted while its node runs pods.
Init ==
    /\ node = [live |-> TRUE, cordoned |-> FALSE]
    /\ pod \in [Pods -> {"absent", "here"}] /\ evictions \in BOOLEAN
    /\ r = Begin
    /\ go = [t \in Tries |-> [p \in Pods |-> "none"]] /\ full = [t \in Tries |-> FALSE]
    /\ tries = 0 /\ moves = 0 /\ faults = 0

OnNode(p) == pod[p] \in {"here", "leaving"}
goroutines == <<go, full, tries>>

Fault == faults < MaxFaults /\ faults' = faults + 1
NoFault == UNCHANGED faults
Retry == r' = Begin
Goto(step) == r' = [r EXCEPT !.step = step]

(***************************************************************************)
(* The reconcile.                                                          *)
(***************************************************************************)
\* For a mutant: not found is an error like any other.
GetLiveNode ==
    /\ r.step = "node"
    /\ IF node.live THEN NoFault /\ Goto("cordon") ELSE NoFault /\ Retry
    /\ UNCHANGED <<node, pod, evictions, goroutines, moves>>

\* A node that is gone needs no draining: the system is released.
GetNode ==
    /\ r.step = "node"
    /\ \/ NoFault /\ Goto(IF node.live THEN "cordon" ELSE "release")
       \/ Fault /\ Retry
    /\ UNCHANGED <<node, pod, evictions, goroutines, moves>>

\* For a mutant: the node stays schedulable.
SkipCordon == r.step = "cordon" /\ Goto("list")
              /\ UNCHANGED <<node, pod, evictions, goroutines, moves, faults>>

Cordon ==
    /\ r.step = "cordon"
    /\ \/ NoFault /\ node' = [node EXCEPT !.cordoned = TRUE] /\ Goto("list")
       \/ Fault /\ Retry /\ UNCHANGED node
    /\ UNCHANGED <<pod, evictions, goroutines, moves>>

GetPodsForDeletion ==
    /\ r.step = "list"
    /\ \/ /\ NoFault
          /\ LET here == {p \in Pods : OnNode(p)}
             IN r' = [r EXCEPT !.step = "support", !.list = here, !.left = here]
       \/ Fault /\ Retry
    /\ UNCHANGED <<node, pod, evictions, goroutines, moves>>

\* CheckEvictionSupport, and the start of the goroutines; nobody reads the
\* channel, and the reconcile goes on to delete the node.
StartEvictions ==
    /\ r.step = "support"
    /\ \/ /\ NoFault /\ evictions /\ tries < MaxTries
          /\ tries' = tries + 1 /\ Goto("deletenode")
          /\ go' = [go EXCEPT ![tries + 1] =
                [p \in Pods |-> IF p \in r.list THEN "evict" ELSE "none"]]
       \/ NoFault /\ ~evictions /\ Goto("delete") /\ UNCHANGED <<tries, go>>
       \/ Fault /\ Retry /\ UNCHANGED <<tries, go>>
    /\ UNCHANGED <<node, pod, evictions, full, moves>>

\* A request by name: whichever pod has the name is asked to leave.
Leaves(p) == pod' = [pod EXCEPT ![p] =
                CASE @ = "here" -> "leaving" [] @ = "elsewhere" -> "gone" [] OTHER -> @]

Missing(p) == pod[p] \in {"absent", "gone"}

\* One pod after the other; a pod that is not found is as good as deleted.
DeletePod(p) ==
    /\ r.step = "delete" /\ p \in r.left
    /\ \/ NoFault /\ Leaves(p) /\ r' = [r EXCEPT !.left = @ \ {p}]
       \/ Fault /\ Retry /\ UNCHANGED pod
    /\ UNCHANGED <<node, evictions, goroutines, moves>>

\* For a mutant: the poll starts with no pod to wait for.
Unpolled ==
    /\ r.step = "delete" /\ r.left = {} /\ Goto("poll")
    /\ UNCHANGED <<node, pod, evictions, goroutines, moves, faults>>

PodsDeleted ==
    /\ r.step = "delete" /\ r.left = {}
    /\ r' = [r EXCEPT !.step = "poll", !.left = r.list]
    /\ UNCHANGED <<node, pod, evictions, goroutines, moves, faults>>

\* A pod is done with when it is not found or its name has another UID.  So
\* is one whose Get fails: the pod that comes with the error has no UID.
PollPod(p) ==
    /\ r.step = "poll" /\ p \in r.left
    /\ \/ NoFault /\ ~OnNode(p) /\ r' = [r EXCEPT !.left = @ \ {p}]
       \/ Fault /\ r' = [r EXCEPT !.left = @ \ {p}, !.blind = @ \cup {p}]
    /\ UNCHANGED <<node, pod, evictions, goroutines, moves>>

\* When the poll is over, and too early.
SomeGone == r.left # r.list \/ r.list = {}
AllGone == r.left = {}

PodsGone ==
    /\ r.step = "poll" /\ AllGone /\ Goto("deletenode")
    /\ UNCHANGED <<node, pod, evictions, goroutines, moves, faults>>

\* A minute passes with pods that terminate slowly.
PollExpires ==
    /\ r.step = "poll" /\ \E p \in r.left : OnNode(p)
    /\ Fault /\ Retry
    /\ UNCHANGED <<node, pod, evictions, goroutines, moves>>

DeleteNode ==
    /\ r.step = "deletenode"
    /\ \/ NoFault /\ node' = [node EXCEPT !.live = FALSE] /\ Goto("release")
       \/ node.live /\ Fault /\ Retry /\ UNCHANGED node
    /\ UNCHANGED <<pod, evictions, goroutines, moves>>

\* deleteMachine: the system stops, and what runs on it with it.
ReleaseSystem ==
    /\ r.step = "release"
    /\ \/ /\ NoFault /\ Goto("done")
          /\ pod' = [p \in Pods |-> IF OnNode(p) THEN "gone" ELSE pod[p]]
       \/ Fault /\ Retry /\ UNCHANGED pod
    /\ UNCHANGED <<node, evictions, goroutines, moves>>

HandleDelete ==
    \/ GetNode \/ Cordon \/ GetPodsForDeletion \/ StartEvictions \/ PodsDeleted
    \/ PodsGone \/ PollExpires \/ DeleteNode \/ ReleaseSystem
    \/ \E p \in Pods : DeletePod(p) \/ PollPod(p)

(***************************************************************************)
(* The goroutine of a pod.                                                 *)
(***************************************************************************)
Turn(t, p, s) == go' = [go EXCEPT ![t][p] = s]

\* Not found and every error but "too many requests" are sent, and the loop
\* goes on.
EvictPod(t, p) ==
    /\ go[t][p] = "evict"
    /\ \/ NoFault /\ ~Missing(p) /\ Leaves(p) /\ Turn(t, p, "poll")
       \/ NoFault /\ ~Missing(p) /\ p \in Guarded /\ UNCHANGED <<pod, go>>
       \/ (IF Missing(p) THEN NoFault ELSE Fault) /\ Turn(t, p, "send") /\ UNCHANGED pod
    /\ UNCHANGED <<node, evictions, r, full, tries, moves>>

Send(t, p) ==
    /\ go[t][p] \in {"send", "last"} /\ ~full[t]
    /\ full' = [full EXCEPT ![t] = TRUE]
    /\ Turn(t, p, IF go[t][p] = "last" THEN "ended" ELSE "evict")
    /\ UNCHANGED <<node, pod, evictions, r, tries, moves, faults>>

\* The pod is seen to be gone, or a Get fails, or the minute is over.
EvictedGone(t, p) ==
    /\ go[t][p] = "poll"
    /\ IF OnNode(p) THEN Fault ELSE NoFault
    /\ Turn(t, p, "last")
    /\ UNCHANGED <<node, pod, evictions, r, full, tries, moves>>

Goroutine(t, p) == EvictPod(t, p) \/ Send(t, p) \/ EvictedGone(t, p)

(***************************************************************************)
(* The managed cluster.                                                    *)
(***************************************************************************)
Terminates(p) ==
    /\ pod[p] = "leaving" /\ pod' = [pod EXCEPT ![p] = "gone"]
    /\ UNCHANGED <<node, evictions, r, goroutines, moves, faults>>

\* A pod is scheduled to the node, taken off it by a user, or made again by
\* its owner on another node.
Moves(p) ==
    /\ moves < MaxMoves /\ moves' = moves + 1
    /\ \/ pod[p] = "absent" /\ node.live /\ ~node.cordoned /\ pod' = [pod EXCEPT ![p] = "here"]
       \/ pod[p] = "here" /\ pod' = [pod EXCEPT ![p] = "leaving"]
       \/ pod[p] = "gone" /\ pod' = [pod EXCEPT ![p] = "elsewhere"]
    /\ UNCHANGED <<node, evictions, r, goroutines, faults>>

Next ==
    \/ HandleDelete
    \/ \E p \in Pods : Terminates(p) \/ Moves(p) \/ \E t \in Tries : Goroutine(t, p)

Spec == Init /\ [][Next]_vars

\* The reconcile is retried until it is done, and pods that have been asked
\* to terminate do.
Fairness == WF_vars(HandleDelete) /\ \A p \in Pods : WF_vars(Terminates(p))

FairSpec == Spec /\ Fairness

(***************************************************************************)
(* Properties                                                              *)
(***************************************************************************)

\* What the reconcile knows of the node holds while it acts on it: every pod
\* that can still be on the node has been listed, and no poll drops one that
\* is there unless its Get has failed.
DrainInv ==
    /\ TypeOK
    /\ r.step \in {"list", "support", "delete", "poll", "deletenode"} => node.cordoned
    /\ r.step \in {"support", "delete", "poll", "deletenode"} =>
          \A p \in Pods : OnNode(p) => p \in r.list
    /\ ~evictions /\ r.step \in {"poll", "deletenode"} =>
          \A p \in Pods : OnNode(p) =>
             p \in r.blind \/ (r.step = "poll" /\ p \in r.left)
    /\ evictions => r.step \notin {"delete", "poll"}

\* Where evictions are not supported the node goes after its pods, however
\* often the drain begins again, unless a Get fails: nothing it runs is
\* killed by the release.
DeletedAreGone ==
    [][node.live /\ ~node'.live /\ ~evictions
          => \A p \in Pods : OnNode(p) => p \in r.blind]_vars

\* No pod is overlooked: the pods that a node still runs when it is deleted
\* have been listed, since it was cordoned before.
NoneOverlooked ==
    [][node.live /\ ~node'.live => \A p \in Pods : OnNode(p) => p \in r.list]_vars

\* The machine goes in the end, whatever becomes of its pods.
DeletionEnds == <>(r.step = "done")

=============================================================================
