-------------------------------- MODULE Maas --------------------------------
(***************************************************************************)
(* The MAAS region and the machines it boots.  MAAS hands a free system to *)
(* whoever allocates; it does not know for which CnctMachine.  A deployed  *)
(* system runs the cloud-init userdata it was started with: a master runs  *)
(* kubeadm init and serves a Kubernetes API at its address, a worker runs  *)
(* kubeadm join against the address in its userdata.  Modelled from how    *)
(* pkg/maas/client.go and pkg/controller/machine use them.                 *)
(***************************************************************************)
EXTENDS KubeAPI

CONSTANTS
    Faults,     \* the kinds of fault that may happen in a run
    MaxFaults   \* how many of them, in total

ASSUME FaultsAssumption ==
    /\ Faults \subseteq {"crash", "start", "noip", "release", "images", "api"}
    /\ MaxFaults \in Nat

VARIABLES
    used,    \* systems MAAS holds allocated
    boot,    \* boot[s]: the userdata system s was deployed with and will run
    apiUp,   \* systems serving the API of a managed cluster
    nodes,   \* nodes[s]: the nodes registered with the API served by s
    budget   \* faults still to come

maasVars == <<used, boot, apiUp, nodes, budget>>

\* node: kubeadm's --node-name; join: a worker's apiServerEndpoint.
Userdata == [node : Machines \cup {None}, join : Systems \cup {None}]
NoUserdata == [node |-> None, join |-> None]

MaasTypeOK ==
    /\ used \in SUBSET Systems
    /\ boot \in [Systems -> Userdata]
    /\ apiUp \in SUBSET Systems
    /\ nodes \in [Systems -> SUBSET Machines]
    /\ budget \in 0 .. MaxFaults

MaasInit ==
    /\ used = {}
    /\ boot = [s \in Systems |-> NoUserdata]
    /\ apiUp = {}
    /\ nodes = [s \in Systems |-> {}]
    /\ budget = MaxFaults

Fault(kind) ==
    /\ kind \in Faults
    /\ budget > 0
    /\ budget' = budget - 1

NoFault == UNCHANGED budget

NoSystemChange == UNCHANGED <<used, boot, apiUp, nodes>>

\* AllocateMachine hands out a free system.
AllocateMachine(s) ==
    /\ s \notin used
    /\ used' = used \cup {s}
    /\ UNCHANGED <<boot, apiUp, nodes, budget>>

\* Start deploys an allocated system with its userdata.
StartMachine(s, userdata) ==
    /\ boot' = [boot EXCEPT ![s] = userdata]
    /\ UNCHANGED <<used, apiUp, nodes>>

\* Client.Delete: the system goes back to the pool.  When ReleaseMachines
\* fails the error is logged and nil is returned: the caller sees no
\* difference.
ReleaseMachine(s) ==
    \/ /\ NoFault
       /\ used' = used \ {s}
       /\ boot' = [boot EXCEPT ![s] = NoUserdata]
       /\ apiUp' = apiUp \ {s}
       /\ nodes' = [nodes EXCEPT ![s] = {}]
    \/ /\ Fault("release")
       /\ NoSystemChange

\* The deployed system runs its userdata, once: kubeadm init on a master,
\* kubeadm join on a worker whose API server answers.
Boot(s) ==
    LET n == boot[s].node
        at == IF n \in Masters THEN s ELSE boot[s].join
    IN  /\ n # None
        /\ n \in Masters \/ at \in apiUp
        /\ apiUp' = apiUp \cup {at}
        /\ nodes' = [nodes EXCEPT ![at] = @ \cup {n}]
        /\ boot' = [boot EXCEPT ![s] = NoUserdata]
        /\ UNCHANGED <<used, budget>>
=============================================================================
