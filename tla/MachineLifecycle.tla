-------------------------- MODULE MachineLifecycle --------------------------
(***************************************************************************)
(* What the operator promises of every CnctMachine, seen by its owner: the *)
(* stages of its life and the MAAS system recorded for it.  A machine gets *)
(* one system, keeps it until it is gone, and once its deletion has been   *)
(* requested does nothing but go.                                          *)
(***************************************************************************)
CONSTANTS Machines, Systems, None

VARIABLES
    stage,   \* stage[m]: where machine m is in its life
    system   \* system[m]: the system recorded for m

lifeVars == <<stage, system>>

Stage == {"absent", "pending", "failed", "provisioned", "ready", "condemned", "deleting"}

Init ==
    /\ stage \in [Machines -> {"absent", "pending"}]
    /\ system = [m \in Machines |-> None]

Enter(m, from, to) ==
    /\ stage[m] \in from
    /\ stage' = [stage EXCEPT ![m] = to]

Keep(m, from, to) == Enter(m, from, to) /\ UNCHANGED system

Post(m) == Keep(m, {"absent"}, "pending")
Fail(m) == Keep(m, {"pending"}, "failed")
Provision(m) ==
    /\ Enter(m, {"pending"}, "provisioned")
    /\ \E s \in Systems : system' = [system EXCEPT ![m] = s]
BecomeReady(m) == Keep(m, {"provisioned"}, "ready")

\* A machine without a system just goes; one with a system is condemned.
Discard(m) == Keep(m, {"pending", "failed"}, "absent")
Condemn(m) == Keep(m, {"provisioned", "ready"}, "condemned")
Delete(m) == Keep(m, {"condemned"}, "deleting")
Finish(m) ==
    /\ Enter(m, {"deleting"}, "absent")
    /\ system' = [system EXCEPT ![m] = None]

Step(m) ==
    \/ Post(m) \/ Fail(m) \/ Provision(m) \/ BecomeReady(m)
    \/ Discard(m) \/ Condemn(m) \/ Delete(m) \/ Finish(m)

Next == \E m \in Machines : Step(m)

Spec == Init /\ [][Next]_lifeVars
=============================================================================
