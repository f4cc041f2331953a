------------------------------ MODULE JoinToken ------------------------------
(***************************************************************************)
(* The bootstrap tokens with which workers join a managed cluster: each    *)
(* reconcile of a worker looks for one that is valid long enough, creates  *)
(* one otherwise, and puts it into the userdata of a system that has to    *)
(* boot before it uses it.                                                 *)
(*                                                                         *)
(* Time is counted in ticks, so that Lifetime stands for the hour a token  *)
(* lives and Margin for the 30 minutes it must have left.  What a worker   *)
(* takes from the look-up of its token to kubeadm join is at most          *)
(* JoinLimit ticks.                                                        *)
(***************************************************************************)
EXTENDS Naturals, FiniteSets

CONSTANTS
    Managers,   \* managers, each with one worker goroutine for machines
    Machines,   \* the worker machines of the cluster
    Tokens,     \* places for token secrets; those expired are reused
    Lifetime, Margin, JoinLimit,
    MaxFaults   \* bound on requests that fail and on crashes

ASSUME TimesAssumption ==
    /\ Lifetime \in Nat /\ Margin \in Nat /\ JoinLimit \in Nat
    /\ JoinLimit < Margin /\ Margin <= Lifetime
ASSUME FaultsAssumption == MaxFaults \in Nat
ASSUME ManagersAssumption == IsFiniteSet(Managers) /\ Managers # {} /\ IsFiniteSet(Tokens)

VARIABLES
    life,       \* what each token has left; 0 when there is none or it has expired
    m,          \* what each manager does, for which machine, with what token
    machine,    \* "new", "booting", "joined" or "refused"
    left, age,  \* of a booting system: what its token has left, ticks since the look-up
    endpoint,   \* the cluster has an API endpoint
    faults

vars == <<life, m, machine, left, age, endpoint, faults>>

Manager == [step : {"idle", "list", "create", "address", "deploy"},
            for : SUBSET Machines, left : 0 .. Lifetime, age : 0 .. JoinLimit]

TypeOK ==
    /\ life \in [Tokens -> 0 .. Lifetime]
    /\ m \in [Managers -> Manager]
    /\ machine \in [Machines -> {"new", "booting", "joined", "refused"}]
    /\ left \in [Machines -> 0 .. Lifetime] /\ age \in [Machines -> 0 .. JoinLimit]
    /\ endpoint \in BOOLEAN /\ faults \in 0 .. MaxFaults

Idle == [step |-> "idle", for |-> {}, left |-> 0, age |-> 0]

\* kubeadm init may have left one token; the master's address may not be
\* published yet.
Init ==
    /\ life \in [Tokens -> 0 .. Lifetime]
    /\ Cardinality({t \in Tokens : life[t] > 0}) <= 1
    /\ m = [n \in Managers |-> Idle]
    /\ machine = [w \in Machines |-> "new"]
    /\ left = [w \in Machines |-> 0] /\ age = [w \in Machines |-> 0]
    /\ endpoint \in BOOLEAN /\ faults = 0

Fault == faults < MaxFaults /\ faults' = faults + 1
NoFault == UNCHANGED faults

systems == <<machine, left, age>>

\* A manager's next step, with a token that has this left and a look-up that
\* is so old.
At(step, machines, rest, old) == [step |-> step, for |-> machines, left |-> rest, age |-> old]
Goto(n, step, rest, old) == m' = [m EXCEPT ![n] = At(step, m[n].for, rest, old)]

\* The reconcile begins; no leader is elected, and another manager may work
\* on the same machine.
Begin(n) ==
    /\ m[n].step = "idle"
    /\ \E w \in Machines :
          machine[w] = "new" /\ m' = [m EXCEPT ![n] = At("list", {w}, 0, 0)]
    /\ UNCHANGED <<life, systems, endpoint, faults>>

Retry(n) == m' = [m EXCEPT ![n] = Idle]

\* Whether a token is reused; without the margin, and with it.
Unexpired(t) == life[t] > 0
Usable(t) == life[t] >= Margin

\* For a mutant: a token is created by every reconcile.
CreateAlways(n) ==
    /\ m[n].step = "list" /\ NoFault /\ Goto(n, "create", 0, 0)
    /\ UNCHANGED <<life, systems, endpoint>>

\* For a mutant: only the token kubeadm init made is used.
NeverCreate(n) ==
    /\ m[n].step = "list" /\ NoFault
    /\ \/ \E t \in Tokens : Usable(t) /\ Goto(n, "address", life[t], 0)
       \/ (\A t \in Tokens : ~Usable(t)) /\ Retry(n)
    /\ UNCHANGED <<life, systems, endpoint>>

\* checkIfTokenExists: the first one of the list, whichever that is.
CheckIfTokenExists(n) ==
    /\ m[n].step = "list"
    /\ \/ /\ NoFault
          /\ \/ \E t \in Tokens :
                   Usable(t) /\ Goto(n, "address", life[t], 0)
             \/ (\A t \in Tokens : ~Usable(t)) /\ Goto(n, "create", 0, 0)
       \/ Fault /\ Retry(n)
    /\ UNCHANGED <<life, systems, endpoint>>

TwiceLifetime == 2 * Lifetime
NewLife == Lifetime

\* createToken; an answer that is lost leaves the token, too.
CreateToken(n) ==
    /\ m[n].step = "create"
    /\ \E t \in Tokens, answered \in BOOLEAN :
          /\ life[t] = 0 /\ life' = [life EXCEPT ![t] = NewLife]
          /\ IF answered
             THEN NoFault /\ Goto(n, "address", NewLife, m[n].age)
             ELSE Fault /\ Retry(n)
    /\ UNCHANGED <<systems, endpoint>>

RefuseToken(n) ==
    /\ m[n].step = "create" /\ Fault /\ Retry(n)
    /\ UNCHANGED <<life, systems, endpoint>>

\* checkApiserverAddress comes after the token.
CheckApiserverAddress(n) ==
    /\ m[n].step = "address"
    /\ IF endpoint THEN Goto(n, "deploy", m[n].left, m[n].age) ELSE Retry(n)
    /\ UNCHANGED <<life, systems, endpoint, faults>>

\* The machine a manager works on, while no other manager has deployed it.
Fresh(n) == {w \in m[n].for : machine[w] = "new"}

\* prepareMaasRequest and doMaasCreate: the token is in the userdata now.  When
\* another manager was first, the update of the machine conflicts and the
\* system is released.
DoMaasCreate(n) ==
    /\ m[n].step = "deploy" /\ Retry(n)
    /\ \/ /\ NoFault
          /\ machine' = [w \in Machines |-> IF w \in Fresh(n) THEN "booting" ELSE machine[w]]
          /\ left' = [w \in Machines |-> IF w \in Fresh(n) THEN m[n].left ELSE left[w]]
          /\ age' = [w \in Machines |-> IF w \in Fresh(n) THEN m[n].age ELSE age[w]]
       \/ Fault /\ UNCHANGED systems
    /\ UNCHANGED <<life, endpoint>>

Crash(n) == Fault /\ Retry(n) /\ UNCHANGED <<life, systems, endpoint>>

\* kubeadm join; what it leaves of a refusal is a line in a log.
Join(w) ==
    /\ machine[w] = "booting"
    /\ machine' = [machine EXCEPT ![w] = IF left[w] > 0 THEN "joined" ELSE "refused"]
    /\ UNCHANGED <<life, m, left, age, endpoint, faults>>

EndpointPublished ==
    /\ ~endpoint /\ endpoint' = TRUE
    /\ UNCHANGED <<life, m, systems, faults>>

Less(i) == IF i > 0 THEN i - 1 ELSE 0
InHand(n) == m[n].step \in {"create", "address", "deploy"}

Tick ==
    /\ \A n \in Managers : InHand(n) => m[n].age < JoinLimit
    /\ \A w \in Machines : machine[w] = "booting" => age[w] < JoinLimit
    /\ life' = [t \in Tokens |-> Less(life[t])]
    /\ m' = [n \in Managers |-> IF InHand(n)
                                THEN At(m[n].step, m[n].for, Less(m[n].left), m[n].age + 1)
                                ELSE m[n]]
    /\ left' = [w \in Machines |-> IF machine[w] = "booting" THEN Less(left[w]) ELSE left[w]]
    /\ age' = [w \in Machines |-> IF machine[w] = "booting" THEN age[w] + 1 ELSE age[w]]
    /\ UNCHANGED <<machine, endpoint, faults>>

Work(n) ==
    \/ CheckIfTokenExists(n) \/ CreateToken(n) \/ CheckApiserverAddress(n) \/ DoMaasCreate(n)

Next ==
    \/ \E n \in Managers : Begin(n) \/ Work(n) \/ RefuseToken(n) \/ Crash(n)
    \/ \E w \in Machines : Join(w)
    \/ EndpointPublished \/ Tick

Spec == Init /\ [][Next]_vars

\* The managers work, systems boot, and time passes.
Fairness ==
    /\ \A n \in Managers : WF_vars(Begin(n)) /\ WF_vars(Work(n))
    /\ \A w \in Machines : WF_vars(Join(w))
    /\ WF_vars(Tick) /\ WF_vars(EndpointPublished)

FairSpec == Spec /\ Fairness

(***************************************************************************)
(* Properties                                                              *)
(***************************************************************************)

\* "If the token expires before kubeadm can run then the node will never join
\* the cluster": while the look-up is no more than JoinLimit ago this cannot
\* happen, however old the token is, and whatever is retried in between.
NoneRefused == \A w \in Machines : machine[w] # "refused"

\* Why: what a token in hand has left and the time since its look-up make up
\* the margin at least.
MarginKept ==
    /\ \A n \in Managers : m[n].step \in {"address", "deploy"} => m[n].left + m[n].age >= Margin
    /\ \A w \in Machines : machine[w] = "booting" => left[w] + age[w] >= Margin

\* Retries and lost answers pile up no tokens: of those that will be reused
\* there is at most one for each manager.
FewTokens == Cardinality({t \in Tokens : Usable(t)}) <= Cardinality(Managers)

\* Why: one is created only where there is none, so that those there are and
\* those about to be are together at most one for each manager.
FewTokensComing ==
    Cardinality({t \in Tokens : Usable(t)}) + Cardinality({n \in Managers : m[n].step = "create"})
        <= Cardinality(Managers)

\* Every worker joins in the end.
AllJoin == <>(\A w \in Machines : machine[w] = "joined")

=============================================================================
