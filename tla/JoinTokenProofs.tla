--------------------------- MODULE JoinTokenProofs ---------------------------
(***************************************************************************)
(* Proofs about JoinToken: for any lifetime and margin, a worker that is   *)
(* quicker than the margin is never refused, and for any number of         *)
(* managers the tokens are not more than they are.                         *)
(***************************************************************************)
EXTENDS JoinToken, FiniteSetTheorems, TLAPS

\* What a manager holds when it is idle.
LEMMA IdleManager == Idle \in Manager /\ Idle.step = "idle"
BY TimesAssumption DEF Idle, Manager

\* A tick leaves one less.
LEMMA LessLeft ==
    ASSUME NEW i \in 0 .. Lifetime
    PROVE /\ Less(i) \in 0 .. Lifetime
          /\ Less(i) + 1 >= i
BY TimesAssumption DEF Less

\* A manager that retries is idle.
LEMMA RetryManagers ==
    ASSUME m \in [Managers -> Manager], NEW n \in Managers, Retry(n)
    PROVE /\ m' \in [Managers -> Manager]
          /\ \A o \in Managers : m'[o] = m[o] \/ m'[o].step = "idle"
BY IdleManager DEF Retry

\* A manager goes to its next step.
LEMMA ManagerStep ==
    ASSUME m \in [Managers -> Manager], NEW n \in Managers,
           NEW step \in {"idle", "list", "create", "address", "deploy"},
           NEW rest \in 0 .. Lifetime, NEW old \in 0 .. JoinLimit, Goto(n, step, rest, old)
    PROVE /\ m' \in [Managers -> Manager]
          /\ m'[n].step = step /\ m'[n].left = rest /\ m'[n].age = old
          /\ \A o \in Managers \ {n} : m'[o] = m[o]
<1>1. At(step, m[n].for, rest, old) \in Manager
  BY DEF At, Manager
<1>2. m' = [m EXCEPT ![n] = At(step, m[n].for, rest, old)]
  BY DEF Goto
<1>3. /\ m' \in [Managers -> Manager] /\ m'[n] = At(step, m[n].for, rest, old)
      /\ \A o \in Managers \ {n} : m'[o] = m[o]
  BY <1>1, <1>2
<1> QED
  BY <1>3 DEF At

\* What a step keeps: the types, the margin of every token in hand, and that
\* no worker has been refused.
Kept == TypeOK /\ MarginKept /\ NoneRefused

\* The managers' steps that leave the systems alone.
LEMMA ManagersKeep ==
    ASSUME Kept, UNCHANGED <<machine, left, age>>,
           m' \in [Managers -> Manager],
           \A o \in Managers :
              m'[o].step \in {"address", "deploy"} => m'[o].left + m'[o].age >= Margin,
           life' \in [Tokens -> 0 .. Lifetime], endpoint' \in BOOLEAN, Fault \/ NoFault
    PROVE Kept'
BY FaultsAssumption DEF Kept, TypeOK, MarginKept, NoneRefused, Fault, NoFault

\* Looking for a token and making one.
LEMMA TokenStep ==
    ASSUME Kept, NEW n \in Managers, CheckIfTokenExists(n) \/ CreateToken(n)
    PROVE Kept'
<1> USE TimesAssumption DEF Kept, TypeOK
<1>1. CASE Retry(n) /\ life' \in [Tokens -> 0 .. Lifetime] /\ UNCHANGED <<systems, endpoint>> /\ Fault
  BY <1>1, RetryManagers, ManagersKeep DEF MarginKept, systems
<1>2. CASE CheckIfTokenExists(n)
  <2>1. ASSUME NEW t \in Tokens, Usable(t), NoFault, Goto(n, "address", life[t], 0),
               UNCHANGED <<life, systems, endpoint>>
        PROVE Kept'
    <3>1. life[t] \in 0 .. Lifetime /\ 0 \in 0 .. JoinLimit /\ life[t] + 0 >= Margin
      BY <2>1 DEF Usable
    <3> QED
      BY <2>1, <3>1, ManagerStep, ManagersKeep DEF MarginKept, systems
  <2>2. ASSUME NoFault, Goto(n, "create", 0, 0), UNCHANGED <<life, systems, endpoint>>
        PROVE Kept'
    <3>1. 0 \in 0 .. Lifetime /\ 0 \in 0 .. JoinLimit
      OBVIOUS
    <3> QED
      BY <2>2, <3>1, ManagerStep, ManagersKeep DEF MarginKept, systems
  <2> QED
    BY <1>1, <1>2, <2>1, <2>2 DEF CheckIfTokenExists
<1>3. CASE CreateToken(n)
  <2>1. life' \in [Tokens -> 0 .. Lifetime]
    BY <1>3 DEF CreateToken, NewLife
  <2>2. ASSUME NoFault, UNCHANGED <<systems, endpoint>>, Goto(n, "address", NewLife, m[n].age)
        PROVE Kept'
    <3>1. NewLife \in 0 .. Lifetime /\ m[n].age \in 0 .. JoinLimit /\ NewLife + m[n].age >= Margin
      BY DEF NewLife, Manager
    <3>2. /\ m' \in [Managers -> Manager]
          /\ m'[n].left = NewLife /\ m'[n].age = m[n].age
          /\ \A o \in Managers \ {n} : m'[o] = m[o]
      BY <2>2, <3>1, ManagerStep
    <3> QED
      BY <2>1, <2>2, <3>1, <3>2, ManagersKeep DEF MarginKept, systems
  <2> QED
    BY <1>1, <1>3, <2>1, <2>2 DEF CreateToken
<1> QED
  BY <1>2, <1>3

\* The other steps of a manager that make no system boot.
LEMMA OtherManagerStep ==
    ASSUME Kept, NEW n \in Managers,
           Begin(n) \/ CheckApiserverAddress(n) \/ RefuseToken(n) \/ Crash(n)
    PROVE Kept'
<1> USE DEF Kept, TypeOK
<1>1. CASE Begin(n)
  <2>1. PICK w \in Machines : m' = [m EXCEPT ![n] = At("list", {w}, 0, 0)]
    BY <1>1 DEF Begin
  <2>2. At("list", {w}, 0, 0) \in Manager /\ At("list", {w}, 0, 0).step = "list"
    BY TimesAssumption DEF At, Manager
  <2>3. /\ m' \in [Managers -> Manager] /\ m'[n].step = "list"
        /\ \A o \in Managers \ {n} : m'[o] = m[o]
    BY <2>1, <2>2
  <2> QED
    BY <1>1, <2>3, ManagersKeep DEF Begin, MarginKept, systems, NoFault
<1>2. CASE CheckApiserverAddress(n)
  <2>1. CASE Goto(n, "deploy", m[n].left, m[n].age)
    <3>1. /\ m[n].left \in 0 .. Lifetime /\ m[n].age \in 0 .. JoinLimit
          /\ m[n].step = "address"
      BY <1>2 DEF CheckApiserverAddress, Manager
    <3>2. /\ m' \in [Managers -> Manager]
          /\ m'[n].left = m[n].left /\ m'[n].age = m[n].age
          /\ \A o \in Managers \ {n} : m'[o] = m[o]
      BY <2>1, <3>1, ManagerStep
    <3> QED
      BY <1>2, <3>1, <3>2, ManagersKeep
         DEF CheckApiserverAddress, MarginKept, systems, NoFault
  <2>2. CASE Retry(n)
    BY <1>2, <2>2, RetryManagers, ManagersKeep DEF CheckApiserverAddress, MarginKept, systems, NoFault
  <2> QED
    BY <1>2, <2>1, <2>2 DEF CheckApiserverAddress
<1>3. CASE RefuseToken(n) \/ Crash(n)
  BY <1>3, RetryManagers, ManagersKeep DEF RefuseToken, Crash, MarginKept, systems
<1> QED
  BY <1>1, <1>2, <1>3

\* A system boots with the token in its userdata.
LEMMA DeployStep ==
    ASSUME Kept, NEW n \in Managers, DoMaasCreate(n)
    PROVE Kept'
<1> USE DEF Kept, TypeOK
<1>1. /\ m' \in [Managers -> Manager]
      /\ \A o \in Managers : m'[o] = m[o] \/ m'[o].step = "idle"
  BY RetryManagers DEF DoMaasCreate
<1>2. CASE UNCHANGED systems /\ Fault
  BY <1>1, <1>2, ManagersKeep DEF DoMaasCreate, MarginKept, systems
<1>3. CASE /\ NoFault
           /\ machine' = [w \in Machines |-> IF w \in Fresh(n) THEN "booting" ELSE machine[w]]
           /\ left' = [w \in Machines |-> IF w \in Fresh(n) THEN m[n].left ELSE left[w]]
           /\ age' = [w \in Machines |-> IF w \in Fresh(n) THEN m[n].age ELSE age[w]]
  <2>1. m[n].left + m[n].age >= Margin /\ m[n].left \in 0 .. Lifetime /\ m[n].age \in 0 .. JoinLimit
    BY DEF DoMaasCreate, MarginKept, Manager
  <2>2. TypeOK'
    BY <1>1, <1>3, <2>1 DEF DoMaasCreate, NoFault
  <2>3. MarginKept'
    BY <1>1, <1>3, <2>1 DEF MarginKept
  <2>4. NoneRefused'
    BY <1>3 DEF NoneRefused
  <2> QED
    BY <2>2, <2>3, <2>4
<1> QED
  BY <1>2, <1>3 DEF DoMaasCreate

\* kubeadm join comes in time.
LEMMA JoinStep ==
    ASSUME Kept, NEW w \in Machines, Join(w)
    PROVE Kept'
<1>1. left[w] > 0
  BY TimesAssumption DEF Kept, TypeOK, MarginKept, Join
<1>2. machine' = [machine EXCEPT ![w] = "joined"]
  BY <1>1 DEF Join
<1> QED
  BY <1>2 DEF Join, Kept, TypeOK, MarginKept, NoneRefused

\* What a tick takes from a token it adds to the age.
LEMMA TickStep ==
    ASSUME Kept, Tick
    PROVE Kept'
<1> USE TimesAssumption DEF Kept, TypeOK
<1>1. life' \in [Tokens -> 0 .. Lifetime]
  BY LessLeft DEF Tick
<1>2. ASSUME NEW n \in Managers
      PROVE /\ m'[n] \in Manager
            /\ m'[n].step \in {"address", "deploy"} => m'[n].left + m'[n].age >= Margin
  <2>1. CASE ~InHand(n)
    BY <2>1 DEF Tick, InHand
  <2>2. CASE InHand(n)
    <3>1. m[n].left \in 0 .. Lifetime /\ m[n].age \in 0 .. JoinLimit /\ m[n].age < JoinLimit
      BY <2>2 DEF Tick, Manager
    <3>2. m'[n] = At(m[n].step, m[n].for, Less(m[n].left), m[n].age + 1)
      BY <2>2 DEF Tick
    <3>3. /\ m'[n] \in Manager /\ m'[n].step = m[n].step
          /\ m'[n].left = Less(m[n].left) /\ m'[n].age = m[n].age + 1
      BY <3>1, <3>2, LessLeft DEF Manager, At
    <3> QED
      BY <3>1, <3>3, LessLeft DEF MarginKept
  <2> QED
    BY <2>1, <2>2
<1>3. m' \in [Managers -> Manager]
  BY <1>2 DEF Tick
<1>4. ASSUME NEW w \in Machines
      PROVE /\ left'[w] \in 0 .. Lifetime /\ age'[w] \in 0 .. JoinLimit
            /\ machine'[w] = "booting" => left'[w] + age'[w] >= Margin
  <2>1. CASE machine[w] # "booting"
    BY <2>1 DEF Tick
  <2>2. CASE machine[w] = "booting"
    BY <2>2, LessLeft DEF Tick, MarginKept
  <2> QED
    BY <2>1, <2>2
<1>5. left' \in [Machines -> 0 .. Lifetime] /\ age' \in [Machines -> 0 .. JoinLimit]
  BY <1>4 DEF Tick
<1> QED
  BY <1>1, <1>2, <1>3, <1>4, <1>5 DEF Tick, MarginKept, NoneRefused

\* Types and margin hold of the initial states.
LEMMA JoinInit == Init => Kept
BY TimesAssumption, FaultsAssumption, IdleManager
   DEF Init, Kept, TypeOK, MarginKept, NoneRefused

\* The types, and the margin of every token in hand, hold always.
THEOREM TokenInvariant == Spec => []Kept
<1>1. Kept /\ [Next]_vars => Kept'
  <2> SUFFICES ASSUME Kept, [Next]_vars PROVE Kept'
    OBVIOUS
  <2>1. CASE UNCHANGED vars
    BY <2>1 DEF vars, Kept, TypeOK, MarginKept, NoneRefused
  <2>2. CASE Next
    <3>1. ASSUME EndpointPublished PROVE Kept'
      BY <3>1 DEF EndpointPublished, systems, Kept, TypeOK, MarginKept, NoneRefused
    <3> QED
      BY <2>2, <3>1, TokenStep, OtherManagerStep, DeployStep, JoinStep, TickStep DEF Next, Work
  <2> QED
    BY <2>1, <2>2
<1> QED
  BY <1>1, JoinInit, PTL DEF Spec

\* A worker that comes to kubeadm join before the margin is used up is not
\* refused for an expired token, for every lifetime and margin.
THEOREM NeverRefused == Spec => [](MarginKept /\ NoneRefused)
BY TokenInvariant, PTL DEF Kept

\* Every variable keeps its type, for any lifetime and any managers.
THEOREM TypesKept == Spec => []TypeOK
BY TokenInvariant, PTL DEF Kept

(***************************************************************************)
(* How many tokens there are.                                              *)
(***************************************************************************)
UsableTokens == {t \in Tokens : Usable(t)}
Creating == {n \in Managers : m[n].step = "create"}

\* A step adds no usable token and sends no manager to create one, or it sends
\* one where none is usable, or it creates the one a manager was about to.
TokenMoves ==
    \/ UsableTokens' \subseteq UsableTokens /\ Creating' \subseteq Creating
    \/ UsableTokens' = {}
    \/ \E n \in Creating, t \in Tokens :
          UsableTokens' \subseteq UsableTokens \cup {t} /\ Creating' \subseteq Creating \ {n}

\* The steps of a manager.
LEMMA ManagerTokens ==
    ASSUME Kept, NEW n \in Managers, Begin(n) \/ Work(n) \/ RefuseToken(n) \/ Crash(n)
    PROVE TokenMoves
<1> USE TimesAssumption DEF Kept, TypeOK
<1>1. m \in [Managers -> Manager] /\ life \in [Tokens -> 0 .. Lifetime]
  OBVIOUS
<1>2. ASSUME \/ m' = [m EXCEPT ![n] = Idle]
             \/ \E step \in {"list", "address", "deploy"} : \E w, i, j :
                    m' = [m EXCEPT ![n] = At(step, w, i, j)]
      PROVE Creating' \subseteq Creating \ {n}
  <2>1. m'[n].step # "create" /\ \A o \in Managers \ {n} : m'[o] = m[o]
    BY <1>1, <1>2, IdleManager DEF At
  <2> QED
    BY <2>1 DEF Creating
<1>3. ASSUME UNCHANGED life PROVE UsableTokens' = UsableTokens
  BY <1>3 DEF UsableTokens, Usable
<1>4. CASE Begin(n) \/ CheckApiserverAddress(n) \/ DoMaasCreate(n) \/ RefuseToken(n) \/ Crash(n)
  <2>1. Creating' \subseteq Creating \ {n}
    BY <1>2, <1>4 DEF Begin, CheckApiserverAddress, DoMaasCreate, RefuseToken, Crash, Retry, Goto
  <2>2. UNCHANGED life
    BY <1>4 DEF Begin, CheckApiserverAddress, DoMaasCreate, RefuseToken, Crash
  <2> QED
    BY <1>3, <2>1, <2>2 DEF TokenMoves
<1>5. CASE CheckIfTokenExists(n)
  <2>1. UNCHANGED life
    BY <1>5 DEF CheckIfTokenExists
  <2>2. CASE \A t \in Tokens : ~Usable(t)
    BY <1>3, <2>1, <2>2 DEF TokenMoves, UsableTokens
  <2>3. CASE \E t \in Tokens : Usable(t)
    <3>1. Creating' \subseteq Creating \ {n}
      BY <1>2, <1>5, <2>3 DEF CheckIfTokenExists, Retry, Goto
    <3> QED
      BY <1>3, <2>1, <3>1 DEF TokenMoves
  <2> QED
    BY <2>2, <2>3
<1>6. CASE CreateToken(n)
  <2>1. Creating' \subseteq Creating \ {n} /\ n \in Creating
    BY <1>2, <1>6 DEF CreateToken, Retry, Goto, Creating
  <2>2. PICK t \in Tokens : life' = [life EXCEPT ![t] = NewLife]
    BY <1>6 DEF CreateToken
  <2>3. UsableTokens' \subseteq UsableTokens \cup {t}
    BY <1>1, <2>2 DEF UsableTokens, Usable
  <2> QED
    BY <2>1, <2>3 DEF TokenMoves
<1> QED
  BY <1>4, <1>5, <1>6 DEF Work

\* Any step.
LEMMA StepTokens ==
    ASSUME Kept, [Next]_vars
    PROVE TokenMoves
<1>1. CASE \E n \in Managers : Begin(n) \/ Work(n) \/ RefuseToken(n) \/ Crash(n)
  BY <1>1, ManagerTokens
<1>2. CASE (\E w \in Machines : Join(w)) \/ EndpointPublished \/ UNCHANGED vars
  <2>1. UNCHANGED life /\ UNCHANGED m
    BY <1>2 DEF Join, EndpointPublished, vars
  <2> QED
    BY <2>1 DEF TokenMoves, UsableTokens, Usable, Creating
<1>3. CASE Tick
  <2>1. ASSUME NEW t \in Tokens, life'[t] >= Margin PROVE life[t] >= Margin
    BY <1>3, <2>1, TimesAssumption DEF Tick, Less, Kept, TypeOK
  <2>2. \A n \in Managers : m'[n].step = m[n].step
    BY <1>3 DEF Tick, At
  <2> QED
    BY <2>1, <2>2 DEF TokenMoves, UsableTokens, Usable, Creating
<1> QED
  BY <1>1, <1>2, <1>3 DEF Next

\* Both sets are finite, before and after a step.
LEMMA TokensFinite ==
    /\ IsFiniteSet(UsableTokens) /\ Cardinality(UsableTokens) \in Nat
    /\ IsFiniteSet(Creating) /\ Cardinality(Creating) \in Nat
    /\ Cardinality(Creating) <= Cardinality(Managers)
    /\ IsFiniteSet(Managers) /\ Cardinality(Managers) \in Nat
<1>1. UsableTokens \subseteq Tokens /\ Creating \subseteq Managers
  BY DEF UsableTokens, Creating
<1> QED
  BY <1>1, ManagersAssumption, FS_Subset, FS_CardinalityType

\* So no step takes the tokens that are usable or about to be beyond the managers.
LEMMA FewTokensStep ==
    ASSUME Kept, FewTokensComing, [Next]_vars
    PROVE FewTokensComing'
<1> DEFINE u == Cardinality(UsableTokens)
           c == Cardinality(Creating)
           N == Cardinality(Managers)
<1>0. u + c <= N
  BY DEF FewTokensComing, UsableTokens, Creating
<1>1. u \in Nat /\ c \in Nat /\ N \in Nat /\ c <= N
  BY TokensFinite
<1>2. u' \in Nat /\ c' \in Nat /\ c' <= N
  <2>1. IsFiniteSet(UsableTokens') /\ IsFiniteSet(Creating')
    <3>1. UsableTokens' \subseteq Tokens /\ Creating' \subseteq Managers
      BY DEF UsableTokens, Creating
    <3> QED
      BY <3>1, ManagersAssumption, FS_Subset
  <2>2. Creating' \subseteq Managers
    BY DEF Creating
  <2> QED
    BY <2>1, <2>2, ManagersAssumption, FS_Subset, FS_CardinalityType
<1>3. u' + c' <= N
  <2>1. CASE UsableTokens' \subseteq UsableTokens /\ Creating' \subseteq Creating
    <3>1. u' <= u /\ c' <= c
      BY <2>1, TokensFinite, FS_Subset
    <3> QED
      BY <1>0, <1>1, <1>2, <3>1
  <2>2. CASE UsableTokens' = {}
    <3>1. u' = 0
      BY <2>2, FS_EmptySet
    <3> QED
      BY <1>2, <3>1
  <2>3. ASSUME NEW n \in Creating, NEW t \in Tokens,
               UsableTokens' \subseteq UsableTokens \cup {t},
               Creating' \subseteq Creating \ {n}
        PROVE  u' + c' <= N
    <3>1. /\ IsFiniteSet(UsableTokens \cup {t})
          /\ Cardinality(UsableTokens \cup {t}) <= u + 1
      <4>1. IsFiniteSet(UsableTokens)
        BY TokensFinite
      <4>2. /\ IsFiniteSet(UsableTokens \cup {t})
            /\ Cardinality(UsableTokens \cup {t}) \in {u, u + 1}
        BY <4>1, FS_AddElement
      <4> QED
        BY <1>1, <4>2
    <3>2. u' <= u + 1
      <4>1. u' <= Cardinality(UsableTokens \cup {t}) /\ Cardinality(UsableTokens \cup {t}) \in Nat
        BY <2>3, <3>1, FS_Subset, FS_CardinalityType
      <4> QED
        BY <1>1, <1>2, <3>1, <4>1
    <3>3. /\ IsFiniteSet(Creating \ {n})
          /\ Cardinality(Creating \ {n}) = c - 1
      BY TokensFinite, FS_RemoveElement
    <3>4. c' <= c - 1
      BY <2>3, <3>3, FS_Subset
    <3> QED
      BY <1>0, <1>1, <1>2, <3>2, <3>4
  <2> QED
    BY <2>1, <2>2, <2>3, StepTokens DEF TokenMoves
<1> QED
  BY <1>3 DEF FewTokensComing, UsableTokens, Creating

\* Retries, lost answers and crashes pile up no tokens: of those a look-up can
\* find there are never more than managers, however many the workers.
THEOREM FewTokensAlways == Spec => []FewTokens
<1>1. Init => FewTokensComing
  <2> SUFFICES ASSUME Init PROVE FewTokensComing
    OBVIOUS
  <2>1. Creating = {}
    <3>1. \A n \in Managers : m[n].step = "idle"
      BY IdleManager DEF Init
    <3> QED
      BY <3>1 DEF Creating
  <2>2. UsableTokens \subseteq {t \in Tokens : life[t] > 0}
    BY TimesAssumption DEF Init, UsableTokens, Usable
  <2>3. IsFiniteSet({t \in Tokens : life[t] > 0})
    BY ManagersAssumption, FS_Subset
  <2>4. Cardinality(UsableTokens) <= Cardinality({t \in Tokens : life[t] > 0})
    BY <2>2, <2>3, FS_Subset
  <2>5. Cardinality({t \in Tokens : life[t] > 0}) \in Nat
    BY <2>3, FS_CardinalityType
  <2>6. Cardinality(UsableTokens) <= 1
    BY <2>4, <2>5, TokensFinite DEF Init
  <2>7. Cardinality(Managers) >= 1
    BY TokensFinite, ManagersAssumption, FS_EmptySet
  <2>8. Cardinality(Creating) = 0
    BY <2>1, FS_EmptySet
  <2> QED
    BY <2>6, <2>7, <2>8, TokensFinite DEF FewTokensComing, UsableTokens, Creating
<1>2. Kept /\ FewTokensComing /\ [Next]_vars => FewTokensComing'
  BY FewTokensStep
<1>3. FewTokensComing => FewTokens
  BY TokensFinite DEF FewTokensComing, FewTokens, UsableTokens, Creating
<1> QED
  BY <1>1, <1>2, <1>3, TokenInvariant, PTL DEF Spec

=============================================================================
