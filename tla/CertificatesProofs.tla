------------------------- MODULE CertificatesProofs -------------------------
(***************************************************************************)
(* Proofs about Certificates, for any number of managers, masters, workers *)
(* and failures and a clock that runs as long as it will: everything that  *)
(* is handed out comes from the one bundle that was stored.                *)
(***************************************************************************)
EXTENDS Certificates, FiniteSetTheorems, TLAPS

(***************************************************************************)
(* Bundles and the secret's data.                                          *)
(***************************************************************************)
Values == Keys \cup Certs
Data == UNION {[K -> Values \cup Kubeconfigs] : K \in SUBSET (MapKeys \cup {Kube})}

\* A certificate for a key, good for the first year.
Certifies(cert, key) == cert \in Certs /\ cert.pub = key /\ cert.until >= Year

IsBundleOf(b, g) ==
    /\ b \in [Fields -> Values]
    /\ Certifies(b["K8s"], <<g, 1>>) /\ b["K8sKey"] = <<g, 1>>
    /\ Certifies(b["Etcd"], <<g, 2>>) /\ b["EtcdKey"] = <<g, 2>>
    /\ Certifies(b["FrontProxy"], <<g, 3>>) /\ b["FrontProxyKey"] = <<g, 3>>
    /\ Certifies(b["K8sClient"], <<g, 4>>) /\ b["K8sClientKey"] = <<g, 4>>
    /\ b["K8sClient"].by = <<g, 1>> /\ b["K8sClient"].org = "system:masters"
    /\ "client" \in b["K8sClient"].use

\* The secret's data come from the bundle b, although keys may be missing.
From(b, data) ==
    /\ data \in Data
    /\ \A f \in Fields : MapKey[f] \in DOMAIN data => data[MapKey[f]] = b[f]
    /\ Kube \in DOMAIN data => \E m \in Masters : data[Kube] = Kubeconfig(b, m)

\* All that is stored and handed out comes from b.
Derived(b) ==
    /\ From(b, secret)
    /\ \A m \in Masters :
          /\ copy[m] # None => From(b, copy[m].data) /\ MapKeys \subseteq DOMAIN copy[m].data
          /\ pki[m] # None => pki[m] = ToTar(b)
    /\ \A w \in Workers :
          hash[w] # None => hash[w].pub = CertHash(b) /\ hash[w].server \in Masters

\* Until there is a secret there is nothing else.
NothingOut ==
    /\ secret = None
    /\ \A m \in Masters : copy[m] = None /\ pki[m] = None
    /\ \A w \in Workers : hash[w] = None

OneBundle ==
    NothingOut \/ (secret # None /\ \E g \in Managers, b \in [Fields -> Values] :
                                        IsBundleOf(b, g) /\ Derived(b))

\* What has been made of a bundle, in the order in which it is made.
MadeOf(b, g, made) ==
    /\ b \in [Fields -> Values \cup {None}]
    /\ made >= 1 => b["Root"] \in Certs /\ b["RootKey"] = <<g, 0>>
    /\ made >= 2 => Certifies(b["K8s"], <<g, 1>>) /\ b["K8sKey"] = <<g, 1>>
    /\ made >= 3 => Certifies(b["Etcd"], <<g, 2>>) /\ b["EtcdKey"] = <<g, 2>>
    /\ made >= 4 => Certifies(b["FrontProxy"], <<g, 3>>) /\ b["FrontProxyKey"] = <<g, 3>>
    /\ made >= 5 => /\ Certifies(b["K8sClient"], <<g, 4>>) /\ b["K8sClientKey"] = <<g, 4>>
                    /\ b["K8sClient"].by = <<g, 1>> /\ b["K8sClient"].org = "system:masters"
                    /\ "client" \in b["K8sClient"].use

MakingInv ==
    /\ clock \in 0 .. MaxTime
    /\ making \in [Managers -> [made : 0 .. 5, bundle : [Fields -> Values \cup {None}]]]
    /\ \A g \in Managers : MadeOf(making[g].bundle, g, making[g].made)

Tars == {ToTar(b) : b \in [Fields -> Values]}

StateTyped ==
    /\ copy \in [Masters -> [data : Data, rev : Nat] \cup {None}] /\ rev \in Nat
    /\ pki \in [Masters -> Tars \cup {None}]
    /\ endpoint \in Masters \cup {None} /\ seen \in [Workers -> Masters \cup {None}]
    /\ hash \in [Workers -> [pub : Keys, server : Masters] \cup {None}]

\* No two fields have the same key of the secret, and none the kubeconfig's.
LEMMA KeysDiffer ==
    /\ \A f, g \in Fields : MapKey[f] = MapKey[g] => f = g
    /\ Kube \notin MapKeys
<1>1. ASSUME NEW f \in Fields, NEW g \in Fields, MapKey[f] = MapKey[g] PROVE f = g
  BY <1>1 DEF Fields, MapKey
<1>2. \A f \in Fields : MapKey[f] # Kube
  BY DEF Fields, MapKey, Kube
<1> QED
  BY <1>1, <1>2 DEF MapKeys

LEMMA KeysMade ==
    ASSUME NEW g \in Managers
    PROVE  \A i \in 0 .. 4 : <<g, i>> \in Keys /\ <<g, i>> # None
BY NoneAssumption DEF Keys

LEMMA DataSome ==
    ASSUME NEW d \in Data
    PROVE  d # None
BY NoneAssumption DEF Data, Values

\* What is stored first.
LEMMA Merged ==
    ASSUME NEW b \in [Fields -> Values]
    PROVE  From(b, MergeWithMap(b, <<>>))
<1> DEFINE d == MergeWithMap(b, <<>>)
           At(k) == CHOOSE f \in Fields : MapKey[f] = k
<1>1. \A f \in Fields : At(MapKey[f]) = f
  <2> SUFFICES ASSUME NEW f \in Fields PROVE At(MapKey[f]) = f
    OBVIOUS
  <2>1. At(MapKey[f]) \in Fields /\ MapKey[At(MapKey[f])] = MapKey[f]
    OBVIOUS
  <2> QED
    BY <2>1, KeysDiffer
<1>2. DOMAIN <<>> = {}
  OBVIOUS
<1>3. d = [k \in MapKeys |-> b[At(k)]]
  BY <1>2 DEF MergeWithMap
<1> HIDE DEF d, At
<1>4. \A k \in MapKeys : \E f \in Fields : k = MapKey[f]
  BY DEF MapKeys
<1>5. \A f \in Fields : MapKey[f] \in MapKeys
  BY DEF MapKeys
<1>6. d \in [MapKeys -> Values]
  BY <1>1, <1>3, <1>4
<1>7. d \in Data
  <2>1. d \in [MapKeys -> Values \cup Kubeconfigs]
    BY <1>6
  <2> QED
    BY <2>1 DEF Data
<1>8. From(b, d)
  BY <1>1, <1>3, <1>5, <1>7, KeysDiffer DEF From
<1> QED
  BY <1>8 DEF d

\* What is read back.
LEMMA ReadBack ==
    ASSUME NEW b \in [Fields -> Values], NEW data \in Data, From(b, data),
           MapKeys \subseteq DOMAIN data
    PROVE  CABundleFromMap(data) = b
<1>1. \A f \in Fields : data[MapKey[f]] = b[f]
  BY DEF From, MapKeys
<1> QED
  BY <1>1 DEF CABundleFromMap

(***************************************************************************)
(* How a bundle is made.                                                   *)
(***************************************************************************)
LEMMA Templates ==
    ASSUME NEW now \in 0 .. MaxTime, NEW pub \in Keys, NEW by \in Keys
    PROVE  /\ Certifies(Sign(FromCATemplate(now), pub, by), pub)
           /\ LET c == Sign(FromCertTemplate(now, "system:masters", FALSE, TRUE), pub, by)
              IN Certifies(c, pub) /\ c.by = by /\ c.org = "system:masters" /\ "client" \in c.use
<1>1. Year \in Nat /\ MaxTime \in Nat /\ now \in Nat /\ now <= MaxTime
  BY BoundsAssumption
<1>2. /\ now + 10 * Year \in 0 .. MaxTime + 10 * Year /\ now + 10 * Year >= Year
      /\ now + Year \in 0 .. MaxTime + 10 * Year /\ now + Year >= Year
  BY <1>1
<1>3. Certifies(Sign(FromCATemplate(now), pub, by), pub)
  BY <1>2 DEF Certifies, Certs, Sign, FromCATemplate
<1> DEFINE U == {u \in {"server", "client"} : (u = "server" /\ FALSE) \/ (u = "client" /\ TRUE)}
           c == Sign(FromCertTemplate(now, "system:masters", FALSE, TRUE), pub, by)
<1>4. U \in SUBSET {"server", "client"} /\ "client" \in U
  OBVIOUS
<1>5. c = [org |-> "system:masters", use |-> U, until |-> now + Year, pub |-> pub, by |-> by]
  BY DEF Sign, FromCertTemplate
<1> HIDE DEF U, c
<1>6. Certifies(c, pub) /\ c.by = by /\ c.org = "system:masters" /\ "client" \in c.use
  BY <1>2, <1>4, <1>5 DEF Certifies, Certs
<1> QED
  BY <1>3, <1>6 DEF c

\* One more key and its certificate.
IsExtension(e, b, cert, key) ==
    /\ e \in [Fields -> Values \cup {None}]
    /\ e[KeyField[cert]] = key /\ Certifies(e[cert], key)
    /\ \A f \in Fields \ {cert, KeyField[cert]} : e[f] = b[f]
    /\ cert = "K8sClient" => /\ e[cert].by = b["K8sKey"] /\ e[cert].org = "system:masters"
                             /\ "client" \in e[cert].use

LEMMA Extended ==
    ASSUME NEW b \in [Fields -> Values \cup {None}], NEW now \in 0 .. MaxTime,
           NEW key \in Keys, NEW cert \in {"Root", "K8s", "Etcd", "FrontProxy", "K8sClient"},
           b[SignedBy[cert]] \in Keys \/ SignedBy[cert] = KeyField[cert]
    PROVE  IsExtension(Extend(b, cert, key, now), b, cert, key)
<1> DEFINE own == [b EXCEPT ![KeyField[cert]] = key]
           template == IF cert = "K8sClient"
                       THEN FromCertTemplate(now, "system:masters", FALSE, TRUE)
                       ELSE FromCATemplate(now)
           by == own[SignedBy[cert]]
           c == Sign(template, key, by)
           e == [own EXCEPT ![cert] = c]
<1>1. /\ cert \in Fields /\ KeyField[cert] \in Fields /\ SignedBy[cert] \in Fields
      /\ cert # KeyField[cert]
      /\ cert = "K8sClient" => SignedBy[cert] = "K8sKey" /\ KeyField[cert] # "K8sKey"
  BY DEF Fields, KeyField, SignedBy
<1>2. own \in [Fields -> Values \cup {None}] /\ own[KeyField[cert]] = key
  BY <1>1 DEF Values
<1>3. by \in Keys /\ (cert = "K8sClient" => by = b["K8sKey"])
  BY <1>1, <1>2
<1> HIDE DEF by
<1>4. /\ Certifies(c, key)
      /\ cert = "K8sClient" => /\ c.by = by /\ c.org = "system:masters" /\ "client" \in c.use
  <2>1. CASE cert = "K8sClient"
    BY <1>3, <2>1, Templates
  <2>2. CASE cert # "K8sClient"
    BY <1>3, <2>2, Templates
  <2> QED
    BY <2>1, <2>2
<1> HIDE DEF c
<1>5. c \in Values
  BY <1>4 DEF Certifies, Values
<1>6. /\ e \in [Fields -> Values \cup {None}]
      /\ e[KeyField[cert]] = key /\ e[cert] = c
      /\ \A f \in Fields \ {cert, KeyField[cert]} : e[f] = b[f]
  BY <1>1, <1>2, <1>5
<1>7. e = Extend(b, cert, key, now)
  BY DEF Extend, c, by
<1> HIDE DEF e
<1>8. IsExtension(e, b, cert, key)
  BY <1>3, <1>4, <1>6 DEF IsExtension
<1> QED
  BY <1>7, <1>8

LEMMA Makes ==
    ASSUME NEW g \in Managers, NEW b, NEW made \in 0 .. 4, MadeOf(b, g, made),
           NEW now \in 0 .. MaxTime
    PROVE  MadeOf(Extend(b, Order[made + 1], <<g, made>>, now), g, made + 1)
<1>0. b \in [Fields -> Values \cup {None}] /\ <<g, made>> \in Keys
  BY KeysMade DEF MadeOf
<1>a. <<g, 0>> \in Keys /\ <<g, 1>> \in Keys
  BY DEF Keys
<1>1. CASE made = 0
  <2> DEFINE e == Extend(b, "Root", <<g, 0>>, now)
  <2>1. SignedBy["Root"] = "RootKey" /\ KeyField["Root"] = "RootKey"
    BY DEF SignedBy, KeyField
  <2>2. IsExtension(e, b, "Root", <<g, 0>>)
    BY <1>0, <1>1, <2>1, Extended
  <2> HIDE DEF e
  <2>3. Order[made + 1] = "Root"
    BY <1>1 DEF Order
  <2>4. MadeOf(e, g, 1)
    BY <2>1, <2>2 DEF MadeOf, IsExtension, Certifies
  <2> QED
    BY <1>1, <2>3, <2>4 DEF e
<1>2. CASE made = 1
  <2> DEFINE e == Extend(b, "K8s", <<g, 1>>, now)
  <2>0. b["RootKey"] \in Keys
    BY <1>a, <1>2 DEF MadeOf
  <2>1. SignedBy["K8s"] = "RootKey" /\ KeyField["K8s"] = "K8sKey"
    BY DEF SignedBy, KeyField
  <2>2. IsExtension(e, b, "K8s", <<g, 1>>)
    BY <1>0, <1>2, <2>0, <2>1, Extended
  <2> HIDE DEF e
  <2>3. /\ e \in [Fields -> Values \cup {None}]
        /\ e["K8sKey"] = <<g, 1>> /\ Certifies(e["K8s"], <<g, 1>>)
        /\ \A f \in Fields \ {"K8s", "K8sKey"} : e[f] = b[f]
    BY <2>1, <2>2 DEF IsExtension
  <2>4. /\ e["Root"] = b["Root"] /\ e["RootKey"] = b["RootKey"]
    BY <2>3 DEF Fields
  <2>5. Order[made + 1] = "K8s"
    BY <1>2 DEF Order
  <2>6. MadeOf(e, g, 2)
    BY <1>2, <2>3, <2>4 DEF MadeOf
  <2> QED
    BY <1>2, <2>5, <2>6 DEF e
<1>3. CASE made = 2
  <2> DEFINE e == Extend(b, "Etcd", <<g, 2>>, now)
  <2>0. b["RootKey"] \in Keys
    BY <1>a, <1>3 DEF MadeOf
  <2>1. SignedBy["Etcd"] = "RootKey" /\ KeyField["Etcd"] = "EtcdKey"
    BY DEF SignedBy, KeyField
  <2>2. IsExtension(e, b, "Etcd", <<g, 2>>)
    BY <1>0, <1>3, <2>0, <2>1, Extended
  <2> HIDE DEF e
  <2>3. /\ e \in [Fields -> Values \cup {None}]
        /\ e["EtcdKey"] = <<g, 2>> /\ Certifies(e["Etcd"], <<g, 2>>)
        /\ \A f \in Fields \ {"Etcd", "EtcdKey"} : e[f] = b[f]
    BY <2>1, <2>2 DEF IsExtension
  <2>4. /\ e["Root"] = b["Root"] /\ e["RootKey"] = b["RootKey"]
        /\ e["K8s"] = b["K8s"] /\ e["K8sKey"] = b["K8sKey"]
    BY <2>3 DEF Fields
  <2>5. Order[made + 1] = "Etcd"
    BY <1>3 DEF Order
  <2>6. MadeOf(e, g, 3)
    BY <1>3, <2>3, <2>4 DEF MadeOf
  <2> QED
    BY <1>3, <2>5, <2>6 DEF e
<1>4. CASE made = 3
  <2> DEFINE e == Extend(b, "FrontProxy", <<g, 3>>, now)
  <2>0. b["RootKey"] \in Keys
    BY <1>a, <1>4 DEF MadeOf
  <2>1. SignedBy["FrontProxy"] = "RootKey" /\ KeyField["FrontProxy"] = "FrontProxyKey"
    BY DEF SignedBy, KeyField
  <2>2. IsExtension(e, b, "FrontProxy", <<g, 3>>)
    BY <1>0, <1>4, <2>0, <2>1, Extended
  <2> HIDE DEF e
  <2>3. /\ e \in [Fields -> Values \cup {None}]
        /\ e["FrontProxyKey"] = <<g, 3>> /\ Certifies(e["FrontProxy"], <<g, 3>>)
        /\ \A f \in Fields \ {"FrontProxy", "FrontProxyKey"} : e[f] = b[f]
    BY <2>1, <2>2 DEF IsExtension
  <2>4. /\ e["Root"] = b["Root"] /\ e["RootKey"] = b["RootKey"]
        /\ e["K8s"] = b["K8s"] /\ e["K8sKey"] = b["K8sKey"]
        /\ e["Etcd"] = b["Etcd"] /\ e["EtcdKey"] = b["EtcdKey"]
    BY <2>3 DEF Fields
  <2>5. Order[made + 1] = "FrontProxy"
    BY <1>4 DEF Order
  <2>6. MadeOf(e, g, 4)
    BY <1>4, <2>3, <2>4 DEF MadeOf
  <2> QED
    BY <1>4, <2>5, <2>6 DEF e
<1>5. CASE made = 4
  <2> DEFINE e == Extend(b, "K8sClient", <<g, 4>>, now)
  <2>0. b["K8sKey"] \in Keys
    BY <1>a, <1>5 DEF MadeOf
  <2>1. SignedBy["K8sClient"] = "K8sKey" /\ KeyField["K8sClient"] = "K8sClientKey"
    BY DEF SignedBy, KeyField
  <2>2. IsExtension(e, b, "K8sClient", <<g, 4>>)
    BY <1>0, <1>5, <2>0, <2>1, Extended
  <2> HIDE DEF e
  <2>3. /\ e \in [Fields -> Values \cup {None}]
        /\ e["K8sClientKey"] = <<g, 4>> /\ Certifies(e["K8sClient"], <<g, 4>>)
        /\ \A f \in Fields \ {"K8sClient", "K8sClientKey"} : e[f] = b[f]
    BY <2>1, <2>2 DEF IsExtension
  <2>4. /\ e["Root"] = b["Root"] /\ e["RootKey"] = b["RootKey"]
        /\ e["K8s"] = b["K8s"] /\ e["K8sKey"] = b["K8sKey"]
        /\ e["Etcd"] = b["Etcd"] /\ e["EtcdKey"] = b["EtcdKey"]
        /\ e["FrontProxy"] = b["FrontProxy"] /\ e["FrontProxyKey"] = b["FrontProxyKey"]
    BY <2>3 DEF Fields
  <2>5. Order[made + 1] = "K8sClient"
    BY <1>5 DEF Order
  <2>6. /\ e["K8sClient"].by = b["K8sKey"] /\ e["K8sClient"].org = "system:masters"
        /\ "client" \in e["K8sClient"].use
    BY <2>2 DEF IsExtension
  <2>7. MadeOf(e, g, 5)
    BY <1>5, <2>3, <2>4, <2>6 DEF MadeOf
  <2> QED
    BY <1>5, <2>5, <2>7 DEF e
<1> QED
  BY <1>1, <1>2, <1>3, <1>4, <1>5

\* A complete bundle.
LEMMA Complete ==
    ASSUME NEW g \in Managers, NEW b, MadeOf(b, g, 5)
    PROVE  b \in [Fields -> Values] /\ IsBundleOf(b, g)
<1>1. b \in [Fields -> Values \cup {None}] /\ \A i \in 0 .. 4 : <<g, i>> \in Keys
  BY KeysMade DEF MadeOf
<1>2. \A f \in Fields : b[f] \in Values
  BY <1>1 DEF MadeOf, Fields, Values, Certifies
<1>3. b \in [Fields -> Values]
  BY <1>1, <1>2
<1> QED
  BY <1>3 DEF MadeOf, IsBundleOf

LEMMA MakingStep ==
    ASSUME MakingInv, [Next]_vars
    PROVE  MakingInv'
<1> DEFINE Makers == [made : 0 .. 5, bundle : [Fields -> Values \cup {None}]]
           nothing == [made |-> 0, bundle |-> EmptyBundle]
<1>0. making \in [Managers -> Makers] /\ clock \in 0 .. MaxTime /\ MaxTime \in Nat
  BY BoundsAssumption DEF MakingInv
<1>1. nothing \in Makers /\ \A g : MadeOf(nothing.bundle, g, nothing.made)
  BY DEF EmptyBundle, MadeOf
<1>2. ASSUME NEW g \in Managers, NEW x \in Makers, making' = [making EXCEPT ![g] = x],
             MadeOf(x.bundle, g, x.made), UNCHANGED clock
      PROVE  MakingInv'
  <2>1. making' \in [Managers -> Makers]
    BY <1>0, <1>2
  <2>2. \A h \in Managers : MadeOf(making'[h].bundle, h, making'[h].made)
    BY <1>0, <1>2 DEF MakingInv
  <2> QED
    BY <1>0, <1>2, <2>1, <2>2 DEF MakingInv
<1>3. ASSUME NEW g \in Managers, NewCABundle(g) PROVE MakingInv'
  <2> DEFINE made == making[g].made
             b == making[g].bundle
             e == Extend(b, Order[made + 1], <<g, made>>, clock)
  <2>1. Len(Order) = 5
    BY DEF Order
  <2>2. made \in 0 .. 4 /\ MadeOf(b, g, made)
    BY <1>0, <1>3, <2>1 DEF NewCABundle, MakingInv
  <2>3. MadeOf(e, g, made + 1)
    BY <1>0, <2>2, Makes
  <2>4. CASE making' = [making EXCEPT ![g] = [made |-> made + 1, bundle |-> e]]
    <3> DEFINE x == [made |-> made + 1, bundle |-> e]
    <3> HIDE DEF made, e
    <3>1. e \in [Fields -> Values \cup {None}] /\ made + 1 \in 0 .. 5
      BY <2>2, <2>3 DEF MadeOf
    <3>2. x \in Makers /\ x.made = made + 1 /\ x.bundle = e
      BY <3>1
    <3>3. making' = [making EXCEPT ![g] = x]
      BY <2>4
    <3> HIDE DEF x
    <3> QED
      BY <1>2, <1>3, <2>3, <3>2, <3>3 DEF NewCABundle
  <2>5. CASE making' = [making EXCEPT ![g] = nothing]
    BY <1>1, <1>2, <1>3, <2>5 DEF NewCABundle
  <2> QED
    BY <1>3, <2>4, <2>5 DEF NewCABundle
<1>4. ASSUME NEW g \in Managers, CreateClusterSecrets(g) PROVE MakingInv'
  BY <1>1, <1>2, <1>4 DEF CreateClusterSecrets
<1>5. CASE UNCHANGED making /\ clock' \in 0 .. MaxTime
  BY <1>5 DEF MakingInv
<1>6. CASE Tick
  BY <1>0, <1>5, <1>6 DEF Tick
<1> QED
  BY <1>0, <1>3, <1>4, <1>5, <1>6
     DEF Next, UpdateStatus, MasterUserdata, CreateKubeconfig, UpdateCluster, DeleteMaster,
         GetCluster, WorkerUserdata, RemoveKey, vars

(***************************************************************************)
(* What becomes of the secret's data.                                      *)
(***************************************************************************)
LEMMA DataDomain ==
    ASSUME NEW d \in Data
    PROVE  /\ DOMAIN d \in SUBSET (MapKeys \cup {Kube})
           /\ d \in [DOMAIN d -> Values \cup Kubeconfigs]
<1>1. PICK K \in SUBSET (MapKeys \cup {Kube}) : d \in [K -> Values \cup Kubeconfigs]
  BY DEF Data
<1> QED
  BY <1>1

\* A key is taken out.
LEMMA Without ==
    ASSUME NEW b, NEW data, From(b, data), NEW k
    PROVE  From(b, [x \in DOMAIN data \ {k} |-> data[x]])
<1> DEFINE K == DOMAIN data \ {k}
           d == [x \in K |-> data[x]]
<1>1. K \in SUBSET (MapKeys \cup {Kube}) /\ d \in [K -> Values \cup Kubeconfigs]
  BY DataDomain DEF From
<1>2. d \in Data
  BY <1>1 DEF Data
<1>3. DOMAIN d = K /\ K \subseteq DOMAIN data /\ \A x \in K : d[x] = data[x]
  OBVIOUS
<1> HIDE DEF d, K
<1>4. From(b, d)
  BY <1>2, <1>3 DEF From
<1> QED
  BY <1>4 DEF d, K

\* The kubeconfig is put in.
LEMMA WithKubeconfig ==
    ASSUME NEW g \in Managers, NEW b, IsBundleOf(b, g), NEW m \in Masters,
           NEW data, From(b, data)
    PROVE  From(b, [k \in DOMAIN data \cup {Kube} |->
                        IF k = Kube THEN Kubeconfig(b, m) ELSE data[k]])
<1> DEFINE K == DOMAIN data \cup {Kube}
           v == Kubeconfig(b, m)
           d == [k \in K |-> IF k = Kube THEN v ELSE data[k]]
<1>1. <<g, 4>> \in Keys
  BY DEF Keys
<1>2. v \in Kubeconfigs
  BY <1>1 DEF Kubeconfig, Kubeconfigs, IsBundleOf, Certifies
<1> HIDE DEF v
<1>3. K \in SUBSET (MapKeys \cup {Kube}) /\ d \in [K -> Values \cup Kubeconfigs]
  BY <1>2, DataDomain DEF From
<1>4. d \in Data
  BY <1>3 DEF Data
<1>5. /\ DOMAIN d = DOMAIN data \cup {Kube} /\ d[Kube] = v
      /\ \A k \in DOMAIN data : k # Kube => d[k] = data[k]
  OBVIOUS
<1> HIDE DEF d, K
<1>6. \A f \in Fields : MapKey[f] # Kube
  BY KeysDiffer DEF MapKeys
<1>7. \A f \in Fields : MapKey[f] \in DOMAIN d => d[MapKey[f]] = b[f]
  BY <1>5, <1>6 DEF From
<1>8. From(b, d)
  BY <1>4, <1>5, <1>7 DEF From, v
<1> QED
  BY <1>8 DEF d, K, v

(***************************************************************************)
(* Whatever happens once a bundle is stored, no other takes its place.     *)
(***************************************************************************)
LEMMA StoredStep ==
    ASSUME NEW g \in Managers, NEW b \in [Fields -> Values], IsBundleOf(b, g),
           secret # None, Derived(b), StateTyped, [Next]_vars
    PROVE  secret' # None /\ Derived(b)' /\ StateTyped'
<1> DEFINE Copies == [data : Data, rev : Nat]
           Hashes == [pub : Keys, server : Masters]
<1>0. /\ From(b, secret) /\ secret \in Data /\ rev \in Nat
      /\ copy \in [Masters -> Copies \cup {None}]
      /\ pki \in [Masters -> Tars \cup {None}]
      /\ hash \in [Workers -> Hashes \cup {None}]
      /\ endpoint \in Masters \cup {None} /\ seen \in [Workers -> Masters \cup {None}]
  BY DEF Derived, From, StateTyped
<1>1. ASSUME UNCHANGED <<secret, rev, copy, pki, hash>>, endpoint' \in Masters \cup {None},
             seen' \in [Workers -> Masters \cup {None}]
      PROVE  secret' # None /\ Derived(b)' /\ StateTyped'
  BY <1>1 DEF Derived, StateTyped
<1>2. ASSUME NEW h \in Managers, NewCABundle(h) \/ CreateClusterSecrets(h) \/ UpdateStatus(h)
      PROVE  secret' # None /\ Derived(b)' /\ StateTyped'
  BY <1>0, <1>1, <1>2 DEF NewCABundle, CreateClusterSecrets, UpdateStatus, cluster
<1>3. ASSUME CABundleFromMap(secret) # None
      PROVE  MapKeys \subseteq DOMAIN secret /\ CABundleFromMap(secret) = b
  <2>1. MapKeys \subseteq DOMAIN secret
    BY <1>3 DEF CABundleFromMap
  <2> QED
    BY <1>0, <2>1, ReadBack
<1>4. ASSUME NEW m \in Masters, MasterUserdata(m)
      PROVE  secret' # None /\ Derived(b)' /\ StateTyped'
  <2> DEFINE c == [data |-> secret, rev |-> rev]
             t == ToTar(b)
  <2>1. /\ pki' = [pki EXCEPT ![m] = t] /\ copy' = [copy EXCEPT ![m] = c]
        /\ MapKeys \subseteq DOMAIN secret /\ UNCHANGED <<secret, rev, endpoint, seen, hash>>
    BY <1>3, <1>4 DEF MasterUserdata, cluster
  <2>2. t \in Tars /\ c \in Copies /\ c.data = secret
    BY <1>0 DEF Tars
  <2> HIDE DEF c, Copies
  <2>3. pki' \in [Masters -> Tars \cup {None}] /\ copy' \in [Masters -> Copies \cup {None}]
    BY <1>0, <2>1, <2>2
  <2> HIDE DEF t
  <2>4. \A n \in Masters :
           /\ copy'[n] # None => From(b, copy'[n].data) /\ MapKeys \subseteq DOMAIN copy'[n].data
           /\ pki'[n] # None => pki'[n] = t
    BY <1>0, <2>1, <2>2 DEF Derived, t
  <2>5. StateTyped'
    BY <1>0, <2>1, <2>3 DEF StateTyped, Copies
  <2>6. Derived(b)'
    BY <2>1, <2>4 DEF Derived, t
  <2> QED
    BY <2>1, <2>5, <2>6
<1>5. ASSUME NEW m \in Masters, CreateKubeconfig(m)
      PROVE  secret' # None /\ Derived(b)' /\ StateTyped'
  <2> DEFINE data == copy[m].data
             d == [k \in DOMAIN data \cup {Kube} |->
                      IF k = Kube THEN Kubeconfig(b, m) ELSE data[k]]
  <2>1. From(b, data) /\ MapKeys \subseteq DOMAIN data
    BY <1>5 DEF CreateKubeconfig, Derived
  <2>2. CABundleFromMap(data) = b
    BY <2>1, ReadBack DEF From
  <2>3. From(b, d)
    BY <2>1, WithKubeconfig
  <2>4. (secret' = d /\ rev' = rev + 1) \/ UNCHANGED <<secret, rev>>
    BY <1>5, <2>2 DEF CreateKubeconfig, Put
  <2> HIDE DEF d
  <2>5. From(b, secret') /\ rev' \in Nat
    BY <1>0, <2>3, <2>4
  <2>6. copy' = [copy EXCEPT ![m] = None] /\ UNCHANGED <<endpoint, seen, pki, hash>>
    BY <1>5 DEF CreateKubeconfig
  <2>7. /\ copy' \in [Masters -> Copies \cup {None}]
        /\ \A n \in Masters : copy'[n] \in {copy[n], None}
    BY <1>0, <2>6
  <2>8. secret' # None
    BY <2>5, DataSome DEF From
  <2>9. Derived(b)'
    BY <2>5, <2>6, <2>7 DEF Derived
  <2> QED
    BY <1>0, <2>5, <2>6, <2>7, <2>8, <2>9 DEF StateTyped
<1>6. ASSUME NEW m \in Masters, UpdateCluster(m) \/ DeleteMaster(m)
      PROVE  secret' # None /\ Derived(b)' /\ StateTyped'
  <2>1. /\ pki' \in {pki, [pki EXCEPT ![m] = None]} /\ endpoint' \in {endpoint, m}
        /\ UNCHANGED <<secret, rev, copy, seen, hash>>
    BY <1>6 DEF UpdateCluster, DeleteMaster, cluster
  <2>2. /\ pki' \in [Masters -> Tars \cup {None}]
        /\ \A n \in Masters : pki'[n] \in {pki[n], None}
    BY <1>0, <2>1
  <2>3. endpoint' \in Masters \cup {None}
    BY <1>0, <2>1
  <2> QED
    BY <2>1, <2>2, <2>3 DEF Derived, StateTyped
<1>7. ASSUME NEW w \in Workers, WorkerUserdata(w)
      PROVE  secret' # None /\ Derived(b)' /\ StateTyped'
  <2> DEFINE x == [pub |-> CertHash(b), server |-> seen[w]]
  <2>1. hash' = [hash EXCEPT ![w] = x] /\ UNCHANGED <<secret, rev, copy, endpoint, seen, pki>>
    BY <1>3, <1>7 DEF WorkerUserdata, cluster
  <2>2. CertHash(b) \in Keys
    BY DEF CertHash, IsBundleOf, Certifies, Certs
  <2>3. seen[w] \in Masters
    BY <1>0, <1>7 DEF WorkerUserdata
  <2>4. x \in Hashes /\ x.pub = CertHash(b) /\ x.server \in Masters
    BY <2>2, <2>3
  <2> HIDE DEF x, Hashes
  <2>5. hash' \in [Workers -> Hashes \cup {None}] /\ \A v \in Workers : hash'[v] \in {hash[v], x}
    BY <1>0, <2>1, <2>4
  <2>6. \A v \in Workers : hash'[v] # None => hash'[v].pub = CertHash(b) /\ hash'[v].server \in Masters
    BY <2>4, <2>5 DEF Derived
  <2>7. Derived(b)'
    BY <2>1, <2>6 DEF Derived
  <2> QED
    BY <1>0, <2>1, <2>5, <2>7 DEF StateTyped, Hashes
<1>8. ASSUME NEW k \in MapKeys, RemoveKey(k)
      PROVE  secret' # None /\ Derived(b)' /\ StateTyped'
  <2>1. From(b, secret') /\ rev' = rev + 1 /\ UNCHANGED <<copy, endpoint, seen, pki, hash>>
    BY <1>0, <1>8, Without DEF RemoveKey, Put, cluster
  <2>2. secret' # None
    BY <2>1, DataSome DEF From
  <2>3. Derived(b)'
    BY <2>1 DEF Derived
  <2> QED
    BY <1>0, <2>1, <2>2, <2>3 DEF StateTyped
<1>9. ASSUME Tick PROVE secret' # None /\ Derived(b)' /\ StateTyped'
  BY <1>0, <1>1, <1>9 DEF Tick, cluster
<1>10. ASSUME NEW w \in Workers, GetCluster(w) PROVE secret' # None /\ Derived(b)' /\ StateTyped'
  <2>1. UNCHANGED <<secret, rev, copy, endpoint, pki, hash>> /\ seen' = [seen EXCEPT ![w] = endpoint]
    BY <1>10 DEF GetCluster
  <2> QED
    BY <1>0, <1>1, <2>1
<1>11. ASSUME UNCHANGED vars PROVE secret' # None /\ Derived(b)' /\ StateTyped'
  BY <1>0, <1>1, <1>11 DEF vars, cluster
<1> QED
  BY <1>2, <1>4, <1>5, <1>6, <1>7, <1>8, <1>9, <1>10, <1>11 DEF Next

\* The first bundle is stored whole.
LEMMA FirstStep ==
    ASSUME NothingOut, StateTyped, MakingInv, [Next]_vars
    PROVE  OneBundle' /\ StateTyped'
<1>0. secret = None /\ ~HasKube
  BY DEF NothingOut, HasKube
<1>1. ASSUME UNCHANGED <<secret, rev, copy, pki, hash>>, endpoint' \in Masters \cup {None},
             seen' \in [Workers -> Masters \cup {None}]
      PROVE  OneBundle' /\ StateTyped'
  BY <1>1 DEF OneBundle, NothingOut, StateTyped
<1>2. ASSUME NEW g \in Managers, CreateClusterSecrets(g) PROVE OneBundle' /\ StateTyped'
  <2>1. making[g].made = 5
    BY <1>2 DEF CreateClusterSecrets, Order
  <2>2. PICK b : b = making[g].bundle
    OBVIOUS
  <2>3. b \in [Fields -> Values] /\ IsBundleOf(b, g)
    BY <2>1, <2>2, Complete DEF MakingInv
  <2> DEFINE d == MergeWithMap(b, <<>>)
  <2>4. From(b, d)
    BY <2>3, Merged
  <2>5. secret' = d /\ rev' = rev + 1 /\ UNCHANGED <<copy, endpoint, seen, pki, hash>>
    BY <1>0, <1>2, <2>2 DEF CreateClusterSecrets, Put
  <2> HIDE DEF d
  <2>6. secret' # None
    BY <2>4, <2>5, DataSome DEF From
  <2>7. Derived(b)'
    BY <2>4, <2>5 DEF Derived, NothingOut
  <2>8. StateTyped'
    BY <2>5 DEF StateTyped
  <2>9. \E h \in Managers, c \in [Fields -> Values] : IsBundleOf(c, h) /\ Derived(c)'
    BY <2>3, <2>7
  <2> QED
    BY <2>6, <2>8, <2>9 DEF OneBundle
<1>3. ASSUME NEW m \in Masters, UpdateCluster(m) PROVE OneBundle' /\ StateTyped'
  <2>1. pki = [n \in Masters |-> None]
    BY DEF NothingOut, StateTyped
  <2>2. pki' = pki /\ endpoint' \in {endpoint, m} /\ UNCHANGED <<secret, rev, copy, seen, hash>>
    BY <1>3, <2>1 DEF UpdateCluster
  <2> QED
    BY <1>1, <2>2 DEF StateTyped
<1>4. ASSUME NEW w \in Workers, GetCluster(w) PROVE OneBundle' /\ StateTyped'
  <2>1. UNCHANGED <<secret, rev, copy, endpoint, pki, hash>> /\ seen' = [seen EXCEPT ![w] = endpoint]
    BY <1>4 DEF GetCluster
  <2> QED
    BY <1>1, <2>1 DEF StateTyped
<1>5. ASSUME NEW g \in Managers, UpdateStatus(g) PROVE OneBundle' /\ StateTyped'
  BY <1>1, <1>5 DEF UpdateStatus, StateTyped
<1>6. ASSUME UNCHANGED <<secret, rev, copy, cluster, pki, hash>> PROVE OneBundle' /\ StateTyped'
  BY <1>1, <1>6 DEF StateTyped, cluster
<1> QED
  BY <1>0, <1>2, <1>3, <1>4, <1>5, <1>6
     DEF NothingOut, Next, NewCABundle, MasterUserdata, CreateKubeconfig, DeleteMaster,
         WorkerUserdata, RemoveKey, Tick, vars

IInv == MakingInv /\ StateTyped /\ OneBundle

LEMMA Invariant == Spec => []IInv
<1>1. Init => IInv
  <2> SUFFICES ASSUME Init PROVE IInv
    OBVIOUS
  <2> DEFINE nothing == [made |-> 0, bundle |-> EmptyBundle]
  <2>1. EmptyBundle \in [Fields -> Values \cup {None}] /\ \A g : MadeOf(EmptyBundle, g, 0)
    BY DEF EmptyBundle, MadeOf
  <2>2. /\ nothing \in [made : 0 .. 5, bundle : [Fields -> Values \cup {None}]]
        /\ nothing.made = 0 /\ nothing.bundle = EmptyBundle
    BY <2>1
  <2>3. making = [g \in Managers |-> nothing] /\ clock = 0
    BY DEF Init
  <2> HIDE DEF nothing
  <2>4. 0 \in 0 .. MaxTime
    BY BoundsAssumption
  <2>5. MakingInv
    BY <2>1, <2>2, <2>3, <2>4 DEF MakingInv
  <2>6. NothingOut
    BY DEF Init, NothingOut
  <2>7. StateTyped
    BY DEF Init, StateTyped
  <2> QED
    BY <2>5, <2>6, <2>7 DEF IInv, OneBundle
<1>2. IInv /\ [Next]_vars => IInv'
  <2> SUFFICES ASSUME IInv, [Next]_vars PROVE IInv'
    OBVIOUS
  <2>1. MakingInv /\ StateTyped /\ OneBundle
    BY DEF IInv
  <2>2. MakingInv'
    BY <2>1, MakingStep
  <2>3. CASE NothingOut
    BY <2>1, <2>2, <2>3, FirstStep DEF IInv
  <2>4. CASE ~NothingOut
    <3>1. PICK g \in Managers, b \in [Fields -> Values] : IsBundleOf(b, g) /\ Derived(b)
      BY <2>1, <2>4 DEF OneBundle
    <3>2. secret' # None /\ Derived(b)' /\ StateTyped'
      BY <2>1, <2>4, <3>1, StoredStep DEF OneBundle
    <3>3. OneBundle'
      BY <3>1, <3>2 DEF OneBundle
    <3> QED
      BY <2>2, <3>2, <3>3 DEF IInv
  <2> QED
    BY <2>3, <2>4
<1> QED
  BY <1>1, <1>2, PTL DEF Spec

(***************************************************************************)
(* What whoever is handed something can rely on.                           *)
(***************************************************************************)
LEMMA Stored ==
    ASSUME OneBundle, ~NothingOut
    PROVE  \E g \in Managers, b \in [Fields -> Values] : IsBundleOf(b, g) /\ Derived(b)
BY DEF OneBundle

\* A bundle's certificates are not None, nor are its keys.
LEMMA BundleSome ==
    ASSUME NEW g \in Managers, NEW b, IsBundleOf(b, g)
    PROVE  \A cert \in {"K8s", "Etcd", "FrontProxy", "K8sClient"} :
                b[cert] \in Certs /\ b[cert] # None /\ b[KeyField[cert]] # None
<1>1. \A i \in 0 .. 4 : <<g, i>> # None
  BY KeysMade
<1>2. <<g, 1>> # None /\ <<g, 2>> # None /\ <<g, 3>> # None /\ <<g, 4>> # None
  BY <1>1
<1>3. \A c \in Certs : c # None
  BY NoneAssumption
<1>4. /\ KeyField["K8s"] = "K8sKey" /\ KeyField["Etcd"] = "EtcdKey"
      /\ KeyField["FrontProxy"] = "FrontProxyKey" /\ KeyField["K8sClient"] = "K8sClientKey"
  BY DEF KeyField
<1>5. /\ b["K8s"] \in Certs /\ b["Etcd"] \in Certs /\ b["FrontProxy"] \in Certs
      /\ b["K8sClient"] \in Certs
      /\ b["K8sKey"] # None /\ b["EtcdKey"] # None /\ b["FrontProxyKey"] # None
      /\ b["K8sClientKey"] # None
  BY <1>2 DEF IsBundleOf, Certifies
<1> QED
  BY <1>3, <1>4, <1>5

\* Whoever takes the kubeconfig out of the secret in the cluster's first year
\* is accepted by the master it names, and trusts it (createKubeconfig).
THEOREM KubeconfigAccepted == Spec => []KubeconfigWorks
<1>1. IInv => KubeconfigWorks
  <2> SUFFICES ASSUME IInv, HasKube, clock < Year, pki[secret[Kube].server] # None
               PROVE  Accepts(secret[Kube], clock)
    BY DEF KubeconfigWorks
  <2>1. PICK g \in Managers, b \in [Fields -> Values] : IsBundleOf(b, g) /\ Derived(b)
    BY Stored DEF IInv, NothingOut, HasKube
  <2>2. PICK m \in Masters : secret[Kube] = Kubeconfig(b, m)
    BY <2>1 DEF Derived, From, HasKube
  <2>3. pki[m] # None /\ pki[m] = ToTar(b)
    BY <2>1, <2>2 DEF Derived, Kubeconfig
  <2>4. /\ b["K8s"] # None /\ b["K8s"].pub = <<g, 1>> /\ b["K8s"].until >= Year
        /\ b["K8sKey"] = <<g, 1>>
        /\ b["K8sClient"] # None /\ b["K8sClientKey"] # None
        /\ b["K8sClient"].pub = b["K8sClientKey"] /\ b["K8sClient"].by = <<g, 1>>
        /\ b["K8sClient"].org = "system:masters" /\ "client" \in b["K8sClient"].use
        /\ b["K8sClient"].until >= Year
    BY <2>1, BundleSome DEF IsBundleOf, Certifies, KeyField
  <2>5. b["K8s"].until \in Nat /\ b["K8sClient"].until \in Nat /\ clock \in Nat /\ Year \in Nat
    <3>1. b["K8s"] \in Certs /\ b["K8sClient"] \in Certs
      BY <2>1 DEF IsBundleOf, Certifies
    <3>2. \A c \in Certs : c.until \in 0 .. MaxTime + 10 * Year
      BY DEF Certs
    <3>3. clock \in 0 .. MaxTime
      BY DEF IInv, MakingInv
    <3>4. MaxTime \in Nat /\ Year \in Nat
      BY BoundsAssumption
    <3> QED
      BY <3>1, <3>2, <3>3, <3>4
  <2>6. Valid(b["K8s"], clock) /\ Valid(b["K8sClient"], clock)
    BY <2>4, <2>5 DEF Valid
  <2> QED
    BY <2>2, <2>3, <2>4, <2>6 DEF Accepts, Kubeconfig, ToTar, Pair
<1> QED
  BY <1>1, Invariant, PTL

\* The authorities on a master are complete, each with its own key, and no two
\* of them the same (masterUserdata).
THEOREM MastersStart == Spec => []MasterStarts
<1>1. IInv => MasterStarts
  <2> SUFFICES ASSUME IInv, NEW m \in Masters, pki[m] # None
               PROVE  /\ Pair(pki[m].etcdCrt, pki[m].etcdKey)
                      /\ Pair(pki[m].caCrt, pki[m].caKey)
                      /\ Pair(pki[m].frontCrt, pki[m].frontKey)
                      /\ Cardinality({pki[m].etcdKey, pki[m].caKey, pki[m].frontKey}) = 3
    BY DEF MasterStarts
  <2>1. PICK g \in Managers, b \in [Fields -> Values] : IsBundleOf(b, g) /\ Derived(b)
    BY Stored DEF IInv, NothingOut
  <2>2. pki[m] = ToTar(b)
    BY <2>1 DEF Derived
  <2>3. /\ Pair(b["Etcd"], b["EtcdKey"]) /\ Pair(b["K8s"], b["K8sKey"])
        /\ Pair(b["FrontProxy"], b["FrontProxyKey"])
    BY <2>1, BundleSome DEF IsBundleOf, Certifies, KeyField, Pair
  <2>4. b["EtcdKey"] = <<g, 2>> /\ b["K8sKey"] = <<g, 1>> /\ b["FrontProxyKey"] = <<g, 3>>
    BY <2>1 DEF IsBundleOf
  <2> DEFINE One == {b["EtcdKey"]}
             Two == One \cup {b["K8sKey"]}
             Three == Two \cup {b["FrontProxyKey"]}
  <2>5. IsFiniteSet(One) /\ Cardinality(One) = 1
    BY FS_Singleton
  <2>6. b["K8sKey"] \notin One
    BY <2>4
  <2>7. b["FrontProxyKey"] \notin Two
    BY <2>4
  <2> HIDE DEF One
  <2>8. IsFiniteSet(Two) /\ Cardinality(Two) = 2
    <3>1. IsFiniteSet(Two) /\ Cardinality(Two) = Cardinality(One) + 1
      BY <2>5, <2>6, FS_AddElement
    <3> QED
      BY <2>5, <3>1
  <2> HIDE DEF Two
  <2>9. Cardinality(Three) = 3
    <3>1. Cardinality(Three) = Cardinality(Two) + 1
      BY <2>7, <2>8, FS_AddElement
    <3> QED
      BY <2>8, <3>1
  <2>10. Three = {b["EtcdKey"], b["K8sKey"], b["FrontProxyKey"]}
    BY DEF One, Two
  <2> QED
    BY <2>2, <2>3, <2>9, <2>10 DEF ToTar
<1> QED
  BY <1>1, Invariant, PTL

\* A worker recognises the API server that the cluster's status named, whichever
\* master the kubeconfig in the secret names, and a master that has been
\* replaced since included (workerUserdata).
THEOREM WorkersTrust == Spec => []WorkerTrusts
<1>1. IInv => WorkerTrusts
  <2> SUFFICES ASSUME IInv, NEW w \in Workers, hash[w] # None, pki[hash[w].server] # None
               PROVE  /\ hash[w].pub = pki[hash[w].server].caCrt.pub
                      /\ pki[hash[w].server].caKey = hash[w].pub
    BY DEF WorkerTrusts
  <2>1. PICK g \in Managers, b \in [Fields -> Values] : IsBundleOf(b, g) /\ Derived(b)
    BY Stored DEF IInv, NothingOut
  <2>2. /\ hash[w].pub = b["K8s"].pub /\ hash[w].server \in Masters
    BY <2>1 DEF Derived, CertHash
  <2>3. pki[hash[w].server] = ToTar(b)
    BY <2>1, <2>2 DEF Derived
  <2>4. b["K8s"].pub = b["K8sKey"]
    BY <2>1 DEF IsBundleOf, Certifies
  <2> QED
    BY <2>2, <2>3, <2>4 DEF ToTar
<1> QED
  BY <1>1, Invariant, PTL

=============================================================================
