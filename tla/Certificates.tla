----------------------------- MODULE Certificates -----------------------------
(***************************************************************************)
(* The certificates of a managed cluster (pkg/cert) and their way: the     *)
(* cluster controller makes a bundle of certificate authorities and one    *)
(* client certificate and stores it in the secret; the machine controller  *)
(* takes it out of the secret again, puts authorities into the userdata of *)
(* a master and their fingerprint into the userdata of a worker, and the   *)
(* client certificate into a kubeconfig, which it stores in the secret.    *)
(* The address a worker is sent to is none of the secret's: it is the API  *)
(* endpoint in the cluster's status, which another write sets, and which   *)
(* the cluster controller can erase.                                       *)
(*                                                                         *)
(* A private key is named after its manager and its place in the bundle:   *)
(* of the bundles of one manager at most one is stored.  An encoding loses *)
(* nothing of a key or a certificate.                                      *)
(***************************************************************************)
EXTENDS Naturals, Sequences, FiniteSets

CONSTANTS
    Managers, Masters, Workers,
    None,
    Year,      \* ticks to a year
    MaxTime,   \* bound on the clock
    MaxRev,    \* bound on the versions of the secret
    MaxFaults  \* bound on failed requests, and on keys removed from the secret

ASSUME BoundsAssumption == Year \in Nat \ {0} /\ {MaxTime, MaxRev, MaxFaults} \subseteq Nat

(***************************************************************************)
(* Certificates and bundles                                                *)
(***************************************************************************)
Fields == {"Root", "RootKey", "K8s", "K8sKey", "Etcd", "EtcdKey",
           "FrontProxy", "FrontProxyKey", "K8sClient", "K8sClientKey"}
KeyField == [Root |-> "RootKey", K8s |-> "K8sKey", Etcd |-> "EtcdKey",
             FrontProxy |-> "FrontProxyKey", K8sClient |-> "K8sClientKey"]
MapKey == [Root |-> "root.crt", RootKey |-> "root.key", K8s |-> "ca.crt", K8sKey |-> "ca.key",
           Etcd |-> "etcd.crt", EtcdKey |-> "etcd.key",
           FrontProxy |-> "front-proxy.crt", FrontProxyKey |-> "front-proxy.key",
           K8sClient |-> "k8s-client.crt", K8sClientKey |-> "k8s-client.key"]
MapKeys == {MapKey[f] : f \in Fields}

EmptyBundle == [f \in Fields |-> None]

\* The order in which NewCABundle makes them.
Order == <<"Root", "K8s", "Etcd", "FrontProxy", "K8sClient">>

\* For a mutant: the client, too, by the root authority.
SignedByRoot == [Root |-> "RootKey", K8s |-> "RootKey", Etcd |-> "RootKey",
                 FrontProxy |-> "RootKey", K8sClient |-> "RootKey"]

\* Whose key signs.
SignedBy == [Root |-> "RootKey", K8s |-> "RootKey", Etcd |-> "RootKey",
             FrontProxy |-> "RootKey", K8sClient |-> "K8sKey"]

FromCATemplate(now) ==
    [org |-> "Samsung CNCT", use |-> {"server", "client"}, until |-> now + 10 * Year]

FromCertTemplate(now, org, server, client) ==
    [org |-> org, until |-> now + Year,
     use |-> {u \in {"server", "client"} : (u = "server" /\ server) \/ (u = "client" /\ client)}]

Sign(template, pub, by) ==
    [org |-> template.org, use |-> template.use, until |-> template.until, pub |-> pub, by |-> by]

\* A private key is known by who has made it and the place in its bundle.
Keys == Managers \X (0 .. 4)
Certs == [org : {"Samsung CNCT", "system:masters"}, use : SUBSET {"server", "client"},
          until : 0 .. MaxTime + 10 * Year, pub : Keys, by : Keys]

\* One more certificate with its key, for the bundle b.
Extend(b, cert, key, now) ==
    LET own == [b EXCEPT ![KeyField[cert]] = key]
        template == IF cert = "K8sClient"
                    THEN FromCertTemplate(now, "system:masters", FALSE, TRUE)
                    ELSE FromCATemplate(now)
    IN  [own EXCEPT ![cert] = Sign(template, key, own[SignedBy[cert]])]

\* For a mutant: a missing key is skipped.
CABundleFromPart(m) ==
    [f \in Fields |-> IF MapKey[f] \in DOMAIN m THEN m[MapKey[f]] ELSE None]

\* Each key's value is put into its field; an error when a key is missing.
CABundleFromMap(m) ==
    IF MapKeys \subseteq DOMAIN m THEN [f \in Fields |-> m[MapKey[f]]] ELSE None

MergeWithMap(b, m) ==
    [k \in MapKeys \cup DOMAIN m |->
        IF k \in MapKeys THEN b[CHOOSE f \in Fields : MapKey[f] = k] ELSE m[k]]

\* The files etcd/ca.*, ca.* and front-proxy-ca.*.
ToTar(b) ==
    [etcdCrt |-> b["Etcd"], etcdKey |-> b["EtcdKey"], caCrt |-> b["K8s"], caKey |-> b["K8sKey"],
     frontCrt |-> b["FrontProxy"], frontKey |-> b["FrontProxyKey"]]

Kubeconfig(b, server) ==
    [server |-> server, ca |-> b["K8s"], cert |-> b["K8sClient"], key |-> b["K8sClientKey"]]

Kubeconfigs == [server : Masters, ca : Certs, cert : Certs, key : Keys]
Kube == "kubernetes.kubeconfig"

\* None stands for the absence of a key, a certificate or a secret's data.
ASSUME NoneAssumption ==
    /\ None \notin Keys \cup Certs
    /\ \A K \in SUBSET (MapKeys \cup {Kube}) : None \notin [K -> Keys \cup Certs \cup Kubeconfigs]

\* workerUserdata: the hash of the authority's public key.
CertHash(b) == b["K8s"].pub

(***************************************************************************)
(* State                                                                   *)
(***************************************************************************)
VARIABLES
    clock,
    making,   \* what each manager has made of a new bundle
    stored,   \* the managers that have stored one and not yet written the status
    secret,   \* the secret's data: None, or a function on the keys it has
    rev,      \* its resource version
    copy,     \* the secret as create() has read it for a master, and its version
    publish,  \* the masters whose kubeconfig is stored and whose address is not
    endpoint, \* the cluster's status.apiEndpoint
    seen,     \* what a worker's create() has read of it
    pki,      \* the certificates on a master, those of its API server included
    hash,     \* the fingerprint given to a worker
    faults

cluster == <<stored, publish, endpoint, seen>>
vars == <<clock, making, secret, rev, copy, cluster, pki, hash, faults>>

Init ==
    /\ clock = 0
    /\ making = [g \in Managers |-> [made |-> 0, bundle |-> EmptyBundle]]
    /\ secret = None /\ rev = 0
    /\ stored = {} /\ publish = {} /\ endpoint = None
    /\ seen = [w \in Workers |-> None]
    /\ copy = [m \in Masters |-> None] /\ pki = [m \in Masters |-> None]
    /\ hash = [w \in Workers |-> None]
    /\ faults = 0

Fault == faults < MaxFaults /\ faults' = faults + 1
NoFault == UNCHANGED faults

Put(data) == rev < MaxRev /\ secret' = data /\ rev' = rev + 1

HasKube == secret # None /\ Kube \in DOMAIN secret

(***************************************************************************)
(* The cluster controller                                                  *)
(***************************************************************************)

\* A step of NewCABundle.  Any of them can fail, and nothing is kept.
NewCABundle(g) ==
    LET made == making[g].made
    IN  /\ made < Len(Order)
        /\ \/ /\ NoFault
              /\ making' = [making EXCEPT ![g] =
                    [made |-> made + 1,
                     bundle |-> Extend(making[g].bundle, Order[made + 1], <<g, made>>, clock)]]
           \/ /\ made > 0 /\ Fault
              /\ making' = [making EXCEPT ![g] = [made |-> 0, bundle |-> EmptyBundle]]
        /\ UNCHANGED <<clock, secret, rev, copy, cluster, pki, hash>>

\* Bug: the secret another manager has created is replaced.
CreateOrReplaceSecrets(g) ==
    /\ making[g].made = Len(Order)
    /\ Put(MergeWithMap(making[g].bundle, <<>>))
    /\ making' = [making EXCEPT ![g] = [made |-> 0, bundle |-> EmptyBundle]]
    /\ NoFault /\ UNCHANGED <<clock, copy, cluster, pki, hash>>

\* A plain Create: it fails when the secret exists, and the bundle is lost.
CreateClusterSecrets(g) ==
    /\ making[g].made = Len(Order)
    /\ \/ secret = None /\ Put(MergeWithMap(making[g].bundle, <<>>)) /\ stored' = stored \cup {g}
       \/ secret # None /\ UNCHANGED <<secret, rev, stored>>
    /\ making' = [making EXCEPT ![g] = [made |-> 0, bundle |-> EmptyBundle]]
    /\ NoFault /\ UNCHANGED <<clock, copy, publish, endpoint, seen, pki, hash>>

\* The phase, and with it the endpoint of a copy that is older than the secret:
\* none.  The write is refused when the cache does not show the newest cluster,
\* fails, or is never made, and is not repeated: the next reconcile finds a secret.
UpdateStatus(g) ==
    /\ g \in stored /\ stored' = stored \ {g}
    /\ endpoint' \in {None, endpoint}
    /\ NoFault /\ UNCHANGED <<clock, making, secret, rev, copy, publish, seen, pki, hash>>

(***************************************************************************)
(* The machine controller                                                  *)
(***************************************************************************)

\* getSecret, and the userdata: kubeadm finds the authorities in its
\* directory and makes what else it needs from them, for a year.
MasterUserdata(m) ==
    /\ secret # None /\ pki[m] = None
    /\ LET b == CABundleFromMap(secret)
       IN  /\ b # None
           /\ pki' = [pki EXCEPT ![m] = ToTar(b)]
           /\ copy' = [copy EXCEPT ![m] = [data |-> secret, rev |-> rev]]
    /\ NoFault /\ UNCHANGED <<clock, making, secret, rev, cluster, hash>>

\* The bundle is read again from the copy; the Update fails on a conflict.
\* Then, or when the manager dies, the system stays allocated, and the machine
\* is created anew on another.
CreateKubeconfig(m) ==
    /\ copy[m] # None
    /\ \/ /\ copy[m].rev = rev /\ NoFault
          /\ Put([k \in DOMAIN copy[m].data \cup {Kube} |->
                    IF k = Kube THEN Kubeconfig(CABundleFromMap(copy[m].data), m)
                    ELSE copy[m].data[k]])
          /\ publish' = publish \cup {m}
       \/ /\ IF copy[m].rev = rev THEN Fault ELSE NoFault
          /\ UNCHANGED <<secret, rev, publish>>
    /\ copy' = [copy EXCEPT ![m] = None]
    /\ UNCHANGED <<clock, making, stored, endpoint, seen, pki, hash>>

\* The master's address becomes the cluster's endpoint; a conflict, when the
\* cache does not show the newest cluster, and any other error release its system.
UpdateCluster(m) ==
    /\ m \in publish /\ publish' = publish \ {m}
    /\ \/ endpoint' = m /\ UNCHANGED pki
       \/ UNCHANGED endpoint /\ pki' = [pki EXCEPT ![m] = None]
    /\ NoFault /\ UNCHANGED <<clock, making, secret, rev, copy, stored, seen, hash>>

(***************************************************************************)
(* Who meets whom                                                          *)
(***************************************************************************)
Valid(cert, now) == now < cert.until
Pair(cert, key) == cert # None /\ key # None /\ cert.pub = key

\* The client trusts an API server whose certificate is signed with the key of
\* the authority in the kubeconfig; the API server takes a client whose
\* certificate is signed by its own authority.
Accepts(k, now) ==
    LET p == pki[k.server]
    IN  /\ p # None
        /\ k.ca # None /\ p.caKey = k.ca.pub /\ Valid(k.ca, now)
        /\ Pair(k.cert, k.key)
        /\ k.cert.by = p.caCrt.pub /\ Valid(p.caCrt, now)
        /\ "client" \in k.cert.use /\ k.cert.org = "system:masters"
        /\ Valid(k.cert, now)

\* The cluster is read when a worker's create() starts, again in each attempt,
\* from a cache; what it shows was the endpoint then or before.
GetCluster(w) ==
    /\ hash[w] = None /\ endpoint # None /\ seen' = [seen EXCEPT ![w] = endpoint]
    /\ NoFault /\ UNCHANGED <<clock, making, secret, rev, copy, stored, publish, endpoint, pki, hash>>

\* A worker needs a token, and the manager the API server for it: that of the
\* kubeconfig.  The worker is sent to the one the cluster's status names.
WorkerUserdata(w) ==
    /\ HasKube /\ hash[w] = None
    /\ Accepts(secret[Kube], clock) /\ seen[w] # None
    /\ LET b == CABundleFromMap(secret)
       IN  b # None /\ hash' = [hash EXCEPT ![w] = [pub |-> CertHash(b), server |-> seen[w]]]
    /\ NoFault /\ UNCHANGED <<clock, making, secret, rev, copy, cluster, pki>>

\* A user takes a key out of the secret.
RemoveKey(k) ==
    /\ secret # None /\ k \in DOMAIN secret \cap MapKeys
    /\ Fault /\ Put([x \in DOMAIN secret \ {k} |-> secret[x]])
    /\ UNCHANGED <<clock, making, copy, cluster, pki, hash>>

\* A machine is deleted, its system released; one left allocated, by hand.
DeleteMaster(m) ==
    /\ pki[m] # None /\ copy[m] = None /\ m \notin publish
    /\ pki' = [pki EXCEPT ![m] = None]
    /\ NoFault /\ UNCHANGED <<clock, making, secret, rev, copy, cluster, hash>>

Tick ==
    /\ clock < MaxTime /\ clock' = clock + 1
    /\ UNCHANGED <<making, secret, rev, copy, cluster, pki, hash, faults>>

Next ==
    \/ \E g \in Managers : NewCABundle(g) \/ CreateClusterSecrets(g) \/ UpdateStatus(g)
    \/ \E m \in Masters :
          MasterUserdata(m) \/ CreateKubeconfig(m) \/ UpdateCluster(m) \/ DeleteMaster(m)
    \/ \E w \in Workers : GetCluster(w) \/ WorkerUserdata(w)
    \/ \E k \in MapKeys : RemoveKey(k)
    \/ Tick

Spec == Init /\ [][Next]_vars

(***************************************************************************)
(* Properties                                                              *)
(***************************************************************************)

\* createKubeconfig: for the first year of a cluster, whoever takes the
\* kubeconfig out of the secret is accepted by the master it names, and trusts
\* it, however managers raced and whichever master is replaced.
KubeconfigWorks ==
    HasKube /\ clock < Year /\ pki[secret[Kube].server] # None
        => Accepts(secret[Kube], clock)

\* masterUserdata: the authorities on a master are complete, each with its
\* own key, and no two of them the same; kubeadm refuses others.
MasterStarts ==
    \A m \in Masters : pki[m] # None =>
        /\ Pair(pki[m].etcdCrt, pki[m].etcdKey)
        /\ Pair(pki[m].caCrt, pki[m].caKey)
        /\ Pair(pki[m].frontCrt, pki[m].frontKey)
        /\ Cardinality({pki[m].etcdKey, pki[m].caKey, pki[m].frontKey}) = 3

\* workerUserdata: a worker recognises the API server it is sent to, although
\* the fingerprint is the secret's and the address the cluster's, which may be
\* another master than the kubeconfig's, or one that has been replaced since.
WorkerTrusts ==
    \A w \in Workers : hash[w] # None =>
        LET p == pki[hash[w].server] IN p # None => hash[w].pub = p.caCrt.pub /\ p.caKey = hash[w].pub

=============================================================================
