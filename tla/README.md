# A TLA+ model of cma-ssh

cma-ssh is a Kubernetes operator. Users post a `CnctCluster` and some
`CnctMachine`s in a namespace; the operator allocates bare-metal systems from
MAAS, boots them with cloud-init userdata that runs `kubeadm`, stores the
kubeconfig of the managed cluster in the secret `cluster-private-key`, and
tears everything down again. Machine sets keep a number of workers, app bundles
install software on the managed cluster, and a gRPC server with a REST gateway
does what users would do with `kubectl`. This directory holds a model of the
four controllers, the API and the start-up, with the model-checking runs and
machine-checked proofs about it.

A run is `tlc -config <file>.cfg <module>`, with the names of `PROJECT.json`;
the proofs are checked with `tlapm <module>.tla` for the modules `*Proofs`.

## 1. Inventory

| Component | State | Operations | Interacts with | Correct when |
|---|---|---|---|---|
| Machine controller, `pkg/controller/machine` | none of its own but the local variables of a reconcile; everything is in the objects | `Reconcile`: `create`, `handleWaitingForReady`, `handleDelete` | informer caches (reads), API server (writes), MAAS, the managed cluster's API | a machine gets one system, keeps it, and gives it back before it is gone |
| Cluster controller, `pkg/controller/cluster` | the cluster's phase and endpoint, the secret | `Reconcile`: claim machines, create the secret, move the phase, delete the secret | the same cluster, machines and secret as the machine controller | a cluster proceeds to Running; the secret outlives the machines, and goes |
| MAAS client, `pkg/maas` | none | `Create` (allocate, start), `Delete` (release) | MAAS region | no system is lost or given away while in use |
| Machine set controller, `pkg/controller/machineset` | replicas, status, finalizer of a set | scale up and down, adopt, status | creates and deletes machines | the number of machines converges to the replicas; one owner each |
| App bundle controller, `pkg/controller/appbundle` | phase of a bundle | install on the managed cluster | managed cluster's API | installed once, after the cluster is Running |
| gRPC API, `internal/apiserver` | none | create, get, list, delete, upgrade clusters; add, delete, scale pools | writes all objects, reads the caches | a call is done, or can be repeated; an answer is true |
| Gateway, `pkg/generated/api/api.pb.gw.go` | a handler and a context for each HTTP request | decode, call, translate; cancel when the client leaves | gRPC API, clients | a 200 tells of something done; nothing goes on for ever |
| Kubeconfig and certificates, `pkg/cert` | the bundle in the secret | make a bundle, store it, read it, write userdata and kubeconfig | cluster and machine controllers, `kubeadm` | whoever meets accepts each other |
| Image matching, `images.go` | none | list the images of MAAS, parse their names, choose one | MAAS, machine controller | (see "Not modelled") |
| Start-up, `cmd/cma-ssh` | the goroutines of a process | install resource definitions, discover, register, run, stop | API server, other processes | controllers run when they can be served, and stop |
| API types, `pkg/apis` | the objects | | all of the above | |
| Utilities, `pkg/util`; webhook, version, web pages, generated messages | none | | | (see "Not modelled") |

What is hard in this code:

- **Stale reads.** Reads come from informer caches that lag behind the API
  server by any amount, kind by kind; a reconcile may not see what the one
  before it wrote.
- **Optimistic concurrency.** Every `Update` may meet a conflict, in the middle
  of a sequence that has already allocated a system or stored a secret.
- **External effects before the record.** A system is allocated and booted
  before the machine that owns it says so.
- **Two controllers, users and the garbage collector** write the same objects.
- **Crashes**, among them the panic after a system without an address.
- **Parallel work inside a step**: deletions counted by a `WaitGroup`,
  evictions whose goroutines nobody waits for, a web server and a manager side
  by side, gRPC handlers without a lock.
- **Several managers.** There is no leader election, so during a rolling update
  two processes do everything twice, each from its own caches.
- **Sequences that are not undone.** `CreateCluster`, `DeleteCluster`, the pools
  and the app bundles are several requests each; one fails, a client leaves, or
  another call comes in between.
- **Time**: tokens that expire while a system boots, certificates that end
  before the cluster does, waits for a cache that end too early.
- **Liveness without events.** The work that is left when the cluster is gone
  depends on retries.

`PROJECT.json` lists these hazards one by one, with their lines and the
properties aimed at them.

## 2. Modules

| Module | Models | EXTENDS |
|---|---|---|
| `KubeAPI` | objects, informer caches, resourceVersions | |
| `Maas` | the pool, deployed systems, the APIs and nodes of managed clusters, faults | `KubeAPI` |
| `MachineController` | `pkg/controller/machine` | `Maas` |
| `ClusterController` | `pkg/controller/cluster` | `Maas` |
| `Operator` | both controllers with informers, users, garbage collector, booting systems and crashes; all properties | both controllers |
| `MachineLifecycle` | abstract: the stages of a machine's life and its system | |
| `MCOperator`, `MCCertificates` | instances for TLC | `Operator`, `Certificates` |
| `MachineSet` | `pkg/controller/machineset`: one set, its worker, the machines, and who else writes them | |
| `ApiServer` | `internal/apiserver`: handlers that run at the same time | |
| `Gateway` | the REST gateway and its clients, composed with the handlers | `ApiServer` |
| `AppBundle` | `pkg/controller/appbundle` in several managers, on the managed clusters | |
| `Drain` | what `handleDelete` does with a node and its pods | |
| `JoinToken` | bootstrap tokens, `create.go` | |
| `Certificates` | `pkg/cert` and the way of a bundle through the secret to masters, workers and users | |
| `Startup` | `cmd/cma-ssh`: processes from their start to their end | |
| `OperatorProofs`, `MachineSetProofs`, `GatewayProofs` | theorems | `Operator`, `MachineSet`, `Gateway` |
| `AppBundleProofs`, `DrainProofs`, `JoinTokenProofs`, `CertificatesProofs`, `StartupProofs` | theorems | `AppBundle`, `Drain`, `JoinToken`, `Certificates`, `Startup` |

The two controllers that provision share every object they write, so `Operator`
composes them, and `Gateway` composes clients, the REST handlers and the gRPC
handlers whose contexts they cancel. The other modules each take one part of
the program with all that shares state with it; what another controller does to
that state is an action named for it (`ClaimByCluster` for a set, `Provisioned`
and `Runs` for app bundles, `ClusterAdvances` for the API).

### State and code

- `machine`, `cluster`, `secret` are what the API server stores; `mcache`,
  `ccache`, `scache` what the informers hold. A machine's fields are
  `status.phase`, `status.systemId` (`sys`), the finalizer (`fin`), the
  deletion timestamp (`del`) and whether it has a controller owner (`owned`).
  `secret.kube` is the system whose address the kubeconfig names, and
  `cluster.endpoint` the one in `status.apiendpoint`.
- **resourceVersions** are compared only with the current one, so `mcur`,
  `ccur` and `scur` hold, for each object, who has a current copy: the cache,
  the machine worker or the cluster worker. A write empties the set, a read
  through the cache copies the cache's membership, and an `Update` succeeds when
  its holder is still in the set. This keeps the state finite with no bound on
  the number of writes. Storing an object that is equal to the stored one counts
  as a write except for the secret, where `CreateKubeconfig` models that the API
  server does not bump the version.
- `used`, `boot`, `apiUp`, `nodes` are MAAS and what it boots. A system's
  address is named by its id.
- `mw` and `cw` are the two workers (`MaxConcurrentReconciles` is 1) with the
  local variables of the reconcile in progress; `mw.pc` names the next call. A
  reconcile is cut at each call that reads or writes shared state after an
  earlier one whose result it uses; consecutive cached reads with no effect in
  between (`getCluster` ... `prepareMaasRequest`, the reads of `handleDelete`)
  are one step.
- `queue` and `cq` are the work queues. An error and a `RequeueAfter` alike put
  the name back; delays and back-off are not modelled, since a retry may come
  at any time.

### Actions

| Action | Code |
|---|---|
| `GetMachine`, `MarkDeleting` | `Reconcile` up to its switch |
| `PrepareCreate` | `getCluster` to `prepareMaasRequest`; for workers the check that the managed API answers and an endpoint is set |
| `Allocate`, `Start` | `maas.Client.Create`, with the release after a failed start |
| `ReleaseWithoutAddress` | `doMaasCreate` without an address: the release returns nil, so `create` goes on to `IPAddresses[0]` and panics |
| `CreateKubeconfig`, `UpdateCluster`, `UpdateMachine` | the methods of these names |
| `Release`, `Fail` | `Reconcile` on a `releaseError`, an `unrecoverableError` |
| `WaitForReady` | `handleWaitingForReady`, which deletes the machine when there is no secret |
| `HandleDelete`, `DeleteNode`, `Unprovision`, `RemoveFinalizer` | `handleDelete`, `deleteMachine` |
| `ReconcileCluster`, `Claim`, `CreateClusterSecrets`, `UpdateStatus`, `CheckServices`, `NothingToReconcile` | cluster `Reconcile` with the cluster there |
| `ReconcileClusterGone`, `DeleteSecret` | with the cluster gone |
| `Refresh*`, `Resync`, `Collect*`, `Boot`, users | the environment, as the code uses it |
| `Restart` | a crash, or the panic, and a new manager from synced caches |

In the other modules:

| Module | State | Actions and code |
|---|---|---|
| `MachineSet` | the set and each machine with the versions the caches show; the worker's copies, its list, what it still has to create, delete or wait for | `Read`, `AddFinalizer`, adoption, `syncReplicas`, each creation, each parallel deletion, `wg.Wait`, the polls, the status with its fresh read: the steps of `Reconcile` in their order |
| `ApiServer` | the namespace, the cluster, the secret, the machine sets with their caches; each handler's step and what it has read | one action for each request of a handler; the handler's error returns are its second disjuncts |
| `Gateway` | for each request its stage, whether the client has left, whether the cancellation has arrived | `ServeHTTP`, `AnnotateContext`, `CallServer`, `Forward` as in the generated handlers; `CancelledWrite` is the next request of a handler whose context has ended |
| `AppBundle` | the bundles and the cluster with each manager's caches, the objects on each managed cluster, the workers | `GetPart` and `CreatePart` are the Get and the Create of `createNamespace`, `createServiceAccount`, `createClusterRoleBinding`, `createInstallJob`, in this order; `WritePhase` is the Update |
| `Drain` | where each pod runs, the reconcile's list, each eviction's goroutine and the channel | `GetNode`, `Cordon`, `GetPodsForDeletion`, evictions or deletions, the polls, `DeleteNode`, `ReleaseSystem` |
| `JoinToken` | the tokens with the time they have left, each manager's token in hand, each system's token | `checkIfTokenExists`, `createToken`, `checkApiserverAddress`, the start of the system, `kubeadm join` |
| `Certificates` | bundles in the making, the secret with the kubeconfig, the cluster's endpoint and what a worker has read of it, what masters and workers were given, time | `NewCABundle` certificate by certificate, the Create of the secret, `UpdateStatus`, `MasterUserdata`, `CreateKubeconfig`, `UpdateCluster`, `GetCluster`, `WorkerUserdata` |
| `Startup` | each process's step, what its mapper knows, its goroutines; the definitions | `installCrdsIfNotFound` request by request, `manager.New`, the registration, the two goroutines, signals |

### Abstractions

- An informer delivers all changes of its kind at once; kinds are delivered
  independently. The cluster has one name and, once deleted, is not posted
  again. Machines may be posted again under a name used before.
- While the cluster is gone and machines are left, the cluster's request is put
  back every second; this changes nothing, so `ReconcileClusterGone` simply
  waits for the cache to be empty.
- The cluster worker's dequeue and its first read are one step; for the machine
  worker they are two, since an event between them matters (`Dequeue`).
- A registered node is taken to be ready: a node that is not yet ready is a
  retry, like one that is not registered.
- Bootstrap tokens, pods and their eviction and certificates are no state of
  `Operator`; they have modules of their own. Versions and labels decide
  nothing. `handleUpgrade`, `updateStatus` of the machine controller
  and the phase `Upgrading` are dead code and left out.
- Faults (`Faults`) are of the kinds `crash`, `start` (a failed deployment),
  `noip`, `release` (a failed release, which the client swallows), `images` and
  `api` (a managed API server that does not answer). `MaxFaults` bounds their
  number in a run.
- `MachineSet` delivers every version of an object in order, since the wait for
  a creation and the count depend on how far the cache is behind. `CreateMachine`
  takes any free name for the one that the API server generates.
- In `ApiServer` only existence, phase and the currency of copies are kept of an
  object. Requests carry the pools they name; counts, types and labels decide
  nothing. A fault is a request that fails and does nothing.
- In `Drain` a pod made again under its name has another UID and another node.
  A pod is guarded when a disruption budget refuses its eviction for a while.
- `JoinToken` counts time in ticks: `Lifetime` is the hour a token lives,
  `Margin` the 30 minutes it must have left, `JoinLimit` what a worker takes
  from the look-up of the token to `kubeadm join`.
- In `Certificates` a key is its name and a signature names the key that signed:
  that the encodings lose nothing is assumed, and that nobody else has a key.

## 3. Runs

Twelve runs, one for each question asked of the system. Each takes about
three minutes or less with two workers. Deadlock is not checked, because the system may
be at rest: all machines are Ready or gone and no user acts, a set has its
replicas, clients call no more.

| Run | Instance | Properties |
|---|---|---|
| `op_records` | a master and a worker, 2 systems, 1 fault of any kind, edits of the cluster | `RecordedSystemsHeld`, `KubeconfigForEndpoint`, `EndpointStays`, `LeaksOnlyAtKubeconfig` |
| `op_stages` | a master, 1 system, every user operation but foreground deletion, any number of times, resyncs | `IInv`, `Lifecycle`, `OwnerKept` |
| `teardown` | a master, 1 system, cluster deletion of both kinds, 1 fault (a crash at any moment or a failed release); fair | `SecretDeletedLast`, `MachinesCollected`, `SecretCollected` |
| `ms_scale` | 4 names, sizes 0 and 2, 2 user operations, 1 fault (a failed update or delete, a crash); fair | `CreatesOnlyIfTooFew`, `Converges` |
| `ms_collect` | 2 names, an orphan, 2 user operations, 1 fault (a failed creation, another failed call, an expired wait, a crash), the set is deleted at any moment; fair | `FinalizerFirst`, `OneController`, `SetCollected`, `StatusConverges` |
| `api_calls` | 2 handlers, 3 calls of every kind, 1 pool, 1 failed request, lagging caches | `TypeOK`, `NoLeftovers`, `DeletedMeansGone` |
| `gw_retries` | 2 clients, 2 calls, 1 fault, 1 client that leaves; fair | `SingleControlPlane`, `OkMeansMade`, `HandlersEnd` |
| `app_race` | 2 managers, 1 bundle, 2 managed clusters, 1 change, 1 fault; fair | `TypeOK`, `AccountBeforeJob`, `InstalledHasJob`, `InstalledInTheEnd` |
| `drain_drain` | 2 pods, one guarded, 2 refusals, 2 moves, 1 fault, with and without evictions; fair | `DrainInv`, `DeletedAreGone`, `NoneOverlooked`, `DeletionEnds` |
| `token_tokens` | 2 managers, 2 workers, 3 tokens, 2 faults; fair | `TypeOK`, `NoneRefused`, `FewTokens`, `AllJoin` |
| `start_race` | 2 processes, 1 signal, 1 fault; fair | `RunningIsServed`, `AllRun`, `ListsSettle` |
| `cert_bundle` | 2 managers, 2 masters, 1 worker, 2 moments of the first year, 3 versions of the secret, 1 fault | `KubeconfigWorks`, `MasterStarts`, `WorkerTrusts` |

The first three use `MCOperator`, which names the model values and the symmetry of
systems; `cert_bundle` uses `MCCertificates`. It takes managers and masters for
interchangeable, which the invariants it checks do not tell apart, and its view
leaves out the content of bundles still being made once a secret is stored: the
Create that would store one is refused then, and the secret never goes. The
others use the module of their component.

### Bounds

- In `Operator` the state is finite without a bound on steps, writes or user
  operations; `MaxFaults` is the only bound. Two machines and two systems are
  the least with which a system can be given to the wrong machine, a second one
  allocated for the same machine, and a worker join a master. `op_stages` has
  one machine and no faults but every user operation without end, `op_records`
  every fault: what they check apart is proved for any machines, users and
  faults together (section 4).
- In the other modules each race is between two handlers, managers or processes
  and needs one repetition or one fault of one of them. Four names of machines
  let a set of two be replaced completely while its deleted machines are still
  there. Two pods are the least of which one can be waited for while another is
  lost. Three tokens are one left by `kubeadm init` and one for each manager.
- The faults of a machine set are of the kinds `create` (a failed creation),
  `wait` (ten seconds pass before the cache shows what was done), `call` (any
  other failed request) and `crash`. `ms_scale` has the last two only, since
  `CreatesOnlyIfTooFew` is not true after the first two; `ms_collect` has all.
- `MaxUser`, `MaxCalls`, `MaxGiveUps`, `MaxChanges`, `MaxSignals`, `MaxFaults`
  and the clock bounds count what the environment does, never what the program
  does. The names of a machine set may run out where the API server's would
  not: `StatusConverges` excepts that state.

### Properties worth a word

- `RecordedSystemsHeld`: no `releaseError` or crash gives back a system that a
  machine still records, and no two machines share one. It is checked without
  deletions by users: with them the code does violate it (see below).
- `LeaksOnlyAtKubeconfig`: a reconcile that has allocated a system has recorded
  or released it when it ends or panics, whatever failed on the way, except
  where the secret could not be updated, the release itself failed, or the
  manager died.
- `Lifecycle`: the whole operator implements `MachineLifecycle` under the
  mapping `StageOf`. A stale copy never undoes a later stage.
- `KubeconfigForEndpoint`: workers are sent to the cluster's endpoint and the
  controllers go by the kubeconfig, which are two writes to two objects. No
  write of the endpoint makes them name different servers; `createKubeconfig`
  does, between its own write and `updateCluster`, when it stores that of a
  master whose first system was released.
- `EndpointStays`: `updateStatus` writes what was read when its reconcile began,
  and still no endpoint is erased once the first phase is over. It holds because
  the first phase is written by the reconcile that created the secret, of which
  there is one.
- `SecretDeletedLast`, `SecretCollected`: the secret goes after the last
  machine, and it does go, although no event tells of it: the request for the
  cluster is put back until then. The premise is that the manager has seen the
  cluster living (its cache does still) and its cache shows the secret, after the
  last fault: a crash before the end of the cluster is in the run, and a manager
  that starts after it, to which nothing tells of the secret, is excepted. A
  behaviour without a fault is covered as one with a crash in the initial state,
  which changes nothing else.
- `CreatesOnlyIfTooFew` compares what the controller does from its caches with
  the machines there really are; the waits for the cache are what makes it hold.
- `OneController`: two controllers adopt the same orphan from stale copies; the
  version check of the API server decides, and nothing overwrites the winner.
- `NoLeftovers`: a namespace comes to be without its cluster, and without a
  call that would still make or remove it, only where one of four things
  happens: a write of `CreateCluster` or `DeleteCluster` fails, or the read of
  the namespace fails or does not show it. No race of calls for the name does it.
- `OkMeansMade`: a client that is told 200 has its cluster, although the same
  name has been tried by others whose handlers were cancelled half-way.
- `WorkerTrusts`: the address a worker is sent to is the cluster's endpoint as
  `create` read it, which may be another master than the one the kubeconfig
  names, or one replaced since; the fingerprint is the secret's.
- `NoneRefused` is about workers that join within `JoinLimit`, which the FIXME
  at `create.go:191` asks for: it shows that the margin is enough, whatever is
  retried in between, and not that systems boot in time.
- `ListsSettle`: a list may leave out a cluster while a restarted process fills
  its caches, but not for ever.
- `KubeconfigWorks` is about the first year of a cluster, after which the client
  certificate ends.

### What the properties except

The code does the following; the models do it too, and a property either names
it as its exception or leaves it out. None of it is asserted by a run.

| Where | What happens |
|---|---|
| `create.go:471` | a second reconcile from a stale cache provisions the master again; the kubeconfig stays with a system that was given back |
| `create.go:148`, `:416` | the token of a worker is made with the kubeconfig and its address is the cluster's endpoint: while they name different masters, the token is another cluster's (`KubeconfigForEndpoint` names the case; `Certificates` asks for authorities, not for tokens) |
| `create.go:472` | a conflict on the secret leaves an allocated system that nothing records or releases (`LeaksOnlyAtKubeconfig`) |
| `delete.go:91` | a deleted worker that is still booting joins after the check for its node |
| `delete.go:207` | a deletion repeated from a stale copy releases the system of another machine (`RecordedSystemsHeld` is checked without deletions, and proved with them as long as this does not happen) |
| `cluster_controller.go:136` | a secret the cache does not show when the cluster is gone is never deleted (`SecretCollected`) |
| `cluster_controller.go:75`, `:130` | a manager that starts when the cluster is gone lists no cluster and its machines enqueue none: the secret stays (`SecretCollected`) |
| `cluster_controller.go:264` | the write of the first phase erases an endpoint published since the reconcile began (`EndpointStays` is about the phases after it) |
| `cluster_controller.go:245` | a conflict after the secret is created: the cluster stays in the empty phase |
| `delete.go:97` | deletion of a machine retries while the API server of the kubeconfig is gone |
| `images.go:58` | a failed request for the images is taken for an image that does not exist, for ever |
| `machineset_controller.go:283`, `:341`, `:378` | a creation whose sibling failed is not waited for; an orphan adopted twice is not counted; a wait for the cache expires: one machine too many (`CreatesOnlyIfTooFew` is checked without these) |
| `machineset_controller.go:296` | a size below zero makes the `WaitGroup` wait for deletions that nobody starts |
| `cluster.go:51`, `:297`, `:296` | a call that fails half-way, or does not see the namespace, leaves it (`NoLeftovers`, `DeletedMeansGone`) |
| `cluster.go:79` | a deletion and another creation overtake a creation: two control planes (`SingleControlPlane` is checked without deletions) |
| `cluster.go:165` | a cluster may be answered as RUNNING without a kubeconfig, since the secret is read first |
| `delete.go:132` | the node is deleted while its pods are being evicted (`DeletedAreGone` is about deletions) |
| `delete.go:172` | a failed Get counts as a pod that is gone (`DeletedAreGone`) |
| `gen_cert.go:334` | the kubeconfig of a new master holds the client certificate of the first year |
| `root.go:188` | a process that is told to stop waits for its web server for ever (`AllRun`, `ListsSettle`) |

### Fairness

`FairSpec` assumes weak fairness of each worker, informer, garbage collection
and boot: they are goroutines and servers that go on. `Dequeue(m)` is strongly
fair, because the work queue is first-in first-out and a name put back by a
retry does not overtake the others. Of restarts only the one after a panic is
fair: the deployment starts the pod again. Nothing is assumed of users or
faults.

In the other modules: `MachineSet` assumes weak fairness of the worker, the
informers, the garbage collector and the machine controller, and leaves open
who claims an orphan first. `AppBundle` does of each manager's requests and
informers; taking a bundle from the queue is strongly fair for each bundle,
since the queue is first-in first-out. In `Drain` the reconcile is repeated
until it is done and pods that terminate do so; in `JoinToken` managers work,
systems boot and time passes (two managers may work on the same machine: the
one whose update comes second releases its system); in `Startup` processes go on, are started again
by their deployment, and the API server establishes what was created. In
`Gateway` handlers are goroutines that go on; clients need not call, wait or
leave. `ApiServer` and `Certificates` state safety only.

## 4. Proofs

Every safety invariant and every action property that a run checks, and the
refinement of `MachineLifecycle`, is a theorem. The theorems hold for all values
of the constants that the named assumptions admit: types, finite sets of calls,
machines' names, managers and tokens, a `None` that is none of the other values,
and tokens that live longer than their margin, which is longer than the limit
for joining.
Five theorems need a hypothesis more, given with them below; each is what the
run of the property assumes too.

`OperatorProofs`, for any machines, masters, systems, user operations and faults:

- `InvariantHolds`: `IInv`, and from it `TypeOK`, `RecordsCoherent` and
  `FinalizedWhileRecorded`. None of the three is inductive. `UpdateMachine`
  writes from the worker's copy, so the record stays coherent only because an
  accepted copy equals the object (`CopiesCurrent`), and because the copy of a
  worker that is at `record` has the empty phase and no deletion
  (`StepFitsCopy`). There is a lemma for each group of actions;
  `ReconcileLeft`, `ReconcileWritten` and `ReconcileGoesOn` say once what the
  ways to end a step do to the invariant.
- `OwnersKept` and the refinement `ImplementsLifecycle`: `StepMoves` says, by
  cases on the actions, how a step may change a machine; with `InitialStages`
  and `StepsThroughStages` every step is one of the abstract machine's or a
  stutter.
- `EndpointInvariant`, and from it `EndpointHasKubeconfig`
  (`KubeconfigForEndpoint`) and `EndpointKept` (`EndpointStays`). The kubeconfig
  is that of the system whose address `updateCluster` is about to write, since
  nobody else stores one. That `updateStatus` erases no endpoint needs that the
  one reconcile that comes to the first phase has made the secret, so the
  invariant follows every place that has seen a status written (`StatusKnown`);
  and the secret must not go before the cluster, for which the cluster's own
  cache has to be the last to know (`~ccache.live => ~cluster.live`).
- `RecordedSystemsHeld` in two forms. The inductive `HeldInv` adds that the
  system in the worker's hand is allocated and recorded by no machine that is
  kept. `HeldUnlessStaleDeletion` has every user operation and says that the
  release at `delete.go:207` from an old copy (`StaleDeletion`) is the only step
  that breaks it. `RecordsHeld` has no condition on the behaviour but
  `UsersDeleteNothing`: by `NothingDeleted` nobody else deletes then, for which
  the secret must be seen wherever a machine waits.
- `NoOtherLeak` (`LeaksOnlyAtKubeconfig`), from `SystemInHand`: a reconcile
  names a system only between its allocation and its record.
- `SecretGoesLast` (`SecretDeletedLast`), from `LastMachineGone`: a machine the
  cache does not show is gone. It needs that no machine is posted afterwards
  (`"createMachine" \notin Env`): the code does not look again.

`MachineSetProofs`, for any names, sizes and lag of the caches:

- `FinalizerComesFirst`, from `FinalizerInv`: the cache shows a finalizer only
  when it is there, and no step after `finalize` is reached without.
- `OneControllerForLife`, from `AdoptInv`: a copy the API server would accept is
  equal to the machine, so that an adoption that succeeds finds no controller.
- `CreatesOnlyWhenTooFew`, where no Create fails, no wait for the cache expires
  and no orphans are posted (`Undisturbed`, see the table above for what happens
  otherwise); other requests may fail and the manager may die, any number of
  times. `ReplicasInv`
  is the reason for the waits: a replica the cache does not show is one the
  worker waits for, and those it keeps, waits for and has still to create add
  up to the size it has read.

`GatewayProofs`, for any number of clients and calls:

- `TypesKept` with `MastersCounted`: machines made and machines about to be made
  are no more than the calls.
- `NothingLeftBehind` and `DeletedIsGone`, from `HandlerInv`, which fits each
  handler's step to its operation.
- `OneControlPlane` and `OkWhenMade`, where no cluster is deleted. `SoleCreator`
  says that the namespace admits one `CreateCluster` at a time and none after a
  machine has been made, `CreatedInv` what a handler and its answer know, and
  `OwnAnswer` that a request never gets the answer to an earlier call that was
  given up.

The others:

- `AppBundleProofs`: `AppInvariant`, and from it `TypesKept`, `AccountsFirst` and
  `InstalledMeansJob`, for any number of managers, bundles and managed clusters.
  None of them is inductive alone: that a job finds its account needs what each worker knows of the parts before its own (`PartsMade`), which
  stays true because nothing removes what is installed (`MoreInstalled`), and
  the phase needs the job on the cluster the worker began with, which the
  kubeconfig need not name any more.
- `DrainProofs`: `DrainInvariant`, and from it the action properties
  `NoPodOverlooked` and `DeletedPodsGone`, for any pods and moves. The invariant
  ties what the reconcile has listed to where the pods are: a cordoned node
  gains none, and a pod leaves the list only when it is gone or a Get has failed.
- `JoinTokenProofs`: `TokenInvariant`, and from it `TypesKept` and
  `NeverRefused`, for every lifetime, margin and limit. The invariant adds the
  time a token in hand has left to the age of its look-up; a tick moves one into
  the other. `FewTokensAlways` is proved with `FewTokensComing`, which counts
  the managers about to create a token with the tokens there are.
- `CertificatesProofs`: `KubeconfigAccepted`, `MastersStart` and `WorkersTrust`,
  for any managers, masters, workers and length of time. The invariant
  `OneBundle` says that there is one bundle, made by one manager, from which the
  secret, the copies, what is on the masters, the fingerprints and the
  kubeconfig all come; it is a bundle that fits (`IsBundleOf`) because each is
  made certificate by certificate (`MakingInv`) and stored whole or not at all.
- `StartupProofs`: `StartupInvariant`, and from it `ControllersServed`. A process
  has discovered the resources once; what it has seen is still served later,
  since nothing removes a definition.

Only model-checked are the liveness properties (`MachinesCollected`,
`SecretCollected`, `Converges`, `SetCollected`, `StatusConverges`,
`HandlersEnd`, `InstalledInTheEnd`, `DeletionEnds`, `AllJoin`, `AllRun`,
`ListsSettle`): liveness under fairness is out of the prover's reach.

## 5. Not modelled

- `pkg/util`: `GetStatus`, `IsReadyForDeletion`, `IsReadyForUpgrade` and the two
  mappers are called by nothing that runs (the reconcilers have their own). Only
  the lookup of a namespace's cluster is used, as part of `CanCreate`.
- `handleUpgrade` of the machine controller is unreachable: nothing sets the
  phase it needs. `UpgradeCluster` writes the version of a cluster and no
  controller reads it again for existing machines; the write is modelled.
- The parsing and comparing of image names (`images.go`) is a function over
  strings without state: what `create` makes of its answer, an image or none,
  is part of `PrepareCreate`.
- `maas.Client.Update` and `Exist` change nothing and are not called.
- `GetUpgradeClusterInformation` and `GetVersionInformation` return constants.
- `api.pb.go`, `zz_generated.deepcopy.go`, the embedded web pages and the
  swagger files: accessors, copies and data written by generators. No webhook is
  registered.
- The content of userdata scripts, labels, annotations and ssh keys: no property
  of the operator tells them apart. What `kubeadm` and cloud-init do is
  external, and modelled by what the userdata asks of them.
- One composition of all controllers: `MachineSet` abstracts from provisioning
  and `Operator` from machine sets, since they share only the creation,
  deletion and owner of machines, which both modules model.
