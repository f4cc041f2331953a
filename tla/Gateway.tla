------------------------------- MODULE Gateway -------------------------------
(***************************************************************************)
(* The REST gateway in front of the gRPC server, in the same process.  For *)
(* each HTTP request a handler decodes the message, calls the gRPC server  *)
(* under a context that ends with the request, and translates the answer.  *)
(* When a client leaves, or its deadline passes, the context is cancelled: *)
(* the gateway's handler returns at once, the gRPC handler goes on until   *)
(* the cancellation has reached it and its next request to the API server  *)
(* fails.                                                                  *)
(***************************************************************************)
EXTENDS ApiServer

CONSTANTS
    Reads,       \* the rpcs clients call that write nothing
    MaxGiveUps   \* bound on requests that are given up

ASSUME ReadsAssumption ==
    /\ Reads \subseteq {"GetClusterList", "GetClusterNodesStatus", "GetVersionInformation",
                        "GetUpgradeClusterInformation"}
    /\ MaxGiveUps \in Nat

VARIABLES
    http,     \* the gateway's handler that makes a call, and its context
    got,      \* what the client was answered last
    giveups

gatewayVars == <<http, got, giveups>>
allVars == <<vars, gatewayVars>>

\* Method, path under /api/v1, and where the parameters come from.
Patterns ==
    [CreateCluster |-> <<"POST", "cluster", "body">>,
     GetCluster |-> <<"GET", "cluster", "query">>,
     DeleteCluster |-> <<"DELETE", "cluster", "query">>,
     GetClusterList |-> <<"GET", "cluster/list", "none">>,
     GetClusterNodesStatus |-> <<"GET", "cluster/nodesstatus", "query">>,
     GetVersionInformation |-> <<"GET", "version", "none">>,
     AddNodePool |-> <<"POST", "cluster/pool", "body">>,
     DeleteNodePool |-> <<"DELETE", "cluster/pool", "query">>,
     ScaleNodePool |-> <<"PUT", "cluster/pool", "body">>,
     GetUpgradeClusterInformation |-> <<"GET", "cluster/upgrade", "query">>,
     UpgradeCluster |-> <<"PUT", "cluster/upgrade", "body">>]

Rpcs == Ops \cup Reads

Routed(method, path) == {r \in Rpcs : Patterns[r][1] = method /\ Patterns[r][2] = path}

Codes == {"none", "200", "400", "404", "405", "500", "503", "504"}

GatewayTypeOK ==
    /\ TypeOK
    /\ http \in [Calls -> [stage : {"none", "annotate", "request", "waiting", "reading"},
                           rpc : DOMAIN Patterns, ctx : {"alive", "canceling", "canceled"}]]
    /\ got \in [Calls -> Codes] /\ giveups \in 0 .. MaxGiveUps

GatewayInit ==
    /\ Init
    /\ http = [c \in Calls |-> [stage |-> "none", rpc |-> "GetCluster", ctx |-> "alive"]]
    /\ got = [c \in Calls |-> "none"] /\ giveups = 0

Stage(c, stage) == http' = [http EXCEPT ![c].stage = stage]

\* HTTPError or ForwardResponseMessage, and the handler returns.
Respond(c, code) == Stage(c, "none") /\ got' = [got EXCEPT ![c] = code] /\ UNCHANGED giveups

(***************************************************************************)
(* The handlers that RegisterClusterHandlerClient registers.               *)
(***************************************************************************)

\* The mux finds the handler of a request, or answers in its place.
ServeHTTP(c) ==
    /\ http[c].stage = "none" /\ At(c, "idle")
    /\ made + Cardinality({d \in Calls : http[d].stage \in {"annotate", "request"}}) < MaxCalls
    /\ \E method \in {"GET", "POST", "PUT", "DELETE"}, path \in {Patterns[r][2] : r \in Rpcs} :
          IF Routed(method, path) = {}
          THEN got' = [got EXCEPT ![c] = "405"] /\ UNCHANGED http
          ELSE \E r \in Routed(method, path) :
                  /\ http' = [http EXCEPT ![c] = [stage |-> "annotate", rpc |-> r, ctx |-> "alive"]]
                  /\ got' = [got EXCEPT ![c] = "none"]
    /\ UNCHANGED <<vars, giveups>>

\* AnnotateContext fails on a header it cannot read.
AnnotateContext(c) ==
    /\ http[c].stage = "annotate"
    /\ \/ Stage(c, "request") /\ UNCHANGED <<got, giveups>>
       \/ Respond(c, "400")
    /\ UNCHANGED vars

\* The message of the call does not decode.
BadRequest(c) ==
    /\ http[c].stage = "request" /\ Patterns[http[c].rpc][3] # "none"
    /\ Respond(c, "400") /\ UNCHANGED vars

\* client.CreateCluster(ctx, &protoReq) and so on.
CallServer(c) ==
    /\ http[c].stage = "request"
    /\ IF http[c].rpc \in Reads
       THEN Stage(c, "reading") /\ UNCHANGED vars
       ELSE Request(c) /\ call'[c].op = http[c].rpc /\ Stage(c, "waiting")
    /\ UNCHANGED <<got, giveups>>

\* A call that reads answers from the caches, or fails.
ReadAnswered(c) ==
    /\ http[c].stage = "reading"
    /\ LET found == http[c].rpc = "GetClusterNodesStatus" => vcluster.live
       IN \/ NoFault /\ Respond(c, IF found THEN "200" ELSE "404")
          \/ Fault /\ Respond(c, "500")
    /\ UNCHANGED <<nsVars, clusterVars, secretVars, masters, poolVars, call, answer, made>>

\* For a mutant: the error of the call is overlooked.
HttpCodeOk(code) == "200"

HttpCode(code) ==
    CASE code = "OK" -> "200" [] code = "NotFound" -> "404" [] OTHER -> "500"

\* For a mutant: only a reply is forwarded.
ForwardReply(c) ==
    /\ http[c].stage = "waiting" /\ answer[c].code = "OK"
    /\ Respond(c, "200") /\ UNCHANGED vars

Forward(c) ==
    /\ http[c].stage = "waiting" /\ answer[c].code # "none"
    /\ Respond(c, HttpCode(answer[c].code)) /\ UNCHANGED vars

\* The client leaves, its Grpc-Timeout passes, or the connection to the gRPC
\* server breaks.
GiveUp(c) ==
    /\ http[c].stage = "waiting" /\ giveups < MaxGiveUps /\ giveups' = giveups + 1
    /\ http' = [http EXCEPT ![c].stage = "none", ![c].ctx = "canceling"]
    /\ \E code \in {"none", "503", "504"} : got' = [got EXCEPT ![c] = code]
    /\ UNCHANGED vars

\* The cancellation reaches the gRPC handler.
CancelArrives(c) ==
    /\ http[c].ctx = "canceling" /\ http' = [http EXCEPT ![c].ctx = "canceled"]
    /\ UNCHANGED <<vars, got, giveups>>

Gateway(c) ==
    ServeHTTP(c) \/ AnnotateContext(c) \/ BadRequest(c) \/ CallServer(c)
    \/ ReadAnswered(c) \/ Forward(c) \/ GiveUp(c) \/ CancelArrives(c)

(***************************************************************************)
(* The gRPC handler under the context of its call.  Reads of a cache do    *)
(* not look at the context.                                                *)
(***************************************************************************)
Writes(c) ==
    \/ call[c].step \in {"namespace", "cluster", "master", "delete", "deletens", "update", "writeset"}
    \/ call[c].step = "sets" /\ call[c].left # {}

Proceed(c) ==
    /\ http[c].ctx = "canceled" => ~Writes(c)
    /\ Handle(c) /\ UNCHANGED gatewayVars

CancelledWrite(c) ==
    /\ http[c].ctx = "canceled" /\ Writes(c) /\ Refuse(c, "Internal")
    /\ ccur' = ccur \ {c} /\ pcur' = [p \in Pools |-> pcur[p] \ {c}]
    /\ UNCHANGED <<nsVars, cluster, vcluster, secretVars, masters, pool, vpool, made, faults,
                   gatewayVars>>

GatewayNext ==
    \/ \E c \in Calls : Gateway(c) \/ Proceed(c) \/ CancelledWrite(c)
    \/ Others /\ UNCHANGED gatewayVars

GatewaySpec == GatewayInit /\ [][GatewayNext]_allVars

\* Handlers are goroutines that go on; nothing makes a client send or leave.
GatewayFairness ==
    \A c \in Calls :
        /\ WF_allVars(AnnotateContext(c)) /\ WF_allVars(CallServer(c))
        /\ WF_allVars(ReadAnswered(c)) /\ WF_allVars(Forward(c)) /\ WF_allVars(CancelArrives(c))
        /\ WF_allVars(Proceed(c) \/ CancelledWrite(c))

FairGatewaySpec == GatewaySpec /\ GatewayFairness

(***************************************************************************)
(* Properties                                                              *)
(***************************************************************************)

\* Why, where no client deletes clusters: the namespace admits one CreateCluster
\* after the other, the next one not before the last one has failed at it.
SoleCreator ==
    /\ ns # "terminating" /\ \A c \in Calls : call[c].op # "DeleteCluster"
    /\ \A c, d \in Calls : {call[c].step, call[d].step} \subseteq {"cluster", "master"} => c = d
    /\ (ns = "none" \/ masters > 0) => \A c \in Calls : call[c].step \notin {"cluster", "master"}
    /\ ns = "none" => masters = 0

Made == ns = "active" /\ cluster.live /\ masters = 1

CreatedInv ==
    \A c \in Calls :
        /\ At(c, "master") => cluster.live
        /\ At(c, "sets") /\ call[c].op = "CreateCluster" => Made
        /\ answer[c].op = "CreateCluster" /\ answer[c].code = "OK" => Made

\* ... and what a waiting request of the gateway gets is the answer to its own
\* call, not to one that was given up.
OwnAnswer ==
    \A c \in Calls :
        /\ http[c].stage = "waiting" =>
              IF At(c, "idle") THEN answer[c].op = http[c].rpc ELSE call[c].op = http[c].rpc
        /\ ~At(c, "idle") => answer[c].code = "none"
        /\ http[c].stage = "reading" => http[c].rpc \in Reads

GotNow(c, rpc, codes) ==
    http[c].stage # "none" /\ http'[c].stage = "none" /\ http[c].rpc = rpc /\ got'[c] \in codes

\* A client that is answered 200 to its POST has a namespace with a cluster
\* and its master, although other clients, or the same one with an earlier
\* request, have been trying and given up.
OkMeansMade ==
    [][\A c \in Calls : GotNow(c, "CreateCluster", {"200"}) =>
          ns = "active" /\ cluster.live /\ masters = 1]_allVars

\* Every request is answered or given up, and no gRPC handler outlives its
\* request for ever.
HandlersEnd ==
    \A c \in Calls :
        /\ http[c].stage # "none" ~> http[c].stage = "none"
        /\ ~At(c, "idle") ~> At(c, "idle")

=============================================================================
