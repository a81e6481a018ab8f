----------------------------- MODULE MCReadPath -----------------------------
(***************************************************************************)
(* What the pages show of the brokers of a cluster: the Health page as a   *)
(* state machine and, as initial states without a step (`scene`), inputs   *)
(* of the pure algorithms its data and the other pages' go through; the    *)
(* requests of a read handler, and the pages of a list, take the steps of  *)
(* scenes of their own.                                                    *)
(***************************************************************************)
EXTENDS HealthPage, Discovery, DeadLetter, Clients, ManagementApi, PagedList, ReadRequests
CONSTANTS t1, t2, reader, stored, typed

VARIABLE scene

allVars == <<pageVars, readVars, listVars, scene>>

-----------------------------------------------------------------------------
(* Samples of the Health page: a channel that is full, that is not, or that is closed. *)
Channel(full) == [name |-> "c", consumer_count |-> 1, prefetch_count |-> 1, global_prefetch_count |-> None,
                  messages_unacknowledged |-> IF full THEN 1 ELSE 0, stats |-> None]
ChannelSamples ==
    {ToSample([nodes |-> {}, queues |-> {}, channels |-> chs, stats |-> None,
               object_totals |-> None, queue_totals |-> None]) :
        chs \in {{}, {Channel(TRUE)}, {Channel(FALSE)}}}

-----------------------------------------------------------------------------
(* Brokers of a Kubernetes cluster, and the objects that whoever deployed them made for each.  `tls`: the   *)
(* Management API without TLS, with and without, or only with; `login`: where the container's user comes   *)
(* from, the password being in a Secret unless it is "plain" or "unset".                                   *)
Brokers(n) ==
    [n : {n}, made : {"operator"}, tls : {"no", "both", "only"}, twin : {FALSE}, named : BOOLEAN, login : {"secret"}]
    \cup [n : {n}, made : {"chart", "plain"}, tls : {"no", "both", "only"}, twin : BOOLEAN, named : BOOLEAN,
          login : {"secret", "value", "elsewhere", "plain", "unset"}]

Listens(b) == CASE b.tls = "no" -> {15672} [] b.tls = "both" -> {15672, 15671} [] OTHER -> {15671}
PortName(number) == IF number = 15672 THEN "management" ELSE "management-tls"
Selector(b) == [l \in {NameLabel} |-> b.n]
User(b) == IF b.login = "unset" THEN "guest" ELSE "user-" \o b.n
Password(b) == IF b.login = "unset" THEN "guest" ELSE "password-" \o b.n

ServicePort(b, number) ==
    [name |-> PortName(number), port |-> number,
     target |-> IF b.named THEN None ELSE number, targetName |-> IF b.named THEN PortName(number) ELSE None]
AmqpPort == [name |-> "amqp", port |-> 5672, target |-> 5672, targetName |-> None]

ServiceName(b, headless) == <<b.n, IF headless THEN "-headless" ELSE "">>
Service(b, headless) ==
    [name |-> ServiceName(b, headless), namespace |-> "ns", operator |-> FALSE, rabbit |-> TRUE,
     partOf |-> b.made = "operator", labels |-> Selector(b), selector |-> Selector(b), headless |-> headless,
     bitnami |-> b.made = "chart", release |-> None,
     ports |-> CASE b.tls = "no" -> <<AmqpPort, ServicePort(b, 15672)>>
                 [] b.tls = "both" -> <<AmqpPort, ServicePort(b, 15672), ServicePort(b, 15671)>>
                 [] OTHER -> <<AmqpPort, ServicePort(b, 15671)>>]

Variable(secret, k, value) == [secret |-> secret, key |-> k, value |-> value]
Container(b) ==
    [user |-> CASE b.login = "unset" -> None
                [] b.login = "secret" -> Variable(<<b.n, "login">>, "user", None)
                [] b.login = "elsewhere" -> Variable(<<b.n, "other">>, "user", None)
                [] OTHER -> Variable(None, None, User(b)),
     password |-> CASE b.login = "unset" -> None
                    [] b.login = "plain" -> Variable(None, None, Password(b))
                    [] OTHER -> Variable(<<b.n, "login">>, "pass", None)]
Sidecar == [user |-> None, password |-> None]

ByOperator(b) == b.made = "operator"
Resource(b) ==
    [name |-> b.n, namespace |-> "ns", tls |-> b.tls # "no", nonTlsDisabled |-> b.tls = "only",
     defaultUser |-> None, ca |-> None]
StatefulSet(b) == [namespace |-> "ns", labels |-> Selector(b), containers |-> <<Sidecar, Container(b)>>]

Flatten(s, F(_)) == FlattenSeq([i \in DOMAIN s |-> F(s[i])])

Cluster(brokers) ==
    [operator |-> \E i \in DOMAIN brokers : ByOperator(brokers[i]),
     crs |-> Flatten(brokers, LAMBDA b : IF ByOperator(b) THEN <<Resource(b)>> ELSE <<>>),
     services |-> Flatten(brokers, LAMBDA b : (IF b.twin THEN <<Service(b, TRUE)>> ELSE <<>>) \o <<Service(b, FALSE)>>),
     deployments |-> <<>>,
     statefulSets |-> Flatten(brokers, LAMBDA b : IF ByOperator(b) THEN <<>> ELSE <<StatefulSet(b)>>)]

ContainerPort(number) == [name |-> PortName(number), number |-> number]
Pod(b, rank) ==
    [namespace |-> "ns", labels |-> Selector(b), phase |-> "Running", ready |-> TRUE, rank |-> rank, of |-> b.n,
     ports |-> SetToSeq({ContainerPort(number) : number \in Listens(b)})]
Pods(brokers) == [i \in DOMAIN brokers |-> Pod(brokers[i], i)]

Secrets(brokers) ==
    [s \in UNION {{<<brokers[i].n, "login">>, <<brokers[i].n, "default-user">>} : i \in DOMAIN brokers} |->
        LET b == CHOOSE x \in ToSet(brokers) : x.n = s[1]
        IN IF s[2] = "default-user" THEN [k \in {"username", "password"} |-> IF k = "username" THEN User(b) ELSE Password(b)]
           ELSE [k \in {"user", "pass"} |-> IF k = "user" THEN User(b) ELSE Password(b)]]

(* What is said of a broker's login, and of its Services, where the container and the Services are told of.  *)
HintsOf(b) ==
    [kind : {"guess"}, username : {User(b), "guest"}]
    \cup [kind : {"secret"}, secret : {<<b.n, "login">>}, passwordKey : {"pass"}, usernameKey : {"user", None},
          username : {User(b), None}]
CandidatesOf(b) ==
    [service : {Service(b, TRUE), Service(b, FALSE)}, management : {ServicePort(b, number) : number \in Listens(b)},
     amqp : {AmqpPort}]
TargetsOf(b) ==
    [name : {ServiceName(b, FALSE)}, namespace : {"ns"}, source : {"service"}, selector : {Selector(b)},
     service : {ServiceName(b, FALSE)},
     managementPort : [number : {None} \cup Listens(b), name : {None} \cup {PortName(number) : number \in Listens(b)}],
     portNumber : Listens(b), tls : BOOLEAN, hint : HintsOf(b), ca : {None}]

(* `undefined` is none of the objects of a broker, nor of the numbers and words in them; no login is empty. *)
Present(b) ==
    /\ \A number \in AmqpPorts \cup ManagementPorts : number # None
    /\ \A number \in ManagementPorts : PortName(number) # None /\ ServicePort(b, number) # None /\ ContainerPort(number) # None
    /\ AmqpPort # None /\ Service(b, TRUE) # None /\ Service(b, FALSE) # None
    /\ StatefulSet(b) # None /\ Container(b) # None
    /\ \A secret \in {"login", "other"} : <<b.n, secret>> # None
    /\ \A secret \in {"login", "other"}, k \in {"user", "pass"} : Variable(<<b.n, secret>>, k, None) # None
    /\ \A value \in {User(b), Password(b)} : value \notin {None, ""} /\ Variable(None, None, value) # None
    /\ \A k \in {"user", "pass"} : k # None
    /\ None \notin HintsOf(b) \cup CandidatesOf(b) \cup TargetsOf(b)
    /\ \A ca \in {TRUE, FALSE} : [ca |-> None, rejectUnauthorized |-> ca] # None

(* From its Kubernetes objects every broker is found once, whoever deployed it ("folded into the CR entry",  *)
(* "headless/client twins collapse into one target", discovery.ts:281,299); its Management API is looked for *)
(* on a port of its pod that listens, with TLS where it has it.  Its login is its own, name and password,    *)
(* where the password is in a Secret that is read, or is the default; where the password is in plain text,   *)
(* which discovery does not read, its own name with the default password as a guess ("we can still use the   *)
(* username", discovery.ts:209); else an error says that none was found.  It is never another broker's.      *)
LoginOf(b) ==
    CASE b.login = "elsewhere" -> None
      [] b.login = "plain" -> <<User(b), "guest">>
      [] OTHER -> <<User(b), Password(b)>>

ReachesEveryBrokerOnce(brokers) ==
    LET targets == DiscoverRabbitmq(Cluster(brokers))
        pod(t) == ResolvePod(Pods(brokers), t)
        port(t) == ResolvePort(pod(t), t.managementPort, t.tls)
        broker(t) == CHOOSE b \in ToSet(brokers) : b.n = pod(t).of
        login(t) == ResolveCredentials(Secrets(brokers), t.hint)
    IN /\ Len(targets) = Len(brokers)
       /\ {broker(targets[i]) : i \in DOMAIN targets} = ToSet(brokers)
       /\ \A i \in DOMAIN targets :
             LET t == targets[i] b == broker(targets[i])
             IN /\ port(t) \in Listens(b) /\ t.tls = (port(t) = 15671)
                /\ t.portNumber = port(t)
                /\ (ResolveTls(Secrets(brokers), t) = None) = ~t.tls
                /\ login(t) = LoginOf(b)

-----------------------------------------------------------------------------
(* Deaths of a message, published to exchange "e", dead-lettered from queue to queue. *)
Deaths == {[queue |-> q, reason |-> r, exchange |-> IF q = "q1" THEN "e" ELSE "dlx", key |-> q] :
              q \in {"q1", "q2"}, r \in {"rejected", "expired"}}
DeathSequences == UNION {[1..n -> Deaths] : n \in 0..4}

-----------------------------------------------------------------------------
(* Pods listed in any order that have had the addresses of the clients, at most one of them alive at each. *)
ClientPods ==
    {[name |-> n, namespace |-> "ns", ip |-> [ip |-> ip, mapped |-> FALSE], phase |-> ph, terminating |-> tm,
      hostNetwork |-> FALSE, hash |-> "h",
      owner |-> IF n = "stray" THEN None ELSE [kind |-> "ReplicaSet", name |-> <<"app", "h">>]] :
        n \in {"a", "b", "stray"}, ip \in {"i1", "i2"}, ph \in {"Running", "Failed"}, tm \in BOOLEAN}
Alive(p) == p.phase = "Running" /\ ~p.terminating
PodLists ==
    {s \in UNION {[1..n -> ClientPods] : n \in 0..3} :
        \A i, j \in DOMAIN s : i # j => /\ s[i].name # s[j].name
                                        /\ Alive(s[i]) /\ Alive(s[j]) => s[i].ip # s[j].ip}
(* Each running pod holds a connection, and a client outside the cluster another one. *)
Held(pods) ==
    {ToConnection([name |-> <<"of", n>>, peer_host |-> [ip |-> IF n = 0 THEN "outside" ELSE pods[n].ip.ip, mapped |-> TRUE],
                   user |-> "u", channels |-> n + 1, state |-> "running", connected_at |-> n]) :
        n \in {0} \cup {i \in DOMAIN pods : Alive(pods[i])}}
Holder(pods) == [c \in Held(pods) |-> IF c.name[2] = 0 THEN None ELSE pods[c.name[2]].name]

(* `undefined` is no list of nodes, no name, address or pair of a client's, and nothing of a dead letter's or a broker's. *)
ASSUME SceneAssumption ==
    /\ \A nodes \in SUBSET {"n1", "n2"} : nodes # None
    /\ Named({"q1", "q2"}, {"rejected", "expired"}, {"e", "dlx"}, {"q1", "q2"})
    /\ \A p \in ClientPods : p.name # None /\ p.ip # None /\ <<p.namespace, PodWorkload(p)>> # None
    /\ \A ip \in {"i1", "i2", "outside"} : [ip |-> ip, mapped |-> TRUE] # None
    /\ \A n \in 0..3 : <<"of", n>> # None
    /\ \A b \in Brokers("x") \cup Brokers("y") : Present(b)

-----------------------------------------------------------------------------
(* Lists of a broker, sorted: seven items at most, up to two of them missing; or shorter than three pages. *)
Numbers == 1..7
SortedLists ==
    {SelectSeq([i \in Numbers |-> i], LAMBDA n : n \in S) :
        S \in {T \in SUBSET Numbers : Cardinality(T) >= 5} \cup {1..n : n \in 0..4}}

-----------------------------------------------------------------------------
(* Raw brokers of two nodes, one of which may be down, with two queues replicated on them. *)
RawNode(n, up) ==
    [name |-> n, running |-> up, mem_alarm |-> None, mem_used |-> 9, mem_limit |-> 10, disk_free_alarm |-> None,
     disk_free |-> None, disk_free_limit |-> None, fd_used |-> None, fd_total |-> None, sockets_used |-> None,
     sockets_total |-> None, proc_used |-> None, proc_total |-> None, partitions |-> None]
RawQueues(n, up) ==
    {[name |-> n, vhost |-> None, type |-> "quorum", state |-> s, messages_ready |-> r, consumers |-> None,
      consumer_capacity |-> None, consumer_utilisation |-> None, stats |-> None, members |-> ms,
      online |-> IF ms = None THEN None ELSE ms \cap on, named_dead_letter |-> FALSE, arguments |-> None] :
        s \in {"running", "minority"}, r \in {0, 1}, ms \in {None, {"n1"}, {"n1", "n2"}}, on \in SUBSET up}
RawBrokers ==
    UNION {{[nodes |-> {RawNode(n, n \in up) : n \in {"n1", "n2"}}, queues |-> {q1, q2}, channels |-> {}, stats |-> None,
             object_totals |-> None, queue_totals |-> None] :
              q1 \in RawQueues("q1", up), q2 \in RawQueues("q2", up)} : up \in {{"n1", "n2"}, {"n1"}, {"n2"}}}

-----------------------------------------------------------------------------
Scenes ==
    {[of |-> "cluster", brokers |-> <<a>>] : a \in Brokers("x")}
    \cup {[of |-> "cluster", brokers |-> <<a, b>>] : a \in Brokers("x"), b \in Brokers("y")}
    \cup {[of |-> "letter", own |-> own, deaths |-> d] : own \in {{}, {"CC", "app"}}, d \in DeathSequences}
    \cup {[of |-> "clients", pods |-> p] : p \in PodLists}
    \cup {[of |-> "broker", raw |-> r] : r \in RawBrokers}
    \cup {[of |-> "read"], [of |-> "list"]}

Init ==
    /\ ReadInit
    /\ ListInit /\ (scene = [of |-> "list"] \/ (list = <<>> /\ paged))
    /\ \/ scene = None /\ PageInit
       \/ /\ scene \in Scenes
          /\ key = None /\ due = FALSE /\ data = NoData /\ error = FALSE /\ loading = FALSE /\ loads = <<>>
          /\ stuckSince = [of |-> None, ages |-> << >>] /\ findings = <<>> /\ calm = [k \in Keys |-> << >>]

Next ==
    \/ scene = None /\ PageNext /\ UNCHANGED <<readVars, listVars, scene>>
    \/ scene = [of |-> "read"] /\ ReadNext /\ UNCHANGED <<pageVars, listVars, scene>>
    \/ scene = [of |-> "list"] /\ ListNext /\ UNCHANGED <<pageVars, readVars, scene>>

Spec == Init /\ [][Next]_allVars /\ PageFairness

-----------------------------------------------------------------------------
(* The properties of the scenes: see the modules that define them. *)
BrokersAreReachedOnce == scene # None /\ scene.of = "cluster" => ReachesEveryBrokerOnce(scene.brokers)
HistoriesAreDecoded == scene # None /\ scene.of = "letter" => 
    /\ DecodesTheHistory(scene.own, scene.deaths)
    /\ FilterSaysWhatItShows([i \in 1..(Len(scene.deaths) + 1) |-> HeadersAfter(scene.own, SubSeq(scene.deaths, 1, i - 1))])
ClientsAreAttributed ==
    scene # None /\ scene.of = "clients" =>
        ConnectionsAreAttributed(Held(scene.pods), scene.pods, Holder(scene.pods))
AnswersAreWhole == ReadsAreWhole /\ ListIsHonest
StoppedNodesAreOneFinding == scene # None /\ scene.of = "broker" => StoppedNodeIsOneFinding(ToSample(scene.raw))
=============================================================================
