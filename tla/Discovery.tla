----------------------------- MODULE Discovery ------------------------------
(***************************************************************************)
(* Which brokers a Kubernetes cluster runs, and how to reach one           *)
(* (src/main/rabbitmq/discovery.ts, pod-resolver.ts, credentials.ts): a    *)
(* target from each RabbitmqCluster resource and from each group of        *)
(* Services in front of the same pods, its Management port, pod and login. *)
(* A label selector is a function from labels to values; regular           *)
(* expressions over names and labels are fields of the object they match,  *)
(* a port's number and name are fields of their own, and what only         *)
(* describes a target (version, replicas, AMQP port) is left out.          *)
(***************************************************************************)
EXTENDS Absent, Naturals, Sequences, SequencesExt, FiniteSetsExt, Functions

ManagementPorts == {15672, 15671}
AmqpPorts == {5672, 5671}
NameLabel == "app.kubernetes.io/name"

DefaultPort(tls) == IF tls THEN 15671 ELSE 15672

(* The first item of a list, of those at some places or of those that pass a test; None when there is none. *)
FirstAt(s, places) == IF places = {} THEN None ELSE s[Min(places)]
First(s, Test(_)) == FirstAt(s, {i \in DOMAIN s : Test(s[i])})

-----------------------------------------------------------------------------
(* The operator's client Service is `<name>`, in older releases `<name>-client`. *)
ClientService(cr, services) ==
    LET called(suffix) == First(services, LAMBDA s : s.namespace = cr.namespace /\ s.name = <<cr.name, suffix>>)
    IN Or(called(""), called("-client"))

(* The number shown for the Management port: the named port's, or a well-known one's, or the default. *)
PortNumber(service, kind, tls) ==
    LET ports == IF service = None THEN <<>> ELSE service.ports
        byName == First(ports, LAMBDA p : p.name = kind /\ p.port # None)
        byNumber == First(ports, LAMBDA p : p.port \in ManagementPorts)
    IN IF byName # None THEN byName.port ELSE IF byNumber # None THEN byNumber.port
       ELSE DefaultPort(tls)

(* Of a RabbitmqCluster resource; the Management API has TLS when the other listeners are disabled. *)
ParseRabbitmqCluster(cr, services) ==
    LET tls == cr.tls /\ cr.nonTlsDisabled
        service == ClientService(cr, services)
        portName == IF tls THEN "management-tls" ELSE "management"
    IN [name |-> <<cr.name, "">>, namespace |-> cr.namespace, source |-> "operator",
        selector |-> [l \in {NameLabel} |-> cr.name],
        service |-> IF service = None THEN None ELSE service.name,
        managementPort |-> [number |-> None, name |-> portName],
        portNumber |-> PortNumber(service, portName, tls), tls |-> tls,
        hint |-> [kind |-> "operator-default-user", secret |-> Or(cr.defaultUser, <<cr.name, "default-user">>)],
        ca |-> cr.ca]

-----------------------------------------------------------------------------
(* The ports of a Service that looks like RabbitMQ, or None. A Management port known by its name only counts *)
(* beside AMQP.                                                                                               *)
ClassifyService(svc) ==
    LET amqp == First(svc.ports, LAMBDA p : {p.port, p.target} \cap AmqpPorts # {} \/ p.name = "amqp")
        named(p) == amqp # None /\ p.name \in {"management", "management-tls"} /\ svc.rabbit
        management == First(svc.ports, LAMBDA p : {p.port, p.target} \cap ManagementPorts # {} \/ named(p))
    IN IF svc.operator \/ management = None \/ (amqp = None /\ ~svc.rabbit) THEN None
       ELSE [service |-> svc, management |-> management, amqp |-> amqp]

(* The pod template carries every label of the Service's selector. *)
WorkloadMatches(w, selector) ==
    DOMAIN selector # {} /\ \A l \in DOMAIN selector : l \in DOMAIN w.labels /\ w.labels[l] = selector[l]

(* A login from the environment of the first container that says something of a password. *)
HintFromWorkload(w) ==
    LET says(c) == c.password # None /\ (c.password.secret # None \/ (c.user # None /\ c.user.value # None))
        c == First(w.containers, says)
        userRef == IF c.user = None THEN None ELSE c.user.secret
        userValue == IF c.user = None THEN None ELSE c.user.value
    IN IF c = None THEN None
       ELSE IF c.password.secret = None THEN [kind |-> "guess", username |-> userValue]
       ELSE [kind |-> "secret", secret |-> c.password.secret, passwordKey |-> c.password.key,
             usernameKey |-> IF userRef # None /\ userRef = c.password.secret THEN c.user.key ELSE None,
             username |-> IF userValue # None THEN userValue ELSE IF userRef # None THEN None ELSE "guest"]

(* The Bitnami chart's convention for the Secret of a release. *)
BitnamiHint(svc) ==
    IF svc.release = None \/ ~svc.bitnami THEN None
    ELSE [kind |-> "secret", secret |-> <<svc.release, "rabbitmq">>, passwordKey |-> "rabbitmq-password",
          usernameKey |-> None, username |-> "user"]

ParseServiceTarget(candidate, workloads) ==
    LET svc == candidate.service
        port == candidate.management
        tls == 15671 \in {port.port, port.target} \/ port.name = "management-tls"
        owner == First(workloads, LAMBDA w : w.namespace = svc.namespace /\ WorkloadMatches(w, svc.selector))
        hint == IF owner = None THEN None ELSE HintFromWorkload(owner)
    IN IF DOMAIN svc.selector = {} THEN None
       ELSE [name |-> svc.name, namespace |-> svc.namespace, source |-> "service",
             selector |-> svc.selector, service |-> svc.name,
             managementPort |-> IF port.targetName # None THEN [number |-> None, name |-> port.targetName]
                                ELSE [number |-> Or(Or(port.target, port.port), DefaultPort(tls)), name |-> None],
             portNumber |-> Or(port.port, port.target), tls |-> tls,
             hint |-> Or(Or(hint, BitnamiHint(svc)), [kind |-> "guess", username |-> "guest"]),
             ca |-> None]

-----------------------------------------------------------------------------
(* Mutant: the Services that the operator made are not folded into its resource's entry. *)
FoldedNever(svc, operated) == FALSE

(* A Service the operator made for one of the resources found. *)
Folded(svc, operated) ==
    svc.partOf /\ NameLabel \in DOMAIN svc.labels /\ <<svc.namespace, svc.labels[NameLabel]>> \in operated

(* A cluster without the operator's resource definition is not asked for resources. *)
Resources(cluster) == IF cluster.operator THEN cluster.crs ELSE <<>>

(* The Services of a list at some places, those in front of the same pods together. *)
GroupedBySelector(services, places) ==
    {{j \in places : services[j].namespace = services[i].namespace /\ services[j].selector = services[i].selector} :
        i \in places}

(* The targets of a cluster: its resources' and one for each namespace and selector of the other Services, *)
(* taken from the first that is not headless, if any.                                                     *)
DiscoverRabbitmq(cluster) ==
    LET crs == Resources(cluster)
        operated == {<<cr.namespace, cr.name>> : cr \in ToSet(crs)}
        services == cluster.services
        workloads == cluster.deployments \o cluster.statefulSets
        classified == [i \in DOMAIN services |->
                          IF Folded(services[i], operated) THEN None ELSE ClassifyService(services[i])]
        candidates == {i \in DOMAIN services : classified[i] # None}
        groups == GroupedBySelector(services, candidates)
        best(g) == FirstAt(classified, LET direct == {i \in g : ~services[i].headless} IN IF direct = {} THEN g ELSE direct)
    IN [i \in DOMAIN crs |-> ParseRabbitmqCluster(crs[i], services)]
       \o SetToSeq({ParseServiceTarget(best(g), workloads) : g \in groups} \ {None})

-----------------------------------------------------------------------------
(* A Ready pod, the first by name, or else any that runs; None is the error no-pod. *)
ResolvePod(pods, target) ==
    LET runs(p) ==
            p.namespace = target.namespace /\ WorkloadMatches(p, target.selector) /\ p.phase = "Running"
        ready == {p \in ToSet(pods) : runs(p) /\ p.ready}
    IN IF ready # {} THEN CHOOSE p \in ready : \A q \in ready : p.rank <= q.rank ELSE First(pods, runs)

(* A named container port is looked up on the pod. *)
ResolvePort(pod, port, tls) ==
    LET named == First(pod.ports, LAMBDA p : p.name = port.name)
    IN IF port.number # None THEN port.number ELSE IF named # None THEN named.number ELSE DefaultPort(tls)

(* What a Secret holds under a key, or None. *)
Decode(secrets, secret, k) ==
    IF secret \in DOMAIN secrets /\ k \in DOMAIN secrets[secret] THEN secrets[secret][k] ELSE None

(* The login of a target; None is the error no-credentials. *)
ResolveCredentials(secrets, hint) ==
    LET read(k) == Decode(secrets, hint.secret, k)
        login(user, password) == IF user \in {None, ""} \/ password \in {None, ""} THEN None ELSE <<user, password>>
    IN CASE hint.kind = "operator-default-user" -> login(read("username"), read("password"))
         [] hint.kind = "secret" ->
              login(Or(Or(IF hint.usernameKey = None THEN None ELSE read(hint.usernameKey), hint.username),
                       Or(read("username"), read("rabbitmq-username"))),
                    read(Or(hint.passwordKey, "password")))
         [] hint.kind = "guess" -> <<hint.username, "guest">>

(* How the certificate of the Management API is checked: pinned only when a CA is there. *)
ResolveTls(secrets, target) ==
    IF ~target.tls THEN None
    ELSE LET ca == IF target.ca = None THEN None
                   ELSE Or(Decode(secrets, target.ca, "ca.crt"), Decode(secrets, target.ca, "tls.crt"))
         IN [ca |-> ca, rejectUnauthorized |-> ca # None]
=============================================================================
