------------------------------- MODULE Clients ------------------------------
(***************************************************************************)
(* Who holds the broker's connections: Main looks up the pods behind the   *)
(* peer addresses (src/main/rabbitmq/client-pods.ts) and the Connections   *)
(* page groups the connections by pod or workload (src/renderer/clients.ts,*)
(* pages/connections-page.tsx).  An address is an IP and whether it is     *)
(* written as IPv4-mapped IPv6.                                            *)
(***************************************************************************)
EXTENDS Absent, Naturals, Sequences, SequencesExt, FiniteSetsExt, Functions

NormalizeAddress(a) == [a EXCEPT !.mapped = FALSE]

(* A ReplicaSet named `<deployment>-<pod-template-hash>` stands for the Deployment. *)
PodWorkload(pod) ==
    LET o == pod.owner
    IN IF o # None /\ o.kind = "ReplicaSet" /\ pod.hash # None /\ o.name[2] = pod.hash
       THEN [kind |-> "Deployment", name |-> <<o.name[1], "">>] ELSE o

(* The pods whose address can be a client's: not on the host network, not finished, named. *)
Candidate(pod, wanted) ==
    /\ pod.ip # None /\ NormalizeAddress(pod.ip) \in wanted
    /\ ~pod.hostNetwork /\ pod.phase \in {"Running", "Pending"} /\ pod.name # None

(* Mutant: the first pod listed keeps its address though it is shutting down. *)
AddFirst(byIp, pod, wanted) ==
    LET ip == NormalizeAddress(pod.ip)
    IN IF ~Candidate(pod, wanted) \/ ip \in DOMAIN byIp THEN byIp
       ELSE [a \in DOMAIN byIp \cup {ip} |-> IF a = ip THEN pod ELSE byIp[a]]

(* A pod takes its address, unless another one has it that does not shut down or this one does. *)
AddPod(byIp, pod, wanted) ==
    LET ip == NormalizeAddress(pod.ip)
    IN IF ~Candidate(pod, wanted) \/ (ip \in DOMAIN byIp /\ (pod.terminating \/ ~byIp[ip].terminating))
       THEN byIp
       ELSE [a \in DOMAIN byIp \cup {ip} |-> IF a = ip THEN pod ELSE byIp[a]]

(* The pod at each wanted address: the first listed, unless it shuts down and another one does not. *)
MatchClientPods(pods, wanted) ==
    LET byIp[n \in 0..Len(pods)] == IF n = 0 THEN << >> ELSE AddPod(byIp[n - 1], pods[n], wanted)
    IN byIp[Len(pods)]

(* The addresses the page asks Main to look up; Main looks at no more than maxIps of them. *)
ClientAddresses(connections) == {NormalizeAddress(c.peer) : c \in {d \in connections : d.peer # None}}

ResolveClientPods(pods, ips, maxIps) ==
    LET bounded == CHOOSE s \in SUBSET ips : Cardinality(s) = Min({maxIps, Cardinality(ips)})
    IN IF bounded = {} THEN << >> ELSE MatchClientPods(pods, bounded)

-----------------------------------------------------------------------------
(* The group of a connection: its pod or its pod's workload, or else its address. *)
Identify(c, byIp, by) ==
    LET ip == NormalizeAddress(c.peer)
        pod == byIp[ip]
        workload == PodWorkload(pod)
    IN IF c.peer = None THEN [kind |-> "unknown"]
       ELSE IF ip \notin DOMAIN byIp THEN [kind |-> "external", ip |-> ip]
       ELSE IF by = "workload" /\ workload # None
       THEN [kind |-> "workload", namespace |-> pod.namespace, workload |-> workload]
       ELSE [kind |-> "pod", namespace |-> pod.namespace, pod |-> pod.name, workload |-> workload]

(* Blocked: "blocked" or "blocking". *)
GroupConnectionsByClient(connections, byIp, by) ==
    [k \in {Identify(c, byIp, by) : c \in connections} |->
        LET mine == {c \in connections : Identify(c, byIp, by) = k}
            ips == ClientAddresses(mine)
        IN [connections |-> Cardinality(mine),
            channels |-> SumFunction([c \in mine |-> c.channels]),
            blocked |-> Cardinality({c \in mine : c.blocked}),
            ips |-> ips, users |-> {c.user : c \in mine} \ {None},
            loopback |-> k.kind = "external" /\ \A a \in ips : a.ip = "loopback",
            pods |-> Cardinality({byIp[a].name : a \in ips \cap DOMAIN byIp}),
            oldest |-> Min({c.since : c \in mine}), newest |-> Max({c.since : c \in mine})]]

(* A click on a row: a workload's shows its pods, another client's its connections. *)
OpenClient(page, k, group) ==
    IF k.kind = "workload" THEN [page EXCEPT !.drill = <<k.namespace, k.workload>>, !.grouping = "pod"]
    ELSE IF group.ips = {} THEN page
    ELSE [page EXCEPT !.view = "connections", !.query = CHOOSE a \in group.ips : TRUE]

(* The rows the Clients view shows, the search box left empty. *)
FilteredClients(page, connections, byIp) ==
    LET groups == GroupConnectionsByClient(connections, byIp, page.grouping)
    IN Restrict(groups, {k \in DOMAIN groups :
           page.grouping = "pod" /\ page.drill # None =>
              k.kind = "pod" /\ k.workload # None /\ <<k.namespace, k.workload>> = page.drill})

(* Above the rows: how many, with how many connections, and how many that are no pod. *)
ClientMetrics(rows) ==
    [clients |-> Cardinality(DOMAIN rows),
     connections |-> SumFunction([k \in DOMAIN rows |-> rows[k].connections]),
     busiest |-> IF DOMAIN rows = {} THEN 0 ELSE Max({rows[k].connections : k \in DOMAIN rows}),
     external |-> Cardinality({k \in DOMAIN rows : k.kind = "external"})]

-----------------------------------------------------------------------------
Overview(grouping) == [view |-> "clients", grouping |-> grouping, drill |-> None, query |-> None]

(* Every connection is counted in one row, that of the pod that holds it or of its workload, whatever other *)
(* pods had its address before and in whatever order they are listed; and opening a workload's row shows    *)
(* its connections again, no fewer and no others (clients.ts:97, connections-page.tsx:576).                  *)
(* `holder`: the name of the pod that opened each connection, None when it was none.                        *)
ConnectionsAreAttributed(connections, pods, holder) ==
    LET byIp == ResolveClientPods(pods, ClientAddresses(connections), Cardinality(connections))
        rows(page) == FilteredClients(page, connections, byIp)
        top == rows(Overview("workload"))
    IN /\ ClientMetrics(top).connections = Cardinality(connections)
       /\ \A c \in connections :
             LET k == Identify(c, byIp, "pod") IN IF holder[c] = None THEN k.kind # "pod" ELSE k.kind = "pod" /\ k.pod = holder[c]
       /\ \A k \in DOMAIN top : k.kind = "workload" =>
             LET below == rows(OpenClient(Overview("workload"), k, top[k]))
             IN /\ ClientMetrics(below).connections = top[k].connections
                /\ SumFunction([p \in DOMAIN below |-> below[p].channels]) = top[k].channels
                /\ UNION {below[p].ips : p \in DOMAIN below} = top[k].ips
=============================================================================
