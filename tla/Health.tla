------------------------------- MODULE Health -------------------------------
(***************************************************************************)
(* The health checks of one broker (src/renderer/health.ts): pure rules    *)
(* over what the Management API said of its nodes, queues and channels.    *)
(* A finding keeps its rule, severity and subject; its wording is left out.*)
(* Percentages are compared without dividing; an absent field is None *)
(* and a rate is the number that `rate ?? 0` gives.                        *)
(***************************************************************************)
EXTENDS Absent, Integers, Sequences, SequencesExt, FiniteSetsExt

CONSTANT StuckFor   \* how long a channel must stay full before it is stuck: stuckForMs

ASSUME HealthAssumption == StuckFor \in Nat \ {0}

GrowingBacklog == 1000
UnboundedUnacked == 1000

When(condition, rule, severity, subject) ==
    IF condition THEN {[rule |-> rule, severity |-> severity, subject |-> subject]} ELSE {}

Known(x) == x # None

(* At or over 80 % of a total that is known and positive. *)
High(used, total) == Known(used) /\ Known(total) /\ total > 0 /\ used * 10 >= total * 8

DiskLow(n) == /\ Known(n.diskFree) /\ Known(n.diskFreeLimit) /\ n.diskFreeLimit > 0
              /\ n.diskFree < n.diskFreeLimit * 2

NodeFindings(n) ==
    IF ~n.running THEN When(TRUE, "node-down", "critical", n.name)
    ELSE      When(n.partitions # {}, "node-partitioned", "critical", n.name)
        \cup When(n.memAlarm, "memory-alarm", "critical", n.name)
        \cup When(~n.memAlarm /\ High(n.memUsed, n.memLimit), "memory-high", "warning", n.name)
        \cup When(n.diskFreeAlarm, "disk-alarm", "critical", n.name)
        \cup When(~n.diskFreeAlarm /\ DiskLow(n), "disk-low", "warning", n.name)
        \cup When(High(n.fdUsed, n.fdTotal), "fd-high", "warning", n.name)
        \cup When(High(n.socketsUsed, n.socketsTotal), "sockets-high", "warning", n.name)
        \cup When(High(n.procUsed, n.procTotal), "procs-high", "warning", n.name)

-----------------------------------------------------------------------------
Subject(q) == <<q.vhost, q.name>>

(* Queues that others dead-letter into through the default exchange. *)
DeadLetterTargets(queues) ==
    {<<q.vhost, q.deadLetter.routingKey>> : q \in {p \in queues : /\ p.deadLetter.exchange = ""
                                                                  /\ p.deadLetter.routingKey \notin {None, ""}}}

(* `namedDeadLetter`: the name matches DEAD_LETTER_NAME. *)
IsDeadLetterQueue(q, targets) == q.namedDeadLetter \/ Subject(q) \in targets

Offline(q) == IF Known(q.members) /\ Known(q.online) THEN q.members \ q.online ELSE {}

(* Mutant: every offline replica is reported, on a node that is down too. *)
ReplicaFindingsAll(q, running, down) ==
    CASE q.state \in {"crashed", "terminated"} -> When(TRUE, "queue-crashed", "critical", Subject(q))
      [] q.state \in {"down", "minority", "stopped"} -> When(TRUE, "queue-unavailable", "warning", Subject(q))
      [] OTHER -> When(Offline(q) # {}, "replicas-offline", "warning", Subject(q))

(* Its state or else its replicas; those on a node that is down are left to that node's finding. *)
ReplicaFindings(q, running, down) ==
    CASE q.state \in {"crashed", "terminated"} -> When(TRUE, "queue-crashed", "critical", Subject(q))
      [] q.state \in {"down", "minority", "stopped"} -> When(TRUE, "queue-unavailable", "warning", Subject(q))
      [] OTHER -> When(Offline(q) \ down # {}, "replicas-offline", "warning", Subject(q))

UnderReplicated(q, running) ==
    /\ q.type = "quorum" /\ Known(q.members) /\ Offline(q) = {} /\ running > 1
    /\ Cardinality(q.members) < 3 /\ Cardinality(q.members) < running

Growing(q) == q.consumers > 0 /\ q.ready >= GrowingBacklog /\ q.publish > q.deliver

(* `lowCapacity`: a consumer utilisation that is known and below one half. *)
BacklogFindings(q, targets) ==
          When(q.ready > 0 /\ q.consumers = 0 /\ IsDeadLetterQueue(q, targets), "dead-letters-parked", "info", Subject(q))
    \cup When(q.ready > 0 /\ q.consumers = 0 /\ ~IsDeadLetterQueue(q, targets), "no-consumers", "warning", Subject(q))
    \cup When(Growing(q), "backlog-growing", "warning", Subject(q))
    \cup When(q.consumers > 0 /\ ~Growing(q) /\ q.ready > 0 /\ q.lowCapacity, "low-consumer-capacity", "info", Subject(q))
    \cup When(q.redeliver > 0, "redeliveries", "warning", Subject(q))

QueueFindings(q, running, down, targets) ==
          ReplicaFindings(q, running, down)
    \cup When(UnderReplicated(q, running), "under-replicated", "info", Subject(q))
    \cup IF q.type = "stream" THEN {} ELSE BacklogFindings(q, targets)

-----------------------------------------------------------------------------
(* The most unacked messages the prefetch limits let through; None without a limit. *)
ChannelCapacity(ch) ==
    LET limits == (IF ch.prefetch > 0 THEN {ch.prefetch * Max({1, ch.consumers})} ELSE {})
                  \cup (IF ch.globalPrefetch > 0 THEN {ch.globalPrefetch} ELSE {})
    IN IF limits = {} THEN None ELSE Min(limits)

IsChannelFull(ch) ==
    /\ ch.consumers > 0 /\ ch.ack = 0
    /\ Known(ChannelCapacity(ch)) /\ ch.unacked >= ChannelCapacity(ch)

(* Mutant: the time starts again with every check. *)
TrackStuckNow(previous, channels, now) == [c \in {ch.name : ch \in {x \in channels : IsChannelFull(x)}} |-> now]

(* When each channel that is full now was first seen full: the earliest time is carried on. *)
TrackStuckChannels(previous, channels, now) ==
    [c \in {ch.name : ch \in {x \in channels : IsChannelFull(x)}} |->
        IF c \in DOMAIN previous THEN previous[c] ELSE now]

IsStuck(ch, since, now) == /\ IsChannelFull(ch) /\ ch.name \in DOMAIN since
                           /\ now - since[ch.name] >= StuckFor

Unbounded(ch) == ch.consumers > 0 /\ ChannelCapacity(ch) = None /\ ch.unacked >= UnboundedUnacked

ChannelFindings(ch, since, now) ==
          When(IsStuck(ch, since, now), "consumer-stuck", "warning", ch.name)
    \cup When(Unbounded(ch), "unbounded-prefetch", "warning", ch.name)

-----------------------------------------------------------------------------
(* Everything found. *)
NodesFound(sample) == UNION {NodeFindings(n) : n \in sample.nodes}

QueuesFound(sample) ==
    LET down == {n.name : n \in {m \in sample.nodes : ~m.running}}
        running == Cardinality({n \in sample.nodes : n.running})
        targets == DeadLetterTargets(sample.queues)
    IN UNION {QueueFindings(q, running, down, targets) : q \in sample.queues}

ChannelsFound(sample, since, now) == UNION {ChannelFindings(ch, since, now) : ch \in sample.channels}

Found(sample, since, now) ==
         NodesFound(sample) \cup When(sample.unroutable > 0, "unroutable", "warning", "cluster")
    \cup QueuesFound(sample) \cup ChannelsFound(sample, since, now)

(* The most severe first; the order of the equally severe, that of their wording, is left out. *)
BySeverity(found) ==
    LET of(severity) == SetToSeq({f \in found : f.severity = severity})
    IN of("critical") \o of("warning") \o of("info")

AnalyzeHealth(sample, since, now) == BySeverity(Found(sample, since, now))

-----------------------------------------------------------------------------
(* The broker after one of its nodes stops: its replicas are offline, the states of the queues unchanged. *)
Stopped(sample, node) ==
    [sample EXCEPT
        !.nodes = {IF n.name = node THEN [n EXCEPT !.running = FALSE] ELSE n : n \in sample.nodes},
        !.queues = {IF Known(q.online) THEN [q EXCEPT !.online = @ \ {node}] ELSE q : q \in sample.queues}]

(* "one stopped node does not produce a warning per quorum queue" (health.ts:213): all that stopping a node *)
(* adds to the findings is the finding of that node, and whatever else was found of that node goes.         *)
StoppedNodeIsOneFinding(sample) ==
    \A node \in {n.name : n \in {m \in sample.nodes : m.running}} :
        LET before == ToSet(AnalyzeHealth(sample, << >>, 0))
            after == ToSet(AnalyzeHealth(Stopped(sample, node), << >>, 0))
        IN \A f \in after \ before : f.rule = "node-down" /\ f.subject = node
=============================================================================
