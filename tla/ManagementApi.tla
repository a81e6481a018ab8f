---------------------------- MODULE ManagementApi ---------------------------
(***************************************************************************)
(* What the extension makes of a broker's answers: the mapping of raw      *)
(* objects to the ones the pages use (src/main/rabbitmq/normalize.ts).  A  *)
(* raw object is a record; a field that is missing, or of another type     *)
(* than expected, is None.  Fields that are only shown are left out.       *)
(***************************************************************************)
EXTENDS Absent, Naturals, FiniteSetsExt

(* Of the messages of a peek: between one and the limit. *)
PeekCount(n, limit) == Max({1, Min({limit, n})})

-----------------------------------------------------------------------------
Flag(x) == x = TRUE              \* Boolean(x)
Count(x) == Or(x, 0)             \* num(x) ?? 0
Rate(raw, key) == IF raw.stats = None THEN 0 ELSE Or(raw.stats[key], 0)

ToNode(raw) ==
    [name |-> Or(raw.name, ""), running |-> raw.running # FALSE,
     memAlarm |-> Flag(raw.mem_alarm), memUsed |-> raw.mem_used, memLimit |-> raw.mem_limit,
     diskFreeAlarm |-> Flag(raw.disk_free_alarm), diskFree |-> raw.disk_free, diskFreeLimit |-> raw.disk_free_limit,
     fdUsed |-> raw.fd_used, fdTotal |-> raw.fd_total, socketsUsed |-> raw.sockets_used,
     socketsTotal |-> raw.sockets_total, procUsed |-> raw.proc_used, procTotal |-> raw.proc_total,
     partitions |-> Or(raw.partitions, {})]

(* `capacity`: consumer_capacity or else consumer_utilisation, in percent. *)
ToQueueSummary(raw) ==
    [name |-> Or(raw.name, ""), vhost |-> Or(raw.vhost, "/"), type |-> Or(raw.type, "classic"),
     state |-> Or(raw.state, "unknown"), ready |-> Count(raw.messages_ready), consumers |-> Count(raw.consumers),
     lowCapacity |-> LET c == Or(raw.consumer_capacity, raw.consumer_utilisation) IN c # None /\ c < 50,
     publish |-> Rate(raw, "publish"), deliver |-> Rate(raw, "deliver_get"), redeliver |-> Rate(raw, "redeliver"),
     members |-> raw.members, online |-> raw.online,
     namedDeadLetter |-> raw.named_dead_letter,
     deadLetter |-> IF raw.arguments = None THEN [exchange |-> None, routingKey |-> None] ELSE raw.arguments]

ToChannel(raw) ==
    [name |-> Or(raw.name, ""), consumers |-> Count(raw.consumer_count), prefetch |-> Count(raw.prefetch_count),
     globalPrefetch |-> Count(raw.global_prefetch_count), unacked |-> Count(raw.messages_unacknowledged),
     ack |-> Rate(raw, "ack")]

ToConnection(raw) ==
    [name |-> Or(raw.name, ""), peer |-> raw.peer_host, user |-> Or(raw.user, ""), channels |-> Count(raw.channels),
     blocked |-> raw.state \in {"blocked", "blocking"}, since |-> raw.connected_at]

(* A peeked message is truncated when the broker counted more bytes than the peek asks for. *)
ToPeekedMessage(raw, index, limit) ==
    LET bytes == Or(raw.payload_bytes, Or(raw.payload_length, 0))
    IN [index |-> index, truncated |-> bytes > limit, redelivered |-> Flag(raw.redelivered),
        contentKind |-> IF raw.encoding = "base64" THEN "binary"
                        ELSE IF Flag(raw.json_type) \/ Flag(raw.parses_as_json) THEN "json" ELSE "text",
        headers |-> raw.headers]

(* What a broker does not tell is nothing: of every object, message and rate. *)
ToOverview(raw) ==
    LET count(totals, what) == IF totals = None THEN 0 ELSE Or(totals[what], 0)
    IN [totals |-> [what \in {"queues", "exchanges", "connections", "channels", "consumers"} |->
                       count(raw.object_totals, what)],
        queueTotals |-> [what \in {"messages", "messages_ready", "messages_unacknowledged"} |->
                            count(raw.queue_totals, what)],
        rates |-> [what \in {"publish", "deliver_get", "ack", "redeliver", "confirm", "return_unroutable",
                             "drop_unroutable"} |-> Rate(raw, what)]]

(* What the Health page loads: the nodes and the unroutable messages of the overview, queues, channels. *)
ToSample(raw) ==
    LET rates == ToOverview(raw).rates
    IN [nodes |-> {ToNode(n) : n \in raw.nodes}, queues |-> {ToQueueSummary(q) : q \in raw.queues},
        channels |-> {ToChannel(ch) : ch \in raw.channels},
        unroutable |-> rates["return_unroutable"] + rates["drop_unroutable"]]

=============================================================================
