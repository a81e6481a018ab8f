----------------------------- MODULE DeadLetter -----------------------------
(***************************************************************************)
(* Decoding the dead-letter headers of a peeked message and planning its   *)
(* replay (src/common/dead-letter.ts), and the summary of a batch          *)
(* (src/renderer/dead-letter.ts).  The broker that writes the headers is   *)
(* modelled beside it, so that what is decoded can be compared with what   *)
(* happened to the message.  A header that is absent, or not of the type   *)
(* expected, is None.                                                      *)
(***************************************************************************)
EXTENDS Absent, Integers, Sequences, SequencesExt, FiniteSetsExt

(* `headers`: the death history as the broker sends it, the first and last death, and the other header keys. *)
NoHeaders == [death |-> <<>>, firstQueue |-> None, firstReason |-> None, firstExchange |-> None,
              lastQueue |-> None, lastReason |-> None, other |-> {}]

Falsy(name) == name \in {None, ""}

(* An entry without queue or reason is left out; a count that is not positive is 1. *)
ToEntry(raw) == [raw EXCEPT !.count = IF raw.count # None /\ raw.count > 0 THEN raw.count ELSE 1]

History(headers) ==
    LET raw == headers.death
        kept[n \in 0..Len(raw)] ==
            IF n = 0 THEN <<>>
            ELSE IF Falsy(raw[n].queue) \/ Falsy(raw[n].reason) THEN kept[n - 1]
            ELSE Append(kept[n - 1], ToEntry(raw[n]))
    IN kept[Len(raw)]

(* Mutant: without looking for the queue, the oldest entry is taken for the first death. *)
FirstEntryOldest(headers) ==
    IF History(headers) = <<>> THEN None ELSE Last(History(headers))

(* The entry of the first death: that of the first queue (and reason), or else the oldest. *)
FirstEntry(headers) ==
    LET h == History(headers)
        isFirst(e) == e.queue = headers.firstQueue /\ (Falsy(headers.firstReason) \/ e.reason = headers.firstReason)
        first == {i \in DOMAIN h : isFirst(h[i])}
    IN IF h = <<>> THEN None ELSE IF first # {} THEN h[Min(first)] ELSE Last(h)

(* The last death's queue, reason: the newest entry stands in for the header. *)
Newest(headers, field) == IF History(headers) = <<>> THEN None ELSE Head(History(headers))[field]

(* None when the message was never dead-lettered. *)
ParseDeath(headers) ==
    IF History(headers) = <<>> /\ Falsy(headers.firstQueue) THEN None
    ELSE LET first == FirstEntry(headers)
             counted == SumFunction([i \in DOMAIN History(headers) |-> History(headers)[i].count])
         IN [total |-> IF counted = 0 THEN 1 ELSE counted,
             firstQueue |-> IF first = None THEN headers.firstQueue ELSE Or(headers.firstQueue, first.queue),
             firstReason |-> IF first = None THEN headers.firstReason ELSE Or(headers.firstReason, first.reason),
             lastQueue |-> Or(headers.lastQueue, Newest(headers, "queue")),
             lastReason |-> Or(headers.lastReason, Newest(headers, "reason")),
             original |-> IF first # None
                          THEN [exchange |-> first.exchange, routingKeys |-> first.routingKeys, queue |-> first.queue]
                          ELSE [exchange |-> Or(headers.firstExchange, ""), routingKeys |-> <<>>,
                                queue |-> headers.firstQueue]]

DeathReason(death) == Or(death.lastReason, "unknown")

-----------------------------------------------------------------------------
BrokerHeaders == {"x-delivery-count", "x-acquired-count"}   \* and the death headers
ExtraRoutingHeaders == {"CC", "BCC"}

(* Where and with which headers a message is replayed; None where the planner gives an error. *)
PlanReplay(headers, destination) ==
    LET death == ParseDeath(headers)
        kept == headers.other \ (BrokerHeaders \cup
                    (IF destination = "failed-queue" THEN ExtraRoutingHeaders ELSE {}))
    IN IF death = None THEN None
       ELSE IF destination = "failed-queue"
       THEN IF Falsy(death.firstQueue) THEN None
            ELSE [exchange |-> "", routingKey |-> death.firstQueue, headers |-> [NoHeaders EXCEPT !.other = kept]]
       ELSE IF death.original.routingKeys = <<>> THEN None
            ELSE [exchange |-> death.original.exchange, routingKey |-> Head(death.original.routingKeys),
                  headers |-> [NoHeaders EXCEPT !.other = kept]]

(* Of a batch: how many died, why, and in which queue. *)
SummarizeDeaths(batch) ==
    LET dead == {i \in DOMAIN batch : ParseDeath(batch[i]) # None}
        reason(i) == DeathReason(ParseDeath(batch[i]))
        queue(i) == Or(ParseDeath(batch[i]).lastQueue, "unknown")
    IN [total |-> Len(batch), deadLettered |-> Cardinality(dead),
        byReason |-> [r \in {reason(i) : i \in dead} |-> Cardinality({i \in dead : reason(i) = r})],
        byQueue |-> [q \in {queue(i) : i \in dead} |-> Cardinality({i \in dead : queue(i) = q})]]

(* The inspector's filter: "" shows all, "none" the messages that never died, else those of one reason. *)
MatchesReason(headers, filter) ==
    LET death == ParseDeath(headers)
    IN \/ filter = ""
       \/ filter = "none" /\ death = None
       \/ filter # "none" /\ death # None /\ DeathReason(death) = filter

-----------------------------------------------------------------------------
(* What a death, an entry of a history, and what is decoded from a history are made of. *)
Death(Q, R, E, K) == [queue : Q, reason : R, exchange : E, key : K]
DeathEntry(Q, R, E, K) == [queue : Q, reason : R, count : Nat \ {0}, exchange : E, routingKeys : {<<k>> : k \in K}]
DeathInfo(Q, R, E, K) ==
    [total : Nat, firstQueue : Q, firstReason : R, lastQueue : Q, lastReason : R,
     original : [exchange : E, routingKeys : {<<k>> : k \in K}, queue : Q]]

(* Names are strings that are there, a queue's and a reason's are not empty, and `undefined` is no number or object. *)
Named(Q, R, E, K) ==
    /\ None \notin Q \cup R \cup E /\ None \notin Nat /\ "" \notin Q \cup R
    /\ None \notin DeathEntry(Q, R, E, K) /\ None \notin DeathInfo(Q, R, E, K)

-----------------------------------------------------------------------------
(* The broker: a death in a queue for a reason adds to its entry, which comes first, or makes one. *)
Died(headers, d) ==
    LET old == {i \in DOMAIN headers.death : headers.death[i].queue = d.queue /\ headers.death[i].reason = d.reason}
        entry == IF old = {} THEN [queue |-> d.queue, reason |-> d.reason, count |-> 1,
                                   exchange |-> d.exchange, routingKeys |-> <<d.key>>]
                 ELSE [headers.death[Min(old)] EXCEPT !.count = @ + 1]
    IN [headers EXCEPT
            !.death = <<entry>> \o (IF old = {} THEN @ ELSE RemoveAt(@, Min(old))),
            !.firstQueue = Or(@, d.queue), !.firstReason = Or(@, d.reason), !.firstExchange = Or(@, d.exchange),
            !.lastQueue = d.queue, !.lastReason = d.reason,
            !.other = @ \cup {"x-delivery-count"}]

(* The headers of a message published with some headers of its own that died again and again. *)
HeadersAfter(own, deaths) ==
    LET after[n \in 0..Len(deaths)] ==
            IF n = 0 THEN [NoHeaders EXCEPT !.other = own] ELSE Died(after[n - 1], deaths[n])
    IN after[Len(deaths)]

(* Decoding is the inverse of what the broker wrote: every death is counted, and the first and the last are *)
(* told from the others, though entries of the same queue and reason are merged and reordered; so a replay  *)
(* goes back to where the message failed first or was first published, and looks as if it had never died.   *)
DecodesTheHistory(own, deaths) ==
    LET headers == HeadersAfter(own, deaths)
        death == ParseDeath(headers)
        back == PlanReplay(headers, "failed-queue")
        again == PlanReplay(headers, "original-exchange")
    IN IF deaths = <<>> THEN death = None /\ back = None /\ again = None
       ELSE /\ death.total = Len(deaths)
            /\ death.firstQueue = deaths[1].queue /\ death.lastQueue = Last(deaths).queue
            /\ DeathReason(death) = Last(deaths).reason
            /\ back.exchange = "" /\ back.routingKey = deaths[1].queue
            /\ again.exchange = deaths[1].exchange /\ again.routingKey = deaths[1].key
            /\ again.headers = HeadersAfter(own, <<>>)
            /\ back.headers.other = own \ ExtraRoutingHeaders

(* Each option of the inspector's filter shows as many messages of the batch as it says. *)
FilterSaysWhatItShows(batch) ==
    LET summary == SummarizeDeaths(batch)
        shows(filter) == Cardinality({i \in DOMAIN batch : MatchesReason(batch[i], filter)})
    IN /\ \A r \in DOMAIN summary.byReason : shows(r) = summary.byReason[r]
       /\ shows("none") = summary.total - summary.deadLettered
       /\ shows("") = summary.total
       /\ SumFunction(summary.byQueue) = summary.deadLettered
=============================================================================
