---------------------------- MODULE MCQueuePage ----------------------------
(* Two batches: two dead letters; a dead letter that is too large and a message that never died. *)
EXTENDS QueuePage, ManagementApi
CONSTANTS b1, b2, q1, q2
Limit == 64
Raw(reason, bytes) ==
    [payload_bytes |-> bytes, payload_length |-> None, redelivered |-> TRUE, encoding |-> "string",
     json_type |-> None, parses_as_json |-> None,
     headers |-> IF reason = "none" THEN NoHeaders
                 ELSE HeadersAfter({}, <<[queue |-> "q", reason |-> reason, exchange |-> "e", key |-> "k"]>>)]
Peeked(raws) == [i \in 1..PeekCount(Len(raws), 2) |-> ToPeekedMessage(raws[i], i, Limit)]
SomeBatches == {Peeked(<<Raw("rejected", 1), Raw("expired", 1)>>), Peeked(<<Raw("expired", 65), Raw("none", 1)>>)}
OneBatch == {Peeked(<<Raw("rejected", 1)>>)}
Alike == Permutations({b1, b2}) \cup Permutations({q1, q2})
=============================================================================
