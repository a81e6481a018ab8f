------------------------ MODULE WriteRequestsProofs ------------------------
(***************************************************************************)
(* For any set of targets, requests and credentials and any batch: what    *)
(* the handlers, the retry and the replay write to the broker.             *)
(***************************************************************************)
EXTENDS WriteRequests, TLAPS

Wrote(c) == \E i \in Items : Published(c, i) # 0
Sent(c) == IF request[c] = "sent" THEN 1 ELSE 0

(* A request in flight belongs to a call that is served; only calls the gate let in have one. *)
InFlight(c) ==
    /\ kind[c] = "none" => ~armed[c] /\ result[c] = "none" /\ at[c] = 0 /\ report[c] = <<>>
    /\ ~armed[c] => phase[c] = "idle" /\ request[c] = "none" /\ ~Wrote(c)
    /\ request[c] # "none" => phase[c] = "served" /\ at[c] \in Items /\ result[c] = "none"
    /\ result[c] # "none" => phase[c] = "idle"
    /\ result[c] = "blocked" => ~Wrote(c)

(* A run of fn writes at most once, and there are two runs at most: again counts the first. *)
OncePerRun(c) ==
    kind[c] = "publish" =>
        /\ at[c] \in {0, 1}
        /\ \A i \in Items \ {1} : Published(c, i) = 0
        /\ Published(c, 1) + Sent(c) <= IF result[c] # "none" THEN 2
                                        ELSE at[c] + (IF again[c] THEN 1 ELSE 0)

DeletedOnce(c) == kind[c] = "delete" => \A i \in Items : effects[c][i] <= 1

(* A replay is at the message after the last it reported, and wrote none of those it did not come to. *)
InOrder(c) ==
    kind[c] = "replay" =>
        /\ Len(report[c]) = IF at[c] = 0 THEN 0 ELSE at[c] - 1
        /\ \A i \in Items : i >= at[c] =>
             IF i = at[c] /\ request[c] = "routed" THEN effects[c][i] = 1 /\ late[c][i] = 0
                                                   ELSE Published(c, i) = 0
        /\ \A i \in 1..Len(report[c]) :
             /\ Published(c, i) <= 1
             /\ report[c][i] = "routed" => effects[c][i] = 1
             /\ report[c][i] \in {"skipped", "unroutable"} => Published(c, i) = 0
        /\ result[c] = "done" => at[c] = Len(Batch) + 1

CallInv(c) == InFlight(c) /\ OncePerRun(c) /\ DeletedOnce(c) /\ InOrder(c)

Inv == TypeOK /\ \A c \in Callers : CallInv(c)

-----------------------------------------------------------------------------
Outcomes == {"routed", "unroutable", "skipped", "failed"}

SessionsTypeOK ==
    /\ inForce \in [Keys -> Creds]
    /\ live \in [Keys -> SUBSET Creds]
    /\ phase \in [Callers -> {"idle", "waiting", "served"}]
    /\ target \in [Callers -> Keys]
    /\ again \in [Callers -> BOOLEAN]

LEMMA MovesTyped ==
    ASSUME SessionsTypeOK, NEW W, NEW p \in {"idle", "waiting", "served"}, Sessions!Moves(W, p)
    PROVE  /\ phase' \in [Callers -> {"idle", "waiting", "served"}]
           /\ again' \in [Callers -> BOOLEAN]
<1>1. phase' \in [Callers -> {"idle", "waiting", "served"}]
  BY DEF SessionsTypeOK, Sessions!Moves
<1>2. \A c \in Callers : (again[c] /\ (c \in W => p # "idle")) \in BOOLEAN
  OBVIOUS
<1>3. again' \in [Callers -> BOOLEAN]
  BY <1>2, Zenon DEF Sessions!Moves
<1> QED BY <1>1, <1>3

LEMMA SessionsTyped == ASSUME SessionsTypeOK, [Sessions!Next]_sessionVars PROVE SessionsTypeOK'
<1>1. ASSUME NEW c \in Callers, NEW k \in Keys, Sessions!Ask(c, k) PROVE SessionsTypeOK'
  <2>1. phase' \in [Callers -> {"idle", "waiting", "served"}] /\ again' \in [Callers -> BOOLEAN]
    BY <1>1, MovesTyped DEF Sessions!Ask
  <2> QED BY <1>1, <2>1 DEF SessionsTypeOK, Sessions!Ask
<1>2. ASSUME NEW c \in Callers, NEW drops \in BOOLEAN, Sessions!Answer(c, drops) PROVE SessionsTypeOK'
  <2>1. phase' \in [Callers -> {"idle", "waiting", "served"}] /\ again' \in [Callers -> BOOLEAN]
    BY <1>2, MovesTyped DEF Sessions!Answer
  <2> QED BY <1>2, <2>1 DEF SessionsTypeOK, Sessions!Answer
<1>3. ASSUME NEW c \in Callers, Sessions!AskAgain(c) PROVE SessionsTypeOK'
  BY <1>3 DEF SessionsTypeOK, Sessions!AskAgain
<1>4. ASSUME NEW k \in Keys, NEW W \in SUBSET Sessions!Waiting(k),
             Sessions!Establish(k, W) \/ Sessions!ServeLate(k, W) \/ Sessions!GiveUp(k, W)
      PROVE  SessionsTypeOK'
  <2>1. phase' \in [Callers -> {"idle", "waiting", "served"}] /\ again' \in [Callers -> BOOLEAN]
    BY <1>4, MovesTyped DEF Sessions!Establish, Sessions!ServeLate, Sessions!GiveUp
  <2> QED BY <1>4, <2>1 DEF SessionsTypeOK, Sessions!Establish, Sessions!ServeLate, Sessions!GiveUp
<1>5. ASSUME NEW k \in Keys, Sessions!Drop(k) \/ \E cr \in Creds : Sessions!ChangeCredentials(k, cr)
      PROVE  SessionsTypeOK'
  BY <1>5 DEF SessionsTypeOK, Sessions!Drop, Sessions!ChangeCredentials
<1>6. CASE Sessions!DropAll
  BY <1>6, CredsAssumption DEF SessionsTypeOK, Sessions!DropAll
<1>7. CASE UNCHANGED sessionVars
  BY <1>7 DEF SessionsTypeOK, sessionVars
<1> QED BY <1>1, <1>2, <1>3, <1>4, <1>5, <1>6, <1>7 DEF Sessions!Next

-----------------------------------------------------------------------------
LEMMA BatchFacts == Len(Batch) \in Nat \ {0} /\ Items \subseteq Nat \ {0} /\ 1 \in Items
BY BatchAssumption DEF Items

LEMMA Counted ==
    ASSUME NEW f \in [Callers -> [Items -> Nat]], NEW c \in Callers, NEW i \in Items, NEW n \in Nat
    PROVE  [f EXCEPT ![c][i] = n] \in [Callers -> [Items -> Nat]]
<1>1. [f[c] EXCEPT ![i] = n] \in [Items -> Nat]
  OBVIOUS
<1> QED BY <1>1

(* A step of one call, or of the broker for it. *)
CallStep(c) ==
    \/ \E k \in Keys, kd \in Kinds : Comes(c, k, kd)
    \/ FnGoesOn(c)
    \/ BrokerAnswers(c)
    \/ \E i \in Items : BrokerGetsLate(c, i)

LEMMA CallTyped ==
    ASSUME TypeOK, NEW c \in Callers, request[c] # "none" => at[c] \in Items,
           CallStep(c)
    PROVE  TypeOK'
<1>0. SessionsTypeOK /\ Len(Batch) \in Nat \ {0} /\ Items \subseteq Nat \ {0} /\ 1 \in Items
  BY BatchFacts DEF TypeOK, SessionsTypeOK
<1>1. ASSUME NEW k \in Keys, NEW kd \in Kinds, Comes(c, k, kd) PROVE TypeOK'
  <2>1. SessionsTypeOK'
    BY <1>0, <1>1, SessionsTyped DEF Comes, Sessions!Next, sessionVars
  <2>2. armed' \in [Callers -> BOOLEAN]
    <3>1. (k \in writeMode) \in BOOLEAN
      OBVIOUS
    <3> QED BY <3>1, <1>1, Zenon DEF TypeOK, Comes, Set
  <2>3. kind' \in [Callers -> Kinds \cup {"none"}] /\ result' \in [Callers -> {"none", "done", "failed", "blocked"}]
    BY <1>1 DEF TypeOK, Comes, Set
  <2>4. UNCHANGED <<writeMode, at, request, late, effects, report>>
    BY <1>1 DEF Comes, fnVars
  <2> QED BY <2>1, <2>2, <2>3, <2>4 DEF TypeOK, SessionsTypeOK
<1>2. ASSUME NEW how \in {"done", "failed", "blocked"}, NEW drops \in BOOLEAN, Ends(c, how, drops)
      PROVE  /\ SessionsTypeOK'
             /\ result' \in [Callers -> {"none", "done", "failed", "blocked"}]
  <2>1. SessionsTypeOK'
    BY <1>0, <1>2, SessionsTyped DEF Ends, Sessions!Next
  <2> QED BY <2>1, <1>2 DEF TypeOK, Ends, Set
<1>3. ASSUME NEW outcome \in Outcomes, Reports(c, outcome), at[c] \in Items
      PROVE  /\ report' \in [Callers -> Seq(Outcomes)]
             /\ at' \in [Callers -> 0..Len(Batch) + 1]
             /\ request' \in [Callers -> {"none", "sent"} \cup Answers]
  <2>1. report[c] \in Seq(Outcomes) /\ at[c] + 1 \in 0..Len(Batch) + 1
    BY <1>0, <1>3 DEF TypeOK, Outcomes, Items
  <2>2. Append(report[c], outcome) \in Seq(Outcomes)
    BY <2>1
  <2> QED BY <1>3, <2>1, <2>2 DEF TypeOK, Reports, Set, Outcomes
<1>4. Abandons(c) /\ at[c] \in Items => late' \in [Callers -> [Items -> Nat]]
  BY <1>0, Counted DEF TypeOK, Abandons
<1>5. ASSUME Begins(c) PROVE TypeOK'
  <2>1. CASE kind[c] = "replay" /\ target[c] \notin writeMode
    BY <1>2, <1>5, <2>1 DEF Begins, TypeOK, SessionsTypeOK
  <2>2. CASE ~(kind[c] = "replay" /\ target[c] \notin writeMode)
    <3>1. at' \in [Callers -> 0..Len(Batch) + 1]
      <4>1. 1 \in 0..Len(Batch) + 1
        BY <1>0
      <4> QED BY <4>1, <1>5, <2>2 DEF Begins, Set, TypeOK
    <3>2. request' \in [Callers -> {"none", "sent"} \cup Answers]
      <4>1. (IF kind[c] = "replay" THEN "none" ELSE "sent") \in {"none", "sent"}
        OBVIOUS
      <4> QED BY <4>1, <1>5, <2>2 DEF Begins, Set, TypeOK
    <3> QED BY <1>5, <2>2, <3>1, <3>2 DEF Begins, TypeOK, sessionVars
  <2> QED BY <2>1, <2>2
<1>6. ASSUME RejectsBatch(c) \/ ReplayEnds(c) PROVE TypeOK'
  BY <1>2, <1>6 DEF RejectsBatch, ReplayEnds, TypeOK, SessionsTypeOK, fnVars
<1>7. ASSUME Publishes(c) PROVE TypeOK'
  BY <1>7 DEF Publishes, TypeOK, Set, sessionVars
<1>8. ASSUME Skips(c) PROVE TypeOK'
  BY <1>3, <1>8 DEF Skips, TypeOK, Outcomes, sessionVars
<1>9. ASSUME BrokerAnswers(c), at[c] \in Items PROVE TypeOK'
  <2>1. effects' \in [Callers -> [Items -> Nat]]
    <3>1. effects[c][at[c]] + 1 \in Nat
      BY <1>9 DEF TypeOK
    <3>2. Carried(c, at[c]) \in [Callers -> [Items -> Nat]]
      BY <1>9, <3>1, Counted DEF Carried, TypeOK
    <3> QED BY <1>9, <3>2 DEF BrokerAnswers, TypeOK
  <2>2. request' \in [Callers -> {"none", "sent"} \cup Answers]
    BY <1>9 DEF BrokerAnswers, Set, TypeOK, Answers
  <2> QED BY <1>9, <2>1, <2>2 DEF BrokerAnswers, TypeOK, sessionVars
<1>10. ASSUME NEW i \in Items, BrokerGetsLate(c, i) PROVE TypeOK'
  <2>1. effects' \in [Callers -> [Items -> Nat]] /\ late' \in [Callers -> [Items -> Nat]]
    <3>1. effects[c][i] + 1 \in Nat /\ late[c][i] - 1 \in Nat
      BY <1>10 DEF TypeOK, BrokerGetsLate
    <3>2. /\ Carried(c, i) \in [Callers -> [Items -> Nat]]
          /\ [late EXCEPT ![c][i] = late[c][i] - 1] \in [Callers -> [Items -> Nat]]
      BY <3>1, Counted DEF Carried, TypeOK
    <3> QED BY <1>10, <3>2 DEF BrokerGetsLate, TypeOK
  <2> QED BY <1>10, <2>1 DEF BrokerGetsLate, TypeOK, sessionVars
<1>11. ASSUME Answered(c), at[c] \in Items PROVE TypeOK'
  <2>1. CASE kind[c] = "replay"
    BY <1>3, <1>11, <2>1 DEF Answered, Outcome, Outcomes, TypeOK, sessionVars
  <2>2. CASE kind[c] # "replay"
    <3>1. /\ SessionsTypeOK'
          /\ result' \in [Callers -> {"none", "done", "failed", "blocked"}]
      BY <1>2, <1>11, <2>2 DEF Answered
    <3> QED BY <1>11, <2>2, <3>1 DEF Answered, Set, TypeOK, SessionsTypeOK
  <2> QED BY <2>1, <2>2
<1>12. ASSUME ConnectionBreaks(c), at[c] \in Items PROVE TypeOK'
  <2>1. CASE kind[c] = "replay"
    BY <1>3, <1>4, <1>12, <2>1 DEF ConnectionBreaks, Outcomes, TypeOK, sessionVars
  <2>2. CASE kind[c] # "replay" /\ again[c]
    BY <1>2, <1>4, <1>12, <2>2 DEF ConnectionBreaks, Set, TypeOK, SessionsTypeOK
  <2>3. CASE kind[c] # "replay" /\ ~again[c]
    <3>1. SessionsTypeOK'
      BY <1>0, <1>12, <2>3, SessionsTyped DEF ConnectionBreaks, Sessions!Next
    <3>2. at' \in [Callers -> 0..Len(Batch) + 1]
      <4>1. 0 \in 0..Len(Batch) + 1
        BY <1>0
      <4> QED BY <4>1, <1>12, <2>3 DEF ConnectionBreaks, Set, TypeOK
    <3>3. request' \in [Callers -> {"none", "sent"} \cup Answers]
      BY <1>12, <2>3 DEF ConnectionBreaks, Set, TypeOK
    <3> QED BY <1>4, <1>12, <2>3, <3>1, <3>2, <3>3 DEF ConnectionBreaks, TypeOK, SessionsTypeOK
  <2> QED BY <2>1, <2>2, <2>3
<1>13. ASSUME TimesOut(c), at[c] \in Items PROVE TypeOK'
  <2>1. CASE kind[c] = "replay"
    BY <1>3, <1>4, <1>13, <2>1 DEF TimesOut, Outcomes, TypeOK, sessionVars
  <2>2. CASE kind[c] # "replay"
    BY <1>2, <1>4, <1>13, <2>2 DEF TimesOut, Set, TypeOK, SessionsTypeOK
  <2> QED BY <2>1, <2>2
<1>14. request[c] # "none" => at[c] \in Items
  OBVIOUS
<1> QED
  BY <1>1, <1>5, <1>6, <1>7, <1>8, <1>9, <1>10, <1>11, <1>12, <1>13, <1>14
  DEF CallStep, FnGoesOn, BrokerAnswers, Answered, ConnectionBreaks, TimesOut, Answers

-----------------------------------------------------------------------------
(* Nothing changes for call d. *)
Untouched(d) ==
    /\ armed'[d] = armed[d] /\ kind'[d] = kind[d] /\ result'[d] = result[d]
    /\ at'[d] = at[d] /\ request'[d] = request[d] /\ report'[d] = report[d]
    /\ late'[d] = late[d] /\ effects'[d] = effects[d]
    /\ phase'[d] = phase[d] /\ (again'[d] <=> again[d])

LEMMA UntouchedKeeps == ASSUME NEW d \in Callers, Untouched(d), CallInv(d) PROVE CallInv(d)'
<1>1. \A i \in Items : Published(d, i)' = Published(d, i)
  BY DEF Untouched, Published
<1>2. InFlight(d)'
  BY <1>1 DEF Untouched, CallInv, InFlight, Wrote
<1>3. OncePerRun(d)'
  <2>1. 1 \in Items /\ Sent(d)' = Sent(d)
    BY BatchFacts DEF Untouched, Sent
  <2> QED BY <1>1, <2>1 DEF Untouched, CallInv, OncePerRun
<1>4. DeletedOnce(d)'
  BY DEF Untouched, CallInv, DeletedOnce
<1>5. InOrder(d)'
  <2> SUFFICES ASSUME kind'[d] = "replay" PROVE InOrder(d)'
    BY DEF InOrder
  <2>1. \A i \in Items : Published(d, i)' = Published(d, i)
    BY <1>1
  <2> QED BY <2>1 DEF Untouched, CallInv, InOrder, Published
<1> QED BY <1>2, <1>3, <1>4, <1>5 DEF CallInv

LEMMA OthersUntouched ==
    ASSUME TypeOK, NEW c \in Callers, CallStep(c), NEW d \in Callers \ {c}
    PROVE  Untouched(d)
<1>1. ASSUME NEW p, Sessions!Moves({c}, p) PROVE phase'[d] = phase[d] /\ (again'[d] <=> again[d])
  BY <1>1 DEF Sessions!Moves, TypeOK
<1>2. ASSUME NEW f, NEW v, NEW S, f \in [Callers -> S] PROVE Set(f, c, v)[d] = f[d]
  BY <1>2 DEF Set
<1>3. ASSUME NEW how, NEW drops, Ends(c, how, drops)
      PROVE  result'[d] = result[d] /\ phase'[d] = phase[d] /\ (again'[d] <=> again[d])
  BY <1>1, <1>3 DEF Ends, Sessions!Answer, Set, TypeOK
<1>4. ASSUME NEW outcome, Reports(c, outcome)
      PROVE  report'[d] = report[d] /\ at'[d] = at[d] /\ request'[d] = request[d]
  BY <1>4 DEF Reports, Set, TypeOK
<1>5. Abandons(c) => late'[d] = late[d]
  BY DEF Abandons, TypeOK
<1>6. ASSUME NEW k \in Keys, NEW kd \in Kinds, Comes(c, k, kd) PROVE Untouched(d)
  BY <1>1, <1>6 DEF Comes, Sessions!Ask, Set, TypeOK, Untouched, fnVars, sessionVars
<1>7. ASSUME Begins(c) PROVE Untouched(d)
  BY <1>3, <1>7 DEF Begins, Set, TypeOK, Untouched, sessionVars
<1>8. ASSUME RejectsBatch(c) \/ ReplayEnds(c) PROVE Untouched(d)
  BY <1>3, <1>8 DEF RejectsBatch, ReplayEnds, Untouched, fnVars
<1>9. ASSUME Publishes(c) \/ Skips(c) PROVE Untouched(d)
  BY <1>4, <1>9 DEF Publishes, Skips, Set, TypeOK, Untouched, sessionVars
<1>10. ASSUME BrokerAnswers(c) PROVE Untouched(d)
  BY <1>10 DEF BrokerAnswers, Carried, Set, TypeOK, Untouched, sessionVars
<1>11. ASSUME NEW i \in Items, BrokerGetsLate(c, i) PROVE Untouched(d)
  BY <1>11 DEF BrokerGetsLate, Carried, TypeOK, Untouched, sessionVars
<1>12. ASSUME Answered(c) PROVE Untouched(d)
  BY <1>3, <1>4, <1>12 DEF Answered, Set, TypeOK, Untouched, sessionVars
<1>13. ASSUME TimesOut(c) PROVE Untouched(d)
  BY <1>3, <1>4, <1>5, <1>13 DEF TimesOut, Set, TypeOK, Untouched, sessionVars
<1>14. ASSUME ConnectionBreaks(c) PROVE Untouched(d)
  <2>1. CASE kind[c] = "replay"
    BY <1>4, <1>5, <1>14, <2>1 DEF ConnectionBreaks, Untouched, sessionVars
  <2>2. CASE kind[c] # "replay"
    BY <1>3, <1>5, <1>14, <2>2 DEF ConnectionBreaks, Sessions!AskAgain, Set, TypeOK, Untouched
  <2> QED BY <2>1, <2>2
<1> QED BY <1>6, <1>7, <1>8, <1>9, <1>10, <1>11, <1>12, <1>13, <1>14 DEF CallStep, FnGoesOn

-----------------------------------------------------------------------------
(* What a call keeps of its own invariant. *)

LEMMA EndsIs ==
    ASSUME TypeOK, NEW c \in Callers, NEW how, NEW drops, Ends(c, how, drops)
    PROVE  result'[c] = how /\ phase[c] = "served" /\ phase'[c] = "idle"
BY DEF Ends, Set, Sessions!Answer, Sessions!Moves, TypeOK

LEMMA ReportsIs ==
    ASSUME TypeOK, NEW c \in Callers, NEW outcome \in Outcomes, Reports(c, outcome)
    PROVE  /\ at'[c] = at[c] + 1 /\ request'[c] = "none"
           /\ Len(report'[c]) = Len(report[c]) + 1
           /\ report'[c][Len(report[c]) + 1] = outcome
           /\ \A i \in 1..Len(report[c]) : report'[c][i] = report[c][i]
<1>1. report[c] \in Seq(Outcomes) /\ report'[c] = Append(report[c], outcome)
  BY DEF Reports, Set, TypeOK, Outcomes
<1>2. at'[c] = at[c] + 1 /\ request'[c] = "none"
  BY DEF Reports, Set, TypeOK
<1> QED BY <1>1, <1>2

(* The replay goes on after message at[c], of which the broker may have carried out a copy. *)
LEMMA ReportKeeps ==
    ASSUME TypeOK, NEW c \in Callers, CallInv(c), kind[c] = "replay", at[c] \in Items,
           NEW outcome \in Outcomes, Reports(c, outcome),
           UNCHANGED <<sessionVars, armed, kind, effects, result>>,
           phase[c] = "served",
           \A i \in Items : late'[c][i] \in Nat,
           \A i \in Items \ {at[c]} : late'[c][i] = late[c][i],
           effects[c][at[c]] + late'[c][at[c]] <= 1,
           outcome = "routed" => effects[c][at[c]] = 1,
           outcome \in {"skipped", "unroutable"} => effects[c][at[c]] + late'[c][at[c]] = 0
    PROVE  CallInv(c)'
<1>1. /\ at'[c] = at[c] + 1 /\ request'[c] = "none" /\ kind'[c] = kind[c]
      /\ Len(report'[c]) = Len(report[c]) + 1
      /\ report'[c][Len(report[c]) + 1] = outcome
      /\ \A i \in 1..Len(report[c]) : report'[c][i] = report[c][i]
  BY ReportsIs
<1>2. at[c] \in Nat \ {0} /\ Len(report[c]) = at[c] - 1 /\ Items = 1..Len(Batch) /\ Len(Batch) \in Nat
  BY BatchFacts DEF CallInv, InOrder, Items
<1>3. result[c] = "none" /\ armed[c]
  BY DEF CallInv, InFlight
<1>4. InFlight(c)'
  BY <1>1, <1>3 DEF InFlight, sessionVars
<1>5. InOrder(c)'
  <2>1. Len(report'[c]) = IF at'[c] = 0 THEN 0 ELSE at'[c] - 1
    BY <1>1, <1>2
  <2>2. ASSUME NEW i \in Items, i >= at'[c] PROVE Published(c, i)' = 0
    <3>1. i \in Nat /\ i > at[c]
      BY <1>1, <1>2, <2>2
    <3>2. Published(c, i) = 0 /\ late'[c][i] = late[c][i]
      BY <1>2, <3>1 DEF CallInv, InOrder
    <3> QED BY <3>2 DEF Published
  <2>3. ASSUME NEW i \in 1..Len(report'[c])
        PROVE  /\ Published(c, i)' <= 1
               /\ report'[c][i] = "routed" => effects'[c][i] = 1
               /\ report'[c][i] \in {"skipped", "unroutable"} => Published(c, i)' = 0
    <3>1. CASE i = at[c]
      BY <1>1, <1>2, <3>1 DEF Published
    <3>2. CASE i # at[c]
      <4>1. i \in 1..Len(report[c]) /\ i \in Items
        BY <1>1, <1>2, <3>2
      <4>2. late'[c][i] = late[c][i]
        BY <3>2, <4>1
      <4> QED BY <1>1, <4>1, <4>2 DEF CallInv, InOrder, Published
    <3> QED BY <3>1, <3>2
  <2> QED BY <1>1, <1>3, <2>1, <2>2, <2>3 DEF InOrder
<1> QED BY <1>1, <1>4, <1>5 DEF CallInv, OncePerRun, DeletedOnce

(* A call that ends awaits nothing, and what it wrote stays. *)
LEMMA EndKeeps ==
    ASSUME TypeOK, TypeOK', NEW c \in Callers, CallInv(c),
           NEW how \in {"done", "failed", "blocked"}, NEW drops, Ends(c, how, drops),
           UNCHANGED <<armed, kind, at, effects, report>>,
           request'[c] = "none",
           \A i \in Items : Published(c, i)' <= Published(c, i) + (IF i = at[c] THEN Sent(c) ELSE 0),
           kind[c] = "replay" => UNCHANGED <<request, late>>,
           how = "blocked" => ~Wrote(c)',
           kind[c] = "replay" /\ how = "done" => at[c] = Len(Batch) + 1
    PROVE  CallInv(c)'
<1>1. result'[c] = how /\ phase[c] = "served" /\ phase'[c] = "idle"
  BY EndsIs
<1>2. result[c] = "none" /\ armed[c] /\ kind[c] # "none"
  BY <1>1 DEF CallInv, InFlight
<1>3. InFlight(c)'
  <2>1. result'[c] = "blocked" => ~Wrote(c)'
    BY <1>1
  <2> QED BY <1>1, <1>2, <2>1 DEF InFlight
<1>4. \A i \in Items : Published(c, i) \in Nat /\ Published(c, i)' \in Nat
  <2>1. \A i \in Items : late[c][i] \in Nat /\ effects[c][i] \in Nat
    BY DEF TypeOK
  <2>2. \A i \in Items : late'[c][i] \in Nat /\ effects'[c][i] \in Nat
    BY DEF TypeOK
  <2> QED BY <2>1, <2>2 DEF Published
<1>5. OncePerRun(c)'
  <2> SUFFICES ASSUME kind[c] = "publish"
               PROVE  /\ \A i \in Items \ {1} : Published(c, i)' = 0
                      /\ Published(c, 1)' <= 2 /\ at[c] \in {0, 1}
    <3>1. Sent(c)' = 0 /\ kind'[c] = kind[c] /\ at'[c] = at[c] /\ result'[c] # "none"
      BY <1>1 DEF Sent
    <3>2. 1 \in Items
      BY BatchFacts
    <3> QED BY <1>4, <3>1, <3>2 DEF OncePerRun
  <2>1. at[c] \in {0, 1} /\ 1 \in Items /\ 0 \notin Items
    BY BatchFacts DEF CallInv, OncePerRun
  <2>2. Published(c, 1) + Sent(c) <= 2
    BY <1>2, <1>4, <2>1 DEF CallInv, OncePerRun, Sent
  <2>3. Published(c, 1)' <= Published(c, 1) + Sent(c)
    BY <1>4, <2>1 DEF Sent
  <2>4. Published(c, 1)' <= 2
    BY <1>4, <2>1, <2>2, <2>3 DEF Sent
  <2>5. ASSUME NEW i \in Items \ {1} PROVE Published(c, i)' = 0
    <3>1. Published(c, i) = 0 /\ i # at[c]
      BY <2>1 DEF CallInv, OncePerRun
    <3> QED BY <1>4, <3>1
  <2> QED BY <2>1, <2>4, <2>5
<1>6. DeletedOnce(c)'
  BY DEF CallInv, DeletedOnce
<1>7. InOrder(c)'
  BY <1>1 DEF CallInv, InOrder, Published
<1> QED BY <1>3, <1>5, <1>6, <1>7 DEF CallInv

LEMMA ComesKeeps ==
    ASSUME TypeOK, NEW c \in Callers, CallInv(c),
           NEW k \in Keys, NEW kd \in Kinds, Comes(c, k, kd)
    PROVE  CallInv(c)'
<1>1. /\ result[c] = "none" /\ at[c] = 0 /\ report[c] = <<>> /\ request[c] = "none"
      /\ \A i \in Items : Published(c, i) = 0
  BY DEF Comes, CallInv, InFlight, Wrote
<1>2. UNCHANGED <<at, report, request, late, effects>>
  BY DEF Comes, fnVars
<1>3. \A i \in Items : Published(c, i)' = 0
  BY <1>1, <1>2 DEF Published
<1>4. kind'[c] = kd /\ (armed'[c] <=> k \in writeMode)
  BY DEF Comes, Set, TypeOK
<1>5. CASE k \in writeMode
  <2>1. result'[c] = "none"
    BY <1>1, <1>5 DEF Comes
  <2> QED BY <1>1, <1>2, <1>3, <1>4, <1>5, <2>1, BatchFacts
          DEF CallInv, InFlight, Wrote, OncePerRun, Sent, DeletedOnce, InOrder, Kinds, Published, TypeOK
<1>6. CASE k \notin writeMode
  <2>1. result'[c] = "blocked" /\ phase'[c] = "idle"
    BY <1>6 DEF Comes, Set, TypeOK, CallInv, InFlight, sessionVars
  <2> QED BY <1>1, <1>2, <1>3, <1>4, <1>6, <2>1, BatchFacts
          DEF CallInv, InFlight, Wrote, OncePerRun, Sent, DeletedOnce, InOrder, Kinds, Published, TypeOK
<1> QED BY <1>5, <1>6

-----------------------------------------------------------------------------
LEMMA FnKeeps ==
    ASSUME TypeOK, TypeOK', NEW c \in Callers, CallInv(c), FnGoesOn(c)
    PROVE  CallInv(c)'
<1>0. 1 \in Items /\ Len(Batch) \in Nat \ {0} /\ Items = 1..Len(Batch) /\ at[c] \in Nat
  BY BatchFacts DEF TypeOK, Items
<1>1. ASSUME UNCHANGED <<late, effects>>
      PROVE  \A i \in Items : Published(c, i)' = Published(c, i) /\ Published(c, i) \in Nat /\ Sent(c) \in Nat
  <2>1. \A i \in Items : late[c][i] \in Nat /\ effects[c][i] \in Nat
    BY DEF TypeOK
  <2> QED BY <1>1, <2>1 DEF Published, Sent
<1>E. ASSUME NEW how \in {"done", "failed", "blocked"}, Ends(c, how, FALSE),
             UNCHANGED <<armed, kind, at, request, late, effects, report>>, request[c] = "none",
             how = "blocked" => ~Wrote(c),
             kind[c] = "replay" /\ how = "done" => at[c] = Len(Batch) + 1
      PROVE  CallInv(c)'
  <2>1. \A i \in Items : Published(c, i)' <= Published(c, i) + (IF i = at[c] THEN Sent(c) ELSE 0)
    BY <1>1, <1>E
  <2>2. how = "blocked" => ~Wrote(c)'
    BY <1>1, <1>E DEF Wrote
  <2> QED BY <1>E, <2>1, <2>2, EndKeeps
<1>2. ASSUME Begins(c) PROVE CallInv(c)'
  <2>1. CASE kind[c] = "replay" /\ target[c] \notin writeMode
    <3>1. ~Wrote(c)
      BY <1>0, <1>2, <2>1 DEF Begins, Runs, CallInv, InOrder, Wrote
    <3> QED BY <1>2, <1>E, <2>1, <3>1 DEF Begins, Runs
  <2>2. CASE kind[c] = "replay" /\ target[c] \in writeMode
    <3>1. /\ at'[c] = 1 /\ at[c] = 0 /\ request'[c] = "none" /\ request[c] = "none"
          /\ UNCHANGED <<sessionVars, result, armed, kind, late, effects, report>>
      BY <1>2, <2>2 DEF Begins, Runs, Set, TypeOK
    <3> QED BY <1>0, <1>2, <2>2, <3>1
            DEF Begins, Runs, CallInv, InFlight, Wrote, OncePerRun, DeletedOnce, InOrder, Published, sessionVars
  <2>3. CASE kind[c] # "replay"
    <3>1. /\ at'[c] = 1 /\ at[c] = 0 /\ request'[c] = "sent" /\ request[c] = "none" /\ phase[c] = "served"
          /\ UNCHANGED <<sessionVars, result, armed, kind, late, effects, report>>
      BY <1>2, <2>3 DEF Begins, Runs, Set, TypeOK
    <3>2. result[c] = "none" /\ armed[c] /\ kind[c] # "none"
      BY <3>1 DEF CallInv, InFlight
    <3>3. OncePerRun(c)'
      BY <1>0, <1>1, <3>1, <3>2 DEF CallInv, OncePerRun, Sent, sessionVars
    <3> QED BY <1>0, <2>3, <3>1, <3>2, <3>3
            DEF CallInv, InFlight, Wrote, DeletedOnce, InOrder, Published, sessionVars
  <2> QED BY <2>1, <2>2, <2>3
<1>3. ASSUME RejectsBatch(c) PROVE CallInv(c)'
  BY <1>3, <1>E DEF RejectsBatch, Runs, fnVars
<1>4. ASSUME ReplayEnds(c) PROVE CallInv(c)'
  BY <1>4, <1>E DEF ReplayEnds, Runs, fnVars
<1>5. ASSUME Publishes(c) PROVE CallInv(c)'
  <2>1. /\ request'[c] = "sent" /\ request[c] = "none" /\ phase[c] = "served" /\ at[c] \in Items
        /\ kind[c] = "replay"
        /\ UNCHANGED <<sessionVars, result, armed, kind, late, effects, report, at>>
    BY <1>5 DEF Publishes, Runs, Set, TypeOK
  <2>2. result[c] = "none" /\ armed[c]
    BY <2>1 DEF CallInv, InFlight
  <2> QED BY <2>1, <2>2
          DEF CallInv, InFlight, Wrote, OncePerRun, DeletedOnce, InOrder, Published, sessionVars
<1>6. ASSUME Skips(c) PROVE CallInv(c)'
  <2>1. Published(c, at[c]) = 0
    BY <1>0, <1>6 DEF Skips, Runs, CallInv, InOrder
  <2>2. \A i \in Items : late[c][i] \in Nat
    BY DEF TypeOK
  <2>3. /\ kind[c] = "replay" /\ at[c] \in Items /\ Reports(c, "skipped") /\ phase[c] = "served"
        /\ UNCHANGED <<sessionVars, armed, kind, late, effects, result>>
    BY <1>6 DEF Skips, Runs
  <2> QED BY <2>1, <2>2, <2>3, ReportKeeps DEF Outcomes, Published
<1>7. Sent(c) = (IF request[c] = "sent" THEN 1 ELSE 0) /\ (request[c] # "none" => at[c] \in Items /\ phase[c] = "served")
  BY DEF Sent, CallInv, InFlight
<1>8. ASSUME Answered(c), kind[c] = "replay" PROVE CallInv(c)'
  <2>1. /\ request[c] \in Answers /\ at[c] \in Items /\ phase[c] = "served"
        /\ Reports(c, Outcome(request[c])) /\ Outcome(request[c]) \in Outcomes
        /\ UNCHANGED <<sessionVars, armed, kind, late, effects, result>>
    BY <1>7, <1>8 DEF Answered, Outcome, Outcomes, Answers
  <2>2. \A i \in Items : late[c][i] \in Nat
    BY DEF TypeOK
  <2>3. IF request[c] = "routed" THEN effects[c][at[c]] = 1 /\ late[c][at[c]] = 0 ELSE Published(c, at[c]) = 0
    BY <1>0, <1>8, <2>1 DEF CallInv, InOrder
  <2>4. /\ effects[c][at[c]] + late[c][at[c]] <= 1
        /\ Outcome(request[c]) = "routed" => effects[c][at[c]] = 1
        /\ Outcome(request[c]) \in {"skipped", "unroutable"} => effects[c][at[c]] + late[c][at[c]] = 0
    BY <2>1, <2>3 DEF Outcome, Published
  <2> QED BY <1>8, <2>1, <2>2, <2>4, ReportKeeps
<1>9. ASSUME Answered(c), kind[c] # "replay" PROVE CallInv(c)'
  <2>1. PICK how \in {"done", "failed"}, drops \in BOOLEAN : Ends(c, how, drops)
    BY <1>9 DEF Answered
  <2>2. /\ UNCHANGED <<armed, kind, at, late, effects, report>> /\ request'[c] = "none"
    BY <1>9 DEF Answered, Set, TypeOK
  <2>3. \A i \in Items : Published(c, i)' <= Published(c, i) + (IF i = at[c] THEN Sent(c) ELSE 0)
    BY <1>1, <2>2
  <2> QED BY <1>9, <2>1, <2>2, <2>3, EndKeeps
(* What an abandoned request leaves. *)
<1>10. ASSUME request[c] # "none", Abandons(c)
       PROVE  /\ \A i \in Items : late'[c][i] \in Nat
              /\ late'[c][at[c]] = late[c][at[c]] + Sent(c)
              /\ \A i \in Items \ {at[c]} : late'[c][i] = late[c][i]
  <2>1. \A i \in Items : late[c][i] \in Nat
    BY DEF TypeOK
  <2> QED BY <1>7, <1>10, <2>1 DEF Abandons, TypeOK
<1>11. ASSUME request[c] # "none", Abandons(c), UNCHANGED effects
       PROVE  \A i \in Items : Published(c, i)' = Published(c, i) + (IF i = at[c] THEN Sent(c) ELSE 0)
  <2>1. \A i \in Items : late[c][i] \in Nat /\ effects[c][i] \in Nat
    BY DEF TypeOK
  <2> QED BY <1>7, <1>10, <1>11, <2>1 DEF Published
<1>12. ASSUME request[c] # "none", kind[c] = "replay", Abandons(c), Reports(c, "failed"),
              UNCHANGED <<sessionVars, armed, kind, effects, result>>
       PROVE  CallInv(c)'
  <2>1. IF request[c] = "routed" THEN effects[c][at[c]] = 1 /\ late[c][at[c]] = 0 ELSE Published(c, at[c]) = 0
    BY <1>0, <1>7, <1>12 DEF CallInv, InOrder
  <2>2. effects[c][at[c]] + late'[c][at[c]] <= 1
    <3>1. late'[c][at[c]] = late[c][at[c]] + (IF request[c] = "sent" THEN 1 ELSE 0)
      BY <1>7, <1>10, <1>12
    <3>2. late[c][at[c]] \in Nat /\ effects[c][at[c]] \in Nat
      BY <1>7, <1>12 DEF TypeOK
    <3> QED BY <2>1, <3>1, <3>2 DEF Published
  <2> QED BY <1>7, <1>10, <1>12, <2>2, ReportKeeps DEF Outcomes
<1>13. ASSUME request[c] # "none", kind[c] # "replay", Abandons(c), Ends(c, "failed", FALSE), request'[c] = "none",
              UNCHANGED <<armed, kind, at, effects, report>>
       PROVE  CallInv(c)'
  <2>1. \A i \in Items : Published(c, i)' <= Published(c, i) + (IF i = at[c] THEN Sent(c) ELSE 0)
    <3>1. \A i \in Items : Published(c, i)' \in Nat
      BY DEF Published, TypeOK
    <3> QED BY <1>11, <1>13, <3>1
  <2> QED BY <1>13, <2>1, EndKeeps
<1>14. ASSUME TimesOut(c) PROVE CallInv(c)'
  <2>1. CASE kind[c] = "replay"
    BY <1>12, <1>14, <2>1 DEF TimesOut
  <2>2. CASE kind[c] # "replay"
    <3>1. request'[c] = "none"
      BY <1>14, <2>2 DEF TimesOut, Set, TypeOK
    <3> QED BY <1>13, <1>14, <2>2, <3>1 DEF TimesOut
  <2> QED BY <2>1, <2>2
<1>15. ASSUME ConnectionBreaks(c) PROVE CallInv(c)'
  <2>1. CASE kind[c] = "replay"
    BY <1>12, <1>15, <2>1 DEF ConnectionBreaks
  <2>2. CASE kind[c] # "replay" /\ again[c]
    <3>1. request'[c] = "none"
      BY <1>15, <2>2 DEF ConnectionBreaks, Set, TypeOK
    <3> QED BY <1>13, <1>15, <2>2, <3>1 DEF ConnectionBreaks
  <2>3. CASE kind[c] # "replay" /\ ~again[c]
    <3>1. /\ request'[c] = "none" /\ at'[c] = 0 /\ again'[c] /\ phase'[c] = "waiting"
          /\ UNCHANGED <<armed, kind, effects, report, result>>
      BY <1>15, <2>3 DEF ConnectionBreaks, Sessions!AskAgain, Set, TypeOK
    <3>2. result[c] = "none" /\ armed[c] /\ kind[c] # "none" /\ at[c] \in Items
      BY <1>7, <1>15 DEF ConnectionBreaks, CallInv, InFlight
    <3>3. InFlight(c)'
      BY <3>1, <3>2 DEF InFlight
    <3>4. OncePerRun(c)'
      <4> SUFFICES ASSUME kind[c] = "publish" PROVE OncePerRun(c)'
        BY <3>1 DEF OncePerRun
      <4>1. at[c] = 1
        BY <1>0, <3>2 DEF CallInv, OncePerRun
      <4>2. Published(c, 1) + Sent(c) <= 1 /\ \A i \in Items \ {1} : Published(c, i) = 0
        BY <2>3, <3>2, <4>1 DEF CallInv, OncePerRun
      <4>3. \A i \in Items : Published(c, i)' = Published(c, i) + (IF i = at[c] THEN Sent(c) ELSE 0)
        BY <1>11, <1>15, <3>1 DEF ConnectionBreaks
      <4>4. Published(c, 1)' <= 1 /\ \A i \in Items \ {1} : Published(c, i)' = 0
        <5>1. Published(c, 1)' = Published(c, 1) + Sent(c)
          BY <1>0, <4>1, <4>3
        <5>2. ASSUME NEW i \in Items \ {1} PROVE Published(c, i)' = 0
          <6>1. Published(c, i) = 0 /\ Published(c, i)' = Published(c, i) + 0
            BY <4>1, <4>2, <4>3
          <6> QED BY <6>1
        <5> QED BY <4>2, <5>1, <5>2
      <4>5. Sent(c)' = 0 /\ Published(c, 1)' \in Nat
        <5>1. late'[c][1] \in Nat
          BY <1>0, <1>10, <1>15 DEF ConnectionBreaks
        <5>2. effects[c][1] \in Nat
          <6>1. \A i \in Items : effects[c][i] \in Nat
            BY DEF TypeOK
          <6> QED BY <1>0, <6>1
        <5> QED BY <3>1, <5>1, <5>2 DEF Sent, Published
      <4> QED BY <3>1, <3>2, <4>4, <4>5 DEF OncePerRun
    <3> QED BY <2>3, <3>1, <3>3, <3>4 DEF CallInv, DeletedOnce, InOrder
  <2> QED BY <2>1, <2>2, <2>3
<1> QED
  BY <1>2, <1>3, <1>4, <1>5, <1>6, <1>8, <1>9, <1>14, <1>15 DEF FnGoesOn

-----------------------------------------------------------------------------
LEMMA BrokerKeeps ==
    ASSUME TypeOK, NEW c \in Callers, CallInv(c),
           BrokerAnswers(c) \/ \E i \in Items : BrokerGetsLate(c, i)
    PROVE  CallInv(c)'
<1>0. /\ 1 \in Items /\ Items = 1..Len(Batch) /\ at[c] \in Nat
      /\ \A i \in Items : late[c][i] \in Nat /\ effects[c][i] \in Nat
  BY BatchFacts DEF TypeOK, Items
<1>1. ASSUME BrokerAnswers(c) PROVE CallInv(c)'
  <2>1. /\ request[c] = "sent" /\ at[c] \in Items /\ phase[c] = "served" /\ result[c] = "none" /\ armed[c]
        /\ kind[c] # "none" /\ UNCHANGED <<sessionVars, armed, kind, at, late, report, result>>
    BY <1>1 DEF BrokerAnswers, CallInv, InFlight
  <2>2. /\ request'[c] \in Answers
        /\ \A i \in Items \ {at[c]} : effects'[c][i] = effects[c][i]
        /\ IF request'[c] = "routed" THEN effects'[c][at[c]] = effects[c][at[c]] + 1
                                     ELSE effects'[c][at[c]] = effects[c][at[c]]
        /\ effects'[c][at[c]] # effects[c][at[c]] => CanCarry(c, at[c])
    BY <1>0, <1>1, <2>1 DEF BrokerAnswers, Carried, Set, Answers, TypeOK
  <2>3. \A i \in Items \ {at[c]} : Published(c, i)' = Published(c, i)
    BY <2>1, <2>2 DEF Published
  <2>4. /\ Published(c, at[c]) \in Nat
        /\ Published(c, at[c])' = Published(c, at[c]) + (IF request'[c] = "routed" THEN 1 ELSE 0)
    BY <1>0, <2>1, <2>2 DEF Published
  <2>5. InFlight(c)'
    BY <2>1, <2>2 DEF InFlight, sessionVars
  <2>6. OncePerRun(c)'
    <3> SUFFICES ASSUME kind[c] = "publish" PROVE OncePerRun(c)'
      BY <2>1 DEF OncePerRun
    <3>1. at[c] = 1 /\ Published(c, 1) + 1 <= 1 + (IF again[c] THEN 1 ELSE 0)
      BY <1>0, <2>1 DEF CallInv, OncePerRun, Sent
    <3>2. Published(c, 1)' <= 1 + (IF again[c] THEN 1 ELSE 0) /\ Published(c, 1)' \in Nat
      <4>1. \/ Published(c, 1)' = Published(c, 1)
            \/ Published(c, 1)' = Published(c, 1) + 1
        <5>1. Published(c, 1)' = effects'[c][1] + late'[c][1] /\ at'[c] = at[c]
          BY <2>1 DEF Published
        <5> QED BY <2>1, <2>2, <2>4, <3>1, <5>1 DEF Published
      <4>2. Published(c, 1) \in Nat
        BY <2>4, <3>1
      <4> QED BY <3>1, <4>1, <4>2
    <3>3. Sent(c)' = 0
      BY <2>2 DEF Sent, Answers
    <3>4. \A i \in Items \ {1} : Published(c, i)' = 0
      BY <2>1, <2>3, <3>1 DEF CallInv, OncePerRun
    <3> QED BY <2>1, <3>1, <3>2, <3>3, <3>4 DEF OncePerRun, sessionVars
  <2>7. DeletedOnce(c)'
    BY <1>0, <2>1, <2>2 DEF CallInv, DeletedOnce, CanCarry
  <2>8. InOrder(c)'
    <3> SUFFICES ASSUME kind[c] = "replay" PROVE InOrder(c)'
      BY <2>1 DEF InOrder
    <3>1. Published(c, at[c]) = 0 /\ effects[c][at[c]] = 0 /\ late[c][at[c]] = 0
      <4>1. Published(c, at[c]) = 0
        BY <1>0, <2>1 DEF CallInv, InOrder
      <4>2. late[c][at[c]] \in Nat /\ effects[c][at[c]] \in Nat /\ effects[c][at[c]] + late[c][at[c]] = 0
        BY <1>0, <2>1, <4>1 DEF Published
      <4> QED BY <4>1, <4>2
    <3>2. Len(report[c]) = at[c] - 1 /\ at[c] # 0
      BY <1>0, <2>1 DEF CallInv, InOrder
    <3>3. \A i \in 1..Len(report[c]) : i \in Items \ {at[c]}
      BY <1>0, <2>1, <3>2
    <3>4. ASSUME NEW i \in Items, i >= at[c]
          PROVE  IF i = at[c] /\ request'[c] = "routed" THEN effects'[c][i] = 1 /\ late'[c][i] = 0
                                                        ELSE Published(c, i)' = 0
      <4>1. CASE i = at[c]
        <5>1. effects'[c][i] = (IF request'[c] = "routed" THEN 1 ELSE 0) /\ late'[c][i] = 0
          BY <1>0, <2>1, <2>2, <3>1, <4>1
        <5>2. ASSUME request'[c] # "routed" PROVE Published(c, i)' = 0
          <6>1. effects'[c][i] = 0 /\ late'[c][i] = 0
            BY <5>1, <5>2
          <6> QED BY <6>1 DEF Published
        <5> QED BY <4>1, <5>1, <5>2
      <4>2. CASE i # at[c]
        BY <2>1, <2>3, <3>4, <4>2 DEF CallInv, InOrder
      <4> QED BY <4>1, <4>2
    <3>5. ASSUME NEW i \in 1..Len(report[c])
          PROVE  /\ Published(c, i)' <= 1
                 /\ report[c][i] = "routed" => effects'[c][i] = 1
                 /\ report[c][i] \in {"skipped", "unroutable"} => Published(c, i)' = 0
      BY <2>2, <2>3, <3>3 DEF CallInv, InOrder
    <3> QED BY <2>1, <3>2, <3>4, <3>5 DEF InOrder
  <2> QED BY <2>5, <2>6, <2>7, <2>8 DEF CallInv
<1>2. ASSUME NEW i \in Items, BrokerGetsLate(c, i) PROVE CallInv(c)'
  <2>1. /\ late[c][i] > 0 /\ late'[c][i] = late[c][i] - 1
        /\ effects'[c][i] = effects[c][i] \/ (effects'[c][i] = effects[c][i] + 1 /\ CanCarry(c, i))
        /\ \A j \in Items \ {i} : late'[c][j] = late[c][j] /\ effects'[c][j] = effects[c][j]
        /\ UNCHANGED <<sessionVars, armed, kind, at, request, report, result>>
    BY <1>2 DEF BrokerGetsLate, Carried, TypeOK
  <2>2. \A j \in Items : /\ Published(c, j) \in Nat /\ Published(c, j)' \in Nat
                         /\ Published(c, j)' <= Published(c, j)
    <3>1. late'[c][i] \in Nat /\ effects'[c][i] \in Nat
      BY <1>0, <2>1
    <3>2. Published(c, i)' <= Published(c, i) /\ Published(c, i)' \in Nat
      <4>1. late[c][i] \in Nat /\ effects[c][i] \in Nat
        BY <1>0
      <4>2. CASE effects'[c][i] = effects[c][i]
        BY <2>1, <3>1, <4>1, <4>2 DEF Published
      <4>3. CASE effects'[c][i] = effects[c][i] + 1
        BY <2>1, <3>1, <4>1, <4>3 DEF Published
      <4> QED BY <2>1, <4>2, <4>3
    <3>3. ASSUME NEW j \in Items \ {i} PROVE Published(c, j)' = Published(c, j)
      BY <2>1 DEF Published
    <3>4. \A j \in Items : Published(c, j) \in Nat
      BY <1>0 DEF Published
    <3> QED BY <3>2, <3>3, <3>4
  <2>3. Published(c, i) # 0
    BY <1>0, <2>1 DEF Published
  <2>4. InFlight(c)'
    <3>1. armed[c] /\ result[c] # "blocked" /\ kind[c] # "none"
      BY <2>3 DEF CallInv, InFlight, Wrote
    <3> QED BY <2>1, <3>1 DEF CallInv, InFlight, sessionVars
  <2>5. OncePerRun(c)'
    <3> SUFFICES ASSUME kind[c] = "publish" PROVE OncePerRun(c)'
      BY <2>1 DEF OncePerRun
    <3>1. \A j \in Items \ {1} : Published(c, j)' = 0
      BY <2>2 DEF CallInv, OncePerRun
    <3>2. Sent(c)' = Sent(c) /\ Sent(c) \in Nat
      BY <2>1 DEF Sent
    <3>3. Published(c, 1)' + Sent(c) <= IF result[c] # "none" THEN 2 ELSE at[c] + (IF again[c] THEN 1 ELSE 0)
      BY <1>0, <2>2, <3>2 DEF CallInv, OncePerRun
    <3> QED BY <2>1, <3>1, <3>2, <3>3 DEF CallInv, OncePerRun, sessionVars
  <2>6. DeletedOnce(c)'
    BY <1>0, <2>1 DEF CallInv, DeletedOnce, CanCarry
  <2>7. InOrder(c)'
    <3> SUFFICES ASSUME kind[c] = "replay" PROVE InOrder(c)'
      BY <2>1 DEF InOrder
    <3>1. \A j \in Items : j >= at[c] => j # i
      BY <1>0, <2>1, <2>3 DEF CallInv, InOrder, Published
    <3>2. \A j \in 1..Len(report[c]) : j \in Items
      BY <1>0 DEF CallInv, InOrder, TypeOK
    <3>3. ASSUME NEW j \in 1..Len(report[c])
          PROVE  /\ Published(c, j)' <= 1
                 /\ report[c][j] = "routed" => effects'[c][j] = 1
                 /\ report[c][j] \in {"skipped", "unroutable"} => Published(c, j)' = 0
      <4>1. /\ Published(c, j) <= 1 /\ Published(c, j)' <= Published(c, j) /\ j \in Items
            /\ Published(c, j)' \in Nat /\ Published(c, j) \in Nat
            /\ report[c][j] = "routed" => effects[c][j] = 1
            /\ report[c][j] \in {"skipped", "unroutable"} => Published(c, j) = 0
        BY <2>2, <3>2 DEF CallInv, InOrder
      <4>2. report[c][j] = "routed" => j # i
        BY <1>0, <2>1, <4>1 DEF Published
      <4> QED BY <2>1, <4>1, <4>2
    <3> QED BY <2>1, <3>1, <3>3 DEF CallInv, InOrder, Published
  <2> QED BY <2>4, <2>5, <2>6, <2>7 DEF CallInv
<1> QED BY <1>1, <1>2

-----------------------------------------------------------------------------
(* What a step of the sessions leaves of a call: its phase, and the failure of those that waited. *)
Kept(c) ==
    /\ armed'[c] = armed[c] /\ kind'[c] = kind[c]
    /\ at'[c] = at[c] /\ request'[c] = request[c] /\ report'[c] = report[c]
    /\ late'[c] = late[c] /\ effects'[c] = effects[c]
    /\ \/ result'[c] = result[c] /\ phase'[c] = phase[c] /\ (again'[c] <=> again[c])
       \/ phase[c] = "waiting" /\ phase'[c] = "served" /\ result'[c] = result[c] /\ (again'[c] <=> again[c])
       \/ phase[c] = "waiting" /\ phase'[c] = "idle" /\ result'[c] = "failed"

LEMMA KeptKeeps == ASSUME TypeOK, NEW c \in Callers, Kept(c), CallInv(c) PROVE CallInv(c)'
<1>1. CASE Untouched(c)
  BY <1>1, UntouchedKeeps
<1>2. CASE ~Untouched(c)
  <2>1. phase[c] = "waiting" /\ result[c] = "none" /\ armed[c] /\ request[c] = "none" /\ kind[c] # "none"
    BY <1>2 DEF Kept, Untouched, CallInv, InFlight
  <2>2. \/ result'[c] = "failed" /\ phase'[c] = "idle"
        \/ result'[c] = "none" /\ phase'[c] = "served" /\ (again'[c] <=> again[c])
    BY <1>2, <2>1 DEF Kept, Untouched
  <2>3. \A i \in Items : Published(c, i)' = Published(c, i)
    BY DEF Kept, Published
  <2>4. InFlight(c)'
    BY <2>1, <2>2 DEF Kept, InFlight
  <2>5. OncePerRun(c)'
    <3> SUFFICES ASSUME kind[c] = "publish" PROVE OncePerRun(c)'
      BY DEF Kept, OncePerRun
    <3>1. at[c] \in {0, 1} /\ 1 \in Items /\ Sent(c)' = 0 /\ Sent(c) = 0 /\ Published(c, 1) \in Nat
      BY <2>1, BatchFacts DEF Kept, CallInv, OncePerRun, Sent, Published, TypeOK
    <3>2. Published(c, 1) <= at[c] + (IF again[c] THEN 1 ELSE 0)
      BY <2>1, <3>1 DEF CallInv, OncePerRun
    <3>3. Published(c, 1) <= 2
      BY <3>1, <3>2
    <3> QED BY <2>2, <2>3, <2>1, <3>1, <3>2, <3>3 DEF Kept, CallInv, OncePerRun
  <2>6. DeletedOnce(c)'
    BY DEF Kept, CallInv, DeletedOnce
  <2>7. InOrder(c)'
    <3> SUFFICES ASSUME kind[c] = "replay" PROVE InOrder(c)'
      BY DEF Kept, InOrder
    <3>1. result'[c] # "done"
      BY <2>2
    <3>2. /\ kind'[c] = kind[c] /\ at'[c] = at[c] /\ request'[c] = request[c] /\ report'[c] = report[c]
          /\ late'[c] = late[c] /\ effects'[c] = effects[c]
      BY DEF Kept
    <3>3. \A i \in 1..Len(report[c]) : Published(c, i)' = Published(c, i)
      BY <3>2 DEF Published
    <3> QED BY <2>3, <3>1, <3>2, <3>3 DEF CallInv, InOrder
  <2> QED BY <2>4, <2>5, <2>6, <2>7 DEF CallInv
<1> QED BY <1>1, <1>2

LEMMA ManagerTyped ==
    ASSUME TypeOK,
           \/ \E k \in Keys :
                \/ \E W \in SUBSET Sessions!Waiting(k) : Serves(k, W) \/ GivesUp(k, W)
                \/ SessionDrops(k)
                \/ \E on \in BOOLEAN : SetWriteMode(k, on)
           \/ SessionsDrop
    PROVE  TypeOK' /\ \A c \in Callers : Kept(c)
<1>0. SessionsTypeOK
  BY DEF TypeOK, SessionsTypeOK
<1>1. ASSUME NEW k \in Keys, NEW W \in SUBSET Sessions!Waiting(k), Serves(k, W)
      PROVE  TypeOK' /\ \A c \in Callers : Kept(c)
  <2>1. SessionsTypeOK'
    BY <1>0, <1>1, SessionsTyped DEF Serves, Sessions!Next
  <2>2. TypeOK'
    BY <1>1, <2>1 DEF Serves, SessionsTypeOK, TypeOK, fnVars
  <2>3. Sessions!Moves(W, "served") /\ \A c \in W : phase[c] = "waiting"
    BY <1>1 DEF Serves, Sessions!Establish, Sessions!ServeLate, Sessions!Waiting
  <2>4. ASSUME NEW c \in Callers PROVE Kept(c)
    <3>1. phase'[c] = (IF c \in W THEN "served" ELSE phase[c]) /\ (again'[c] <=> again[c])
      BY <2>3 DEF Sessions!Moves
    <3> QED BY <1>1, <2>3, <3>1 DEF Serves, Kept, fnVars
  <2> QED BY <2>2, <2>4
<1>2. ASSUME NEW k \in Keys, NEW W \in SUBSET Sessions!Waiting(k), GivesUp(k, W)
      PROVE  TypeOK' /\ \A c \in Callers : Kept(c)
  <2>1. SessionsTypeOK'
    BY <1>0, <1>2, SessionsTyped DEF GivesUp, Sessions!Next
  <2>2. TypeOK'
    BY <1>2, <2>1 DEF GivesUp, SessionsTypeOK, TypeOK, fnVars
  <2>3. Sessions!Moves(W, "idle") /\ \A c \in W : phase[c] = "waiting"
    BY <1>2 DEF GivesUp, Sessions!GiveUp, Sessions!Waiting
  <2>4. ASSUME NEW c \in Callers PROVE Kept(c)
    <3>1. /\ phase'[c] = (IF c \in W THEN "idle" ELSE phase[c])
          /\ c \notin W => (again'[c] <=> again[c])
          /\ result'[c] = (IF c \in W THEN "failed" ELSE result[c])
      BY <1>2, <2>3 DEF Sessions!Moves, GivesUp
    <3> QED BY <1>2, <2>3, <3>1 DEF GivesUp, Kept, fnVars
  <2> QED BY <2>2, <2>4
<1>3. ASSUME NEW k \in Keys, SessionDrops(k)
      PROVE  TypeOK' /\ \A c \in Callers : Kept(c)
  <2>1. SessionsTypeOK'
    BY <1>0, <1>3, SessionsTyped DEF SessionDrops, Sessions!Next
  <2>2. UNCHANGED <<phase, again>>
    BY <1>3 DEF SessionDrops, Sessions!Drop, Sessions!ChangeCredentials
  <2> QED BY <1>3, <2>1, <2>2 DEF SessionDrops, SessionsTypeOK, TypeOK, Kept, fnVars
<1>4. ASSUME NEW k \in Keys, NEW on \in BOOLEAN, SetWriteMode(k, on)
      PROVE  TypeOK' /\ \A c \in Callers : Kept(c)
  BY <1>4 DEF SetWriteMode, TypeOK, Kept, fnVars, sessionVars
<1>5. ASSUME SessionsDrop
      PROVE  TypeOK' /\ \A c \in Callers : Kept(c)
  <2>1. SessionsTypeOK'
    BY <1>0, <1>5, SessionsTyped DEF SessionsDrop, Sessions!Next
  <2>2. UNCHANGED <<phase, again>>
    BY <1>5 DEF SessionsDrop, Sessions!DropAll
  <2> QED BY <1>5, <2>1, <2>2 DEF SessionsDrop, SessionsTypeOK, TypeOK, Kept, fnVars
<1> QED BY <1>1, <1>2, <1>3, <1>4, <1>5

-----------------------------------------------------------------------------
LEMMA InitInv == Init => Inv
<1> SUFFICES ASSUME Init PROVE Inv
  OBVIOUS
<1>1. TypeOK
  BY BatchFacts, CredsAssumption DEF Init, Sessions!Init, TypeOK
<1>2. ASSUME NEW c \in Callers PROVE CallInv(c)
  BY DEF Init, Sessions!Init, CallInv, InFlight, Wrote, Published, OncePerRun, DeletedOnce, InOrder
<1> QED BY <1>1, <1>2 DEF Inv

LEMMA NextInv == Inv /\ [Next]_vars => Inv'
<1> SUFFICES ASSUME Inv, [Next]_vars PROVE Inv'
  OBVIOUS
<1>1. ASSUME NEW c \in Callers, CallStep(c) PROVE Inv'
  <2>1. TypeOK'
    BY <1>1, CallTyped DEF Inv, CallInv, InFlight
  <2>2. CallInv(c)'
    BY <1>1, <2>1, ComesKeeps, FnKeeps, BrokerKeeps DEF Inv, CallStep
  <2>3. ASSUME NEW d \in Callers \ {c} PROVE CallInv(d)'
    BY <1>1, OthersUntouched, UntouchedKeeps DEF Inv
  <2> QED BY <2>1, <2>2, <2>3 DEF Inv
<1>2. ASSUME TypeOK', \A c \in Callers : Kept(c) PROVE Inv'
  BY <1>2, KeptKeeps DEF Inv
<1>3. CASE UNCHANGED vars
  <2>1. TypeOK'
    BY <1>3 DEF Inv, TypeOK, vars, sessionVars, fnVars
  <2>2. \A c \in Callers : Kept(c)
    BY <1>3 DEF Kept, vars, sessionVars, fnVars
  <2> QED BY <1>2, <2>1, <2>2
<1> QED BY <1>1, <1>2, <1>3, ManagerTyped DEF Next, CallStep, Inv

(* Whatever is asked for, in whatever order connections break, time out and are given up: the phases, *)
(* requests and reports of the calls fit together as Inv says.                                        *)
THEOREM InvHolds == Spec => []Inv
BY InitInv, NextInv, PTL DEF Spec

(* A message of a replay reaches the broker at most once, a delete is carried out at most once, and a *)
(* single publish or purge at most twice: the retry of withSession is the only repetition.            *)
THEOREM EffectsBounded == Spec => []EffectsAreBounded
<1>1. Inv => EffectsAreBounded
  <2> SUFFICES ASSUME Inv, NEW c \in Callers, NEW i \in Items
               PROVE  effects[c][i] <= IF kind[c] = "publish" THEN 2 ELSE 1
    BY DEF EffectsAreBounded
  <2>1. /\ late[c][i] \in Nat /\ effects[c][i] \in Nat /\ Published(c, i) = effects[c][i] + late[c][i]
        /\ kind[c] \in Kinds \cup {"none"} /\ CallInv(c) /\ at[c] \in Nat
    BY DEF Inv, TypeOK, Published
  <2>2. CASE kind[c] = "none"
    BY <2>1, <2>2 DEF CallInv, InFlight, Wrote
  <2>3. CASE kind[c] = "publish"
    <3>1. i # 1 => Published(c, i) = 0
      BY <2>1, <2>3 DEF CallInv, OncePerRun
    <3>2. Sent(c) \in Nat /\ 1 \in Items /\ Published(c, 1) \in Nat
      BY BatchFacts DEF Sent, Published, Inv, TypeOK
    <3>3. at[c] \in {0, 1}
      BY <2>1, <2>3 DEF CallInv, OncePerRun
    <3>4. Published(c, 1) + Sent(c) <= IF result[c] # "none" THEN 2 ELSE at[c] + (IF again[c] THEN 1 ELSE 0)
      BY <2>1, <2>3 DEF CallInv, OncePerRun
    <3>5. Published(c, 1) <= 2
      BY <3>2, <3>3, <3>4
    <3> QED BY <2>1, <2>3, <3>1, <3>5
  <2>4. CASE kind[c] = "delete"
    BY <2>1, <2>4 DEF CallInv, DeletedOnce
  <2>5. CASE kind[c] = "replay"
    <3>1. CASE i >= at[c]
      BY <2>1, <2>5, <3>1 DEF CallInv, InOrder
    <3>2. CASE ~(i >= at[c])
      <4>1. i \in 1..Len(report[c])
        BY <2>1, <2>5, <3>2, BatchFacts DEF CallInv, InOrder, Items
      <4>2. Published(c, i) <= 1
        BY <2>1, <2>5, <4>1 DEF CallInv, InOrder
      <4> QED BY <2>1, <2>5, <4>2
    <3> QED BY <3>1, <3>2
  <2> QED BY <2>1, <2>2, <2>3, <2>4, <2>5 DEF Kinds
<1> QED BY <1>1, InvHolds, PTL

(* A call the gate did not let in has no request at the broker, now or later. *)
THEOREM OnlyArmedWrite == Spec => []OnlyArmedRequestsWrite
<1>1. Inv => OnlyArmedRequestsWrite
  BY DEF Inv, CallInv, InFlight, Wrote, OnlyArmedRequestsWrite
<1> QED BY <1>1, InvHolds, PTL

(* A call that is reported as blocked wrote nothing, also when the gate closed after it had come. *)
THEOREM BlockedWrites == Spec => []BlockedWritesNothing
<1>1. Inv => BlockedWritesNothing
  BY DEF Inv, CallInv, InFlight, Wrote, BlockedWritesNothing
<1> QED BY <1>1, InvHolds, PTL

(* For any batch, the report of a replay is true of every message in it. *)
THEOREM ReportTrue == Spec => []ReportIsTrue
<1>1. Inv => ReportIsTrue
  <2> SUFFICES ASSUME Inv, NEW c \in Callers, kind[c] = "replay"
               PROVE  /\ \A i \in 1..Len(report[c]) :
                           /\ report[c][i] = "routed" => effects[c][i] = 1
                           /\ report[c][i] \in {"skipped", "unroutable"} => Published(c, i) = 0
                      /\ result[c] = "done" => Len(report[c]) = Len(Batch)
    BY DEF ReportIsTrue
  <2>1. CallInv(c) /\ Len(Batch) \in Nat
    BY BatchFacts DEF Inv
  <2> QED BY <2>1 DEF CallInv, InOrder
<1> QED BY <1>1, InvHolds, PTL
=============================================================================
