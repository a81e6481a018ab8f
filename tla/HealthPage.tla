----------------------------- MODULE HealthPage -----------------------------
(***************************************************************************)
(* The Health page (src/renderer/pages/health-page.tsx): useResource loads *)
(* a sample of the target shown and analyses it; a ref of the page carries *)
(* from one load to the next when each channel was first seen full.  The   *)
(* ref is written by every load that is answered, cancelled or not.  Times *)
(* are ages, counted up to StuckFor, so that time has no end.              *)
(***************************************************************************)
EXTENDS UseResource, Health

CONSTANT Samples   \* what a load may find: records of nodes, queues, channels, unroutable

ASSUME SamplesAssumption == \A sample \in Samples : \A s \in {sample.nodes, sample.queues, sample.channels} : IsFiniteSet(s)

VARIABLES
    stuckSince,  \* the ref: its target, and for how long each channel has been seen full
    findings,    \* of the data shown
    calm         \* of the channels seen on a target: time since an answer last said it was not full, or first named it

pageVars == <<resourceVars, stuckSince, findings, calm>>

PageInit ==
    /\ ResourceInit
    /\ stuckSince = [of |-> None, ages |-> << >>]
    /\ findings = <<>>
    /\ calm = [k \in Keys |-> << >>]

Older(ages) == [c \in DOMAIN ages |-> Min({StuckFor, ages[c] + 1})]

Tick ==
    /\ stuckSince' = [stuckSince EXCEPT !.ages = Older(@)]
    /\ calm' = [k \in Keys |-> Older(calm[k])]
    /\ UNCHANGED <<resourceVars, findings>>

(* With ages for times, `now` is 0 and a channel was first seen full at minus its age. *)
Negated(ages) == [c \in DOMAIN ages |-> -ages[c]]

(* Mutant: the ref is not kept per target. *)
SeenAny(k, sample) == Negated(TrackStuckChannels(Negated(stuckSince.ages), sample.channels, 0))

(* For how long the channels have been full, a sample of target k included. *)
Seen(k, sample) ==
    LET previous == IF stuckSince.of = k THEN stuckSince.ages ELSE << >>
    IN Negated(TrackStuckChannels(Negated(previous), sample.channels, 0))

(* The loader of the i-th load has its three answers: it updates the ref and analyses the sample. *)
Answered(i, sample) ==
    LET k == loads[i].key
        full == {ch.name : ch \in {x \in sample.channels : IsChannelFull(x)}}
    IN /\ Lands(i)
       /\ stuckSince' = [of |-> k, ages |-> Seen(k, sample)]
       /\ findings' = IF loads[i].live
                      THEN AnalyzeHealth(sample, Negated(Seen(k, sample)), 0) ELSE findings
       /\ calm' = [calm EXCEPT ![k] = [c \in DOMAIN @ \cup {ch.name : ch \in sample.channels} |->
                      IF c \in DOMAIN calm[k] /\ c \in full THEN calm[k][c] ELSE 0]]

LoadFails(i) == Fails(i) /\ UNCHANGED <<stuckSince, findings, calm>>

HookSteps ==
    /\ (\E k \in Keys \cup {None} : Rekey(k)) \/ Reload \/ Effect
    /\ UNCHANGED <<stuckSince, findings, calm>>

(* The page shows the findings only under the target they are of. *)
Shown == IF data.key = key /\ key # None THEN findings ELSE <<>>

PageNext ==
    \/ HookSteps
    \/ \E i \in DOMAIN loads : LoadFails(i) \/ \E sample \in Samples : Answered(i, sample)
    \/ Tick

PageSpec == PageInit /\ [][PageNext]_pageVars

(* Time passes, the poll repeats, effects run, loads end; and now and then an answer comes before the next *)
(* poll cancels its load: a broker that never answers within a period of the poll is never shown.          *)
PageFairness ==
    /\ WF_pageVars(Tick)
    /\ WF_pageVars(Reload /\ UNCHANGED <<stuckSince, findings, calm>>)
    /\ WF_pageVars(Effect /\ UNCHANGED <<stuckSince, findings, calm>>)
    /\ WF_pageVars(\E i \in DOMAIN loads : LoadFails(i) \/ \E sample \in Samples : Answered(i, sample))
    /\ SF_pageVars(\E i \in DOMAIN loads : loads[i].live /\ \E sample \in Samples : Answered(i, sample))

-----------------------------------------------------------------------------
(* When the page comes to call a channel stuck, no answer of that target has said otherwise for StuckFor, *)
(* whatever targets were visited and whichever loads were answered late (health-page.tsx:45-58).          *)
StuckIsSeenFull ==
    [][\A i \in DOMAIN findings' : findings' # findings /\ findings'[i].rule = "consumer-stuck" =>
          calm'[data'.key][findings'[i].subject] = StuckFor]_pageVars

ChannelNames == {ch.name : ch \in UNION {sample.channels : sample \in Samples}}

Reported(c) == \E i \in DOMAIN Shown : Shown[i].rule = "consumer-stuck" /\ Shown[i].subject = c

(* A channel that stays full on the target shown is called stuck again and again: the ref that carries its *)
(* age survives the polls, and a stale load of another target resets it only so often.                    *)
StuckIsReported ==
    \A k \in Keys, c \in ChannelNames :
        <>[](key = k /\ c \in DOMAIN calm[k] /\ calm[k][c] = StuckFor) => []<>Reported(c)
=============================================================================
