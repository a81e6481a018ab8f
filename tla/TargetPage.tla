----------------------------- MODULE TargetPage -----------------------------
(***************************************************************************)
(* Which target a page shows: the TargetCache shared by the pages and      *)
(* useTargetSelection (src/renderer/components/target-selection.ts), with  *)
(* the remembered `target` param (useStoredPageParam, src/renderer/hooks.ts*)
(* and useTargetPage, src/renderer/pages/page-deps.ts).  One cluster, one  *)
(* page mounted at a time; an effect that only copies or loads runs with   *)
(* the render that caused it.                                              *)
(***************************************************************************)
EXTENDS Absent, Naturals, Sequences, SequencesExt

CONSTANTS
    Lists,        \* what a discovery may find: sequences of targets
    Discoveries   \* the discoveries in flight or still referred to

ASSUME TargetAssumption == None \notin Discoveries

VARIABLES
    url,      \* the page's `target` param, or its local stand-in; None when it is empty
    stored,   \* the target remembered in the selection store
    entry,    \* the promise in the TargetCache
    outcome,  \* of each discovery: [state, list], and whether it began after the last "Rediscover"
    awaited,  \* the promise the page waits for
    data,     \* the list the page has, and whether it is `fresh` as above; or None
    error,    \* the page's last load failed
    force,    \* the page's loads start a discovery of their own
    chosen    \* the target the user came to see: selected, linked to, or fallen back to

targetVars == <<url, stored, entry, outcome, awaited, data, error, force, chosen>>
choice == <<url, stored, chosen>>

TargetInit ==
    /\ url = None /\ stored = None /\ chosen = None
    /\ entry = None /\ awaited = None
    /\ outcome = [d \in Discoveries |-> [state |-> "unused", list |-> <<>>, fresh |-> FALSE]]
    /\ data = None /\ error = FALSE /\ force = FALSE

-----------------------------------------------------------------------------
(* Mutant: the store is not asked when the URL has no target. *)
ParamUrl == url

Param == Or(url, stored)

Found == IF data = None THEN <<>> ELSE data.list

(* The target of the param, or else the first. *)
Selected ==
    IF Found = <<>> THEN None ELSE IF Param \in ToSet(Found) THEN Param ELSE Head(Found)

SetParam(t) == url' = t /\ stored' = t /\ chosen' = t

-----------------------------------------------------------------------------
(* TargetCache.load, `cached` being the entry it finds: another discovery starts when there is none. *)
Loads(cached, forced, outcomes) ==
    IF cached # None /\ ~forced
    THEN entry' = cached /\ awaited' = cached /\ outcome' = outcomes
    ELSE \E d \in Discoveries \ {entry, awaited} :
            /\ outcomes[d].state # "running"
            /\ entry' = d /\ awaited' = d
            /\ outcome' = [outcomes EXCEPT ![d] = [state |-> "running", list |-> <<>>, fresh |-> TRUE]]

(* The user goes to a page, by a link that names a target or by the sidebar: the page before is unmounted. *)
Mount(link) ==
    /\ url' = link /\ stored' = Or(link, stored) /\ chosen' = Or(link, chosen)
    /\ data' = None /\ error' = FALSE /\ force' = FALSE
    /\ Loads(entry, FALSE, outcome)

(* The URL of the page loses its target. *)
LoseParam == url # None /\ url' = None /\ UNCHANGED <<stored, entry, outcome, awaited, data, error, force, chosen>>

Select(t) ==
    /\ awaited = None /\ t \in ToSet(Found)
    /\ SetParam(t)
    /\ UNCHANGED <<entry, outcome, awaited, data, error, force>>

(* The effect that keeps the param in sync with the target shown. *)
FallBack ==
    /\ Selected # None /\ Selected # Param
    /\ SetParam(Selected)
    /\ UNCHANGED <<entry, outcome, awaited, data, error, force>>

Stale == [d \in Discoveries |-> [outcome[d] EXCEPT !.fresh = FALSE]]
StaleData == IF data = None THEN None ELSE [data EXCEPT !.fresh = FALSE]

(* Mutant: the page loads again what the cache has. *)
RediscoverCached ==
    /\ awaited # None => error
    /\ data' = StaleData
    /\ Loads(entry, FALSE, Stale)
    /\ UNCHANGED <<choice, error, force>>

(* "Rediscover", disabled while the page loads, or the "Retry" of an error, which is not: the entry is *)
(* dropped, and this page asks for a discovery of its own from now on.                                 *)
Rediscover ==
    /\ awaited # None => error
    /\ force' = TRUE
    /\ data' = StaleData
    /\ Loads(None, TRUE, Stale)
    /\ UNCHANGED <<choice, error>>

DiscoveryEnds(d) ==
    /\ outcome[d].state = "running"
    /\ \E list \in Lists : outcome' = [outcome EXCEPT ![d].state = "done", ![d].list = list]
    /\ UNCHANGED <<choice, entry, awaited, data, error, force>>

(* A failed discovery leaves the cache without an entry, whosever it was. *)
DiscoveryFails(d) ==
    /\ outcome[d].state = "running"
    /\ outcome' = [outcome EXCEPT ![d].state = "failed"]
    /\ entry' = None
    /\ UNCHANGED <<choice, awaited, data, error, force>>

(* The page hears of its discovery. *)
Hears ==
    /\ awaited # None /\ outcome[awaited].state # "running"
    /\ error' = (outcome[awaited].state = "failed")
    /\ data' = IF error' THEN data ELSE [list |-> outcome[awaited].list, fresh |-> outcome[awaited].fresh]
    /\ awaited' = None
    /\ UNCHANGED <<choice, entry, outcome, force>>

TargetNext ==
    \/ \E link \in {None} \cup UNION {ToSet(list) : list \in Lists} : Mount(link)
    \/ LoseParam \/ FallBack \/ Rediscover \/ Hears
    \/ \E t \in ToSet(Found) : Select(t)
    \/ \E d \in Discoveries : DiscoveryEnds(d) \/ DiscoveryFails(d)

-----------------------------------------------------------------------------
(* Wherever the user goes, the page shows the target they came to see as long as it is discovered ("sidebar *)
(* navigation (no target in the URL) keeps the selection (#26)", page-deps.ts:33).                           *)
ChosenTargetStays == chosen \in ToSet(Found) => Selected = chosen

(* Once a page has what it asked for, what it shows was discovered after the last "Rediscover", though an   *)
(* older discovery may end later and pages share the cache; and an error is never served from the cache.    *)
RediscoveryIsShown ==
    /\ awaited = None /\ ~error /\ data # None => data.fresh
    /\ entry # None => outcome[entry].state # "failed"
=============================================================================
