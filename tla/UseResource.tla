---------------------------- MODULE UseResource ----------------------------
(***************************************************************************)
(* The data hook of every page (useResource, src/renderer/hooks.ts): loads *)
(* keyed by what the page shows, started by effects that run some time     *)
(* after the render, repeated by a poll or by hand, and answered in any    *)
(* order.  `Lands` has a hook for the component whose loader does work of  *)
(* its own when its answers come (HealthPage).                             *)
(***************************************************************************)
EXTENDS Absent, Naturals, Sequences, SequencesExt

CONSTANTS
    Keys,      \* what can be shown
    MaxLoads   \* bound: the loads in flight at once

ASSUME ResourceAssumption == None \notin Keys /\ MaxLoads \in Nat \ {0}

VARIABLES
    key,      \* what the component renders with; None when it has no key, or is not enabled
    due,      \* an effect is to run for the last render
    data,     \* the key the data was loaded for, and whether a load started later was answered before it
    error,    \* the last load failed
    loading,
    loads     \* the loads in flight, oldest first: their key, whether not `cancelled`, whether overtaken

resourceVars == <<key, due, data, error, loading, loads>>

NoData == [key |-> None, overtaken |-> FALSE]
Load(k) == [key |-> k, live |-> TRUE, overtaken |-> FALSE]

ResourceTypeOK ==
    /\ key \in Keys \cup {None}
    /\ data \in [key : Keys \cup {None}, overtaken : BOOLEAN]
    /\ {due, error, loading} \subseteq BOOLEAN
    /\ loads \in Seq([key : Keys, live : BOOLEAN, overtaken : BOOLEAN])
    /\ Len(loads) <= MaxLoads

ResourceInit ==
    /\ key \in Keys \cup {None}
    /\ due = TRUE
    /\ data = NoData
    /\ error = FALSE
    /\ loading = (key # None)
    /\ loads = <<>>

-----------------------------------------------------------------------------
(* The component renders with another key. *)
Rekey(k) ==
    /\ k # key
    /\ key' = k /\ due' = TRUE
    /\ UNCHANGED <<data, error, loading, loads>>

(* reload() or the poll's timer: another generation of the same key. *)
Reload == due' = TRUE /\ UNCHANGED <<key, data, error, loading, loads>>

(* Mutant: the data of the key that is left is dropped at once. *)
EffectDrops ==
    /\ due /\ Len(loads) < MaxLoads
    /\ due' = FALSE
    /\ loads' = LET left == [i \in DOMAIN loads |-> [loads[i] EXCEPT !.live = FALSE]]
                IN IF key = None THEN left ELSE Append(left, Load(key))
    /\ data' = NoData
    /\ error' = (key # None /\ error) /\ loading' = (key # None)
    /\ UNCHANGED key

(* Mutant: the load in flight is not cancelled. *)
EffectKeeps ==
    /\ due /\ Len(loads) < MaxLoads
    /\ due' = FALSE
    /\ loads' = IF key = None THEN loads ELSE Append(loads, Load(key))
    /\ data' = IF key = None THEN NoData ELSE data
    /\ error' = (key # None /\ error) /\ loading' = (key # None)
    /\ UNCHANGED key

(* The effect cancels the load of the last one and starts its own: data and error stay meanwhile. *)
Effect ==
    /\ due /\ Len(loads) < MaxLoads
    /\ due' = FALSE
    /\ loads' = LET left == [i \in DOMAIN loads |-> [loads[i] EXCEPT !.live = FALSE]]
                IN IF key = None THEN left ELSE Append(left, Load(key))
    /\ data' = IF key = None THEN NoData ELSE data
    /\ error' = (key # None /\ error) /\ loading' = (key # None)
    /\ UNCHANGED key

(* The i-th load is answered: those started before it are overtaken. *)
Ends(i) == loads' = RemoveAt([j \in DOMAIN loads |-> IF j < i THEN [loads[j] EXCEPT !.overtaken = TRUE] ELSE loads[j]], i)

Lands(i) ==
    /\ Ends(i)
    /\ IF loads[i].live
       THEN /\ data' = [key |-> loads[i].key, overtaken |-> loads[i].overtaken]
            /\ error' = FALSE /\ loading' = FALSE
       ELSE UNCHANGED <<data, error, loading>>
    /\ UNCHANGED <<key, due>>

(* Mutant: a cancelled load that fails ends the loading, too. *)
FailsCancelled(i) ==
    /\ Ends(i)
    /\ error' = (loads[i].live \/ error) /\ loading' = FALSE
    /\ UNCHANGED <<key, due, data>>

(* The i-th load fails: the data loaded before stays. *)
Fails(i) ==
    /\ Ends(i)
    /\ error' = (loads[i].live \/ error)
    /\ loading' = (loading /\ ~loads[i].live)
    /\ UNCHANGED <<key, due, data>>

(* The hook by itself, in a component whose loader does no work of its own. *)
ResourceNext ==
    \/ (\E k \in Keys \cup {None} : Rekey(k)) \/ Reload \/ Effect
    \/ \E i \in DOMAIN loads : Lands(i) \/ Fails(i)

ResourceSpec == ResourceInit /\ [][ResourceNext]_resourceVars

-----------------------------------------------------------------------------
(* What is shown was never overtaken: no answer replaces the answer to a later question (hooks.ts:13, *)
(* "Stale responses (from a previous key) are discarded", and an older poll's of the same key).       *)
NeverBackwards == ~data.overtaken

(* When nothing is loading and no effect is due, the data is the data of the key shown, or an error says *)
(* that it may not be (hooks.ts:38-49).                                                                   *)
SettledShowsItsKey == ~due /\ ~loading => error \/ data.key = key

(* The only load that is not cancelled is the one started last, nothing overtook it, and it is of the key *)
(* shown unless an effect is due.                                                                         *)
LiveIsLast ==
    \A i \in DOMAIN loads :
        loads[i].live => i = Len(loads) /\ ~loads[i].overtaken /\ (due \/ loads[i].key = key)

ResourceInv == ResourceTypeOK /\ LiveIsLast /\ NeverBackwards /\ SettledShowsItsKey

(* The promise the pages are written against. *)
Late == IF due /\ loads # <<>> /\ loads[Len(loads)].live THEN loads[Len(loads)].key ELSE None
Promise == INSTANCE AbstractResource WITH late <- Late, shown <- data.key
ImplementsPromise == Promise!Spec
=============================================================================
