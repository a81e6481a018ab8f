----------------------------- MODULE ClientsView ----------------------------
(***************************************************************************)
(* The Clients view of src/renderer/pages/connections-page.tsx: two data   *)
(* hooks, the second of which asks for the pods behind the addresses that  *)
(* the first one loaded.  Each hook keeps what it has while it loads, so   *)
(* that the connections of one target meet the pods of another lookup.     *)
(***************************************************************************)
EXTENDS Renderer, Naturals, Sequences, SequencesExt

CONSTANTS
    AddressLists,  \* the client addresses a list of connections may have: distinct and sorted
    Hash,          \* of a text: 32 bits, so that two texts may have the same one
    MaxConnectionLoads, MaxPodLoads   \* bounds: the loads in flight of each hook

(* How many addresses there are, and the hash of their characters with nothing between two addresses. *)
AddressFingerprint(ips) == <<Len(ips), Hash[FoldLeft(LAMBDA text, ip : text \o ip, "", ips)]>>

PodKeys == Targets \X {AddressFingerprint(ips) : ips \in AddressLists \ {<<>>}}

ASSUME ViewAssumption ==
    /\ None \notin Targets \cup PodKeys
    /\ {MaxConnectionLoads, MaxPodLoads} \subseteq Nat \ {0}

VARIABLES
    view, cluster,   \* what the user chose; None when no target is selected
    addresses,      \* of the clients of the connections shown
    cKey, cDue, cData, cError, cLoading, cLoads,   \* the hook that loads connections
    pKey, pDue, pData, pError, pLoading, pLoads,   \* the hook that looks up pods
    pAsked,   \* the addresses that its load in flight that is not cancelled asked for, or <<>>
    pFound    \* the addresses that the lookup it has was for

connectionVars == <<cKey, cDue, cData, cError, cLoading, cLoads>>
podVars == <<pKey, pDue, pData, pError, pLoading, pLoads>>
lookupVars == <<pAsked, pFound>>
viewVars == <<view, cluster, addresses, connectionVars, podVars, lookupVars>>

Connections == INSTANCE UseResource WITH
    Keys <- Targets, MaxLoads <- MaxConnectionLoads, key <- cKey, due <- cDue, data <- cData,
    error <- cError, loading <- cLoading, loads <- cLoads

Pods == INSTANCE UseResource WITH
    Keys <- PodKeys, MaxLoads <- MaxPodLoads, key <- pKey, due <- pDue, data <- pData,
    error <- pError, loading <- pLoading, loads <- pLoads

(* The keys of the two hooks; None when they are not enabled. *)
ConnectionsKey(v, b) == IF v \in {"connections", "clients"} THEN b ELSE None

(* Mutant: the pods are looked up once per target. *)
PodsKeyOnce(v, b, as) ==
    IF v # "clients" \/ b = None \/ as = <<>> THEN None
    ELSE IF pData.key # None /\ pData.key[1] = b THEN pData.key ELSE <<b, AddressFingerprint(as)>>

PodsKey(v, b, as) == IF v = "clients" /\ b # None /\ as # <<>> THEN <<b, AddressFingerprint(as)>> ELSE None

ViewInit ==
    /\ view = "clients" /\ cluster = None /\ addresses = <<>> /\ pAsked = <<>> /\ pFound = <<>>
    /\ Connections!ResourceInit /\ cKey = ConnectionsKey(view, cluster)
    /\ Pods!ResourceInit /\ pKey = None

-----------------------------------------------------------------------------
RendersPods ==
    /\ LET k == PodsKey(view', cluster', addresses') IN IF k = pKey THEN UNCHANGED podVars ELSE Pods!Rekey(k)
    /\ UNCHANGED lookupVars

(* Another tab, or another target, is chosen. *)
Shows(v, b) ==
    /\ (v = view) # (b = cluster)
    /\ view' = v /\ cluster' = b /\ UNCHANGED addresses
    /\ LET k == ConnectionsKey(v, b) IN IF k = cKey THEN UNCHANGED connectionVars ELSE Connections!Rekey(k)
    /\ RendersPods

(* A step of the first hook, after which the second one renders with the addresses there are. *)
ConnectionsLoad ==
    /\ UNCHANGED <<view, cluster>>
    /\ \/ Connections!Reload /\ UNCHANGED addresses
       \/ Connections!Effect /\ addresses' = IF cKey = None THEN <<>> ELSE addresses
       \/ \E i \in DOMAIN cLoads :
             \/ Connections!Fails(i) /\ UNCHANGED addresses
             \/ Connections!Lands(i) /\ IF cLoads[i].live THEN addresses' \in AddressLists ELSE UNCHANGED addresses
    /\ RendersPods

(* The loader is the last render's: it asks for the addresses there are when the effect runs. *)
PodsAreAsked ==
    /\ Pods!Effect
    /\ pAsked' = IF pKey = None THEN <<>> ELSE addresses
    /\ pFound' = IF pKey = None THEN <<>> ELSE pFound

PodsLookupEnds(i) ==
    /\ pAsked' = IF pLoads[i].live THEN <<>> ELSE pAsked
    /\ \/ Pods!Lands(i) /\ pFound' = IF pLoads[i].live THEN pAsked ELSE pFound
       \/ Pods!Fails(i) /\ UNCHANGED pFound

PodsLoad ==
    /\ (Pods!Reload /\ UNCHANGED lookupVars) \/ PodsAreAsked \/ \E i \in DOMAIN pLoads : PodsLookupEnds(i)
    /\ UNCHANGED <<view, cluster, addresses, connectionVars>>

ViewNext ==
    \/ \E v \in {"connections", "clients", "channels"}, b \in Targets \cup {None} : Shows(v, b)
    \/ ConnectionsLoad
    \/ PodsLoad

-----------------------------------------------------------------------------
(* "Until the first pod lookup answers, every client would read as `Not a pod`." *)
PodsPending == view = "clients" /\ addresses # <<>> /\ pData.key = None /\ ~pError

(* The page has rows - the connections it has, named by the lookup it has - and both hooks have settled well. *)
ShowsClients == view = "clients" /\ cData.key # None /\ addresses # <<>> /\ ~PodsPending
Settled == ~cDue /\ ~cLoading /\ ~cError /\ ~pDue /\ ~pLoading /\ ~pError

(* Once both hooks have settled without an error, the rows are of the target chosen, and they are named by a *)
(* lookup in that target's cluster for addresses of the same fingerprint as theirs, however the answers of   *)
(* the two were interleaved with each other, with changes of the target and with changes of the tab          *)
(* (connections-page.tsx:419-441).  Until then a client at an address the last lookup did not ask for reads  *)
(* as no pod.                                                                                                *)
ClientsAreLookedUp ==
    ShowsClients /\ Settled =>
        /\ cData.key = cluster /\ pData.key[1] = cluster
        /\ AddressFingerprint(pFound) = AddressFingerprint(addresses)

(* "Pods change far less often than connection counters: resolve when the address set changes, then once a   *)
(* minute" (connections-page.tsx:430): the rows are named by a lookup of their own addresses.  This does not *)
(* hold of two address sets of one fingerprint: the key stays, and no lookup follows until the next poll.    *)
LooksUpWhenAddressesChange == ShowsClients /\ Settled => pFound = addresses
=============================================================================
