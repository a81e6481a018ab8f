--------------------------- MODULE SelectionParam ---------------------------
(***************************************************************************)
(* What is open in a page's drawer (useSelectionParam and SelectionStore,  *)
(* src/renderer/hooks.ts; openQueue and the drawer's onClose in            *)
(* src/renderer/pages/queues-page.tsx): kept in a store that outlives the  *)
(* page, and read from a URL param when that param changes to a value.     *)
(* The drawer closes on a click outside (hooks.ts:187-190), so only a      *)
(* closed one is opened by a click.  `lastUrl` of the hook is `link`: the  *)
(* effects that compare them run with the render.                          *)
(***************************************************************************)
EXTENDS Absent

CONSTANT Refs   \* what can be open

ASSUME SelectionAssumption == None \notin Refs

VARIABLES
    link,    \* the URL param
    kept,    \* the store's value
    value,   \* the state of the mounted page; None also while no page is mounted
    mounted,
    wanted   \* what the user last opened, by hand or by a link

selectionVars == <<link, kept, value, mounted, wanted>>

SelectionInit == link = None /\ kept = None /\ value = None /\ mounted = FALSE /\ wanted = None

Open == IF mounted THEN Or(kept, value) ELSE None

(* A page is mounted under a URL: its param goes to the store, or else it takes what is there. *)
Mounts(l) == mounted' = TRUE /\ kept' = Or(l, kept) /\ value' = Or(l, kept)

(* The user comes by a link, or without one. *)
Visit(l) ==
    /\ ~mounted
    /\ link' = l /\ wanted' = Or(l, wanted)
    /\ Mounts(l)

(* The route renders again and makes another page, under the same URL. *)
Remount == mounted /\ Mounts(link) /\ UNCHANGED <<link, wanted>>

Leave == mounted /\ mounted' = FALSE /\ value' = None /\ UNCHANGED <<link, kept, wanted>>

(* The URL of the mounted page changes, to another link or to none: the store tells the page. *)
LinkChanges(l) ==
    /\ mounted /\ l # link
    /\ link' = l /\ wanted' = Or(l, wanted)
    /\ kept' = Or(l, kept) /\ value' = IF kept' # kept THEN kept' ELSE value
    /\ UNCHANGED mounted

OpenByHand(r) ==
    /\ mounted /\ Open = None
    /\ kept' = r /\ value' = r /\ wanted' = r
    /\ UNCHANGED <<link, mounted>>

(* Closing takes the link from the URL. *)
Close ==
    /\ Open # None
    /\ kept' = None /\ value' = None /\ wanted' = None /\ link' = None
    /\ UNCHANGED mounted

SelectionNext ==
    \/ \E l \in Refs \cup {None} : Visit(l) \/ LinkChanges(l)
    \/ Remount \/ Leave \/ Close
    \/ \E r \in Refs : OpenByHand(r)

(* The drawer shows what the user last opened, and nothing once they closed it: it "survives page re-mounts *)
(* caused by route/URL changes", and "a page param going missing can never close a drawer" (hooks.ts:103-105),*)
(* nor an old one open it again.                                                                             *)
DrawerIsTheUsers == mounted => Open = wanted
=============================================================================
