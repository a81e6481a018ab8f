----------------------------- MODULE QueuePage -----------------------------
(***************************************************************************)
(* The Queues page with a queue open: the drawer and its guarded actions   *)
(* (queue-detail.tsx) and the inspector of its messages                    *)
(* (message-inspector.tsx).  Of the drawer's data only what decides that    *)
(* the inspector is mounted is kept: that there is some, which, as          *)
(* AbstractResource promises, stays until the drawer renders without a     *)
(* queue.  Answers come in any order, also to an inspector that is gone,   *)
(* and a dialog may be dismissed while its action runs (the dialog is      *)
(* Freelens').  One confirmed action is in flight at a time.               *)
(***************************************************************************)
EXTENDS Renderer, DeadLetter

CONSTANTS
    Queues,    \* the names of queues, which several targets may use
    Batches,   \* what a peek may fetch: sequences of messages [headers, truncated]
    MaxPeeks   \* bound: the peeks in flight at once

(* What a confirmation says it will do, and whether its inspector and its dialog are still there. *)
Confirmations ==
    [kind : {"replay", "purge", "delete"}, target : Targets, from : (Targets \X Queues) \cup {None},
     chosen : SUBSET Nat, mounted : BOOLEAN, held : BOOLEAN]

ASSUME QueuePageAssumption ==
    /\ None \notin Queues /\ None \notin Confirmations /\ MaxPeeks \in Nat \ {0}
    /\ \A b \in Batches : Len(b) \in Nat /\ DOMAIN b = 1..Len(b)

VARIABLES
    target,      \* the broker the page shows
    queue,       \* the queue in the drawer, or None
    loaded,      \* the useResource of the drawer has data
    armed,       \* the brokers in Write Mode
    inspector,   \* the state hooks of MessageInspector
    peeks,       \* the peeks in flight, each the broker and the queue it was asked for
    dialog,      \* what the confirmation on the screen asks for, or None
    act,         \* what was confirmed and is in flight, or None
    busy         \* of the drawer

pageState == <<target, queue, loaded, armed>>
queueVars == <<target, queue, loaded, armed, inspector, peeks, dialog, act, busy>>

(* `picked` records which of the selected messages were selected one by one. *)
Fresh == [batch |-> <<>>, from |-> None, reason |-> "", selected |-> {}, picked |-> {}, replayed |-> {}, busy |-> FALSE, error |-> FALSE]

QueueInit ==
    /\ target \in Targets /\ queue = None /\ armed = {}
    /\ loaded = FALSE
    /\ inspector = Fresh /\ peeks = <<>>
    /\ dialog = None /\ act = None /\ busy = FALSE

-----------------------------------------------------------------------------
(* What the inspector shows, and what of it a replay takes. *)

(* Of a message the state keeps the reason of its last death, and whether it can be replayed. *)
Told(m) ==
    LET death == ParseDeath(m.headers)
    IN [reason |-> IF death = None THEN "none" ELSE DeathReason(death),
        replayable |-> death # None /\ ~m.truncated]

Reasons == {""} \cup {inspector.batch[i].reason : i \in DOMAIN inspector.batch}

(* A batch may not have the reason picked for the one before. *)
ActiveReason == IF inspector.reason \in Reasons THEN inspector.reason ELSE ""

(* The search box hides messages as the reason does, and is left out. *)
Shown == {i \in DOMAIN inspector.batch : ActiveReason \in {"", inspector.batch[i].reason}}
Replayable == {i \in Shown : inspector.batch[i].replayable}
Chosen == Replayable \cap inspector.selected

(* What "select all" is about. *)
Selectable == Replayable \ inspector.replayed

-----------------------------------------------------------------------------
(* Nothing else on the page can be used while a confirmation is on the screen. *)
Modal == dialog # None \/ (act # None /\ act.held)
Mounted == queue # None /\ loaded
Usable == Mounted /\ ~Modal

Orphaned(d) == IF d = None THEN None ELSE [d EXCEPT !.mounted = FALSE]

(* Mutant: the inspector of one queue serves the next. *)
RemountsNot == UNCHANGED <<inspector, peeks, dialog, act>>

(* Another inspector takes the place of the one there was, which hears of nothing any more. *)
Remounts ==
    /\ inspector' = Fresh /\ peeks' = <<>>
    /\ dialog' = Orphaned(dialog) /\ act' = Orphaned(act)

(* The page shows another broker, under the same drawer: the discovery ended, the page's URL changed, or *)
(* the user went to the header's selector with the keyboard (a click would close the drawer).             *)
SelectTarget(t) ==
    /\ ~Modal /\ t # target
    /\ target' = t
    /\ UNCHANGED <<queue, loaded, armed, inspector, peeks, dialog, act, busy>>

(* Another queue in the drawer, or none. *)
OpenQueue(q) ==
    /\ ~Modal /\ q # queue
    /\ queue' = q
    /\ Remounts
    /\ UNCHANGED <<target, loaded, armed, busy>>

SwitchTab == Usable /\ Remounts /\ UNCHANGED <<pageState, busy>>

SetWriteMode(t) ==
    /\ ~Modal /\ queue = None
    /\ armed' = (IF t \in armed THEN armed \ {t} ELSE armed \cup {t})
    /\ UNCHANGED <<target, queue, loaded, inspector, peeks, dialog, act, busy>>

(* The drawer's data comes, or goes once the drawer was closed. *)
DetailLoads ==
    /\ loaded' = (queue # None) /\ loaded' # loaded
    /\ UNCHANGED <<target, queue, armed, inspector, peeks, dialog, act, busy>>

-----------------------------------------------------------------------------
(* "Peek", or "Retry", which the error shows also while something else is busy. *)
Peek ==
    /\ Usable /\ (inspector.busy => inspector.error)
    /\ Len(peeks) < MaxPeeks
    /\ peeks' = Append(peeks, <<target, queue>>)
    /\ inspector' = [inspector EXCEPT !.busy = TRUE, !.error = FALSE]
    /\ UNCHANGED <<pageState, dialog, act, busy>>

PeekLands(i) ==
    /\ \E b \in Batches :
          inspector' = [inspector EXCEPT !.batch = [m \in DOMAIN b |-> Told(b[m])], !.from = peeks[i], !.selected = {}, !.picked = {},
                                         !.replayed = {}, !.busy = FALSE]
    /\ peeks' = RemoveAt(peeks, i)
    /\ UNCHANGED <<pageState, dialog, act, busy>>

(* Mutant: `busy` is cleared by success only. *)
PeekFailsBusy(i) ==
    /\ inspector' = [inspector EXCEPT !.error = TRUE]
    /\ peeks' = RemoveAt(peeks, i)
    /\ UNCHANGED <<pageState, dialog, act, busy>>

(* The batch peeked before stays. *)
PeekFails(i) ==
    /\ inspector' = [inspector EXCEPT !.error = TRUE, !.busy = FALSE]
    /\ peeks' = RemoveAt(peeks, i)
    /\ UNCHANGED <<pageState, dialog, act, busy>>

Filter(reason) ==
    /\ Usable /\ reason \in Reasons /\ inspector.batch # <<>>
    /\ inspector' = [inspector EXCEPT !.reason = reason]
    /\ UNCHANGED <<pageState, peeks, dialog, act, busy>>

ToggleMessage(i) ==
    /\ Usable /\ i \in Replayable
    /\ inspector' = IF i \in inspector.selected
                    THEN [inspector EXCEPT !.selected = @ \ {i}, !.picked = @ \ {i}]
                    ELSE [inspector EXCEPT !.selected = @ \cup {i}, !.picked = @ \cup {i}]
    /\ UNCHANGED <<pageState, peeks, dialog, act, busy>>

SelectAllShown ==
    /\ Usable /\ Selectable # {}
    /\ inspector' = IF Selectable \subseteq inspector.selected
                    THEN [inspector EXCEPT !.selected = @ \ Selectable, !.picked = @ \ Selectable]
                    ELSE [inspector EXCEPT !.selected = @ \cup Selectable]
    /\ UNCHANGED <<pageState, peeks, dialog, act, busy>>

-----------------------------------------------------------------------------
(* A confirmation: what it will do is decided when it opens. *)
Asks(kind, chosen) ==
    /\ dialog' = [kind |-> kind, target |-> target, from |-> inspector.from, chosen |-> chosen,
                  mounted |-> TRUE, held |-> TRUE]
    /\ UNCHANGED <<pageState, inspector, peeks, act, busy>>

ConfirmReplay == Usable /\ target \in armed /\ ~inspector.busy /\ Chosen # {} /\ Asks("replay", Chosen)

Guarded(kind) == ~Modal /\ queue # None /\ target \in armed /\ ~busy /\ Asks(kind, {})

Cancel == dialog # None /\ dialog' = None /\ UNCHANGED <<pageState, inspector, peeks, act, busy>>

Confirm ==
    /\ dialog # None /\ act = None
    /\ act' = dialog /\ dialog' = None
    /\ inspector' = [inspector EXCEPT !.busy = @ \/ (dialog.kind = "replay" /\ dialog.mounted)]
    /\ busy' = (busy \/ dialog.kind # "replay")
    /\ UNCHANGED <<pageState, peeks>>

Dismiss ==
    /\ act # None /\ act.held
    /\ act' = [act EXCEPT !.held = FALSE]
    /\ UNCHANGED <<pageState, inspector, peeks, dialog, busy>>

(* Mutant: the selection outlives the replay. *)
ReplayLandsKeeping ==
    /\ act # None /\ act.kind = "replay"
    /\ \E routed \in SUBSET act.chosen :
          inspector' = IF act.mounted
                       THEN [inspector EXCEPT !.replayed = @ \cup routed, !.busy = FALSE]
                       ELSE inspector
    /\ act' = None
    /\ UNCHANGED <<pageState, peeks, dialog, busy>>

(* The report of the replay: the messages whose copy was routed are marked, in the batch that is there now. *)
ReplayLands ==
    /\ act # None /\ act.kind = "replay"
    /\ \E routed \in SUBSET act.chosen :
          inspector' = IF act.mounted
                       THEN [inspector EXCEPT !.selected = {}, !.picked = {}, !.replayed = @ \cup routed,
                                              !.busy = FALSE]
                       ELSE inspector
    /\ act' = None
    /\ UNCHANGED <<pageState, peeks, dialog, busy>>

(* The replay, the purge or the delete is answered with an error. *)
ActFails ==
    /\ act # None
    /\ act' = None
    /\ inspector' = [inspector EXCEPT !.busy = @ /\ ~(act.kind = "replay" /\ act.mounted)]
    /\ busy' = (busy /\ act.kind = "replay")
    /\ UNCHANGED <<pageState, peeks, dialog>>

(* A purge reloads the drawer's data, and the list of queues. *)
PurgeLands ==
    /\ act # None /\ act.kind = "purge"
    /\ act' = None /\ busy' = FALSE
    /\ UNCHANGED <<pageState, inspector, peeks, dialog>>

(* A delete closes the drawer, whatever is in it by then. *)
DeleteLands ==
    /\ act # None /\ act.kind = "delete"
    /\ busy' = FALSE
    /\ queue' = None
    /\ inspector' = Fresh /\ peeks' = <<>> /\ dialog' = Orphaned(dialog) /\ act' = None
    /\ UNCHANGED <<target, loaded, armed>>

-----------------------------------------------------------------------------
QueueNext ==
    \/ \E t \in Targets : SelectTarget(t) \/ SetWriteMode(t)
    \/ \E q \in Queues \cup {None} : OpenQueue(q)
    \/ SwitchTab \/ DetailLoads
    \/ Peek \/ (\E i \in DOMAIN peeks : PeekLands(i) \/ PeekFails(i))
    \/ \E reason \in Reasons : Filter(reason)
    \/ (\E i \in Shown : ToggleMessage(i)) \/ SelectAllShown
    \/ ConfirmReplay \/ (\E kind \in {"purge", "delete"} : Guarded(kind))
    \/ Cancel \/ Confirm \/ Dismiss
    \/ ReplayLands \/ ActFails \/ PurgeLands \/ DeleteLands

QueueSpec == QueueInit /\ [][QueueNext]_queueVars

-----------------------------------------------------------------------------
(* Messages shown were peeked from a queue of the name in the drawer, whatever answers come after the drawer *)
(* went on to another one (queue-detail.tsx:218).                                                             *)
BatchIsOfTheQueue == inspector.batch # <<>> => inspector.from[2] = queue

(* A message whose copy was already routed is selected for another replay only by hand: "a second 'select  *)
(* all' does not publish duplicates by accident" (message-inspector.tsx:181-182).                            *)
DuplicatesArePicked == inspector.selected \cap inspector.replayed \subseteq inspector.picked

(* The inspector and the drawer are busy only while something they asked for is in flight, so that their    *)
(* buttons come back whatever fails, is dismissed or lands on another inspector (message-inspector.tsx:226, *)
(* 339; queue-detail.tsx:137).                                                                                *)
BusyIsHonest ==
    /\ inspector.busy => peeks # <<>> \/ (act # None /\ act.kind = "replay" /\ act.mounted)
    /\ busy => act # None /\ act.kind # "replay"

(* A copy of a message goes to the broker the message was peeked from ("switching queues must not keep the *)
(* previous queue's peeked messages", queue-detail.tsx:218).                                                  *)
ReplayStaysOnItsBroker == act # None /\ act.kind = "replay" => act.target = act.from[1]
=============================================================================
