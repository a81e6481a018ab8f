--------------------------- MODULE RendererProofs ---------------------------
(***************************************************************************)
(* For any targets, tables, discoveries, lists and logins, and any number  *)
(* of calls and loads in flight, however they interleave: what the         *)
(* renderer keeps between loads and pages is what the user chose, what     *)
(* Main was told, and what was loaded for what is shown.                   *)
(***************************************************************************)
EXTENDS MCRenderer, SequenceTheorems, TLAPS

(* The parts of the renderer take their steps one at a time. *)
LEMMA PartsAreApart ==
    ASSUME [Next]_vars
    PROVE  /\ [ViewNext]_viewVars /\ [TargetNext]_targetVars /\ [SelectionNext]_selectionVars
           /\ [MirrorNext]_mirrorVars /\ [WidthNext]_widthVars /\ [LoginNext]_loginVars
BY DEF Next, Only, vars

-----------------------------------------------------------------------------
(* The queue page: its inspector shows messages of the drawer's queue, selects no duplicate by itself, and is *)
(* busy only while something is in flight, for any brokers, queues, batches and number of peeks in flight.    *)

(* A peek is asked of a queue in the drawer; what it fetches is kept as `Told`. *)
Origins == Targets \X Queues
Contents == {<<>>} \cup {[m \in DOMAIN b |-> Told(b[m])] : b \in Batches}
ReasonsOf(b) == {b[i].reason : i \in DOMAIN b}

Inspectors ==
    [batch : Contents, from : Origins \cup {None}, reason : {""} \cup UNION {ReasonsOf(b) : b \in Contents},
     selected : SUBSET Nat, picked : SUBSET Nat, replayed : SUBSET Nat, busy : BOOLEAN, error : BOOLEAN]

QueueTypeOK ==
    /\ target \in Targets /\ queue \in Queues \cup {None}
    /\ loaded \in BOOLEAN /\ busy \in BOOLEAN /\ armed \subseteq Targets
    /\ inspector \in Inspectors
    /\ peeks \in Seq(Origins)
    /\ dialog \in Confirmations \cup {None} /\ act \in Confirmations \cup {None}

(* The peeks in flight that the inspector still hears of were asked of the queue in the drawer. *)
PeeksAreOfTheQueue == \A i \in DOMAIN peeks : peeks[i][2] = queue

QueueInv == QueueTypeOK /\ PeeksAreOfTheQueue /\ BatchIsOfTheQueue /\ DuplicatesArePicked /\ BusyIsHonest

(* What is left of a sequence without its i-th element. *)
LEMMA RemoveAtShifts ==
    ASSUME NEW S, NEW s \in Seq(S), NEW i \in DOMAIN s
    PROVE  /\ RemoveAt(s, i) \in Seq(S) /\ Len(RemoveAt(s, i)) = Len(s) - 1
           /\ \A j \in 1..(Len(s) - 1) : RemoveAt(s, i)[j] = IF j < i THEN s[j] ELSE s[j + 1]
<1>1. i \in 1..Len(s) /\ Len(s) \in Nat
  OBVIOUS
<1> DEFINE before == SubSeq(s, 1, i - 1)
           after == SubSeq(s, i + 1, Len(s))
<1>2. before \in Seq(S) /\ Len(before) = i - 1 /\ \A j \in 1..(i - 1) : before[j] = s[j]
  BY <1>1
<1>3. after \in Seq(S) /\ Len(after) = Len(s) - i /\ \A j \in 1..(Len(s) - i) : after[j] = s[i + j]
  BY <1>1
<1>4. RemoveAt(s, i) = before \o after
  BY DEF RemoveAt
<1> HIDE DEF before, after
<1>5. RemoveAt(s, i) \in Seq(S) /\ Len(RemoveAt(s, i)) = Len(s) - 1
  <2>1. before \o after \in Seq(S) /\ Len(before \o after) = Len(before) + Len(after)
    BY <1>2, <1>3, ConcatProperties
  <2> QED BY <2>1, <1>1, <1>2, <1>3, <1>4
<1>6. ASSUME NEW j \in 1..(Len(s) - 1) PROVE RemoveAt(s, i)[j] = IF j < i THEN s[j] ELSE s[j + 1]
  <2>1. RemoveAt(s, i)[j] = IF j <= Len(before) THEN before[j] ELSE after[j - Len(before)]
    <3>1. j \in 1..(Len(before) + Len(after))
      BY <1>1, <1>2, <1>3
    <3>2. (before \o after)[j] = IF j <= Len(before) THEN before[j] ELSE after[j - Len(before)]
      BY <3>1, <1>2, <1>3, ConcatProperties
    <3> QED BY <3>2, <1>4
  <2>2. CASE j < i
    BY <2>1, <2>2, <1>1, <1>2
  <2>3. CASE j >= i
    <3>1. j - (i - 1) \in 1..(Len(s) - i) /\ i + (j - (i - 1)) = j + 1
      BY <2>3, <1>1
    <3>2. RemoveAt(s, i)[j] = after[j - (i - 1)]
      BY <2>1, <2>3, <1>1, <1>2
    <3> QED BY <3>1, <3>2, <2>3, <1>1, <1>3
  <2> QED BY <2>2, <2>3, <1>1
<1> QED BY <1>5, <1>6

(* What is left was there before. *)
LEMMA RemoveAtKeeps ==
    ASSUME NEW S, NEW s \in Seq(S), NEW i \in DOMAIN s
    PROVE  /\ RemoveAt(s, i) \in Seq(S)
           /\ \A j \in DOMAIN RemoveAt(s, i) : \E k \in DOMAIN s : RemoveAt(s, i)[j] = s[k]
<1>1. /\ RemoveAt(s, i) \in Seq(S) /\ Len(RemoveAt(s, i)) = Len(s) - 1
      /\ \A j \in 1..(Len(s) - 1) : RemoveAt(s, i)[j] = IF j < i THEN s[j] ELSE s[j + 1]
  BY RemoveAtShifts
<1>2. DOMAIN RemoveAt(s, i) = 1..(Len(s) - 1) /\ DOMAIN s = 1..Len(s) /\ Len(s) \in Nat
  BY <1>1
<1>3. \A j \in 1..(Len(s) - 1) : j \in 1..Len(s) /\ j + 1 \in 1..Len(s)
  BY <1>2
<1> QED BY <1>1, <1>2, <1>3

(* The messages shown, replayed and selected are places in the batch. *)
LEMMA PlacesAreNumbers ==
    ASSUME inspector \in Inspectors
    PROVE  /\ Shown \subseteq Nat /\ Replayable \subseteq Nat /\ Chosen \subseteq Nat /\ Selectable \subseteq Nat
           /\ Reasons \subseteq {""} \cup UNION {ReasonsOf(b) : b \in Contents}
<1>1. inspector.batch \in Contents
  BY DEF Inspectors
<1>2. ASSUME NEW b \in Contents PROVE DOMAIN b \subseteq Nat
  <2>1. CASE b = <<>>
    BY <2>1
  <2>2. ASSUME NEW c \in Batches, b = [m \in DOMAIN c |-> Told(c[m])] PROVE DOMAIN b \subseteq Nat
    BY <2>2, QueuePageAssumption
  <2> QED BY <2>1, <2>2 DEF Contents
<1>3. DOMAIN inspector.batch \subseteq Nat
  BY <1>1, <1>2
<1>4. Reasons \subseteq {""} \cup UNION {ReasonsOf(b) : b \in Contents}
  <2>1. Reasons = {""} \cup ReasonsOf(inspector.batch)
    BY DEF Reasons, ReasonsOf
  <2> QED BY <1>1, <2>1
<1> QED BY <1>3, <1>4 DEF Shown, Replayable, Chosen, Selectable

LEMMA FreshTyped == Fresh \in Inspectors
BY DEF Fresh, Inspectors, Contents

LEMMA OrphanedTyped ==
    ASSUME NEW d \in Confirmations \cup {None}
    PROVE  /\ Orphaned(d) \in Confirmations \cup {None}
           /\ d = None => Orphaned(d) = None
           /\ d # None => Orphaned(d) # None /\ Orphaned(d).kind = d.kind /\ ~Orphaned(d).mounted
BY QueuePageAssumption DEF Orphaned, Confirmations

-----------------------------------------------------------------------------
LEMMA TypeStep ==
    ASSUME QueueTypeOK, [QueueNext]_queueVars
    PROVE  QueueTypeOK'
<1> USE DEF QueueTypeOK, pageState
<1>1. ASSUME NEW t \in Targets, SelectTarget(t) \/ SetWriteMode(t) PROVE QueueTypeOK'
  BY <1>1 DEF SelectTarget, SetWriteMode
<1>2. ASSUME NEW q \in Queues \cup {None}, OpenQueue(q) PROVE QueueTypeOK'
  BY <1>2, FreshTyped, OrphanedTyped DEF OpenQueue, Remounts
<1>3. ASSUME SwitchTab PROVE QueueTypeOK'
  BY <1>3, FreshTyped, OrphanedTyped DEF SwitchTab, Remounts
<1>4. ASSUME DetailLoads PROVE QueueTypeOK'
  BY <1>4 DEF DetailLoads
<1>5. ASSUME Peek PROVE QueueTypeOK'
  <2>1. <<target, queue>> \in Origins
    BY <1>5 DEF Peek, Usable, Mounted, Origins
  <2>2. peeks' \in Seq(Origins)
    BY <1>5, <2>1 DEF Peek
  <2>3. inspector' \in Inspectors
    BY <1>5 DEF Peek, Inspectors
  <2> QED BY <1>5, <2>2, <2>3 DEF Peek
<1>6. ASSUME NEW i \in DOMAIN peeks, PeekLands(i) \/ PeekFails(i) PROVE QueueTypeOK'
  <2>1. peeks' \in Seq(Origins) /\ peeks[i] \in Origins
    <3>1. peeks \in Seq(Origins) /\ peeks' = RemoveAt(peeks, i)
      BY <1>6 DEF PeekLands, PeekFails
    <3> QED BY <3>1, RemoveAtKeeps
  <2>2. inspector' \in Inspectors
    <3>1. CASE PeekFails(i)
      BY <3>1 DEF PeekFails, Inspectors
    <3>2. CASE PeekLands(i)
      <4>1. PICK b \in Batches :
              inspector' = [inspector EXCEPT !.batch = [m \in DOMAIN b |-> Told(b[m])], !.from = peeks[i],
                                             !.selected = {}, !.picked = {}, !.replayed = {}, !.busy = FALSE]
        BY <3>2 DEF PeekLands
      <4>2. [m \in DOMAIN b |-> Told(b[m])] \in Contents
        BY DEF Contents
      <4> QED BY <4>1, <4>2, <2>1 DEF Inspectors
    <3> QED BY <1>6, <3>1, <3>2
  <2> QED BY <1>6, <2>1, <2>2 DEF PeekLands, PeekFails
<1>7. ASSUME NEW reason \in Reasons, Filter(reason) PROVE QueueTypeOK'
  <2>1. inspector' \in Inspectors
    BY <1>7, PlacesAreNumbers DEF Filter, Inspectors
  <2> QED BY <1>7, <2>1 DEF Filter
<1>8. ASSUME NEW i \in Shown, ToggleMessage(i) PROVE QueueTypeOK'
  <2>1. inspector' \in Inspectors
    BY <1>8, PlacesAreNumbers DEF ToggleMessage, Inspectors
  <2> QED BY <1>8, <2>1 DEF ToggleMessage
<1>9. ASSUME SelectAllShown PROVE QueueTypeOK'
  <2>1. inspector' \in Inspectors
    BY <1>9, PlacesAreNumbers DEF SelectAllShown, Inspectors
  <2> QED BY <1>9, <2>1 DEF SelectAllShown
<1>10. ASSUME NEW kind \in {"replay", "purge", "delete"}, NEW picks \in SUBSET Nat, Asks(kind, picks) PROVE QueueTypeOK'
  <2>1. inspector.from \in (Targets \X Queues) \cup {None}
    BY DEF Inspectors, Origins
  <2>2. dialog' \in Confirmations
    BY <1>10, <2>1 DEF Asks, Confirmations
  <2> QED BY <1>10, <2>2 DEF Asks
<1>11. ASSUME ConfirmReplay \/ \E kind \in {"purge", "delete"} : Guarded(kind) PROVE QueueTypeOK'
  BY <1>10, <1>11, PlacesAreNumbers DEF ConfirmReplay, Guarded
<1>12. ASSUME Cancel \/ Dismiss PROVE QueueTypeOK'
  BY <1>12 DEF Cancel, Dismiss, Confirmations
<1>13. ASSUME Confirm PROVE QueueTypeOK'
  <2>1. inspector' \in Inspectors
    BY <1>13 DEF Confirm, Inspectors
  <2> QED BY <1>13, <2>1 DEF Confirm
<1>14. ASSUME ReplayLands PROVE QueueTypeOK'
  <2>1. inspector' \in Inspectors
    <3>1. PICK routed \in SUBSET act.chosen :
            inspector' = IF act.mounted
                         THEN [inspector EXCEPT !.selected = {}, !.picked = {}, !.replayed = @ \cup routed,
                                                !.busy = FALSE]
                         ELSE inspector
      BY <1>14 DEF ReplayLands
    <3>2. routed \subseteq Nat
      BY <1>14 DEF ReplayLands, Confirmations
    <3> QED BY <3>1, <3>2 DEF Inspectors
  <2> QED BY <1>14, <2>1 DEF ReplayLands
<1>15. ASSUME ActFails PROVE QueueTypeOK'
  <2>1. inspector' \in Inspectors
    BY <1>15 DEF ActFails, Inspectors
  <2> QED BY <1>15, <2>1 DEF ActFails
<1>16. ASSUME PurgeLands \/ DeleteLands PROVE QueueTypeOK'
  <2>1. CASE PurgeLands
    BY <2>1 DEF PurgeLands
  <2>2. CASE DeleteLands
    <3>1. peeks' \in Seq(Origins) /\ dialog' \in Confirmations \cup {None}
      BY <2>2, OrphanedTyped DEF DeleteLands
    <3> QED BY <2>2, <3>1, FreshTyped DEF DeleteLands
  <2> QED BY <1>16, <2>1, <2>2
<1>17. CASE UNCHANGED queueVars
  BY <1>17 DEF queueVars
<1> QED BY <1>1, <1>2, <1>3, <1>4, <1>5, <1>6, <1>7, <1>8, <1>9, <1>11, <1>12, <1>13, <1>14, <1>15, <1>16, <1>17 DEF QueueNext

-----------------------------------------------------------------------------
(* A new inspector has no batch, hears of no peek and is idle; what was confirmed stays what it is, but is not *)
(* this inspector's any more.                                                                                  *)
LEMMA RemountKeeps ==
    ASSUME QueueInv, inspector' = Fresh, peeks' = <<>>, act' \in {Orphaned(act), None}
    PROVE  PeeksAreOfTheQueue' /\ BatchIsOfTheQueue' /\ DuplicatesArePicked' /\ ~inspector'.busy
<1>1. inspector'.batch = <<>> /\ inspector'.selected = {} /\ ~inspector'.busy
  BY DEF Fresh
<1>2. DOMAIN peeks' = {}
  OBVIOUS
<1> QED BY <1>1, <1>2 DEF PeeksAreOfTheQueue, BatchIsOfTheQueue, DuplicatesArePicked

(* Steps that only move the selection, or touch neither the inspector nor its peeks nor what it waits for. *)
LEMMA SelectionKeeps ==
    ASSUME QueueInv, UNCHANGED <<queue, peeks, act, busy>>,
           inspector' \in Inspectors, inspector'.batch = inspector.batch, inspector'.from = inspector.from,
           inspector'.replayed = inspector.replayed, inspector'.busy = inspector.busy, DuplicatesArePicked'
    PROVE  PeeksAreOfTheQueue' /\ BatchIsOfTheQueue' /\ BusyIsHonest'
BY DEF QueueInv, PeeksAreOfTheQueue, BatchIsOfTheQueue, BusyIsHonest

LEMMA InvStep ==
    ASSUME QueueInv, [QueueNext]_queueVars
    PROVE  QueueInv'
<1> USE DEF pageState
<1>a. QueueTypeOK /\ QueueTypeOK'
  BY TypeStep DEF QueueInv
<1>b. inspector \in Inspectors /\ inspector' \in Inspectors /\ peeks \in Seq(Origins)
  BY <1>a DEF QueueTypeOK
<1>c. dialog \in Confirmations \cup {None} /\ act \in Confirmations \cup {None} /\ busy \in BOOLEAN
  BY <1>a DEF QueueTypeOK
<1>1. ASSUME UNCHANGED <<queue, inspector, peeks, act, busy>> PROVE QueueInv'
  BY <1>1, <1>a DEF QueueInv, PeeksAreOfTheQueue, BatchIsOfTheQueue, DuplicatesArePicked, BusyIsHonest
<1>2. ASSUME Remounts, busy' = busy PROVE QueueInv'
  <2>1. BusyIsHonest'
    BY <1>2, <1>c, OrphanedTyped DEF Remounts, Fresh, QueueInv, BusyIsHonest
  <2> QED BY <1>2, <1>a, <2>1, RemountKeeps DEF Remounts, QueueInv
<1>3. ASSUME DeleteLands PROVE QueueInv'
  <2>1. BusyIsHonest'
    BY <1>3 DEF DeleteLands, Fresh, BusyIsHonest
  <2> QED BY <1>3, <1>a, <2>1, RemountKeeps DEF DeleteLands, QueueInv
<1>4. ASSUME Peek PROVE QueueInv'
  <2>1. /\ inspector'.batch = inspector.batch /\ inspector'.from = inspector.from /\ inspector'.selected = inspector.selected
        /\ inspector'.picked = inspector.picked /\ inspector'.replayed = inspector.replayed
    BY <1>4, <1>b DEF Peek, Inspectors
  <2>2. <<target, queue>> \in Origins
    BY <1>4, <1>a DEF Peek, Usable, Mounted, Origins, QueueTypeOK
  <2>3. PeeksAreOfTheQueue'
    <3>1. \A i \in DOMAIN peeks' : peeks'[i] = <<target, queue>> \/ (i \in DOMAIN peeks /\ peeks'[i] = peeks[i])
      BY <1>4, <1>b, <2>2 DEF Peek
    <3> QED BY <1>4, <3>1 DEF Peek, QueueInv, PeeksAreOfTheQueue
  <2>4. BusyIsHonest'
    <3>1. peeks' # <<>>
      BY <1>4, <1>b, <2>2 DEF Peek
    <3> QED BY <1>4, <3>1 DEF Peek, QueueInv, BusyIsHonest
  <2> QED BY <1>4, <1>a, <2>1, <2>3, <2>4 DEF Peek, QueueInv, BatchIsOfTheQueue, DuplicatesArePicked
<1>5. ASSUME NEW i \in DOMAIN peeks, PeekLands(i) \/ PeekFails(i) PROVE QueueInv'
  <2>1. peeks' = RemoveAt(peeks, i) /\ UNCHANGED <<queue, act, busy>>
    BY <1>5 DEF PeekLands, PeekFails
  <2>2. PeeksAreOfTheQueue'
    <3>1. \A j \in DOMAIN peeks' : \E k \in DOMAIN peeks : peeks'[j] = peeks[k]
      BY <2>1, <1>b, RemoveAtKeeps
    <3> QED BY <2>1, <3>1 DEF QueueInv, PeeksAreOfTheQueue
  <2>3. ~inspector'.busy
    BY <1>5, <1>b DEF PeekLands, PeekFails, Inspectors
  <2>4. BusyIsHonest'
    BY <2>1, <2>3 DEF QueueInv, BusyIsHonest
  <2>5. BatchIsOfTheQueue' /\ DuplicatesArePicked'
    <3>1. CASE PeekFails(i)
      BY <3>1, <1>b, <2>1 DEF PeekFails, Inspectors, QueueInv, BatchIsOfTheQueue, DuplicatesArePicked
    <3>2. CASE PeekLands(i)
      <4>1. inspector'.from = peeks[i] /\ inspector'.selected = {}
        BY <3>2, <1>b DEF PeekLands, Inspectors
      <4>2. peeks[i][2] = queue
        BY DEF QueueInv, PeeksAreOfTheQueue
      <4> QED BY <4>1, <4>2, <2>1 DEF BatchIsOfTheQueue, DuplicatesArePicked
    <3> QED BY <1>5, <3>1, <3>2
  <2> QED BY <1>a, <2>2, <2>4, <2>5 DEF QueueInv
<1>6. ASSUME NEW reason \in Reasons, Filter(reason) PROVE QueueInv'
  <2>1. DuplicatesArePicked'
    BY <1>6, <1>b DEF Filter, Inspectors, QueueInv, DuplicatesArePicked
  <2>2. PeeksAreOfTheQueue' /\ BatchIsOfTheQueue' /\ BusyIsHonest'
    BY <1>6, <1>b, <2>1, SelectionKeeps DEF Filter, Inspectors
  <2> QED BY <1>a, <2>1, <2>2 DEF QueueInv
<1>7. ASSUME NEW i \in Shown, ToggleMessage(i) PROVE QueueInv'
  <2>1. DuplicatesArePicked'
    <3>1. CASE i \in inspector.selected
      BY <3>1, <1>7, <1>b DEF ToggleMessage, Inspectors, QueueInv, DuplicatesArePicked
    <3>2. CASE i \notin inspector.selected
      BY <3>2, <1>7, <1>b DEF ToggleMessage, Inspectors, QueueInv, DuplicatesArePicked
    <3> QED BY <3>1, <3>2
  <2>2. PeeksAreOfTheQueue' /\ BatchIsOfTheQueue' /\ BusyIsHonest'
    BY <1>7, <1>b, <2>1, SelectionKeeps DEF ToggleMessage, Inspectors
  <2> QED BY <1>a, <2>1, <2>2 DEF QueueInv
<1>8. ASSUME SelectAllShown PROVE QueueInv'
  <2>1. DuplicatesArePicked'
    <3>1. Selectable \cap inspector.replayed = {}
      BY DEF Selectable
    <3>2. CASE Selectable \subseteq inspector.selected
      BY <3>1, <3>2, <1>8, <1>b DEF SelectAllShown, Inspectors, QueueInv, DuplicatesArePicked
    <3>3. CASE ~(Selectable \subseteq inspector.selected)
      BY <3>1, <3>3, <1>8, <1>b DEF SelectAllShown, Inspectors, QueueInv, DuplicatesArePicked
    <3> QED BY <3>2, <3>3
  <2>2. PeeksAreOfTheQueue' /\ BatchIsOfTheQueue' /\ BusyIsHonest'
    BY <1>8, <1>b, <2>1, SelectionKeeps DEF SelectAllShown, Inspectors
  <2> QED BY <1>a, <2>1, <2>2 DEF QueueInv
<1>9. ASSUME Confirm PROVE QueueInv'
  <2>1. act = None /\ act' = dialog /\ dialog \in Confirmations /\ act' # None
    BY <1>9, <1>c DEF Confirm
  <2>2. /\ inspector'.batch = inspector.batch /\ inspector'.from = inspector.from /\ inspector'.selected = inspector.selected
        /\ inspector'.picked = inspector.picked /\ inspector'.replayed = inspector.replayed
        /\ inspector'.busy = (inspector.busy \/ (dialog.kind = "replay" /\ dialog.mounted))
    BY <1>9, <1>b DEF Confirm, Inspectors
  <2>3. BusyIsHonest'
    BY <1>9, <2>1, <2>2 DEF Confirm, QueueInv, BusyIsHonest
  <2> QED BY <1>9, <1>a, <2>2, <2>3 DEF Confirm, QueueInv, PeeksAreOfTheQueue, BatchIsOfTheQueue, DuplicatesArePicked
<1>10. ASSUME Dismiss PROVE QueueInv'
  <2>1. act' # None /\ act'.kind = act.kind /\ act'.mounted = act.mounted
    BY <1>10, <1>a, <1>c, QueuePageAssumption DEF Dismiss, Confirmations
  <2> QED BY <1>10, <1>a, <2>1 DEF Dismiss, QueueInv, PeeksAreOfTheQueue, BatchIsOfTheQueue, DuplicatesArePicked, BusyIsHonest
<1>11. ASSUME ReplayLands PROVE QueueInv'
  <2>1. CASE act.mounted
    <3>1. /\ inspector'.batch = inspector.batch /\ inspector'.from = inspector.from /\ inspector'.selected = {}
          /\ ~inspector'.busy
      BY <1>11, <2>1, <1>b DEF ReplayLands, Inspectors
    <3> QED BY <1>11, <1>a, <3>1 DEF ReplayLands, QueueInv, PeeksAreOfTheQueue, BatchIsOfTheQueue, DuplicatesArePicked,
                                     BusyIsHonest
  <2>2. CASE ~act.mounted
    BY <1>11, <1>a, <2>2 DEF ReplayLands, QueueInv, PeeksAreOfTheQueue, BatchIsOfTheQueue, DuplicatesArePicked, BusyIsHonest
  <2> QED BY <2>1, <2>2
<1>12. ASSUME ActFails PROVE QueueInv'
  <2>1. /\ inspector'.batch = inspector.batch /\ inspector'.from = inspector.from /\ inspector'.selected = inspector.selected
        /\ inspector'.picked = inspector.picked /\ inspector'.replayed = inspector.replayed
        /\ inspector'.busy = (inspector.busy /\ ~(act.kind = "replay" /\ act.mounted))
    BY <1>12, <1>b DEF ActFails, Inspectors
  <2>2. BusyIsHonest'
    BY <1>12, <2>1 DEF ActFails, QueueInv, BusyIsHonest
  <2> QED BY <1>12, <1>a, <2>1, <2>2 DEF ActFails, QueueInv, PeeksAreOfTheQueue, BatchIsOfTheQueue, DuplicatesArePicked
<1>13. ASSUME PurgeLands PROVE QueueInv'
  BY <1>13, <1>a DEF PurgeLands, QueueInv, PeeksAreOfTheQueue, BatchIsOfTheQueue, DuplicatesArePicked, BusyIsHonest
<1>14. ASSUME NEW t \in Targets, SelectTarget(t) \/ SetWriteMode(t) PROVE QueueInv'
  BY <1>14, <1>1 DEF SelectTarget, SetWriteMode
<1>15. ASSUME (\E q \in Queues \cup {None} : OpenQueue(q)) \/ SwitchTab PROVE QueueInv'
  BY <1>15, <1>2 DEF OpenQueue, SwitchTab
<1>16. ASSUME DetailLoads \/ Cancel PROVE QueueInv'
  BY <1>16, <1>1 DEF DetailLoads, Cancel
<1>17. ASSUME ConfirmReplay \/ \E kind \in {"purge", "delete"} : Guarded(kind) PROVE QueueInv'
  BY <1>17, <1>1 DEF ConfirmReplay, Guarded, Asks
<1>18. CASE UNCHANGED queueVars
  BY <1>18, <1>1 DEF queueVars
<1> QED BY <1>3, <1>4, <1>5, <1>6, <1>7, <1>8, <1>9, <1>10, <1>11, <1>12, <1>13, <1>14, <1>15, <1>16, <1>17, <1>18
        DEF QueueNext

(* In every reachable state the page's state has its type, the peeks in flight are of the queue in the drawer, *)
(* and the three properties of the inspector hold.                                                             *)
THEOREM QueueInvariant == QueueSpec => []QueueInv
<1>1. QueueInit => QueueInv
  <2> SUFFICES ASSUME QueueInit PROVE QueueInv
    OBVIOUS
  <2>1. inspector.batch = <<>> /\ inspector.selected = {} /\ ~inspector.busy /\ ~busy
    BY DEF QueueInit, Fresh
  <2>2. peeks = <<>> /\ DOMAIN peeks = {} /\ peeks \in Seq(Origins)
    BY DEF QueueInit
  <2>3. inspector \in Inspectors
    BY FreshTyped DEF QueueInit
  <2>4. QueueTypeOK
    BY <2>2, <2>3 DEF QueueInit, QueueTypeOK
  <2> QED BY <2>1, <2>2, <2>4 DEF QueueInv, PeeksAreOfTheQueue, BatchIsOfTheQueue, DuplicatesArePicked, BusyIsHonest
<1> QED BY <1>1, InvStep, PTL DEF QueueSpec

(* The inspector shows messages of a queue of the drawer's name only, whichever answers come late. *)
THEOREM BatchStays == QueueSpec => []BatchIsOfTheQueue
<1>1. QueueInv => BatchIsOfTheQueue
  BY DEF QueueInv
<1> QED BY <1>1, QueueInvariant, PTL

(* "Select all" never selects a message whose copy was routed. *)
THEOREM DuplicatesStayPicked == QueueSpec => []DuplicatesArePicked
<1>1. QueueInv => DuplicatesArePicked
  BY DEF QueueInv
<1> QED BY <1>1, QueueInvariant, PTL

(* Whoever is busy waits for something in flight. *)
THEOREM BusyStaysHonest == QueueSpec => []BusyIsHonest
<1>1. QueueInv => BusyIsHonest
  BY DEF QueueInv
<1> QED BY <1>1, QueueInvariant, PTL

-----------------------------------------------------------------------------
(* The drawer. *)

(* The store has what the user wants, the page has what the store has, and a link that is there is what the *)
(* user came by.                                                                                            *)
SelectionInv == kept = wanted /\ (mounted => value = kept) /\ (link # None => link = kept)

LEMMA SelectionStep ==
    ASSUME SelectionInv, [SelectionNext]_selectionVars
    PROVE  SelectionInv'
<1> USE DEF SelectionInv, Or
<1>1. ASSUME NEW l \in Refs \cup {None}, Visit(l) \/ LinkChanges(l) PROVE SelectionInv'
  BY <1>1 DEF Visit, Mounts, LinkChanges
<1>2. CASE Remount
  BY <1>2 DEF Remount, Mounts
<1>3. CASE Leave \/ Close
  BY <1>3 DEF Leave, Close
<1>4. ASSUME NEW r \in Refs, OpenByHand(r) PROVE SelectionInv'
  BY <1>4 DEF OpenByHand, Open
<1>5. CASE UNCHANGED selectionVars
  BY <1>5 DEF selectionVars
<1> QED BY <1>1, <1>2, <1>3, <1>4, <1>5 DEF SelectionNext

LEMMA DrawerFollows == SelectionInv => DrawerIsTheUsers
BY DEF SelectionInv, DrawerIsTheUsers, Open, Or

-----------------------------------------------------------------------------
(* The widths of columns. *)

WidthInv == DOMAIN widths = Tables /\ WidthsAreKept

LEMMA WidthStep ==
    ASSUME WidthInv, [WidthNext]_widthVars
    PROVE  WidthInv'
<1>0. DOMAIN widths = Tables /\ WidthsAreKept
  BY DEF WidthInv
<1>1. ASSUME NEW t \in Tables, Appears(t) PROVE WidthInv'
  BY <1>0, <1>1 DEF WidthInv, WidthsAreKept, Appears, LoadWidths
<1>2. ASSUME NEW t \in Tables, Disappears(t) PROVE WidthInv'
  BY <1>0, <1>2 DEF WidthInv, WidthsAreKept, Disappears, LoadWidths
<1>3. ASSUME NEW t \in Tables, NEW c \in Columns, Start(t, c) PROVE WidthInv'
  BY <1>0, <1>3 DEF WidthInv, WidthsAreKept, Start, LoadWidths
<1>4. ASSUME NEW dx \in Int, OnMove(dx) PROVE WidthInv'
  <2>1. DOMAIN widths' = Tables /\ \A t \in Tables : t # drag.table => widths'[t] = widths[t]
    BY <1>0, <1>4 DEF OnMove
  <2> QED BY <1>0, <1>4, <2>1 DEF WidthInv, WidthsAreKept, OnMove, LoadWidths
<1>5. ASSUME NEW t, NEW own, Persist(t, own), drag' = None, drag = None \/ drag.table = t PROVE WidthInv'
  <2>1. DOMAIN widths' = Tables /\ \A s \in Tables : widths'[s] = IF s = t THEN own ELSE widths[s]
    BY <1>0, <1>5 DEF Persist
  <2>2. LoadWidths(KindOf[t])' = own
    BY <1>5 DEF Persist, SaveWidths, LoadWidths, Restrict
  <2>3. \A k : k # KindOf[t] => LoadWidths(k)' = LoadWidths(k)
    BY <1>5 DEF Persist, SaveWidths, LoadWidths, Restrict
  <2>4. \A k \in DOMAIN saver' : saver'[k] = IF k = KindOf[t] THEN t ELSE saver[k]
    BY <1>5 DEF Persist
  <2>5. \A k \in DOMAIN saver' : k = KindOf[t] \/ k \in DOMAIN saver
    BY <1>5 DEF Persist
  <2>6. ASSUME NEW s \in Tables, widths'[s] # None, KindOf[s] \in DOMAIN saver', saver'[KindOf[s]] = s
        PROVE  LoadWidths(KindOf[s])' = widths'[s]
    <3>1. CASE KindOf[s] = KindOf[t]
      BY <3>1, <2>1, <2>2, <2>4, <2>6
    <3>2. CASE KindOf[s] # KindOf[t]
      <4>1. s # t /\ widths'[s] = widths[s] /\ saver[KindOf[s]] = s /\ KindOf[s] \in DOMAIN saver
        BY <3>2, <2>1, <2>4, <2>5, <2>6
      <4> QED BY <4>1, <3>2, <2>3, <2>6, <1>0, <1>5 DEF WidthsAreKept
    <3> QED BY <3>1, <3>2
  <2> QED BY <2>1, <2>6 DEF WidthInv, WidthsAreKept, LoadWidths
<1>6. ASSUME NEW dx \in Int, OnUp(dx) PROVE WidthInv'
  BY <1>5, <1>6 DEF OnUp
<1>7. ASSUME NEW t \in Tables, NEW c \in Columns, Reset(t, c) PROVE WidthInv'
  BY <1>5, <1>7 DEF Reset
<1>8. CASE UNCHANGED widthVars
  BY <1>0, <1>8 DEF widthVars, WidthInv, WidthsAreKept, LoadWidths
<1> QED BY <1>1, <1>2, <1>3, <1>4, <1>6, <1>7, <1>8, WidthAssumption DEF WidthNext

-----------------------------------------------------------------------------
(* The target shown. *)

ChosenInv == stored = chosen /\ (url # None => url = chosen)

LEMMA ChosenStep ==
    ASSUME ChosenInv, [TargetNext]_targetVars
    PROVE  ChosenInv'
<1> USE DEF ChosenInv, choice, SetParam
<1>1. ASSUME NEW l, Mount(l) PROVE ChosenInv'
  BY <1>1 DEF Mount, Or
<1>2. CASE LoseParam \/ FallBack \/ Rediscover \/ Hears
  BY <1>2 DEF LoseParam, FallBack, Rediscover, Hears
<1>3. ASSUME NEW t, Select(t) PROVE ChosenInv'
  BY <1>3 DEF Select
<1>4. ASSUME NEW d \in Discoveries, DiscoveryEnds(d) \/ DiscoveryFails(d) PROVE ChosenInv'
  BY <1>4 DEF DiscoveryEnds, DiscoveryFails
<1>5. CASE UNCHANGED targetVars
  BY <1>5 DEF targetVars
<1> QED BY <1>1, <1>2, <1>3, <1>4, <1>5 DEF TargetNext

LEMMA ChosenIsSelected == ChosenInv => ChosenTargetStays
<1> SUFFICES ASSUME ChosenInv, chosen \in ToSet(Found) PROVE Selected = chosen
  BY DEF ChosenTargetStays
<1>1. Found # <<>>
  BY DEF ToSet
<1>2. Param = chosen
  BY DEF ChosenInv, Param, Or
<1> QED BY <1>1, <1>2 DEF Selected

-----------------------------------------------------------------------------
(* Rediscovery. *)

Outcomes == [state : {"unused", "running", "done", "failed"}, list : Lists \cup {<<>>}, fresh : BOOLEAN]

TargetTypeOK ==
    /\ {entry, awaited} \subseteq Discoveries \cup {None}
    /\ outcome \in [Discoveries -> Outcomes]
    /\ data \in {None} \cup [list : Lists \cup {<<>>}, fresh : BOOLEAN]
    /\ error \in BOOLEAN

(* The cache and the page only refer to discoveries begun after the last "Rediscover"; a page with a list *)
(* from before it waits for another one, or shows an error.                                               *)
RediscoveryInv ==
    /\ TargetTypeOK
    /\ entry # None => outcome[entry].fresh /\ outcome[entry].state # "failed"
    /\ awaited # None => outcome[awaited].fresh
    /\ data # None /\ ~data.fresh => awaited # None \/ error

(* Whichever discovery is asked for: the page waits for one that is fresh. *)
LEMMA LoadsFresh ==
    ASSUME TargetTypeOK, NEW cached \in {entry, None}, NEW forced \in BOOLEAN, NEW outcomes \in [Discoveries -> Outcomes],
           cached # None /\ ~forced => outcomes[cached].fresh /\ outcomes[cached].state # "failed",
           Loads(cached, forced, outcomes)
    PROVE  /\ entry' \in Discoveries /\ awaited' = entry' /\ outcome' \in [Discoveries -> Outcomes]
           /\ outcome'[entry'].fresh /\ outcome'[entry'].state # "failed"
<1>1. CASE cached # None /\ ~forced
  BY <1>1 DEF Loads, TargetTypeOK
<1>2. CASE ~(cached # None /\ ~forced)
  <2>1. PICK d \in Discoveries :
          /\ entry' = d /\ awaited' = d
          /\ outcome' = [outcomes EXCEPT ![d] = [state |-> "running", list |-> <<>>, fresh |-> TRUE]]
    BY <1>2 DEF Loads
  <2>2. [state |-> "running", list |-> <<>>, fresh |-> TRUE] \in Outcomes
    BY DEF Outcomes
  <2> QED BY <2>1, <2>2
<1> QED BY <1>1, <1>2

LEMMA RediscoveryStep ==
    ASSUME RediscoveryInv, [TargetNext]_targetVars
    PROVE  RediscoveryInv'
<1> USE TargetAssumption DEF choice
<1>0. TargetTypeOK
  BY DEF RediscoveryInv
<1>1. ASSUME NEW l, Mount(l) PROVE RediscoveryInv'
  <2>1. Loads(entry, FALSE, outcome) /\ data' = None /\ error' = FALSE
    BY <1>1 DEF Mount
  <2>2. /\ entry' \in Discoveries /\ awaited' = entry' /\ outcome' \in [Discoveries -> Outcomes]
        /\ outcome'[entry'].fresh /\ outcome'[entry'].state # "failed"
    BY <1>0, <2>1, LoadsFresh DEF RediscoveryInv, TargetTypeOK
  <2> QED BY <2>1, <2>2 DEF RediscoveryInv, TargetTypeOK
<1>2. ASSUME Rediscover PROVE RediscoveryInv'
  <2>1. Loads(None, TRUE, Stale) /\ data' = StaleData /\ error' = error
    BY <1>2 DEF Rediscover
  <2>2. Stale \in [Discoveries -> Outcomes]
    BY <1>0 DEF Stale, TargetTypeOK, Outcomes
  <2>3. /\ entry' \in Discoveries /\ awaited' = entry' /\ outcome' \in [Discoveries -> Outcomes]
        /\ outcome'[entry'].fresh /\ outcome'[entry'].state # "failed"
    BY <1>0, <2>1, <2>2, LoadsFresh
  <2>4. data' \in {None} \cup [list : Lists \cup {<<>>}, fresh : BOOLEAN]
    BY <1>0, <2>1 DEF StaleData, TargetTypeOK
  <2> QED BY <1>0, <2>1, <2>3, <2>4 DEF RediscoveryInv, TargetTypeOK
<1>3. ASSUME (\E t \in ToSet(Found) : Select(t)) \/ LoseParam \/ FallBack PROVE RediscoveryInv'
  BY <1>3 DEF Select, LoseParam, FallBack, RediscoveryInv, TargetTypeOK
<1>4. ASSUME NEW d \in Discoveries, DiscoveryEnds(d) PROVE RediscoveryInv'
  <2>1. PICK list \in Lists : outcome' = [outcome EXCEPT ![d].state = "done", ![d].list = list]
    BY <1>4 DEF DiscoveryEnds
  <2>2. outcome' \in [Discoveries -> Outcomes]
    BY <1>0, <2>1 DEF TargetTypeOK, Outcomes
  <2>3. \A e \in Discoveries :
          outcome'[e].fresh = outcome[e].fresh /\ (outcome[e].state # "failed" => outcome'[e].state # "failed")
    BY <1>0, <2>1 DEF TargetTypeOK, Outcomes
  <2>4. UNCHANGED <<entry, awaited, data, error>>
    BY <1>4 DEF DiscoveryEnds
  <2> QED BY <1>0, <2>2, <2>3, <2>4 DEF RediscoveryInv, TargetTypeOK
<1>5. ASSUME NEW d \in Discoveries, DiscoveryFails(d) PROVE RediscoveryInv'
  <2>1. outcome' = [outcome EXCEPT ![d].state = "failed"] /\ entry' = None /\ UNCHANGED <<awaited, data, error>>
    BY <1>5 DEF DiscoveryFails
  <2>2. outcome' \in [Discoveries -> Outcomes]
    BY <1>0, <2>1 DEF TargetTypeOK, Outcomes
  <2>3. \A e \in Discoveries : outcome'[e].fresh = outcome[e].fresh
    BY <1>0, <2>1 DEF TargetTypeOK, Outcomes
  <2> QED BY <1>0, <2>1, <2>2, <2>3 DEF RediscoveryInv, TargetTypeOK
<1>6. ASSUME Hears PROVE RediscoveryInv'
  <2>1. /\ awaited \in Discoveries /\ outcome[awaited] \in Outcomes /\ outcome[awaited].fresh
        /\ awaited' = None /\ UNCHANGED <<entry, outcome>>
        /\ error' = (outcome[awaited].state = "failed")
        /\ data' = IF error' THEN data ELSE [list |-> outcome[awaited].list, fresh |-> outcome[awaited].fresh]
    BY <1>0, <1>6 DEF Hears, RediscoveryInv, TargetTypeOK
  <2>2. CASE error'
    BY <1>0, <2>1, <2>2 DEF RediscoveryInv, TargetTypeOK
  <2>3. CASE ~error'
    <3>1. data' \in [list : Lists \cup {<<>>}, fresh : BOOLEAN] /\ data'.fresh
      BY <2>1, <2>3 DEF Outcomes
    <3> QED BY <1>0, <2>1, <2>3, <3>1 DEF RediscoveryInv, TargetTypeOK
  <2> QED BY <2>2, <2>3
<1>7. CASE UNCHANGED targetVars
  BY <1>7 DEF targetVars, RediscoveryInv, TargetTypeOK
<1> QED BY <1>1, <1>2, <1>3, <1>4, <1>5, <1>6, <1>7 DEF TargetNext

-----------------------------------------------------------------------------
(* The calls that set Write Mode. *)

Calls == [target : Targets, on : BOOLEAN, done : BOOLEAN, heard : BOOLEAN]

MirrorTypeOK == gate \subseteq Targets /\ mirror \subseteq Targets /\ sets \in Seq(Calls)

(* Main does the calls in order; those of a frame that is gone were all made before those of the frame there is. *)
InOrder ==
    \A i, j \in DOMAIN sets :
        i < j => (sets[j].done => sets[i].done) /\ (sets[i].heard => sets[j].heard)

(* Main's last word on a target is in the last call about it that Main has done. *)
LastCallHolds ==
    \A i \in DOMAIN sets :
        /\ sets[i].done
        /\ \A j \in DOMAIN sets : i < j /\ sets[j].done => sets[j].target # sets[i].target
        => (sets[i].target \in gate <=> sets[i].on)

(* What the mirror shows is armed, unless an answer about it is on its way; a frame that was loaded again   *)
(* shows nothing until it hears of a call of its own.                                                     *)
MirrorWaits ==
    /\ \A t \in mirror : t \in gate \/ \E i \in DOMAIN sets : sets[i].done /\ sets[i].target = t
    /\ (\E i \in DOMAIN sets : ~sets[i].heard) => mirror = {}

MirrorInv == MirrorTypeOK /\ InOrder /\ LastCallHolds /\ MirrorWaits

LEMMA MirrorTypeStep ==
    ASSUME MirrorTypeOK, [MirrorNext]_mirrorVars
    PROVE  MirrorTypeOK'
<1> USE DEF MirrorTypeOK, With
<1>0. sets \in Seq(Calls) /\ DOMAIN sets = 1..Len(sets) /\ Len(sets) \in Nat /\ \A i \in DOMAIN sets : sets[i] \in Calls
  OBVIOUS
<1>1. ASSUME NEW t \in Targets, Toggle(t) PROVE MirrorTypeOK'
  BY <1>1 DEF Toggle, Calls
<1>2. ASSUME NEW i \in DOMAIN sets, MainSets(i) PROVE MirrorTypeOK'
  <2>1. [sets[i] EXCEPT !.done = TRUE] \in Calls /\ sets[i].target \in Targets
    BY <1>0 DEF Calls
  <2>2. \A j \in DOMAIN sets : sets'[j] \in Calls
    BY <1>0, <1>2, <2>1 DEF MainSets
  <2>3. sets' \in [1..Len(sets) -> Calls]
    BY <1>0, <1>2, <2>2 DEF MainSets
  <2>4. sets' \in Seq(Calls)
    BY <1>0, <2>3
  <2> QED BY <1>2, <2>1, <2>4 DEF MainSets
<1>3. CASE Answers
  <2>1. Head(sets) \in Calls /\ Tail(sets) \in Seq(Calls)
    BY <1>0, <1>3 DEF Answers
  <2> QED BY <1>3, <2>1 DEF Answers, Calls
<1>4. CASE CallFails
  BY <1>4 DEF CallFails
<1>5. CASE FrameReloads
  <2> DEFINE gone == [i \in DOMAIN sets |-> [sets[i] EXCEPT !.heard = FALSE]]
  <2>1. \A i \in DOMAIN sets : [sets[i] EXCEPT !.heard = FALSE] \in Calls
    <3> SUFFICES ASSUME NEW i \in DOMAIN sets PROVE [sets[i] EXCEPT !.heard = FALSE] \in Calls
      OBVIOUS
    <3>1. sets[i] \in Calls
      BY <1>0
    <3> QED BY <3>1 DEF Calls
  <2>2. gone \in [1..Len(sets) -> Calls]
    BY <1>0, <2>1
  <2> HIDE DEF gone
  <2>3. gone \in Seq(Calls)
    BY <1>0, <2>2
  <2>4. sets' = gone /\ gate' = gate /\ mirror' = {}
    BY <1>5 DEF FrameReloads, gone
  <2> QED BY <2>3, <2>4
<1>6. CASE Deactivate
  BY <1>6 DEF Deactivate
<1>7. CASE UNCHANGED mirrorVars
  BY <1>7 DEF mirrorVars
<1> QED BY <1>1, <1>2, <1>3, <1>4, <1>5, <1>6, <1>7 DEF MirrorNext

(* The head of the calls in flight is left out. *)
LEMMA TailKeeps ==
    ASSUME MirrorInv, sets # <<>>, sets' = Tail(sets)
    PROVE  /\ Head(sets) = sets[1] /\ sets[1] \in Calls /\ 1 \in DOMAIN sets
           /\ \A i \in DOMAIN sets' : i + 1 \in DOMAIN sets /\ sets'[i] = sets[i + 1] /\ i \in Nat /\ i >= 1
           /\ \A i \in DOMAIN sets : i = 1 \/ (i - 1 \in DOMAIN sets' /\ sets'[i - 1] = sets[i] /\ i > 1)
           /\ InOrder'
<1>1. sets \in Seq(Calls) /\ DOMAIN sets = 1..Len(sets) /\ Len(sets) \in Nat /\ Len(sets) >= 1
  BY DEF MirrorInv, MirrorTypeOK
<1>2. DOMAIN sets' = 1..(Len(sets) - 1) /\ \A i \in 1..(Len(sets) - 1) : sets'[i] = sets[i + 1]
  BY <1>1
<1>3. \A i \in DOMAIN sets' : i + 1 \in DOMAIN sets /\ sets'[i] = sets[i + 1] /\ i \in Nat /\ i >= 1
  BY <1>1, <1>2
<1>4. \A i \in DOMAIN sets : i = 1 \/ (i - 1 \in DOMAIN sets' /\ sets'[i - 1] = sets[i] /\ i > 1)
  BY <1>1, <1>2
<1>5. InOrder'
  <2> SUFFICES ASSUME NEW i \in DOMAIN sets', NEW j \in DOMAIN sets', i < j
               PROVE  (sets'[j].done => sets'[i].done) /\ (sets'[i].heard => sets'[j].heard)
    BY DEF InOrder
  <2>1. i + 1 < j + 1
    BY <1>3
  <2> QED BY <1>3, <2>1 DEF MirrorInv, InOrder
<1> QED BY <1>1, <1>3, <1>4, <1>5

LEMMA MirrorStep ==
    ASSUME MirrorInv, [MirrorNext]_mirrorVars
    PROVE  MirrorInv'
<1>0. MirrorTypeOK /\ MirrorTypeOK'
  BY MirrorTypeStep DEF MirrorInv
<1>a. sets \in Seq(Calls) /\ DOMAIN sets = 1..Len(sets) /\ Len(sets) \in Nat
  BY <1>0 DEF MirrorTypeOK
<1>1. ASSUME NEW t \in Targets, Toggle(t) PROVE MirrorInv'
  <2> DEFINE call == [target |-> t, on |-> t \notin mirror, done |-> FALSE, heard |-> TRUE]
  <2>1. call \in Calls /\ ~call.done /\ call.heard
    BY DEF Calls
  <2>2. sets' = Append(sets, call) /\ UNCHANGED <<gate, mirror>>
    BY <1>1 DEF Toggle
  <2> HIDE DEF call
  <2>3. /\ DOMAIN sets' = 1..(Len(sets) + 1) /\ sets'[Len(sets) + 1] = call
        /\ \A i \in DOMAIN sets : sets'[i] = sets[i]
    BY <1>a, <2>1, <2>2
  <2>4. InOrder'
    BY <1>a, <2>1, <2>3 DEF MirrorInv, InOrder
  <2>5. LastCallHolds'
    BY <1>a, <2>1, <2>2, <2>3 DEF MirrorInv, LastCallHolds
  <2>6. MirrorWaits'
    BY <1>a, <2>1, <2>2, <2>3 DEF MirrorInv, MirrorWaits
  <2> QED BY <1>0, <2>4, <2>5, <2>6 DEF MirrorInv
<1>2. ASSUME NEW i \in DOMAIN sets, MainSets(i) PROVE MirrorInv'
  <2>1. /\ ~sets[i].done /\ gate' = With(gate, sets[i].target, sets[i].on) /\ mirror' = mirror
        /\ \A j \in DOMAIN sets : j < i => sets[j].done
    BY <1>2, <1>a DEF MainSets
  <2>2. DOMAIN sets' = DOMAIN sets /\ \A j \in DOMAIN sets :
          /\ sets'[j].target = sets[j].target /\ sets'[j].on = sets[j].on /\ sets'[j].heard = sets[j].heard
          /\ sets'[j].done <=> sets[j].done \/ j = i
    <3>1. \A j \in DOMAIN sets : sets[j] \in Calls
      BY <1>a
    <3>2. sets' = [sets EXCEPT ![i].done = TRUE]
      BY <1>2 DEF MainSets
    <3>3. \A j \in DOMAIN sets : j # i => sets'[j] = sets[j]
      BY <3>2
    <3>4. DOMAIN sets' = DOMAIN sets /\ sets'[i] = [sets[i] EXCEPT !.done = TRUE]
      BY <3>2
    <3> QED BY <3>1, <3>3, <3>4 DEF Calls
  <2>3. \A j \in DOMAIN sets : j > i => ~sets[j].done
    BY <2>1, <1>a DEF MirrorInv, InOrder
  <2>4. InOrder'
    BY <1>a, <2>1, <2>2, <2>3 DEF MirrorInv, InOrder
  <2>5. LastCallHolds'
    <3> SUFFICES ASSUME NEW j \in DOMAIN sets, sets[j].done \/ j = i,
                        \A k \in DOMAIN sets : j < k /\ (sets[k].done \/ k = i) => sets[k].target # sets[j].target
                 PROVE  sets[j].target \in gate' <=> sets[j].on
      BY <2>2 DEF LastCallHolds
    <3>1. CASE j = i
      BY <3>1, <2>1, <1>a DEF With, Calls
    <3>2. CASE j # i
      <4>1. j < i
        BY <3>2, <2>3, <1>a
      <4>2. sets[j].target # sets[i].target /\ (sets[j].target \in gate <=> sets[j].on)
        BY <4>1, <3>2 DEF MirrorInv, LastCallHolds
      <4> QED BY <4>2, <2>1 DEF With
    <3> QED BY <3>1, <3>2
  <2>6. MirrorWaits'
    BY <2>1, <2>2 DEF MirrorInv, MirrorWaits, With
  <2> QED BY <1>0, <2>4, <2>5, <2>6 DEF MirrorInv
<1>3. ASSUME Answers PROVE MirrorInv'
  <2>1. /\ sets # <<>> /\ sets[1].done /\ sets' = Tail(sets) /\ gate' = gate
        /\ mirror' = IF sets[1].heard THEN With(mirror, sets[1].target, sets[1].on) ELSE mirror
    BY <1>3, <1>a DEF Answers
  <2>2. LastCallHolds'
    <3> SUFFICES ASSUME NEW i \in DOMAIN sets', sets'[i].done,
                        \A j \in DOMAIN sets' : i < j /\ sets'[j].done => sets'[j].target # sets'[i].target
                 PROVE  sets'[i].target \in gate <=> sets'[i].on
      BY <2>1 DEF LastCallHolds
    <3>1. \A j \in DOMAIN sets : i + 1 < j /\ sets[j].done => sets[j].target # sets[i + 1].target
      <4> SUFFICES ASSUME NEW j \in DOMAIN sets, i + 1 < j, sets[j].done PROVE sets[j].target # sets[i + 1].target
        OBVIOUS
      <4>1. j # 1 /\ i < j - 1
        BY <2>1, TailKeeps, <1>a
      <4> QED BY <4>1, <2>1, TailKeeps
    <3> QED BY <3>1, <2>1, TailKeeps DEF MirrorInv, LastCallHolds
  <2>3. (\E i \in DOMAIN sets' : ~sets'[i].heard) => mirror' = {}
    <3> SUFFICES ASSUME NEW i \in DOMAIN sets', ~sets'[i].heard PROVE mirror' = {}
      OBVIOUS
    <3>1. i + 1 \in DOMAIN sets /\ ~sets[i + 1].heard /\ 1 < i + 1
      BY <2>1, TailKeeps
    <3>2. mirror = {} /\ ~sets[1].heard
      BY <3>1, <2>1, TailKeeps DEF MirrorInv, MirrorWaits, InOrder
    <3> QED BY <3>2, <2>1
  <2>4. ASSUME NEW t \in mirror' PROVE t \in gate \/ \E i \in DOMAIN sets' : sets'[i].done /\ sets'[i].target = t
    <3>1. CASE \E i \in DOMAIN sets : i # 1 /\ sets[i].done /\ sets[i].target = t
      <4>1. PICK i \in DOMAIN sets : i # 1 /\ sets[i].done /\ sets[i].target = t
        BY <3>1
      <4>2. i - 1 \in DOMAIN sets' /\ sets'[i - 1] = sets[i]
        BY <4>1, <2>1, TailKeeps
      <4> QED BY <4>1, <4>2
    <3>2. ASSUME \A i \in DOMAIN sets : i # 1 /\ sets[i].done => sets[i].target # t PROVE t \in gate
      <4>1. CASE sets[1].target = t /\ sets[1].heard
        <5>1. sets[1].on
          BY <4>1, <2>1, <2>4 DEF With
        <5>2. \A j \in DOMAIN sets : 1 < j /\ sets[j].done => sets[j].target # sets[1].target
          BY <4>1, <3>2
        <5> QED BY <5>1, <5>2, <4>1, <2>1, TailKeeps DEF MirrorInv, LastCallHolds
      <4>2. CASE sets[1].target # t
        <5>1. t \in mirror
          BY <4>2, <2>1, <2>4 DEF With
        <5> QED BY <5>1, <4>2, <3>2 DEF MirrorInv, MirrorWaits
      <4>3. CASE ~sets[1].heard
        BY <4>3, <2>1, <2>4, TailKeeps DEF MirrorInv, MirrorWaits
      <4> QED BY <4>1, <4>2, <4>3
    <3> QED BY <3>1, <3>2
  <2> QED BY <1>0, <2>1, <2>2, <2>3, <2>4, TailKeeps DEF MirrorInv, MirrorWaits
<1>4. ASSUME CallFails PROVE MirrorInv'
  <2>1. sets # <<>> /\ ~sets[1].done /\ sets' = Tail(sets) /\ gate' = gate /\ mirror' = mirror
    BY <1>4, <1>a DEF CallFails
  <2>2. \A i \in DOMAIN sets : ~sets[i].done
    BY <2>1, <1>a, TailKeeps DEF MirrorInv, InOrder
  <2>3. LastCallHolds'
    BY <2>1, <2>2, TailKeeps DEF LastCallHolds
  <2>4. MirrorWaits'
    BY <2>1, <2>2, TailKeeps DEF MirrorInv, MirrorWaits
  <2> QED BY <1>0, <2>1, <2>3, <2>4, TailKeeps DEF MirrorInv
<1>5. ASSUME FrameReloads PROVE MirrorInv'
  <2>1. mirror' = {} /\ gate' = gate
    BY <1>5 DEF FrameReloads
  <2>2. DOMAIN sets' = DOMAIN sets /\ \A j \in DOMAIN sets :
          /\ sets'[j].target = sets[j].target /\ sets'[j].on = sets[j].on
          /\ sets'[j].done = sets[j].done /\ ~sets'[j].heard
    <3>1. \A j \in DOMAIN sets : sets[j] \in Calls
      BY <1>a
    <3> QED BY <1>5, <3>1 DEF FrameReloads, Calls
  <2> QED BY <1>0, <2>1, <2>2 DEF MirrorInv, InOrder, LastCallHolds, MirrorWaits
<1>6. ASSUME Deactivate PROVE MirrorInv'
  <2>1. gate' = {} /\ mirror' = {} /\ DOMAIN sets' = {}
    BY <1>6 DEF Deactivate
  <2> QED BY <1>0, <2>1 DEF MirrorInv, InOrder, LastCallHolds, MirrorWaits
<1>7. CASE UNCHANGED mirrorVars
  BY <1>0, <1>7 DEF mirrorVars, MirrorInv, InOrder, LastCallHolds, MirrorWaits
<1> QED BY <1>1, <1>2, <1>3, <1>4, <1>5, <1>6, <1>7 DEF MirrorNext

-----------------------------------------------------------------------------
(* The hooks of the Clients view and of the page with the form: what UseResourceProofs proves of any hook holds *)
(* of each of them, as their steps are steps of it.                                                            *)

ConnectionsHook == INSTANCE UseResourceProofs WITH
    Keys <- Targets, MaxLoads <- MaxConnectionLoads, key <- cKey, due <- cDue, data <- cData,
    error <- cError, loading <- cLoading, loads <- cLoads

PodsHook == INSTANCE UseResourceProofs WITH
    Keys <- PodKeys, MaxLoads <- MaxPodLoads, key <- pKey, due <- pDue, data <- pData,
    error <- pError, loading <- pLoading, loads <- pLoads

PageHook == INSTANCE UseResourceProofs WITH
    Keys <- Targets, MaxLoads <- MaxPageLoads, key <- lKey, due <- lDue, data <- lData,
    error <- lError, loading <- lLoading, loads <- lLoads

LEMMA ConnectionsStep ==
    ASSUME Connections!ResourceInv, Connections!ResourceNext \/ UNCHANGED Connections!resourceVars
    PROVE  Connections!ResourceInv'
<1> USE DEF Connections!ResourceInv, Connections!ResourceTypeOK, Connections!LiveIsLast, Connections!NeverBackwards,
            Connections!SettledShowsItsKey, ConnectionsHook!ResourceInv, ConnectionsHook!ResourceTypeOK,
            ConnectionsHook!LiveIsLast, ConnectionsHook!NeverBackwards, ConnectionsHook!SettledShowsItsKey
<1>1. ConnectionsHook!ResourceAssumption
  BY ViewAssumption DEF ConnectionsHook!ResourceAssumption
<1>2. ConnectionsHook!ResourceInv
  OBVIOUS
<1>3. ConnectionsHook!ResourceNext \/ UNCHANGED ConnectionsHook!resourceVars
  <2>1. \A k : Connections!Rekey(k) => ConnectionsHook!Rekey(k)
    BY DEF Connections!Rekey, ConnectionsHook!Rekey
  <2>2. Connections!Reload => ConnectionsHook!Reload
    BY DEF Connections!Reload, ConnectionsHook!Reload
  <2>3. Connections!Effect => ConnectionsHook!Effect
    BY DEF Connections!Effect, ConnectionsHook!Effect, Connections!Load, ConnectionsHook!Load, Connections!NoData, ConnectionsHook!NoData
  <2>4. \A i : (Connections!Lands(i) => ConnectionsHook!Lands(i)) /\ (Connections!Fails(i) => ConnectionsHook!Fails(i))
    BY DEF Connections!Lands, ConnectionsHook!Lands, Connections!Fails, ConnectionsHook!Fails, Connections!Ends, ConnectionsHook!Ends, Connections!RemoveAt, ConnectionsHook!RemoveAt
  <2>5. UNCHANGED Connections!resourceVars => UNCHANGED ConnectionsHook!resourceVars
    BY DEF Connections!resourceVars, ConnectionsHook!resourceVars
  <2> QED BY <2>1, <2>2, <2>3, <2>4, <2>5 DEF Connections!ResourceNext, ConnectionsHook!ResourceNext
<1>4. ConnectionsHook!ResourceInv'
  <2> HIDE DEF ConnectionsHook!ResourceInv
  <2> QED BY <1>1, <1>2, <1>3, ConnectionsHook!InvStep
<1> QED BY <1>4

LEMMA PodsStep ==
    ASSUME Pods!ResourceInv, Pods!ResourceNext \/ UNCHANGED Pods!resourceVars
    PROVE  Pods!ResourceInv'
<1> USE DEF Pods!ResourceInv, Pods!ResourceTypeOK, Pods!LiveIsLast, Pods!NeverBackwards,
            Pods!SettledShowsItsKey, PodsHook!ResourceInv, PodsHook!ResourceTypeOK,
            PodsHook!LiveIsLast, PodsHook!NeverBackwards, PodsHook!SettledShowsItsKey
<1>1. PodsHook!ResourceAssumption
  BY ViewAssumption DEF PodsHook!ResourceAssumption
<1>2. PodsHook!ResourceInv
  OBVIOUS
<1>3. PodsHook!ResourceNext \/ UNCHANGED PodsHook!resourceVars
  <2>1. \A k : Pods!Rekey(k) => PodsHook!Rekey(k)
    BY DEF Pods!Rekey, PodsHook!Rekey
  <2>2. Pods!Reload => PodsHook!Reload
    BY DEF Pods!Reload, PodsHook!Reload
  <2>3. Pods!Effect => PodsHook!Effect
    BY DEF Pods!Effect, PodsHook!Effect, Pods!Load, PodsHook!Load, Pods!NoData, PodsHook!NoData
  <2>4. \A i : (Pods!Lands(i) => PodsHook!Lands(i)) /\ (Pods!Fails(i) => PodsHook!Fails(i))
    BY DEF Pods!Lands, PodsHook!Lands, Pods!Fails, PodsHook!Fails, Pods!Ends, PodsHook!Ends, Pods!RemoveAt, PodsHook!RemoveAt
  <2>5. UNCHANGED Pods!resourceVars => UNCHANGED PodsHook!resourceVars
    BY DEF Pods!resourceVars, PodsHook!resourceVars
  <2> QED BY <2>1, <2>2, <2>3, <2>4, <2>5 DEF Pods!ResourceNext, PodsHook!ResourceNext
<1>4. PodsHook!ResourceInv'
  <2> HIDE DEF PodsHook!ResourceInv
  <2> QED BY <1>1, <1>2, <1>3, PodsHook!InvStep
<1> QED BY <1>4

LEMMA PageStep ==
    ASSUME Hook!ResourceInv, Hook!ResourceNext \/ UNCHANGED Hook!resourceVars
    PROVE  Hook!ResourceInv'
<1> USE DEF Hook!ResourceInv, Hook!ResourceTypeOK, Hook!LiveIsLast, Hook!NeverBackwards,
            Hook!SettledShowsItsKey, PageHook!ResourceInv, PageHook!ResourceTypeOK,
            PageHook!LiveIsLast, PageHook!NeverBackwards, PageHook!SettledShowsItsKey
<1>1. PageHook!ResourceAssumption
  BY LoginAssumption DEF PageHook!ResourceAssumption
<1>2. PageHook!ResourceInv
  OBVIOUS
<1>3. PageHook!ResourceNext \/ UNCHANGED PageHook!resourceVars
  <2>1. \A k : Hook!Rekey(k) => PageHook!Rekey(k)
    BY DEF Hook!Rekey, PageHook!Rekey
  <2>2. Hook!Reload => PageHook!Reload
    BY DEF Hook!Reload, PageHook!Reload
  <2>3. Hook!Effect => PageHook!Effect
    BY DEF Hook!Effect, PageHook!Effect, Hook!Load, PageHook!Load, Hook!NoData, PageHook!NoData
  <2>4. \A i : (Hook!Lands(i) => PageHook!Lands(i)) /\ (Hook!Fails(i) => PageHook!Fails(i))
    BY DEF Hook!Lands, PageHook!Lands, Hook!Fails, PageHook!Fails, Hook!Ends, PageHook!Ends, Hook!RemoveAt, PageHook!RemoveAt
  <2>5. UNCHANGED Hook!resourceVars => UNCHANGED PageHook!resourceVars
    BY DEF Hook!resourceVars, PageHook!resourceVars
  <2> QED BY <2>1, <2>2, <2>3, <2>4, <2>5 DEF Hook!ResourceNext, PageHook!ResourceNext
<1>4. PageHook!ResourceInv'
  <2> HIDE DEF PageHook!ResourceInv
  <2> QED BY <1>1, <1>2, <1>3, PageHook!InvStep
<1> QED BY <1>4

-----------------------------------------------------------------------------
(* The Clients view. *)

(* The load that counts asked for addresses of its key's fingerprint, and so did the one that was answered last. *)
LookupsAreOfTheirKeys ==
    /\ \A i \in DOMAIN pLoads :
          pLoads[i].live => pAsked \in AddressLists /\ pLoads[i].key[2] = AddressFingerprint(pAsked)
    /\ pData.key # None => pFound \in AddressLists /\ pData.key[2] = AddressFingerprint(pFound)

(* Each hook renders with the key of what the page shows; the second one's is made of what the first one loaded. *)
ViewInv ==
    /\ view \in {"connections", "clients", "channels"} /\ cluster \in Targets \cup {None}
    /\ addresses \in AddressLists \cup {<<>>}
    /\ cKey = ConnectionsKey(view, cluster) /\ pKey = PodsKey(view, cluster, addresses)
    /\ Connections!ResourceInv /\ Pods!ResourceInv
    /\ LookupsAreOfTheirKeys

(* The second hook renders after every step of the first one. *)
LEMMA RendersPodsStep ==
    ASSUME ViewInv, view' \in {"connections", "clients", "channels"}, cluster' \in Targets \cup {None},
           addresses' \in AddressLists \cup {<<>>}, RendersPods
    PROVE  pKey' = PodsKey(view', cluster', addresses') /\ Pods!ResourceInv' /\ LookupsAreOfTheirKeys'
<1> DEFINE k == PodsKey(view', cluster', addresses')
<1>1. k \in PodKeys \cup {None}
  <2> HIDE DEF AddressFingerprint
  <2> QED BY DEF PodsKey, PodKeys
<1>2. (pKey' = k /\ UNCHANGED podVars) \/ Pods!Rekey(k)
  BY DEF RendersPods, podVars
<1> HIDE DEF k
<1>3. pKey' = k
  BY <1>2 DEF Pods!Rekey
<1>4. Pods!ResourceNext \/ UNCHANGED Pods!resourceVars
  BY <1>1, <1>2 DEF Pods!ResourceNext, Pods!resourceVars, podVars
<1>5. Pods!ResourceInv'
  BY <1>4, PodsStep DEF ViewInv
<1>6. UNCHANGED <<pData, pLoads, pAsked, pFound>>
  BY <1>2 DEF RendersPods, lookupVars, podVars, Pods!Rekey
<1>7. LookupsAreOfTheirKeys'
  BY <1>6 DEF ViewInv, LookupsAreOfTheirKeys
<1> QED BY <1>3, <1>5, <1>7 DEF k

(* What the pods' hook holds: its loads are of keys, and the one that is not cancelled is the last. *)
LEMMA LookupsTyped ==
    ASSUME ViewInv
    PROVE  /\ pLoads \in Seq(PodsHook!Loads) /\ Len(pLoads) \in Nat /\ DOMAIN pLoads = 1..Len(pLoads)
           /\ \A i \in DOMAIN pLoads : pLoads[i] \in PodsHook!Loads
           /\ \A i \in DOMAIN pLoads : pLoads[i].live => i = Len(pLoads)
<1>1. pLoads \in Seq(PodsHook!Loads)
  BY DEF ViewInv, Pods!ResourceInv, Pods!ResourceTypeOK, PodsHook!Loads
<1>2. Len(pLoads) \in Nat /\ DOMAIN pLoads = 1..Len(pLoads)
  BY <1>1
<1>3. \A i \in DOMAIN pLoads : pLoads[i] \in PodsHook!Loads
  BY <1>1
<1>4. \A i \in DOMAIN pLoads : pLoads[i].live => i = Len(pLoads)
  BY DEF ViewInv, Pods!ResourceInv, Pods!LiveIsLast
<1> QED BY <1>1, <1>2, <1>3, <1>4

(* An effect cancels the loads there are and asks for the addresses of the render, whose fingerprint its key is made of. *)
LEMMA PodsAreAskedStep == ASSUME ViewInv, PodsAreAsked PROVE LookupsAreOfTheirKeys'
<1> DEFINE left == [i \in DOMAIN pLoads |-> [pLoads[i] EXCEPT !.live = FALSE]]
           n == Len(pLoads)
<1>1. /\ pLoads' = IF pKey = None THEN left ELSE Append(left, Pods!Load(pKey))
      /\ pData' = IF pKey = None THEN Pods!NoData ELSE pData
      /\ pAsked' = IF pKey = None THEN <<>> ELSE addresses
      /\ pFound' = IF pKey = None THEN <<>> ELSE pFound
  BY DEF PodsAreAsked, Pods!Effect
<1>2. pData.key # None => pFound \in AddressLists /\ pData.key[2] = AddressFingerprint(pFound)
  BY DEF ViewInv, LookupsAreOfTheirKeys
<1>3. left \in Seq(PodsHook!Loads) /\ Len(left) = n /\ DOMAIN left = 1..n /\ \A i \in 1..n : ~left[i].live
  <2>1. \A i \in DOMAIN pLoads : left[i] \in PodsHook!Loads /\ ~left[i].live
    <3> SUFFICES ASSUME NEW i \in DOMAIN pLoads PROVE left[i] \in PodsHook!Loads /\ ~left[i].live
      OBVIOUS
    <3>1. pLoads[i] \in PodsHook!Loads
      BY LookupsTyped
    <3> QED BY <3>1 DEF PodsHook!Loads
  <2>2. DOMAIN left = 1..n /\ left \in [1..n -> PodsHook!Loads] /\ n \in Nat /\ DOMAIN pLoads = 1..n
    BY <2>1, LookupsTyped
  <2> HIDE DEF left, n
  <2>3. left \in Seq(PodsHook!Loads) /\ Len(left) = n
    BY <2>2
  <2> QED BY <2>1, <2>2, <2>3
<1>4. n \in Nat
  BY LookupsTyped
<1> HIDE DEF left, n
<1>5. CASE pKey = None
  <2>1. pLoads' = left /\ pData'.key = None
    BY <1>1, <1>5 DEF Pods!NoData
  <2> QED BY <2>1, <1>3 DEF LookupsAreOfTheirKeys
<1>6. CASE pKey # None
  <2> DEFINE fresh == Pods!Load(pKey)
  <2>1. pLoads' = Append(left, fresh) /\ pAsked' = addresses /\ pData' = pData /\ pFound' = pFound
    BY <1>1, <1>6
  <2>2. fresh.key[2] = AddressFingerprint(addresses) /\ addresses \in AddressLists
    <3> HIDE DEF AddressFingerprint
    <3>1. pKey = <<cluster, AddressFingerprint(addresses)>> /\ addresses \in AddressLists
      BY <1>6 DEF ViewInv, PodsKey
    <3> QED BY <3>1 DEF Pods!Load
  <2> HIDE DEF fresh, AddressFingerprint
  <2>3. /\ DOMAIN Append(left, fresh) = 1..(n + 1)
        /\ Append(left, fresh)[n + 1] = fresh
        /\ \A i \in 1..n : Append(left, fresh)[i] = left[i]
    BY <1>3, <1>4
  <2>4. ASSUME NEW i \in 1..(n + 1), Append(left, fresh)[i].live
        PROVE  Append(left, fresh)[i].key[2] = AddressFingerprint(addresses)
    <3>1. CASE i = n + 1
      BY <3>1, <2>2, <2>3
    <3>2. CASE i \in 1..n
      BY <3>2, <2>3, <2>4, <1>3
    <3>3. i = n + 1 \/ i \in 1..n
      BY <1>4
    <3> QED BY <3>1, <3>2, <3>3
  <2>5. pData'.key # None => pFound' \in AddressLists /\ pData'.key[2] = AddressFingerprint(pFound')
    BY <2>1, <1>2
  <2>6. \A i \in DOMAIN pLoads' : pLoads'[i].live => pAsked' \in AddressLists /\ pLoads'[i].key[2] = AddressFingerprint(pAsked')
    BY <2>1, <2>2, <2>3, <2>4
  <2> QED BY <2>5, <2>6 DEF LookupsAreOfTheirKeys
<1> QED BY <1>5, <1>6

(* An answer takes its load out of those in flight; one that counts was for the addresses asked for, and none is left. *)
LEMMA PodsLookupEndsStep ==
    ASSUME ViewInv, NEW i \in DOMAIN pLoads, PodsLookupEnds(i)
    PROVE  LookupsAreOfTheirKeys'
<1> DEFINE over == [j \in DOMAIN pLoads |-> IF j < i THEN [pLoads[j] EXCEPT !.overtaken = TRUE] ELSE pLoads[j]]
           n == Len(pLoads)
<1>1. pLoads' = RemoveAt(over, i) /\ pAsked' = IF pLoads[i].live THEN <<>> ELSE pAsked
  <2>1. pLoads' = Pods!RemoveAt(over, i) /\ pAsked' = IF pLoads[i].live THEN <<>> ELSE pAsked
    BY DEF PodsLookupEnds, Pods!Lands, Pods!Fails, Pods!Ends
  <2> HIDE DEF over
  <2>2. Pods!RemoveAt(over, i) = RemoveAt(over, i)
    BY DEF Pods!RemoveAt, RemoveAt
  <2> QED BY <2>1, <2>2
<1>2. /\ \A j \in DOMAIN pLoads : pLoads[j].live => pAsked \in AddressLists /\ pLoads[j].key[2] = AddressFingerprint(pAsked)
      /\ pData.key # None => pFound \in AddressLists /\ pData.key[2] = AddressFingerprint(pFound)
  BY DEF ViewInv, LookupsAreOfTheirKeys
<1>3. \/ UNCHANGED <<pData, pFound>>
      \/ pLoads[i].live /\ pData'.key = pLoads[i].key /\ pFound' = pAsked
  BY DEF PodsLookupEnds, Pods!Lands, Pods!Fails
<1>4. /\ n \in Nat /\ DOMAIN pLoads = 1..n /\ i \in 1..n /\ over \in Seq(PodsHook!Loads) /\ Len(over) = n
      /\ DOMAIN over = 1..n
      /\ \A j \in 1..n : over[j].key = pLoads[j].key /\ over[j].live = pLoads[j].live
  <2>1. \A j \in DOMAIN pLoads :
           over[j] \in PodsHook!Loads /\ over[j].key = pLoads[j].key /\ over[j].live = pLoads[j].live
    <3> SUFFICES ASSUME NEW j \in DOMAIN pLoads
                 PROVE  over[j] \in PodsHook!Loads /\ over[j].key = pLoads[j].key /\ over[j].live = pLoads[j].live
      OBVIOUS
    <3>1. pLoads[j] \in PodsHook!Loads
      BY LookupsTyped
    <3> QED BY <3>1 DEF PodsHook!Loads
  <2>2. DOMAIN over = 1..n /\ over \in [1..n -> PodsHook!Loads] /\ n \in Nat /\ DOMAIN pLoads = 1..n
    BY <2>1, LookupsTyped
  <2> HIDE DEF over, n
  <2>3. over \in Seq(PodsHook!Loads) /\ Len(over) = n
    BY <2>2
  <2> QED BY <2>1, <2>2, <2>3
<1>5. \A j \in 1..n : pLoads[j].live => j = n
  BY <1>4, LookupsTyped
<1> HIDE DEF over, n, AddressFingerprint
<1>6. /\ RemoveAt(over, i) \in Seq(PodsHook!Loads) /\ Len(RemoveAt(over, i)) = n - 1
      /\ \A j \in 1..(n - 1) : RemoveAt(over, i)[j] = IF j < i THEN over[j] ELSE over[j + 1]
  BY <1>4, RemoveAtShifts
<1>7. DOMAIN RemoveAt(over, i) = 1..(n - 1)
  BY <1>4, <1>6
<1>8. ASSUME NEW j \in 1..(n - 1), RemoveAt(over, i)[j].live
      PROVE  ~pLoads[i].live /\ pAsked \in AddressLists /\ RemoveAt(over, i)[j].key[2] = AddressFingerprint(pAsked)
  <2>1. PICK m \in 1..n : m # i /\ RemoveAt(over, i)[j] = over[m]
    <3>1. CASE j < i
      <4>1. j \in 1..n /\ j # i /\ RemoveAt(over, i)[j] = over[j]
        BY <3>1, <1>4, <1>6
      <4> QED BY <4>1
    <3>2. CASE ~(j < i)
      <4>1. j + 1 \in 1..n /\ j + 1 # i /\ RemoveAt(over, i)[j] = over[j + 1]
        BY <3>2, <1>4, <1>6
      <4> QED BY <4>1
    <3> QED BY <3>1, <3>2
  <2>2. pLoads[m].live /\ over[m].key = pLoads[m].key
    BY <2>1, <1>4, <1>8
  <2>3. ~pLoads[i].live
    BY <2>1, <2>2, <1>4, <1>5
  <2> QED BY <2>1, <2>2, <2>3, <1>2, <1>4
<1>9. pData'.key # None => pFound' \in AddressLists /\ pData'.key[2] = AddressFingerprint(pFound')
  BY <1>2, <1>3
<1> QED BY <1>1, <1>7, <1>8, <1>9 DEF LookupsAreOfTheirKeys

LEMMA ViewStep ==
    ASSUME ViewInv, [ViewNext]_viewVars
    PROVE  ViewInv'
<1>1. ASSUME NEW v \in {"connections", "clients", "channels"}, NEW b \in Targets \cup {None}, Shows(v, b)
      PROVE  ViewInv'
  <2> DEFINE k == ConnectionsKey(v, b)
  <2>1. k \in Targets \cup {None}
    BY DEF ConnectionsKey
  <2>2. view' = v /\ cluster' = b /\ addresses' = addresses /\ RendersPods
    BY <1>1 DEF Shows
  <2>3. (k = cKey /\ UNCHANGED connectionVars) \/ Connections!Rekey(k)
    BY <1>1 DEF Shows
  <2> HIDE DEF k
  <2>4. cKey' = k /\ (Connections!ResourceNext \/ UNCHANGED Connections!resourceVars)
    BY <2>1, <2>3 DEF Connections!Rekey, Connections!ResourceNext, Connections!resourceVars, connectionVars
  <2>5. Connections!ResourceInv'
    BY <2>4, ConnectionsStep DEF ViewInv
  <2>6. pKey' = PodsKey(view', cluster', addresses') /\ Pods!ResourceInv' /\ LookupsAreOfTheirKeys'
    BY <2>2, RendersPodsStep DEF ViewInv
  <2> QED BY <2>2, <2>4, <2>5, <2>6 DEF ViewInv, k
<1>2. ASSUME ConnectionsLoad PROVE ViewInv'
  <2>1. view' = view /\ cluster' = cluster /\ RendersPods
    BY <1>2 DEF ConnectionsLoad
  <2>2. addresses' \in AddressLists \cup {<<>>}
    BY <1>2 DEF ConnectionsLoad, ViewInv
  <2>3. Connections!ResourceNext /\ cKey' = cKey
    BY <1>2 DEF ConnectionsLoad, Connections!ResourceNext, Connections!Reload, Connections!Effect, Connections!Lands,
                Connections!Fails
  <2>4. Connections!ResourceInv'
    BY <2>3, ConnectionsStep DEF ViewInv
  <2>5. pKey' = PodsKey(view', cluster', addresses') /\ Pods!ResourceInv' /\ LookupsAreOfTheirKeys'
    BY <2>1, <2>2, RendersPodsStep DEF ViewInv
  <2> QED BY <2>1, <2>2, <2>3, <2>4, <2>5 DEF ViewInv
<1>3. ASSUME PodsLoad PROVE ViewInv'
  <2>1. UNCHANGED <<view, cluster, addresses, cKey>> /\ UNCHANGED Connections!resourceVars
    BY <1>3 DEF PodsLoad, Connections!resourceVars, connectionVars
  <2>2. Pods!ResourceNext /\ pKey' = pKey
    BY <1>3 DEF PodsLoad, PodsAreAsked, PodsLookupEnds, Pods!ResourceNext, Pods!Reload, Pods!Effect, Pods!Lands, Pods!Fails
  <2>3. Connections!ResourceInv' /\ Pods!ResourceInv'
    BY <2>1, <2>2, ConnectionsStep, PodsStep DEF ViewInv
  <2>4. ASSUME Pods!Reload, UNCHANGED lookupVars PROVE LookupsAreOfTheirKeys'
    BY <2>4 DEF Pods!Reload, lookupVars, ViewInv, LookupsAreOfTheirKeys
  <2>5. LookupsAreOfTheirKeys'
    BY <1>3, <2>4, PodsAreAskedStep, PodsLookupEndsStep DEF PodsLoad
  <2> QED BY <2>1, <2>2, <2>3, <2>5 DEF ViewInv
<1>4. ASSUME UNCHANGED viewVars PROVE ViewInv'
  <2>1. UNCHANGED <<view, cluster, addresses, cKey, pKey>> /\ UNCHANGED Connections!resourceVars /\ UNCHANGED Pods!resourceVars
    BY <1>4 DEF viewVars, connectionVars, podVars, Connections!resourceVars, Pods!resourceVars
  <2>2. Connections!ResourceInv' /\ Pods!ResourceInv'
    BY <2>1, ConnectionsStep, PodsStep DEF ViewInv
  <2>3. LookupsAreOfTheirKeys'
    BY <1>4 DEF viewVars, podVars, lookupVars, ViewInv, LookupsAreOfTheirKeys
  <2> QED BY <2>1, <2>2, <2>3 DEF ViewInv
<1> QED BY <1>1, <1>2, <1>3, <1>4 DEF ViewNext

(* Nothing is chosen yet, and nothing is loaded. *)
LEMMA ViewStarts == ViewInit => ViewInv
<1> SUFFICES ASSUME ViewInit PROVE ViewInv
  OBVIOUS
<1>1. ConnectionsHook!ResourceAssumption /\ PodsHook!ResourceAssumption
  BY ViewAssumption DEF ConnectionsHook!ResourceAssumption, PodsHook!ResourceAssumption
<1>2. ConnectionsHook!ResourceInit /\ PodsHook!ResourceInit
  BY DEF ViewInit, Connections!ResourceInit, Pods!ResourceInit, ConnectionsHook!ResourceInit,
         PodsHook!ResourceInit, Connections!NoData, Pods!NoData, ConnectionsHook!NoData, PodsHook!NoData
<1>3. ConnectionsHook!ResourceInv /\ PodsHook!ResourceInv
  BY <1>1, <1>2, ConnectionsHook!InitHolds, PodsHook!InitHolds
<1>4. Connections!ResourceInv
  BY <1>3 DEF Connections!ResourceInv, Connections!ResourceTypeOK, Connections!LiveIsLast, Connections!NeverBackwards,
              Connections!SettledShowsItsKey, ConnectionsHook!ResourceInv, ConnectionsHook!ResourceTypeOK,
              ConnectionsHook!LiveIsLast, ConnectionsHook!NeverBackwards, ConnectionsHook!SettledShowsItsKey
<1>5. Pods!ResourceInv
  BY <1>3 DEF Pods!ResourceInv, Pods!ResourceTypeOK, Pods!LiveIsLast, Pods!NeverBackwards,
              Pods!SettledShowsItsKey, PodsHook!ResourceInv, PodsHook!ResourceTypeOK,
              PodsHook!LiveIsLast, PodsHook!NeverBackwards, PodsHook!SettledShowsItsKey
<1>6. LookupsAreOfTheirKeys
  <2>1. pLoads = <<>> /\ pData.key = None
    BY DEF ViewInit, Pods!ResourceInit, Pods!NoData
  <2> QED BY <2>1 DEF LookupsAreOfTheirKeys
<1> QED BY <1>4, <1>5, <1>6 DEF ViewInit, ViewInv, ConnectionsKey, PodsKey

(* Two hooks that show their keys show what belongs together, as the second key is made of the first one's answer. *)
LEMMA SettledViewsAgree == ViewInv => ClientsAreLookedUp
<1> SUFFICES ASSUME ViewInv, ShowsClients, Settled
             PROVE  /\ cData.key = cluster /\ pData.key[1] = cluster
                    /\ AddressFingerprint(pFound) = AddressFingerprint(addresses)
  BY DEF ClientsAreLookedUp
<1> HIDE DEF AddressFingerprint
<1>1. cData.key = cKey /\ pData.key = pKey
  BY DEF Settled, ViewInv, Connections!ResourceInv, Connections!SettledShowsItsKey, Pods!ResourceInv, Pods!SettledShowsItsKey
<1>2. view = "clients" /\ cData.key # None /\ addresses # <<>>
  BY DEF ShowsClients
<1>3. cKey = cluster /\ cluster # None
  BY <1>1, <1>2 DEF ViewInv, ConnectionsKey
<1>4. pKey = <<cluster, AddressFingerprint(addresses)>>
  BY <1>2, <1>3 DEF ViewInv, PodsKey
<1>5. pData.key # None
  BY <1>2 DEF ShowsClients, PodsPending, Settled
<1>6. pData.key[2] = AddressFingerprint(pFound)
  BY <1>5 DEF ViewInv, LookupsAreOfTheirKeys
<1> QED BY <1>1, <1>3, <1>4, <1>6

(* Where no two address lists share a fingerprint, they show what was looked up for exactly the addresses shown. *)
LEMMA SettledViewsAreExact ==
    ASSUME \A ips, others \in AddressLists : AddressFingerprint(ips) = AddressFingerprint(others) => ips = others
    PROVE  ViewInv => LooksUpWhenAddressesChange
<1> SUFFICES ASSUME ViewInv, ShowsClients, Settled PROVE pFound = addresses
  BY DEF LooksUpWhenAddressesChange
<1> HIDE DEF AddressFingerprint
<1>1. AddressFingerprint(pFound) = AddressFingerprint(addresses)
  BY SettledViewsAgree DEF ClientsAreLookedUp
<1>2. addresses # <<>> /\ pData.key # None
  BY DEF ShowsClients, PodsPending, Settled
<1>3. addresses \in AddressLists
  BY <1>2 DEF ViewInv
<1>4. pFound \in AddressLists
  BY <1>2 DEF ViewInv, LookupsAreOfTheirKeys
<1> QED BY <1>1, <1>3, <1>4

-----------------------------------------------------------------------------
(* The page with the form. *)

Submissions == [target : Targets, login : Logins \cup {None}, done : BOOLEAN]

Served == [is : {"ok", "denied", "unreachable"}, login : Logins \cup {None}]

LoginTypeOK ==
    /\ manual \in [Targets -> Logins \cup {None}]
    /\ calls \in Seq(Submissions)
    /\ served \in Seq(Served \cup {None}) /\ Len(served) = Len(lLoads)
    /\ told \in Served \cup {None}

(* A load that counts makes the page loading. *)
LiveIsLoading == \A i \in DOMAIN lLoads : lLoads[i].live => lLoading

(* With the form's calls answered: the load that counts is not served yet or was served with the login in force, *)
(* or there is none, and the last answer was.  Main's login changes only while a call is in flight, and a call   *)
(* that ends starts another load.                                                                                *)
LoginCounts ==
    calls = <<>> /\ lKey # None /\ ~lDue =>
        \/ \E i \in DOMAIN lLoads : lLoads[i].live /\ (served[i] = None \/ served[i].login = InForce(lKey))
        \/ (\A i \in DOMAIN lLoads : ~lLoads[i].live) /\ told.login = InForce(lKey)

LoginInv == LoginTypeOK /\ Hook!ResourceInv /\ LiveIsLoading /\ LoginCounts

LEMMA LoadsTyped ==
    ASSUME LoginInv
    PROVE  /\ lLoads \in Seq(PageHook!Loads) /\ Len(lLoads) \in Nat /\ DOMAIN lLoads = 1..Len(lLoads)
           /\ DOMAIN served = DOMAIN lLoads /\ lKey \in Targets \cup {None}
           /\ {lDue, lError, lLoading} \subseteq BOOLEAN
           /\ \A i \in DOMAIN lLoads : lLoads[i] \in PageHook!Loads
           /\ \A i \in DOMAIN served : served[i] \in Served \cup {None}
           /\ \A i \in DOMAIN lLoads : lLoads[i].live => i = Len(lLoads) /\ (lDue \/ lLoads[i].key = lKey)
<1>1. /\ lLoads \in Seq(PageHook!Loads) /\ lKey \in Targets \cup {None}
      /\ {lDue, lError, lLoading} \subseteq BOOLEAN
  BY DEF LoginInv, Hook!ResourceInv, Hook!ResourceTypeOK, PageHook!Loads
<1>2. served \in Seq(Served \cup {None}) /\ Len(served) = Len(lLoads)
  BY DEF LoginInv, LoginTypeOK
<1>3. \A i \in DOMAIN lLoads : lLoads[i].live => i = Len(lLoads) /\ (lDue \/ lLoads[i].key = lKey)
  BY DEF LoginInv, Hook!ResourceInv, Hook!LiveIsLast
<1>4. DOMAIN lLoads = 1..Len(lLoads) /\ Len(lLoads) \in Nat /\ DOMAIN served = 1..Len(served)
  BY <1>1, <1>2
<1>5. \A i \in DOMAIN lLoads : lLoads[i] \in PageHook!Loads
  BY <1>1
<1>6. \A i \in DOMAIN served : served[i] \in Served \cup {None}
  BY <1>2
<1> QED BY <1>1, <1>2, <1>3, <1>4, <1>5, <1>6

LEMMA InForceTyped ==
    ASSUME LoginTypeOK, NEW t \in Targets
    PROVE  InForce(t) \in Logins \cup {None}
BY LoginAssumption DEF LoginTypeOK, InForce, Or

(* The page asks again. *)
LEMMA LoadStartsStep ==
    ASSUME LoginInv, LoadStarts
    PROVE  LoginInv'
<1>1. /\ Hook!Effect /\ UNCHANGED <<manual, calls, told>>
      /\ served' = (IF lKey = None THEN served ELSE Append(served, None))
  BY DEF LoadStarts
<1>2. Hook!ResourceInv'
  BY <1>1, PageStep DEF LoginInv, Hook!ResourceNext
<1> DEFINE left == [i \in DOMAIN lLoads |-> [lLoads[i] EXCEPT !.live = FALSE]]
<1>3. /\ lKey' = lKey /\ ~lDue' /\ lLoading' = (lKey # None)
      /\ lLoads' = IF lKey = None THEN left ELSE Append(left, Hook!Load(lKey))
  BY <1>1 DEF Hook!Effect
<1>4. left \in Seq(PageHook!Loads) /\ Len(left) = Len(lLoads) /\ \A i \in DOMAIN left : ~left[i].live
  <2>1. \A i \in DOMAIN lLoads : left[i] \in PageHook!Loads /\ ~left[i].live
    <3> SUFFICES ASSUME NEW i \in DOMAIN lLoads PROVE left[i] \in PageHook!Loads /\ ~left[i].live
      OBVIOUS
    <3>1. lLoads[i] \in PageHook!Loads
      BY LoadsTyped
    <3> QED BY <3>1 DEF PageHook!Loads
  <2>2. DOMAIN left = 1..Len(lLoads) /\ left \in [1..Len(lLoads) -> PageHook!Loads]
    BY <2>1, LoadsTyped
  <2> HIDE DEF left
  <2>3. left \in Seq(PageHook!Loads) /\ Len(left) = Len(lLoads)
    BY <2>2, LoadsTyped
  <2> QED BY <2>1, <2>2, <2>3, LoadsTyped
<1> HIDE DEF left
<1>5. CASE lKey = None
  BY <1>1, <1>2, <1>3, <1>4, <1>5 DEF LoginInv, LoginTypeOK, LiveIsLoading, LoginCounts
<1>6. CASE lKey # None
  <2>1. Hook!Load(lKey) \in PageHook!Loads /\ Hook!Load(lKey).live
    BY <1>6, LoadsTyped DEF Hook!Load, PageHook!Loads
  <2>2. /\ Len(lLoads') = Len(lLoads) + 1 /\ lLoads'[Len(lLoads) + 1] = Hook!Load(lKey)
        /\ DOMAIN lLoads' = 1..(Len(lLoads) + 1)
    BY <1>3, <1>4, <1>6, <2>1, LoadsTyped
  <2>3. served' \in Seq(Served \cup {None}) /\ Len(served') = Len(lLoads) + 1 /\ served'[Len(lLoads) + 1] = None
    BY <1>1, <1>6 DEF LoginInv, LoginTypeOK
  <2>4. LoginTypeOK' /\ LiveIsLoading'
    BY <1>1, <1>3, <1>6, <2>2, <2>3 DEF LoginInv, LoginTypeOK, LiveIsLoading
  <2>5. Len(lLoads) + 1 \in DOMAIN lLoads'
    BY <2>2, LoadsTyped
  <2> QED BY <1>2, <2>1, <2>2, <2>3, <2>4, <2>5 DEF LoginInv, LoginCounts
<1> QED BY <1>5, <1>6

(* The page is told, of the load that counts or of one it has left. *)
LEMMA IsToldStep ==
    ASSUME LoginInv, NEW i \in DOMAIN served, IsTold(i)
    PROVE  LoginInv'
<1> DEFINE n == Len(lLoads)
<1>1. /\ served[i] # None /\ (Hook!Lands(i) \/ Hook!Fails(i))
      /\ told' = (IF lLoads[i].live THEN served[i] ELSE told)
      /\ served' = RemoveAt(served, i) /\ UNCHANGED <<manual, calls>>
  BY DEF IsTold
<1>2. Hook!ResourceInv'
  BY <1>1, PageStep, LoadsTyped DEF LoginInv, Hook!ResourceNext
<1>3. i \in 1..n /\ n \in Nat /\ i \in DOMAIN lLoads
  BY LoadsTyped
<1>4. /\ lLoads' \in Seq(PageHook!Loads) /\ Len(lLoads') = n - 1
      /\ \A j \in DOMAIN lLoads' :
            /\ j < i => lLoads'[j] = [lLoads[j] EXCEPT !.overtaken = TRUE]
            /\ j >= i => lLoads'[j] = lLoads[j + 1]
  <2>1. PageHook!Ends(i)
    BY <1>1 DEF Hook!Lands, Hook!Fails, Hook!Ends, PageHook!Ends, Hook!RemoveAt, PageHook!RemoveAt
  <2>2. PageHook!ResourceAssumption
    BY LoginAssumption DEF PageHook!ResourceAssumption
  <2> QED BY <2>1, <2>2, <1>3, LoadsTyped, PageHook!EndsKeeps
<1>5. /\ served' \in Seq(Served \cup {None}) /\ Len(served') = n - 1
      /\ \A j \in 1..(n - 1) : served'[j] = IF j < i THEN served[j] ELSE served[j + 1]
  <2>1. served \in Seq(Served \cup {None}) /\ Len(served) = n
    BY DEF LoginInv, LoginTypeOK
  <2> QED BY <1>1, <2>1, RemoveAtShifts
<1>6. DOMAIN lLoads' = 1..(n - 1)
  BY <1>3, <1>4
<1>7. \A j \in DOMAIN lLoads' : lLoads'[j].live = IF j < i THEN lLoads[j].live ELSE lLoads[j + 1].live
  <2> SUFFICES ASSUME NEW j \in DOMAIN lLoads'
               PROVE  lLoads'[j].live = IF j < i THEN lLoads[j].live ELSE lLoads[j + 1].live
    OBVIOUS
  <2>1. j \in DOMAIN lLoads
    BY <1>3, <1>6, LoadsTyped
  <2>2. lLoads[j] \in PageHook!Loads
    BY <2>1, LoadsTyped
  <2>3. CASE j < i
    BY <2>2, <2>3, <1>4 DEF PageHook!Loads
  <2>4. CASE ~(j < i)
    BY <2>4, <1>3, <1>4, <1>6
  <2> QED BY <2>3, <2>4
<1>8. LoginTypeOK'
  <2>1. told' \in Served \cup {None}
    BY <1>1, LoadsTyped DEF LoginInv, LoginTypeOK
  <2> QED BY <2>1, <1>1, <1>4, <1>5 DEF LoginInv, LoginTypeOK
<1>9. lKey' = lKey /\ lDue' = lDue
  BY <1>1 DEF Hook!Lands, Hook!Fails
<1>10. CASE lLoads[i].live
  <2>1. i = n /\ (lDue \/ lLoads[i].key = lKey)
    BY <1>3, <1>10, LoadsTyped
  <2>2. \A j \in DOMAIN lLoads' : ~lLoads'[j].live
    BY <1>3, <1>6, <1>7, <2>1, LoadsTyped
  <2>3. ASSUME calls = <<>>, lKey # None, ~lDue PROVE served[i].login = InForce(lKey)
    <3>1. PICK k \in DOMAIN lLoads : lLoads[k].live /\ (served[k] = None \/ served[k].login = InForce(lKey))
      BY <2>3, <1>3, <1>10 DEF LoginInv, LoginCounts
    <3>2. k = i
      BY <3>1, <2>1, LoadsTyped
    <3> QED BY <3>1, <3>2, <1>1
  <2>4. LiveIsLoading' /\ LoginCounts'
    BY <2>2, <2>3, <1>1, <1>9, <1>10 DEF LiveIsLoading, LoginCounts, InForce
  <2> QED BY <1>2, <1>8, <2>4 DEF LoginInv
<1>11. CASE ~lLoads[i].live
  <2>1. lLoading' = lLoading /\ told' = told
    BY <1>1, <1>11, LoadsTyped DEF Hook!Lands, Hook!Fails
  <2>2. LiveIsLoading'
    <3> SUFFICES ASSUME NEW j \in DOMAIN lLoads', lLoads'[j].live PROVE lLoading
      BY <2>1 DEF LiveIsLoading
    <3>1. j \in DOMAIN lLoads /\ j + 1 \in DOMAIN lLoads
      BY <1>3, <1>6, LoadsTyped
    <3> QED BY <3>1, <1>7 DEF LoginInv, LiveIsLoading
  <2>3. LoginCounts'
    <3> SUFFICES ASSUME calls = <<>>, lKey # None, ~lDue
                 PROVE  \/ \E j \in DOMAIN lLoads' :
                              lLoads'[j].live /\ (served'[j] = None \/ served'[j].login = InForce(lKey))
                        \/ (\A j \in DOMAIN lLoads' : ~lLoads'[j].live) /\ told.login = InForce(lKey)
      BY <2>1, <1>1, <1>9 DEF LoginCounts, InForce
    <3>1. CASE \E k \in DOMAIN lLoads : lLoads[k].live /\ (served[k] = None \/ served[k].login = InForce(lKey))
      <4>1. PICK k \in DOMAIN lLoads : lLoads[k].live /\ (served[k] = None \/ served[k].login = InForce(lKey))
        BY <3>1
      <4>2. k = n /\ i < n
        BY <4>1, <1>3, <1>11, LoadsTyped
      <4>3. n - 1 \in DOMAIN lLoads' /\ ~(n - 1 < i) /\ n - 1 + 1 = n
        BY <4>2, <1>3, <1>6
      <4>4. lLoads'[n - 1].live /\ served'[n - 1] = served[n]
        BY <4>1, <4>2, <4>3, <1>5, <1>6, <1>7
      <4> QED BY <4>1, <4>2, <4>3, <4>4
    <3>2. CASE (\A k \in DOMAIN lLoads : ~lLoads[k].live) /\ told.login = InForce(lKey)
      <4>1. \A j \in DOMAIN lLoads' : j \in DOMAIN lLoads /\ j + 1 \in DOMAIN lLoads
        BY <1>3, <1>6, LoadsTyped
      <4> QED BY <4>1, <3>2, <1>7
    <3> QED BY <3>1, <3>2 DEF LoginInv, LoginCounts
  <2> QED BY <1>2, <1>8, <2>2, <2>3 DEF LoginInv
<1> QED BY <1>10, <1>11

LEMMA LoginStep ==
    ASSUME LoginInv, [LoginNext]_loginVars
    PROVE  LoginInv'
<1>0. LoginTypeOK /\ Hook!ResourceInv
  BY DEF LoginInv
<1>1. ASSUME Hook!ResourceNext \/ UNCHANGED Hook!resourceVars, UNCHANGED <<manual, served, told, lLoading, lLoads>>,
             lDue' \/ (calls' = calls /\ lKey' = lKey /\ lDue' = lDue),
             calls' \in Seq(Submissions)
      PROVE  LoginInv'
  <2>1. Hook!ResourceInv'
    BY <1>0, <1>1, PageStep
  <2> QED BY <2>1, <1>1 DEF LoginInv, LoginTypeOK, LiveIsLoading, LoginCounts, InForce
<1>2. ASSUME NEW t \in Targets, ShowsTarget(t) PROVE LoginInv'
  BY <1>0, <1>1, <1>2 DEF ShowsTarget, Hook!Rekey, Hook!ResourceNext, LoginTypeOK
<1>3. ASSUME Again PROVE LoginInv'
  BY <1>0, <1>1, <1>3 DEF Again, Hook!Reload, Hook!ResourceNext, LoginTypeOK
<1>4. ASSUME CallEnds PROVE LoginInv'
  <2>1. Tail(calls) \in Seq(Submissions)
    BY <1>0, <1>4 DEF CallEnds, LoginTypeOK
  <2> QED BY <2>1, <1>1, <1>4 DEF CallEnds, Hook!Reload, Hook!ResourceNext
<1>5. ASSUME NEW i \in DOMAIN served, Serves(i) PROVE LoginInv'
  <2> DEFINE login == InForce(lLoads[i].key)
  <2>1. PICK answer \in {"ok", "denied", "unreachable"} : served' = [served EXCEPT ![i] = [is |-> answer, login |-> login]]
    BY <1>5 DEF Serves
  <2>2. UNCHANGED <<manual, calls, told, lKey, lDue, lLoading, lLoads>> /\ UNCHANGED Hook!resourceVars
    BY <1>5 DEF Serves, Hook!resourceVars
  <2>3. lLoads[i].key \in Targets
    BY LoadsTyped DEF PageHook!Loads
  <2>4. [is |-> answer, login |-> login] \in Served
    BY <1>0, <2>3, InForceTyped DEF Served
  <2>5. served' \in Seq(Served \cup {None}) /\ Len(served') = Len(served) /\ DOMAIN served' = DOMAIN served
    BY <1>0, <2>1, <2>4 DEF LoginTypeOK
  <2>6. \A j \in DOMAIN served : served'[j] = IF j = i THEN [is |-> answer, login |-> login] ELSE served[j]
    BY <2>1
  <2>7. Hook!ResourceInv'
    BY <1>0, <2>2, PageStep
  <2>8. ASSUME calls = <<>>, lKey # None, ~lDue, NEW k \in DOMAIN lLoads, lLoads[k].live,
               served[k] = None \/ served[k].login = InForce(lKey)
        PROVE  served'[k] = None \/ served'[k].login = InForce(lKey)
    BY <2>6, <2>8, LoadsTyped
  <2>9. LoginCounts'
    BY <2>2, <2>8 DEF LoginInv, LoginCounts, InForce
  <2> QED BY <1>0, <2>2, <2>5, <2>7, <2>9 DEF LoginInv, LoginTypeOK, LiveIsLoading
<1>6. ASSUME NEW login \in Logins \cup {None}, Submits(login) PROVE LoginInv'
  <2>1. lKey \in Targets
    BY <1>6, LoadsTyped DEF Submits, FormShown
  <2>2. calls' \in Seq(Submissions) /\ calls' # <<>>
    BY <1>0, <1>6, <2>1 DEF Submits, LoginTypeOK, Submissions
  <2>3. UNCHANGED <<manual, served, told, lKey, lDue, lLoading, lLoads>> /\ UNCHANGED Hook!resourceVars
    BY <1>6 DEF Submits, Hook!resourceVars
  <2>4. Hook!ResourceInv'
    BY <1>0, <2>3, PageStep
  <2> QED BY <2>2, <2>3, <2>4 DEF LoginInv, LoginTypeOK, LiveIsLoading, LoginCounts
<1>7. ASSUME NEW i \in DOMAIN calls, MainSetsLogin(i) PROVE LoginInv'
  <2>1. calls[i] \in Submissions
    BY <1>0 DEF LoginTypeOK
  <2>2. [calls[i] EXCEPT !.done = TRUE] \in Submissions
    BY <2>1 DEF Submissions
  <2>3. calls' \in Seq(Submissions) /\ DOMAIN calls' = DOMAIN calls
    BY <1>0, <1>7, <2>2 DEF MainSetsLogin, LoginTypeOK
  <2>4. calls' # <<>>
    BY <2>3
  <2>5. manual' \in [Targets -> Logins \cup {None}]
    BY <1>0, <1>7, <2>1 DEF MainSetsLogin, LoginTypeOK, Submissions
  <2>6. UNCHANGED <<served, told, lKey, lDue, lLoading, lLoads>> /\ UNCHANGED Hook!resourceVars
    BY <1>7 DEF MainSetsLogin, Hook!resourceVars
  <2>7. Hook!ResourceInv'
    BY <1>0, <2>6, PageStep
  <2> QED BY <2>3, <2>4, <2>5, <2>6, <2>7 DEF LoginInv, LoginTypeOK, LiveIsLoading, LoginCounts
<1>8. ASSUME UNCHANGED loginVars PROVE LoginInv'
  BY <1>0, <1>1, <1>8 DEF loginVars, Hook!resourceVars, LoginTypeOK
<1> QED BY <1>2, <1>3, <1>4, <1>5, <1>6, <1>7, <1>8, LoadStartsStep, IsToldStep DEF LoginNext

LEMMA LoginFollows == LoginInv => AnsweredWithItsLogin
BY DEF LoginInv, LiveIsLoading, LoginCounts, AnsweredWithItsLogin

-----------------------------------------------------------------------------
(* The theorems. *)

(* Together what the parts keep: each is an invariant of its own part only, and no part touches another's state. *)
PartsInv == SelectionInv /\ WidthInv /\ ChosenInv /\ RediscoveryInv /\ MirrorInv /\ ViewInv /\ LoginInv

LEMMA PartsStart == Init => PartsInv
<1> SUFFICES ASSUME Init PROVE PartsInv
  OBVIOUS
<1>1. SelectionInv /\ ChosenInv
  BY DEF Init, SelectionInit, SelectionInv, TargetInit, ChosenInv
<1>2. WidthInv
  BY DEF Init, WidthInit, WidthInv, WidthsAreKept
<1>3. RediscoveryInv
  <2>1. [state |-> "unused", list |-> <<>>, fresh |-> FALSE] \in Outcomes
    BY DEF Outcomes
  <2> QED BY <2>1 DEF Init, TargetInit, RediscoveryInv, TargetTypeOK
<1>4. MirrorInv
  <2>1. sets = <<>> /\ DOMAIN sets = {} /\ sets \in Seq(Calls) /\ gate = {} /\ mirror = {}
    BY DEF Init, MirrorInit
  <2> QED BY <2>1 DEF MirrorInv, MirrorTypeOK, InOrder, LastCallHolds, MirrorWaits
<1>5. LoginInv
  <2>1. PageHook!ResourceAssumption
    BY LoginAssumption DEF PageHook!ResourceAssumption
  <2>2. PageHook!ResourceInit
    BY DEF Init, LoginInit, Hook!ResourceInit, PageHook!ResourceInit, Hook!NoData, PageHook!NoData
  <2>3. PageHook!ResourceInv
    BY <2>1, <2>2, PageHook!InitHolds
  <2>4. Hook!ResourceInv
    BY <2>3 DEF Hook!ResourceInv, Hook!ResourceTypeOK, Hook!LiveIsLast, Hook!NeverBackwards,
                Hook!SettledShowsItsKey, PageHook!ResourceInv, PageHook!ResourceTypeOK,
                PageHook!LiveIsLast, PageHook!NeverBackwards, PageHook!SettledShowsItsKey
  <2>5. lLoads = <<>> /\ served = <<>> /\ calls = <<>> /\ lKey = None /\ told = None
    BY DEF Init, LoginInit, Hook!ResourceInit
  <2>6. LoginTypeOK
    BY <2>5 DEF Init, LoginInit, LoginTypeOK
  <2> QED BY <2>4, <2>5, <2>6 DEF LoginInv, LiveIsLoading, LoginCounts
<1>6. ViewInv
  BY ViewStarts DEF Init
<1> QED BY <1>1, <1>2, <1>3, <1>4, <1>5, <1>6 DEF PartsInv

(* The queue page among the parts is QueuePage, about which the theorems above are. *)
THEOREM DrawerIsThePages == Spec => QueueSpec
<1>1. Init => QueueInit
  BY DEF Init
<1>2. [Next]_vars => [QueueNext]_queueVars
  BY DEF Next, Only, vars
<1> QED BY <1>1, <1>2, PTL DEF Spec, QueueSpec

(* In every reachable state, whichever part moves. *)
THEOREM PartsInvariant == Spec => []PartsInv
<1>1. PartsInv /\ [Next]_vars => PartsInv'
  BY PartsAreApart, SelectionStep, WidthStep, ChosenStep, RediscoveryStep, MirrorStep, ViewStep, LoginStep DEF PartsInv
<1> QED BY <1>1, PartsStart, PTL DEF Spec

(* Wherever the user goes and however discoveries, pages and drags interleave, the page shows the target they *)
(* chose, the drawer what they opened, and a table the widths it saved last.                                  *)
THEOREM ChoicesStay == Spec => []ChoicesAreKept
<1>1. PartsInv => ChoicesAreKept
  BY DrawerFollows, ChosenIsSelected DEF PartsInv, WidthInv, ChoicesAreKept
<1> QED BY <1>1, PartsInvariant, PTL

(* After "Rediscover" no page settles on a list discovered before it, and no error is served from the cache. *)
THEOREM RediscoveryStaysShown == Spec => []RediscoveryIsShown
<1>1. PartsInv => RediscoveryIsShown
  BY DEF PartsInv, RediscoveryInv, RediscoveryIsShown
<1> QED BY <1>1, PartsInvariant, PTL

(* A page that offers writes is right about Main, or a call that says otherwise is under way. *)
THEOREM MirrorStaysArmed == Spec => []MirrorIsArmed
<1>1. PartsInv => MirrorIsArmed
  BY DEF PartsInv, MirrorInv, MirrorWaits, MirrorIsArmed
<1> QED BY <1>1, PartsInvariant, PTL

(* Connections and pods that have both settled are of the target chosen, and the pods were looked up for      *)
(* addresses of the same fingerprint as those shown.                                                          *)
THEOREM ClientsStayLookedUp == Spec => []ClientsAreLookedUp
<1>1. PartsInv => ClientsAreLookedUp
  BY SettledViewsAgree DEF PartsInv
<1> QED BY <1>1, PartsInvariant, PTL

(* Where no two address lists that a list of connections may have share a fingerprint, the pods were looked up *)
(* for exactly the addresses shown: a new lookup follows every change of the addresses.                       *)
THEOREM LookupsAreExact ==
    ASSUME \A ips, others \in AddressLists : AddressFingerprint(ips) = AddressFingerprint(others) => ips = others
    PROVE  Spec => []LooksUpWhenAddressesChange
<1>1. PartsInv => LooksUpWhenAddressesChange
  BY SettledViewsAreExact DEF PartsInv
<1> QED BY <1>1, PartsInvariant, PTL

(* Once the form's calls were answered and nothing loads, the answer shown used the login in force. *)
THEOREM AnsweredWithTheLoginInForce == Spec => []AnsweredWithItsLogin
<1>1. PartsInv => AnsweredWithItsLogin
  BY LoginFollows DEF PartsInv
<1> QED BY <1>1, PartsInvariant, PTL
=============================================================================
