--------------------------- MODULE WriteModeMirror --------------------------
(***************************************************************************)
(* Write Mode as the renderer shows it (src/renderer/write-mode-store.ts,  *)
(* WriteModeToggle of src/renderer/components/page-shell.tsx) and as Main  *)
(* keeps it (the `writeMode` set of src/main/rabbitmq/session-manager.ts,  *)
(* the writeModeSet handler of src/main/ipc.ts).  Calls reach Main, and    *)
(* answers the renderer, in order.  The frame of the renderer may be       *)
(* loaded again, which Main does not notice.                               *)
(***************************************************************************)
EXTENDS Renderer, Naturals, Sequences, SequencesExt

CONSTANT MaxSets   \* bound: the calls in flight

ASSUME MirrorAssumption == MaxSets \in Nat \ {0}

VARIABLES
    gate,     \* Main's set
    mirror,   \* the renderer's set
    sets      \* the calls in flight: their target, value, whether Main has done them, whether someone listens

mirrorVars == <<gate, mirror, sets>>

MirrorInit == gate = {} /\ mirror = {} /\ sets = <<>>

With(S, t, on) == IF on THEN S \cup {t} ELSE S \ {t}

(* Mutant: the mirror is set before Main answers. *)
ToggleAtOnce(t) ==
    /\ Len(sets) < MaxSets
    /\ sets' = Append(sets, [target |-> t, on |-> t \notin mirror, done |-> FALSE, heard |-> TRUE])
    /\ mirror' = With(mirror, t, t \notin mirror)
    /\ UNCHANGED gate

(* The switch of the target's page, confirmed when it arms. *)
Toggle(t) ==
    /\ Len(sets) < MaxSets
    /\ sets' = Append(sets, [target |-> t, on |-> t \notin mirror, done |-> FALSE, heard |-> TRUE])
    /\ UNCHANGED <<gate, mirror>>

(* The handler: the first call that Main has not done. *)
MainSets(i) ==
    /\ ~sets[i].done /\ \A j \in 1..(i - 1) : sets[j].done
    /\ gate' = With(gate, sets[i].target, sets[i].on)
    /\ sets' = [sets EXCEPT ![i].done = TRUE]
    /\ UNCHANGED mirror

Answers ==
    /\ sets # <<>> /\ Head(sets).done
    /\ mirror' = IF Head(sets).heard THEN With(mirror, Head(sets).target, Head(sets).on) ELSE mirror
    /\ sets' = Tail(sets)
    /\ UNCHANGED gate

(* Main cannot be reached: the store stays as it was. *)
CallFails ==
    /\ sets # <<>> /\ ~Head(sets).done
    /\ sets' = Tail(sets)
    /\ UNCHANGED <<gate, mirror>>

(* The frame is loaded again, with a store of its own. *)
FrameReloads ==
    /\ mirror' = {}
    /\ sets' = [i \in DOMAIN sets |-> [sets[i] EXCEPT !.heard = FALSE]]
    /\ UNCHANGED gate

(* The extension is deactivated, in both processes: closeAll() clears Main's set. *)
Deactivate == gate' = {} /\ mirror' = {} /\ sets' = <<>>

MirrorNext ==
    \/ \E t \in Targets : Toggle(t)
    \/ \E i \in DOMAIN sets : MainSets(i)
    \/ Answers \/ CallFails \/ FrameReloads \/ Deactivate

(* A page that offers writes is right: its target is armed in Main, unless a call is under way that says     *)
(* otherwise ("Main keeps the authoritative gate; this mirrors it for the UI", write-mode-store.ts:6).       *)
MirrorIsArmed == \A t \in mirror : t \in gate \/ \E i \in DOMAIN sets : sets[i].target = t
=============================================================================
