---------------------------- MODULE ColumnWidths ----------------------------
(***************************************************************************)
(* The widths of table columns (src/renderer/components/                   *)
(* resizable-columns.ts): each table on screen holds its own widths,       *)
(* changes them while a handle is dragged, and saves them under the id of  *)
(* its kind.  Two tables of one kind can be on screen: the bindings to and *)
(* from an exchange.  A width is a number of steps of the mouse.           *)
(***************************************************************************)
EXTENDS Absent, Integers, FiniteSetsExt, Functions

CONSTANTS
    Tables,    \* the tables that can be on screen
    KindOf,    \* the id each one saves its widths under
    Columns,   \* the columns of a table
    MinWidth, Default, MaxWidth   \* the least width, the rendered one before any resize, and a bound: the screen's

ASSUME WidthAssumption ==
    /\ KindOf \in [Tables -> Range(KindOf)]
    /\ {MinWidth, Default, MaxWidth} \subseteq Nat /\ MinWidth < Default /\ Default <= MaxWidth
    /\ None \notin Tables

VARIABLES
    widths,    \* of each table: None when it is not on screen
    drag,      \* the drag under way: its table, column and width at the start; None
    cursor,    \* document.body is styled for a drag
    saved,    \* localStorage: the widths saved of each kind, absent when there are none
    saver      \* of each kind, the table that saved last

widthVars == <<widths, drag, cursor, saved, saver>>

WidthInit ==
    /\ widths = [t \in Tables |-> None] /\ drag = None /\ cursor = FALSE
    /\ saved = << >> /\ saver = << >>

(* loadWidths *)
LoadWidths(kind) == IF kind \in DOMAIN saved THEN saved[kind] ELSE << >>

(* saveWidths: the storage is read again, and one kind of it replaced, or removed when nothing is left. *)
SaveWidths(kind, own) ==
    IF own = << >> THEN Restrict(saved, DOMAIN saved \ {kind})
    ELSE [k \in DOMAIN saved \cup {kind} |-> IF k = kind THEN own ELSE saved[k]]

Persist(t, own) ==
    /\ widths' = [widths EXCEPT ![t] = own]
    /\ saved' = SaveWidths(KindOf[t], own)
    /\ saver' = [k \in DOMAIN saver \cup {KindOf[t]} |-> IF k = KindOf[t] THEN t ELSE saver[k]]

WithColumn(own, c, w) == [x \in DOMAIN own \cup {c} |-> IF x = c THEN w ELSE own[x]]

-----------------------------------------------------------------------------
Appears(t) == widths[t] = None /\ widths' = [widths EXCEPT ![t] = LoadWidths(KindOf[t])] /\ UNCHANGED <<drag, cursor, saved, saver>>

(* A table that leaves the screen takes its listeners with it, and its drag: the body's style stays. *)
Disappears(t) ==
    /\ widths[t] # None
    /\ widths' = [widths EXCEPT ![t] = None]
    /\ drag' = IF drag # None /\ drag.table = t THEN None ELSE drag
    /\ UNCHANGED <<cursor, saved, saver>>

(* onResizeStart: the width the drag starts with is the rendered one. *)
Start(t, c) ==
    /\ widths[t] # None /\ drag = None
    /\ drag' = [table |-> t, column |-> c, from |-> IF c \in DOMAIN widths[t] THEN widths[t][c] ELSE Default]
    /\ cursor' = TRUE
    /\ UNCHANGED <<widths, saved, saver>>

(* The width when the mouse is dx steps right of where it was pressed. *)
Dragged(dx) == Max({MinWidth, drag.from + dx})

OnMove(dx) ==
    /\ drag # None /\ drag.from + dx <= MaxWidth
    /\ widths' = [widths EXCEPT ![drag.table] = WithColumn(@, drag.column, Dragged(dx))]
    /\ UNCHANGED <<drag, cursor, saved, saver>>

(* The mouse is let go where it is, which may be where it was pressed. *)
OnUp(dx) ==
    /\ drag # None /\ drag.from + dx <= MaxWidth
    /\ Persist(drag.table, WithColumn(widths[drag.table], drag.column, Dragged(dx)))
    /\ drag' = None /\ cursor' = FALSE

(* A double click on the handle; the drag that each of its two clicks is has ended. *)
Reset(t, c) ==
    /\ widths[t] # None /\ drag = None
    /\ Persist(t, Restrict(widths[t], DOMAIN widths[t] \ {c}))
    /\ UNCHANGED <<drag, cursor>>

WidthNext ==
    \/ \E t \in Tables : Appears(t) \/ Disappears(t) \/ \E c \in Columns : Start(t, c) \/ Reset(t, c)
    \/ \E dx \in (-MaxWidth)..MaxWidth : OnMove(dx) \/ OnUp(dx)

-----------------------------------------------------------------------------
(* A table that saved last shows what it will show the next time, once no handle of it is dragged, however *)
(* the other tables on screen were resized since, unless they are of its kind: those overwrite its widths  *)
(* with the ones they know (resizable-columns.ts:47, 120).                                                *)
WidthsAreKept ==
    \A t \in Tables :
        /\ widths[t] # None /\ (drag = None \/ drag.table # t)
        /\ KindOf[t] \in DOMAIN saver /\ saver[KindOf[t]] = t
        => LoadWidths(KindOf[t]) = widths[t]
=============================================================================
