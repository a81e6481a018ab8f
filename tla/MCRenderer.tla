----------------------------- MODULE MCRenderer -----------------------------
(* What the renderer keeps between loads and between pages: seven parts that share no state, each explored by *)
(* itself while the others stay as they begin.                                                             *)
EXTENDS MCQueuePage, MCClientsView, TargetPage, SelectionParam, WriteModeMirror, ColumnWidths, CredentialsPanel
CONSTANTS t1, t2, d1, d2, d3
SomeLists == {<<>>, <<t1>>, <<t2>>, <<t1, t2>>}
SomeKinds == [t \in {"in", "out", "queues"} |-> IF t = "queues" THEN "queues" ELSE "bindings"]
SomeTakes == [t \in Targets |-> "right"]
SomeFinds == [t \in Targets |-> None]

VARIABLE part
vars == <<part, queueVars, viewVars, targetVars, selectionVars, mirrorVars, widthVars, loginVars>>

Init ==
    /\ part \in {"queue", "clients", "target", "drawer", "write", "widths", "login"}
    /\ QueueInit /\ ViewInit /\ TargetInit /\ SelectionInit /\ MirrorInit /\ WidthInit /\ LoginInit

Only(p) ==
    /\ part = p /\ UNCHANGED part
    /\ p # "queue" => UNCHANGED queueVars
    /\ p # "clients" => UNCHANGED viewVars
    /\ p # "target" => UNCHANGED targetVars
    /\ p # "drawer" => UNCHANGED selectionVars
    /\ p # "write" => UNCHANGED mirrorVars
    /\ p # "widths" => UNCHANGED widthVars
    /\ p # "login" => UNCHANGED loginVars

Next ==
    \/ Only("queue") /\ QueueNext
    \/ Only("clients") /\ ViewNext
    \/ Only("target") /\ TargetNext
    \/ Only("drawer") /\ SelectionNext
    \/ Only("write") /\ MirrorNext
    \/ Only("widths") /\ WidthNext
    \/ Only("login") /\ LoginNext

Spec == Init /\ [][Next]_vars

(* What the user chose is what there is: the target shown, the drawer open, the widths of the columns (see *)
(* TargetPage, SelectionParam and ColumnWidths).                                                          *)
ChoicesAreKept == ChosenTargetStays /\ DrawerIsTheUsers /\ WidthsAreKept
=============================================================================
