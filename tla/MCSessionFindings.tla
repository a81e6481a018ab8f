------------------------- MODULE MCSessionFindings -------------------------
(***************************************************************************)
(* Two scenarios of SessionManager, each with the steps the environment    *)
(* takes narrowed down to those its statement is about, so that a          *)
(* counterexample has no other cause.                                      *)
(***************************************************************************)
EXTENDS SessionManager

CONSTANTS k1, c1, c2, o1, o2, o3, hint, typed

VARIABLE down   \* the extension was disabled: shutdown() ran, no handler is called any more

findingVars == <<vars, down>>

-----------------------------------------------------------------------------
(* The extension is disabled while a target is being opened: every request of it still waits. *)

ShutdownNext ==
    \/ /\ ~down /\ UNCHANGED down
       /\ \/ \E c \in Callers, k \in Keys : Call(c, k)
          \/ \E o \in Opens : OpenGoesOn(o)
          \/ CredentialsChange
    \/ /\ ~down /\ down' = TRUE
       /\ \A c \in Callers : call[c] # "running"
       /\ CloseAll
    \/ /\ down /\ UNCHANGED down
       /\ \E o \in Opens : OpenGoesOn(o)

ShutdownSpec == Init /\ down = FALSE /\ [][ShutdownNext]_findingVars

(* "Closing the session while it opens (the extension disabled, a disconnect, new credentials)    *)
(* aborts the open at the next step, so it never starts kubectl or stores a session after the     *)
(* close" (session-manager.ts:167): once the extension is disabled no open starts a kubectl.      *)
NoKubectlAfterShutdown == [][down => alive' \subseteq alive]_findingVars

-----------------------------------------------------------------------------
(* A tunnel went stale under two requests, and nothing else goes wrong: no one closes the target, *)
(* no timer expires, and an open only fails if it was aborted.                                    *)

StaleNext ==
    /\ UNCHANGED down
    /\ \/ \E c \in Callers, k \in Keys : Call(c, k)
       \/ \E c \in Callers : FnSucceeds(c) \/ \E o \in Opens : FnRetries(c, o)
       \/ \E o \in Opens :
            \/ CredentialsResolved(o) \/ PodLocated(o) \/ KubectlSpawned(o)
            \/ TunnelReady(o) \/ TunnelTaken(o) \/ SessionStored(o)
            \/ reason[o] # "none" /\ OpenFails(o)

StaleSpec == Init /\ down = FALSE /\ [][StaleNext]_findingVars

(* "Runs fn against a live session, transparently reopening the tunnel once if it went stale"      *)
(* (session-manager.ts:111): no request is told that its connection was closed while it opened.    *)
StaleTunnelIsTransparent ==
    [][\A c \in Callers : call[c] = "opening" => call'[c] # "idle"]_findingVars
=============================================================================
