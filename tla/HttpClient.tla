----------------------------- MODULE HttpClient -----------------------------
(***************************************************************************)
(* createJsonHttpClient (src/main/rabbitmq/http.ts): the promises of the   *)
(* Management API requests of one session, and the sockets of its agent.   *)
(* A step is one event of Node's http client; the code settles a promise   *)
(* on "end" of the response, and on "timeout" and "error" of the request.  *)
(***************************************************************************)
EXTENDS Naturals, Sequences, FiniteSets

CONSTANTS
    Requests,   \* the requests of one client
    MaxSockets  \* maxSockets of the agent

ASSUME MaxSocketsAssumption == MaxSockets \in Nat \ {0}

VARIABLES
    promise,  \* "none" before the request, "pending", or what it settled with
    using,    \* the requests that have a socket
    headers,  \* the requests whose response began to arrive
    queue     \* of the agent: the requests that wait for a socket, first come first served

vars == <<promise, using, headers, queue>>

(* A result, a status or a body the client turns into an error, or an error of the connection. *)
Settled == {"resolved", "refused", "unreachable", "timeout", "unknown"}

TypeOK ==
    /\ promise \in [Requests -> {"none", "pending"} \cup Settled]
    /\ using \in SUBSET Requests
    /\ headers \in SUBSET using
    /\ queue \in Seq(Requests)

Init ==
    /\ promise = [r \in Requests |-> "none"]
    /\ using = {}
    /\ headers = {}
    /\ queue = <<>>

-----------------------------------------------------------------------------
(* Mutant: a new request takes a socket whatever the agent's limit. *)
BeginUnbounded(r) ==
    /\ promise[r] = "none"
    /\ promise' = [promise EXCEPT ![r] = "pending"]
    /\ using' = using \cup {r}
    /\ UNCHANGED <<queue, headers>>

(* request(): the agent opens a socket for it, or lets it wait. *)
Begin(r) ==
    /\ promise[r] = "none"
    /\ promise' = [promise EXCEPT ![r] = "pending"]
    /\ IF Cardinality(using) < MaxSockets
       THEN using' = using \cup {r} /\ UNCHANGED queue
       ELSE queue' = Append(queue, r) /\ UNCHANGED using
    /\ UNCHANGED headers

(* The socket of r closes: without keepAlive the agent opens another for the request that waits longest. *)
SocketCloses(r) ==
    /\ headers' = headers \ {r}
    /\ IF queue = <<>>
       THEN using' = using \ {r} /\ UNCHANGED queue
       ELSE using' = (using \ {r}) \cup {Head(queue)} /\ queue' = Tail(queue)

(* Mutant: a failed request settles and keeps its socket. *)
SettlesKeepingSocket(r, how) ==
    /\ promise' = [promise EXCEPT ![r] = how]
    /\ UNCHANGED <<using, headers, queue>>

Settles(r, how) ==
    /\ promise' = [promise EXCEPT ![r] = how]
    /\ SocketCloses(r)

(* The response begins. *)
Responds(r) ==
    /\ r \in using \ headers
    /\ headers' = headers \cup {r}
    /\ UNCHANGED <<promise, using, queue>>

(* "end": the body parsed, an error status, or a body that is no JSON. *)
ResponseEnds(r) ==
    /\ r \in headers
    /\ \E how \in {"resolved", "refused", "unknown"} : Settles(r, how)

(* Mutant: the timeout is heard, and the request is not destroyed. *)
TimesOutUnheard(r) == r \in using /\ UNCHANGED vars

(* "timeout": nothing moved on the socket for timeoutMs; the request is destroyed with that error. *)
TimesOut(r) ==
    /\ r \in using
    /\ Settles(r, "timeout")

(* "error" of the request: the connection was refused, reset or hung up, or TLS failed. *)
ConnectionFails(r) ==
    /\ r \in using
    /\ \E how \in {"unreachable", "unknown"} : Settles(r, how)

(* The peer closes in the middle of the response: "aborted" and "error" of the response, which have *)
(* no listener, no "end", and no "error" of the request.  The socket's timer goes with the socket.  *)
ResponseCut(r) ==
    /\ r \in headers
    /\ SocketCloses(r)
    /\ UNCHANGED promise

Next ==
    \E r \in Requests :
        Begin(r) \/ Responds(r) \/ ResponseEnds(r) \/ TimesOut(r) \/ ConnectionFails(r) \/ ResponseCut(r)

(* The socket timer fires unless the connection ends before. *)
Spec == Init /\ [][Next]_vars /\ \A r \in Requests : WF_vars(TimesOut(r))

-----------------------------------------------------------------------------
Waiting == {queue[i] : i \in 1..Len(queue)}

(* The agent never holds more sockets than its limit (http.ts:52, maxSockets), and leaves none unused *)
(* while a request waits: a request that fails gives its socket to the next.                          *)
SocketsAreShared ==
    /\ Cardinality(using) <= MaxSockets
    /\ queue # <<>> => Cardinality(using) = MaxSockets

(* A request has a socket or waits for one, and not both, only while its promise is pending. *)
SettledHoldsNothing ==
    /\ using \cup Waiting \subseteq {r \in Requests : promise[r] = "pending"}
    /\ using \cap Waiting = {}
    /\ \A i, j \in 1..Len(queue) : queue[i] = queue[j] => i = j

(* Every request gets a socket and gives it up, also when another one hangs or fails: no request of *)
(* a session can starve the others.                                                                 *)
SocketsCirculate == \A r \in Requests : (promise[r] = "pending") ~> (r \notin using \cup Waiting)

(* Every request settles: what withSession and open() rely on, a request being awaited with no other *)
(* limit ("Management API request timeout.", src/common/constants.ts:15).                            *)
RequestsSettle == \A r \in Requests : (promise[r] = "pending") ~> (promise[r] \in Settled)
=============================================================================
