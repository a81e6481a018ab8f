# A verification of the RabbitMQ extension for Freelens

TLA+ models of `freelens-rabbitmq-extension`, checked with TLC, with theorems checked by TLAPS.
`PROJECT.json` lists the components, the runs, which source lines each definition models, the
mutant each property is known to catch, the hazards of the code and the theorems.

## 1. The system

A Freelens extension has a **Main** half (Node, one thread) and a **renderer** half (React). The
renderer asks over IPC; Main reaches a RabbitMQ cluster through `kubectl port-forward` and the
Management API (HTTP).

```
renderer page --IPC--> RabbitmqIpcMain --> RabbitmqSessionManager --> kubectl port-forward (child)
   useResource            ipc.ts              session-manager.ts          port-forward.ts
   TargetCache            Write Mode gate     getOrOpen / withSession     http.ts --> broker
   WriteModeStore         discovery           open()                      management-client.ts
   selections, widths     replay              credentials, pod resolver
```

| Component | State | Operations | What is hard | What makes it correct |
|---|---|---|---|---|
| Session manager (`session-manager.ts`) | maps `sessions`, `pending`, `idleTimers`, `manualCredentials`; set `writeMode` | `withSession`, `getOrOpen`, `open`, `close*`, `set/clearManualCredentials`, `touch` | six awaits in `open()`, each of which may see new credentials, a disconnect or an abort; callers share an open; one retry | one session or open per target; sessions use the credentials in force; no kubectl is left behind; every request ends |
| Tunnel opener (`port-forward.ts`) | `running` set; per child: promise, ready timer, abort listener, stderr tail, waiters | open, `close`, `problem`, exit hook | six events race for one promise; the process may exit at any time | settles once; an abort or failure kills kubectl; a quit kills all |
| HTTP client (`http.ts`) | per request a promise; the agent's sockets | `request` | connections fail, stall, or close in mid-response | every request settles; sockets are never leaked |
| Mutating handlers, replay (`ipc.ts`, `replay.ts`) | Write Mode; the report of a replay | publish, purge, delete, replay | the retry of a write that was carried out; a gate that closes meanwhile; one publish of a batch failing | writes only when armed; a replay publishes a copy at most once; its report is true |
| Discovery, credentials, pod resolver | none (pure over Kubernetes reads) | `discoverRabbitmq`, `resolveCredentials`, `resolveManagementPod` | one broker has up to four objects that look like a target; the precedence of sources of a login | every broker once, with its own port and TLS, and never with another broker's login |
| Management client, normalisers | none | lists, peek | pages of a list that changes between them | bounded; what is missed or repeated is only what moved |
| Dead-letter planner (`common/dead-letter.ts`) | none | `parseDeath`, `planReplay` | RabbitMQ reorders the history at each death | the plan is where the message was first published |
| Client pods (`client-pods.ts`, `clients.ts`) | none | match, group, fingerprint | addresses are given to new pods; the page looks pods up under a hash of the addresses | a connection is attributed to the pod that holds it; rows and lookup are of one target |
| Resource hook (`hooks.ts`) | data, error, generation, cancelled loads | load, poll, reload, key change | answers in any order, polls that cancel | data belongs to its key, and never goes back |
| Target cache and selection | promises per cluster, a stored URL parameter | load, force, select | pages share loads; an older discovery ends later | the chosen target stays; a rediscovery is shown |
| Drawer selections (`hooks.ts`) | store, URL, the last link applied | open, close, deep links | four writers | the drawer is what was last asked for |
| Write Mode mirror | set of targets | toggle | Main and mirror disagree | a page shows armed only what Main has armed |
| Queue drawer and Message Inspector | batch, selection, replayed marks, busy | peek, select, replay, purge, delete | answers after the page went on; a dialog dismissed while its action runs | results are of the queue shown; no accidental duplicates |
| Health (`health.ts`, `health-page.tsx`) | a ref: since when each channel is full | load, analyse | the ref is written by cancelled loads too | stuck means seen full all along; one finding per cause |
| Credentials form | a call in flight | submit, clear | late answers to the login before | what is shown was answered with the login in force |
| Column widths | own widths per table, stored per kind | drag, reset | two tables of one kind | what was saved last is shown next time |
| Other pages, widgets, build scripts | rendering | - | - | not modelled |

Interactions: calls (IPC handlers to session manager to opener and client), shared state (the
manager's maps, `running`, the caches of the renderer), promises (several callers await one open or
one discovery), callbacks (child and socket events), effects (React runs them after the render),
timers (idle, ready, problem, HTTP inactivity, polls), signals (`AbortController` per open).

## 2. Modules

| Module | Models | Correspondence |
|---|---|---|
| `AbstractSessions` | what the manager promises to requests, with no maps, tunnels or timers | `live`, `inForce`, `phase` of requests |
| `SessionManager` | `session-manager.ts` | one variable per map; `stage[o]` is the await a run of `open()` is suspended at; a step is the code between two awaits that suspend, with the promise jobs that follow it |
| `TunnelContract` | what the manager relies on of a `TunnelOpener` | `state` of the promise, `up`, `stop` |
| `KubectlTunnel` | `port-forward.ts` | one action per event callback; `phase`, `timer`, `listening`, `running` are the closure's `settled`, the timeout, the listener and the module's set |
| `HttpClient` | `http.ts` | promise per request; `using` and `queue` are the agent's sockets and waiting requests (Node's agent is external) |
| `WriteRequests` | `ipc.ts` (mutating handlers), `replay.ts`, `withSession`'s retry | composed with `AbstractSessions`, whose steps it takes; the broker is external |
| `ReadRequests` | `ipc.ts` (reading handlers), the `Promise.all`s of `overview`, `queueDetail` and `exchangeDetail`, `withSession`'s retry | over `AbstractSessions` as `WriteRequests`; `out` are the requests in flight, `got` the answers `Promise.all` holds |
| `AbstractResource` | what a page may assume of `useResource` | `shown`, and the key whose answer may still come late |
| `UseResource` | `useResource` | `loads` are the promises in flight, `live` is `!cancelled`; an effect is an action of its own, as React runs it after the render |
| `Health`, `HealthPage` | `health.ts`; the page and its ref, over `UseResource` | `Answered` is the loader's continuation, which runs for cancelled loads too |
| `Discovery` | `discovery.ts`, `catalog-kube-reader.ts`, `credentials.ts`, `pod-resolver.ts` | one operator per function |
| `DeadLetter` | `common/dead-letter.ts`, `renderer/dead-letter.ts` | one operator per function, its loops recursive functions; how the broker writes a history is external (`Died`) |
| `Clients`, `ClientsView` | `client-pods.ts`, `clients.ts`; the two hooks of the Clients view | operators; two instances of `UseResource`, the second keyed by a fingerprint of what the first loaded. `AddressFingerprint` is the count and a hash (the constant `Hash`) of the concatenated addresses, as in the code, so that two address sets may share a key; `pAsked` and `pFound` are the addresses that the lookup in flight, and the one the page has, were really for |
| `ManagementApi` | the normalisers | operators |
| `PagedList` | `paginate`, `listConsumers` | one request per page, in order, of a list that may change before any of them; `page`, `listed` are the loop's variables, `seen` the broker's list at each request |
| `QueuePage` | `queue-detail.tsx`, `message-inspector.tsx` | `inspector` is the state hooks of the inspector, replaced when its React key changes |
| `TargetPage` | `target-selection.ts`, `useStoredPageParam`, `page-deps.ts` | `entry` is the cache's promise; `outcome` says how each discovery ended |
| `SelectionParam` | `SelectionStore`, `useSelectionParam` | `kept`, `value`, `link` are the store, the hook's state and the URL |
| `WriteModeMirror` | `write-mode-store.ts`, the toggle | Main's set and the mirror, with the calls between them |
| `ColumnWidths` | `resizable-columns.ts` | own widths per table on screen, stored widths per kind |
| `CredentialsPanel` | `connection-error.tsx`, the form, `credentialsSet/Clear` | an instance of `UseResource`, and Main as `AbstractSessions` promises |
| `Absent`, `Renderer` | `??` of JavaScript; the constants the renderer's modules share | |
| `SessionManagerProofs`, `KubectlTunnelProofs`, `UseResourceProofs`, `HttpClientProofs`, `WriteRequestsProofs`, `RendererProofs`, `AlgorithmProofs`, `ReadPathProofs` | - | theorems |
| `MCSessionManager`, `MCKubectlTunnel`, `MCHttpClient`, `MCWriteRequests`, `MCQueuePage` | - | instances for TLC |
| `MCClientsView` | - | the Clients view with three address sets and their hashes as the code computes them, two of them equal |
| `MCReadPath` | - | the Health page, as initial states without a step (`scene`) the inputs of the pure algorithms, a read handler, and the pages of a list |
| `MCRenderer` | - | seven parts of the renderer that share no state, explored one at a time |
| `MCSessionFindings` | - | two scenarios of `SessionManager` with a narrowed environment |

How they fit: `KubectlTunnel` implements `TunnelContract`, which are the steps `SessionManager`
gives to a tunnel; `SessionManager` implements `AbstractSessions`, which `WriteRequests` composes
with the handlers and the broker. `HttpClient` says what the fairness of `SessionManager` may
assume of requests. `UseResource` implements `AbstractResource`, on which `QueuePage` relies for the
data of its drawer; `HealthPage` extends it, `ClientsView` and `CredentialsPanel` instantiate it.

Each module that models code also defines a few operators commented "Mutant": variants with a
plausible bug, used by no specification. Replacing the definition they follow by the mutant breaks
the property `PROJECT.json` pairs it with.

## 3. Runs

| Run | Bounds | Shows |
|---|---|---|
| `sessions` | 1 target, 2 requests, 3 runs of `open()`, 2 credentials, symmetry of requests and opens | the safety of the manager and its refinement of `AbstractSessions`. One key is enough for the maps (keys do not interact except in `closeAll`, and the theorems cover any number); 3 opens are needed for one aborted, one in flight and one kubectl not yet dead |
| `session_liveness` | 1 target, 2 requests, 2 opens, 1 set of credentials | every request ends; an open that was aborted gives its kubectl up |
| `kubectl_tunnel` | 2 tunnels | the opener's safety, its contract, and that its promises settle. Two tunnels, for the exit hook and the shared `running` |
| `http_client` | 4 requests, 2 sockets | sockets are shared and circulate: two can be in use while two wait |
| `write_requests` | 1 target, 2 requests, a batch of 3 messages with one that is skipped | the gate, the retry and the replay. A write is sent at most twice and a message at most once, so counts are bounded by the code, not by the model |
| `read_path` | the page: 2 targets, `MaxLoads` 2, one channel, `StuckFor` 2. The algorithms: clusters of up to 2 brokers in every deployment, histories of up to 4 deaths in 2 queues for 2 reasons, up to 3 pods at 2 addresses, 2 nodes with 2 queues. A list: any sorted list of 7 items or of those with one or two missing, or of the first 0 to 4, in pages of 2 with `MaxItems` 5 or bare, any other such list before any page. A read: one target, two logins, up to 3 requests at once | the hook's promise; stuck channels; that each algorithm computes what is the case behind its input, and that a read is whole. Two loads: one cancelled and one live, a third is like either; the theorems cover any number. Of three pages, items come and go before, on and after the page that is read: an item that is missed, one listed twice, and a page out of range all occur |
| `renderer` | 2 targets, 2 queues, batches of up to 2 messages, `MaxPeeks` 2, 3 address sets of which two share a fingerprint, `MaxConnectionLoads` 1, `MaxPodLoads` 2, 3 discoveries, 2 links, 3 tables of 2 kinds with 2 columns, `MaxSets` 3, `MaxCalls` 1, `MaxPageLoads` 2; symmetry of brokers and queues | the eight properties of the renderer in section 4. The bounds let one answer be overtaken by another, and one late answer meet the next question |
| `shutdown_while_opening` | 1 target, violation | finding 1 |
| `stale_tunnel_twice` | violation | finding 2 |
| `response_cut_short` | violation | finding 3 |
| `retried_publish` | violation | finding 4 |
| `replay_on_other_broker` | 2 brokers, 1 queue name, violation | finding 5 |

The bounds that cap something unbounded are the `Max...` constants: loads, peeks and calls in flight
at once, the calls of the mirror, and the age of a channel (`StuckFor`, beyond which ages do not
differ). The identifiers of `Opens` and `Discoveries` are used again once nothing refers to them.
Deadlock is checked in `sessions`, `session_liveness`, `stale_tunnel_twice`, `renderer` and
`replay_on_other_broker`; the others do stop (the Main process exits, every request was answered, a shutdown that waits for
nothing is over, a scene has no step), and their configurations say so.

### Findings

1. `session-manager.ts:149`: an open aborted for new credentials is out of `pending`, so a
   `closeAll()` that comes before its rejection misses it, and it opens again after the shutdown
   (against the comment at line 167).
2. `session-manager.ts:125`: `close(session.key)` of a stale session hits the open another request
   has just started for the same reason; that request fails although it was to be reopened
   transparently (line 111).
3. `http.ts:86`: a connection cut in the middle of a response leaves the promise pending for ever;
   the timeout (constants.ts:15) is gone with the socket.
4. `session-manager.ts:127`: the retry also repeats writes that the broker had carried out.
5. `queue-detail.tsx:219`: the inspector's key names the queue and not the broker, and the drawer's
   data is kept while the next target's loads; when the page's target changes under an open drawer,
   messages peeked from one broker are replayed to the other (against the comment at line 218).

Smaller observations that no line contradicts are the notes of the hazards in `PROJECT.json`: an idle
timer armed by `touch()` after its session was closed counts against the next open
(session-manager.ts:242); a slow broker is never shown when answers take longer than the poll
(hooks.ts:54); the old report of a dismissed replay marks messages of a newer batch
(message-inspector.tsx:327); a frame that reloads leaves Main armed (write-mode-store.ts:26);
the two binding tables of an exchange overwrite each other's widths (resizable-columns.ts:120); an item
that moves to an earlier page while a list is read is missed, and the list is not marked as truncated
(management-client.ts:272).

One more disagrees with a comment but has no run of its own. The pods of the Clients view are looked up under
`addressFingerprint(addresses)` (`clients.ts:161-165`), a 32-bit hash of the addresses with nothing between
them. The addresses `10.0.0.1, 110.0.0.2` and `10.0.0.11, 10.0.0.2` have the fingerprint `2:1pyid1r` both;
when the clients change from the first two to the second two no lookup follows until the next poll, and
the new clients are matched with the pods of the old ones, against connections-page.tsx:430 ("resolve
when the address set changes, then once a minute"). With `INVARIANT LooksUpWhenAddressesChange` in
`renderer.cfg` TLC shows it.

## 4. What the properties of the read path and the renderer say

- `NeverBackwards`, `SettledShowsItsKey`, `ImplementsPromise`: what a page shows was loaded for its
  key once the hook has settled, was never overtaken by the answer to a later question, and stays
  until the page renders without a key.
- `StuckIsSeenFull`, `StuckIsReported`: a channel is called stuck only if every answer of that target
  has said so for the whole threshold, though cancelled loads and other targets write the same ref;
  and one that stays full is reported.
- `BrokersAreReachedOnce`: discovery, the credential hints, Secrets and the pod and port resolver,
  composed, reach each broker of a cluster exactly once, on a port that listens, with TLS where it has
  it. `LoginOf` says with which login: the broker's own where the password is in a Secret that is read
  or is the default; the broker's own name with the password "guest" where the password is in plain text
  (discovery.ts:209, credentials.ts:55: only a guess, to be corrected in the form); none where the user's name
  is in a Secret that is not read. It is never another broker's.
- `HistoriesAreDecoded`: from the headers RabbitMQ leaves after a sequence of deaths, the planner finds
  the first publication, and the filter shows the messages its counts count.
- `ClientsAreAttributed`, `AnswersAreWhole`, `StoppedNodesAreOneFinding`: the groups are of the pods
  that hold the connections, in any order of the list; what a read handler puts together was answered
  in its last run, over one session, while requests of the run before may still be in flight
  (`ReadsAreWhole`); a stopped node is one finding. `ListIsHonest`, of a list whose pages are read while
  the broker's list changes: unless it is marked as truncated, an item that was there all along is
  listed or moved up, to a page already read, because items before it went; an item is listed twice only if it
  moved down; a list that did not change is read from its start without a gap, up to the bound; and the
  bound is passed by less than a page. So a list that changes may miss an item and not be marked: of
  `1, 2, 3, 4` in pages of two, with `1` deleted between the pages, `1, 2, 4` is read with a total of 3.
- `BatchIsOfTheQueue`, `DuplicatesArePicked`, `BusyIsHonest`: the inspector and its drawer against
  answers that come after the user went on.
- `ClientsAreLookedUp`: once both hooks of the Clients view settled without an error, the rows are of
  the target chosen, and named by a lookup in its cluster for addresses of the same fingerprint as
  theirs. For exactly their addresses would be `LooksUpWhenAddressesChange`, which a collision of two fingerprints breaks
  (section 3, Findings).
- `ChoicesAreKept`: the chosen target stays on every page (`ChosenTargetStays`), the drawer is what was
  last asked for (`DrawerIsTheUsers`), the widths saved last are loaded next (`WidthsAreKept`).
- `RediscoveryIsShown`: after "Rediscover", no result of an older discovery is shown as settled.
- `MirrorIsArmed`: a page never shows Write Mode on where Main has it off, unless a call is in flight.
- `AnsweredWithItsLogin`: once the form's calls ended and nothing loads, the answer shown was given
  with the login in force.

## 5. Fairness

- `SessionManager`: weak fairness of each run of `open()` (its awaits end: the readiness of kubectl
  and `problem()` have timeouts, see `PromiseSettles` and `ProblemAnswered`) and of each running
  `fn`. The latter holds as far as HTTP requests settle, that is unless a response is cut short
  (finding 3). Calls, closes, credentials and timers get no fairness: users need not act.
- `KubectlTunnel`: timers fire while the Main process is up; Freelens answers when asked for kubectl
  and its environment (the code sets no timeout there, port-forward.ts:105).
- `HttpClient`: the socket's inactivity timer fires unless the connection ends before. Responses are
  taken to be finite.
- `WriteRequests`: `fn` goes on and every wait for a session ends, which is what `EveryCallEnds` of
  `SessionManager` establishes.
- `HealthPage`: time passes, the poll repeats, effects run and loads end (weak fairness). Besides,
  answers beat the next poll infinitely often (strong fairness): the code does not ensure this when
  answers take longer than a period of the poll, and then the page shows nothing.
- `MCRenderer` has safety properties only.

## 6. Proofs

For every number of targets, requests, opens, credentials, tunnels, keys, loads and sockets:

- `SessionManagerProofs`: `Inv` is inductive. The five safety properties alone are not: that no
  kubectl is orphaned, say, needs that `pending` holds exactly the runs in flight that were not
  aborted (`PendingIsInFlight`), that `sessions` holds exactly the runs that are opened
  (`SessionIsOpened`), and that an opened run was never aborted (`OpenedIsNotAborted`). The proof has
  one lemma for the effect of `close()` (`CloseStep`), one each for calls, the retry, the end of
  `fn`, the advance and the end of an open; `InvStep` combines them. `KeepsPromise` proves that each
  step is a step of `AbstractSessions` or a stutter: `PhaseFacts` and `MovesOf` relate the requests'
  phases, `SessionCredentialsAre` reads the abstract session off the maps, and `PromiseStep` goes
  through the actions.
- `KubectlTunnelProofs`: `Inv` is a conjunction of clauses about one tunnel each (`InvByTunnel`), so
  a callback needs one proof for its own tunnel (`OwnKept`) and one for the others (`OthersKept`).
  The quit needs `AliveIsListed`; the contract needs that only a promise that is starting has its
  timer armed. `KeepsContract` is the refinement of `TunnelContract`.
- `UseResourceProofs`: `ResourceInv` adds to the two properties that only the load started last is
  live, that nothing overtook it, and that it is of the key shown unless an effect is due
  (`LiveIsLast`): without it an answer could be of any key. `EndsKeeps` says what the answer of one
  load leaves of the others. `ResourceKeepsPromise` is the refinement of `AbstractResource`: renders
  and effects are its steps of the same name, an answer is a `Show`, a failure of the load that was
  still awaited a `Reload`, and answers to cancelled loads are stutters (`AnswerKeeps`).
- `HttpClientProofs`: `SocketsAreShared` and `SettledHoldsNothing` are inductive together, with types
  and the finiteness of `using`: a socket handed on keeps the count because the request it goes to
  had none, and the queue has no request twice.
- `WriteRequestsProofs`: `Inv` is `TypeOK` and, for each call on its own (`CallInv`), that a request
  in flight belongs to a call that is served (`InFlight`), that `fn` runs once for each session the
  call was given (`OncePerRun`), that what a delete deletes is gone after it (`DeletedOnce`), and that
  a replay works on the message after the last one it reported (`InOrder`). The properties alone are
  not inductive: `EffectsAreBounded` needs to know how many requests may still reach the broker, and
  `ReportIsTrue` which message the answer belongs to. A call's own steps are `ComesKeeps`, `FnKeeps`
  (with `EndKeeps` and `ReportKeeps`) and `BrokerKeeps`; the steps of other calls and of the session
  manager leave it alone (`OthersUntouched` with `UntouchedKeeps`, `ManagerTyped` with `KeptKeeps`).

- `RendererProofs`: the drawer and its inspector come first, on their own (`QueueSpec`). `QueueInv` adds to the
  three properties the types and that a peek in flight is of the queue the drawer shows
  (`PeeksAreOfTheQueue`): without it the next answer could be of any queue. `DuplicatesArePicked`
  holds because selection and marks are emptied together with the batch they refer to.
  `DrawerIsThePages` says that the run of the renderer takes only steps of `QueueSpec`,
  and `PartsAreApart` that a step belongs to one part of the renderer, so `PartsInv` has one conjunct
  per part. `RediscoveryInv` says why a rediscovery is shown: a page whose list is older than
  the last "Rediscover" waits or has failed, and what the cache holds or the page awaits is fresh.
  `MirrorInv` says that of the calls about a target that Main has
  carried out the last says what Main has, and that the mirror shows no more than that while none is unanswered. `ViewInv` carries `ResourceInv` for both hooks of the Clients
  view (the lemmas of `UseResourceProofs` through `INSTANCE`), with the second hook's key tied to the
  first one's data, and the addresses each lookup is for tied to its key (`LookupsAreOfTheirKeys`).
  `LookupsAreExact` adds that where no two address sets share a fingerprint, the lookup is of exactly
  the addresses shown: nothing but a collision breaks the comment. `LoginInv` ties each live load to a login that counts: Main
  answered with the one in force, or a call or a reload is still to come.
- `AlgorithmProofs`: the pure algorithms that loop over lists, for inputs of any size. The library's
  induction theorems cannot be cited with a predicate, so an induction is about a set: the set of the
  numbers up to `n` (or of the parts of a finite set) of which something holds has the first one and the
  next of each, and by the well-foundedness of `<` no least one is outside it (`RangeSet`, `PartSet`).
  From these follow that recursive functions are what their equations say (`RecursionExists`) and that
  a sum over a finite set may be taken in any order (`SumTakesOff`, `GroupsAddUp`).
  `HistoryIsDecoded`: of a message that died any number of times, in any queues and for any reasons, the
  planner finds the first publication and the filter the count. The invariant over the deaths is `Tells`: the
  broker keeps one entry for each queue and reason, the entry's count is the number of such deaths, and
  the entry of the first death keeps the exchange and the key it was published with, wherever in the
  history it has been moved (`RecordStep`). `FilterIsHonest`: for any batch, provided no death has a reason
  that is empty or `"none"`, which the filter means otherwise. `EveryConnectionIsAttributed`: for any connections and
  any list of pods with at most one live pod at an address (`HeldByPods`), whatever the order of the list
  and whatever pods had the address before (`PodsArePlaced`); the rows of the pods below a workload
  add up to its row (`RowsAddUp`).
- `ReadPathProofs`: `PathInv` is the page's invariant, the read handler's and the list's.
  The page takes only steps of the hook (`PageStepIsTheHooks`), so `UseResource`'s theorems hold under
  it; `AgesAreSeen` adds that the age in the ref is never more than the time since an answer of
  that target last said the channel was not full, whichever loads wrote it, which gives
  `StuckIsSeenFull`. `ReadsOn` is about a list of which there is more to read: an item that was there all
  along, is not listed and did not move up is past the pages read, in the list the last one was read
  from (`RestIsPast`); an item that is listed was before their end in one of the lists (`ListedIsBefore`); and
  of a list that did not change the first `page - 1` pages were read. The next page then finds the item, or
  leaves it behind it (`PageStep`, over `PageIsOf` and `SeenGrows`). `ReadGoesOn` that what `Promise.all` holds was answered in the
  run that is going on. `OneNodeOneFinding` is about `health.ts` alone and for any broker of finitely
  many nodes, queues and channels: the report holds exactly what was found (`ReportIsWhatWasFound`), a stopped
  node is one finding of it, and the queues it takes down add none (`QueueFindsNoMore`, `NodesAfter`).
  `EveryBrokerIsReached` is about brokers in any number, each under its own name, deployed in any of the
  ways of `Brokers`: their Kubernetes objects are those of the brokers one after the other (`FlattenIs`);
  every Service of a broker is taken for RabbitMQ, by the port that is looked for (`ClassifyIs`), those of the
  operator are folded into its resource and those of one broker share a group with no other's
  (`CandidatesFound`, `BestIs`); so there is one target for each (`DiscoveryFinds`), whose pod, port and
  login are its broker's (`PodIs`, `PortIs`, `LoginIs`). `BrokersStayReached`, `HistoriesStayDecoded` and
  `ClientsStayAttributed` carry this and the theorems of `AlgorithmProofs` to the scenes of the run.

Assumptions, all evaluated by the runs:

- `None` is a value of its own: it is no open, key, queue, confirmation, target, table, discovery, link, login
  or list of nodes, no number, name, address or entry of a dead letter or a client (`Named`, which also
  says that queues and reasons have names that are not empty, `SceneAssumption`), and
  none of a broker's Kubernetes objects, nor of what they hold (`Present`, which also says that no user name or
  password is empty). In the code it is `undefined` or `null`.
- Constants of the code: `MaxSockets`, `PageSize`, `MaxItems`, `StuckFor` are positive, and
  `0 <= MinWidth < Default <= MaxWidth`.
- Bounds of the model: `MaxLoads`, `MaxPeeks`, `MaxConnectionLoads`, `MaxPodLoads`, `MaxSets`,
  `MaxCalls`, `MaxPageLoads` are positive.
- Data: `Hint \in Creds`; batches are sequences, and the batch to replay is not empty; lists are sequences of items, none of them twice; what a broker
  reports is finite; each table is of a kind; every target takes one login and finds at most one.

Only model-checked:

- all liveness (`EveryCallEnds`, `ClosedOpenLosesKubectl`, `PromiseSettles`, `ProblemAnswered`,
  `SocketsCirculate`, `WritesEnd`, `StuckIsReported`), which rests on fairness and ENABLED;
- the findings, which are counterexamples.

## 7. Abstractions, and what is not modelled

- Time is not measured: a timer may fire in any state in which it is armed, and a channel's age is
  counted up to the threshold.
- The data of a target (service, port, TLS, credential hint) is one value in `SessionManager`, so an
  open shared by two callers with different copies of a target is not told apart.
- In `SessionManager` an `fn` is one await with four outcomes; its requests are `ReadRequests` and
  `WriteRequests`, where a list, page after page, is one request. How one request is carried over a
  socket is `HttpClient`.
- A process that dies without its exit hook (SIGKILL) is not modelled; the code does nothing there.
- `problem()` is called once per tunnel, as `open()` does; a stderr tail that is all white space is
  the only text that is told apart.
- One confirmed action of the queue drawer is in flight at a time; the search box and the tabs without
  state are left out. The seven parts of `MCRenderer` share no variable in the code either, except
  through `useResource` and Main, which each part takes by what they promise.
- `addressFingerprint`'s arithmetic is not modelled: `Hash` is any function of the concatenated addresses, and
  `MCClientsView` gives it the values the code computes.
- Quantities that are only compared (memory, disk, ages) are small numbers; ratios of `Health` are
  compared by cross multiplication. Normalisers that only rename fields (consumers, exchanges,
  bindings) are left out.
- Not modelled: the active cluster (one lookup), the messages of errors across IPC, the pages that are
  a hook and a table (Overview, Exchanges, Clusters), charts, formats, navigation, the error boundary,
  logging, progress events, and the build and smoke-test scripts. They keep no state that two steps
  could leave inconsistent.

## 8. Plan

Done: the session manager, the tunnel, the HTTP client and the writes with their runs; the resource
hook with its refinement; the renderer's state; the reads and the pages of a list; the pure algorithms;
the proofs of section 6, which cover every safety property and every refinement of the passing runs. Left:

1. that `QueuePage` reads its drawer as `AbstractResource` promises, as a refinement;
2. theorems about discovery beyond the brokers of `Brokers`: Services of other software beside them, and
   objects in several namespaces.
