--------------------------- MODULE DriverPayload ---------------------------
(***************************************************************************)
(* GET /api/driver (ui/api.py), the payload cache behind it (db.py) and    *)
(* the browser's cache in front of it (ui/src/useDriverPayload.js), for    *)
(* one account and one page.                                               *)
(*                                                                         *)
(* A request that misses the server's cache is computed by a thread of its *)
(* own, which goes on when the browser aborts the request.  In the page,   *)
(* an invalidation starts a new generation; a request carries the          *)
(* generation of the render that started it.                               *)
(*                                                                         *)
(* Abstractions: a payload is the number of changes (laps, annotations,    *)
(* configuration) committed when it was computed; progress events are left *)
(* out; one component uses the hook at a time (the page shows one view).   *)
(***************************************************************************)
EXTENDS Integers, FiniteSets

CONSTANTS Requests,    \* requests the page may have open, aborted ones included
          NoPayload,   \* no payload, no request
          MaxChanges,  \* bound: changes committed
          MaxGen,      \* bound: invalidations of the page's cache
          Prompt       \* are a render's effects run before the next event?

ASSUME DriverPayloadAssumption ==
  /\ NoPayload \notin Requests /\ NoPayload \notin Nat
  /\ MaxChanges \in Nat /\ MaxGen \in Nat
  /\ Prompt \in BOOLEAN

VARIABLES changes,  \* changes committed to the store
          cache,    \* the driver_payload_cache row, or None
          syncing,  \* whether POST /api/sync is running
          server,   \* what the server does for each request
          client,   \* what the page knows of each request
          answer,   \* the payload of each request
          begun,    \* [gen: closure's generation, real: _cache.generation,
                    \*  changes: committed] when the request began
          page,     \* _cache: [gen, payload, error, promise]
          hook,     \* the mounted component: [mounted, gen, wanted, effect,
                    \*  ready, listens], see Mount
          shown     \* state.driver of the component

serverVars == <<changes, cache, syncing>>
requestVars == <<server, client, answer, begun>>
pageVars == <<page, hook, shown>>
payloadVars == <<serverVars, requestVars, pageVars>>

Versions == 0 .. MaxChanges

Unmounted == [mounted |-> FALSE, gen |-> 0, wanted |-> 0, effect |-> FALSE,
              ready |-> FALSE, listens |-> FALSE]
NoRequest == [gen |-> 0, real |-> 0, changes |-> 0]

PayloadInit ==
  /\ changes = 0
  /\ cache = NoPayload
  /\ syncing = FALSE
  /\ server = [r \in Requests |-> "none"]
  /\ client = [r \in Requests |-> "none"]
  /\ answer = [r \in Requests |-> NoPayload]
  /\ begun = [r \in Requests |-> NoRequest]
  /\ page = [gen |-> 0, payload |-> NoPayload, error |-> FALSE, promise |-> NoPayload]
  /\ hook = Unmounted
  /\ shown = NoPayload

-----------------------------------------------------------------------------
(* The store.                                                              *)

\* An upload, an annotation, a rebuilt map or a new configuration: the
\* server's cache is left alone.
Change ==
  /\ changes < MaxChanges
  /\ changes' = changes + 1
  /\ UNCHANGED <<cache, syncing, requestVars, pageVars>>

SyncStart ==
  /\ ~syncing
  /\ syncing' = TRUE
  /\ UNCHANGED <<changes, cache, requestVars, pageVars>>

\* A sync that ends well deletes the cached payload...
SyncEnd ==
  /\ syncing
  /\ syncing' = FALSE
  /\ cache' = NoPayload
  /\ UNCHANGED <<changes, requestVars, pageVars>>

\* ... and one that raises does not, whatever it has imported.
SyncFail ==
  /\ syncing
  /\ syncing' = FALSE
  /\ UNCHANGED <<changes, cache, requestVars, pageVars>>

-----------------------------------------------------------------------------
(* GET /api/driver                                                         *)

Lookup(r) ==
  /\ server[r] = "lookup"
  /\ server' = [server EXCEPT ![r] = IF cache = NoPayload THEN "build" ELSE "done"]
  /\ answer' = [answer EXCEPT ![r] = cache]
  /\ UNCHANGED <<serverVars, client, begun, pageVars>>

Build(r) ==
  /\ server[r] = "build"
  /\ server' = [server EXCEPT ![r] = "store"]
  /\ answer' = [answer EXCEPT ![r] = changes]
  /\ UNCHANGED <<serverVars, client, begun, pageVars>>

\* The thread saves the payload, whatever happened since it was computed.
Store(r) ==
  /\ server[r] = "store"
  /\ server' = [server EXCEPT ![r] = "done"]
  /\ cache' = answer[r]
  /\ UNCHANGED <<changes, syncing, client, answer, begun, pageVars>>

BuildFails(r) ==
  /\ server[r] \in {"build", "store"}
  /\ server' = [server EXCEPT ![r] = "error"]
  /\ UNCHANGED <<serverVars, client, answer, begun, pageVars>>

-----------------------------------------------------------------------------
(* useDriverPayload: requests.                                             *)

\* The terminal event reaches the page: `.then` or `.catch` is queued.
AnswerArrives(r) ==
  /\ client[r] = "open" /\ server[r] \in {"done", "error"}
  /\ client' = [client EXCEPT ![r] = IF server[r] = "done" THEN "arrived"
                                     ELSE "failed"]
  /\ UNCHANGED <<serverVars, server, answer, begun, pageVars>>

\* The connection is lost before the terminal event.
Drop(r) ==
  /\ client[r] = "open"
  /\ client' = [client EXCEPT ![r] = "failed"]
  /\ UNCHANGED <<serverVars, server, answer, begun, pageVars>>

\* Mutant of Delivers: the generation is not compared.
DeliversAny(r) == TRUE

\* Whether the promise of r may touch the page's cache.
Delivers(r) == begun[r].gen = page.gen

\* .then: a payload of another generation is dropped.
Resolve(r) ==
  /\ client[r] = "arrived"
  /\ client' = [client EXCEPT ![r] = "none"]
  /\ page' = IF Delivers(r)
             THEN [page EXCEPT !.payload = answer[r], !.promise = NoPayload]
             ELSE page
  /\ shown' = IF Delivers(r) /\ hook.listens THEN answer[r] ELSE shown
  /\ UNCHANGED <<serverVars, server, answer, begun, hook>>

\* Mutant of Reject: the promise of a failed request is kept.
RejectKeepsPromise(r) ==
  /\ client[r] = "failed"
  /\ client' = [client EXCEPT ![r] = "none"]
  /\ UNCHANGED <<serverVars, server, answer, begun, pageVars>>

\* .catch, other than AbortError.
Reject(r) ==
  /\ client[r] = "failed"
  /\ client' = [client EXCEPT ![r] = "none"]
  /\ page' = IF Delivers(r)
             THEN [page EXCEPT !.error = TRUE, !.promise = NoPayload]
             ELSE page
  /\ shown' = IF Delivers(r) /\ hook.listens THEN NoPayload ELSE shown
  /\ UNCHANGED <<serverVars, server, answer, begun, hook>>

\* The request and its thread are over.
Forget(r) ==
  /\ client[r] = "none" /\ server[r] \in {"done", "error"}
  /\ server' = [server EXCEPT ![r] = "none"]
  /\ answer' = [answer EXCEPT ![r] = NoPayload]
  /\ begun' = [begun EXCEPT ![r] = NoRequest]
  /\ UNCHANGED <<serverVars, client, pageVars>>

-----------------------------------------------------------------------------
(* useDriverPayload: the cache and the component.                          *)

Settled == ~hook.effect /\ hook.wanted = hook.gen

\* Mutant of Abort: the controller is forgotten, not aborted.
AbortNone == client

\* The request of the current controller is aborted if it is still open.
Abort ==
  [r \in Requests |-> IF r = page.promise /\ client[r] = "open" THEN "none"
                      ELSE client[r]]

\* invalidateDriverCache: after a sync, an upload or a 401.  The component
\* hears of it once its effects have run.
Invalidate ==
  /\ page.gen < MaxGen
  /\ Prompt => Settled
  /\ client' = Abort
  /\ page' = [gen |-> page.gen + 1, payload |-> NoPayload, error |-> FALSE,
              promise |-> NoPayload]
  /\ hook' = IF hook.ready THEN [hook EXCEPT !.wanted = page.gen + 1] ELSE hook
  /\ UNCHANGED <<serverVars, server, answer, begun, shown>>

\* First render: its state comes from the cache, its effects are to be run.
Mount ==
  /\ ~hook.mounted
  /\ hook' = [mounted |-> TRUE, gen |-> page.gen, wanted |-> page.gen,
              effect |-> TRUE, ready |-> FALSE, listens |-> FALSE]
  /\ shown' = page.payload
  /\ UNCHANGED <<serverVars, requestVars, page>>

\* The view changes: the listeners go, the request stays.
Unmount ==
  /\ hook.mounted
  /\ hook' = Unmounted
  /\ shown' = NoPayload
  /\ UNCHANGED <<serverVars, requestVars, page>>

\* setGeneration renders again, with the effects of that generation.
Render ==
  /\ hook.mounted /\ ~hook.effect /\ hook.wanted # hook.gen
  /\ hook' = [hook EXCEPT !.gen = hook.wanted, !.effect = TRUE]
  /\ UNCHANGED <<serverVars, requestVars, page, shown>>

\* The effects of a render: listen, catch up with the cache's generation,
\* show what the cache holds.
ShowCached ==
  /\ hook.effect
  /\ page.payload # NoPayload \/ page.error
  /\ hook' = [hook EXCEPT !.effect = FALSE, !.wanted = page.gen, !.ready = TRUE,
                          !.listens = FALSE]
  /\ shown' = page.payload
  /\ UNCHANGED <<serverVars, requestVars, page>>

\* Nothing cached, and a request is under way: wait for it.
AwaitRequest ==
  /\ hook.effect
  /\ page.payload = NoPayload /\ ~page.error /\ page.promise # NoPayload
  /\ hook' = [hook EXCEPT !.effect = FALSE, !.wanted = page.gen, !.ready = TRUE,
                          !.listens = TRUE]
  /\ UNCHANGED <<serverVars, requestVars, page, shown>>

\* Nothing cached and nothing under way: a request begins.
Request(r) ==
  /\ hook.effect
  /\ page.payload = NoPayload /\ ~page.error /\ page.promise = NoPayload
  /\ client[r] = "none" /\ server[r] = "none"
  /\ client' = [client EXCEPT ![r] = "open"]
  /\ server' = [server EXCEPT ![r] = "lookup"]
  /\ begun' = [begun EXCEPT ![r] = [gen |-> hook.gen, real |-> page.gen,
                                    changes |-> changes]]
  /\ page' = [page EXCEPT !.promise = r]
  /\ hook' = [hook EXCEPT !.effect = FALSE, !.wanted = page.gen, !.ready = TRUE,
                          !.listens = TRUE]
  /\ UNCHANGED <<serverVars, answer, shown>>

ServerStep(r) == Lookup(r) \/ Build(r) \/ Store(r)
ClientStep(r) == AnswerArrives(r) \/ Resolve(r) \/ Reject(r) \/ Forget(r)
PageStep ==
  Render \/ ShowCached \/ AwaitRequest \/ \E r \in Requests : Request(r)

PayloadNext ==
  \/ Change \/ SyncStart \/ SyncEnd \/ SyncFail
  \/ Invalidate \/ Mount \/ Unmount \/ PageStep
  \/ \E r \in Requests :
       ServerStep(r) \/ BuildFails(r) \/ ClientStep(r) \/ Drop(r)

\* The server's threads and the page's event loop keep running; nobody has to
\* open the page, change anything or lose a connection.
Fairness ==
  /\ \A r \in Requests : WF_payloadVars(ServerStep(r)) /\ WF_payloadVars(ClientStep(r))
  /\ WF_payloadVars(PageStep)

PayloadSpec == PayloadInit /\ [][PayloadNext]_payloadVars
FairPayloadSpec == PayloadSpec /\ Fairness

-----------------------------------------------------------------------------
(* Properties.                                                             *)

TypeOK ==
  /\ changes \in Versions
  /\ cache \in Versions \cup {NoPayload}
  /\ syncing \in BOOLEAN
  /\ server \in
       [Requests -> {"none", "lookup", "build", "store", "done", "error"}]
  /\ client \in [Requests -> {"none", "open", "arrived", "failed"}]
  /\ answer \in [Requests -> Versions \cup {NoPayload}]
  /\ begun \in [Requests -> [gen : 0 .. MaxGen, real : 0 .. MaxGen,
                             changes : Versions]]
  /\ page \in [gen : 0 .. MaxGen, payload : Versions \cup {NoPayload},
               error : BOOLEAN, promise : Requests \cup {NoPayload}]
  /\ hook \in [mounted : BOOLEAN, gen : 0 .. MaxGen, wanted : 0 .. MaxGen,
               effect : BOOLEAN, ready : BOOLEAN, listens : BOOLEAN]
  /\ shown \in Versions \cup {NoPayload}
  /\ page.error => page.payload = NoPayload
  /\ hook.effect \/ hook.ready => hook.mounted

\* A payload enters the page's cache only from a request that began after the
\* last invalidation (useDriverPayload.js:64): an answer that was already on
\* its way when the cache was invalidated is never taken for a new one.
ThisGenerationOnly ==
  [][\A r \in Requests :
       Resolve(r) /\ page' # page => begun[r].real = page.gen]_payloadVars

\* The page waits for one request at a time (docs/BUG-LOG.md:631-637: stacked
\* backend threads, cured by a module-level cache and an AbortController).
OneOpenRequest ==
  \A r, s \in Requests : client[r] = "open" /\ client[s] = "open" => r = s

\* "Streams the driver payload so the UI can show progress instead of hanging
\* on 'loading...'" (api.py:1118-1119): a page that is open and shows neither
\* payload nor error comes to show one or is left.
LoadingEnds ==
  hook.mounted /\ page.payload = NoPayload /\ ~page.error
    ~> page.payload # NoPayload \/ page.error \/ ~hook.mounted

\* "A fresh page load should always re-compute" (useDriverPayload.js:5-6);
\* "numbers shown are always current, never stale" (docs/SPEC.md:583): an
\* answer reflects all that was committed before its request began.
AnswerIsCurrent ==
  \A r \in Requests : client[r] = "arrived" => answer[r] >= begun[r].changes
=============================================================================
