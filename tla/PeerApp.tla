------------------------------ MODULE PeerApp ------------------------------
(***************************************************************************)
(* The Next and the Nuxt peer around the library: the boot of the process  *)
(* and its memoised services, the interval and the routes that call the    *)
(* propagator, and the page that an operator has open.                     *)
(*                                                                         *)
(* An operation of the propagator and a pass are those of module Source,   *)
(* cut down to one credential with one target: an operation leaves row     *)
(* pending, a pass that finds it so publishes what it has read and marks   *)
(* the row sent, whatever has become of it meanwhile.                      *)
(***************************************************************************)
EXTENDS Naturals, FiniteSets

CONSTANTS
    Frameworks,         \* subset of {"next", "nuxt"}
    MaxEdits,           \* bound on the changes of the tables
    MaxFaults,          \* bound on the faults
    Ticks,              \* callbacks of the interval that may be running
    Polls,              \* polls of the page that may be in flight
    Nothing             \* no data on the page

ASSUME PeerAppAssumption ==
    /\ MaxEdits \in Nat /\ MaxFaults \in Nat
    /\ Frameworks \subseteq {"next", "nuxt"}
    /\ "route" \notin Ticks
    /\ Nothing \notin Nat

Services == {"auth", "propagator"}

\* The two views of the page: the tables, and the list of the local clients.
\* That of the Redis of all peers is fetched as the second is.
Views == {"state", "clients"}

\* The service that a view's route asks for.
ServiceOf(view) == IF view = "state" THEN "propagator" ELSE "auth"

VARIABLES
    framework,          \* which of the two peers this is
    service,            \* service[s]: the memo of the accessor
    boot,               \* the boot hook
    timer,              \* the interval is set
    row,                \* the row of table 3 and the version of the credential
    tables, store,      \* versions of the tables and of the local clients
    published,          \* history: the versions that events have carried
    pass,               \* pass[p]: the pass that the route or a tick runs
    request,            \* the POST of the page; history: a tick crosses it
    page,               \* what the page shows, and whether it is busy
    flights,            \* the GETs of the page
    faults

server == <<service, boot, timer, pass>>
data == <<row, tables, store, published>>
client == <<page, flights>>
vars == <<framework, server, data, request, client, faults>>

IsNext == framework = "next"
IsNuxt == framework = "nuxt"

NoPass == [at |-> "idle", version |-> 0]

NoRequest == [at |-> "none", kind |-> "none", version |-> 0, crossed |-> FALSE]

Init ==
    /\ framework \in Frameworks
    /\ service = [s \in Services |-> [at |-> "none", builds |-> 0]]
    /\ boot = "asking" /\ timer = FALSE
    /\ row = [status |-> "none", version |-> 0]
    /\ tables = 0 /\ store = 0 /\ published = {}
    /\ pass = [p \in {"route"} \cup Ticks |-> NoPass]
    /\ request = NoRequest
    /\ page = [busy |-> FALSE, waits |-> {},
                 shown |-> [v \in Views |-> Nothing], told |-> 0]
    /\ flights = {}
    /\ faults = 0

Fault == faults < MaxFaults /\ faults' = faults + 1
-----------------------------------------------------------------------------
(***************************************************************************)
(* The process: memoised services, boot hook, interval                     *)
(***************************************************************************)

Building(s, x) == [s EXCEPT ![x] = [at |-> "building", builds |-> @.builds + 1]]

\* Faulty variant of Asked: the memo is only set when the build is done, as in
\* the accessor of docs/nextjs (against OneServiceEach).
AskedLate(s, x) ==
    IF s[x].at \in {"ready", "failed"} \/ s[x].builds > 2 THEN s ELSE Building(s, x)

\* The accessor: the first caller starts the build, whose promise all others
\* get, even when it has rejected.  The build of the propagator begins with
\* asking for the other service.
Asked(s, x) ==
    LET one(t, y) == IF t[y].at = "none" THEN Building(t, y) ELSE t
    IN  IF x = "propagator" /\ s[x].at = "none" THEN one(one(s, x), "auth")
        ELSE one(s, x)

\* instrumentation.ts and plugins/00.boot.ts.
Boot ==
    /\ boot = "asking"
    /\ service' = Asked(service, "propagator")
    /\ boot' = "waiting"
    /\ UNCHANGED <<framework, timer, pass, data, request, client, faults>>

\* A build is done.  That of the Next peer's propagator sets the interval.
Built(s) ==
    /\ service[s].at = "building"
    /\ s = "propagator" => service["auth"].at = "ready"
    /\ service' = [service EXCEPT ![s].at = "ready"]
    /\ timer' = (timer \/ (IsNext /\ s = "propagator"))
    /\ UNCHANGED <<framework, boot, pass, data, request, client, faults>>

\* A build throws: Redis or RabbitMQ is not there yet, or the other service's
\* build has thrown.
BuildThrows(s) ==
    /\ service[s].at = "building"
    /\ \/ Fault
       \/ s = "propagator" /\ service["auth"].at = "failed" /\ UNCHANGED faults
    /\ service' = [service EXCEPT ![s].at = "failed"]
    /\ UNCHANGED <<framework, boot, timer, pass, data, request, client>>

\* The boot hook goes on; the Nuxt plugin sets the interval.
Booted ==
    /\ boot = "waiting"
    /\ \/ /\ service["propagator"].at = "ready"
          /\ boot' = "done" /\ timer' = (timer \/ IsNuxt)
       \/ /\ service["propagator"].at = "failed"
          /\ boot' = "failed" /\ UNCHANGED timer
    /\ UNCHANGED <<framework, service, pass, data, request, client, faults>>

\* Next awaits register() before it serves; Nitro does not await its plugins.
Serving == IF IsNext THEN boot \in {"done", "failed"} ELSE boot # "asking"

\* The process restarts: what it was doing is lost, and the page's requests
\* fail.  The tables and Redis stay.
Restart ==
    /\ Fault
    /\ service' = [s \in Services |-> [at |-> "none", builds |-> 0]]
    /\ boot' = "asking" /\ timer' = FALSE
    /\ pass' = [p \in DOMAIN pass |-> NoPass]
    /\ request' = IF request.at \in {"none", "answered"} THEN request
                  ELSE [request EXCEPT !.at = "refused"]
    /\ flights' = {IF f.at = "sent" THEN [f EXCEPT !.at = "failed"] ELSE f :
                      f \in flights}
    /\ UNCHANGED <<framework, data, page>>
-----------------------------------------------------------------------------
(***************************************************************************)
(* The passes                                                              *)
(***************************************************************************)

\* Faulty variant of PassEnds: the route's answer is forgotten (against TypeOK).
PassEndsSilently(p, at) ==
    /\ pass' = [pass EXCEPT ![p] = NoPass]
    /\ UNCHANGED request

\* Pass p ends and the route that awaits it answers; what a tick throws is
\* caught and logged.
PassEnds(p, at) ==
    /\ pass' = [pass EXCEPT ![p] = NoPass]
    /\ request' = IF p = "route" THEN [request EXCEPT !.at = at] ELSE request

\* Faulty variant of Tick: the callback is not set again after a pass that
\* found nothing (against RetriedByTimer).
TickWhileFresh(p) ==
    /\ timer /\ p # "route" /\ pass[p].at = "idle" /\ row.status = "none"
    /\ pass' = [pass EXCEPT ![p].at = "fetching"]
    /\ UNCHANGED <<framework, service, boot, timer, data, request, client, faults>>

\* The interval fires, every 10 s, whatever is still running.
Tick(p) ==
    /\ timer /\ p # "route" /\ pass[p].at = "idle"
    /\ pass' = [pass EXCEPT ![p].at = "fetching"]
    /\ UNCHANGED <<framework, service, boot, timer, data, request, client, faults>>

PassFetches(p) ==
    /\ pass[p].at = "fetching"
    /\ IF row.status = "pending"
       THEN /\ pass' = [pass EXCEPT ![p] = [at |-> "publishing",
                                            version |-> row.version]]
            /\ UNCHANGED request
       ELSE PassEnds(p, "answered")
    /\ UNCHANGED <<framework, service, boot, timer, data, client, faults>>

\* The event is published and the row marked, which Source takes apart.
PassPublishes(p) ==
    /\ pass[p].at = "publishing"
    /\ published' = published \cup {pass[p].version}
    /\ row' = [row EXCEPT !.status = "sent"]
    /\ PassEnds(p, "answered")
    /\ UNCHANGED <<framework, service, boot, timer, tables, store, client, faults>>

\* A callback of the pass throws, or the publish of the event, which the pass
\* counts as retrying and survives.
PassFails(p) ==
    /\ pass[p].at # "idle" /\ Fault
    /\ PassEnds(p, IF pass[p].at = "fetching" THEN "refused" ELSE "retrying")
    /\ UNCHANGED <<framework, service, boot, timer, data, client>>

GoOnPass(p) == PassFetches(p) \/ PassPublishes(p)
-----------------------------------------------------------------------------
(***************************************************************************)
(* The routes                                                              *)
(***************************************************************************)

\* The POST arrives and its handler asks for the propagator.
Arrive ==
    /\ request.at = "sent" /\ Serving
    /\ service' = Asked(service, "propagator")
    /\ request' = [request EXCEPT !.at = "waiting"]
    /\ UNCHANGED <<framework, boot, timer, pass, data, client, faults>>

\* Faulty variant of WhileSyncing: sync() without the await (against
\* OwnMessageUnlessCrossed).
WhileFloating == "answered"

\* The handler awaits the pass before it answers.
WhileSyncing == "syncing"

\* A tick has read the row before this operation and has yet to mark it.
Crossed == \E t \in Ticks : pass[t].at = "publishing"

\* The handler has its service.  An operation ends with a pass; the edit of a
\* target answers at once.
Operate ==
    /\ request.at = "waiting"
    /\ service["propagator"].at = "ready"
    /\ CASE request.kind = "operation" ->
              /\ tables' = tables + 1 /\ store' = tables'
              /\ row' = [status |-> "pending", version |-> tables']
              /\ request' = [request EXCEPT !.at = WhileSyncing, !.version = tables',
                                          !.crossed = Crossed]
              /\ pass' = [pass EXCEPT !["route"].at = "fetching"]
         [] request.kind = "target" ->
              /\ tables' = tables + 1
              /\ request' = [request EXCEPT !.at = "answered", !.version = tables']
              /\ UNCHANGED <<row, store, pass>>
    /\ UNCHANGED <<framework, service, boot, timer, published, client, faults>>

\* The handler throws before it has done anything, HTTP 500.
Refuse ==
    /\ request.at = "waiting"
    /\ \/ Fault
       \/ /\ service["propagator"].at = "failed"
          /\ UNCHANGED faults
    /\ request' = [request EXCEPT !.at = "refused"]
    /\ UNCHANGED <<framework, server, data, client>>

\* The GET of a view: what the tables (the credentials, which it reads first)
\* or the clients are at this moment, or HTTP 500.
Read(f) ==
    LET at == service[ServiceOf(f.view)].at
    IN  /\ f.at = "sent" /\ Serving
        /\ \/ /\ at = "ready" /\ UNCHANGED faults
              /\ flights' = (flights \ {f}) \cup
                     {[f EXCEPT !.at = "answered",
                                !.version = IF f.view = "state" THEN tables ELSE store]}
           \/ /\ \/ at = "ready" /\ Fault
                 \/ at = "failed" /\ UNCHANGED faults
              /\ flights' = (flights \ {f}) \cup {[f EXCEPT !.at = "failed"]}
        /\ UNCHANGED <<framework, server, data, request, page>>
-----------------------------------------------------------------------------
(***************************************************************************)
(* The page                                                                *)
(***************************************************************************)

\* Faulty variant of Fetching: the older GETs go on (against
\* OperationStaysShown).
FetchingBeside(by, views) ==
    flights \cup {[by |-> by, view |-> v, at |-> "sent", version |-> 0] : v \in views}

\* GETs of the views for one refresh.  useFetch drops an older one of the same
\* data; fetch() does not.
Fetching(by, views) ==
    {f \in flights : IsNext \/ f.view \notin views}
    \cup {[by |-> by, view |-> v, at |-> "sent", version |-> 0] : v \in views}

\* The button, and the page's first load.
Refresh ==
    /\ ~ page.busy
    /\ ~ \E f \in flights : f.by = "click"
    /\ flights' = Fetching("click", Views)
    /\ UNCHANGED <<framework, server, data, request, page, faults>>

\* Every second, whatever is in flight.
Poll(n) ==
    /\ IsNuxt \/ ~ \E f \in flights : f.by = n
    /\ flights' = Fetching(n, {"clients"})
    /\ UNCHANGED <<framework, server, data, request, page, faults>>

\* A button that posts: an operation, or the edit of a target.
Submit(kind) ==
    /\ ~ page.busy /\ request.at = "none"
    /\ tables < MaxEdits
    /\ page' = [page EXCEPT !.busy = TRUE]
    /\ request' = [NoRequest EXCEPT !.at = "sent", !.kind = kind]
    /\ UNCHANGED <<framework, server, data, flights, faults>>

\* What is fetched after a POST: the Nuxt page only fetches the tables after
\* the edit of a target.
Refreshed(kind) == IF IsNuxt /\ kind = "target" THEN {"state"} ELSE Views

\* The answer is there: the page shows it and refreshes.
Answered ==
    /\ request.at \in {"answered", "retrying"}
    /\ LET views == Refreshed(request.kind)
       IN  /\ flights' = Fetching("route", views)
           /\ page' = [page EXCEPT
                 !.waits = views, !.told = request.version]
    /\ request' = NoRequest
    /\ UNCHANGED <<framework, server, data, faults>>

\* HTTP 500, or no answer: the handler of the page throws and does not refresh.
Refused ==
    /\ request.at = "refused"
    /\ page' = [page EXCEPT !.busy = FALSE]
    /\ request' = NoRequest
    /\ UNCHANGED <<framework, server, data, flights, faults>>

\* Next: the GETs of one refresh, or of one poll, are all there, and what they
\* have read is shown; or one of them has failed, and none is.
ShowTogether(by) ==
    LET batch == {f \in flights : f.by = by}
        fails == \E f \in batch : f.at = "failed"
    IN  /\ IsNext /\ batch # {}
        /\ fails \/ \A f \in batch : f.at = "answered"
        /\ flights' = flights \ batch
        /\ page' = [page EXCEPT
              !.shown = [v \in Views |->
                  IF fails \/ ~ \E f \in batch : f.view = v THEN @[v]
                  ELSE (CHOOSE f \in batch : f.view = v).version],
              !.busy = @ /\ by # "route",
              !.waits = IF by = "route" THEN {} ELSE @]
        /\ UNCHANGED <<framework, server, data, request, faults>>

\* Nuxt: a view is shown as soon as it is there, nothing when its GET failed.
\* The refresh after a POST ends when none of its views is being fetched any
\* more, be it for a later poll.
ShowAlone(view) ==
    /\ IsNuxt
    /\ \E f \in flights :
          LET rest == flights \ {f}
              over == page.waits # {} /\ ~ \E g \in rest : g.view \in page.waits
          IN  /\ f.view = view /\ f.at # "sent"
              /\ flights' = rest
              /\ page' = [page EXCEPT
                    !.shown[view] = IF f.at = "failed" THEN Nothing ELSE f.version,
                    !.busy = @ /\ ~ over,
                    !.waits = IF over THEN {} ELSE @]
    /\ UNCHANGED <<framework, server, data, request, faults>>
-----------------------------------------------------------------------------
Requesters == {"click", "route"} \cup Polls

ReadFor(by, view) == \E f \in flights : f.by = by /\ f.view = view /\ Read(f)

Process == Boot \/ Booted \/ \E s \in Services : Built(s) \/ BuildThrows(s)

Route == Arrive \/ Operate \/ Refuse

Page ==
    \/ Refresh
    \/ \E n \in Polls : Poll(n)
    \/ \E kind \in {"operation", "target"} : Submit(kind)
    \/ Answered \/ Refused
    \/ \E by \in Requesters : ShowTogether(by)
    \/ \E v \in Views : ShowAlone(v)

Next ==
    \/ Process \/ Restart
    \/ \E p \in DOMAIN pass : Tick(p) \/ GoOnPass(p) \/ PassFails(p)
    \/ Route \/ \E by \in Requesters, v \in Views : ReadFor(by, v)
    \/ Page

Spec == Init /\ [][Next]_vars

\* The process boots, the interval fires again and again, and a pass goes on.
FairSpec ==
    /\ Spec
    /\ WF_vars(Process)
    /\ \A p \in {"route"} \cup Ticks : WF_vars(Tick(p) \/ GoOnPass(p))
-----------------------------------------------------------------------------
Versions == 0..MaxEdits

\* Every variable keeps its shape, and the route's pass is awaited.
TypeOK ==
    /\ framework \in Frameworks
    /\ service \in [Services -> [at : {"none", "building", "ready", "failed"},
                                builds : Nat]]
    /\ boot \in {"asking", "waiting", "done", "failed"} /\ timer \in BOOLEAN
    /\ row \in [status : {"none", "pending", "sent"}, version : Versions]
    /\ {tables, store} \cup published \subseteq Versions
    /\ pass \in [{"route"} \cup Ticks ->
                    [at : {"idle", "fetching", "publishing"},
                     version : Versions]]
    /\ request \in [at : {"none", "sent", "waiting", "syncing", "answered",
                          "retrying", "refused"},
                    kind : {"none", "operation", "target"},
                    version : Versions, crossed : BOOLEAN]
    /\ page \in [busy : BOOLEAN, waits : SUBSET Views, told : Versions,
                 shown : [Views -> Versions \cup {Nothing}]]
    /\ flights \subseteq [by : Requesters, view : Views,
                          at : {"sent", "answered", "failed"}, version : Versions]
    /\ request.at = "none" <=> request.kind = "none"
    /\ request.at = "syncing" <=> pass["route"].at # "idle"
    /\ faults \in 0..MaxFaults

\* However many callers ask for it and whenever, a process builds each service
\* once: there is one propagator, with one consumer on the queue.
OneServiceEach == \A s \in Services : service[s].builds <= 1

\* On the Nuxt page an operation that was answered stays visible: no GET that
\* was sent before it is shown after it.
OperationStaysShown ==
    IsNuxt /\ ~ page.busy =>
        page.shown["state"] = Nothing \/ page.shown["state"] >= page.told

\* An operation that has committed is not lost when its own pass fails or the
\* process restarts: the interval comes back to it, unless the boot has failed.
RetriedByTimer ==
    row.status = "pending" ~> row.status = "sent" \/ service["propagator"].at = "failed"

\* What the routes and the page say: an operation publishes an event of its own
\* before it is answered (consumer-nuxt/server/api/ensure.post.ts:7).  It holds
\* unless a tick that has read the row before the operation marks it sent after
\* it: the operation's own pass then finds nothing to publish, and no other one
\* ever will.
OwnMessageUnlessCrossed ==
    request.at = "answered" /\ request.kind = "operation" /\ ~ request.crossed =>
        request.version \in published
-----------------------------------------------------------------------------
(***************************************************************************)
(* What the proofs of PeerAppProofs need to be inductive.                  *)
(***************************************************************************)

\* Who asks finds a memo, or is the first.
BuiltOnce ==
    \A s \in Services : service[s].builds = IF service[s].at = "none" THEN 0 ELSE 1

\* Until its own pass is over, whoever publishes does so for the operation, and
\* the row stays pending until someone has.
PassSeesIt ==
    request.at = "syncing" /\ ~ request.crossed =>
        /\ row.version = request.version
        /\ row.status = "pending" \/ request.version \in published
        /\ \A p \in DOMAIN pass :
              pass[p].at = "publishing" => pass[p].version = request.version

\* What the page was told is in the tables, and a change that is asked for
\* fits in.
ToldIsThere ==
    /\ request.version <= tables /\ page.told <= tables
    /\ request.at \in {"sent", "waiting"} => tables < MaxEdits

\* The page shows what it was told, or something later.
ShowsIt == page.shown["state"] = Nothing \/ page.shown["state"] >= page.told

\* Nuxt: no GET has read the tables before what the page was told, and a page
\* that is behind is busy with a GET of the tables.
NuxtCatchesUp ==
    IsNuxt =>
        /\ \A f \in flights :
              f.view = "state" /\ f.at = "answered" => f.version >= page.told
        /\ request.at # "none" => page.busy /\ page.waits = {} /\ ShowsIt
        /\ ~ page.busy => page.waits = {}
        /\ \/ ShowsIt
           \/ /\ page.busy /\ "state" \in page.waits
              /\ \E f \in flights : f.view = "state"

IInv ==
    /\ TypeOK
    /\ BuiltOnce
    /\ PassSeesIt
    /\ OwnMessageUnlessCrossed
    /\ ToldIsThere
    /\ NuxtCatchesUp
=============================================================================
