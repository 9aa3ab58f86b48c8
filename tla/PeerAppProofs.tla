---------------------------- MODULE PeerAppProofs ----------------------------
(***************************************************************************)
(* Proofs about PeerApp, for every number of ticks, polls, changes and     *)
(* faults and for both peers: the type invariant, that a process builds    *)
(* each service once, that an operation publishes an event of its own      *)
(* unless a tick crosses it, and that the Nuxt page keeps showing it.      *)
(***************************************************************************)
EXTENDS PeerApp, TLAPS

\* The bounds are numbers.
LEMMA BoundsAreNumbers == 0 \in Versions /\ 0 \in 0..MaxFaults /\ Versions \subseteq Nat
  BY PeerAppAssumption DEF Versions

\* A fault is counted within its bound.
LEMMA FaultType ==
    ASSUME TypeOK, Fault
    PROVE  faults' \in 0..MaxFaults
  BY PeerAppAssumption DEF TypeOK, Fault

Memo == [at : {"none", "building", "ready", "failed"}, builds : Nat]

\* Asking for a service builds what nobody has asked for, and nothing else.
LEMMA AskedProperties ==
    ASSUME TypeOK, BuiltOnce, service' = Asked(service, "propagator")
    PROVE  service' \in [Services -> Memo] /\ BuiltOnce'
  <1> DEFINE one(t, y) == IF t[y].at = "none" THEN Building(t, y) ELSE t
  <1>1. service \in [Services -> Memo] /\ BuiltOnce
    BY DEF TypeOK, Memo
  <1>2. ASSUME NEW t \in [Services -> Memo], NEW y \in Services,
               \A s \in Services : t[s].builds = IF t[s].at = "none" THEN 0 ELSE 1
        PROVE  /\ one(t, y) \in [Services -> Memo]
               /\ \A s \in Services :
                     one(t, y)[s].builds = IF one(t, y)[s].at = "none" THEN 0 ELSE 1
    BY <1>2 DEF Building, Memo
  <1>3. /\ one(service, "propagator") \in [Services -> Memo]
        /\ \A s \in Services : one(service, "propagator")[s].builds =
              IF one(service, "propagator")[s].at = "none" THEN 0 ELSE 1
    BY <1>1, <1>2 DEF BuiltOnce, Services
  <1>4. /\ one(one(service, "propagator"), "auth") \in [Services -> Memo]
        /\ \A s \in Services : one(one(service, "propagator"), "auth")[s].builds =
              IF one(one(service, "propagator"), "auth")[s].at = "none" THEN 0 ELSE 1
    BY <1>2, <1>3 DEF Services
  <1>5. service' \in {one(service, "propagator"), one(one(service, "propagator"), "auth")}
    BY DEF Asked
  <1> HIDE DEF one
  <1> QED
    BY <1>3, <1>4, <1>5 DEF BuiltOnce
RequestRecord == [at : {"none", "sent", "waiting", "syncing", "answered",
                        "retrying", "refused"},
                  kind : {"none", "operation", "target"},
                  version : Versions, crossed : BOOLEAN]

PassRecord == [at : {"idle", "fetching", "publishing"}, version : Versions]

PageRecord == [busy : BOOLEAN, waits : SUBSET Views, told : Versions,
               shown : [Views -> Versions \cup {Nothing}]]

FlightRecord == [by : Requesters, view : Views,
                 at : {"sent", "answered", "failed"}, version : Versions]

RowRecord == [status : {"none", "pending", "sent"}, version : Versions]

\* The records of the POST, of the page, of its GETs, of the passes and of the
\* row, and the numbers in them.
LEMMA RecordTypes ==
    ASSUME TypeOK
    PROVE  /\ request \in RequestRecord /\ page \in PageRecord
           /\ flights \subseteq FlightRecord
           /\ pass \in [{"route"} \cup Ticks -> PassRecord]
           /\ row \in RowRecord
           /\ tables \in Versions /\ store \in Versions
           /\ tables \in Nat /\ MaxEdits \in Nat /\ row.version \in Nat
           /\ request.version \in Nat /\ page.told \in Nat
           /\ page.shown \in [Views -> Nat \cup {Nothing}]
           /\ \A f \in flights : f.version \in Nat
  <1>1. /\ request \in RequestRecord /\ page \in PageRecord
        /\ flights \subseteq FlightRecord
        /\ pass \in [{"route"} \cup Ticks -> PassRecord]
        /\ row \in RowRecord
        /\ tables \in Versions /\ store \in Versions
    BY DEF TypeOK, RequestRecord, PageRecord, FlightRecord, PassRecord, RowRecord
  <1>2. \A n \in Versions : n \in Nat
    BY BoundsAreNumbers
  <1>3. request.version \in Versions /\ page.told \in Versions
        /\ row.version \in Versions /\ \A f \in flights : f.version \in Versions
    BY <1>1 DEF RequestRecord, PageRecord, FlightRecord, RowRecord
  <1>4. page.shown \in [Views -> Versions \cup {Nothing}]
    BY <1>1 DEF PageRecord
  <1> QED
    BY <1>1, <1>2, <1>3, <1>4, PeerAppAssumption

\* The end of a pass: the pass is idle, and the POST that awaits it goes on.
LEMMA PassEndsProperties ==
    ASSUME TypeOK, NEW p \in DOMAIN pass,
           NEW at \in {"answered", "retrying", "refused"}, PassEnds(p, at)
    PROVE  /\ pass' \in [{"route"} \cup Ticks -> PassRecord]
           /\ pass'[p].at = "idle"
           /\ \A q \in DOMAIN pass : q # p => pass'[q] = pass[q]
           /\ DOMAIN pass' = DOMAIN pass /\ p \in {"route"} \cup Ticks
           /\ request' \in RequestRecord
           /\ request'.at = IF p = "route" THEN at ELSE request.at
           /\ request'.kind = request.kind
           /\ request'.version = request.version
           /\ request'.crossed = request.crossed
           /\ p = "route" /\ pass[p].at # "idle" => request.at = "syncing"
           /\ p # "route" => request' = request
  <1>1. /\ pass \in [{"route"} \cup Ticks -> PassRecord] /\ NoPass \in PassRecord
        /\ NoPass.at = "idle"
    BY RecordTypes, BoundsAreNumbers DEF PassRecord, NoPass
  <1>2. request \in RequestRecord
    BY RecordTypes
  <1>3. request' = IF p = "route" THEN [request EXCEPT !.at = at] ELSE request
    BY DEF PassEnds
  <1>4. pass' = [pass EXCEPT ![p] = NoPass]
    BY DEF PassEnds
  <1>5. /\ pass' \in [{"route"} \cup Ticks -> PassRecord]
        /\ pass'[p].at = "idle"
        /\ \A q \in DOMAIN pass : q # p => pass'[q] = pass[q]
        /\ DOMAIN pass' = DOMAIN pass /\ p \in {"route"} \cup Ticks
    BY <1>1, <1>4
  <1>6. /\ request' \in RequestRecord
        /\ request'.at = IF p = "route" THEN at ELSE request.at
        /\ request'.kind = request.kind
        /\ request'.version = request.version
        /\ request'.crossed = request.crossed
        /\ p # "route" => request' = request
    BY <1>2, <1>3 DEF RequestRecord
  <1>7. p = "route" /\ pass[p].at # "idle" => request.at = "syncing"
    BY DEF TypeOK
  <1> QED
    BY <1>5, <1>6, <1>7

\* The end of a pass is nothing that a Nuxt page sees yet.
LEMMA PassEndsOnPage ==
    ASSUME IInv, NEW p \in DOMAIN pass, pass[p].at # "idle",
           NEW at \in {"answered", "retrying", "refused"}, PassEnds(p, at),
           UNCHANGED <<framework, tables, client>>
    PROVE  ToldIsThere' /\ NuxtCatchesUp'
  <1>1. /\ request'.at = IF p = "route" THEN at ELSE request.at
        /\ request'.version = request.version
        /\ p = "route" => request.at = "syncing"
    BY PassEndsProperties DEF IInv
  <1>2. request'.at # "none" => request.at # "none"
    BY <1>1
  <1>3. request'.at \in {"sent", "waiting"} => request.at \in {"sent", "waiting"}
    BY <1>1
  <1> USE DEF client
  <1>4. ToldIsThere'
    BY <1>1, <1>3 DEF IInv, ToldIsThere
  <1>5. NuxtCatchesUp'
    BY <1>2 DEF IInv, NuxtCatchesUp, ShowsIt, IsNuxt
  <1> QED
    BY <1>4, <1>5
-----------------------------------------------------------------------------
\* Nothing is built, asked for or shown at first.
LEMMA InitInv == Init => IInv
  <1> SUFFICES ASSUME Init
               PROVE  IInv
    OBVIOUS
  <1> USE BoundsAreNumbers DEF Init, NoPass, NoRequest
  <1>1. TypeOK
    BY PeerAppAssumption DEF TypeOK, Services
  <1>2. BuiltOnce /\ PassSeesIt /\ OwnMessageUnlessCrossed /\ ToldIsThere
    BY PeerAppAssumption DEF BuiltOnce, PassSeesIt, OwnMessageUnlessCrossed, ToldIsThere
  <1>3. NuxtCatchesUp
    BY DEF NuxtCatchesUp, ShowsIt, Views
  <1> QED
    BY <1>1, <1>2, <1>3 DEF IInv
-----------------------------------------------------------------------------
(***************************************************************************)
(* The process                                                             *)
(***************************************************************************)

\* The boot hook asks for the propagator.
LEMMA BootInv ==
    ASSUME IInv, Boot
    PROVE  IInv'
  <1> USE DEF IInv, Boot, data, client
  <1>1. TypeOK'
    BY AskedProperties DEF TypeOK, Memo
  <1>2. BuiltOnce'
    BY AskedProperties
  <1>3. PassSeesIt'
    BY DEF PassSeesIt
  <1>4. OwnMessageUnlessCrossed'
    BY DEF OwnMessageUnlessCrossed
  <1>5. ToldIsThere'
    BY DEF ToldIsThere
  <1>6. NuxtCatchesUp'
    BY DEF NuxtCatchesUp, ShowsIt, IsNuxt
  <1> QED
    BY <1>1, <1>2, <1>3, <1>4, <1>5, <1>6

\* A build is done.
LEMMA BuiltInv ==
    ASSUME IInv, NEW s \in Services, Built(s)
    PROVE  IInv'
  <1> USE DEF IInv, Built, data, client
  <1>1. TypeOK'
    BY DEF TypeOK, Versions
  <1>2. BuiltOnce'
    BY DEF BuiltOnce
  <1>3. PassSeesIt'
    BY DEF PassSeesIt
  <1>4. OwnMessageUnlessCrossed'
    BY DEF OwnMessageUnlessCrossed
  <1>5. ToldIsThere'
    BY DEF ToldIsThere
  <1>6. NuxtCatchesUp'
    BY DEF NuxtCatchesUp, ShowsIt, IsNuxt
  <1> QED
    BY <1>1, <1>2, <1>3, <1>4, <1>5, <1>6

\* A build throws.
LEMMA BuildThrowsInv ==
    ASSUME IInv, NEW s \in Services, BuildThrows(s)
    PROVE  IInv'
  <1> USE DEF IInv, BuildThrows, data, client
  <1>1. TypeOK'
    BY FaultType DEF TypeOK, Versions, Services
  <1>2. BuiltOnce'
    BY DEF BuiltOnce
  <1>3. PassSeesIt'
    BY DEF PassSeesIt
  <1>4. OwnMessageUnlessCrossed'
    BY DEF OwnMessageUnlessCrossed
  <1>5. ToldIsThere'
    BY DEF ToldIsThere
  <1>6. NuxtCatchesUp'
    BY DEF NuxtCatchesUp, ShowsIt, IsNuxt
  <1> QED
    BY <1>1, <1>2, <1>3, <1>4, <1>5, <1>6

\* The boot hook goes on.
LEMMA BootedInv ==
    ASSUME IInv, Booted
    PROVE  IInv'
  <1> USE DEF IInv, Booted, data, client
  <1>1. TypeOK'
    BY DEF TypeOK, Versions
  <1>2. BuiltOnce'
    BY DEF BuiltOnce
  <1>3. PassSeesIt'
    BY DEF PassSeesIt
  <1>4. OwnMessageUnlessCrossed'
    BY DEF OwnMessageUnlessCrossed
  <1>5. ToldIsThere'
    BY DEF ToldIsThere
  <1>6. NuxtCatchesUp'
    BY DEF NuxtCatchesUp, ShowsIt, IsNuxt
  <1> QED
    BY <1>1, <1>2, <1>3, <1>4, <1>5, <1>6

\* The process restarts.
LEMMA RestartInv ==
    ASSUME IInv, Restart
    PROVE  IInv'
  <1> USE DEF IInv, data
  <1> DEFINE landed(f) == IF f.at = "sent" THEN [f EXCEPT !.at = "failed"] ELSE f
  <1>1. /\ Fault /\ service' = [s \in Services |-> [at |-> "none", builds |-> 0]]
        /\ boot' = "asking" /\ timer' = FALSE
        /\ pass' = [p \in DOMAIN pass |-> NoPass]
        /\ request' = IF request.at \in {"none", "answered"} THEN request
                      ELSE [request EXCEPT !.at = "refused"]
        /\ flights' = {landed(f) : f \in flights}
        /\ UNCHANGED <<framework, row, tables, store, published, page>>
    BY DEF Restart
  <1>2. /\ request \in RequestRecord /\ flights \subseteq FlightRecord
        /\ pass \in [{"route"} \cup Ticks -> PassRecord]
    BY RecordTypes
  <1>3. /\ request' \in RequestRecord
        /\ request'.at = IF request.at \in {"none", "answered"} THEN request.at
                         ELSE "refused"
        /\ request'.kind = request.kind /\ request'.version = request.version
        /\ request'.crossed = request.crossed
    BY <1>1, <1>2 DEF RequestRecord
  <1>4. \A f \in flights : /\ landed(f) \in FlightRecord
                           /\ landed(f).view = f.view
                           /\ landed(f).at = "answered" => landed(f) = f
    BY <1>2 DEF FlightRecord
  <1> HIDE DEF landed
  <1>5. flights' \subseteq FlightRecord
    BY <1>1, <1>4
  <1>6. /\ pass' \in [{"route"} \cup Ticks -> PassRecord]
        /\ \A p \in DOMAIN pass' : pass'[p].at = "idle"
    BY <1>1, <1>2, BoundsAreNumbers DEF PassRecord, NoPass
  <1>7. service' \in [Services -> Memo]
    BY <1>1 DEF Memo
  <1>8. TypeOK'
    BY <1>1, <1>3, <1>5, <1>6, <1>7, FaultType
       DEF TypeOK, Versions, RequestRecord, FlightRecord, PassRecord, Memo
  <1>9. BuiltOnce' /\ PassSeesIt' /\ OwnMessageUnlessCrossed'
    BY <1>1, <1>3 DEF BuiltOnce, PassSeesIt, OwnMessageUnlessCrossed
  <1>10. ToldIsThere'
    BY <1>1, <1>3 DEF ToldIsThere
  <1>11. NuxtCatchesUp'
    <2>1. \A g \in flights' : g.at = "answered" => g \in flights
      BY <1>1, <1>4
    <2>2. (\E f \in flights : f.view = "state") => \E g \in flights' : g.view = "state"
      BY <1>1, <1>4
    <2> QED
      BY <1>1, <1>3, <2>1, <2>2 DEF NuxtCatchesUp, ShowsIt, IsNuxt
  <1> QED
    BY <1>8, <1>9, <1>10, <1>11

-----------------------------------------------------------------------------
(***************************************************************************)
(* The passes                                                              *)
(***************************************************************************)

\* The interval fires.
LEMMA TickInv ==
    ASSUME IInv, NEW p \in DOMAIN pass, Tick(p)
    PROVE  IInv'
  <1> USE DEF IInv, Tick, data, client
  <1>1. TypeOK'
    BY DEF TypeOK, Versions
  <1>2. BuiltOnce'
    BY DEF BuiltOnce
  <1>3. PassSeesIt'
    BY DEF PassSeesIt
  <1>4. OwnMessageUnlessCrossed'
    BY DEF OwnMessageUnlessCrossed
  <1>5. ToldIsThere'
    BY DEF ToldIsThere
  <1>6. NuxtCatchesUp'
    BY DEF NuxtCatchesUp, ShowsIt, IsNuxt
  <1> QED
    BY <1>1, <1>2, <1>3, <1>4, <1>5, <1>6

\* A pass reads the row.
LEMMA PassFetchesInv ==
    ASSUME IInv, NEW p \in DOMAIN pass, PassFetches(p)
    PROVE  IInv'
  <1> USE DEF IInv, data, client
  <1>1. CASE row.status = "pending"
    <2>1. /\ pass' = [pass EXCEPT ![p] = [at |-> "publishing", version |-> row.version]]
          /\ pass[p].at = "fetching"
          /\ UNCHANGED <<request, framework, service, boot, timer, data, client, faults>>
      BY <1>1 DEF PassFetches
    <2>2. pass \in [{"route"} \cup Ticks -> PassRecord] /\ row \in RowRecord
      BY RecordTypes
    <2>3. /\ pass' \in [{"route"} \cup Ticks -> PassRecord]
          /\ DOMAIN pass' = DOMAIN pass
          /\ pass'[p] = [at |-> "publishing", version |-> row.version]
          /\ \A q \in DOMAIN pass : q # p => pass'[q] = pass[q]
      BY <2>1, <2>2 DEF PassRecord, RowRecord
    <2>4. TypeOK'
      BY <2>1, <2>3 DEF TypeOK, Versions, PassRecord
    <2>5. PassSeesIt'
      BY <2>1, <2>3 DEF PassSeesIt
    <2>6. BuiltOnce' /\ OwnMessageUnlessCrossed' /\ ToldIsThere' /\ NuxtCatchesUp'
      BY <2>1 DEF BuiltOnce, OwnMessageUnlessCrossed, ToldIsThere, NuxtCatchesUp,
                  ShowsIt, IsNuxt
    <2> QED
      BY <2>4, <2>5, <2>6
  <1>2. CASE row.status # "pending"
    <2>1. /\ pass[p].at = "fetching" /\ PassEnds(p, "answered")
          /\ UNCHANGED <<framework, service, boot, timer, data, client, faults>>
      BY <1>2 DEF PassFetches
    <2>2. /\ pass' \in [{"route"} \cup Ticks -> PassRecord]
          /\ pass'[p].at = "idle"
          /\ \A q \in DOMAIN pass : q # p => pass'[q] = pass[q]
          /\ DOMAIN pass' = DOMAIN pass /\ p \in {"route"} \cup Ticks
          /\ request' \in RequestRecord
          /\ request'.at = IF p = "route" THEN "answered" ELSE request.at
          /\ request'.kind = request.kind
          /\ request'.version = request.version
          /\ request'.crossed = request.crossed
          /\ p = "route" => request.at = "syncing"
          /\ p # "route" => request' = request
      BY <2>1, PassEndsProperties
    <2>3. TypeOK'
      BY <2>1, <2>2 DEF TypeOK, Versions, PassRecord, RequestRecord
    <2>4. PassSeesIt'
      BY <2>1, <2>2 DEF PassSeesIt
    <2>5. OwnMessageUnlessCrossed'
      BY <1>2, <2>1, <2>2 DEF PassSeesIt, OwnMessageUnlessCrossed
    <2>6. ToldIsThere' /\ NuxtCatchesUp'
      BY <2>1, PassEndsOnPage
    <2>7. BuiltOnce'
      BY <2>1 DEF BuiltOnce
    <2> QED
      BY <2>3, <2>4, <2>5, <2>6, <2>7
  <1> QED
    BY <1>1, <1>2

\* A pass publishes the event and marks the row.
LEMMA PassPublishesInv ==
    ASSUME IInv, NEW p \in DOMAIN pass, PassPublishes(p)
    PROVE  IInv'
  <1> USE DEF IInv, client
  <1> DEFINE at == "answered"
  <1>1. /\ pass[p].at = "publishing" /\ PassEnds(p, at)
        /\ published' = published \cup {pass[p].version}
        /\ row' = [row EXCEPT !.status = "sent"]
        /\ UNCHANGED <<framework, service, boot, timer, tables, store, client, faults>>
    BY DEF PassPublishes
  <1>2. /\ pass' \in [{"route"} \cup Ticks -> PassRecord]
        /\ pass'[p].at = "idle"
        /\ \A q \in DOMAIN pass : q # p => pass'[q] = pass[q]
        /\ DOMAIN pass' = DOMAIN pass /\ p \in {"route"} \cup Ticks
        /\ request' \in RequestRecord
        /\ request'.at = IF p = "route" THEN at ELSE request.at
        /\ request'.kind = request.kind
        /\ request'.version = request.version
        /\ request'.crossed = request.crossed
        /\ p = "route" => request.at = "syncing"
        /\ p # "route" => request' = request
    BY <1>1, PassEndsProperties
  <1>3. /\ row' \in RowRecord /\ row'.version = row.version
        /\ pass[p].version \in Versions
    BY <1>1, RecordTypes DEF RowRecord, PassRecord
  <1>4. TypeOK'
    BY <1>1, <1>2, <1>3 DEF TypeOK, Versions, PassRecord, RequestRecord, RowRecord
  <1>5. PassSeesIt'
    BY <1>1, <1>2, <1>3 DEF PassSeesIt
  <1>6. OwnMessageUnlessCrossed'
    BY <1>1, <1>2, <1>3 DEF PassSeesIt, OwnMessageUnlessCrossed
  <1>7. ToldIsThere' /\ NuxtCatchesUp'
    BY <1>1, PassEndsOnPage
  <1>8. BuiltOnce'
    BY <1>1 DEF BuiltOnce
  <1> QED
    BY <1>4, <1>5, <1>6, <1>7, <1>8

\* A callback of the pass throws, or its publish.
LEMMA PassFailsInv ==
    ASSUME IInv, NEW p \in DOMAIN pass, PassFails(p)
    PROVE  IInv'
  <1> USE DEF IInv, data, client
  <1> DEFINE at == IF pass[p].at = "fetching" THEN "refused" ELSE "retrying"
  <1>1. /\ pass[p].at # "idle" /\ PassEnds(p, at) /\ Fault
        /\ UNCHANGED <<framework, service, boot, timer, data, client>>
    BY DEF PassFails
  <1>2. /\ pass' \in [{"route"} \cup Ticks -> PassRecord]
        /\ pass'[p].at = "idle"
        /\ \A q \in DOMAIN pass : q # p => pass'[q] = pass[q]
        /\ DOMAIN pass' = DOMAIN pass /\ p \in {"route"} \cup Ticks
        /\ request' \in RequestRecord
        /\ request'.at = IF p = "route" THEN at ELSE request.at
        /\ request'.kind = request.kind
        /\ request'.version = request.version
        /\ request'.crossed = request.crossed
        /\ p = "route" => request.at = "syncing"
        /\ p # "route" => request' = request
    BY <1>1, PassEndsProperties
  <1>3. at \in {"refused", "retrying"}
    OBVIOUS
  <1> HIDE DEF at
  <1>4. TypeOK'
    <2>1. request'.at = "none" <=> request'.kind = "none"
      BY <1>2, <1>3 DEF TypeOK
    <2>2. request'.at = "syncing" <=> pass'["route"].at # "idle"
      BY <1>2, <1>3 DEF TypeOK
    <2>3. faults' \in 0..MaxFaults
      BY <1>1, FaultType
    <2> QED
      BY <1>1, <1>2, <2>1, <2>2, <2>3
         DEF TypeOK, Versions, PassRecord, RequestRecord
  <1>5. PassSeesIt'
    BY <1>1, <1>2, <1>3 DEF PassSeesIt
  <1>6. OwnMessageUnlessCrossed'
    BY <1>1, <1>2, <1>3 DEF OwnMessageUnlessCrossed
  <1>7. ToldIsThere' /\ NuxtCatchesUp'
    BY <1>1, <1>3, PassEndsOnPage
  <1>8. BuiltOnce'
    BY <1>1 DEF BuiltOnce
  <1> QED
    BY <1>4, <1>5, <1>6, <1>7, <1>8

-----------------------------------------------------------------------------
(***************************************************************************)
(* The routes                                                              *)
(***************************************************************************)

\* The POST arrives.
LEMMA ArriveInv ==
    ASSUME IInv, Arrive
    PROVE  IInv'
  <1> USE DEF IInv, Arrive, data, client
  <1>1. TypeOK'
    <2>1. service' \in [Services -> Memo]
      BY AskedProperties
    <2>2. request \in RequestRecord /\ request.kind # "none"
      BY RecordTypes DEF TypeOK
    <2>3. /\ request' \in RequestRecord /\ request'.at = "waiting"
          /\ request'.kind # "none"
      BY <2>2 DEF RequestRecord
    <2> QED
      BY <2>1, <2>3 DEF TypeOK, Versions, Memo, RequestRecord
  <1>2. BuiltOnce'
    BY AskedProperties
  <1>3. PassSeesIt'
    BY DEF PassSeesIt
  <1>4. OwnMessageUnlessCrossed'
    BY DEF OwnMessageUnlessCrossed
  <1>5. ToldIsThere'
    BY DEF ToldIsThere
  <1>6. NuxtCatchesUp'
    BY DEF NuxtCatchesUp, ShowsIt, IsNuxt
  <1> QED
    BY <1>1, <1>2, <1>3, <1>4, <1>5, <1>6

\* The operation, or the edit of a target.
LEMMA OperateInv ==
    ASSUME IInv, Operate
    PROVE  IInv'
  <1> USE DEF IInv, client
  <1>1. request.kind \in {"operation", "target"}
    BY RecordTypes DEF Operate, TypeOK, RequestRecord
  <1>2. /\ request.at = "waiting" /\ tables' = tables + 1
        /\ UNCHANGED <<framework, service, boot, timer, published, client, faults>>
    BY <1>1 DEF Operate
  <1>3. /\ request \in RequestRecord /\ tables \in Nat /\ MaxEdits \in Nat
        /\ tables < MaxEdits /\ page.told \in Nat
        /\ pass \in [{"route"} \cup Ticks -> PassRecord]
    BY <1>2, RecordTypes DEF ToldIsThere
  <1>4. tables' \in Versions /\ tables' \in Nat
    BY <1>2, <1>3 DEF Versions
  <1>5. \A f \in flights : f.version \in Nat
    BY RecordTypes
  <1>6. CASE request.kind = "operation"
    <2>1. /\ store' = tables' /\ row' = [status |-> "pending", version |-> tables']
          /\ request' = [request EXCEPT !.at = "syncing", !.version = tables',
                                        !.crossed = Crossed]
          /\ pass' = [pass EXCEPT !["route"].at = "fetching"]
      BY <1>6 DEF Operate, WhileSyncing
    <2>2. /\ request' \in RequestRecord /\ request'.at = "syncing"
          /\ request'.version = tables' /\ request'.crossed = Crossed
          /\ request'.kind = request.kind
      BY <1>3, <1>4, <2>1 DEF RequestRecord, Crossed
    <2>3. /\ pass' \in [{"route"} \cup Ticks -> PassRecord]
          /\ DOMAIN pass' = DOMAIN pass /\ DOMAIN pass = {"route"} \cup Ticks
          /\ pass'["route"].at = "fetching"
          /\ \A q \in Ticks : pass'[q] = pass[q]
      BY <1>3, <2>1, PeerAppAssumption DEF PassRecord
    <2>4. TypeOK'
      BY <1>2, <1>4, <2>1, <2>2, <2>3 DEF TypeOK, Versions, PassRecord, RequestRecord
    <2>5. PassSeesIt'
      BY <1>2, <2>1, <2>2, <2>3 DEF PassSeesIt, Crossed
    <2>6. OwnMessageUnlessCrossed' /\ BuiltOnce'
      BY <1>2, <2>2 DEF OwnMessageUnlessCrossed, BuiltOnce
    <2>7. ToldIsThere'
      BY <1>2, <1>3, <1>4, <2>2 DEF ToldIsThere
    <2>8. NuxtCatchesUp'
      BY <1>2, <2>2 DEF NuxtCatchesUp, ShowsIt, IsNuxt
    <2> QED
      BY <2>4, <2>5, <2>6, <2>7, <2>8
  <1>7. CASE request.kind = "target"
    <2>1. /\ UNCHANGED <<row, store, pass>>
          /\ request' = [request EXCEPT !.at = "answered", !.version = tables']
      BY <1>7 DEF Operate
    <2>2. /\ request' \in RequestRecord /\ request'.at = "answered"
          /\ request'.version = tables' /\ request'.kind = "target"
      BY <1>3, <1>4, <1>7, <2>1 DEF RequestRecord
    <2>3. TypeOK'
      BY <1>2, <1>4, <2>1, <2>2 DEF TypeOK, Versions, RequestRecord
    <2>4. PassSeesIt' /\ OwnMessageUnlessCrossed' /\ BuiltOnce'
      BY <1>2, <2>2 DEF PassSeesIt, OwnMessageUnlessCrossed, BuiltOnce
    <2>5. ToldIsThere'
      BY <1>2, <1>3, <1>4, <2>2 DEF ToldIsThere
    <2>6. NuxtCatchesUp'
      BY <1>2, <2>2 DEF NuxtCatchesUp, ShowsIt, IsNuxt
    <2> QED
      BY <2>3, <2>4, <2>5, <2>6
  <1> QED
    BY <1>6, <1>7, <1>1

\* The handler throws before it has done anything.
LEMMA RefuseInv ==
    ASSUME IInv, Refuse
    PROVE  IInv'
  <1> USE DEF IInv, Refuse, server, data, client
  <1>1. TypeOK'
    BY FaultType DEF TypeOK, Versions, Services
  <1>2. BuiltOnce'
    BY DEF BuiltOnce
  <1>3. PassSeesIt'
    BY DEF PassSeesIt
  <1>4. OwnMessageUnlessCrossed'
    BY DEF OwnMessageUnlessCrossed
  <1>5. ToldIsThere'
    BY DEF ToldIsThere
  <1>6. NuxtCatchesUp'
    BY DEF NuxtCatchesUp, ShowsIt, IsNuxt
  <1> QED
    BY <1>1, <1>2, <1>3, <1>4, <1>5, <1>6

\* The GET of a view reads.
LEMMA ReadInv ==
    ASSUME IInv, NEW f \in flights, Read(f)
    PROVE  IInv'
  <1> USE DEF IInv, server, data
  <1>1. PICK g : /\ f.at = "sent" /\ flights' = (flights \ {f}) \cup {g}
                 /\ \/ g = [f EXCEPT !.at = "answered",
                              !.version = IF f.view = "state" THEN tables ELSE store]
                    \/ g = [f EXCEPT !.at = "failed"]
                 /\ UNCHANGED <<framework, server, data, request, page>>
                 /\ UNCHANGED faults \/ Fault
    BY DEF Read
  <1>2. /\ f \in FlightRecord /\ flights \subseteq FlightRecord
        /\ tables \in Versions /\ store \in Versions
        /\ tables \in Nat /\ page.told \in Nat
    BY RecordTypes
  <1>3. /\ g \in FlightRecord /\ g.view = f.view
        /\ g.view = "state" /\ g.at = "answered" => g.version = tables
    BY <1>1, <1>2 DEF FlightRecord
  <1>4. TypeOK'
    <2>1. flights' \subseteq FlightRecord
      BY <1>1, <1>2, <1>3
    <2>2. faults' \in 0..MaxFaults
      BY <1>1, FaultType DEF TypeOK
    <2> QED
      BY <1>1, <2>1, <2>2 DEF TypeOK, Versions, FlightRecord
  <1>5. BuiltOnce' /\ PassSeesIt' /\ OwnMessageUnlessCrossed' /\ ToldIsThere'
    BY <1>1 DEF BuiltOnce, PassSeesIt, OwnMessageUnlessCrossed, ToldIsThere
  <1>6. NuxtCatchesUp'
    <2>1. ASSUME NEW h \in flights', h.view = "state", h.at = "answered", IsNuxt
          PROVE  h.version >= page.told
      BY <1>1, <1>2, <1>3, <2>1 DEF NuxtCatchesUp, ToldIsThere
    <2>2. (\E h \in flights : h.view = "state") => \E h \in flights' : h.view = "state"
      BY <1>1, <1>3
    <2> QED
      BY <1>1, <2>1, <2>2 DEF NuxtCatchesUp, ShowsIt, IsNuxt
  <1> QED
    BY <1>4, <1>5, <1>6

-----------------------------------------------------------------------------
(***************************************************************************)
(* The page                                                                *)
(***************************************************************************)

\* The button, and the first load.
LEMMA RefreshInv ==
    ASSUME IInv, Refresh
    PROVE  IInv'
  <1> USE DEF IInv, Refresh, server, data
  <1>1. TypeOK'
    BY BoundsAreNumbers DEF TypeOK, Fetching, Requesters
  <1>2. BuiltOnce'
    BY BoundsAreNumbers DEF BuiltOnce
  <1>3. PassSeesIt'
    BY BoundsAreNumbers DEF PassSeesIt
  <1>4. OwnMessageUnlessCrossed'
    BY BoundsAreNumbers DEF OwnMessageUnlessCrossed
  <1>5. ToldIsThere'
    BY BoundsAreNumbers DEF ToldIsThere
  <1>6. NuxtCatchesUp'
    BY DEF NuxtCatchesUp, ShowsIt, IsNuxt, IsNext, Fetching, Views
  <1> QED
    BY <1>1, <1>2, <1>3, <1>4, <1>5, <1>6

\* A poll.
LEMMA PollInv ==
    ASSUME IInv, NEW n \in Polls, Poll(n)
    PROVE  IInv'
  <1> USE DEF IInv, Poll, server, data
  <1>1. TypeOK'
    BY BoundsAreNumbers DEF TypeOK, Fetching, Requesters, Views
  <1>2. BuiltOnce'
    BY DEF BuiltOnce
  <1>3. PassSeesIt'
    BY DEF PassSeesIt
  <1>4. OwnMessageUnlessCrossed'
    BY DEF OwnMessageUnlessCrossed
  <1>5. ToldIsThere'
    BY DEF ToldIsThere
  <1>6. NuxtCatchesUp'
    BY DEF NuxtCatchesUp, ShowsIt, IsNuxt, IsNext, Fetching, Views
  <1> QED
    BY <1>1, <1>2, <1>3, <1>4, <1>5, <1>6

\* A button that posts.
LEMMA SubmitInv ==
    ASSUME IInv, NEW kind \in {"operation", "target"}, Submit(kind)
    PROVE  IInv'
  <1> USE DEF IInv, Submit, NoRequest, server, data
  <1>1. TypeOK'
    BY BoundsAreNumbers DEF TypeOK, Versions
  <1>2. BuiltOnce'
    BY BoundsAreNumbers DEF BuiltOnce
  <1>3. PassSeesIt'
    BY BoundsAreNumbers DEF PassSeesIt
  <1>4. OwnMessageUnlessCrossed'
    BY BoundsAreNumbers DEF OwnMessageUnlessCrossed
  <1>5. ToldIsThere'
    BY RecordTypes DEF ToldIsThere
  <1>6. NuxtCatchesUp'
    BY BoundsAreNumbers DEF NuxtCatchesUp, ShowsIt, IsNuxt
  <1> QED
    BY <1>1, <1>2, <1>3, <1>4, <1>5, <1>6

\* The page has its answer and refreshes.
LEMMA AnsweredInv ==
    ASSUME IInv, Answered
    PROVE  IInv'
  <1> USE DEF IInv, server, data
  <1> DEFINE views == Refreshed(request.kind)
  <1>1. /\ request.at \in {"answered", "retrying"} /\ request' = NoRequest
        /\ flights' = Fetching("route", views)
        /\ page' = [page EXCEPT !.waits = views, !.told = request.version]
        /\ UNCHANGED <<framework, server, data, faults>>
    BY DEF Answered
  <1>2. /\ request \in RequestRecord /\ page \in PageRecord
        /\ flights \subseteq FlightRecord /\ request.version \in Nat /\ tables \in Nat
    BY RecordTypes
  <1>3. views \subseteq Views /\ "state" \in views
    BY DEF Refreshed, Views
  <1> HIDE DEF views
  <1>4. /\ page' \in PageRecord /\ page'.told = request.version
        /\ page'.waits = views /\ page'.busy = page.busy /\ page'.shown = page.shown
    BY <1>1, <1>2, <1>3 DEF PageRecord, RequestRecord
  <1>5. NoRequest \in RequestRecord /\ NoRequest.version = 0 /\ NoRequest.at = "none"
        /\ NoRequest.kind = "none"
    BY BoundsAreNumbers DEF NoRequest, RequestRecord
  <1>6. flights' \subseteq FlightRecord
    BY <1>1, <1>2, <1>3, BoundsAreNumbers DEF Fetching, FlightRecord, Requesters
  <1>7. TypeOK'
    BY <1>1, <1>4, <1>5, <1>6 DEF TypeOK, Versions, RequestRecord, PageRecord, FlightRecord
  <1>8. BuiltOnce' /\ PassSeesIt' /\ OwnMessageUnlessCrossed'
    BY <1>1, <1>5 DEF BuiltOnce, PassSeesIt, OwnMessageUnlessCrossed
  <1>9. ToldIsThere'
    BY <1>1, <1>2, <1>4, <1>5 DEF ToldIsThere
  <1>10. NuxtCatchesUp'
    <2> SUFFICES ASSUME IsNuxt
                 PROVE  NuxtCatchesUp'
      BY <1>1 DEF NuxtCatchesUp, IsNuxt
    <2>1. ~ IsNext
      BY DEF IsNext, IsNuxt
    <2>2. \A f \in flights' : f.view = "state" => f.at = "sent"
      BY <1>1, <1>3, <2>1 DEF Fetching
    <2>3. \E f \in flights' : f.view = "state"
      <3> DEFINE g == [by |-> "route", view |-> "state", at |-> "sent", version |-> 0]
      <3>1. g \in flights'
        BY <1>1, <1>3 DEF Fetching
      <3>2. g.view = "state"
        OBVIOUS
      <3> QED
        BY <3>1, <3>2
    <2>4. page.busy
      BY <1>1 DEF NuxtCatchesUp
    <2> QED
      BY <1>1, <1>3, <1>4, <1>5, <2>2, <2>3, <2>4 DEF NuxtCatchesUp
  <1> QED
    BY <1>7, <1>8, <1>9, <1>10

\* The POST has failed.
LEMMA RefusedInv ==
    ASSUME IInv, Refused
    PROVE  IInv'
  <1> USE DEF IInv, Refused, NoRequest, server, data
  <1>1. TypeOK'
    BY BoundsAreNumbers DEF TypeOK, Versions
  <1>2. BuiltOnce'
    BY BoundsAreNumbers DEF BuiltOnce
  <1>3. PassSeesIt'
    BY BoundsAreNumbers DEF PassSeesIt
  <1>4. OwnMessageUnlessCrossed'
    BY BoundsAreNumbers DEF OwnMessageUnlessCrossed
  <1>5. ToldIsThere'
    BY RecordTypes DEF ToldIsThere
  <1>6. NuxtCatchesUp'
    BY BoundsAreNumbers DEF NuxtCatchesUp, ShowsIt, IsNuxt
  <1> QED
    BY <1>1, <1>2, <1>3, <1>4, <1>5, <1>6

\* Next: the GETs of one refresh are shown together.
LEMMA ShowTogetherInv ==
    ASSUME IInv, NEW by \in Requesters, ShowTogether(by)
    PROVE  IInv'
  <1> USE DEF IInv, server, data
  <1> DEFINE batch == {f \in flights : f.by = by}
             fails == \E f \in batch : f.at = "failed"
             Shown(v) == IF fails \/ ~ \E f \in batch : f.view = v THEN page.shown[v]
                         ELSE (CHOOSE f \in batch : f.view = v).version
  <1>1. /\ IsNext /\ flights' = flights \ batch
        /\ page' = [page EXCEPT !.shown = [v \in Views |-> Shown(v)],
                                !.busy = page.busy /\ by # "route",
                                !.waits = IF by = "route" THEN {} ELSE page.waits]
        /\ UNCHANGED <<framework, server, data, request, faults>>
    BY DEF ShowTogether
  <1>2. page \in PageRecord /\ flights \subseteq FlightRecord
    BY RecordTypes
  <1>3. ASSUME NEW v \in Views
        PROVE  Shown(v) \in Versions \cup {Nothing}
    <2>1. CASE fails \/ ~ \E f \in batch : f.view = v
      BY <1>2, <2>1 DEF PageRecord
    <2>2. CASE ~ fails /\ \E f \in batch : f.view = v
      <3>1. (CHOOSE f \in batch : f.view = v) \in FlightRecord
        BY <1>2, <2>2
      <3> QED
        BY <2>2, <3>1 DEF FlightRecord
    <2> QED
      BY <2>1, <2>2
  <1> HIDE DEF Shown
  <1>4. page' \in PageRecord /\ page'.told = page.told
    BY <1>1, <1>2, <1>3 DEF PageRecord
  <1>5. flights' \subseteq FlightRecord
    BY <1>1, <1>2
  <1>6. TypeOK'
    BY <1>1, <1>4, <1>5 DEF TypeOK, Versions, PageRecord, FlightRecord
  <1>7. BuiltOnce' /\ PassSeesIt' /\ OwnMessageUnlessCrossed' /\ ToldIsThere'
    BY <1>1, <1>4 DEF BuiltOnce, PassSeesIt, OwnMessageUnlessCrossed, ToldIsThere
  <1>8. NuxtCatchesUp'
    BY <1>1 DEF NuxtCatchesUp, IsNuxt, IsNext
  <1> QED
    BY <1>6, <1>7, <1>8

\* Nuxt: a view is shown as soon as it is there.
LEMMA ShowAloneInv ==
    ASSUME IInv, NEW v \in Views, ShowAlone(v)
    PROVE  IInv'
  <1> USE DEF IInv, server, data
  <1>1. PICK f \in flights :
           LET over == page.waits # {} /\ ~ \E g \in flights \ {f} : g.view \in page.waits
           IN  /\ f.view = v /\ f.at # "sent" /\ flights' = flights \ {f}
               /\ page' = [page EXCEPT
                     !.shown[v] = IF f.at = "failed" THEN Nothing ELSE f.version,
                     !.busy = page.busy /\ ~ over,
                     !.waits = IF over THEN {} ELSE page.waits]
    BY DEF ShowAlone
  <1> DEFINE over == page.waits # {} /\ ~ \E g \in flights \ {f} : g.view \in page.waits
             show == IF f.at = "failed" THEN Nothing ELSE f.version
  <1>2. IsNuxt /\ UNCHANGED <<framework, server, data, request, faults>>
    BY DEF ShowAlone
  <1>3. /\ page \in PageRecord /\ f \in FlightRecord /\ flights \subseteq FlightRecord
        /\ page.told \in Nat
    BY RecordTypes
  <1>4. show \in Versions \cup {Nothing}
    BY <1>3 DEF FlightRecord
  <1>5. over \in BOOLEAN
    OBVIOUS
  <1>6. /\ f.view = v /\ f.at # "sent" /\ flights' = flights \ {f}
        /\ page' = [page EXCEPT !.shown[v] = show, !.busy = page.busy /\ ~ over,
                                !.waits = IF over THEN {} ELSE page.waits]
    BY <1>1
  <1>7. v = "state" => show = Nothing \/ show >= page.told
    BY <1>2, <1>3, <1>6 DEF NuxtCatchesUp, FlightRecord
  <1>8. over => page.waits # {} /\ ~ \E g \in flights' : g.view \in page.waits
    BY <1>6
  <1>9. ~ over => page.waits = {} \/ \E g \in flights' : g.view \in page.waits
    BY <1>6
  <1> HIDE DEF over, show
  <1>10. /\ page' \in PageRecord /\ page'.told = page.told
         /\ page'.busy = (page.busy /\ ~ over)
         /\ page'.waits = IF over THEN {} ELSE page.waits
         /\ page'.shown["state"] = IF v = "state" THEN show ELSE page.shown["state"]
    BY <1>3, <1>4, <1>5, <1>6 DEF PageRecord, Views
  <1>11. flights' \subseteq FlightRecord
    BY <1>3, <1>6
  <1>12. TypeOK'
    BY <1>2, <1>10, <1>11 DEF TypeOK, Versions, PageRecord, FlightRecord
  <1>13. BuiltOnce' /\ PassSeesIt' /\ OwnMessageUnlessCrossed' /\ ToldIsThere'
    BY <1>2, <1>10 DEF BuiltOnce, PassSeesIt, OwnMessageUnlessCrossed, ToldIsThere
  <1>14. NuxtCatchesUp'
    <2>1. \A g \in flights' : g.view = "state" /\ g.at = "answered" =>
                                 g.version >= page'.told
      BY <1>2, <1>6, <1>10 DEF NuxtCatchesUp
    <2>2. ShowsIt => ShowsIt'
      BY <1>7, <1>10 DEF ShowsIt
    <2>3. v = "state" => ShowsIt'
      BY <1>7, <1>10 DEF ShowsIt
    <2>4. request'.at # "none" => page'.busy /\ page'.waits = {} /\ ShowsIt'
      BY <1>2, <1>8, <1>10, <2>2 DEF NuxtCatchesUp
    <2>5. ~ page'.busy => page'.waits = {}
      BY <1>2, <1>10 DEF NuxtCatchesUp
    <2>6. ASSUME ~ ShowsIt'
          PROVE  /\ page'.busy /\ "state" \in page'.waits
                 /\ \E g \in flights' : g.view = "state"
      <3>1. /\ v # "state" /\ page.busy /\ "state" \in page.waits
            /\ \E g \in flights : g.view = "state"
        BY <1>2, <2>2, <2>3, <2>6 DEF NuxtCatchesUp
      <3>2. \E g \in flights' : g.view = "state"
        BY <1>6, <3>1
      <3>3. ~ over
        BY <1>8, <3>1, <3>2
      <3> QED
        BY <1>10, <3>1, <3>2, <3>3
    <2> QED
      BY <1>2, <2>1, <2>4, <2>5, <2>6 DEF NuxtCatchesUp, IsNuxt
  <1> QED
    BY <1>12, <1>13, <1>14

\* A step that leaves the variables alone leaves the invariant alone.
LEMMA StutterInv == IInv /\ UNCHANGED vars => IInv'
  BY DEF IInv, TypeOK, Versions, BuiltOnce, PassSeesIt, OwnMessageUnlessCrossed,
         ToldIsThere, NuxtCatchesUp, ShowsIt, IsNuxt, vars, server, data, client
-----------------------------------------------------------------------------
\* The invariant holds at every moment, of the accessors, the boot, the
\* routes and the page of both peers.
THEOREM PeerAppInvariant == Spec => []IInv
  <1>1. IInv /\ [Next]_vars => IInv'
    <2> SUFFICES ASSUME IInv, [Next]_vars
                 PROVE  IInv'
      OBVIOUS
    <2>1. CASE Process
      BY <2>1, BootInv, BootedInv, BuiltInv, BuildThrowsInv DEF Process
    <2>2. CASE Restart
      BY <2>2, RestartInv
    <2>3. ASSUME NEW p \in DOMAIN pass, Tick(p) \/ GoOnPass(p) \/ PassFails(p)
          PROVE  IInv'
      BY <2>3, TickInv, PassFetchesInv, PassPublishesInv, PassFailsInv DEF GoOnPass
    <2>4. CASE Route
      BY <2>4, ArriveInv, OperateInv, RefuseInv DEF Route
    <2>5. ASSUME NEW by \in Requesters, NEW v \in Views, ReadFor(by, v)
          PROVE  IInv'
      BY <2>5, ReadInv DEF ReadFor
    <2>6. CASE Page
      BY <2>6, RefreshInv, PollInv, SubmitInv, AnsweredInv, RefusedInv,
         ShowTogetherInv, ShowAloneInv DEF Page
    <2>7. CASE UNCHANGED vars
      BY <2>7, StutterInv
    <2> QED
      BY <2>1, <2>2, <2>3, <2>4, <2>5, <2>6, <2>7 DEF Next
  <1> QED
    BY InitInv, <1>1, PTL DEF Spec

\* Every variable keeps its shape, and the route's pass is awaited.
THEOREM PeerAppTypeCorrect == Spec => []TypeOK
  <1>1. IInv => TypeOK
    BY DEF IInv
  <1> QED
    BY PeerAppInvariant, <1>1, PTL

\* However many callers ask for a service and whenever, a process builds it at
\* most once.
THEOREM ServicesAreSingle == Spec => []OneServiceEach
  <1>1. IInv => OneServiceEach
    BY DEF IInv, BuiltOnce, OneServiceEach
  <1> QED
    BY PeerAppInvariant, <1>1, PTL

\* On the Nuxt page no GET from before an answered operation is shown after it.
THEOREM NuxtKeepsShowing == Spec => []OperationStaysShown
  <1>1. IInv => OperationStaysShown
    BY DEF IInv, NuxtCatchesUp, ShowsIt, OperationStaysShown
  <1> QED
    BY PeerAppInvariant, <1>1, PTL

\* An operation has published an event of its own when it is answered, unless a
\* tick crossed it, however many ticks there are.
THEOREM AnswersAfterPublish == Spec => []OwnMessageUnlessCrossed
  <1>1. IInv => OwnMessageUnlessCrossed
    BY DEF IInv
  <1> QED
    BY PeerAppInvariant, <1>1, PTL
=============================================================================
