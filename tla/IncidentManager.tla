--------------------------- MODULE IncidentManager ---------------------------
(***************************************************************************)
(* internal/incidents: the incident manager, with the bbolt bucket it      *)
(* persists incidents to (internal/storage) and the restart path that      *)
(* reads them back (NewManager and Rehydrate, called by runtime.New).      *)
(*                                                                         *)
(* The manager's map is guarded by one mutex, so each method is one action *)
(* up to its Unlock.  The event it builds is sent after the Unlock: until  *)
(* then it sits in pending[g], g being the goroutine that made the call.   *)
(*                                                                         *)
(* Go maps are partial functions: the DOMAIN is the set of keys.           *)
(***************************************************************************)
EXTENDS Integers, Sequences, FiniteSets, Functions

CONSTANTS
    Checks,         \* check names: the keys of m.active
    Callers,        \* goroutines that call SetStatus (the repair engine's)
    Loop,           \* the goroutine executing Manager.Run
    MaxId,          \* bound: identifiers are 1..MaxId
    FailureCap,     \* bound: failure counts above it are not told apart
    EventCap,       \* capacity of the incident event channel (256 in the agent)
    MayStop,        \* FALSE: instances in which the agent is not asked to stop
    MayClose,       \* FALSE: instances in which the database stays open
    MaxRestarts,    \* bound: number of process restarts
    StoreMayFail,   \* TRUE: the database may refuse an operation while open
    ClockStepsBack  \* TRUE: the wall clock may be set back across a restart

ASSUME ManagerConstants ==
    /\ IsFiniteSet(Checks) /\ MaxId \in Nat /\ FailureCap \in Nat \ {0}
    /\ EventCap \in Nat \ {0} /\ MaxRestarts \in Nat
    /\ MayStop \in BOOLEAN /\ MayClose \in BOOLEAN /\ StoreMayFail \in BOOLEAN
    /\ ClockStepsBack \in BOOLEAN
    /\ Loop \notin Callers

VARIABLES
    active,     \* m.active: check name -> incident
    idCounter,  \* m.idCounter, initialised from the clock by NewManager
    store,      \* the incidents bucket: identifier -> persisted incident
    events,     \* the incidentEvents channel
    pending,    \* goroutine -> event built under the lock, not yet sent
    gauge,      \* the uptimy_incidents_active gauge
    ctx,        \* "live" until the agent's context is canceled
    loop,       \* "running" until Manager.Run returns
    disk,       \* "open" until Shutdown closes the database
    restarts,   \* number of restarts so far
    unsaved     \* history: identifiers whose last change is not on disk

managerVars == <<active, idCounter, store, events, pending, gauge,
                 ctx, loop, disk, restarts, unsaved>>

-----------------------------------------------------------------------------
Ids == 1..MaxId
Goroutines == Callers \cup {Loop}

Statuses == {"open", "repairing", "verifying", "resolved", "failed"}
\* What a caller of SetStatus asks for.  The repair engine never asks for
\* "resolved"; the method has a case for it, so the component is checked with it.
SettableStatuses == {"repairing", "verifying", "failed", "resolved"}
EventTypes == {"opened", "updated", "repairing", "resolved", "failed"}

Incident == [id : Ids, status : Statuses, failures : 1..FailureCap]
StoredIncident == [check : Checks, status : Statuses, failures : 1..FailureCap]
Event == [type : EventTypes, check : Checks]

\* m[k] = v on a Go map.
Put(m, k, v) == [x \in DOMAIN m \cup {k} |-> IF x = k THEN v ELSE m[x]]
\* make(map[...]...)
EmptyMap == [x \in {} |-> x]
\* delete(m, k) on a Go map.
Delete(m, k) == Restrict(m, DOMAIN m \ {k})

CountOf(n) == IF n < FailureCap THEN n + 1 ELSE FailureCap

TypeOK ==
    /\ DOMAIN active \subseteq Checks /\ active \in [DOMAIN active -> Incident]
    /\ idCounter \in 0..MaxId
    /\ DOMAIN store \subseteq Ids /\ store \in [DOMAIN store -> StoredIncident]
    /\ events \in Seq(Event) /\ Len(events) <= EventCap
    /\ DOMAIN pending \subseteq Goroutines /\ pending \in [DOMAIN pending -> Event]
    /\ gauge \in Int
    /\ ctx \in {"live", "done"} /\ loop \in {"running", "returned"}
    /\ disk \in {"open", "closed"}
    /\ restarts \in 0..MaxRestarts
    /\ unsaved \subseteq Ids

-----------------------------------------------------------------------------
(* Persistence *)

\* The results SaveIncident may have now.
SaveOutcomes ==
    IF disk = "closed" THEN {FALSE} ELSE IF StoreMayFail THEN BOOLEAN ELSE {TRUE}

StoredForm(c, inc) == [check |-> c, status |-> inc.status, failures |-> inc.failures]

\* The caller logs a failed save and carries on.
persistIncident(c, inc, saved) ==
    /\ saved \in SaveOutcomes
    /\ store' = IF saved THEN Put(store, inc.id, StoredForm(c, inc)) ELSE store
    /\ unsaved' = IF saved THEN unsaved \ {inc.id} ELSE unsaved \cup {inc.id}

-----------------------------------------------------------------------------
(* Operations under m.mu.  g, the calling goroutine, must have sent the event *)
(* of its previous call.                                                      *)

Raise(g, type, c) == pending' = Put(pending, g, [type |-> type, check |-> c])

lifecycle == <<events, ctx, loop, disk, restarts>>

resolveIncidentLocked(g, c) ==
    /\ \E saved \in BOOLEAN :
         persistIncident(c, [active[c] EXCEPT !.status = "resolved"], saved)
    /\ gauge' = gauge - 1
    /\ active' = Delete(active, c)
    /\ Raise(g, "resolved", c)
    /\ UNCHANGED idCounter

LoopReady == loop = "running" /\ Loop \notin DOMAIN pending

\* processResult, the three cases of a result for check c that change anything.
ResultHealthy(c) ==
    /\ LoopReady
    /\ c \in DOMAIN active
    /\ active[c].status # "resolved"
    /\ resolveIncidentLocked(Loop, c)
    /\ UNCHANGED lifecycle

ResultFailedAgain(c) ==
    /\ LoopReady
    /\ c \in DOMAIN active
    /\ LET inc == [active[c] EXCEPT !.failures = CountOf(@)] IN
         /\ active' = [active EXCEPT ![c] = inc]
         /\ \E saved \in BOOLEAN : persistIncident(c, inc, saved)
    /\ Raise(Loop, "updated", c)
    /\ UNCHANGED <<idCounter, gauge, lifecycle>>

createIncident == [id |-> idCounter + 1, status |-> "open", failures |-> 1]

ResultFailedFirst(c) ==
    /\ LoopReady
    /\ c \notin DOMAIN active
    /\ idCounter < MaxId
    /\ idCounter' = idCounter + 1
    /\ active' = Put(active, c, createIncident)
    /\ \E saved \in BOOLEAN : persistIncident(c, createIncident, saved)
    /\ gauge' = gauge + 1
    /\ Raise(Loop, "opened", c)
    /\ UNCHANGED lifecycle

processResult(c) == ResultHealthy(c) \/ ResultFailedAgain(c) \/ ResultFailedFirst(c)

EventOf(s) == CASE s = "repairing" -> "repairing"
                [] s = "failed"    -> "failed"
                [] OTHER           -> "updated"

\* The no-op branch: no active incident has this check name.
SetStatusUnknown(c) == c \notin DOMAIN active /\ UNCHANGED managerVars

\* Mutant: the status is changed in memory only.
SetStatusNotPersisted(g, c, s) ==
    /\ c \in DOMAIN active
    /\ active' = [active EXCEPT ![c].status = s]
    /\ Raise(g, EventOf(s), c)
    /\ UNCHANGED <<idCounter, gauge, store, unsaved, lifecycle>>

\* A status other than resolved is assigned, saved and announced; resolved is
\* saved twice, and the record on disk is up to date if either save succeeds.
SetStatusKnown(g, c, s) ==
    /\ c \in DOMAIN active
    /\ IF s = "resolved"
         THEN resolveIncidentLocked(g, c)
         ELSE LET inc == [active[c] EXCEPT !.status = s] IN
                /\ active' = [active EXCEPT ![c] = inc]
                /\ \E saved \in BOOLEAN : persistIncident(c, inc, saved)
                /\ Raise(g, EventOf(s), c)
                /\ UNCHANGED <<idCounter, gauge>>
    /\ UNCHANGED lifecycle

SetStatus(g, c, s) ==
    /\ g \notin DOMAIN pending
    /\ SetStatusUnknown(c) \/ SetStatusKnown(g, c, s)

GetActive(c) == active[c]

\* Mutant: one event more than the channel holds.
EmitOneTooMany(g) ==
    /\ g \in DOMAIN pending
    /\ events' = IF Len(events) <= EventCap THEN Append(events, pending[g]) ELSE events
    /\ pending' = Delete(pending, g)
    /\ UNCHANGED <<active, idCounter, store, gauge, ctx, loop, disk, restarts, unsaved>>

\* emit, after the unlock: a full channel drops the event.
emit(g) ==
    /\ g \in DOMAIN pending
    /\ events' = IF Len(events) < EventCap THEN Append(events, pending[g]) ELSE events
    /\ pending' = Delete(pending, g)
    /\ UNCHANGED <<active, idCounter, store, gauge, ctx, loop, disk, restarts, unsaved>>

-----------------------------------------------------------------------------
(* The environment: the channel's reader, shutdown and restart. *)

TakeEvent ==
    /\ events # << >>
    /\ events' = Tail(events)
    /\ UNCHANGED <<active, idCounter, store, pending, gauge,
                   ctx, loop, disk, restarts, unsaved>>

Cancel ==
    /\ MayStop /\ ctx = "live"
    /\ ctx' = "done"
    /\ UNCHANGED <<active, idCounter, store, events, pending, gauge,
                   loop, disk, restarts, unsaved>>

\* The select in Run may serve results for a while after the cancellation.
RunReturns ==
    /\ ctx = "done" /\ LoopReady
    /\ loop' = "returned"
    /\ UNCHANGED <<active, idCounter, store, events, pending, gauge,
                   ctx, disk, restarts, unsaved>>

\* Shutdown waits for the cancellation, not for the goroutines to return.
CloseStore ==
    /\ MayClose /\ ctx = "done" /\ disk = "open"
    /\ disk' = "closed"
    /\ UNCHANGED <<active, idCounter, store, events, pending, gauge,
                   ctx, loop, restarts, unsaved>>

\* Mutant: resolved incidents are not skipped.
AllStored(c) == {i \in DOMAIN store : store[i].check = c}

\* ListIncidents: what Rehydrate finds for check c, in key order.
Unresolved(c) == {i \in DOMAIN store : store[i].check = c /\ store[i].status # "resolved"}

\* The loop of Rehydrate assigns in key order: the last identifier stays.
Rehydrated(c, i) == i \in Unresolved(c) /\ \A j \in Unresolved(c) : j <= i

\* Mutant: the failures are counted from one again.
LoadedIncidentRecounted(i) == [id |-> i, status |-> store[i].status, failures |-> 1]

LoadedIncident(i) == [id |-> i, status |-> store[i].status, failures |-> store[i].failures]

Rehydrate ==
    \E newest \in [{c \in Checks : Unresolved(c) # {}} -> DOMAIN store] :
       /\ \A c \in DOMAIN newest : Rehydrated(c, newest[c])
       /\ active' = [c \in DOMAIN newest |-> LoadedIncident(newest[c])]
       /\ unsaved' = unsaved \ {newest[c] : c \in DOMAIN newest}

\* runtime.New logs a failed Rehydrate and starts with no active incident.
RehydrateFails ==
    /\ StoreMayFail
    /\ active' = EmptyMap
    /\ unsaved' = unsaved \cup {i \in DOMAIN store : store[i].status # "resolved"}

\* The counter restarts at the wall clock, which has not fallen behind the
\* identifiers handed out unless it was set back.
NewManager ==
    /\ idCounter' \in (IF ClockStepsBack THEN 0 ELSE idCounter)..MaxId
    /\ events' = << >>
    /\ pending' = EmptyMap
    /\ gauge' = 0
    /\ ctx' = "live" /\ loop' = "running" /\ disk' = "open"

\* A crash at any moment, or a completed shutdown, and the next start.
Restart ==
    /\ restarts < MaxRestarts
    /\ restarts' = restarts + 1
    /\ NewManager
    /\ Rehydrate \/ RehydrateFails
    /\ UNCHANGED store

-----------------------------------------------------------------------------
Init ==
    /\ active = EmptyMap
    /\ idCounter = 0
    /\ store = EmptyMap
    /\ events = << >>
    /\ pending = EmptyMap
    /\ gauge = 0
    /\ ctx = "live" /\ loop = "running" /\ disk = "open"
    /\ restarts = 0
    /\ unsaved = {}

Next ==
    \/ \E c \in Checks : processResult(c)
    \/ \E g \in Callers, c \in Checks, s \in SettableStatuses : SetStatus(g, c, s)
    \/ \E g \in Goroutines : emit(g)
    \/ TakeEvent
    \/ Cancel \/ RunReturns \/ CloseStore
    \/ Restart

Spec == Init /\ [][Next]_managerVars

-----------------------------------------------------------------------------
(* Properties *)

\* Every active incident is live and has an identifier of its own.
ActiveDistinct ==
    /\ \A c \in DOMAIN active : active[c].status # "resolved" /\ active[c].id <= idCounter
    /\ \A c, d \in DOMAIN active : active[c].id = active[d].id => c = d

\* The record of an active incident, saved or stale, belongs to its check, is
\* not resolved, and is the newest unresolved one of that check: it is what a
\* restart would load.
ActiveIsNewest ==
    \A c \in DOMAIN active :
       /\ active[c].id \in DOMAIN store =>
            store[active[c].id].check = c /\ store[active[c].id].status # "resolved"
       /\ \A i \in Unresolved(c) : i <= active[c].id

\* Memory and disk agree wherever the last save succeeded, in both directions:
\* an active incident is on disk as it is in memory, and an unresolved record
\* on disk is active.
SavedAgrees ==
    /\ \A c \in DOMAIN active : active[c].id \notin unsaved =>
         /\ active[c].id \in DOMAIN store
         /\ store[active[c].id] = StoredForm(c, active[c])
    /\ \A c \in Checks : \A i \in Unresolved(c) :
         i \notin unsaved => c \in DOMAIN active /\ active[c].id = i

IdsBelowCounter == \A i \in DOMAIN store : i <= idCounter

\* The manager's map and the incidents bucket stay consistent through results,
\* status changes, failed saves, shutdown, crashes and restarts (persistIncident
\* after every change in processResult, resolveIncidentLocked and SetStatus, and
\* the order in which Rehydrate overwrites the map).
DiskMatchesMemory ==
    ActiveDistinct /\ ActiveIsNewest /\ SavedAgrees /\ IdsBelowCounter

\* A record that reached disk as resolved is never written again: not by a late
\* SetStatus of a repair, not by a new incident with a reused identifier.
ResolvedIsFinal ==
    [][\A i \in DOMAIN store : store[i].status = "resolved" =>
          i \in DOMAIN store' /\ store'[i] = store[i]]_managerVars

Log == INSTANCE IncidentLog WITH log <- store, Records <- StoredIncident

\* The bucket is a history: each check's incidents enter it in order, also those
\* whose first saves failed; a stale or late save never takes back a failure, a
\* check or a resolution, and after any crash only the newest unresolved record of
\* a check is continued (persistIncident, Rehydrate, NewManager's counter).
StoreIsLog == Log!Spec

\* A restart that finds every change on disk (and reads it without error)
\* rebuilds exactly the map that was lost: Rehydrate inverts persistIncident.
RestartIsLossless ==
    [][restarts' # restarts /\ unsaved = {} /\ unsaved' = {} => active' = active]_managerVars
=============================================================================
