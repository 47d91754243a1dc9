------------------------ MODULE IncidentManagerProofs ------------------------
(***************************************************************************)
(* Theorems about the incident manager, for every set of checks and        *)
(* callers, every capacity and every number of restarts.                   *)
(***************************************************************************)
EXTENDS IncidentManager, FiniteSetTheorems, TLAPS

\* Counting one more failure stays within the modelled range.
LEMMA CountOfType == ASSUME NEW n \in 1..FailureCap PROVE CountOf(n) \in 1..FailureCap
BY ManagerConstants DEF CountOf

\* persistIncident keeps the types of the bucket and of the history variable.
LEMMA PersistType ==
    ASSUME TypeOK, NEW c \in Checks, NEW inc \in Incident, NEW saved \in BOOLEAN,
           persistIncident(c, inc, saved)
    PROVE  /\ DOMAIN store' \subseteq Ids /\ store' \in [DOMAIN store' -> StoredIncident]
           /\ unsaved' \subseteq Ids
<1>1. inc.id \in Ids /\ StoredForm(c, inc) \in StoredIncident
  BY DEF Incident, StoredForm, StoredIncident
<1>2. CASE saved
  BY <1>1, <1>2 DEF persistIncident, TypeOK, Put
<1>3. CASE ~saved
  BY <1>1, <1>3 DEF persistIncident, TypeOK
<1> QED BY <1>2, <1>3

\* The event built under the lock is a well-formed entry of pending.
LEMMA RaiseType ==
    ASSUME TypeOK, NEW g \in Goroutines, NEW t \in EventTypes, NEW c \in Checks,
           Raise(g, t, c)
    PROVE  DOMAIN pending' \subseteq Goroutines /\ pending' \in [DOMAIN pending' -> Event]
<1>1. [type |-> t, check |-> c] \in Event
  BY DEF Event
<1> QED BY <1>1 DEF Raise, TypeOK, Put

\* resolveIncidentLocked keeps the types.
LEMMA ResolveType ==
    ASSUME TypeOK, NEW g \in Goroutines, NEW c \in DOMAIN active,
           resolveIncidentLocked(g, c), UNCHANGED lifecycle
    PROVE  TypeOK'
<1> DEFINE inc == [active[c] EXCEPT !.status = "resolved"]
<1>1. c \in Checks /\ active[c] \in Incident
  BY DEF TypeOK
<1>2. inc \in Incident
  BY <1>1 DEF Incident, Statuses
<1>3. PICK saved \in BOOLEAN : persistIncident(c, inc, saved)
  BY DEF resolveIncidentLocked
<1>4. /\ DOMAIN store' \subseteq Ids /\ store' \in [DOMAIN store' -> StoredIncident]
      /\ unsaved' \subseteq Ids
  BY <1>1, <1>2, <1>3, PersistType
<1>5. DOMAIN pending' \subseteq Goroutines /\ pending' \in [DOMAIN pending' -> Event]
  BY <1>1, RaiseType DEF resolveIncidentLocked, EventTypes
<1>6. DOMAIN active' \subseteq Checks /\ active' \in [DOMAIN active' -> Incident]
  BY DEF resolveIncidentLocked, TypeOK, Delete, Restrict
<1> QED BY <1>4, <1>5, <1>6 DEF TypeOK, resolveIncidentLocked, lifecycle

\* A status change keeps the types, whatever the status.
LEMMA SetStatusType ==
    ASSUME TypeOK, NEW g \in Callers, NEW c \in Checks, NEW s \in SettableStatuses,
           SetStatusKnown(g, c, s)
    PROVE  TypeOK'
<1>1. c \in DOMAIN active /\ g \in Goroutines /\ UNCHANGED lifecycle
  BY DEF SetStatusKnown, Goroutines
<1>2. CASE s = "resolved"
  BY <1>1, <1>2, ResolveType DEF SetStatusKnown
<1>3. CASE s # "resolved"
  <2> DEFINE inc == [active[c] EXCEPT !.status = s]
  <2>1. inc \in Incident
    BY <1>1 DEF TypeOK, Incident, Statuses, SettableStatuses
  <2>2. /\ active' = [active EXCEPT ![c] = inc]
        /\ \E saved \in BOOLEAN : persistIncident(c, inc, saved)
        /\ Raise(g, EventOf(s), c)
        /\ UNCHANGED <<idCounter, gauge>>
    BY <1>3 DEF SetStatusKnown
  <2>3. /\ DOMAIN store' \subseteq Ids /\ store' \in [DOMAIN store' -> StoredIncident]
        /\ unsaved' \subseteq Ids
    BY <2>1, <2>2, PersistType
  <2>4. EventOf(s) \in EventTypes
    BY DEF EventOf, EventTypes
  <2>5. DOMAIN pending' \subseteq Goroutines /\ pending' \in [DOMAIN pending' -> Event]
    BY <1>1, <2>2, <2>4, RaiseType
  <2>6. DOMAIN active' \subseteq Checks /\ active' \in [DOMAIN active' -> Incident]
    BY <1>1, <2>1, <2>2 DEF TypeOK
  <2> QED BY <1>1, <2>2, <2>3, <2>5, <2>6 DEF TypeOK, lifecycle
<1> QED BY <1>2, <1>3

\* A check result keeps the types.
LEMMA ProcessResultType ==
    ASSUME TypeOK, NEW c \in Checks, processResult(c)
    PROVE  TypeOK'
<1>0. Loop \in Goroutines
  BY DEF Goroutines
<1>1. CASE ResultHealthy(c)
  BY <1>0, <1>1, ResolveType DEF ResultHealthy
<1>2. CASE ResultFailedAgain(c)
  <2> DEFINE inc == [active[c] EXCEPT !.failures = CountOf(@)]
  <2>1. c \in DOMAIN active /\ active[c] \in Incident
    BY <1>2 DEF ResultFailedAgain, TypeOK
  <2>2. inc \in Incident
    BY <2>1, CountOfType DEF Incident
  <2>3. /\ active' = [active EXCEPT ![c] = inc]
        /\ \E saved \in BOOLEAN : persistIncident(c, inc, saved)
        /\ Raise(Loop, "updated", c)
        /\ UNCHANGED <<idCounter, gauge, lifecycle>>
    BY <1>2 DEF ResultFailedAgain
  <2>4. /\ DOMAIN store' \subseteq Ids /\ store' \in [DOMAIN store' -> StoredIncident]
        /\ unsaved' \subseteq Ids
    BY <2>2, <2>3, PersistType
  <2>5. DOMAIN pending' \subseteq Goroutines /\ pending' \in [DOMAIN pending' -> Event]
    BY <1>0, <2>3, RaiseType DEF EventTypes
  <2>6. DOMAIN active' \subseteq Checks /\ active' \in [DOMAIN active' -> Incident]
    BY <2>1, <2>2, <2>3 DEF TypeOK
  <2> QED BY <2>3, <2>4, <2>5, <2>6 DEF TypeOK, lifecycle
<1>3. CASE ResultFailedFirst(c)
  <2>1. createIncident \in Incident
    BY <1>3, ManagerConstants
    DEF ResultFailedFirst, createIncident, Incident, Ids, Statuses, TypeOK
  <2>2. /\ \E saved \in BOOLEAN : persistIncident(c, createIncident, saved)
        /\ Raise(Loop, "opened", c)
        /\ active' = Put(active, c, createIncident)
    BY <1>3 DEF ResultFailedFirst
  <2>3. /\ DOMAIN store' \subseteq Ids /\ store' \in [DOMAIN store' -> StoredIncident]
        /\ unsaved' \subseteq Ids
    BY <2>1, <2>2, PersistType
  <2>4. DOMAIN pending' \subseteq Goroutines /\ pending' \in [DOMAIN pending' -> Event]
    BY <1>0, <2>2, RaiseType DEF EventTypes
  <2>5. DOMAIN active' \subseteq Checks /\ active' \in [DOMAIN active' -> Incident]
    BY <2>1, <2>2 DEF TypeOK, Put
  <2>6. idCounter' \in 0..MaxId /\ gauge' \in Int /\ UNCHANGED lifecycle
    BY <1>3, ManagerConstants DEF ResultFailedFirst, TypeOK
  <2> QED BY <2>3, <2>4, <2>5, <2>6 DEF TypeOK, lifecycle
<1> QED BY <1>1, <1>2, <1>3 DEF processResult

\* Sending or dropping an event keeps the types, the channel's bound included.
LEMMA EmitType ==
    ASSUME TypeOK, NEW g \in Goroutines, emit(g)
    PROVE  TypeOK'
<1>1. pending[g] \in Event
  BY DEF TypeOK, emit
<1>2. events' \in Seq(Event) /\ Len(events') <= EventCap
  <2>1. CASE Len(events) < EventCap
    <3>1. events' = Append(events, pending[g])
      BY <2>1 DEF emit
    <3>2. Append(events, pending[g]) \in Seq(Event)
          /\ Len(Append(events, pending[g])) = Len(events) + 1
      BY <1>1 DEF TypeOK
    <3> QED BY <2>1, <3>1, <3>2, ManagerConstants DEF TypeOK
  <2>2. CASE ~(Len(events) < EventCap)
    BY <2>2 DEF emit, TypeOK
  <2> QED BY <2>1, <2>2
<1>3. DOMAIN pending' \subseteq Goroutines /\ pending' \in [DOMAIN pending' -> Event]
  BY DEF emit, TypeOK, Delete, Restrict
<1> QED BY <1>2, <1>3 DEF emit, TypeOK

\* A restart rebuilds well-typed state from the bucket.
LEMMA RestartType ==
    ASSUME TypeOK, Restart
    PROVE  TypeOK'
<1>1. /\ idCounter' \in 0..MaxId /\ restarts' \in 0..MaxRestarts /\ gauge' \in Int
      /\ ctx' = "live" /\ loop' = "running" /\ disk' = "open"
      /\ store' = store
  BY ManagerConstants DEF Restart, NewManager, TypeOK
<1>2. events' \in Seq(Event) /\ Len(events') <= EventCap
  BY ManagerConstants DEF Restart, NewManager
<1>3. DOMAIN pending' \subseteq Goroutines /\ pending' \in [DOMAIN pending' -> Event]
  BY DEF Restart, NewManager, EmptyMap
<1>4. /\ DOMAIN active' \subseteq Checks /\ active' \in [DOMAIN active' -> Incident]
      /\ unsaved' \subseteq Ids
  <2>1. CASE Rehydrate
    <3>1. PICK newest \in [{c \in Checks : Unresolved(c) # {}} -> DOMAIN store] :
            /\ active' = [c \in DOMAIN newest |-> LoadedIncident(newest[c])]
            /\ unsaved' = unsaved \ {newest[c] : c \in DOMAIN newest}
      BY <2>1 DEF Rehydrate
    <3>2. \A i \in DOMAIN store : LoadedIncident(i) \in Incident
      BY DEF LoadedIncident, Incident, StoredIncident, TypeOK
    <3> QED BY <3>1, <3>2 DEF TypeOK
  <2>2. CASE RehydrateFails
    BY <2>2 DEF RehydrateFails, EmptyMap, TypeOK
  <2> QED BY <2>1, <2>2 DEF Restart
<1> QED BY <1>1, <1>2, <1>3, <1>4 DEF TypeOK

\* Every step of the manager keeps the types.
LEMMA TypeStep == TypeOK /\ [Next]_managerVars => TypeOK'
<1> SUFFICES ASSUME TypeOK, [Next]_managerVars PROVE TypeOK'
  OBVIOUS
<1>1. ASSUME NEW c \in Checks, processResult(c) PROVE TypeOK'
  BY <1>1, ProcessResultType
<1>2. ASSUME NEW g \in Callers, NEW c \in Checks, NEW s \in SettableStatuses,
             SetStatus(g, c, s)
      PROVE  TypeOK'
  <2>1. CASE SetStatusUnknown(c)
    BY <2>1 DEF SetStatusUnknown, TypeOK, managerVars
  <2>2. CASE SetStatusKnown(g, c, s)
    BY <2>2, SetStatusType
  <2> QED BY <1>2, <2>1, <2>2 DEF SetStatus
<1>3. ASSUME NEW g \in Goroutines, emit(g) PROVE TypeOK'
  BY <1>3, EmitType
<1>4. CASE TakeEvent
  <2>1. Tail(events) \in Seq(Event) /\ Len(Tail(events)) <= EventCap
    BY <1>4, ManagerConstants DEF TakeEvent, TypeOK
  <2> QED BY <1>4, <2>1 DEF TakeEvent, TypeOK
<1>5. CASE Cancel
  BY <1>5 DEF Cancel, TypeOK
<1>6. CASE RunReturns
  BY <1>6 DEF RunReturns, TypeOK
<1>7. CASE CloseStore
  BY <1>7 DEF CloseStore, TypeOK
<1>8. CASE Restart
  BY <1>8, RestartType
<1>9. CASE UNCHANGED managerVars
  BY <1>9 DEF managerVars, TypeOK
<1> QED BY <1>1, <1>2, <1>3, <1>4, <1>5, <1>6, <1>7, <1>8, <1>9 DEF Next

\* Type correctness: in particular the event channel never holds more than its
\* capacity and no identifier outside the counter's range is handed out.
THEOREM TypeCorrect == Spec => []TypeOK
<1>1. Init => TypeOK
  BY ManagerConstants DEF Init, TypeOK, EmptyMap
<1> QED BY <1>1, TypeStep, PTL DEF Spec

-----------------------------------------------------------------------------
(* Memory and disk *)

\* Changing the status or the count of an active incident, and trying to save
\* it, keeps memory and disk consistent.
LEMMA UpdateKeepsDisk ==
    ASSUME TypeOK, DiskMatchesMemory,
           NEW c \in DOMAIN active, NEW inc \in Incident,
           inc.id = active[c].id, inc.status # "resolved",
           active' = [active EXCEPT ![c] = inc],
           NEW saved \in BOOLEAN, persistIncident(c, inc, saved),
           UNCHANGED idCounter
    PROVE  DiskMatchesMemory'
<1> USE DEF DiskMatchesMemory
<1>0. /\ c \in Checks /\ active[c].id \in Ids
      /\ DOMAIN active' = DOMAIN active
      /\ active'[c] = inc /\ \A d \in DOMAIN active \ {c} : active'[d] = active[d]
      /\ \A d \in DOMAIN active : active'[d].id = active[d].id
  BY DEF TypeOK, Incident
<1>1. ActiveDistinct'
  BY <1>0 DEF ActiveDistinct
<1>2. CASE saved
  <2>1. /\ DOMAIN store' = DOMAIN store \cup {inc.id}
        /\ store'[inc.id] = StoredForm(c, inc)
        /\ \A i \in DOMAIN store \ {inc.id} : store'[i] = store[i]
        /\ unsaved' = unsaved \ {inc.id}
    BY <1>2 DEF persistIncident, Put
  <2>2. StoredForm(c, inc).check = c /\ StoredForm(c, inc).status # "resolved"
    BY DEF StoredForm
  <2>3. IdsBelowCounter'
    BY <1>0, <2>1 DEF IdsBelowCounter, ActiveDistinct
  <2>4. \A d : Unresolved(d)' \subseteq Unresolved(d) \cup (IF d = c THEN {inc.id} ELSE {})
    BY <2>1, <2>2 DEF Unresolved
  <2>5. ActiveIsNewest'
    <3> SUFFICES ASSUME NEW d \in DOMAIN active
                 PROVE  /\ active[d].id \in DOMAIN store' =>
                             store'[active[d].id].check = d
                             /\ store'[active[d].id].status # "resolved"
                        /\ \A i \in Unresolved(d)' : i <= active[d].id
      BY <1>0 DEF ActiveIsNewest
    <3>1. CASE d = c
      BY <1>0, <2>1, <2>2, <2>4, <3>1 DEF ActiveIsNewest, TypeOK, Ids
    <3>2. CASE d # c
      BY <1>0, <2>1, <2>4, <3>2 DEF ActiveIsNewest, ActiveDistinct
    <3> QED BY <3>1, <3>2
  <2>6. SavedAgrees'
    <3>1. ASSUME NEW d \in DOMAIN active', active'[d].id \notin unsaved'
          PROVE  active'[d].id \in DOMAIN store'
                 /\ store'[active'[d].id] = StoredForm(d, active'[d])
      <4>1. CASE d = c
        BY <1>0, <2>1, <4>1
      <4>2. CASE d # c
        BY <1>0, <2>1, <3>1, <4>2 DEF SavedAgrees, ActiveDistinct
      <4> QED BY <4>1, <4>2
    <3>2. ASSUME NEW d \in Checks, NEW i \in Unresolved(d)', i \notin unsaved'
          PROVE  d \in DOMAIN active' /\ active'[d].id = i
      <4>1. CASE i = inc.id
        BY <1>0, <2>1, <2>2, <3>2, <4>1 DEF Unresolved
      <4>2. CASE i # inc.id
        BY <1>0, <2>1, <2>4, <3>2, <4>2 DEF SavedAgrees
      <4> QED BY <4>1, <4>2
    <3> QED BY <3>1, <3>2 DEF SavedAgrees
  <2> QED BY <1>1, <2>3, <2>5, <2>6
<1>3. CASE ~saved
  <2>1. store' = store /\ unsaved' = unsaved \cup {inc.id}
    BY <1>3 DEF persistIncident
  <2>2. \A d : Unresolved(d)' = Unresolved(d)
    BY <2>1 DEF Unresolved
  <2>3. IdsBelowCounter'
    BY <2>1 DEF IdsBelowCounter
  <2>4. ActiveIsNewest'
    BY <1>0, <2>1, <2>2 DEF ActiveIsNewest
  <2>5. SavedAgrees'
    BY <1>0, <2>1, <2>2 DEF SavedAgrees
  <2> QED BY <1>1, <2>3, <2>4, <2>5
<1> QED BY <1>2, <1>3

\* Resolving an incident removes it from the map; on disk it is resolved, or it
\* is among the unsaved.
LEMMA ResolveKeepsDisk ==
    ASSUME TypeOK, DiskMatchesMemory, NEW g, NEW c \in DOMAIN active,
           resolveIncidentLocked(g, c)
    PROVE  DiskMatchesMemory'
<1> USE DEF DiskMatchesMemory
<1> DEFINE inc == [active[c] EXCEPT !.status = "resolved"]
<1>0. /\ c \in Checks /\ active[c].id \in Ids
      /\ inc.id = active[c].id /\ inc.status = "resolved"
      /\ DOMAIN active' = DOMAIN active \ {c}
      /\ \A d \in DOMAIN active \ {c} : active'[d] = active[d]
      /\ idCounter' = idCounter
  BY DEF TypeOK, Incident, resolveIncidentLocked, Delete, Restrict
<1>1. PICK saved \in BOOLEAN : persistIncident(c, inc, saved)
  BY DEF resolveIncidentLocked
<1>2. ActiveDistinct'
  BY <1>0 DEF ActiveDistinct
<1> HIDE DEF inc
<1>3. CASE saved
  <2>1. /\ DOMAIN store' = DOMAIN store \cup {inc.id}
        /\ store'[inc.id].status = "resolved"
        /\ \A i \in DOMAIN store \ {inc.id} : store'[i] = store[i]
        /\ unsaved' = unsaved \ {inc.id}
    BY <1>0, <1>1, <1>3 DEF persistIncident, Put, StoredForm
  <2>2. \A d : Unresolved(d)' = Unresolved(d) \ {inc.id}
    BY <2>1 DEF Unresolved
  <2>3. IdsBelowCounter'
    BY <1>0, <2>1 DEF IdsBelowCounter, ActiveDistinct
  <2>4. ActiveIsNewest'
    BY <1>0, <2>1, <2>2 DEF ActiveIsNewest, ActiveDistinct
  <2>5. SavedAgrees'
    BY <1>0, <2>1, <2>2 DEF SavedAgrees, ActiveDistinct
  <2> QED BY <1>2, <2>3, <2>4, <2>5
<1>4. CASE ~saved
  <2>1. store' = store /\ unsaved' = unsaved \cup {inc.id}
    BY <1>1, <1>4 DEF persistIncident
  <2>2. \A d : Unresolved(d)' = Unresolved(d)
    BY <2>1 DEF Unresolved
  <2>3. IdsBelowCounter'
    BY <1>0, <2>1 DEF IdsBelowCounter
  <2>4. ActiveIsNewest'
    BY <1>0, <2>1, <2>2 DEF ActiveIsNewest
  <2>5. SavedAgrees'
    BY <1>0, <2>1, <2>2 DEF SavedAgrees
  <2> QED BY <1>2, <2>3, <2>4, <2>5
<1> QED BY <1>3, <1>4

\* A new incident has an identifier above every one in use.
LEMMA CreateKeepsDisk ==
    ASSUME TypeOK, DiskMatchesMemory, NEW c \in Checks, ResultFailedFirst(c)
    PROVE  DiskMatchesMemory'
<1> USE DEF DiskMatchesMemory
<1> DEFINE inc == createIncident
<1>0. /\ idCounter \in Nat /\ idCounter' = idCounter + 1
      /\ inc.id = idCounter + 1 /\ inc.status # "resolved"
      /\ c \notin DOMAIN active
      /\ DOMAIN active' = DOMAIN active \cup {c}
      /\ active'[c] = inc /\ \A d \in DOMAIN active : active'[d] = active[d]
  BY DEF ResultFailedFirst, createIncident, Put, TypeOK
<1>1. PICK saved \in BOOLEAN : persistIncident(c, inc, saved)
  BY DEF ResultFailedFirst
<1>2. /\ DOMAIN store \subseteq Nat /\ inc.id \notin DOMAIN store
      /\ \A i \in DOMAIN store : i <= idCounter
      /\ \A d \in DOMAIN active : active[d].id \in Nat /\ active[d].id <= idCounter
  BY <1>0 DEF IdsBelowCounter, ActiveDistinct, TypeOK, Ids, Incident
<1> HIDE DEF inc
<1>3. ActiveDistinct'
  BY <1>0, <1>2 DEF ActiveDistinct
<1>4. CASE saved
  <2>1. /\ DOMAIN store' = DOMAIN store \cup {inc.id}
        /\ store'[inc.id] = StoredForm(c, inc)
        /\ \A i \in DOMAIN store : store'[i] = store[i]
        /\ unsaved' = unsaved \ {inc.id}
    BY <1>1, <1>2, <1>4 DEF persistIncident, Put
  <2>2. StoredForm(c, inc).check = c /\ StoredForm(c, inc).status # "resolved"
    BY <1>0 DEF StoredForm
  <2>3. \A d : Unresolved(d)' = Unresolved(d) \cup (IF d = c THEN {inc.id} ELSE {})
    BY <1>2, <2>1, <2>2 DEF Unresolved
  <2>4. IdsBelowCounter'
    BY <1>0, <1>2, <2>1 DEF IdsBelowCounter
  <2>5. ActiveIsNewest'
    <3> SUFFICES ASSUME NEW d \in DOMAIN active'
                 PROVE  /\ active'[d].id \in DOMAIN store' =>
                             store'[active'[d].id].check = d
                             /\ store'[active'[d].id].status # "resolved"
                        /\ \A i \in Unresolved(d)' : i <= active'[d].id
      BY DEF ActiveIsNewest
    <3>1. CASE d = c
      <4>1. \A i \in Unresolved(d) : i <= idCounter /\ i \in Nat
        BY <1>2 DEF Unresolved
      <4> QED BY <1>0, <2>1, <2>2, <2>3, <3>1, <4>1
    <3>2. CASE d # c
      BY <1>0, <1>2, <2>1, <2>3, <3>2 DEF ActiveIsNewest
    <3> QED BY <3>1, <3>2
  <2>6. SavedAgrees'
    <3>1. ASSUME NEW d \in DOMAIN active', active'[d].id \notin unsaved'
          PROVE  active'[d].id \in DOMAIN store'
                 /\ store'[active'[d].id] = StoredForm(d, active'[d])
      <4>1. CASE d = c
        BY <1>0, <2>1, <4>1
      <4>2. CASE d # c
        BY <1>0, <1>2, <2>1, <3>1, <4>2 DEF SavedAgrees
      <4> QED BY <4>1, <4>2
    <3>2. ASSUME NEW d \in Checks, NEW i \in Unresolved(d)', i \notin unsaved'
          PROVE  d \in DOMAIN active' /\ active'[d].id = i
      <4>1. CASE i = inc.id
        BY <1>0, <2>1, <2>2, <3>2, <4>1 DEF Unresolved
      <4>2. CASE i # inc.id
        BY <1>0, <2>1, <2>3, <3>2, <4>2 DEF SavedAgrees
      <4> QED BY <4>1, <4>2
    <3> QED BY <3>1, <3>2 DEF SavedAgrees
  <2> QED BY <1>3, <2>4, <2>5, <2>6
<1>5. CASE ~saved
  <2>1. store' = store /\ unsaved' = unsaved \cup {inc.id}
    BY <1>1, <1>5 DEF persistIncident
  <2>2. \A d : Unresolved(d)' = Unresolved(d) /\ Unresolved(d) \subseteq DOMAIN store
    BY <2>1 DEF Unresolved
  <2>3. IdsBelowCounter'
    BY <1>0, <1>2, <2>1 DEF IdsBelowCounter
  <2>4. ActiveIsNewest'
    BY <1>0, <1>2, <2>1, <2>2 DEF ActiveIsNewest
  <2>5. SavedAgrees'
    BY <1>0, <1>2, <2>1, <2>2 DEF SavedAgrees
  <2> QED BY <1>3, <2>3, <2>4, <2>5
<1> QED BY <1>4, <1>5

\* What Rehydrate loads agrees with the bucket it was loaded from, and what it
\* passes over was not saved in its last state.
LEMMA RestartKeepsDisk ==
    ASSUME TypeOK, DiskMatchesMemory, ~ClockStepsBack, Restart
    PROVE  DiskMatchesMemory'
<1> USE DEF DiskMatchesMemory
<1>0. /\ store' = store
      /\ idCounter \in Nat /\ idCounter' \in Nat /\ idCounter <= idCounter'
      /\ DOMAIN store \subseteq Nat
  BY ManagerConstants DEF Restart, NewManager, TypeOK, Ids
<1>1. IdsBelowCounter'
  BY <1>0 DEF IdsBelowCounter
<1>2. \A d : Unresolved(d)' = Unresolved(d) /\ Unresolved(d) \subseteq DOMAIN store
  BY <1>0 DEF Unresolved
<1>3. CASE Rehydrate
  <2>1. PICK newest \in [{c \in Checks : Unresolved(c) # {}} -> DOMAIN store] :
          /\ \A c \in DOMAIN newest : Rehydrated(c, newest[c])
          /\ active' = [c \in DOMAIN newest |-> LoadedIncident(newest[c])]
          /\ unsaved' = unsaved \ {newest[c] : c \in DOMAIN newest}
    BY <1>3 DEF Rehydrate
  <2>2. /\ DOMAIN active' = {c \in Checks : Unresolved(c) # {}}
        /\ DOMAIN newest = DOMAIN active'
    BY <2>1
  <2>3. ASSUME NEW c \in DOMAIN active'
        PROVE  /\ active'[c] = LoadedIncident(newest[c])
               /\ active'[c].id = newest[c]
               /\ newest[c] \in Unresolved(c) /\ newest[c] \in DOMAIN store
               /\ \A i \in Unresolved(c) : i <= newest[c]
               /\ store[newest[c]].check = c
               /\ store[newest[c]].status # "resolved"
               /\ active'[c].status = store[newest[c]].status
    BY <2>1, <2>2 DEF LoadedIncident, Rehydrated, Unresolved
  <2>4. ActiveDistinct'
    BY <1>0, <1>1, <2>3 DEF ActiveDistinct, IdsBelowCounter
  <2>5. ActiveIsNewest'
    BY <1>0, <1>2, <2>3 DEF ActiveIsNewest
  <2>6. SavedAgrees'
    <3>1. ASSUME NEW c \in DOMAIN active'
          PROVE  active'[c].id \in DOMAIN store'
                 /\ store'[active'[c].id] = StoredForm(c, active'[c])
      <4>1. store[newest[c]] \in StoredIncident
        BY <2>3 DEF TypeOK
      <4> QED BY <1>0, <2>3, <4>1 DEF LoadedIncident, StoredForm, StoredIncident
    <3>2. ASSUME NEW c \in Checks, NEW i \in Unresolved(c)', i \notin unsaved'
          PROVE  c \in DOMAIN active' /\ active'[c].id = i
      <4>1. i \in Unresolved(c) /\ c \in DOMAIN active' /\ i \in Nat
            /\ newest[c] \in Nat
        BY <1>0, <1>2, <2>2, <2>3, <3>2
      <4>2. CASE i \in unsaved
        <5>1. PICK d \in DOMAIN newest : i = newest[d]
          BY <2>1, <3>2, <4>2
        <5>2. store[i].check = d /\ store[i].check = c
          BY <2>2, <2>3, <4>1, <5>1 DEF Unresolved
        <5> QED BY <2>2, <2>3, <4>1, <5>1, <5>2
      <4>3. CASE i \notin unsaved
        <5>1. c \in DOMAIN active /\ active[c].id = i
          BY <4>1, <4>3 DEF SavedAgrees
        <5>2. newest[c] <= i /\ i <= newest[c]
          BY <2>3, <4>1, <5>1 DEF ActiveIsNewest
        <5> QED BY <2>3, <4>1, <5>2
      <4> QED BY <4>2, <4>3
    <3> QED BY <3>1, <3>2 DEF SavedAgrees
  <2> QED BY <1>1, <2>4, <2>5, <2>6
<1>4. CASE RehydrateFails
  <2>1. /\ DOMAIN active' = {}
        /\ unsaved' = unsaved \cup {i \in DOMAIN store : store[i].status # "resolved"}
    BY <1>4 DEF RehydrateFails, EmptyMap
  <2>2. ActiveDistinct' /\ ActiveIsNewest'
    BY <2>1 DEF ActiveDistinct, ActiveIsNewest
  <2>3. SavedAgrees'
    BY <1>2, <2>1 DEF SavedAgrees, Unresolved
  <2> QED BY <1>1, <2>2, <2>3
<1> QED BY <1>3, <1>4 DEF Restart

\* Each step of the manager keeps memory and disk consistent.
LEMMA NextKeepsDisk ==
    ASSUME TypeOK, DiskMatchesMemory, ~ClockStepsBack, [Next]_managerVars
    PROVE  DiskMatchesMemory'
<1>1. ASSUME NEW c \in Checks, ResultHealthy(c) PROVE DiskMatchesMemory'
  BY <1>1, ResolveKeepsDisk DEF ResultHealthy
<1>2. ASSUME NEW c \in Checks, ResultFailedAgain(c) PROVE DiskMatchesMemory'
  <2> DEFINE inc == [active[c] EXCEPT !.failures = CountOf(@)]
  <2>1. c \in DOMAIN active /\ active[c] \in Incident /\ active[c].status # "resolved"
    BY <1>2 DEF ResultFailedAgain, TypeOK, DiskMatchesMemory, ActiveDistinct
  <2>2. inc \in Incident /\ inc.id = active[c].id /\ inc.status # "resolved"
    BY <2>1, CountOfType DEF Incident
  <2>3. /\ active' = [active EXCEPT ![c] = inc]
        /\ \E saved \in BOOLEAN : persistIncident(c, inc, saved)
        /\ UNCHANGED idCounter
    BY <1>2 DEF ResultFailedAgain
  <2> HIDE DEF inc
  <2> QED BY <2>1, <2>2, <2>3, UpdateKeepsDisk
<1>3. ASSUME NEW c \in Checks, ResultFailedFirst(c) PROVE DiskMatchesMemory'
  BY <1>3, CreateKeepsDisk
<1>4. ASSUME NEW g \in Callers, NEW c \in Checks, NEW s \in SettableStatuses,
             SetStatusKnown(g, c, s)
      PROVE  DiskMatchesMemory'
  <2>1. c \in DOMAIN active /\ active[c] \in Incident
    BY <1>4 DEF SetStatusKnown, TypeOK
  <2>2. CASE s = "resolved"
    BY <1>4, <2>1, <2>2, ResolveKeepsDisk DEF SetStatusKnown
  <2>3. CASE s # "resolved"
    <3> DEFINE inc == [active[c] EXCEPT !.status = s]
    <3>1. inc \in Incident /\ inc.id = active[c].id /\ inc.status # "resolved"
      BY <2>1, <2>3 DEF Incident, Statuses, SettableStatuses
    <3>2. /\ active' = [active EXCEPT ![c] = inc]
          /\ \E saved \in BOOLEAN : persistIncident(c, inc, saved)
          /\ UNCHANGED idCounter
      BY <1>4, <2>3 DEF SetStatusKnown
    <3> HIDE DEF inc
    <3> QED BY <2>1, <3>1, <3>2, UpdateKeepsDisk
  <2> QED BY <2>2, <2>3
<1>5. CASE Restart
  BY <1>5, RestartKeepsDisk
<1>6. CASE UNCHANGED <<active, store, idCounter, unsaved>>
  BY <1>6 DEF DiskMatchesMemory, ActiveDistinct, ActiveIsNewest, SavedAgrees,
              IdsBelowCounter, Unresolved
<1>7. ASSUME NEW c \in Checks, processResult(c) PROVE DiskMatchesMemory'
  BY <1>1, <1>2, <1>3, <1>7 DEF processResult
<1>8. ASSUME NEW g \in Callers, NEW c \in Checks, NEW s \in SettableStatuses,
             SetStatus(g, c, s)
      PROVE  DiskMatchesMemory'
  BY <1>4, <1>6, <1>8 DEF SetStatus, SetStatusUnknown, managerVars
<1>9. CASE TakeEvent \/ Cancel \/ RunReturns \/ CloseStore \/ UNCHANGED managerVars
           \/ \E g \in Goroutines : emit(g)
  BY <1>6, <1>9 DEF TakeEvent, Cancel, RunReturns, CloseStore, emit, managerVars
<1> QED BY <1>5, <1>7, <1>8, <1>9 DEF Next

\* The map and the bucket agree through failed saves, crashes and restarts, if
\* the wall clock does not step back (NewManager seeds the identifiers from it).
THEOREM DiskConsistent ==
    ASSUME ~ClockStepsBack PROVE Spec => []DiskMatchesMemory
<1>1. Init => DiskMatchesMemory
  BY DEF Init, EmptyMap, DiskMatchesMemory, ActiveDistinct, ActiveIsNewest,
         SavedAgrees, IdsBelowCounter, Unresolved
<1>2. TypeOK /\ DiskMatchesMemory /\ [Next]_managerVars => DiskMatchesMemory'
  BY NextKeepsDisk
<1> QED BY <1>1, <1>2, TypeCorrect, PTL DEF Spec

-----------------------------------------------------------------------------
(* Action properties *)

\* Saving an active or a new incident never touches a resolved record.
LEMMA PersistKeepsResolved ==
    ASSUME NEW c, NEW inc, NEW saved \in BOOLEAN, persistIncident(c, inc, saved),
           inc.id \in DOMAIN store => store[inc.id].status # "resolved",
           NEW i \in DOMAIN store, store[i].status = "resolved"
    PROVE  i \in DOMAIN store' /\ store'[i] = store[i]
BY DEF persistIncident, Put

\* A record that reached disk as resolved stays as it is, whatever late status
\* change, new incident or restart follows.
THEOREM ResolvedStays == ASSUME ~ClockStepsBack PROVE Spec => ResolvedIsFinal
<1> DEFINE Kept == \A i \in DOMAIN store : store[i].status = "resolved" =>
                      i \in DOMAIN store' /\ store'[i] = store[i]
<1>1. TypeOK /\ DiskMatchesMemory /\ [Next]_managerVars => Kept
  <2> SUFFICES ASSUME TypeOK, DiskMatchesMemory, [Next]_managerVars,
                      NEW i \in DOMAIN store, store[i].status = "resolved"
               PROVE  i \in DOMAIN store' /\ store'[i] = store[i]
    OBVIOUS
  <2>0. \A c \in DOMAIN active : /\ active[c] \in Incident
                                 /\ active[c].id \in DOMAIN store =>
                                      store[active[c].id].status # "resolved"
    BY DEF DiskMatchesMemory, ActiveIsNewest, TypeOK
  <2>1. ASSUME NEW g, NEW c \in DOMAIN active, resolveIncidentLocked(g, c)
        PROVE  i \in DOMAIN store' /\ store'[i] = store[i]
    <3> DEFINE inc == [active[c] EXCEPT !.status = "resolved"]
    <3>1. inc.id = active[c].id
      BY <2>0 DEF Incident
    <3>2. \E saved \in BOOLEAN : persistIncident(c, inc, saved)
      BY <2>1 DEF resolveIncidentLocked
    <3> HIDE DEF inc
    <3> QED BY <2>0, <3>1, <3>2, PersistKeepsResolved
  <2>2. ASSUME NEW c \in Checks, ResultFailedAgain(c)
        PROVE  i \in DOMAIN store' /\ store'[i] = store[i]
    <3> DEFINE inc == [active[c] EXCEPT !.failures = CountOf(@)]
    <3>1. c \in DOMAIN active /\ inc.id = active[c].id
      BY <2>0, <2>2 DEF Incident, ResultFailedAgain
    <3>2. \E saved \in BOOLEAN : persistIncident(c, inc, saved)
      BY <2>2 DEF ResultFailedAgain
    <3> HIDE DEF inc
    <3> QED BY <2>0, <3>1, <3>2, PersistKeepsResolved
  <2>3. ASSUME NEW c \in Checks, ResultFailedFirst(c)
        PROVE  i \in DOMAIN store' /\ store'[i] = store[i]
    <3>1. createIncident.id \notin DOMAIN store
      BY DEF createIncident, DiskMatchesMemory, IdsBelowCounter, TypeOK
    <3>2. \E saved \in BOOLEAN : persistIncident(c, createIncident, saved)
      BY <2>3 DEF ResultFailedFirst
    <3> QED BY <3>1, <3>2, PersistKeepsResolved
  <2>4. ASSUME NEW g \in Callers, NEW c \in Checks, NEW s \in SettableStatuses,
               SetStatusKnown(g, c, s)
        PROVE  i \in DOMAIN store' /\ store'[i] = store[i]
    <3>0. c \in DOMAIN active
      BY <2>4 DEF SetStatusKnown
    <3>1. CASE s = "resolved"
      BY <2>1, <2>4, <3>0, <3>1 DEF SetStatusKnown
    <3>2. CASE s # "resolved"
      <4> DEFINE inc == [active[c] EXCEPT !.status = s]
      <4>1. inc.id = active[c].id
        BY <2>0, <3>0 DEF Incident
      <4>2. \E saved \in BOOLEAN : persistIncident(c, inc, saved)
        BY <2>4, <3>2 DEF SetStatusKnown
      <4> HIDE DEF inc
      <4> QED BY <2>0, <3>0, <4>1, <4>2, PersistKeepsResolved
    <3> QED BY <3>1, <3>2
  <2>5. CASE store' = store
    BY <2>5
  <2>6. ASSUME NEW c \in Checks, processResult(c)
        PROVE  i \in DOMAIN store' /\ store'[i] = store[i]
    BY <2>1, <2>2, <2>3, <2>6 DEF processResult, ResultHealthy
  <2>7. ASSUME NEW g \in Callers, NEW c \in Checks, NEW s \in SettableStatuses,
               SetStatus(g, c, s)
        PROVE  i \in DOMAIN store' /\ store'[i] = store[i]
    BY <2>4, <2>5, <2>7 DEF SetStatus, SetStatusUnknown, managerVars
  <2>8. CASE Restart \/ TakeEvent \/ Cancel \/ RunReturns \/ CloseStore
             \/ UNCHANGED managerVars \/ \E g \in Goroutines : emit(g)
    BY <2>5, <2>8 DEF Restart, TakeEvent, Cancel, RunReturns, CloseStore, emit, managerVars
  <2> QED BY <2>6, <2>7, <2>8 DEF Next
<1> QED BY <1>1, TypeCorrect, DiskConsistent, PTL DEF Spec, ResolvedIsFinal

\* Rehydrate rebuilds exactly the map that was lost, if its last changes had
\* been saved and the bucket can be read.
THEOREM RestartLossless == ASSUME ~ClockStepsBack PROVE Spec => RestartIsLossless
<1>1. TypeOK /\ DiskMatchesMemory /\ [Next]_managerVars =>
        (restarts' # restarts /\ unsaved = {} /\ unsaved' = {} => active' = active)
  <2> SUFFICES ASSUME TypeOK, DiskMatchesMemory, [Next]_managerVars,
                      restarts' # restarts, unsaved = {}, unsaved' = {}
               PROVE  active' = active
    OBVIOUS
  <2>1. Restart
    BY DEF Next, processResult, ResultHealthy, ResultFailedAgain, ResultFailedFirst,
           SetStatus, SetStatusKnown, SetStatusUnknown, lifecycle, emit, TakeEvent,
           Cancel, RunReturns, CloseStore, managerVars
  <2>2. \A c \in DOMAIN active : /\ active[c] \in Incident /\ c \in Checks
                                 /\ active[c].id \in Unresolved(c)
                                 /\ store[active[c].id] = StoredForm(c, active[c])
    BY DEF DiskMatchesMemory, SavedAgrees, ActiveIsNewest, Unresolved, TypeOK
  <2>3. \A c \in Checks : \A i \in Unresolved(c) : c \in DOMAIN active /\ active[c].id = i
    BY DEF DiskMatchesMemory, SavedAgrees
  <2>4. DOMAIN active = {c \in Checks : Unresolved(c) # {}}
    BY <2>2, <2>3
  <2>5. active = [c \in DOMAIN active |-> active[c]]
    BY DEF TypeOK
  <2>6. CASE Rehydrate
    <3>1. PICK newest \in [{c \in Checks : Unresolved(c) # {}} -> DOMAIN store] :
            /\ \A c \in DOMAIN newest : Rehydrated(c, newest[c])
            /\ active' = [c \in DOMAIN newest |-> LoadedIncident(newest[c])]
      BY <2>6 DEF Rehydrate
    <3>2. DOMAIN newest = DOMAIN active
      BY <2>4, <3>1
    <3>3. ASSUME NEW c \in DOMAIN active PROVE LoadedIncident(newest[c]) = active[c]
      <4>1. newest[c] = active[c].id
        BY <2>2, <2>3, <3>1, <3>2 DEF Rehydrated
      <4>2. active[c] = [id |-> active[c].id, status |-> active[c].status,
                         failures |-> active[c].failures]
        BY <2>2 DEF Incident
      <4>3. /\ store[newest[c]].status = active[c].status
            /\ store[newest[c]].failures = active[c].failures
        <5>1. store[newest[c]] = StoredForm(c, active[c])
          BY <2>2, <3>3, <4>1
        <5> QED BY <5>1 DEF StoredForm
      <4> QED BY <4>1, <4>2, <4>3 DEF LoadedIncident
    <3> QED BY <2>5, <3>1, <3>2, <3>3
  <2>7. CASE RehydrateFails
    <3>1. \A c : Unresolved(c) = {}
      BY <2>7 DEF RehydrateFails, Unresolved
    <3>2. DOMAIN active = {}
      BY <2>4, <3>1
    <3> QED BY <2>5, <2>7, <3>2 DEF RehydrateFails, EmptyMap
  <2> QED BY <2>1, <2>6, <2>7 DEF Restart
<1> QED BY <1>1, TypeCorrect, DiskConsistent, PTL DEF Spec, RestartIsLossless
-----------------------------------------------------------------------------
(* The bucket as a history *)

\* What an active incident may still write: its record has not counted more
\* failures, and while it has none, its check has no later record.
LogAt(c) ==
    /\ active[c].id \in DOMAIN store => store[active[c].id].failures <= active[c].failures
    /\ active[c].id \notin DOMAIN store =>
         \A i \in DOMAIN store : store[i].check = c => i < active[c].id

LogInv == \A c \in DOMAIN active : LogAt(c)

\* A save writes one record, or none.
LEMMA SaveWrites ==
    ASSUME NEW c, NEW inc, NEW saved \in BOOLEAN, persistIncident(c, inc, saved)
    PROVE  store' = store \/ Log!Write(inc.id, StoredForm(c, inc))
BY DEF persistIncident, Put, Log!Write

\* The record that enters or is amended is the one a step of the history leaves.
LEMMA LogStep ==
    ASSUME NEW i \in Ids, NEW r \in StoredIncident, Log!Enter(i, r) \/ Log!Amend(i, r)
    PROVE  Log!Next
<1>1. i \in DOMAIN store' /\ store'[i] = r
  BY DEF Log!Enter, Log!Amend, Log!Write
<1> QED BY <1>1 DEF Log!Next

\* A save for one check leaves what the other checks may write.
LEMMA OthersKeepLog ==
    ASSUME LogInv, NEW c, NEW inc, NEW saved \in BOOLEAN, persistIncident(c, inc, saved),
           NEW d \in DOMAIN active, d # c, active'[d] = active[d], active[d].id # inc.id
    PROVE  LogAt(d)'
<1>1. LogAt(d)
  BY DEF LogInv
<1>2. CASE store' = store
  BY <1>1, <1>2 DEF LogAt
<1>3. CASE Log!Write(inc.id, StoredForm(c, inc))
  <2>0. /\ DOMAIN store' = DOMAIN store \cup {inc.id}
        /\ store'[inc.id] = StoredForm(c, inc)
        /\ \A i \in DOMAIN store \ {inc.id} : store'[i] = store[i]
    BY <1>3 DEF Log!Write
  <2>1. store'[inc.id].check # d
    BY <2>0 DEF StoredForm
  <2>2. active'[d].id \in DOMAIN store' => store'[active'[d].id].failures <= active'[d].failures
    BY <1>1, <2>0 DEF LogAt
  <2>3. ASSUME active'[d].id \notin DOMAIN store', NEW i \in DOMAIN store', store'[i].check = d
        PROVE  i < active'[d].id
    <3>1. i \in DOMAIN store /\ store[i].check = d
      BY <2>0, <2>1, <2>3
    <3>2. active[d].id \notin DOMAIN store
      BY <2>0, <2>3
    <3> QED BY <1>1, <3>1, <3>2 DEF LogAt
  <2> QED BY <2>2, <2>3 DEF LogAt
<1> QED BY <1>2, <1>3, SaveWrites

\* Saving an active incident, in a form that counts no fewer failures, is a step
\* of the history.
LEMMA SaveIsLogStep ==
    ASSUME TypeOK, DiskMatchesMemory, LogInv, NEW c \in DOMAIN active, NEW inc \in Incident,
           inc.id = active[c].id, active[c].failures <= inc.failures,
           NEW saved \in BOOLEAN, persistIncident(c, inc, saved)
    PROVE  [Log!Next]_store
<1> DEFINE i == inc.id
           r == StoredForm(c, inc)
<1>1. /\ i \in Ids /\ r \in StoredIncident
      /\ r.check = c /\ r.failures = inc.failures
  BY DEF TypeOK, Incident, StoredForm, StoredIncident
<1>2. SUFFICES ASSUME Log!Write(i, r) PROVE Log!Next
  BY SaveWrites
<1>3. LogAt(c)
  BY DEF LogInv
<1> HIDE DEF r
<1>4. CASE i \in DOMAIN store
  <2>1. store[i].check = c /\ store[i].status # "resolved" /\ \A j \in Unresolved(c) : j <= i
    BY <1>4 DEF DiskMatchesMemory, ActiveIsNewest
  <2>2. store[i].failures <= r.failures
    <3>1. store[i].failures <= active[c].failures
      BY <1>3, <1>4 DEF LogAt
    <3>2. store[i].failures \in Int /\ active[c].failures \in Int /\ inc.failures \in Int
      BY <1>4, ManagerConstants DEF TypeOK, StoredIncident, Incident
    <3> QED BY <1>1, <3>1, <3>2
  <2>3. i \in Log!Of(r.check)
    BY <1>1, <1>4, <2>1 DEF Log!Of
  <2>4. \A j \in Log!Of(r.check) : store[j].status # "resolved" => j <= i
    BY <1>1, <2>1 DEF Log!Of, Unresolved
  <2>5. Log!Amend(i, r)
    BY <1>2, <2>1, <2>2, <2>3, <2>4 DEF Log!Amend
  <2> QED BY <1>1, <2>5, LogStep
<1>5. CASE i \notin DOMAIN store
  <2>1. \A j \in Log!Of(r.check) : j < i
    BY <1>1, <1>3, <1>5 DEF Log!Of, LogAt
  <2>2. Log!Enter(i, r)
    BY <1>2, <1>5, <2>1 DEF Log!Enter
  <2> QED BY <1>1, <2>2, LogStep
<1> QED BY <1>4, <1>5

\* A new count or status of an active incident, saved or not.
LEMMA UpdateKeepsLog ==
    ASSUME TypeOK, DiskMatchesMemory, LogInv,
           NEW c \in DOMAIN active, NEW inc \in Incident,
           inc.id = active[c].id, active[c].failures <= inc.failures,
           active' = [active EXCEPT ![c] = inc],
           NEW saved \in BOOLEAN, persistIncident(c, inc, saved)
    PROVE  LogInv' /\ [Log!Next]_store
<1>1. /\ DOMAIN active' = DOMAIN active /\ active'[c] = inc
      /\ \A d \in DOMAIN active \ {c} : active'[d] = active[d] /\ active[d].id # inc.id
  BY DEF DiskMatchesMemory, ActiveDistinct
<1>2. LogAt(c)'
  <2>1. LogAt(c)
    BY DEF LogInv
  <2>2. CASE store' = store
    <3>1. /\ active[c].failures \in Int /\ inc.failures \in Int
          /\ inc.id \in DOMAIN store => store[inc.id].failures \in Int
      BY ManagerConstants DEF TypeOK, Incident, StoredIncident
    <3> QED BY <1>1, <2>1, <2>2, <3>1 DEF LogAt
  <2>3. CASE Log!Write(inc.id, StoredForm(c, inc))
    <3>0. DOMAIN store' = DOMAIN store \cup {inc.id} /\ store'[inc.id] = StoredForm(c, inc)
      BY <2>3 DEF Log!Write
    <3>1. inc.failures \in Int /\ store'[inc.id].failures = inc.failures
      BY <3>0, ManagerConstants DEF Incident, StoredForm
    <3>2. active'[c].id \in DOMAIN store' /\ active'[c] = inc
      BY <1>1, <3>0
    <3> QED BY <3>1, <3>2 DEF LogAt
  <2> QED BY <2>2, <2>3, SaveWrites
<1>3. \A d \in DOMAIN active \ {c} : LogAt(d)'
  BY <1>1, OthersKeepLog
<1>4. LogInv'
  BY <1>1, <1>2, <1>3 DEF LogInv
<1> QED BY <1>4, SaveIsLogStep

\* A resolution, saved or not.
LEMMA ResolveKeepsLog ==
    ASSUME TypeOK, DiskMatchesMemory, LogInv, NEW g, NEW c \in DOMAIN active,
           resolveIncidentLocked(g, c)
    PROVE  LogInv' /\ [Log!Next]_store
<1> DEFINE inc == [active[c] EXCEPT !.status = "resolved"]
<1>1. active[c] \in Incident
  BY DEF TypeOK
<1>2. inc \in Incident /\ inc.id = active[c].id /\ inc.failures = active[c].failures
  BY <1>1 DEF Incident, Statuses
<1>3. active[c].failures <= inc.failures
  BY <1>1, <1>2, ManagerConstants DEF Incident
<1>4. PICK saved \in BOOLEAN : persistIncident(c, inc, saved)
  BY DEF resolveIncidentLocked
<1>5. /\ DOMAIN active' = DOMAIN active \ {c}
      /\ \A d \in DOMAIN active' : active'[d] = active[d] /\ d # c
  BY DEF resolveIncidentLocked, Delete, Restrict
<1> HIDE DEF inc
<1>6. \A d \in DOMAIN active' : active[d].id # inc.id
  BY <1>2, <1>5 DEF DiskMatchesMemory, ActiveDistinct
<1>7. LogInv'
  BY <1>4, <1>5, <1>6, OthersKeepLog DEF LogInv
<1> QED BY <1>2, <1>3, <1>4, <1>7, SaveIsLogStep

\* A new incident enters above every record: the identifiers it could clash
\* with are those of lost saves, and the counter is above these too.
LEMMA CreateKeepsLog ==
    ASSUME TypeOK, DiskMatchesMemory, LogInv, NEW c \in Checks, ResultFailedFirst(c)
    PROVE  LogInv' /\ [Log!Next]_store
<1> DEFINE inc == createIncident
<1>1. /\ idCounter \in Nat /\ inc.id = idCounter + 1 /\ inc.failures = 1
      /\ inc.id \in Ids /\ StoredForm(c, inc) \in StoredIncident
      /\ StoredForm(c, inc).check = c /\ StoredForm(c, inc).failures = 1
  BY ManagerConstants
  DEF ResultFailedFirst, createIncident, TypeOK, Ids, StoredForm, StoredIncident, Statuses
<1>2. /\ DOMAIN store \subseteq Nat /\ \A i \in DOMAIN store : i <= idCounter
      /\ \A d \in DOMAIN active : active[d].id \in Nat /\ active[d].id <= idCounter
  BY DEF DiskMatchesMemory, IdsBelowCounter, ActiveDistinct, TypeOK, Ids, Incident
<1>3. /\ c \notin DOMAIN active /\ DOMAIN active' = DOMAIN active \cup {c}
      /\ active'[c] = inc /\ \A d \in DOMAIN active : active'[d] = active[d]
  BY DEF ResultFailedFirst, Put
<1>4. PICK saved \in BOOLEAN : persistIncident(c, inc, saved)
  BY DEF ResultFailedFirst
<1> HIDE DEF inc
<1>5. \A i \in DOMAIN store : i < inc.id
  BY <1>1, <1>2
<1>6. LogAt(c)'
  <2>1. CASE store' = store
    BY <1>1, <1>3, <1>5, <2>1 DEF LogAt
  <2>2. CASE Log!Write(inc.id, StoredForm(c, inc))
    <3>1. DOMAIN store' = DOMAIN store \cup {inc.id} /\ store'[inc.id] = StoredForm(c, inc)
      BY <2>2 DEF Log!Write
    <3> QED BY <1>1, <1>3, <3>1 DEF LogAt
  <2> QED BY <1>4, <2>1, <2>2, SaveWrites
<1>7. \A d \in DOMAIN active : active[d].id # inc.id /\ d # c
  BY <1>1, <1>2, <1>3
<1>8. \A d \in DOMAIN active : LogAt(d)'
  BY <1>3, <1>4, <1>7, OthersKeepLog
<1>9. LogInv'
  BY <1>3, <1>6, <1>8 DEF LogInv
<1>10. ASSUME Log!Write(inc.id, StoredForm(c, inc)) PROVE Log!Next
  <2>1. Log!Enter(inc.id, StoredForm(c, inc))
    BY <1>1, <1>5, <1>10 DEF Log!Enter, Log!Of
  <2> QED BY <1>1, <2>1, LogStep
<1> QED BY <1>4, <1>9, <1>10, SaveWrites

\* Rehydrate continues records as they are.
LEMMA RestartKeepsLog ==
    ASSUME TypeOK, Restart
    PROVE  LogInv' /\ store' = store
<1>0. store' = store
  BY DEF Restart
<1>1. CASE Rehydrate
  <2>1. PICK newest \in [{c \in Checks : Unresolved(c) # {}} -> DOMAIN store] :
          active' = [c \in DOMAIN newest |-> LoadedIncident(newest[c])]
    BY <1>1 DEF Rehydrate
  <2>2. ASSUME NEW c \in DOMAIN active' PROVE LogAt(c)'
    <3>1. /\ newest[c] \in DOMAIN store /\ active'[c].id = newest[c]
          /\ active'[c].failures = store[newest[c]].failures
      BY <2>1, <2>2 DEF LoadedIncident
    <3>2. store[newest[c]].failures \in Int
      BY <3>1, ManagerConstants DEF TypeOK, StoredIncident
    <3> QED BY <1>0, <3>1, <3>2 DEF LogAt
  <2> QED BY <1>0, <2>2 DEF LogInv
<1>2. CASE RehydrateFails
  BY <1>0, <1>2 DEF RehydrateFails, EmptyMap, LogInv
<1> QED BY <1>0, <1>1, <1>2 DEF Restart

\* Each step of the manager is a step of the history, or leaves it alone.
LEMMA NextIsLogStep ==
    ASSUME TypeOK, DiskMatchesMemory, LogInv, [Next]_managerVars
    PROVE  LogInv' /\ [Log!Next]_store
<1>1. ASSUME NEW c \in Checks, ResultFailedAgain(c)
      PROVE  LogInv' /\ [Log!Next]_store
  <2> DEFINE inc == [active[c] EXCEPT !.failures = CountOf(@)]
  <2>1. c \in DOMAIN active /\ active[c] \in Incident
    BY <1>1 DEF ResultFailedAgain, TypeOK
  <2>2. inc \in Incident /\ inc.id = active[c].id
    BY <2>1, CountOfType DEF Incident
  <2>3. active[c].failures <= inc.failures
    BY <2>1, ManagerConstants DEF Incident, CountOf
  <2>4. /\ active' = [active EXCEPT ![c] = inc]
        /\ \E saved \in BOOLEAN : persistIncident(c, inc, saved)
    BY <1>1 DEF ResultFailedAgain
  <2> HIDE DEF inc
  <2> QED BY <2>1, <2>2, <2>3, <2>4, UpdateKeepsLog
<1>2. ASSUME NEW c \in Checks, processResult(c)
      PROVE  LogInv' /\ [Log!Next]_store
  BY <1>1, <1>2, ResolveKeepsLog, CreateKeepsLog DEF processResult, ResultHealthy
<1>3. ASSUME NEW g \in Callers, NEW c \in Checks, NEW s \in SettableStatuses,
             SetStatusKnown(g, c, s)
      PROVE  LogInv' /\ [Log!Next]_store
  <2>1. c \in DOMAIN active /\ active[c] \in Incident
    BY <1>3 DEF SetStatusKnown, TypeOK
  <2>2. CASE s = "resolved"
    BY <1>3, <2>1, <2>2, ResolveKeepsLog DEF SetStatusKnown
  <2>3. CASE s # "resolved"
    <3> DEFINE inc == [active[c] EXCEPT !.status = s]
    <3>1. inc \in Incident /\ inc.id = active[c].id /\ inc.failures = active[c].failures
      BY <2>1 DEF Incident, Statuses, SettableStatuses
    <3>2. active[c].failures <= inc.failures
      BY <2>1, <3>1, ManagerConstants DEF Incident
    <3>3. /\ active' = [active EXCEPT ![c] = inc]
          /\ \E saved \in BOOLEAN : persistIncident(c, inc, saved)
      BY <1>3, <2>3 DEF SetStatusKnown
    <3> HIDE DEF inc
    <3> QED BY <2>1, <3>1, <3>2, <3>3, UpdateKeepsLog
  <2> QED BY <2>2, <2>3
<1>4. CASE UNCHANGED <<active, store>>
  BY <1>4 DEF LogInv, LogAt
<1>5. ASSUME NEW g \in Callers, NEW c \in Checks, NEW s \in SettableStatuses,
             SetStatus(g, c, s)
      PROVE  LogInv' /\ [Log!Next]_store
  BY <1>3, <1>4, <1>5 DEF SetStatus, SetStatusUnknown, managerVars
<1>6. CASE Restart
  BY <1>6, RestartKeepsLog
<1>7. CASE TakeEvent \/ Cancel \/ RunReturns \/ CloseStore \/ UNCHANGED managerVars
           \/ \E g \in Goroutines : emit(g)
  BY <1>4, <1>7 DEF TakeEvent, Cancel, RunReturns, CloseStore, emit, managerVars
<1> QED BY <1>2, <1>5, <1>6, <1>7 DEF Next

\* The bucket is the history of the incidents, through lost saves, late status
\* changes, crashes and restarts, if the wall clock does not step back.
THEOREM BucketIsHistory == ASSUME ~ClockStepsBack PROVE Spec => StoreIsLog
<1>1. Init => LogInv /\ Log!Init
  BY DEF Init, EmptyMap, LogInv, Log!Init
<1>2. TypeOK /\ DiskMatchesMemory /\ LogInv /\ [Next]_managerVars
        => LogInv' /\ [Log!Next]_store
  BY NextIsLogStep
<1> QED BY <1>1, <1>2, TypeCorrect, DiskConsistent, PTL DEF Spec, StoreIsLog, Log!Spec
=============================================================================
