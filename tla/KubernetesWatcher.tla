-------------------------- MODULE KubernetesWatcher --------------------------
(***************************************************************************)
(* internal/kubernetes/watcher.go: Run, watchEvents and processEvent.      *)
(*                                                                         *)
(* The cluster is external: an event object is created, updated when it    *)
(* recurs, and expires.  A watch opened with empty ListOptions starts with *)
(* an Added notification for every object that exists, then follows the    *)
(* changes; a watch that breaks loses the notifications not yet read.      *)
(*                                                                         *)
(* The results channel and the context are those of the agent: the module  *)
(* is instantiated by ResultPipeline, which runs it.                       *)
(***************************************************************************)
EXTENDS Integers, Sequences, SequencesExt

CONSTANTS
    Objects,     \* the cluster's event objects
    Failures,    \* those of type Warning with a reason in failureReasons
    CheckNames,  \* check names
    CheckName,   \* object -> "k8s-<kind>-<name>", the same in every namespace
    MaxVersion,  \* bound: object -> how often it occurs
    ReplayCap,   \* bound: replays of an object above it are not told apart
    ResultsCap   \* capacity of the check results channel (256 in the agent)

VARIABLES
    ctx,      \* the agent's context: "live" or "done"
    run,      \* "off", "opening", "watching", "waiting" (10 s) or "returned"
    exists,   \* the objects in the cluster
    version,  \* object -> how often it occurred
    stream,   \* notifications of the open watch
    results,  \* the check results channel
    dropped,  \* history: occurrences dropped on a full channel
    replayed  \* history: object -> watches opened while it existed

cluster == <<exists, version>>

NotificationTypes == {"Added", "Modified", "Deleted"}
Occurrence == UNION {[object : {o}, version : 1..MaxVersion[o]] : o \in Objects}
Notification == [type : NotificationTypes, about : Occurrence]

\* checks.CheckResult, and the occurrence in its metadata.
Result == [check : CheckNames, status : {"failed"}, about : Occurrence]

TypeOK ==
    /\ run \in {"off", "opening", "watching", "waiting", "returned"}
    /\ exists \subseteq Objects
    /\ \A o \in Objects : version[o] \in 0..MaxVersion[o]
    /\ stream \in Seq(Notification)
    /\ dropped \subseteq Occurrence
    /\ replayed \in [Objects -> 0..ReplayCap]

-----------------------------------------------------------------------------
(* The cluster *)

Latest(o) == [object |-> o, version |-> version[o]]

Notify(type, occurrence) ==
    IF run = "watching"
      THEN Append(stream, [type |-> type, about |-> occurrence])
      ELSE stream

Occurs(o) ==
    /\ version[o] < MaxVersion[o]
    /\ exists' = exists \cup {o}
    /\ version' = [version EXCEPT ![o] = @ + 1]
    /\ stream' = Notify(IF o \in exists THEN "Modified" ELSE "Added",
                        [object |-> o, version |-> version[o] + 1])
    /\ UNCHANGED <<ctx, run, results, dropped, replayed>>

Expires(o) ==
    /\ o \in exists
    /\ exists' = exists \ {o}
    /\ stream' = Notify("Deleted", Latest(o))
    /\ UNCHANGED <<ctx, run, version, results, dropped, replayed>>

ClusterStep == \E o \in Objects : Occurs(o) \/ Expires(o)

-----------------------------------------------------------------------------
(* watchEvents *)

\* Watch succeeds; it never does on a canceled context.
WatchOpens ==
    /\ run = "opening" /\ ctx = "live"
    /\ stream' = SetToSeq({[type |-> "Added", about |-> Latest(o)] : o \in exists})
    /\ replayed' = [o \in Objects |-> IF o \in exists /\ replayed[o] < ReplayCap
                                        THEN replayed[o] + 1 ELSE replayed[o]]
    /\ run' = "watching"
    /\ UNCHANGED <<ctx, cluster, results, dropped>>

\* Mutant: the first error ends the watcher.
AfterErrorReturn == "returned"

\* Mutant: an error on a canceled context is taken for a clean return.
AfterErrorAgain == IF ctx = "done" THEN "opening" ELSE "waiting"

\* What Run does with an error of watchEvents.
AfterError == IF ctx = "done" THEN "returned" ELSE "waiting"

WatchFails ==
    /\ run = "opening"
    /\ run' = AfterError
    /\ UNCHANGED <<ctx, cluster, stream, results, dropped, replayed>>

\* The result channel is closed, or an Error notification arrives.
WatchBreaks ==
    /\ run = "watching"
    /\ run' = AfterError
    /\ stream' = << >>
    /\ UNCHANGED <<ctx, cluster, results, dropped, replayed>>

\* ctx.Done: watchEvents returns nil, and Run goes round once more.
SeeCanceled ==
    /\ run = "watching" /\ ctx = "done"
    /\ run' = "opening" /\ stream' = << >>
    /\ UNCHANGED <<ctx, cluster, results, dropped, replayed>>

\* Mutant: a recurrence is ignored.
RelevantOnce(n) == n.type = "Added" /\ n.about.object \in Failures

\* Mutant: the expiry of an event object counts as its recurrence.
RelevantAlways(n) == n.about.object \in Failures

Relevant(n) == n.type \in {"Added", "Modified"} /\ n.about.object \in Failures

FailedResult(occurrence) ==
    [check |-> CheckName[occurrence.object], status |-> "failed", about |-> occurrence]

\* processEvent's send: a full channel drops the result.
Deliver(occurrence) ==
    IF Len(results) < ResultsCap
      THEN results' = Append(results, FailedResult(occurrence)) /\ UNCHANGED dropped
      ELSE dropped' = dropped \cup {occurrence} /\ UNCHANGED results

processEvent ==
    /\ run = "watching" /\ stream # << >>
    /\ LET n == Head(stream) IN
         IF Relevant(n) THEN Deliver(n.about) ELSE UNCHANGED <<results, dropped>>
    /\ stream' = Tail(stream)
    /\ UNCHANGED <<ctx, run, cluster, replayed>>

\* Ten seconds, or the cancellation.
WaitOver ==
    /\ run = "waiting"
    /\ \/ run' = "opening"
       \/ ctx = "done" /\ run' = "returned"
    /\ UNCHANGED <<ctx, cluster, stream, results, dropped, replayed>>

-----------------------------------------------------------------------------
\* The runtime starts the watcher when a Kubernetes client could be made.
Init(enabled) ==
    /\ run = IF enabled THEN "opening" ELSE "off"
    /\ exists = {} /\ version = [o \in Objects |-> 0]
    /\ stream = << >>
    /\ dropped = {} /\ replayed = [o \in Objects |-> 0]

WatcherStep ==
    \/ WatchOpens \/ WatchFails \/ WatchBreaks \/ SeeCanceled
    \/ processEvent \/ WaitOver
=============================================================================
