-------------------------- MODULE MCResultPipeline --------------------------
(* Small instances of ResultPipeline for TLC. *)
EXTENDS ResultPipeline, TLC

CONSTANTS c1, kubeCheck, o1, o2

\* Two objects of one kind and name, in two namespaces, share a check name.
SharedName == [o \in Objects |-> kubeCheck]

\* One of them recurs.
OneRecurs == (o1 :> 2) @@ (o2 :> 1)

\* One agent schedules a check, another one watches its cluster; the workers that
\* never get a job there are left out.
OneWriter == {[checks |-> {c1}, workers |-> Workers, watches |-> FALSE],
              [checks |-> {}, workers |-> {}, watches |-> TRUE]}
=============================================================================
