---------------------------- MODULE CompletionSpec ----------------------------
(***************************************************************************)
(* What the completion of a job promises, whatever the code: a run takes  *)
(* one of the planned call sequences, performs a prefix of it in order,   *)
(* and either stops with an error or reports success having performed it *)
(* all.  A call is an <<action, kind>> pair; done holds the calls that    *)
(* returned without error.                                                 *)
(***************************************************************************)
EXTENDS Naturals, Sequences

CONSTANTS Plans   \* the call sequences a run may be asked to perform

VARIABLES
    plan,    \* the sequence of calls of the current (or last) run
    done,    \* the calls of that run that succeeded, in order
    busy,    \* a run is in progress
    result   \* what the last run returned: "none", "ok" or "err"

vars == <<plan, done, busy, result>>

Init ==
    /\ plan \in Plans
    /\ done = <<>>
    /\ busy = FALSE
    /\ result = "none"

\* A run starts with plan p; with nothing to do it succeeds at once.
Begin(p) ==
    /\ ~busy
    /\ plan' = p
    /\ done' = <<>>
    /\ IF p = <<>>
       THEN busy' = FALSE /\ result' = "ok"
       ELSE busy' = TRUE /\ result' = "none"

\* The next planned call succeeds; after the last one the run succeeds.
Progress ==
    /\ busy
    /\ Len(done) < Len(plan)
    /\ done' = Append(done, plan[Len(done) + 1])
    /\ IF Len(done) + 1 = Len(plan)
       THEN busy' = FALSE /\ result' = "ok"
       ELSE UNCHANGED <<busy, result>>
    /\ UNCHANGED plan

\* A call fails: the run stops with an error, keeping what it has done.
Fail ==
    /\ busy
    /\ busy' = FALSE
    /\ result' = "err"
    /\ UNCHANGED <<plan, done>>

Next == (\E p \in Plans : Begin(p)) \/ Progress \/ Fail

Spec == Init /\ [][Next]_vars
====
