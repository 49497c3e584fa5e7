--------------------------- MODULE CompletionActions ---------------------------
(***************************************************************************)
(* job.Actions.Run (src/fn.go, lines 60-90): the completion of a job runs *)
(* the OnSuccess actions, or the OnFailure actions when the job's context *)
(* holds an error.  Each action's Do is a call on the storage service;   *)
(* on the failure path a successful Do is followed by WriteError.  The   *)
(* first call that fails ends Run with its error; nothing done before it *)
(* is undone.  Actions are model values; a call is <<action, kind>>.      *)
(* Each rule has its own Actions value, the receiver c of the call.      *)
(***************************************************************************)
EXTENDS Integers, Sequences

CONSTANTS
    Actions,     \* the actions a job's completion may hold
    Completions  \* the Actions values: records of OnSuccess and OnFailure

ASSUME CompletionAssumption ==
    /\ Completions \subseteq [OnSuccess : Seq(Actions), OnFailure : Seq(Actions)]
    /\ Completions # {}

Calls == Actions \X {"do", "write"}

VARIABLES
    c,        \* the receiver of the current (or last) call of Run
    isError,  \* context.Error != nil for the current run
    pc,       \* "idle" (Run not running), "do" or "write"
    i,        \* the index of the action being run
    done,     \* the calls of the current run that returned nil, in order
    result    \* what Run last returned: "none", "ok" or "err"

vars == <<c, isError, pc, i, done, result>>

(* actions := c.OnSuccess, or c.OnFailure when context.Error != nil *)
Chosen(x, e) == IF e THEN x.OnFailure ELSE x.OnSuccess

TypeOK ==
    /\ c \in Completions
    /\ isError \in BOOLEAN
    /\ pc \in {"idle", "do", "write"}
    /\ pc # "idle" => i \in 1..Len(Chosen(c, isError))
    /\ i \in Nat \ {0}
    /\ done \in Seq(Calls)
    /\ result \in {"none", "ok", "err"}

\* Mutant: WriteError is never called.
WritesErrorNever(e) == FALSE

(* if err == nil && isError: the Do succeeded on the failure path *)
WritesError(e) == e

\* Mutant: the loop's end is tested one action too late.
LastActionOffByOne(k, l) == k > Len(l)

(* the range over actions is at its last element *)
LastAction(k, l) == k = Len(l)

(* After the call of action i: on to the next action, or return nil. *)
NextAction ==
    IF LastAction(i, Chosen(c, isError))
    THEN pc' = "idle" /\ result' = "ok" /\ UNCHANGED i
    ELSE pc' = "do" /\ i' = i + 1 /\ UNCHANGED result

Init ==
    /\ c \in Completions
    /\ isError = FALSE
    /\ pc = "idle"
    /\ i = 1
    /\ done = <<>>
    /\ result = "none"

(* Run is called with a context whose Error is set or not; with no action *)
(* to run it returns nil at once.                                         *)
Start(x, e) ==
    /\ pc = "idle"
    /\ c' = x
    /\ isError' = e
    /\ done' = <<>>
    /\ i' = 1
    /\ IF Len(Chosen(x, e)) = 0
       THEN pc' = "idle" /\ result' = "ok"
       ELSE pc' = "do" /\ result' = "none"

(* err := action.Do(context, service) *)
Do ==
    /\ pc = "do"
    /\ \/ /\ done' = Append(done, <<Chosen(c, isError)[i], "do">>)
          /\ IF WritesError(isError)
             THEN pc' = "write" /\ UNCHANGED <<i, result>>
             ELSE NextAction
       \/ /\ pc' = "idle"
          /\ result' = "err"
          /\ UNCHANGED <<i, done>>
    /\ UNCHANGED <<c, isError>>

(* err = action.WriteError(context, service) *)
Write ==
    /\ pc = "write"
    /\ \/ /\ done' = Append(done, <<Chosen(c, isError)[i], "write">>)
          /\ NextAction
       \/ /\ pc' = "idle"
          /\ result' = "err"
          /\ UNCHANGED <<i, done>>
    /\ UNCHANGED <<c, isError>>

Next == (\E x \in Completions, e \in BOOLEAN : Start(x, e)) \/ Do \/ Write

Spec == Init /\ [][Next]_vars

-----------------------------------------------------------------------------
(***************************************************************************)
(* The calls a run is meant to make: every action's Do, each followed by *)
(* WriteError on the failure path.                                        *)
(***************************************************************************)
Plan(l, e) ==
    IF e THEN [k \in 1..2 * Len(l) |->
                 <<l[(k + 1) \div 2], IF k % 2 = 1 THEN "do" ELSE "write">>]
         ELSE [k \in 1..Len(l) |-> <<l[k], "do">>]

Abstract == INSTANCE CompletionSpec WITH
    Plans <- {Plan(Chosen(x, e), e) : x \in Completions, e \in BOOLEAN},
    plan <- Plan(Chosen(c, isError), isError),
    busy <- pc # "idle"

\* Run implements the completion contract: its successful calls follow the
\* plan in order (each Do, then WriteError on the failure path), it stops at
\* the first failing call, and it returns nil only after the whole plan.
RefinesCompletionSpec == Abstract!Spec
====
