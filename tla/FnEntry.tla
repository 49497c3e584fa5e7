------------------------------- MODULE FnEntry -------------------------------
(***************************************************************************)
(* The event entry point Fn / fn (src/fn.go, lines 17-59) under the       *)
(* platform's redelivery.  One storage event names a source object that   *)
(* the matching rule mirrors to Dests.  Each delivery calls Fn, which     *)
(* builds the service from the CONFIG environment variable, calls Mirror, *)
(* and returns an error when either fails; the platform redelivers the    *)
(* event after an error, up to MaxAttempts deliveries, and acknowledges   *)
(* it after nil.  Logging (LOGGING) and message wording are left out.     *)
(***************************************************************************)
EXTENDS Naturals

CONSTANTS
    Dests,        \* the destinations the matching rule writes
    MaxAttempts   \* deliveries the platform makes before it gives up

ASSUME FnEntryAssumption ==
    /\ Dests # {}
    /\ MaxAttempts \in Nat \ {0}

Kinds == {"none", "config", "ok", "notfound", "schema", "error"}

VARIABLES
    exists,    \* the source object is still in the source bucket
    valid,     \* its payload passes the codec and schema check
    attempts,  \* deliveries so far
    status,    \* "pending", "returned" (Fn has returned), "acked" or "dropped"
    fnErr,     \* the last call of Fn returned an error
    outcome,   \* what the last call met: "config" or the Mirror response's kind
    written    \* the destinations some delivery has written

vars == <<exists, valid, attempts, status, fnErr, outcome, written>>

(***************************************************************************)
(* contract.Service.Mirror (not under src/; from the error taxonomy of   *)
(* the spec), given the destinations whose write succeeds: a vanished     *)
(* source is status ok with NotFoundError; a bad payload is status error *)
(* with SchemaError and no Error; a failed destination sets Error.       *)
(***************************************************************************)
MirrorResponse(S) ==
    CASE ~exists -> [status |-> "ok", error |-> FALSE, kind |-> "notfound"]
      [] exists /\ ~valid -> [status |-> "error", error |-> FALSE, kind |-> "schema"]
      [] exists /\ valid /\ S = Dests -> [status |-> "ok", error |-> FALSE, kind |-> "ok"]
      [] OTHER -> [status |-> "error", error |-> TRUE, kind |-> "error"]

\* Mutant: fn tests the response's Status instead of its Error.
FnErrorOnStatus(cfgOk, resp) == ~cfgOk \/ resp.status = "error"

\* Mutant: fn does not look at the response at all.
FnErrorIgnoresResponse(cfgOk, resp) == ~cfgOk

(* fn returns an error when NewFromEnv fails or response.Error != "" *)
FnError(cfgOk, resp) == ~cfgOk \/ resp.error

Init ==
    /\ exists = TRUE
    /\ valid \in BOOLEAN
    /\ attempts = 0
    /\ status = "pending"
    /\ fnErr = FALSE
    /\ outcome = "none"
    /\ written = {}

(***************************************************************************)
(* A delivery: Fn calls fn, which loads the configuration (cfgOk) and,   *)
(* with it, mirrors the source, the writes to S succeeding; Fn wraps and *)
(* returns fn's error.                                                    *)
(***************************************************************************)
Fn ==
    /\ status = "pending"
    /\ attempts' = attempts + 1
    /\ status' = "returned"
    /\ \E cfgOk \in BOOLEAN, S \in SUBSET Dests :
         LET resp == MirrorResponse(S) IN
         /\ fnErr' = FnError(cfgOk, resp)
         /\ outcome' = IF cfgOk THEN resp.kind ELSE "config"
         /\ written' = IF cfgOk /\ exists /\ valid THEN written \cup S ELSE written
    /\ UNCHANGED <<exists, valid>>

\* The platform acknowledges the event, redelivers it, or gives up.
Platform ==
    /\ status = "returned"
    /\ status' = CASE ~fnErr -> "acked"
                   [] fnErr /\ attempts < MaxAttempts -> "pending"
                   [] OTHER -> "dropped"
    /\ UNCHANGED <<exists, valid, attempts, fnErr, outcome, written>>

\* Another system deletes the source object before it is mirrored.
Delete ==
    /\ exists
    /\ status \in {"pending", "returned"}
    /\ exists' = FALSE
    /\ UNCHANGED <<valid, attempts, status, fnErr, outcome, written>>

Next == Fn \/ Platform \/ Delete

Spec == Init /\ [][Next]_vars

-----------------------------------------------------------------------------
\* Fn returns nil, so the platform acknowledges the event, only when every
\* destination has been written by some delivery, or the source was gone
\* or its payload invalid: a partial destination failure is never
\* acknowledged, however the deliveries' partial writes add up.
AckedMeansMirrored ==
    status = "acked" => written = Dests \/ outcome \in {"notfound", "schema"}

\* The spec's error taxonomy: a not-found or a schema error is not retried.
\* The platform redelivers an event only after a configuration error or a
\* failed destination.
NoRetryOnTerminal ==
    [][status = "returned" /\ status' = "pending" =>
         outcome \notin {"notfound", "schema"}]_vars
====
