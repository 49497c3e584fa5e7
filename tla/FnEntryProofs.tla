---------------------------- MODULE FnEntryProofs ----------------------------
(***************************************************************************)
(* Proofs, for every set of destinations and every bound on deliveries,  *)
(* that the platform acknowledges an event only when it is mirrored, and *)
(* never redelivers one whose Mirror ended in a not-found or schema      *)
(* error.                                                                *)
(***************************************************************************)
EXTENDS FnEntry, TLAPS

(* The outcomes after which the event counts as mirrored. *)
Mirrored == written = Dests \/ outcome \in {"notfound", "schema"}

(***************************************************************************)
(* The inductive invariant.  AckedMeansMirrored alone is not inductive:   *)
(* the platform acknowledges whenever Fn returned nil, so the invariant   *)
(* must say what a nil return of Fn means (ReturnedNilMirrored), and that *)
(* Fn never returns an error after a not-found or schema outcome          *)
(* (TerminalIsNil), which is what keeps those outcomes from redelivery.  *)
(***************************************************************************)
TypeInv ==
    /\ exists \in BOOLEAN
    /\ valid \in BOOLEAN
    /\ attempts \in Nat
    /\ status \in {"pending", "returned", "acked", "dropped"}
    /\ fnErr \in BOOLEAN
    /\ outcome \in Kinds
    /\ written \subseteq Dests

ReturnedNilMirrored == status = "returned" /\ ~fnErr => Mirrored

TerminalIsNil == outcome \in {"notfound", "schema"} => ~fnErr

IInv ==
    /\ TypeInv
    /\ ReturnedNilMirrored
    /\ TerminalIsNil
    /\ AckedMeansMirrored

-----------------------------------------------------------------------------
\* What fn can learn from Mirror's response: Error is unset only for a
\* vanished source, an invalid payload, or a write to every destination of
\* a present, valid source; a not-found or schema response has no Error.
LEMMA MirrorFacts ==
    ASSUME NEW S \in SUBSET Dests, exists \in BOOLEAN, valid \in BOOLEAN
    PROVE  /\ MirrorResponse(S).kind \in Kinds
           /\ MirrorResponse(S).error \in BOOLEAN
           /\ ~MirrorResponse(S).error =>
                 \/ MirrorResponse(S).kind \in {"notfound", "schema"}
                 \/ exists /\ valid /\ S = Dests
           /\ MirrorResponse(S).kind \in {"notfound", "schema"} =>
                 ~MirrorResponse(S).error
<1>1. CASE ~exists
  <2>1. MirrorResponse(S) = [status |-> "ok", error |-> FALSE, kind |-> "notfound"]
    BY <1>1 DEF MirrorResponse
  <2>. QED BY <1>1, <2>1 DEF Kinds
<1>2. CASE exists /\ ~valid
  <2>1. MirrorResponse(S) = [status |-> "error", error |-> FALSE, kind |-> "schema"]
    BY <1>2 DEF MirrorResponse
  <2>. QED BY <1>2, <2>1 DEF Kinds
<1>3. CASE exists /\ valid /\ S = Dests
  <2>1. MirrorResponse(S) = [status |-> "ok", error |-> FALSE, kind |-> "ok"]
    BY <1>3 DEF MirrorResponse
  <2>. QED BY <1>3, <2>1 DEF Kinds
<1>4. CASE exists /\ valid /\ S # Dests
  <2>1. MirrorResponse(S) = [status |-> "error", error |-> TRUE, kind |-> "error"]
    BY <1>4 DEF MirrorResponse
  <2>. QED BY <1>4, <2>1 DEF Kinds
<1>. QED BY <1>1, <1>2, <1>3, <1>4

\* Before the first delivery nothing is returned or acknowledged.
LEMMA InitIInv == Init => IInv
<1>. SUFFICES ASSUME Init PROVE IInv
  OBVIOUS
<1>1. exists \in BOOLEAN /\ valid \in BOOLEAN /\ fnErr \in BOOLEAN
  BY DEF Init
<1>2. attempts \in Nat /\ written \subseteq Dests
  BY DEF Init
<1>3. status = "pending" /\ outcome = "none" /\ outcome \in Kinds
  BY DEF Init, Kinds
<1>. QED BY <1>1, <1>2, <1>3 DEF IInv, TypeInv, ReturnedNilMirrored, TerminalIsNil,
                                AckedMeansMirrored

\* A delivery: fn returns nil only when the response has no Error and the
\* configuration loaded, which is when the event is mirrored.
LEMMA FnIInv ==
    ASSUME IInv, Fn
    PROVE  IInv'
<1>1. PICK cfgOk \in BOOLEAN, S \in SUBSET Dests :
          /\ fnErr' = FnError(cfgOk, MirrorResponse(S))
          /\ outcome' = IF cfgOk THEN MirrorResponse(S).kind ELSE "config"
          /\ written' = IF cfgOk /\ exists /\ valid THEN written \cup S ELSE written
  BY DEF Fn
<1>2. /\ MirrorResponse(S).kind \in Kinds
      /\ MirrorResponse(S).error \in BOOLEAN
      /\ ~MirrorResponse(S).error =>
            \/ MirrorResponse(S).kind \in {"notfound", "schema"}
            \/ exists /\ valid /\ S = Dests
      /\ MirrorResponse(S).kind \in {"notfound", "schema"} => ~MirrorResponse(S).error
  BY MirrorFacts DEF IInv, TypeInv
<1>3. status' = "returned" /\ status = "pending" /\ attempts' = attempts + 1
      /\ exists' = exists /\ valid' = valid
  BY DEF Fn
<1>4. TypeInv'
  BY <1>1, <1>2, <1>3 DEF IInv, TypeInv, FnError, Kinds
<1>5. ReturnedNilMirrored'
  BY <1>1, <1>2, <1>3 DEF IInv, TypeInv, ReturnedNilMirrored, Mirrored, FnError
<1>6. TerminalIsNil'
  BY <1>1, <1>2 DEF TerminalIsNil, FnError
<1>7. AckedMeansMirrored'
  BY <1>3 DEF AckedMeansMirrored
<1>. QED BY <1>4, <1>5, <1>6, <1>7 DEF IInv

\* The platform acknowledges after nil, which is then mirrored; otherwise
\* it redelivers or gives up.
LEMMA PlatformIInv ==
    ASSUME IInv, Platform
    PROVE  IInv'
<1>1. status = "returned" /\ UNCHANGED <<exists, valid, attempts, fnErr, outcome, written>>
  BY DEF Platform
<1>2. status' \in {"acked", "pending", "dropped"} /\ (status' = "acked" => ~fnErr)
  BY DEF Platform
<1>. QED BY <1>1, <1>2 DEF IInv, TypeInv, ReturnedNilMirrored, TerminalIsNil,
                           AckedMeansMirrored, Mirrored

\* Deleting the source changes nothing that was returned or acknowledged.
LEMMA DeleteIInv ==
    ASSUME IInv, Delete
    PROVE  IInv'
BY DEF Delete, IInv, TypeInv, ReturnedNilMirrored, TerminalIsNil,
       AckedMeansMirrored, Mirrored

\* Every step keeps the invariant.
LEMMA NextIInv == IInv /\ [Next]_vars => IInv'
<1>. SUFFICES ASSUME IInv, [Next]_vars PROVE IInv'
  OBVIOUS
<1>1. CASE Fn
  BY <1>1, FnIInv
<1>2. CASE Platform
  BY <1>2, PlatformIInv
<1>3. CASE Delete
  BY <1>3, DeleteIInv
<1>4. CASE UNCHANGED vars
  BY <1>4 DEF vars, IInv, TypeInv, ReturnedNilMirrored, TerminalIsNil,
              AckedMeansMirrored, Mirrored
<1>. QED BY <1>1, <1>2, <1>3, <1>4 DEF Next

\* The platform acknowledges an event only when every destination has
\* been written by some delivery, or the source was gone or invalid: fn's
\* test of response.Error keeps a partial destination failure from being
\* acknowledged, however many deliveries there are.
THEOREM AckedMirrored == Spec => []AckedMeansMirrored
<1>1. Spec => []IInv
  BY InitIInv, NextIInv, PTL DEF Spec
<1>. QED BY <1>1, PTL DEF IInv

\* The platform never redelivers an event after a not-found or schema
\* error, because fn returns nil for both (it tests Error, not Status).
THEOREM NoTerminalRetry == Spec => NoRetryOnTerminal
<1>1. Spec => []IInv
  BY InitIInv, NextIInv, PTL DEF Spec
<1>2. IInv /\ [Next]_vars =>
        [status = "returned" /\ status' = "pending" => outcome \notin {"notfound", "schema"}]_vars
  <2>. SUFFICES ASSUME IInv, [Next]_vars, status = "returned", status' = "pending"
                PROVE  outcome \notin {"notfound", "schema"}
    OBVIOUS
  <2>1. Platform
    BY DEF Next, Fn, Delete, vars
  <2>3. ~fnErr => status' = "acked"
    BY <2>1 DEF Platform
  <2>2. fnErr
    BY <2>3 DEF IInv, TypeInv
  <2>. QED BY <2>2 DEF IInv, TerminalIsNil
<1>. QED BY <1>1, <1>2, PTL DEF NoRetryOnTerminal, Spec
====
