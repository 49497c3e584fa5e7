------------------------ MODULE CompletionActionsProofs ------------------------
(***************************************************************************)
(* Proofs, for all sets of actions and all rule configurations, that     *)
(* job.Actions.Run keeps its state well typed and implements the         *)
(* completion contract of CompletionSpec.                                 *)
(***************************************************************************)
EXTENDS CompletionActions, TLAPS

(* The list the current run iterates over, and the calls it plans. *)
RunList == Chosen(c, isError)
RunPlan == Plan(RunList, isError)

(***************************************************************************)
(* The inductive invariant: the successful calls are a prefix of the plan *)
(* whose length is fixed by the loop's position (two calls per action on *)
(* the failure path, one on the success path); a run in progress has     *)
(* returned nothing yet, and a run that returned nil did the whole plan. *)
(***************************************************************************)
IInv ==
    /\ TypeOK
    /\ Len(done) <= Len(RunPlan)
    /\ \A k \in 1..Len(done) : done[k] = RunPlan[k]
    /\ pc = "do" => Len(done) = IF isError THEN 2 * (i - 1) ELSE i - 1
    /\ pc = "write" => isError /\ Len(done) = 2 * i - 1
    /\ pc # "idle" => result = "none"
    /\ result = "ok" => Len(done) = Len(RunPlan)

-----------------------------------------------------------------------------
\* Each rule's configuration yields a list of actions for either path of
\* Run (the choice of c.OnSuccess or c.OnFailure).
LEMMA ChosenType ==
    ASSUME NEW x \in Completions, NEW e \in BOOLEAN
    PROVE  Chosen(x, e) \in Seq(Actions)
BY CompletionAssumption DEF Chosen

\* The plan of a list is a sequence of calls: one Do per action, each
\* followed by a WriteError on the failure path.
LEMMA PlanFacts ==
    ASSUME NEW l \in Seq(Actions), NEW e \in BOOLEAN
    PROVE  /\ Plan(l, e) \in Seq(Calls)
           /\ Len(Plan(l, e)) = IF e THEN 2 * Len(l) ELSE Len(l)
           /\ \A k \in 1..Len(l) :
                 /\ e => /\ Plan(l, e)[2 * k - 1] = <<l[k], "do">>
                         /\ Plan(l, e)[2 * k] = <<l[k], "write">>
                 /\ ~e => Plan(l, e)[k] = <<l[k], "do">>
<1>1. CASE e
  <2>1. Plan(l, e) = [k \in 1..2 * Len(l) |->
                        <<l[(k + 1) \div 2], IF k % 2 = 1 THEN "do" ELSE "write">>]
    BY <1>1 DEF Plan
  <2>2. \A k \in 1..2 * Len(l) : (k + 1) \div 2 \in 1..Len(l)
    OBVIOUS
  <2>3. \A k \in 1..Len(l) : /\ (2 * k - 1 + 1) \div 2 = k /\ (2 * k - 1) % 2 = 1
                             /\ (2 * k + 1) \div 2 = k /\ (2 * k) % 2 = 0
    OBVIOUS
  <2>4. \A k \in 1..2 * Len(l) :
           <<l[(k + 1) \div 2], IF k % 2 = 1 THEN "do" ELSE "write">> \in Calls
    BY <2>2 DEF Calls
  <2>5. Plan(l, e) \in Seq(Calls)
    BY <2>1, <2>4
  <2>6. Len(Plan(l, e)) = 2 * Len(l)
    BY <2>1
  <2>7. \A k \in 1..Len(l) : /\ Plan(l, e)[2 * k - 1] = <<l[k], "do">>
                             /\ Plan(l, e)[2 * k] = <<l[k], "write">>
    BY <2>1, <2>3
  <2>. QED BY <1>1, <2>5, <2>6, <2>7
<1>2. CASE ~e
  <2>1. Plan(l, e) = [k \in 1..Len(l) |-> <<l[k], "do">>]
    BY <1>2 DEF Plan
  <2>2. Plan(l, e) \in Seq(Calls)
    BY <2>1 DEF Calls
  <2>. QED BY <1>2, <2>1, <2>2
<1>. QED BY <1>1, <1>2
-----------------------------------------------------------------------------
\* Before Run is first called, the invariant holds for any rule's Actions.
LEMMA InitIInv == Init => IInv
<1>. SUFFICES ASSUME Init PROVE IInv
  OBVIOUS
<1>1. RunList \in Seq(Actions) /\ isError \in BOOLEAN
  BY ChosenType DEF Init, RunList
<1>2. RunPlan \in Seq(Calls)
  BY <1>1, PlanFacts DEF RunPlan
<1>3. done = <<>> /\ Len(done) = 0 /\ done \in Seq(Calls)
  BY DEF Init
<1>4. Len(done) <= Len(RunPlan) /\ \A k \in 1..Len(done) : done[k] = RunPlan[k]
  BY <1>2, <1>3
<1>5. TypeOK
  <2>1. c \in Completions /\ isError \in BOOLEAN
    BY DEF Init
  <2>4. i \in Nat \ {0}
    BY DEF Init
  <2>2. pc \in {"idle", "do", "write"} /\ result \in {"none", "ok", "err"}
    BY DEF Init
  <2>3. done \in Seq(Calls) /\ (pc # "idle" => i \in 1..Len(Chosen(c, isError)))
    BY DEF Init
  <2>. QED BY <2>1, <2>2, <2>3, <2>4 DEF TypeOK
<1>6. pc = "idle" /\ result = "none"
  BY DEF Init
<1>. QED BY <1>4, <1>5, <1>6 DEF IInv

\* A call of Run picks the receiver's list for its context and starts the
\* plan from nothing, or returns nil at once when the list is empty.
LEMMA StartIInv ==
    ASSUME IInv, NEW x \in Completions, NEW e \in BOOLEAN, Start(x, e)
    PROVE  IInv'
<1>1. RunList' = Chosen(x, e) /\ RunList' \in Seq(Actions)
  BY ChosenType DEF Start, RunList
<1>2. Len(RunPlan') = IF e THEN 2 * Len(RunList') ELSE Len(RunList')
  BY <1>1, PlanFacts DEF Start, RunPlan
<1>3. TypeOK'
  BY <1>1 DEF IInv, TypeOK, Start
<1>. QED BY <1>1, <1>2, <1>3 DEF IInv, Start

\* The plan's call at position Len(done) + 1 is the one the loop makes
\* next: Do of action i (position i, or 2i - 1 on the failure path), or
\* its WriteError (position 2i).
LEMMA NextCall ==
    ASSUME IInv, pc \in {"do", "write"}
    PROVE  /\ RunList \in Seq(Actions)
           /\ i \in 1..Len(RunList)
           /\ Len(RunPlan) = IF isError THEN 2 * Len(RunList) ELSE Len(RunList)
           /\ RunPlan \in Seq(Calls)
           /\ RunPlan[Len(done) + 1] = <<RunList[i], pc>>
<1>1. RunList \in Seq(Actions) /\ i \in 1..Len(RunList) /\ isError \in BOOLEAN
  BY ChosenType DEF IInv, TypeOK, RunList
<1>2. /\ Len(RunPlan) = IF isError THEN 2 * Len(RunList) ELSE Len(RunList)
      /\ RunPlan \in Seq(Calls)
  BY <1>1, PlanFacts DEF RunPlan
<1>3. CASE pc = "do" /\ isError
  <2>1. Len(done) + 1 = 2 * i - 1
    BY <1>1, <1>3 DEF IInv
  <2>. QED BY <1>1, <1>2, <1>3, <2>1, PlanFacts DEF RunPlan
<1>4. CASE pc = "do" /\ ~isError
  <2>1. Len(done) + 1 = i
    BY <1>1, <1>4 DEF IInv
  <2>. QED BY <1>1, <1>2, <1>4, <2>1, PlanFacts DEF RunPlan
<1>5. CASE pc = "write"
  <2>1. isError /\ Len(done) + 1 = 2 * i
    BY <1>1, <1>5 DEF IInv
  <2>. QED BY <1>1, <1>2, <1>5, <2>1, PlanFacts DEF RunPlan
<1>. QED BY <1>1, <1>2, <1>3, <1>4, <1>5

\* A call that returns nil appends the plan's next call to done.
LEMMA AppendNext ==
    ASSUME IInv, pc \in {"do", "write"},
           done' = Append(done, RunPlan[Len(done) + 1]),
           RunPlan' = RunPlan
    PROVE  /\ done' \in Seq(Calls)
           /\ Len(done') = Len(done) + 1
           /\ Len(done') <= Len(RunPlan')
           /\ \A k \in 1..Len(done') : done'[k] = RunPlan'[k]
<1>1. RunPlan \in Seq(Calls) /\ Len(done) + 1 <= Len(RunPlan)
  <2>1. Len(done) + 1 <= Len(RunPlan)
    BY NextCall DEF IInv, TypeOK
  <2>. QED BY <2>1, NextCall
<1>. QED BY <1>1 DEF IInv, TypeOK

\* After a call that returned nil, NextAction either returns nil with the
\* whole plan done (at the last action) or moves to the next action's Do.
LEMMA AfterCall ==
    ASSUME IInv, pc \in {"do", "write"}, NextAction,
           Len(done') = IF isError THEN 2 * i ELSE i,
           UNCHANGED <<c, isError>>
    PROVE  /\ pc' \in {"idle", "do"}
           /\ i' \in Nat \ {0}
           /\ pc' # "idle" => i' \in 1..Len(RunList') /\ result' = "none"
           /\ pc' = "do" => Len(done') = IF isError' THEN 2 * (i' - 1) ELSE i' - 1
           /\ result' \in {"none", "ok", "err"}
           /\ result' = "ok" => Len(done') = Len(RunPlan')
<1>1. /\ i \in 1..Len(RunList)
      /\ Len(RunPlan) = IF isError THEN 2 * Len(RunList) ELSE Len(RunList)
  BY NextCall
<1>2. RunList' = RunList /\ RunPlan' = RunPlan
  BY DEF RunList, RunPlan
<1>3. CASE i = Len(RunList)
  BY <1>1, <1>2, <1>3 DEF NextAction, LastAction, RunList
<1>4. CASE i # Len(RunList)
  <2>1. pc' = "do" /\ i' = i + 1 /\ result' = result /\ result = "none"
    BY <1>4 DEF NextAction, LastAction, RunList, IInv
  <2>2. i' \in 1..Len(RunList') /\ i' \in Nat \ {0}
    BY <1>1, <1>2, <1>4, <2>1
  <2>5. isError' = isError /\ isError \in BOOLEAN
    BY DEF IInv, TypeOK
  <2>6. i \in Nat
    BY <1>1
  <2>3. CASE isError
    <3>1. Len(done') = 2 * i /\ isError' = TRUE
      BY <2>3, <2>5
    <3>. QED BY <2>1, <2>2, <2>6, <3>1
  <2>4. CASE ~isError
    <3>1. Len(done') = i /\ isError' = FALSE
      BY <2>4, <2>5
    <3>. QED BY <2>1, <2>2, <2>6, <3>1
  <2>. QED BY <2>1, <2>2, <2>3, <2>4, <2>5
<1>. QED BY <1>3, <1>4

\* A Do call: on nil it appends the plan's next call and goes on to
\* WriteError (failure path) or to the next action; on an error Run
\* returns it, keeping what it did.
LEMMA DoIInv ==
    ASSUME IInv, Do
    PROVE  IInv'
<1>1. pc = "do" /\ UNCHANGED <<c, isError>>
  BY DEF Do
<1>2. RunList' = RunList /\ RunPlan' = RunPlan
  BY <1>1 DEF RunList, RunPlan
<1>3. /\ RunPlan[Len(done) + 1] = <<RunList[i], "do">>
      /\ i \in 1..Len(RunList) /\ RunList \in Seq(Actions)
  BY <1>1, NextCall
<1>4. CASE /\ done' = Append(done, <<Chosen(c, isError)[i], "do">>)
           /\ IF WritesError(isError)
              THEN pc' = "write" /\ UNCHANGED <<i, result>>
              ELSE NextAction
  <2>1. done' = Append(done, RunPlan[Len(done) + 1])
    BY <1>3, <1>4 DEF RunList
  <2>2. /\ done' \in Seq(Calls)
        /\ Len(done') = Len(done) + 1
        /\ Len(done') <= Len(RunPlan')
        /\ \A k \in 1..Len(done') : done'[k] = RunPlan'[k]
    BY <1>1, <1>2, <2>1, AppendNext
  <2>3. Len(done) = IF isError THEN 2 * (i - 1) ELSE i - 1
    BY <1>1 DEF IInv
  <2>6. isError \in BOOLEAN /\ c' = c /\ isError' = isError /\ result = "none"
    BY <1>1 DEF IInv, TypeOK
  <2>4. CASE isError
    <3>1. pc' = "write" /\ i' = i /\ result' = result
      BY <2>4, <1>4 DEF WritesError
    <3>2. Len(done) = 2 * (i - 1)
      BY <2>3, <2>4
    <3>3. Len(done') = 2 * i - 1
      BY <2>2, <3>2, <1>3
    <3>. QED BY <3>1, <3>3, <2>2, <2>4, <2>6, <1>2, <1>3 DEF IInv, TypeOK, RunList
  <2>5. CASE ~isError
    <3>1. NextAction
      BY <2>5, <1>4 DEF WritesError
    <3>2. Len(done) = i - 1
      BY <2>3, <2>5
    <3>3. Len(done') = IF isError THEN 2 * i ELSE i
      BY <2>2, <2>5, <3>2, <1>3
    <3>4. /\ pc' \in {"idle", "do"}
          /\ i' \in Nat \ {0}
          /\ pc' # "idle" => i' \in 1..Len(RunList') /\ result' = "none"
          /\ pc' = "do" => Len(done') = IF isError' THEN 2 * (i' - 1) ELSE i' - 1
          /\ result' \in {"none", "ok", "err"}
          /\ result' = "ok" => Len(done') = Len(RunPlan')
      BY <1>1, <3>1, <3>3, AfterCall
    <3>. QED BY <3>4, <2>2, <2>6 DEF IInv, TypeOK, RunList
  <2>. QED BY <2>4, <2>5, <2>6
<1>5. CASE pc' = "idle" /\ result' = "err" /\ UNCHANGED <<i, done>>
  BY <1>1, <1>2, <1>5 DEF IInv, TypeOK, RunList
<1>. QED BY <1>4, <1>5 DEF Do

\* A WriteError call: on nil it appends the action's WriteError and goes
\* on to the next action; on an error Run returns it.
LEMMA WriteIInv ==
    ASSUME IInv, Write
    PROVE  IInv'
<1>1. pc = "write" /\ UNCHANGED <<c, isError>>
  BY DEF Write
<1>2. RunList' = RunList /\ RunPlan' = RunPlan
  BY <1>1 DEF RunList, RunPlan
<1>3. /\ RunPlan[Len(done) + 1] = <<RunList[i], "write">>
      /\ i \in 1..Len(RunList) /\ RunList \in Seq(Actions)
  BY <1>1, NextCall
<1>6. isError /\ isError' = isError /\ c' = c /\ Len(done) = 2 * i - 1
  BY <1>1 DEF IInv
<1>4. CASE done' = Append(done, <<Chosen(c, isError)[i], "write">>) /\ NextAction
  <2>1. done' = Append(done, RunPlan[Len(done) + 1])
    BY <1>3, <1>4 DEF RunList
  <2>2. /\ done' \in Seq(Calls)
        /\ Len(done') = Len(done) + 1
        /\ Len(done') <= Len(RunPlan')
        /\ \A k \in 1..Len(done') : done'[k] = RunPlan'[k]
    BY <1>1, <1>2, <2>1, AppendNext
  <2>3. Len(done') = 2 * i
    BY <2>2, <1>6, <1>3
  <2>4. Len(done') = IF isError THEN 2 * i ELSE i
    BY <2>3, <1>6
  <2>5. /\ pc' \in {"idle", "do"}
        /\ i' \in Nat \ {0}
        /\ pc' # "idle" => i' \in 1..Len(RunList') /\ result' = "none"
        /\ pc' = "do" => Len(done') = IF isError' THEN 2 * (i' - 1) ELSE i' - 1
        /\ result' \in {"none", "ok", "err"}
        /\ result' = "ok" => Len(done') = Len(RunPlan')
    BY <1>1, <1>4, <2>4, AfterCall
  <2>. QED BY <2>2, <2>5, <1>6 DEF IInv, TypeOK, RunList
<1>5. CASE pc' = "idle" /\ result' = "err" /\ UNCHANGED <<i, done>>
  BY <1>1, <1>2, <1>5 DEF IInv, TypeOK, RunList
<1>. QED BY <1>4, <1>5 DEF Write

\* Every step of Run (or of its caller) keeps the invariant.
LEMMA NextIInv == IInv /\ [Next]_vars => IInv'
<1>. SUFFICES ASSUME IInv, [Next]_vars PROVE IInv'
  OBVIOUS
<1>1. CASE \E x \in Completions, e \in BOOLEAN : Start(x, e)
  BY <1>1, StartIInv
<1>2. CASE Do
  BY <1>2, DoIInv
<1>3. CASE Write
  BY <1>3, WriteIInv
<1>4. CASE UNCHANGED vars
  BY <1>4 DEF vars, IInv, TypeOK, RunPlan, RunList
<1>. QED BY <1>1, <1>2, <1>3, <1>4 DEF Next

\* Run's state stays well typed in every reachable state.
THEOREM TypeCorrect == Spec => []TypeOK
<1>1. IInv => TypeOK
  BY DEF IInv
<1>. QED BY <1>1, InitIInv, NextIInv, PTL DEF Spec

-----------------------------------------------------------------------------
(***************************************************************************)
(* The refinement: each step of Run is a step of CompletionSpec under the *)
(* mapping plan <- RunPlan, busy <- pc # "idle".                          *)
(***************************************************************************)

\* In a call that returned nil, Run returns nil exactly when the plan is
\* complete: the loop's position bounds the calls done so far.
LEMMA CompleteIffIdle ==
    ASSUME IInv', pc' # "idle"
    PROVE  Len(done') < Len(RunPlan')
<1>1. RunList' \in Seq(Actions) /\ i' \in 1..Len(RunList') /\ isError' \in BOOLEAN
  BY ChosenType DEF IInv, TypeOK, RunList
<1>2. Len(RunPlan') = IF isError' THEN 2 * Len(RunList') ELSE Len(RunList')
  BY <1>1, PlanFacts DEF RunPlan
<1>3. CASE pc' = "do"
  <2>1. Len(done') = IF isError' THEN 2 * (i' - 1) ELSE i' - 1
    BY <1>3 DEF IInv
  <2>2. CASE isError'
    BY <1>1, <1>2, <2>1, <2>2
  <2>3. CASE ~isError'
    BY <1>1, <1>2, <2>1, <2>3
  <2>. QED BY <2>2, <2>3
<1>4. CASE pc' = "write"
  <2>1. isError' /\ Len(done') = 2 * i' - 1
    BY <1>4 DEF IInv
  <2>. QED BY <1>1, <1>2, <2>1
<1>. QED BY <1>3, <1>4 DEF IInv, TypeOK

\* A call that returned nil is the abstract Progress step.
LEMMA SuccessRefines ==
    ASSUME IInv, IInv', pc \in {"do", "write"},
           done' = Append(done, RunPlan[Len(done) + 1]),
           RunPlan' = RunPlan,
           pc' = "idle" => result' = "ok"
    PROVE  Abstract!Progress
<1>1. /\ done' \in Seq(Calls)
      /\ Len(done') = Len(done) + 1
      /\ Len(done') <= Len(RunPlan')
  BY AppendNext
<1>2. result = "none"
  BY DEF IInv
<1>3. CASE pc' = "idle"
  <2>1. result' = "ok" /\ Len(done') = Len(RunPlan')
    BY <1>3 DEF IInv
  <2>. QED BY <1>1, <1>3, <2>1 DEF Abstract!Progress, RunPlan, RunList
<1>4. CASE pc' # "idle"
  <2>1. Len(done') < Len(RunPlan') /\ result' = "none"
    BY <1>4, CompleteIffIdle DEF IInv
  <2>. QED BY <1>1, <1>2, <1>4, <2>1 DEF Abstract!Progress, RunPlan, RunList
<1>. QED BY <1>3, <1>4

\* A call that returned an error is the abstract Fail step.
LEMMA FailRefines ==
    ASSUME IInv, pc \in {"do", "write"}, UNCHANGED <<c, isError>>,
           pc' = "idle", result' = "err", UNCHANGED <<i, done>>
    PROVE  Abstract!Fail
BY DEF Abstract!Fail, RunPlan, RunList

\* A call of Run is the abstract Begin step with the plan of its list.
LEMMA StartRefines ==
    ASSUME IInv, NEW x \in Completions, NEW e \in BOOLEAN, Start(x, e)
    PROVE  Abstract!Begin(Plan(Chosen(x, e), e))
<1>2. Chosen(x, e) \in Seq(Actions)
  BY ChosenType
<1>3. /\ Plan(Chosen(x, e), e) \in Seq(Calls)
      /\ Len(Plan(Chosen(x, e), e)) = IF e THEN 2 * Len(Chosen(x, e)) ELSE Len(Chosen(x, e))
  BY <1>2, PlanFacts
<1>4. (Plan(Chosen(x, e), e) = <<>>) <=> (Len(Chosen(x, e)) = 0)
  <2>1. (Plan(Chosen(x, e), e) = <<>>) <=> (Len(Plan(Chosen(x, e), e)) = 0)
    BY <1>3
  <2>2. CASE e
    <3>1. Len(Plan(Chosen(x, e), e)) = 2 * Len(Chosen(x, e))
      BY <1>3, <2>2
    <3>. QED BY <1>2, <2>1, <3>1
  <2>3. CASE ~e
    <3>1. Len(Plan(Chosen(x, e), e)) = Len(Chosen(x, e))
      BY <1>3, <2>3
    <3>. QED BY <1>2, <2>1, <3>1
  <2>. QED BY <2>2, <2>3
<1>5. pc = "idle" /\ RunPlan' = Plan(Chosen(x, e), e)
  BY DEF Start, RunPlan, RunList
<1>. QED BY <1>4, <1>5 DEF Abstract!Begin, Start, RunPlan, RunList

\* Every step of Run is a step of CompletionSpec or leaves its state alone.
LEMMA StepRefines ==
    ASSUME IInv, IInv', [Next]_vars
    PROVE  [Abstract!Next]_Abstract!vars
<1>1. CASE \E x \in Completions, e \in BOOLEAN : Start(x, e)
  <2>1. PICK x \in Completions, e \in BOOLEAN : Start(x, e)
    BY <1>1
  <2>2. Plan(Chosen(x, e), e) \in {Plan(Chosen(y, f), f) : y \in Completions, f \in BOOLEAN}
    OBVIOUS
  <2>. QED BY <2>1, <2>2, StartRefines DEF Abstract!Next
<1>2. CASE Do
  <2>1. pc = "do" /\ UNCHANGED <<c, isError>> /\ RunPlan' = RunPlan
    BY <1>2 DEF Do, RunPlan, RunList
  <2>2. RunPlan[Len(done) + 1] = <<Chosen(c, isError)[i], "do">>
    BY <2>1, NextCall DEF RunList
  <2>3. CASE /\ done' = Append(done, <<Chosen(c, isError)[i], "do">>)
             /\ IF WritesError(isError)
                THEN pc' = "write" /\ UNCHANGED <<i, result>>
                ELSE NextAction
    <3>1. pc' = "idle" => result' = "ok"
      BY <2>3 DEF NextAction
    <3>. QED BY <2>1, <2>2, <2>3, <3>1, SuccessRefines DEF Abstract!Next
  <2>4. CASE pc' = "idle" /\ result' = "err" /\ UNCHANGED <<i, done>>
    BY <2>1, <2>4, FailRefines DEF Abstract!Next
  <2>. QED BY <1>2, <2>3, <2>4 DEF Do
<1>3. CASE Write
  <2>1. pc = "write" /\ UNCHANGED <<c, isError>> /\ RunPlan' = RunPlan
    BY <1>3 DEF Write, RunPlan, RunList
  <2>2. RunPlan[Len(done) + 1] = <<Chosen(c, isError)[i], "write">>
    BY <2>1, NextCall DEF RunList
  <2>3. CASE done' = Append(done, <<Chosen(c, isError)[i], "write">>) /\ NextAction
    <3>1. pc' = "idle" => result' = "ok"
      BY <2>3 DEF NextAction
    <3>. QED BY <2>1, <2>2, <2>3, <3>1, SuccessRefines DEF Abstract!Next
  <2>4. CASE pc' = "idle" /\ result' = "err" /\ UNCHANGED <<i, done>>
    BY <2>1, <2>4, FailRefines DEF Abstract!Next
  <2>. QED BY <1>3, <2>3, <2>4 DEF Write
<1>4. CASE UNCHANGED vars
  BY <1>4 DEF vars, Abstract!vars, RunPlan, RunList
<1>. QED BY <1>1, <1>2, <1>3, <1>4 DEF Next

\* Before the first call, the state maps to an initial state of the
\* contract: some rule's plan, nothing done, nothing returned.
LEMMA InitRefines == Init => Abstract!Init
<1>. SUFFICES ASSUME Init PROVE Abstract!Init
  OBVIOUS
<1>1. c \in Completions /\ isError \in BOOLEAN
  BY DEF Init
<1>2. Plan(Chosen(c, isError), isError)
        \in {Plan(Chosen(y, f), f) : y \in Completions, f \in BOOLEAN}
  BY <1>1
<1>3. done = <<>> /\ (pc # "idle") = FALSE /\ result = "none"
  BY DEF Init
<1>. QED BY <1>2, <1>3 DEF Abstract!Init

\* job.Actions.Run implements the completion contract for every set of
\* actions and every rule configuration: its successful calls follow the
\* plan in order, it stops at the first failing call, and it returns nil
\* only after every Do (and on the failure path every WriteError) returned
\* nil.
THEOREM Refinement == Spec => RefinesCompletionSpec
<1>1. Spec => []IInv
  BY InitIInv, NextIInv, PTL DEF Spec
<1>. QED BY <1>1, InitRefines, StepRefines, PTL DEF Spec, RefinesCompletionSpec, Abstract!Spec
====
