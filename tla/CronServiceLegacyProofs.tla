------------------------ MODULE CronServiceLegacyProofs ------------------------
(***************************************************************************)
(* Proofs, for every rule set, time window and bound on batches, that the *)
(* trigger-based coordinator is well typed and records in the ledger only *)
(* objects that dest.Trigger was called for, although notifyAll returns   *)
(* at the first error while goroutines of its batch are still running.   *)
(***************************************************************************)
EXTENDS CronServiceLegacy, FiniteSetTheorems, Functions, TLAPS

(* The objects of the current batch whose goroutine has not yet ended. *)
LiveObjects == {fp \in pending : \E g \in gor : g.b = batch /\ g.fp = fp}

(* A channel buffer holds an error. *)
HasErr(s) == \E k \in 1..Len(s) : ~s[k]

(***************************************************************************)
(* The inductive invariant.  RecordedWasTriggered alone is not inductive: *)
(* processResource records the whole pending set after the last ok, so   *)
(* the proof must know that an object not yet triggered still has an     *)
(* error to come: its goroutine has not sent ok, or an error waits in the *)
(* channel (PendingTracked).  That the last ok is the last result at all *)
(* needs left to count the results still to come (NotifyCount), which    *)
(* needs one goroutine per object of a batch, goroutines and buffered     *)
(* results of no later batch, and a goroutine's object in the pending set. *)
(***************************************************************************)
BatchesBounded == \A g \in gor : g.b <= batch

FreshChans == \A b \in Batches : b > batch => chans[b] = <<>>

OneGoroutinePerObject ==
    \A g1, g2 \in gor : g1.b = g2.b /\ g1.fp = g2.fp => g1 = g2

NotifyCount ==
    pc = "notify" =>
        /\ batch \in Batches
        /\ ri \in 1..NRules
        /\ IsFiniteSet(pending)
        /\ \A g \in gor : g.b = batch => g.fp \in pending
        /\ left = Cardinality(LiveObjects) + Len(chans[batch])

OkTriggered == \A g \in gor : g.st = "ok" => g.fp \in triggered

PendingTracked ==
    pc = "notify" =>
        \A fp \in pending \ triggered :
            \/ \E g \in gor : g.b = batch /\ g.fp = fp /\ g.st \in {"call", "err"}
            \/ HasErr(chans[batch])

IInv ==
    /\ TypeOK
    /\ BatchesBounded
    /\ FreshChans
    /\ OneGoroutinePerObject
    /\ NotifyCount
    /\ OkTriggered
    /\ PendingTracked
    /\ RecordedWasTriggered
-----------------------------------------------------------------------------
\* The listing of one rule is finite, so len(objects) is a number.
LEMMA FiniteCandidates ==
    ASSUME TypeOK, NEW r \in Rules
    PROVE  IsFiniteSet(Candidates(r))
<1>1. IsFiniteSet({x \in Match[r] : store[x] # Absent})
  BY LegacyAssumption, FS_Subset
<1>2. [n \in {x \in Match[r] : store[x] # Absent} |-> <<n, store[n]>>]
        \in Surjection({x \in Match[r] : store[x] # Absent}, Candidates(r))
  BY DEF Surjection, Candidates
<1>. QED BY <1>1, <1>2, FS_Surjection

\* Before the first tick nothing runs and nothing is recorded.
LEMMA InitIInv == Init => IInv
<1>. SUFFICES ASSUME Init PROVE IInv
  OBVIOUS
<1>1. now \in Times /\ pc = "idle"
  BY LegacyAssumption DEF Init, Times
<1>6. ticked \in BOOLEAN
  BY DEF Init
<1>2. store \in [Names -> Times \cup {Absent}] /\ ri \in 1..(NRules + 1)
      /\ batch \in 0..MaxBatch /\ left \in Nat
  BY LegacyAssumption DEF Init
<1>3. chans \in [Batches -> Seq(BOOLEAN)] /\ caps \in [Batches -> Int]
  BY DEF Init
<1>4. ledger = {} /\ pending = {} /\ gor = {} /\ triggered = {} /\ processed = {}
      /\ retriggered = {}
  BY DEF Init
<1>5. TypeOK
  BY <1>1, <1>2, <1>3, <1>4, <1>6 DEF TypeOK
<1>. QED BY <1>1, <1>4, <1>5 DEF IInv, BatchesBounded, FreshChans, OneGoroutinePerObject,
                     NotifyCount, OkTriggered, PendingTracked, RecordedWasTriggered, Init

\* The clock and an upload touch none of the goroutines, channels or
\* results; the start and the end of a tick are not inside notifyAll.
LEMMA EnvIInv ==
    ASSUME IInv, Advance \/ (\E n \in Names : Upload(n)) \/ TickStart \/ TickDone
    PROVE  IInv'
<1>1. UNCHANGED <<ledger, pending, batch, gor, chans, caps, left, triggered,
                  processed, retriggered>>
  BY DEF Advance, Upload, TickStart, TickDone
<1>2. TypeOK'
  <2>1. ticked' \in BOOLEAN
    BY DEF IInv, TypeOK, Advance, Upload, TickStart, TickDone
  <2>2. now' \in Times /\ store' \in [Names -> Times \cup {Absent}]
    <3>1. CASE Advance
      <4>1. now < MaxTime /\ now' = now + 1 /\ store' = store
        BY <3>1 DEF Advance
      <4>. QED BY <4>1, LegacyAssumption DEF IInv, TypeOK, Times
    <3>2. CASE \E n \in Names : Upload(n)
      BY <3>2 DEF IInv, TypeOK, Upload
    <3>3. CASE TickStart \/ TickDone
      BY <3>3 DEF IInv, TypeOK, TickStart, TickDone
    <3>. QED BY <3>1, <3>2, <3>3
  <2>3. pc' \in {"idle", "list", "notify"} /\ ri' \in 1..(NRules + 1)
    BY LegacyAssumption DEF IInv, TypeOK, Advance, Upload, TickStart, TickDone
  <2>. QED BY <1>1, <2>1, <2>2, <2>3 DEF IInv, TypeOK
<1>3. LiveObjects' = LiveObjects
  BY <1>1 DEF LiveObjects
<1>4. (NotifyCount /\ PendingTracked)'
  <2>1. CASE Advance \/ (\E n \in Names : Upload(n))
    <3>1. UNCHANGED <<pc, ri>>
      BY <2>1 DEF Advance, Upload
    <3>. QED BY <1>1, <1>3, <3>1 DEF IInv, NotifyCount, PendingTracked
  <2>2. CASE TickStart \/ TickDone
    <3>1. pc' # "notify"
      BY <2>2 DEF TickStart, TickDone
    <3>. QED BY <3>1 DEF NotifyCount, PendingTracked
  <2>. QED BY <2>1, <2>2
<1>. QED BY <1>1, <1>2, <1>4 DEF IInv, BatchesBounded, FreshChans, OneGoroutinePerObject,
                                OkTriggered, RecordedWasTriggered

\* dest.Trigger returns: an ok goroutine was triggered, an err goroutine
\* still has its error to send; the goroutine stays the only one of its
\* object in the batch.
LEMMA TriggerIInv ==
    ASSUME IInv, NEW g \in gor, Trigger(g)
    PROVE  IInv'
<1>1. PICK st \in {"ok", "err"} :
          /\ gor' = (gor \ {g}) \cup {[g EXCEPT !.st = st]}
          /\ \/ triggered' = triggered \cup {g.fp}
             \/ st = "err" /\ triggered' = triggered
  BY DEF Trigger, Record
<1>2. UNCHANGED <<now, ticked, store, ledger, pc, ri, pending, batch, chans, caps, left,
                  processed, retriggered>>
  BY DEF Trigger
<1>3. /\ [g EXCEPT !.st = st] \in Goroutine
      /\ [g EXCEPT !.st = st].b = g.b
      /\ [g EXCEPT !.st = st].fp = g.fp
      /\ [g EXCEPT !.st = st].st = st
      /\ [g EXCEPT !.st = st] # g
  BY DEF Trigger, IInv, TypeOK, Goroutine
<1>4. /\ triggered \subseteq triggered'
      /\ triggered' \subseteq Fps
      /\ st = "ok" => g.fp \in triggered'
  BY <1>1 DEF IInv, TypeOK, Goroutine
<1>5. TypeOK'
  BY <1>1, <1>2, <1>3, <1>4 DEF IInv, TypeOK
<1>6. BatchesBounded'
  BY <1>1, <1>2, <1>3 DEF IInv, BatchesBounded
<1>7. OneGoroutinePerObject'
  <2>. SUFFICES ASSUME NEW k1 \in gor', NEW k2 \in gor', k1.b = k2.b, k1.fp = k2.fp
                PROVE  k1 = k2
    BY DEF OneGoroutinePerObject
  <2>1. \A k \in gor \ {g} : ~(k.b = g.b /\ k.fp = g.fp)
    BY DEF IInv, OneGoroutinePerObject
  <2>. QED BY <1>1, <1>3, <2>1 DEF IInv, OneGoroutinePerObject
<1>8. LiveObjects' = LiveObjects
  BY <1>1, <1>2, <1>3 DEF LiveObjects
<1>9. NotifyCount'
  BY <1>1, <1>2, <1>3, <1>8 DEF IInv, NotifyCount
<1>10. OkTriggered'
  BY <1>1, <1>3, <1>4 DEF IInv, OkTriggered
<1>11. PendingTracked'
  <2>. SUFFICES ASSUME pc' = "notify", NEW fp \in pending' \ triggered'
                PROVE  \/ \E k \in gor' : k.b = batch' /\ k.fp = fp /\ k.st \in {"call", "err"}
                       \/ HasErr(chans'[batch'])
    BY DEF PendingTracked
  <2>1. fp \in pending \ triggered /\ pc = "notify"
    BY <1>2, <1>4
  <2>2. CASE HasErr(chans[batch])
    BY <1>2, <2>2
  <2>3. CASE \E k \in gor : k.b = batch /\ k.fp = fp /\ k.st \in {"call", "err"}
    <3>1. PICK k \in gor : k.b = batch /\ k.fp = fp /\ k.st \in {"call", "err"}
      BY <2>3
    <3>2. CASE k # g
      BY <1>1, <1>2, <3>1, <3>2
    <3>3. CASE k = g
      <4>1. st = "err"
        BY <1>4, <3>1, <3>3
      <4>. QED BY <1>1, <1>2, <1>3, <3>1, <3>3, <4>1
    <3>. QED BY <3>2, <3>3
  <2>. QED BY <2>1, <2>2, <2>3 DEF IInv, PendingTracked
<1>12. RecordedWasTriggered'
  BY <1>2, <1>4 DEF IInv, RecordedWasTriggered
<1>. QED BY <1>2, <1>5, <1>6, <1>7, <1>9, <1>10, <1>11, <1>12 DEF IInv, FreshChans

\* A goroutine sends its result and ends: one object of the batch is no
\* longer live and one more result is buffered; an error sent stays in the
\* channel until notifyAll receives it.
LEMMA SendIInv ==
    ASSUME IInv, NEW g \in gor, Send(g)
    PROVE  IInv'
<1>1. /\ g.st \in {"ok", "err"}
      /\ chans' = [chans EXCEPT ![g.b] = Append(@, g.st = "ok")]
      /\ gor' = gor \ {g}
  BY DEF Send
<1>2. UNCHANGED <<now, ticked, store, ledger, pc, ri, pending, batch, caps, left,
                  triggered, processed, retriggered>>
  BY DEF Send
<1>3. g \in Goroutine /\ g.b <= batch
  BY DEF IInv, TypeOK, BatchesBounded
<1>4. /\ chans'[g.b] = Append(chans[g.b], g.st = "ok")
      /\ \A b \in Batches \ {g.b} : chans'[b] = chans[b]
  BY <1>1, <1>3 DEF IInv, TypeOK, Goroutine
<1>5. TypeOK'
  BY <1>1, <1>2, <1>3 DEF IInv, TypeOK, Goroutine
<1>6. FreshChans'
  <2>. SUFFICES ASSUME NEW b \in Batches, b > batch PROVE chans'[b] = <<>>
    BY <1>2 DEF FreshChans
  <2>1. b # g.b
    BY <1>3 DEF IInv, TypeOK, Goroutine, Batches
  <2>. QED BY <1>4, <2>1 DEF IInv, FreshChans
<1>7. NotifyCount'
  <2>. SUFFICES ASSUME pc' = "notify"
                PROVE  left' = Cardinality(LiveObjects') + Len(chans'[batch'])
    BY <1>1, <1>2 DEF IInv, NotifyCount
  <2>1. pc = "notify" /\ batch \in Batches /\ IsFiniteSet(pending)
        /\ left = Cardinality(LiveObjects) + Len(chans[batch])
    BY <1>2 DEF IInv, NotifyCount
  <2>2. IsFiniteSet(LiveObjects) /\ Cardinality(LiveObjects) \in Nat
    BY <2>1, FS_Subset, FS_CardinalityType DEF LiveObjects
  <2>3. CASE g.b = batch
    <3>1. g.fp \in LiveObjects
      BY <2>1, <2>3 DEF IInv, NotifyCount, LiveObjects
    <3>2. LiveObjects' = LiveObjects \ {g.fp}
      BY <1>1, <1>2, <2>3 DEF IInv, OneGoroutinePerObject, LiveObjects
    <3>3. Cardinality(LiveObjects') = Cardinality(LiveObjects) - 1
      BY <2>2, <3>1, <3>2, FS_RemoveElement
    <3>4. Len(chans'[batch]) = Len(chans[batch]) + 1
      BY <1>4, <2>1, <2>3 DEF IInv, TypeOK
    <3>. QED BY <1>2, <2>1, <2>2, <3>3, <3>4
  <2>4. CASE g.b # batch
    <3>1. LiveObjects' = LiveObjects
      BY <1>1, <1>2, <2>4 DEF LiveObjects
    <3>. QED BY <1>2, <1>4, <2>1, <2>4, <3>1
  <2>. QED BY <2>3, <2>4
<1>8. PendingTracked'
  <2>. SUFFICES ASSUME pc' = "notify", NEW fp \in pending' \ triggered'
                PROVE  \/ \E k \in gor' : k.b = batch' /\ k.fp = fp /\ k.st \in {"call", "err"}
                       \/ HasErr(chans'[batch'])
    BY DEF PendingTracked
  <2>1. fp \in pending \ triggered /\ pc = "notify" /\ batch \in Batches
    BY <1>2 DEF IInv, NotifyCount
  <2>2. chans[batch] \in Seq(BOOLEAN)
    BY <2>1 DEF IInv, TypeOK
  <2>3. HasErr(chans[batch]) => HasErr(chans'[batch])
    BY <1>4, <2>1, <2>2 DEF HasErr
  <2>4. CASE \E k \in gor : k.b = batch /\ k.fp = fp /\ k.st \in {"call", "err"}
    <3>1. PICK k \in gor : k.b = batch /\ k.fp = fp /\ k.st \in {"call", "err"}
      BY <2>4
    <3>2. CASE k # g
      BY <1>1, <1>2, <3>1, <3>2
    <3>3. CASE k = g
      <4>1. chans'[batch] = Append(chans[batch], FALSE)
        BY <1>1, <1>4, <3>1, <3>3
      <4>. QED BY <1>2, <2>2, <4>1 DEF HasErr
    <3>. QED BY <3>2, <3>3
  <2>. QED BY <1>2, <2>1, <2>3, <2>4 DEF IInv, PendingTracked
<1>. QED BY <1>1, <1>2, <1>5, <1>6, <1>7, <1>8
         DEF IInv, BatchesBounded, OneGoroutinePerObject, OkTriggered, RecordedWasTriggered

(* The objects processResource of rule ri would hand to notifyAll. *)
Pend == PendingResources(Candidates(ri))

(* The goroutines notifyAll starts for them as batch batch + 1. *)
NewGoroutines == {[b |-> batch + 1, fp |-> fp, r |-> ri, st |-> "call"] : fp \in Pend}

\* processResource starts notifyAll for a fresh batch: one goroutine per
\* pending object and nothing buffered, so left is the number of objects.
LEMMA StartBatchIInv ==
    ASSUME IInv, ProcessResource, pc' = "notify"
    PROVE  IInv'
<1>0. /\ pc = "list" /\ ri <= NRules /\ batch < MaxBatch
      /\ batch' = batch + 1 /\ pending' = Pend
      /\ gor' = gor \cup NewGoroutines
      /\ caps' = [caps EXCEPT ![batch + 1] = ErrCapacity(Pend)]
      /\ retriggered' = retriggered \cup (Pend \cap processed)
      /\ left' = Cardinality(Pend)
      /\ UNCHANGED <<ri, chans, now, store, ledger, triggered, processed>>
  BY DEF ProcessResource, Pend, NewGoroutines
<1>t. ticked' = ticked
  BY DEF ProcessResource
<1>a. /\ ri \in 1..(NRules + 1) /\ batch \in 0..MaxBatch /\ now \in Times
      /\ store \in [Names -> Times \cup {Absent}] /\ gor \subseteq Goroutine
      /\ pending \subseteq Fps /\ caps \in [Batches -> Int] /\ retriggered \subseteq Fps
  BY DEF IInv, TypeOK
<1>b. ri <= NRules /\ batch < MaxBatch
  BY <1>0
<1>1. ri \in Rules /\ batch \in Nat /\ batch + 1 \in Batches
  BY <1>a, <1>b, LegacyAssumption DEF Rules, Batches
<1>2. Pend \subseteq Fps
  BY <1>a, <1>1, LegacyAssumption DEF Pend, PendingResources, Candidates, Fps, Absent, Times
<1>3. IsFiniteSet(Pend) /\ Cardinality(Pend) \in Nat
  <2>1. IsFiniteSet(Candidates(ri))
    BY <1>0, <1>1, FiniteCandidates DEF IInv
  <2>. QED BY <2>1, FS_Subset, FS_CardinalityType DEF Pend, PendingResources
<1>4. NewGoroutines \subseteq Goroutine
  BY <1>1, <1>2 DEF NewGoroutines, Goroutine
<1>5. \A g \in gor : g.b <= batch
  BY DEF IInv, BatchesBounded
<1>6. TypeOK'
  <2>1. ticked' \in BOOLEAN
    BY <1>t DEF IInv, TypeOK
  <2>2. /\ ledger' \subseteq [fp : Fps, at : Times] /\ chans' \in [Batches -> Seq(BOOLEAN)]
        /\ triggered' \subseteq Fps /\ processed' \subseteq Fps
    BY <1>0 DEF IInv, TypeOK
  <2>3. /\ caps' \in [Batches -> Int] /\ left' \in Nat /\ gor' \subseteq Goroutine
        /\ retriggered' \subseteq Fps /\ pending' \subseteq Fps
    BY <1>0, <1>1, <1>2, <1>3, <1>4, <1>a DEF ErrCapacity
  <2>4. now' \in Times /\ store' \in [Names -> Times \cup {Absent}]
        /\ pc' \in {"idle", "list", "notify"} /\ ri' \in 1..(NRules + 1)
        /\ batch' \in 0..MaxBatch
    BY <1>0, <1>a, <1>b, LegacyAssumption
  <2>. QED BY <2>1, <2>2, <2>3, <2>4 DEF TypeOK
<1>7. OneGoroutinePerObject'
  BY <1>0, <1>1, <1>5 DEF IInv, OneGoroutinePerObject, NewGoroutines, TypeOK, Goroutine
<1>8. LiveObjects' = Pend
  <2>1. \A fp \in Pend : [b |-> batch + 1, fp |-> fp, r |-> ri, st |-> "call"] \in gor'
    BY <1>0 DEF NewGoroutines
  <2>2. \A fp \in Pend : \E g \in gor' : g.b = batch' /\ g.fp = fp
    BY <1>0, <2>1
  <2>. QED BY <1>0, <2>2 DEF LiveObjects
<1>9. chans[batch + 1] = <<>>
  BY <1>1 DEF IInv, FreshChans
<1>10. NotifyCount'
  <2>1. \A g \in gor' : g.b = batch' => g.fp \in pending'
    BY <1>0, <1>1, <1>5 DEF NewGoroutines, IInv, TypeOK, Goroutine
  <2>. QED BY <1>0, <1>1, <1>3, <1>8, <1>9, <2>1 DEF NotifyCount, IInv, TypeOK
<1>11. PendingTracked'
  <2>. SUFFICES ASSUME NEW fp \in pending' \ triggered'
                PROVE  \E k \in gor' : k.b = batch' /\ k.fp = fp /\ k.st \in {"call", "err"}
    BY DEF PendingTracked
  <2>1. [b |-> batch + 1, fp |-> fp, r |-> ri, st |-> "call"] \in gor'
    BY <1>0 DEF NewGoroutines
  <2>. QED BY <1>0, <2>1
<1>12. BatchesBounded'
  BY <1>0, <1>1, <1>5, <1>a DEF BatchesBounded, NewGoroutines, Goroutine, Batches
<1>13. FreshChans'
  BY <1>0, <1>1, <1>a DEF IInv, FreshChans, Batches
<1>14. OkTriggered' /\ RecordedWasTriggered'
  BY <1>0 DEF IInv, OkTriggered, RecordedWasTriggered, NewGoroutines
<1>. QED BY <1>6, <1>7, <1>10, <1>11, <1>12, <1>13, <1>14 DEF IInv

\* processResource returns at a listing error, or finds nothing pending
\* and goes on to the next rule, or starts notifyAll.
LEMMA ProcessResourceIInv ==
    ASSUME IInv, ProcessResource
    PROVE  IInv'
<1>1. CASE pc' = "notify"
  BY <1>1, StartBatchIInv
<1>2. CASE pc' # "notify"
  <2>1. UNCHANGED <<pending, batch, gor, chans, caps, left, retriggered, ledger,
                    triggered, processed, now, store>>
    BY <1>2 DEF ProcessResource
  <2>2. ticked' = ticked
    BY DEF ProcessResource
  <2>3. pc' \in {"idle", "list"} /\ ri' \in 1..(NRules + 1)
    <3>1. pc = "list" /\ ri <= NRules /\ ri \in 1..(NRules + 1)
      BY DEF ProcessResource, IInv, TypeOK
    <3>2. ri' = ri \/ ri' = ri + 1
      BY DEF ProcessResource
    <3>3. pc' = pc \/ pc' = "idle"
      BY <1>2 DEF ProcessResource
    <3>. QED BY <1>2, <3>1, <3>2, <3>3, LegacyAssumption
  <2>4. TypeOK'
    BY <2>1, <2>2, <2>3 DEF IInv, TypeOK
  <2>. QED BY <1>2, <2>1, <2>4 DEF IInv, BatchesBounded, FreshChans, OneGoroutinePerObject,
                                   NotifyCount, OkTriggered, PendingTracked,
                                   RecordedWasTriggered
<1>. QED BY <1>1, <1>2

\* notifyAll receives a result.  The key step: when it receives an ok as
\* the last result it waits for (left = 1), no goroutine of the batch is
\* live and no error is buffered, so every pending object was triggered
\* and processResource may record them all.
LEMMA ReceiveIInv ==
    ASSUME IInv, Receive
    PROVE  IInv'
<1>1. /\ pc = "notify" /\ chans[batch] # <<>>
      /\ chans' = [chans EXCEPT ![batch] = Tail(@)]
      /\ left' = left - 1
  BY DEF Receive
<1>2. UNCHANGED <<now, store, batch, gor, caps, triggered, retriggered>>
  BY DEF Receive
<1>3. /\ batch \in Batches /\ ri \in 1..NRules /\ IsFiniteSet(pending)
      /\ left = Cardinality(LiveObjects) + Len(chans[batch])
  BY <1>1 DEF IInv, NotifyCount
<1>4. /\ chans \in [Batches -> Seq(BOOLEAN)] /\ chans[batch] \in Seq(BOOLEAN)
      /\ pending \subseteq Fps /\ now \in Times /\ ledger \subseteq [fp : Fps, at : Times]
      /\ processed \subseteq Fps /\ left \in Nat
  BY <1>3 DEF IInv, TypeOK
<1>5. IsFiniteSet(LiveObjects) /\ Cardinality(LiveObjects) \in Nat
  BY <1>3, FS_Subset, FS_CardinalityType DEF LiveObjects
<1>6. /\ chans' \in [Batches -> Seq(BOOLEAN)]
      /\ chans'[batch] = Tail(chans[batch])
      /\ \A b \in Batches \ {batch} : chans'[b] = chans[b]
  BY <1>1, <1>3, <1>4
<1>s. Len(chans[batch]) \in Nat
  BY <1>4
<1>c. left = Cardinality(LiveObjects) + Len(chans[batch])
  BY <1>3
<1>h. Head(chans[batch]) = chans[batch][1]
  BY <1>1, <1>4
<1>l. Len(chans[batch]) >= 1 /\ Len(chans'[batch]) = Len(chans[batch]) - 1
  BY <1>1, <1>4, <1>6
<1>7. left' \in Nat
  BY <1>1, <1>3, <1>5, <1>l
<1>8. \/ /\ Head(chans[batch]) = FALSE /\ pc' = "idle" /\ pending' = {}
         /\ UNCHANGED <<ledger, processed, ri>>
      \/ /\ Head(chans[batch]) = TRUE /\ left > 1
         /\ UNCHANGED <<pc, pending, ledger, processed, ri>>
      \/ /\ Head(chans[batch]) = TRUE /\ left = 1 /\ pending' = {}
         /\ ledger' = AddProcessed(pending) /\ processed' = processed \cup pending
         /\ pc' = "list" /\ ri' = ri + 1
      \/ /\ pc' = "idle" /\ pending' = {}
         /\ UNCHANGED <<ledger, processed, ri>>
  BY <1>4, <1>6 DEF Receive, ResultOk
<1>9. ticked' = ticked
  BY DEF Receive
<1>10. FreshChans' /\ BatchesBounded' /\ OneGoroutinePerObject' /\ OkTriggered'
  <2>1. \A b \in Batches \ {batch} : chans'[b] = chans[b]
    BY <1>6
  <2>0. FreshChans
    BY DEF IInv
  <2>2. FreshChans'
    BY <1>2, <1>3, <2>0, <2>1 DEF FreshChans, Batches
  <2>. QED BY <1>2, <2>2 DEF IInv, BatchesBounded, OneGoroutinePerObject, OkTriggered
<1>13. RecordedWasTriggered'
  <2>1. ledger' = ledger \/ ledger' = AddProcessed(pending)
    BY <1>8
  <2>7. CASE ledger' = AddProcessed(pending) /\ ledger' # ledger
    \* the last result of the batch was ok: every pending object was triggered
    <3>0. Head(chans[batch]) = TRUE
      BY <1>8, <2>7
    <3>a. left = 1
      BY <1>8, <2>7
    <3>1. Cardinality(LiveObjects) = 0 /\ Len(chans[batch]) <= 1
      <4>1. Len(chans[batch]) >= 1
        BY <1>l
      <4>. QED BY <1>c, <1>5, <1>s, <4>1, <3>a
    <3>2. LiveObjects = {}
      BY <1>5, <3>1, FS_EmptySet
    <3>3. ~HasErr(chans[batch])
      <4>. SUFFICES ASSUME NEW k \in 1..Len(chans[batch]) PROVE chans[batch][k]
        BY DEF HasErr
      <4>1. k = 1
        BY <3>1
      <4>2. chans[batch][1] = TRUE
        BY <1>h, <3>0
      <4>. QED BY <4>1, <4>2
    <3>4. pending \subseteq triggered
      BY <1>1, <3>2, <3>3 DEF IInv, PendingTracked, LiveObjects
    <3>. QED BY <1>2, <2>7, <3>4 DEF IInv, RecordedWasTriggered, AddProcessed
  <2>8. CASE ledger' = ledger
    <3>1. RecordedWasTriggered
      BY DEF IInv
    <3>. QED BY <1>2, <2>8, <3>1 DEF RecordedWasTriggered
  <2>. QED BY <2>1, <2>7, <2>8
<1>14. TypeOK'
  <2>1. ticked' \in BOOLEAN
    BY <1>9 DEF IInv, TypeOK
  <2>2. /\ ledger' \subseteq [fp : Fps, at : Times] /\ processed' \subseteq Fps
        /\ pending' \subseteq Fps /\ pc' \in {"idle", "list", "notify"}
        /\ ri' \in 1..(NRules + 1)
    <3>1. ledger' = ledger \/ ledger' = AddProcessed(pending)
      BY <1>8
    <3>2. processed' \subseteq processed \cup pending /\ pending' \subseteq pending
      BY <1>8
    <3>3. pc' \in {"idle", "list", "notify"} /\ (ri' = ri \/ ri' = ri + 1)
      BY <1>1, <1>8
    <3>4. ledger' \subseteq [fp : Fps, at : Times]
      BY <1>4, <3>1 DEF AddProcessed
    <3>5. processed' \subseteq Fps /\ pending' \subseteq Fps
      BY <1>4, <3>2
    <3>6. ri' \in 1..(NRules + 1)
      BY <1>3, <3>3, LegacyAssumption
    <3>. QED BY <3>3, <3>4, <3>5, <3>6
  <2>. QED BY <1>2, <1>6, <1>7, <2>1, <2>2 DEF IInv, TypeOK
<1>15. (NotifyCount /\ PendingTracked)'
  <2>. SUFFICES ASSUME pc' = "notify"
                PROVE  (NotifyCount /\ PendingTracked)'
    BY DEF NotifyCount, PendingTracked
  <2>1. Head(chans[batch]) = TRUE /\ UNCHANGED <<pc, pending, ri>>
    BY <1>8
  <2>2. LiveObjects' = LiveObjects
    BY <1>2, <2>1 DEF LiveObjects
  <2>4. NotifyCount'
    <3>1. left' = Cardinality(LiveObjects') + Len(chans'[batch'])
      BY <1>1, <1>2, <1>3, <1>5, <1>l, <2>2
    <3>. QED BY <1>2, <1>3, <2>1, <3>1 DEF IInv, NotifyCount
  <2>5. HasErr(chans[batch]) => HasErr(chans'[batch])
    <3>. SUFFICES ASSUME NEW k \in 1..Len(chans[batch]), ~chans[batch][k]
                  PROVE  HasErr(chans'[batch])
      BY DEF HasErr
    <3>0. chans[batch][1] = TRUE
      BY <1>h, <2>1
    <3>1. k # 1
      BY <3>0
    <3>2. k - 1 \in 1..Len(chans'[batch]) /\ chans'[batch][k - 1] = chans[batch][k]
      BY <1>4, <1>6, <1>l, <3>1
    <3>. QED BY <3>2 DEF HasErr
  <2>6. PendingTracked'
    BY <1>1, <1>2, <2>1, <2>5 DEF IInv, PendingTracked
  <2>. QED BY <2>4, <2>6
<1>. QED BY <1>10, <1>13, <1>14, <1>15 DEF IInv

\* Every step keeps the invariant.
LEMMA NextIInv == IInv /\ [Next]_vars => IInv'
<1>. SUFFICES ASSUME IInv, [Next]_vars PROVE IInv'
  OBVIOUS
<1>1. CASE Advance \/ (\E n \in Names : Upload(n)) \/ TickStart \/ TickDone
  BY <1>1, EnvIInv
<1>2. CASE ProcessResource
  BY <1>2, ProcessResourceIInv
<1>3. CASE Receive
  BY <1>3, ReceiveIInv
<1>4. CASE \E b \in Batches, fp \in Fps : GoStep(b, fp)
  <2>1. PICK g \in gor : Trigger(g) \/ Send(g)
    BY <1>4 DEF GoStep
  <2>. QED BY <2>1, TriggerIInv, SendIInv
<1>5. CASE UNCHANGED vars
  <2>1. LiveObjects' = LiveObjects
    BY <1>5 DEF vars, LiveObjects
  <2>. QED BY <1>5, <2>1 DEF vars, IInv, TypeOK, BatchesBounded, FreshChans,
                             OneGoroutinePerObject, NotifyCount, OkTriggered,
                             PendingTracked, RecordedWasTriggered
<1>. QED BY <1>1, <1>2, <1>3, <1>4, <1>5 DEF Next

\* The inductive invariant holds in every reachable state.
THEOREM IInvariant == Spec => []IInv
BY InitIInv, NextIInv, PTL DEF Spec

\* Every reachable state is well typed; in particular left, the results
\* notifyAll still waits for, never goes below zero.
THEOREM TypeCorrect == Spec => []TypeOK
BY IInvariant, PTL DEF IInv

\* processResource records objects only after notifyAll has received an ok
\* for every goroutine of the batch: every ledger record names an object
\* dest.Trigger was called for, whatever goroutines of earlier batches that
\* notifyAll abandoned at their first error are still doing.
THEOREM RecordedTriggered == Spec => []RecordedWasTriggered
BY IInvariant, PTL DEF IInv
====
