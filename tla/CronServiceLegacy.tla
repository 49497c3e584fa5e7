-------------------------- MODULE CronServiceLegacy --------------------------
(***************************************************************************)
(* The trigger-based cron coordinator of src/unnamed/part_002 (the first  *)
(* revision in part_000, lines 153-355, has the same tick, notifyAll and  *)
(* candidate listing).  notify is dest.Trigger, an invocation of the      *)
(* mirror function for one object.  notifyAll starts one goroutine per    *)
(* object, each sending its error on a channel of capacity len(objects), *)
(* and reads the results until the first error, when it returns while    *)
(* the other goroutines may still run.  getResourceCandidates lists the   *)
(* source without a modification-time matcher.                            *)
(*                                                                         *)
(* Every notifyAll is a batch with a number; its channel stays in chans   *)
(* after notifyAll has returned, for the goroutines still sending on it.  *)
(***************************************************************************)
EXTENDS Integers, Sequences, FiniteSets

CONSTANTS
    Names,      \* object names in the source buckets
    NRules,     \* number of rules in the rule set
    Match,      \* Match[r]: the names rule r's source URL and filter select
    TimeWindow, \* config.TimeWindow (the ledger keeps 2 * TimeWindow)
    MaxTime,    \* bound on the clock
    MaxBatch    \* bound on the number of notifyAll calls

Rules == 1..NRules
Times == 0..MaxTime
Batches == 1..MaxBatch
Fps == Names \X Times
Absent == -1

ASSUME LegacyAssumption ==
    /\ IsFiniteSet(Names)   \* a bucket listing is finite
    /\ NRules \in Nat
    /\ Match \in [Rules -> SUBSET Names]
    /\ TimeWindow \in Nat \ {0}
    /\ MaxTime \in Nat
    /\ MaxBatch \in Nat

VARIABLES
    now, ticked, store, ledger,
    pc,          \* "idle", "list" (rule loop) or "notify" (reading results)
    ri,          \* the rule the loop is at
    pending,     \* the objects of the current notifyAll
    batch,       \* number of the last notifyAll
    gor,         \* running goroutines: [b, fp, r, st] with st "call", "ok" or "err"
    chans,       \* chans[b]: the results buffered in batch b's channel
    caps,        \* caps[b]: the capacity batch b's channel was made with
    left,        \* results the current notifyAll has still to receive
    triggered,   \* history: fingerprints dest.Trigger was called for
    processed,   \* history: fingerprints ever recorded
    retriggered  \* history: recorded fingerprints dispatched again

vars == <<now, ticked, store, ledger, pc, ri, pending, batch, gor, chans,
          caps, left, triggered, processed, retriggered>>

Goroutine == [b : Batches, fp : Fps, r : Rules, st : {"call", "ok", "err"}]

TypeOK ==
    /\ now \in Times
    /\ ticked \in BOOLEAN
    /\ store \in [Names -> Times \cup {Absent}]
    /\ ledger \subseteq [fp : Fps, at : Times]
    /\ pc \in {"idle", "list", "notify"}
    /\ ri \in 1..(NRules + 1)
    /\ pending \subseteq Fps
    /\ batch \in 0..MaxBatch
    /\ gor \subseteq Goroutine
    /\ chans \in [Batches -> Seq(BOOLEAN)]
    /\ caps \in [Batches -> Int]
    /\ left \in Nat
    /\ triggered \subseteq Fps
    /\ processed \subseteq Fps
    /\ retriggered \subseteq Fps

(* meta.Service, not under src/: records kept for 2 * TimeWindow. *)
Retention == 2 * TimeWindow
Known(fp) == \E e \in ledger : e.fp = fp /\ e.at >= now - Retention
PendingResources(objs) == {fp \in objs : ~Known(fp)}
AddProcessed(fps) ==
    {e \in ledger : e.at >= now - Retention} \cup {[fp |-> fp, at |-> now] : fp \in fps}

\* Mutant: the listing also returns objects that are no longer there.
CandidatesWithDeleted(r) == {<<n, store[n]>> : n \in Match[r]}

(* getResourceCandidates / appendResources: every present object the      *)
(* rule selects, with no modification-time matcher.                       *)
Candidates(r) == {<<n, store[n]>> : n \in {x \in Match[r] : store[x] # Absent}}

\* Mutant: the results channel is unbuffered.
ErrCapacityUnbuffered(objs) == 0

(* make(chan error, len(objects)) *)
ErrCapacity(objs) == Cardinality(objs)

Init ==
    /\ now = 0
    /\ ticked = FALSE
    /\ store = [n \in Names |-> Absent]
    /\ ledger = {}
    /\ pc = "idle"
    /\ ri = 1
    /\ pending = {}
    /\ batch = 0
    /\ gor = {}
    /\ chans = [b \in Batches |-> <<>>]
    /\ caps = [b \in Batches |-> 0]
    /\ left = 0
    /\ triggered = {}
    /\ processed = {}
    /\ retriggered = {}

\* The clock advances; the scheduler may fire again.
Advance ==
    /\ now < MaxTime
    /\ now' = now + 1
    /\ ticked' = FALSE
    /\ UNCHANGED <<store, ledger, pc, ri, pending, batch, gor, chans, caps, left,
                   triggered, processed, retriggered>>

\* Another system writes a new version of n into the source bucket.
Upload(n) ==
    /\ store[n] # now
    /\ store' = [store EXCEPT ![n] = now]
    /\ UNCHANGED <<now, ticked, ledger, pc, ri, pending, batch, gor, chans, caps, left,
                   triggered, processed, retriggered>>

\* Tick: ReloadIfNeeded and UpdateSecrets; on error the tick returns at once.
\* Goroutines of an earlier tick may still be running.
TickStart ==
    /\ pc = "idle"
    /\ ~ticked
    /\ ticked' = TRUE
    /\ \/ pc' = "list" /\ ri' = 1
       \/ UNCHANGED <<pc, ri>>
    /\ UNCHANGED <<now, store, ledger, pending, batch, gor, chans, caps, left,
                   triggered, processed, retriggered>>

\* processResource of rule ri: list, read the pending objects, and start
\* notifyAll: one goroutine per object and a channel of ErrCapacity slots.
ProcessResource ==
    /\ pc = "list"
    /\ ri <= NRules
    /\ LET pend == PendingResources(Candidates(ri)) IN
       \/ /\ pc' = "idle"
          /\ UNCHANGED <<ri, pending, batch, gor, chans, caps, left, retriggered>>
       \/ /\ pend = {}
          /\ ri' = ri + 1
          /\ UNCHANGED <<pc, pending, batch, gor, chans, caps, left, retriggered>>
       \/ /\ pend # {}
          /\ batch < MaxBatch
          /\ batch' = batch + 1
          /\ pc' = "notify"
          /\ pending' = pend
          /\ gor' = gor \cup {[b |-> batch + 1, fp |-> fp, r |-> ri, st |-> "call"] : fp \in pend}
          /\ caps' = [caps EXCEPT ![batch + 1] = ErrCapacity(pend)]
          /\ retriggered' = retriggered \cup (pend \cap processed)
          /\ left' = Cardinality(pend)
          /\ UNCHANGED <<ri, chans>>
    /\ UNCHANGED <<now, ticked, store, ledger, triggered, processed>>

\* The loop over the rules is over: tick returns without error.
TickDone ==
    /\ pc = "list"
    /\ ri = NRules + 1
    /\ pc' = "idle"
    /\ UNCHANGED <<now, ticked, store, ledger, ri, pending, batch, gor, chans, caps, left,
                   triggered, processed, retriggered>>

\* dest.Trigger invokes the mirror function for the listed object; on an
\* error the invocation may or may not have gone out.
Record(g) ==
    triggered' = triggered \cup {g.fp}

Trigger(g) ==
    /\ g \in gor
    /\ g.st = "call"
    /\ \E st \in {"ok", "err"} :
         /\ gor' = (gor \ {g}) \cup {[g EXCEPT !.st = st]}
         /\ \/ Record(g)
            \/ st = "err" /\ UNCHANGED triggered
    /\ UNCHANGED <<now, ticked, store, ledger, pc, ri, pending, batch, chans, caps, left,
                   processed, retriggered>>

\* A send on batch b's channel completes when the buffer has room, or, on
\* an unbuffered channel, when notifyAll is waiting to receive on it.
CanSend(b) ==
    \/ Len(chans[b]) < caps[b]
    \/ pc = "notify" /\ b = batch /\ chans[b] = <<>>

\* errors <- err, then the goroutine ends.
Send(g) ==
    /\ g \in gor
    /\ g.st \in {"ok", "err"}
    /\ CanSend(g.b)
    /\ chans' = [chans EXCEPT ![g.b] = Append(@, g.st = "ok")]
    /\ gor' = gor \ {g}
    /\ UNCHANGED <<now, ticked, store, ledger, pc, ri, pending, batch, caps, left,
                   triggered, processed, retriggered>>

\* Mutant: notifyAll does not look at the result it receives.
ResultOkIgnored(v) == TRUE

(* if err := <-errors; err != nil *)
ResultOk(v) == v

(***************************************************************************)
(* notifyAll receives the next result of its batch.  The first error ends *)
(* notifyAll and the tick; after the last result, processResource calls  *)
(* AddProcessed, whose failure also ends the tick.                        *)
(***************************************************************************)
Receive ==
    /\ pc = "notify"
    /\ chans[batch] # <<>>
    /\ chans' = [chans EXCEPT ![batch] = Tail(@)]
    /\ left' = left - 1
    /\ LET v == Head(chans[batch]) IN
       \/ /\ ~ResultOk(v)
          /\ pc' = "idle"
          /\ pending' = {}
          /\ UNCHANGED <<ledger, processed, ri>>
       \/ /\ ResultOk(v)
          /\ left > 1
          /\ UNCHANGED <<pc, pending, ledger, processed, ri>>
       \/ /\ ResultOk(v)
          /\ left = 1
          /\ pending' = {}
          /\ \/ /\ ledger' = AddProcessed(pending)
                /\ processed' = processed \cup pending
                /\ pc' = "list"
                /\ ri' = ri + 1
             \/ /\ pc' = "idle"
                /\ UNCHANGED <<ledger, processed, ri>>
    /\ UNCHANGED <<now, ticked, store, batch, gor, caps, triggered, retriggered>>

(* One step of the goroutine of batch b for object fp. *)
GoStep(b, fp) ==
    \E g \in gor : g.b = b /\ g.fp = fp /\ (Trigger(g) \/ Send(g))

Next ==
    \/ Advance
    \/ \E n \in Names : Upload(n)
    \/ TickStart
    \/ ProcessResource
    \/ TickDone
    \/ Receive
    \/ \E b \in Batches, fp \in Fps : GoStep(b, fp)

\* The tick's own steps and every goroutine are scheduled, and each trigger
\* call returns; the clock, uploads and the scheduler need not act.
Fairness ==
    /\ WF_vars(ProcessResource)
    /\ WF_vars(TickDone)
    /\ WF_vars(Receive)
    /\ \A b \in Batches, fp \in Fps : WF_vars(GoStep(b, fp))

Spec == Init /\ [][Next]_vars /\ Fairness

-----------------------------------------------------------------------------
\* processResource records objects only after notifyAll received an ok for
\* every goroutine of the batch: every ledger record names an object that
\* dest.Trigger was called for by some rule.
RecordedWasTriggered ==
    \A e \in ledger : e.fp \in triggered

\* No goroutine of notifyAll is left blocked for ever: although notifyAll
\* returns at the first error without reading the other results, each
\* goroutine of a batch eventually sends its result and ends.
NoGoroutineLeak ==
    \A b \in Batches : (\E g \in gor : g.b = b) ~> (\A g \in gor : g.b # b)

\* The tick protocol of the spec lists candidates "filtered by a
\* modification-time window [now - W, oo)", so that an object whose ledger
\* record was pruned after 2W is not dispatched again: no recorded object
\* is dispatched to dest.Trigger a second time.
NoRetriggerAfterRecord ==
    retriggered = {}
====
