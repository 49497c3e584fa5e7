---------------------------- MODULE CronService ----------------------------
(***************************************************************************)
(* The periodic-scan coordinator of smirror (package cron, the revision in *)
(* src/unnamed/part_001).  Each Tick reloads the rules, then for every     *)
(* rule in order lists the source objects modified within the time window, *)
(* drops those whose fingerprint the ledger (meta service) already holds,  *)
(* hands the rest to a pool of Limit worker goroutines that call the proxy *)
(* (copy, optionally move) and, only when every call succeeded, records    *)
(* them in the ledger.  The first error ends the tick.                    *)
(*                                                                         *)
(* An object version is identified by its fingerprint <<name, mtime>>.     *)
(* The clock, uploads to the source bucket and the outcome of every remote *)
(* call are the environment.  The rule set is fixed here; reload only     *)
(* contributes its failure.                                                *)
(***************************************************************************)
EXTENDS Integers, FiniteSets

CONSTANTS
    Names,       \* object names that can appear under the rules' source URLs
    NRules,      \* number of rules in s.config.Resources.Rules
    Match,       \* Match[r]: the names listed under rule r's source URL that pass its filter
    Move,        \* the rules with Move = true: the proxy deletes the source after the copy
    Limit,       \* size of notifyAll's worker pool (const Limit = 50)
    TimeWindow,  \* config.TimeWindow, in clock units
    MaxTime      \* bound on the clock

Rules == 1..NRules
Times == 0..MaxTime
Workers == 1..Limit
Fps == Names \X Times

\* Value of store[n] while no object named n exists in the source bucket.
Absent == -1
\* Value of wjob[w] while worker w holds no object.
NoJob == <<>>

ASSUME ConstantsAssumption ==
    /\ NRules \in Nat
    /\ Match \in [Rules -> SUBSET Names]
    /\ Move \subseteq Rules
    /\ Limit \in Nat \ {0}
    /\ TimeWindow \in Nat \ {0}
    /\ MaxTime \in Nat

VARIABLES
    now,        \* the clock: time.Now()
    ticked,     \* the scheduler already fired Tick at this clock value
    store,      \* store[n]: mtime of the current version of n, or Absent
    ledger,     \* meta service: set of [fp, at] records of processed fingerprints
    processed,  \* history: every fingerprint ever passed to AddProcessed
    copied,     \* history: copied[r][n] = greatest mtime of n copied for rule r, or Absent
    recopied,   \* history: the fingerprints copied again after AddProcessed recorded them
    pc,         \* "idle" (between ticks), "list" (at rule ri), "notify" (notifyAll of rule ri)
    ri,         \* index of the rule being processed
    pending,    \* the pending objects of rule ri handed to notifyAll
    queue,      \* objects still in notifyAll's queue channel
    wjob,       \* wjob[w]: the object worker w is notifying, or NoJob
    wst,        \* wst[w]: "idle", "call" (in proxy.Proxy), "ok" / "err" (result not yet sent)
    results     \* errorChannel contents: [fp, ok] per finished notification

vars == <<now, ticked, store, ledger, processed, copied, recopied, pc, ri, pending,
          queue, wjob, wst, results>>

LedgerRecord == [fp : Fps, at : Times]

TypeOK ==
    /\ now \in Times
    /\ ticked \in BOOLEAN
    /\ store \in [Names -> Times \cup {Absent}]
    /\ ledger \subseteq LedgerRecord
    /\ processed \subseteq Fps
    /\ copied \in [Rules -> [Names -> Times \cup {Absent}]]
    /\ recopied \subseteq Fps
    /\ pc \in {"idle", "list", "notify"}
    /\ ri \in 1..(NRules + 1)
    /\ pending \subseteq Fps
    /\ queue \subseteq Fps
    /\ wjob \in [Workers -> Fps \cup {NoJob}]
    /\ wst \in [Workers -> {"idle", "call", "ok", "err"}]
    /\ results \subseteq [fp : Fps, ok : BOOLEAN]

-----------------------------------------------------------------------------
(* Ledger (meta service, not under src/: modelled from the spec).         *)

\* meta.New(config.MetaURL, config.TimeWindow.Duration*2, fs)
Retention == 2 * TimeWindow

\* A fingerprint the ledger still holds within the retention horizon.
Known(fp) == \E e \in ledger : e.fp = fp /\ e.at >= now - Retention

\* metaService.PendingResources: the objects whose fingerprint is not known.
PendingResources(objs) == {fp \in objs : ~Known(fp)}

\* Mutant: records stamped with the listing cutoff instead of the write time.
AddProcessedAtCutoff(fps) ==
    {e \in ledger : e.at >= now - Retention} \cup {[fp |-> fp, at |-> now - TimeWindow] : fp \in fps}

\* metaService.AddProcessed: prune records past retention, append the new ones.
AddProcessed(fps) ==
    {e \in ledger : e.at >= now - Retention} \cup {[fp |-> fp, at |-> now] : fp \in fps}

-----------------------------------------------------------------------------
(* Candidates of a rule: getResourceCandidates with the modification      *)
(* matcher of addLastModifiedTimeMatcher (ModTime after now - TimeWindow). *)

\* Mutant: the revisions in part_000 and part_002 never add the matcher.
ModifiedAfterDropped(m) == TRUE

ModifiedAfter(m) == m > now - TimeWindow

Candidates(r) ==
    {<<n, store[n]>> : n \in {x \in Match[r] : store[x] # Absent /\ ModifiedAfter(store[x])}}

\* Mutant: an error channel one slot short of the number of objects.
ErrCapacityShort(objs) == Cardinality(objs) - 1

\* Capacity of errorChannel: make(chan error, len(objects)).
ErrCapacity(objs) == Cardinality(objs)

\* Mutant: the loop over errorChannel does not look at the errors.
NoErrorIgnored(res) == TRUE

\* The loop over errorChannel after waitGroup.Wait finds no error.
NoError(res) == \A x \in res : x.ok

-----------------------------------------------------------------------------
Init ==
    /\ now = 0
    /\ ticked = FALSE
    /\ store = [n \in Names |-> Absent]
    /\ ledger = {}
    /\ processed = {}
    /\ copied = [r \in Rules |-> [n \in Names |-> Absent]]
    /\ recopied = {}
    /\ pc = "idle"
    /\ ri = 1
    /\ pending = {}
    /\ queue = {}
    /\ wjob = [w \in Workers |-> NoJob]
    /\ wst = [w \in Workers |-> "idle"]
    /\ results = {}

\* The clock advances; the scheduler may fire again.
Advance ==
    /\ now < MaxTime
    /\ now' = now + 1
    /\ ticked' = FALSE
    /\ UNCHANGED <<store, ledger, processed, copied, recopied, pc, ri, pending, queue, wjob, wst, results>>

\* Another system writes a new version of n into the source bucket.
Upload(n) ==
    /\ store[n] # now
    /\ store' = [store EXCEPT ![n] = now]
    /\ UNCHANGED <<now, ticked, ledger, processed, copied, recopied, pc, ri, pending, queue, wjob, wst, results>>

\* Tick: ReloadIfNeeded and UpdateSecrets; on error the tick returns at once.
TickStart ==
    /\ pc = "idle"
    /\ ~ticked
    /\ ticked' = TRUE
    /\ \/ pc' = "list" /\ ri' = 1
       \/ UNCHANGED <<pc, ri>>
    /\ UNCHANGED <<now, store, ledger, processed, copied, recopied, pending, queue, wjob, wst, results>>

\* processResource of rule ri up to notifyAll: list the candidates, read the
\* pending ones; a listing or ledger error ends the tick, no pending object
\* moves on to the next rule, otherwise the queue is filled and closed.
ProcessResource ==
    /\ pc = "list"
    /\ ri <= NRules
    /\ LET pend == PendingResources(Candidates(ri)) IN
       \/ pc' = "idle" /\ UNCHANGED <<ri, pending, queue, results>>
       \/ /\ pend = {}
          /\ ri' = ri + 1
          /\ UNCHANGED <<pc, pending, queue, results>>
       \/ /\ pend # {}
          /\ pc' = "notify"
          /\ pending' = pend
          /\ queue' = pend
          /\ results' = {}
          /\ UNCHANGED ri
    /\ UNCHANGED <<now, ticked, store, ledger, processed, copied, recopied, wjob, wst>>

\* The loop over the rules is over: tick returns without error.
TickDone ==
    /\ pc = "list"
    /\ ri = NRules + 1
    /\ pc' = "idle"
    /\ UNCHANGED <<now, ticked, store, ledger, processed, copied, recopied, ri, pending, queue, wjob, wst, results>>

\* Worker w receives the next object from the queue channel.
Take(w) ==
    /\ pc = "notify"
    /\ wst[w] = "idle"
    /\ \E fp \in queue :
         /\ queue' = queue \ {fp}
         /\ wjob' = [wjob EXCEPT ![w] = fp]
         /\ wst' = [wst EXCEPT ![w] = "call"]
    /\ UNCHANGED <<now, ticked, store, ledger, processed, copied, recopied, pc, ri, pending, results>>

\* notify: proxy.Proxy copies the current version of the object to the rule's
\* destination (and deletes the source when the rule moves).  On error the
\* copy, and the delete, may or may not have been done.
CopyVersion(fp) ==
    /\ copied' = [copied EXCEPT ![ri][fp[1]] = IF fp[2] > @ THEN fp[2] ELSE @]
    /\ recopied' = IF fp \in processed THEN recopied \cup {fp} ELSE recopied

\* Request.Move: the proxy deletes the source once the copy is written.
MoveSource(n) ==
    store' = IF ri \in Move THEN [store EXCEPT ![n] = Absent] ELSE store

Notify(w) ==
    /\ wst[w] = "call"
    /\ LET n == wjob[w][1]
           cur == <<n, store[n]>>
       IN \/ /\ store[n] # Absent
             /\ CopyVersion(cur)
             /\ MoveSource(n)
             /\ wst' = [wst EXCEPT ![w] = "ok"]
          \/ /\ wst' = [wst EXCEPT ![w] = "err"]
             /\ \/ UNCHANGED <<store, copied, recopied>>
                \/ /\ store[n] # Absent
                   /\ CopyVersion(cur)
                   /\ UNCHANGED store \/ MoveSource(n)
    /\ UNCHANGED <<now, ticked, ledger, processed, pc, ri, pending, queue, wjob, results>>

\* errorChannel <- err: blocks while the channel is full.
Send(w) ==
    /\ wst[w] \in {"ok", "err"}
    /\ Cardinality(results) < ErrCapacity(pending)
    /\ results' = results \cup {[fp |-> wjob[w], ok |-> wst[w] = "ok"]}
    /\ wjob' = [wjob EXCEPT ![w] = NoJob]
    /\ wst' = [wst EXCEPT ![w] = "idle"]
    /\ UNCHANGED <<now, ticked, store, ledger, processed, copied, recopied, pc, ri, pending, queue>>

\* waitGroup.Wait, then the results are drained: the first error aborts the
\* tick; otherwise AddProcessed records the pending objects and the loop goes
\* on with the next rule, unless the ledger write fails.
Collect ==
    /\ pc = "notify"
    /\ queue = {}
    /\ \A w \in Workers : wst[w] = "idle"
    /\ pending' = {}
    /\ results' = {}
    /\ \/ /\ ~NoError(results)
          /\ pc' = "idle"
          /\ UNCHANGED <<ledger, processed, ri>>
       \/ /\ NoError(results)
          /\ ledger' = AddProcessed(pending)
          /\ processed' = processed \cup pending
          /\ pc' = "list"
          /\ ri' = ri + 1
       \/ /\ NoError(results)
          /\ pc' = "idle"
          /\ UNCHANGED <<ledger, processed, ri>>
    /\ UNCHANGED <<now, ticked, store, copied, recopied, queue, wjob, wst>>

TickStep ==
    \/ ProcessResource
    \/ TickDone
    \/ Collect
    \/ \E w \in Workers : Take(w) \/ Notify(w) \/ Send(w)

Next ==
    \/ Advance
    \/ \E n \in Names : Upload(n)
    \/ TickStart
    \/ TickStep

\* Goroutines of a running tick are scheduled and every remote call returns
\* (each carries the tick's context); the clock, uploads and the scheduler
\* are not obliged to act.
Fairness ==
    /\ WF_vars(ProcessResource)
    /\ WF_vars(TickDone)
    /\ WF_vars(Collect)
    /\ \A w \in Workers : WF_vars(Take(w)) /\ WF_vars(Notify(w)) /\ WF_vars(Send(w))

Spec == Init /\ [][Next]_vars /\ Fairness

-----------------------------------------------------------------------------
(* Properties.                                                             *)

\* Some rule copied version m of n, or a later version of it.
Delivered(n, m) ==
    \E r \in Rules : copied[r][n] >= m

\* processResource records an object in the ledger only after notifyAll saw
\* every proxy call of the rule succeed: no ledger record names an object
\* version that no proxy call has copied (else it would never be mirrored).
LedgerSound ==
    \A e \in ledger : Delivered(e.fp[1], e.fp[2])

\* Once AddProcessed has recorded a version, no later tick copies it again:
\* the listing window (now - TimeWindow) is shorter than the ledger's
\* retention (2 * TimeWindow), so a pruned record is never listed again.
NoCopyAfterRecord ==
    recopied = {}

\* The spec's tick contract: an object listed by overlapping rules "is
\* processed per-rule but only fingerprinted once per tick".  At the end of a
\* tick that returned no error, every recorded version of an object has been
\* copied by every rule whose source matches the object.
ProcessedPerRule ==
    [][TickDone => \A e \in ledger, r \in Rules :
                     e.fp[1] \in Match[r] => copied[r][e.fp[1]] >= e.fp[2]]_vars

\* notifyAll returns: the worker pool drains and waitGroup.Wait is released
\* (the error channel never fills while a worker still has to send).
NotifyAllReturns ==
    pc = "notify" ~> pc # "notify"
=============================================================================
