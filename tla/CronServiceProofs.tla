-------------------------- MODULE CronServiceProofs --------------------------
(***************************************************************************)
(* Proofs about CronService, for every value of the constants.            *)
(*                                                                         *)
(* LedgerSound is not inductive: Collect adds the whole pending set to the *)
(* ledger, so the invariant must know that every pending object has a      *)
(* successful result by then, and a result is only "ok" when the proxy     *)
(* copied a version at least as new as the listed one.  IInv adds that    *)
(* bookkeeping of notifyAll: where each pending object is (queue, worker,  *)
(* error channel), what an "ok" means, and that the source version of an   *)
(* object still waiting for its proxy call is not older than the listing.  *)
(***************************************************************************)
EXTENDS CronService, TLAPS

\* A worker that is not idle holds an object of the pending set.
WorkersHoldJobs ==
    \A w \in Workers : wst[w] # "idle" => wjob[w] \in Fps

\* Outside notifyAll no worker runs, and notifyAll runs for an existing rule.
PoolQuiet ==
    /\ pc # "notify" => \A w \in Workers : wst[w] = "idle"
    /\ pc = "notify" => ri \in Rules

\* Every pending object is in the queue, with a worker, or in errorChannel.
PendingAccounted ==
    pc = "notify" =>
        \A fp \in pending :
            \/ fp \in queue
            \/ \E w \in Workers : wst[w] # "idle" /\ wjob[w] = fp
            \/ \E x \in results : x.fp = fp

\* An "ok" result, sent or not, means the version was copied.
OkMeansCopied ==
    /\ \A x \in results : x.ok => Delivered(x.fp[1], x.fp[2])
    /\ \A w \in Workers : wst[w] = "ok" => Delivered(wjob[w][1], wjob[w][2])

\* An object not yet handed to the proxy is listed at or before its current
\* version, which no later upload makes older.
NotYetCalled ==
    \A fp \in queue \cup {wjob[w] : w \in {v \in Workers : wst[v] = "call"}} :
        /\ fp[2] <= now
        /\ store[fp[1]] = Absent \/ store[fp[1]] >= fp[2]

\* No object version is newer than the clock.
SourceClock ==
    \A n \in Names : store[n] <= now

IInv ==
    /\ TypeOK
    /\ SourceClock
    /\ WorkersHoldJobs
    /\ PoolQuiet
    /\ PendingAccounted
    /\ OkMeansCopied
    /\ NotYetCalled
    /\ LedgerSound
-----------------------------------------------------------------------------
USE ConstantsAssumption

\* The fixed sets the model is built from, as the provers need them.
LEMMA SetsFacts ==
    /\ Rules \subseteq Nat
    /\ Times \subseteq Nat
    /\ Absent \notin Times
    /\ \A m \in Times : m > Absent
    /\ \A fp \in Fps : fp = <<fp[1], fp[2]>> /\ fp[1] \in Names /\ fp[2] \in Times
    /\ NoJob \notin Fps
BY DEF Rules, Times, Absent, Fps, NoJob

\* The initial state of New satisfies the inductive invariant.
LEMMA InitIInv == Init => IInv
<1> SUFFICES ASSUME Init PROVE IInv
  OBVIOUS
<1>1. TypeOK
  <2>1. now \in Times /\ store \in [Names -> Times \cup {Absent}]
    BY DEF Init, Times
  <2>2. copied \in [Rules -> [Names -> Times \cup {Absent}]]
    BY DEF Init
  <2>3. wjob \in [Workers -> Fps \cup {NoJob}] /\ wst \in [Workers -> {"idle", "call", "ok", "err"}]
    BY DEF Init
  <2>4. ri \in 1..(NRules + 1)
    BY DEF Init
  <2> QED
    BY <2>1, <2>2, <2>3, <2>4 DEF Init, TypeOK
<1>2. WorkersHoldJobs /\ PoolQuiet /\ PendingAccounted /\ OkMeansCopied /\ NotYetCalled
  BY DEF Init, WorkersHoldJobs, PoolQuiet, PendingAccounted, OkMeansCopied, NotYetCalled
<1>4. SourceClock
  BY DEF Init, SourceClock, Absent
<1>3. LedgerSound
  BY DEF Init, LedgerSound
<1> QED
  BY <1>1, <1>2, <1>3, <1>4 DEF IInv

\* The copy history only grows (copied versions never decrease).
CopiedGrew ==
    \A r \in Rules, n \in Names : copied'[r][n] >= copied[r][n]

\* A step that only raises the copied versions keeps every delivered version delivered.
LEMMA DeliveredStable ==
    ASSUME TypeOK, TypeOK', CopiedGrew,
           NEW n \in Names, NEW m \in Times, Delivered(n, m)
    PROVE  Delivered(n, m)'
BY DEF Delivered, CopiedGrew, TypeOK, Times, Absent

\* A clock step (the scheduler firing later) preserves the invariant.
LEMMA AdvanceIInv == IInv /\ Advance => IInv'
<1> SUFFICES ASSUME IInv, Advance PROVE IInv'
  OBVIOUS
<1>1. TypeOK'
  <2>1. now' \in Times
    BY DEF IInv, TypeOK, Advance, Times
  <2> QED
    BY <2>1 DEF IInv, TypeOK, Advance
<1>2. NotYetCalled'
  <2> SUFFICES ASSUME NEW fp \in queue \cup {wjob[w] : w \in {v \in Workers : wst[v] = "call"}}
               PROVE  fp[2] <= now' /\ (store[fp[1]] = Absent \/ store[fp[1]] >= fp[2])
    BY DEF Advance, NotYetCalled
  <2>1. fp[2] <= now /\ (store[fp[1]] = Absent \/ store[fp[1]] >= fp[2])
    BY DEF IInv, NotYetCalled
  <2>2. fp \in Fps
    BY DEF IInv, TypeOK, WorkersHoldJobs
  <2> QED
    BY <2>1, <2>2, SetsFacts DEF Advance, IInv, TypeOK, Times
<1>3. SourceClock'
  BY SetsFacts DEF IInv, TypeOK, SourceClock, Advance, Times, Absent
<1> QED
  BY <1>1, <1>2, <1>3 DEF IInv, Advance, WorkersHoldJobs, PoolQuiet, PendingAccounted,
     OkMeansCopied, LedgerSound, Delivered

\* An upload of a new object version by another system preserves the invariant.
LEMMA UploadIInv ==
    ASSUME NEW n \in Names, IInv, Upload(n) PROVE IInv'
<1>1. TypeOK'
  BY DEF IInv, TypeOK, Upload
<1>2. NotYetCalled'
  BY SetsFacts DEF IInv, TypeOK, Upload, NotYetCalled
<1>3. SourceClock'
  BY SetsFacts DEF IInv, TypeOK, SourceClock, Upload, Times
<1> QED
  BY <1>1, <1>2, <1>3 DEF IInv, Upload, WorkersHoldJobs, PoolQuiet, PendingAccounted,
     OkMeansCopied, LedgerSound, Delivered

\* The start of a tick (ReloadIfNeeded, UpdateSecrets) preserves the invariant.
LEMMA TickStartIInv == IInv /\ TickStart => IInv'
<1> SUFFICES ASSUME IInv, TickStart PROVE IInv'
  OBVIOUS
<1>1. TypeOK'
  BY DEF IInv, TypeOK, TickStart
<1> QED
  BY <1>1 DEF IInv, TickStart, SourceClock, WorkersHoldJobs, PoolQuiet, PendingAccounted,
     OkMeansCopied, NotYetCalled, LedgerSound, Delivered

\* The end of the rule loop of tick preserves the invariant.
LEMMA TickDoneIInv == IInv /\ TickDone => IInv'
<1> SUFFICES ASSUME IInv, TickDone PROVE IInv'
  OBVIOUS
<1>1. TypeOK'
  BY DEF IInv, TypeOK, TickDone
<1> QED
  BY <1>1 DEF IInv, TickDone, SourceClock, WorkersHoldJobs, PoolQuiet, PendingAccounted,
     OkMeansCopied, NotYetCalled, LedgerSound, Delivered

\* A rule's listing holds one fingerprint per present name, at its current version.
LEMMA CandidatesFacts ==
    ASSUME TypeOK, SourceClock, NEW r \in Rules
    PROVE  /\ Candidates(r) \subseteq Fps
           /\ \A fp \in Candidates(r) : fp[2] <= now /\ store[fp[1]] = fp[2]
<1>1. Match[r] \subseteq Names
  BY DEF Rules
<1> QED
  BY <1>1, SetsFacts DEF Candidates, TypeOK, SourceClock, Fps, Times, Absent

\* processResource, listing and reading the pending objects, preserves the invariant.
LEMMA ProcessResourceIInv == IInv /\ ProcessResource => IInv'
<1> SUFFICES ASSUME IInv, ProcessResource PROVE IInv'
  OBVIOUS
<1> DEFINE pend == PendingResources(Candidates(ri))
<1>1. ri \in Rules
  BY DEF ProcessResource, IInv, TypeOK, Rules
<1>2. pend \subseteq Candidates(ri)
  BY DEF PendingResources
<1>3. /\ pend \subseteq Fps
      /\ \A fp \in pend : fp[2] <= now /\ store[fp[1]] = fp[2]
  BY <1>1, <1>2, CandidatesFacts DEF IInv
<1>4. \A w \in Workers : wst[w] = "idle"
  BY DEF ProcessResource, IInv, PoolQuiet
<1>5. CASE pc' = "idle" /\ UNCHANGED <<ri, pending, queue, results>>
  BY <1>5, <1>4 DEF IInv, ProcessResource, TypeOK, SourceClock, WorkersHoldJobs, PoolQuiet,
     PendingAccounted, OkMeansCopied, NotYetCalled, LedgerSound, Delivered
<1>6. CASE pend = {} /\ ri' = ri + 1 /\ UNCHANGED <<pc, pending, queue, results>>
  <2>1. TypeOK'
    BY <1>1, <1>6 DEF IInv, ProcessResource, TypeOK, Rules
  <2> QED
    BY <1>6, <2>1, <1>4 DEF IInv, ProcessResource, SourceClock, WorkersHoldJobs, PoolQuiet,
       PendingAccounted, OkMeansCopied, NotYetCalled, LedgerSound, Delivered
<1>7. CASE /\ pend # {}
           /\ pc' = "notify"
           /\ pending' = pend
           /\ queue' = pend
           /\ results' = {}
           /\ UNCHANGED ri
  <2>1. TypeOK'
    BY <1>3, <1>7 DEF IInv, ProcessResource, TypeOK
  <2>2. PoolQuiet'
    BY <1>1, <1>4, <1>7 DEF ProcessResource, PoolQuiet
  <2>3. PendingAccounted'
    BY <1>7 DEF PendingAccounted
  <2>4. NotYetCalled'
    <3>1. {v \in Workers : wst'[v] = "call"} = {}
      BY <1>4 DEF ProcessResource
    <3>2. \A fp \in queue' : fp[2] <= now' /\ store'[fp[1]] >= fp[2]
      BY <1>3, <1>7, SetsFacts DEF ProcessResource, Times
    <3> QED
      BY <3>1, <3>2 DEF NotYetCalled
  <2>5. OkMeansCopied' /\ WorkersHoldJobs'
    BY <1>4, <1>7 DEF ProcessResource, OkMeansCopied, WorkersHoldJobs
  <2> QED
    BY <2>1, <2>2, <2>3, <2>4, <2>5 DEF IInv, ProcessResource, SourceClock, LedgerSound, Delivered
<1> QED
  BY <1>5, <1>6, <1>7 DEF ProcessResource

\* A pool worker receiving an object from the queue channel preserves the invariant.
LEMMA TakeIInv ==
    ASSUME NEW w \in Workers, IInv, Take(w) PROVE IInv'
<1>1. PICK fp \in queue : /\ queue' = queue \ {fp}
                          /\ wjob' = [wjob EXCEPT ![w] = fp]
                          /\ wst' = [wst EXCEPT ![w] = "call"]
  BY DEF Take
<1>2. fp \in Fps /\ fp[2] <= now /\ (store[fp[1]] = Absent \/ store[fp[1]] >= fp[2])
  BY <1>1 DEF IInv, TypeOK, NotYetCalled
<1>3. TypeOK'
  BY <1>1, <1>2 DEF IInv, TypeOK, Take
<1>4. WorkersHoldJobs' /\ PoolQuiet'
  BY <1>1, <1>2 DEF IInv, TypeOK, Take, WorkersHoldJobs, PoolQuiet
<1>5. PendingAccounted'
  BY <1>1 DEF IInv, TypeOK, Take, PendingAccounted
<1>6. OkMeansCopied'
  BY <1>1 DEF IInv, TypeOK, Take, OkMeansCopied, Delivered
<1>7. NotYetCalled'
  <2> SUFFICES ASSUME NEW g \in queue' \cup {wjob'[v] : v \in {u \in Workers : wst'[u] = "call"}}
               PROVE  g[2] <= now' /\ (store'[g[1]] = Absent \/ store'[g[1]] >= g[2])
    BY DEF NotYetCalled
  <2>1. g = fp \/ g \in queue \cup {wjob[v] : v \in {u \in Workers : wst[u] = "call"}}
    BY <1>1 DEF IInv, TypeOK
  <2> QED
    BY <2>1, <1>2 DEF IInv, Take, NotYetCalled
<1> QED
  BY <1>3, <1>4, <1>5, <1>6, <1>7 DEF IInv, Take, SourceClock, LedgerSound, Delivered

\* A worker sending its result on errorChannel preserves the invariant.
LEMMA SendIInv ==
    ASSUME NEW w \in Workers, IInv, Send(w) PROVE IInv'
<1>1. wst[w] \in {"ok", "err"} /\ wjob[w] \in Fps
  BY DEF Send, IInv, WorkersHoldJobs
<1> DEFINE res == [fp |-> wjob[w], ok |-> wst[w] = "ok"]
<1>2. TypeOK'
  <2>1. res \in [fp : Fps, ok : BOOLEAN]
    BY <1>1
  <2>2. results' = results \cup {res}
    BY DEF Send
  <2>3. wjob' \in [Workers -> Fps \cup {NoJob}] /\ wst' \in [Workers -> {"idle", "call", "ok", "err"}]
    BY DEF Send, IInv, TypeOK
  <2> QED
    BY <2>1, <2>2, <2>3 DEF IInv, TypeOK, Send
<1>3. WorkersHoldJobs' /\ PoolQuiet'
  BY <1>1 DEF IInv, TypeOK, Send, WorkersHoldJobs, PoolQuiet
<1>4. PendingAccounted'
  <2> SUFFICES ASSUME pc' = "notify", NEW fp \in pending'
               PROVE  \/ fp \in queue'
                      \/ \E v \in Workers : wst'[v] # "idle" /\ wjob'[v] = fp
                      \/ \E x \in results' : x.fp = fp
    BY DEF PendingAccounted
  <2>1. \/ fp \in queue
        \/ \E v \in Workers : wst[v] # "idle" /\ wjob[v] = fp
        \/ \E x \in results : x.fp = fp
    BY DEF IInv, PendingAccounted, Send
  <2>2. res \in results'
    BY DEF Send
  <2> QED
    BY <2>1, <2>2 DEF IInv, TypeOK, Send
<1>5. OkMeansCopied'
  <2>1. res.ok => Delivered(wjob[w][1], wjob[w][2])
    BY DEF IInv, OkMeansCopied
  <2>2. \A v \in Workers : wst'[v] = "ok" => v # w /\ wjob'[v] = wjob[v] /\ wst[v] = "ok"
    BY DEF IInv, TypeOK, Send
  <2>3. results' = results \cup {res}
    BY DEF Send
  <2> QED
    BY <2>1, <2>2, <2>3 DEF IInv, Send, OkMeansCopied, Delivered
<1>6. NotYetCalled'
  <2>1. {u \in Workers : wst'[u] = "call"} \subseteq {u \in Workers : wst[u] = "call"}
    BY <1>1 DEF IInv, TypeOK, Send
  <2>2. \A u \in {v \in Workers : wst'[v] = "call"} : wjob'[u] = wjob[u]
    BY <1>1 DEF IInv, TypeOK, Send
  <2> QED
    BY <2>1, <2>2 DEF IInv, Send, NotYetCalled
<1> QED
  BY <1>2, <1>3, <1>4, <1>5, <1>6 DEF IInv, Send, SourceClock, LedgerSound, Delivered

\* A proxy call of notify, whatever it copied, moved or failed, preserves the invariant.
LEMMA NotifyIInv ==
    ASSUME NEW w \in Workers, IInv, Notify(w) PROVE IInv'
<1> DEFINE n == wjob[w][1]
           m == wjob[w][2]
           cur == <<n, store[n]>>
<1>1. /\ wst[w] = "call"
      /\ wjob[w] \in Fps /\ n \in Names /\ m \in Times
      /\ pc = "notify" /\ ri \in Rules
      /\ store[n] = Absent \/ store[n] >= m
  BY SetsFacts DEF Notify, IInv, WorkersHoldJobs, PoolQuiet, NotYetCalled
<1>2. /\ store' = store \/ store' = [store EXCEPT ![n] = Absent]
      /\ copied' = copied \/ (store[n] # Absent /\ CopyVersion(cur))
      /\ recopied' \subseteq recopied \cup (processed \cap {cur})
      /\ wst' = [wst EXCEPT ![w] = "ok"] \/ wst' = [wst EXCEPT ![w] = "err"]
      /\ UNCHANGED <<now, ticked, ledger, processed, pc, ri, pending, queue, wjob, results>>
  BY DEF Notify, CopyVersion, MoveSource
<1>3. CopiedGrew
  <2>1. CASE copied' = copied
    BY <2>1 DEF CopiedGrew, IInv, TypeOK, Times, Absent
  <2>2. CASE store[n] # Absent /\ CopyVersion(cur)
    <3>1. copied' = [copied EXCEPT ![ri][n] = IF store[n] > @ THEN store[n] ELSE @]
      BY <2>2 DEF CopyVersion
    <3>2. copied \in [Rules -> [Names -> Times \cup {Absent}]]
      BY DEF IInv, TypeOK
    <3>3. store[n] \in Times
      BY <1>1, <2>2 DEF IInv, TypeOK, Absent
    <3>. QED BY <1>1, <3>1, <3>2, <3>3 DEF CopiedGrew, Times, Absent
  <2>. QED BY <1>2, <2>1, <2>2
<1>4. TypeOK'
  <2>1. store' \in [Names -> Times \cup {Absent}]
    BY <1>1, <1>2 DEF IInv, TypeOK
  <2>2. copied' \in [Rules -> [Names -> Times \cup {Absent}]]
    BY <1>1, <1>2 DEF IInv, TypeOK, CopyVersion
  <2>3. recopied' \subseteq Fps
    BY <1>2 DEF IInv, TypeOK
  <2>4. wst' \in [Workers -> {"idle", "call", "ok", "err"}]
    BY <1>2 DEF IInv, TypeOK
  <2> QED
    BY <1>2, <2>1, <2>2, <2>3, <2>4 DEF IInv, TypeOK
<1>5. SourceClock'
  BY <1>1, <1>2 DEF IInv, TypeOK, SourceClock, Absent, Times
<1>6. WorkersHoldJobs' /\ PoolQuiet' /\ PendingAccounted'
  BY <1>1, <1>2 DEF IInv, TypeOK, WorkersHoldJobs, PoolQuiet, PendingAccounted
<1>7. OkMeansCopied'
  <2>1. ASSUME wst'[w] = "ok" PROVE Delivered(n, m)'
    <3>1. store[n] # Absent /\ CopyVersion(cur)
      BY <2>1, <1>1 DEF Notify, IInv, TypeOK
    <3>2. copied'[ri][n] >= store[n]
      BY <3>1, <1>1 DEF CopyVersion, IInv, TypeOK, Times, Absent
    <3>3. store[n] >= m /\ store[n] \in Times /\ copied'[ri][n] \in Int
      BY <3>1, <1>1, <1>4 DEF IInv, TypeOK, Times, Absent
    <3>4. wjob' = wjob
      BY <1>2
    <3> QED
      BY <3>2, <3>3, <3>4, <1>1, SetsFacts DEF Delivered, Times
  <2>2. ASSUME NEW v \in Workers, v # w, wst'[v] = "ok"
        PROVE  Delivered(wjob[v][1], wjob[v][2])'
    <3>1. wst[v] = "ok" /\ wjob'[v] = wjob[v] /\ wjob[v] \in Fps
      BY <2>2, <1>2 DEF IInv, TypeOK, WorkersHoldJobs
    <3>2. Delivered(wjob[v][1], wjob[v][2])
      BY <3>1 DEF IInv, OkMeansCopied
    <3> QED
      BY <3>1, <3>2, <1>3, <1>4, DeliveredStable, SetsFacts DEF IInv, TypeOK
  <2>3. ASSUME NEW x \in results', x.ok PROVE Delivered(x.fp[1], x.fp[2])'
    BY <2>3, <1>2, <1>3, <1>4, DeliveredStable, SetsFacts DEF IInv, TypeOK, OkMeansCopied
  <2> QED
    BY <2>1, <2>2, <2>3, <1>2 DEF OkMeansCopied, n, m
<1>8. NotYetCalled'
  <2> SUFFICES ASSUME NEW g \in queue' \cup {wjob'[v] : v \in {u \in Workers : wst'[u] = "call"}}
               PROVE  g[2] <= now' /\ (store'[g[1]] = Absent \/ store'[g[1]] >= g[2])
    BY DEF NotYetCalled
  <2>1. g \in queue \cup {wjob[v] : v \in {u \in Workers : wst[u] = "call"}}
    BY <1>2 DEF IInv, TypeOK
  <2>2. g \in Fps
    BY <2>1 DEF IInv, TypeOK, WorkersHoldJobs
  <2> QED
    BY <2>1, <2>2, <1>1, <1>2, SetsFacts DEF IInv, TypeOK, NotYetCalled
<1>9. LedgerSound'
  BY <1>2, <1>3, <1>4, DeliveredStable, SetsFacts DEF IInv, TypeOK, LedgerSound, LedgerRecord
<1> QED
  BY <1>4, <1>5, <1>6, <1>7, <1>8, <1>9 DEF IInv

\* The drain of errorChannel after waitGroup.Wait, with AddProcessed, preserves the invariant.
LEMMA CollectIInv == IInv /\ Collect => IInv'
<1> SUFFICES ASSUME IInv, Collect PROVE IInv'
  OBVIOUS
<1>1. /\ pc = "notify" /\ ri \in Rules /\ queue = {}
      /\ \A w \in Workers : wst[w] = "idle"
  BY DEF Collect, IInv, PoolQuiet
<1>2. \A fp \in pending : \E x \in results : x.fp = fp
  BY <1>1 DEF IInv, PendingAccounted
<1>3. CASE NoError(results) /\ ledger' = AddProcessed(pending)
                            /\ processed' = processed \cup pending
                            /\ pc' = "list" /\ ri' = ri + 1
  <2>1. \A fp \in pending : Delivered(fp[1], fp[2])
    BY <1>2, <1>3 DEF NoError, IInv, OkMeansCopied
  <2>2. TypeOK'
    <3>1. ledger' \subseteq LedgerRecord
      BY <1>3 DEF AddProcessed, IInv, TypeOK, LedgerRecord
    <3>2. ri' \in 1..(NRules + 1)
      BY <1>1, <1>3 DEF Rules
    <3> QED
      BY <1>3, <3>1, <3>2 DEF Collect, IInv, TypeOK
  <2>3. LedgerSound'
    BY <1>3, <2>1 DEF Collect, AddProcessed, IInv, LedgerSound, Delivered
  <2> QED
    BY <1>1, <1>3, <2>2, <2>3 DEF Collect, IInv, SourceClock, WorkersHoldJobs, PoolQuiet,
       PendingAccounted, OkMeansCopied, NotYetCalled, Delivered
<1>4. CASE pc' = "idle" /\ UNCHANGED <<ledger, processed, ri>>
  BY <1>1, <1>4 DEF Collect, IInv, TypeOK, SourceClock, WorkersHoldJobs, PoolQuiet,
     PendingAccounted, OkMeansCopied, NotYetCalled, LedgerSound, Delivered
<1> QED
  BY <1>3, <1>4 DEF Collect

\* Every step of the cron coordinator preserves the invariant.
LEMMA NextIInv == IInv /\ [Next]_vars => IInv'
<1> SUFFICES ASSUME IInv, [Next]_vars PROVE IInv'
  OBVIOUS
<1>1. CASE Advance
  BY <1>1, AdvanceIInv
<1>2. CASE \E n \in Names : Upload(n)
  BY <1>2, UploadIInv
<1>3. CASE TickStart
  BY <1>3, TickStartIInv
<1>4. CASE ProcessResource
  BY <1>4, ProcessResourceIInv
<1>5. CASE TickDone
  BY <1>5, TickDoneIInv
<1>6. CASE Collect
  BY <1>6, CollectIInv
<1>7. CASE \E w \in Workers : Take(w) \/ Notify(w) \/ Send(w)
  BY <1>7, TakeIInv, NotifyIInv, SendIInv
<1>8. CASE UNCHANGED vars
  BY <1>8 DEF vars, IInv, TypeOK, SourceClock, WorkersHoldJobs, PoolQuiet,
     PendingAccounted, OkMeansCopied, NotYetCalled, LedgerSound, Delivered
<1> QED
  BY <1>1, <1>2, <1>3, <1>4, <1>5, <1>6, <1>7, <1>8 DEF Next, TickStep

\* The invariant of notifyAll's bookkeeping holds in every reachable state.
THEOREM IInvariant == Spec => []IInv
BY InitIInv, NextIInv, PTL DEF Spec

\* Every state the cron coordinator reaches is well typed, for all constants.
THEOREM TypeCorrect == Spec => []TypeOK
BY IInvariant, PTL DEF IInv

\* For every configuration, the ledger never records an object version that
\* no proxy call copied: processResource calls AddProcessed only after every
\* notification of the rule succeeded.
THEOREM LedgerSoundness == Spec => []LedgerSound
BY IInvariant, PTL DEF IInv
=============================================================================
