----------------------- MODULE CronServiceWindowProofs -----------------------
(***************************************************************************)
(* Proof, for every value of the constants, that no tick copies an object *)
(* version that AddProcessed has already recorded: the listing window     *)
(* (ModTime after now - TimeWindow) is shorter than the ledger's          *)
(* retention (2 * TimeWindow), so a version whose record was pruned is no *)
(* longer listed, and one whose record is kept is filtered out by         *)
(* PendingResources.                                                      *)
(***************************************************************************)
EXTENDS CronServiceProofs

\* The queue and the workers hold objects of the pending set.
QueuePending == queue \subseteq pending

JobsPending == \A w \in Workers : wst[w] # "idle" => wjob[w] \in pending

\* No recorded version is newer than the clock.
ProcessedClock == \A fp \in processed : fp[2] <= now

\* A recorded version keeps a ledger record written no earlier than its
\* mtime, unless it is older than the retention horizon.
RecordKept ==
    \A fp \in processed :
        \/ \E e \in ledger : e.fp = fp /\ e.at >= fp[2]
        \/ fp[2] < now - Retention

\* A pending object was listed at or before the clock, and its source is
\* since then deleted or replaced by a version no older.
PendingNotOlder ==
    pc = "notify" =>
        \A fp \in pending :
            /\ fp[2] <= now
            /\ store[fp[1]] = Absent \/ store[fp[1]] >= fp[2]

\* A version recorded at the current clock value is still the current one,
\* or was deleted (Move): an upload within the same clock value would
\* reproduce the same fingerprint.
RecordedNowCurrent ==
    \A fp \in processed : fp[2] = now => store[fp[1]] \in {now, Absent}

\* No pending object has a version recorded at the current clock value, so
\* an upload during notifyAll does not make a recorded version current.
NoRecordNowPending ==
    pc = "notify" => \A fp \in pending : <<fp[1], now>> \notin processed

\* The current version of every pending object is not recorded: this is
\* what the proxy copies.
CurrentNotProcessed ==
    pc = "notify" =>
        \A fp \in pending :
            store[fp[1]] # Absent => <<fp[1], store[fp[1]]>> \notin processed

RInv ==
    /\ QueuePending
    /\ JobsPending
    /\ ProcessedClock
    /\ RecordKept
    /\ PendingNotOlder
    /\ RecordedNowCurrent
    /\ NoRecordNowPending
    /\ CurrentNotProcessed
    /\ NoCopyAfterRecord
-----------------------------------------------------------------------------
USE ConstantsAssumption

\* Before the first tick nothing is pending or recorded.
LEMMA InitRInv == Init => RInv
BY DEF Init, RInv, QueuePending, JobsPending, ProcessedClock, RecordKept, PendingNotOlder,
       RecordedNowCurrent, NoRecordNowPending, CurrentNotProcessed, NoCopyAfterRecord

\* The clock advances: recorded versions fall further behind it, and none
\* is recorded at the new clock value.
LEMMA AdvanceRInv ==
    ASSUME IInv, RInv, Advance
    PROVE  RInv'
<1>1. now' = now + 1 /\ now \in Nat
  BY SetsFacts DEF Advance, IInv, TypeOK
<1>2. UNCHANGED <<store, ledger, processed, recopied, pc, pending, queue, wjob, wst>>
  BY DEF Advance
<1>3. \A fp \in processed : fp[2] \in Nat /\ fp[2] <= now
  BY SetsFacts DEF IInv, TypeOK, RInv, ProcessedClock
<1>4. (ProcessedClock /\ RecordedNowCurrent /\ NoRecordNowPending)'
  BY <1>1, <1>2, <1>3, SetsFacts
     DEF ProcessedClock, RecordedNowCurrent, NoRecordNowPending
<1>5. RecordKept'
  BY <1>1, <1>2, <1>3 DEF RInv, RecordKept, Retention
<1>6. PendingNotOlder'
  BY <1>1, <1>2, SetsFacts DEF RInv, PendingNotOlder, IInv, TypeOK
<1>. QED BY <1>2, <1>4, <1>5, <1>6
         DEF RInv, QueuePending, JobsPending, CurrentNotProcessed, NoCopyAfterRecord

\* Another system uploads a version of n at the current clock value: the
\* new version is recorded for no pending object.
LEMMA UploadRInv ==
    ASSUME IInv, RInv, NEW n \in Names, Upload(n)
    PROVE  RInv'
<1>1. store' = [store EXCEPT ![n] = now]
  BY DEF Upload
<1>2. UNCHANGED <<now, ledger, processed, recopied, pc, pending, queue, wjob, wst>>
  BY DEF Upload
<1>3. RecordedNowCurrent'
  BY <1>1, <1>2 DEF RInv, RecordedNowCurrent, IInv, TypeOK
<1>4. PendingNotOlder'
  BY <1>1, <1>2, SetsFacts DEF RInv, PendingNotOlder, IInv, TypeOK
<1>5. CurrentNotProcessed'
  BY <1>1, <1>2, SetsFacts DEF RInv, CurrentNotProcessed, NoRecordNowPending, IInv, TypeOK
<1>. QED BY <1>2, <1>3, <1>4, <1>5
         DEF RInv, QueuePending, JobsPending, ProcessedClock, RecordKept, NoRecordNowPending,
             NoCopyAfterRecord

\* The start and the end of the rule loop move no object.
LEMMA TickRInv ==
    ASSUME RInv, TickStart \/ TickDone
    PROVE  RInv'
<1>1. UNCHANGED <<now, store, ledger, processed, recopied, pending, queue, wjob, wst>>
  BY DEF TickStart, TickDone
<1>2. pc' # "notify"
  BY DEF TickStart, TickDone
<1>. QED BY <1>1, <1>2
         DEF RInv, QueuePending, JobsPending, ProcessedClock, RecordKept, PendingNotOlder,
             RecordedNowCurrent, NoRecordNowPending, CurrentNotProcessed, NoCopyAfterRecord

\* The heart of the argument: PendingResources of a rule's listing holds no
\* recorded version.  A listed version is younger than TimeWindow; a record
\* kept for it is then within the retention horizon, so it is Known and
\* filtered out; a pruned one is older than 2 * TimeWindow, so not listed.
LEMMA PendingNotRecorded ==
    ASSUME TypeOK, SourceClock, RecordKept, NEW r \in Rules,
           NEW fp \in PendingResources(Candidates(r))
    PROVE  /\ fp \in Fps
           /\ fp[2] <= now
           /\ store[fp[1]] = fp[2]
           /\ fp \notin processed
<1>1. fp \in Candidates(r) /\ ~Known(fp)
  BY DEF PendingResources
<1>2. fp \in Fps /\ fp[2] <= now /\ store[fp[1]] = fp[2]
  BY <1>1, CandidatesFacts
<1>3. fp[2] > now - TimeWindow
  BY <1>1 DEF Candidates, ModifiedAfter
<1>4. fp[2] \in Nat /\ now \in Nat
  BY <1>2, SetsFacts DEF TypeOK, Times
<1>5. ~\E e \in ledger : e.fp = fp /\ e.at >= now - Retention
  BY <1>1 DEF Known
<1>6. \A e \in ledger : e.at \in Nat
  BY SetsFacts DEF TypeOK, LedgerRecord
<1>7. fp \notin processed
  <2>. SUFFICES ASSUME fp \in processed PROVE FALSE
    OBVIOUS
  <2>1. CASE \E e \in ledger : e.fp = fp /\ e.at >= fp[2]
    BY <2>1, <1>3, <1>4, <1>5, <1>6 DEF Retention
  <2>2. CASE fp[2] < now - Retention
    BY <2>2, <1>3, <1>4 DEF Retention
  <2>. QED BY <2>1, <2>2 DEF RecordKept
<1>. QED BY <1>2, <1>7

\* processResource lists the rule's candidates and hands the pending ones
\* to notifyAll: none of them is recorded, and each is the current version.
LEMMA ProcessResourceRInv ==
    ASSUME IInv, RInv, ProcessResource
    PROVE  RInv'
<1>1. UNCHANGED <<now, store, ledger, processed, recopied, wjob, wst>>
  BY DEF ProcessResource
<1>2. pc = "list" /\ ri \in Rules
  BY DEF ProcessResource, IInv, TypeOK, Rules
<1>3. \A w \in Workers : wst[w] = "idle"
  BY <1>2 DEF IInv, PoolQuiet
<1>4. (ProcessedClock /\ RecordKept /\ RecordedNowCurrent /\ NoCopyAfterRecord)'
  BY <1>1 DEF RInv, ProcessedClock, RecordKept, RecordedNowCurrent, NoCopyAfterRecord
<1>5. JobsPending'
  BY <1>1, <1>3 DEF JobsPending
<1>6. CASE pc' # "notify" /\ UNCHANGED <<pending, queue>>
  BY <1>1, <1>4, <1>5, <1>6
     DEF RInv, QueuePending, PendingNotOlder, NoRecordNowPending, CurrentNotProcessed
<1>7. CASE pending' = PendingResources(Candidates(ri)) /\ queue' = pending'
  <2>1. \A fp \in pending' : /\ fp \in Fps /\ fp[2] <= now
                             /\ store[fp[1]] = fp[2] /\ fp \notin processed
    BY <1>2, <1>7, PendingNotRecorded DEF IInv, RInv
  <2>2. PendingNotOlder'
    BY <1>1, <2>1, SetsFacts DEF PendingNotOlder, Times
  <2>3. CurrentNotProcessed'
    BY <1>1, <2>1, SetsFacts DEF CurrentNotProcessed
  <2>4. NoRecordNowPending'
    <3>. SUFFICES ASSUME NEW fp \in pending', <<fp[1], now>> \in processed PROVE FALSE
      BY <1>1 DEF NoRecordNowPending
    <3>1. store[fp[1]] \in {now, Absent}
      BY DEF RInv, RecordedNowCurrent
    <3>2. fp[2] = now
      BY <2>1, <3>1, SetsFacts
    <3>. QED BY <2>1, <3>2, SetsFacts
  <2>. QED BY <1>4, <1>5, <1>7, <2>2, <2>3, <2>4 DEF RInv, QueuePending
<1>. QED BY <1>6, <1>7 DEF ProcessResource

\* A worker receives an object from the queue: it holds a pending object.
LEMMA TakeRInv ==
    ASSUME IInv, RInv, NEW w \in Workers, Take(w)
    PROVE  RInv'
<1>1. PICK fp \in queue : /\ queue' = queue \ {fp}
                          /\ wjob' = [wjob EXCEPT ![w] = fp]
                          /\ wst' = [wst EXCEPT ![w] = "call"]
  BY DEF Take
<1>2. UNCHANGED <<now, store, ledger, processed, recopied, pc, pending>>
  BY DEF Take
<1>3. QueuePending'
  BY <1>1, <1>2 DEF RInv, QueuePending
<1>4. JobsPending'
  BY <1>1, <1>2 DEF RInv, QueuePending, JobsPending, IInv, TypeOK
<1>. QED BY <1>2, <1>3, <1>4
         DEF RInv, ProcessedClock, RecordKept, PendingNotOlder, RecordedNowCurrent,
             NoRecordNowPending, CurrentNotProcessed, NoCopyAfterRecord

\* A worker sends its result to errorChannel and is idle again.
LEMMA SendRInv ==
    ASSUME IInv, RInv, NEW w \in Workers, Send(w)
    PROVE  RInv'
<1>1. wst' = [wst EXCEPT ![w] = "idle"] /\ wjob' = [wjob EXCEPT ![w] = NoJob]
  BY DEF Send
<1>2. UNCHANGED <<now, store, ledger, processed, recopied, pc, pending, queue>>
  BY DEF Send
<1>3. JobsPending'
  BY <1>1, <1>2 DEF RInv, JobsPending, IInv, TypeOK
<1>. QED BY <1>2, <1>3
         DEF RInv, QueuePending, ProcessedClock, RecordKept, PendingNotOlder, RecordedNowCurrent,
             NoRecordNowPending, CurrentNotProcessed, NoCopyAfterRecord

\* The proxy copies the current version of a worker's object, which is not
\* recorded, and may delete the source: nothing is copied again, and the
\* source only loses a version.
LEMMA NotifyRInv ==
    ASSUME IInv, RInv, NEW w \in Workers, Notify(w)
    PROVE  RInv'
<1>1. pc = "notify" /\ wjob[w] \in pending
  BY DEF Notify, IInv, PoolQuiet, RInv, JobsPending
<1>2. wjob[w] \in Fps /\ store \in [Names -> Times \cup {Absent}]
  BY <1>1 DEF IInv, TypeOK
<1>3. store[wjob[w][1]] # Absent =>
        <<wjob[w][1], store[wjob[w][1]]>> \notin processed
  BY <1>1 DEF RInv, CurrentNotProcessed
<1>4. recopied' = recopied
  BY <1>3 DEF Notify, CopyVersion
<1>5. \/ store' = store
      \/ store' = [store EXCEPT ![wjob[w][1]] = Absent]
  BY DEF Notify, MoveSource
<1>6. \A m \in Names : store'[m] = store[m] \/ store'[m] = Absent
  BY <1>2, <1>5, SetsFacts
<1>7. UNCHANGED <<now, ledger, processed, pc, pending, queue, wjob>>
  BY DEF Notify
<1>8. \A v \in Workers : wst'[v] # "idle" => wst[v] # "idle" \/ v = w
  BY DEF Notify, IInv, TypeOK
<1>9. JobsPending'
  BY <1>1, <1>7, <1>8 DEF RInv, JobsPending
<1>10. PendingNotOlder'
  BY <1>6, <1>7, SetsFacts DEF RInv, PendingNotOlder, IInv, TypeOK
<1>11. RecordedNowCurrent'
  BY <1>6, <1>7, SetsFacts DEF RInv, RecordedNowCurrent, IInv, TypeOK
<1>12. CurrentNotProcessed'
  BY <1>6, <1>7, SetsFacts DEF RInv, CurrentNotProcessed, IInv, TypeOK
<1>. QED BY <1>4, <1>7, <1>9, <1>10, <1>11, <1>12
         DEF RInv, QueuePending, ProcessedClock, RecordKept, NoRecordNowPending, NoCopyAfterRecord

\* notifyAll is over: AddProcessed records the pending objects at the
\* current clock value and prunes the records past retention, whose versions
\* are older still; an aborted tick records nothing.
LEMMA CollectRInv ==
    ASSUME IInv, RInv, Collect
    PROVE  RInv'
<1>1. pc = "notify" /\ queue = {} /\ \A w \in Workers : wst[w] = "idle"
  BY DEF Collect
<1>2. pending' = {} /\ UNCHANGED <<now, store, recopied, queue, wjob, wst>>
  BY DEF Collect
<1>3. pc' # "notify"
  BY DEF Collect
<1>4. (QueuePending /\ JobsPending /\ PendingNotOlder /\ NoRecordNowPending
       /\ CurrentNotProcessed /\ NoCopyAfterRecord)'
  BY <1>1, <1>2, <1>3 DEF RInv, QueuePending, JobsPending, PendingNotOlder,
     NoRecordNowPending, CurrentNotProcessed, NoCopyAfterRecord
<1>5. CASE UNCHANGED <<ledger, processed>>
  BY <1>2, <1>4, <1>5 DEF RInv, ProcessedClock, RecordKept, RecordedNowCurrent
<1>6. CASE ledger' = AddProcessed(pending) /\ processed' = processed \cup pending
  <2>1. \A fp \in pending : /\ fp \in Fps /\ fp[2] \in Nat /\ fp[2] <= now
                            /\ store[fp[1]] = Absent \/ store[fp[1]] >= fp[2]
    BY <1>1, SetsFacts DEF RInv, PendingNotOlder, IInv, TypeOK, Times
  <2>2. now \in Nat /\ \A e \in ledger : e.at \in Nat
    BY SetsFacts DEF IInv, TypeOK, LedgerRecord, Times
  <2>3. \A fp \in processed : fp \in Fps /\ fp[2] \in Nat
    BY SetsFacts DEF IInv, TypeOK, Times
  <2>4. ProcessedClock'
    BY <1>2, <1>6, <2>1 DEF RInv, ProcessedClock
  <2>5. RecordedNowCurrent'
    <3>. SUFFICES ASSUME NEW fp \in processed', fp[2] = now
                  PROVE  store[fp[1]] \in {now, Absent}
      BY <1>2 DEF RecordedNowCurrent
    <3>1. CASE fp \in processed
      BY <3>1 DEF RInv, RecordedNowCurrent
    <3>2. CASE fp \in pending
      <4>1. store[fp[1]] \in Times \cup {Absent} /\ store[fp[1]] <= now
        BY <3>2, <2>1, SetsFacts DEF IInv, TypeOK, SourceClock
      <4>. QED BY <3>2, <2>1, <4>1, SetsFacts DEF Times
    <3>. QED BY <1>6, <3>1, <3>2
  <2>6. RecordKept'
    <3>. SUFFICES ASSUME NEW fp \in processed'
                  PROVE  \/ \E e \in ledger' : e.fp = fp /\ e.at >= fp[2]
                         \/ fp[2] < now - Retention
      BY <1>2 DEF RecordKept
    <3>1. CASE fp \in pending
      <4>1. [fp |-> fp, at |-> now] \in ledger'
        BY <3>1, <1>6 DEF AddProcessed
      <4>. QED BY <3>1, <2>1, <4>1
    <3>2. CASE fp \in processed /\ \E e \in ledger : e.fp = fp /\ e.at >= fp[2]
      <4>1. PICK e \in ledger : e.fp = fp /\ e.at >= fp[2]
        BY <3>2
      <4>2. CASE e.at >= now - Retention
        <5>1. e \in ledger'
          BY <4>2, <1>6 DEF AddProcessed
        <5>. QED BY <4>1, <5>1
      <4>3. CASE e.at < now - Retention
        <5>1. fp[2] < now - Retention
          BY <4>1, <4>3, <2>2, <2>3, <3>2 DEF Retention
        <5>. QED BY <5>1
      <4>. QED BY <4>2, <4>3, <2>2 DEF Retention
    <3>3. CASE fp \in processed /\ fp[2] < now - Retention
      BY <3>3, <1>2
    <3>. QED BY <1>6, <3>1, <3>2, <3>3 DEF RInv, RecordKept
  <2>. QED BY <1>4, <2>4, <2>5, <2>6 DEF RInv
<1>. QED BY <1>5, <1>6 DEF Collect

\* Every step of the cron coordinator preserves the window invariant.
LEMMA NextRInv == IInv /\ RInv /\ [Next]_vars => RInv'
<1>. SUFFICES ASSUME IInv, RInv, [Next]_vars PROVE RInv'
  OBVIOUS
<1>1. CASE Advance
  BY <1>1, AdvanceRInv
<1>2. CASE \E n \in Names : Upload(n)
  BY <1>2, UploadRInv
<1>3. CASE TickStart \/ TickDone
  BY <1>3, TickRInv
<1>4. CASE ProcessResource
  BY <1>4, ProcessResourceRInv
<1>5. CASE Collect
  BY <1>5, CollectRInv
<1>6. CASE \E w \in Workers : Take(w) \/ Notify(w) \/ Send(w)
  BY <1>6, TakeRInv, NotifyRInv, SendRInv
<1>7. CASE UNCHANGED vars
  BY <1>7 DEF vars, RInv, QueuePending, JobsPending, ProcessedClock, RecordKept,
     PendingNotOlder, RecordedNowCurrent, NoRecordNowPending, CurrentNotProcessed,
     NoCopyAfterRecord
<1>. QED BY <1>1, <1>2, <1>3, <1>4, <1>5, <1>6, <1>7 DEF Next, TickStep

\* The window invariant holds, with the bookkeeping invariant it rests on,
\* in every reachable state.
THEOREM WindowInvariant == Spec => [](IInv /\ RInv)
<1>1. Init => IInv /\ RInv
  BY InitIInv, InitRInv
<1>2. IInv /\ RInv /\ [Next]_vars => (IInv /\ RInv)'
  BY NextIInv, NextRInv
<1>. QED BY <1>1, <1>2, PTL DEF Spec

\* For every time window, every rule set and any number of workers, no
\* tick's proxy call copies an object version that AddProcessed has already
\* recorded: getResourceCandidates lists only versions modified within
\* TimeWindow, and meta.New keeps records for 2 * TimeWindow, so every
\* listed version that was recorded is still Known to PendingResources.
THEOREM NoRecopy == Spec => []NoCopyAfterRecord
BY WindowInvariant, PTL DEF RInv
====
