------------------------------- MODULE RuleSet -------------------------------
(***************************************************************************)
(* The rule set of smirror: config.Resources (src/unnamed/part_000, lines  *)
(* 51-153).  It holds the seed rules from the service configuration and   *)
(* the rules decoded from the *.json files under BaseURL, and reloads them *)
(* when the metadata watcher (base.Meta, not under src/) reports a change. *)
(*                                                                         *)
(* A rule file's content is abstracted to a version number: the rules     *)
(* decoded from file f at version v are one token <<f, v>>.  A seed rule  *)
(* is a model value of Seed.  Rules are compared by identity, which  *)
(* is what the code's []*Resource slices hold.                            *)
(***************************************************************************)
EXTENDS Integers, Sequences, FiniteSets

CONSTANTS
    Files,      \* the *.json rule files that may exist under BaseURL
    FileOrder,  \* the order in which fs.List returns them
    Seed,       \* the seed rules of the configuration, in order
    MaxVer      \* bound on the writes to one rule file

Versions == 0..MaxVer
FileKinds == {"missing", "valid", "corrupt"}
FileState == [kind : FileKinds, ver : Versions]
Token == Files \X Versions

\* A rule: the rules decoded from one version of one file, or a seed rule.
Rule == Token \cup {Seed[i] : i \in 1..Len(Seed)}

ASSUME RuleSetAssumption ==
    /\ FileOrder \in Seq(Files)
    /\ Seed \in Seq(Rule)
    /\ \A i, j \in 1..Len(FileOrder) : FileOrder[i] = FileOrder[j] => i = j
    /\ \A f \in Files : \E i \in 1..Len(FileOrder) : FileOrder[i] = f
    /\ \A i, j \in 1..Len(Seed) : Seed[i] = Seed[j] => i = j
    /\ \A i \in 1..Len(Seed) : Seed[i] \notin Token
    /\ MaxVer \in Nat \ {0}

VARIABLES
    store,        \* the rule files under BaseURL
    rules,        \* r.Rules
    initialRules, \* r.initialRules
    inited,       \* r.inited, the flag set by the compare-and-swap
    cached,       \* the fingerprint the metadata watcher last saw
    lastReload    \* outcome of the last ReloadIfNeeded call (history)

vars == <<store, rules, initialRules, inited, cached, lastReload>>

(* A fresh base.Meta has seen no file. *)
NoMeta == [f \in Files |-> [kind |-> "missing", ver |-> 0]]

TypeOK ==
    /\ store \in [Files -> FileState]
    /\ rules \in Seq(Rule)
    /\ initialRules \in Seq(Rule)
    /\ inited \in BOOLEAN
    /\ cached \in [Files -> FileState]
    /\ lastReload \in {"none", "unchanged", "reloaded", "failed"}

(***************************************************************************)
(* fs.List with the ".json" suffix matcher: the files that exist, in      *)
(* listing order.                                                          *)
(***************************************************************************)
Present(i) == store[FileOrder[i]].kind # "missing"

(* How many of the first i files of the listing order exist. *)
ListedCount(i) == Cardinality({j \in 1..i : Present(j)})

(* The k-th listed file is the existing one with k existing files up to  *)
(* and including it.                                                      *)
Listed ==
    [k \in 1..ListedCount(Len(FileOrder)) |->
        FileOrder[CHOOSE i \in 1..Len(FileOrder) : Present(i) /\ ListedCount(i) = k]]

\* Mutant: the listed object itself is appended, not the rules decoded from it.
DecodedRecord(k) == [i \in 1..k |-> Listed[i]]

(* The rules loadResources appends for the first k listed files. *)
Decoded(k) == [i \in 1..k |-> <<Listed[i], store[Listed[i]].ver>>]

(* Listing positions that loadResources can get through without a decode  *)
(* error: every file before a corrupt one.                                *)
Decodable(k) == \A i \in 1..k : store[Listed[i]].kind = "valid"

\* Mutant: a failed Download or decode is skipped and its error dropped, so
\* the load reports success with the rules loaded before it.
LoadOutcomesErrorDropped(initial) ==
    {<<initial, TRUE>>}
    \cup {<<initial \o Decoded(k), FALSE>> : k \in {j \in 0..Len(Listed) : Decodable(j)}}

(***************************************************************************)
(* loadAllResources: the set of possible <<r.Rules, error>> outcomes.     *)
(* r.Rules is reset to initialRules first; fs.Exists and fs.List can fail *)
(* transiently, a Download can fail on any file, a corrupt file fails     *)
(* to decode, and every file loaded before the failure stays appended.    *)
(***************************************************************************)
LoadOutcomes(initial) ==
    {<<initial, TRUE>>}                                    \* Exists or List error
    \cup (IF Len(Listed) = 0 THEN {<<initial, FALSE>>} ELSE {})
    \cup {<<initial \o Decoded(k - 1), TRUE>> :            \* Download/decode error
            k \in {j \in 1..Len(Listed) : Decodable(j - 1)}}
    \cup (IF Decodable(Len(Listed))
          THEN {<<initial \o Decoded(Len(Listed)), FALSE>>} ELSE {})

(* initRules, with its compare-and-swap on r.inited. *)
InitRulesNoCAS(r, i, d) == r
InitRules(r, i, d) == IF d THEN i ELSE r

Init ==
    /\ store = [f \in Files |-> [kind |-> "missing", ver |-> 0]]
    /\ rules = Seed
    /\ initialRules = <<>>
    /\ inited = FALSE
    /\ cached = NoMeta
    /\ lastReload = "none"

(***************************************************************************)
(* Resources.Init: initRules, a fresh metadata watcher, loadAndInit.      *)
(* An error of Init is fatal (cron New returns it and no service runs),   *)
(* so only the successful outcomes continue.                              *)
(***************************************************************************)
ResourcesInit ==
    /\ inited' = TRUE
    /\ initialRules' = InitRules(rules, initialRules, inited)
    /\ cached' = NoMeta
    /\ \E o \in LoadOutcomes(initialRules') : ~o[2] /\ rules' = o[1]
    /\ lastReload' = "none"
    /\ UNCHANGED store

(***************************************************************************)
(* ReloadIfNeeded.  Meta.HasChanged (base.Meta, not under src/) lists     *)
(* BaseURL, compares the aggregate of the files with the cached one and   *)
(* caches the new aggregate before it returns; a listing error returns    *)
(* (false, err).  When changed, loadAndInit runs from initialRules.       *)
(***************************************************************************)
HasChangedFails ==
    /\ inited
    /\ lastReload' = "failed"
    /\ UNCHANGED <<store, rules, initialRules, inited, cached>>

ReloadIfNeeded ==
    /\ inited
    /\ cached' = store
    /\ IF store = cached
       THEN /\ lastReload' = "unchanged"
            /\ UNCHANGED rules
       ELSE \E o \in LoadOutcomes(initialRules) :
              /\ rules' = o[1]
              /\ lastReload' = IF o[2] THEN "failed" ELSE "reloaded"
    /\ UNCHANGED <<store, initialRules, inited>>

(***************************************************************************)
(* The environment edits the rule files: a valid rewrite, a write of      *)
(* undecodable JSON, a deletion.  Each write is a new version.            *)
(***************************************************************************)
WriteFileUnbounded(f, k) ==
    /\ store' = [store EXCEPT ![f] = [kind |-> k, ver |-> @.ver + 1]]
    /\ UNCHANGED <<rules, initialRules, inited, cached, lastReload>>

WriteFile(f, k) ==
    /\ store[f].ver < MaxVer
    /\ store' = [store EXCEPT ![f] = [kind |-> k, ver |-> @.ver + 1]]
    /\ UNCHANGED <<rules, initialRules, inited, cached, lastReload>>

DeleteFile(f) ==
    /\ store[f].kind # "missing"
    /\ store' = [store EXCEPT ![f].kind = "missing"]
    /\ UNCHANGED <<rules, initialRules, inited, cached, lastReload>>

Next ==
    \/ ResourcesInit
    \/ HasChangedFails
    \/ ReloadIfNeeded
    \/ \E f \in Files, k \in {"valid", "corrupt"} : WriteFile(f, k)
    \/ \E f \in Files : DeleteFile(f)

Spec == Init /\ [][Next]_vars

(***************************************************************************)
(* The cron service calls ReloadIfNeeded on every tick, and the errors of *)
(* fs.Exists, fs.List and Download are transient: a reload that can load *)
(* the files without error eventually does.                               *)
(***************************************************************************)
ReloadFairness ==
    /\ WF_vars(ReloadIfNeeded)
    /\ SF_vars(ReloadIfNeeded /\ lastReload' = "reloaded")

LiveSpec == Spec /\ ReloadFairness

-----------------------------------------------------------------------------
(***************************************************************************)
(* Whatever sequence of Init calls, reloads and file edits happens, the   *)
(* rule set is the seed rules once, in order, followed by the rules of   *)
(* distinct files: a second Resources.Init must not make the loaded rules *)
(* part of the seed (the compare-and-swap in initRules), or every reload  *)
(* appends them again.                                                    *)
(***************************************************************************)
SeedThenFiles ==
    /\ Len(rules) >= Len(Seed)
    /\ SubSeq(rules, 1, Len(Seed)) = Seed
    /\ \A i \in Len(Seed)+1..Len(rules) : rules[i] \in Token
    /\ \A i, j \in Len(Seed)+1..Len(rules) : rules[i][1] = rules[j][1] => i = j

(***************************************************************************)
(* The rule-set load policy: a reload that returns an error leaves the    *)
(* previous snapshot active (spec: "On any decode error the snapshot is   *)
(* rejected and the previous snapshot remains active").                   *)
(***************************************************************************)
SnapshotKeptOnFailedReload ==
    [][lastReload' = "failed" => rules' = rules]_vars

(***************************************************************************)
(* The rule-set load policy (spec: "The new snapshot is initial_rules ++  *)
(* (concat of decoded arrays)"): a ReloadIfNeeded that returns no error  *)
(* installs the seed followed by the rules of every listed file, in      *)
(* listing order, whatever an earlier failed load left behind.            *)
(***************************************************************************)
ReloadInstallsAll ==
    [][ReloadIfNeeded /\ lastReload' = "reloaded" =>
         rules' = initialRules \o Decoded(Len(Listed))]_vars

(***************************************************************************)
(* Transient errors are retried by the next tick (the spec's error        *)
(* taxonomy): once the rule files stop changing, and all of them decode,  *)
(* ReloadIfNeeded eventually makes the rule set the seed followed by the  *)
(* rules of every file, and it stays so.  Resources.Init runs only while *)
(* the cron service is built, so only behaviours in which it stops count. *)
(***************************************************************************)
FilesEventuallyLoaded ==
    <>[][~ResourcesInit]_vars =>
        <>[](inited /\ Decodable(Len(Listed)) =>
                rules = initialRules \o Decoded(Len(Listed)))
====
