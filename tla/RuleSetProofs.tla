---------------------------- MODULE RuleSetProofs ----------------------------
(***************************************************************************)
(* Proofs, for every set of rule files, every listing order and every     *)
(* seed, that the rule set is always the seed rules followed by the rules *)
(* of distinct files, whatever Init calls, reloads and file edits happen. *)
(* The listing of fs.List is counted, not recursive, so what it returns   *)
(* is proved for every store by the least-number principle of the         *)
(* naturals (WFMin over NatLessThanWellFounded).                          *)
(***************************************************************************)
EXTENDS RuleSet, FiniteSetTheorems, SequenceTheorems, TLAPS

USE RuleSetAssumption

\* Files in listing order, and how far fs.List can reach.
NFiles == Len(FileOrder)

\* The existing files before position i of the listing order.
Before(i) == {j \in 1..(i - 1) : Present(j)}

\* The positions up to which at least k files exist.
Reach(k) == {i \in 0..NFiles : ListedCount(i) >= k}

\* The position of the k-th listed file, as Listed chooses it.
ListedPos(k) == CHOOSE i \in 1..Len(FileOrder) : Present(i) /\ ListedCount(i) = k

(***************************************************************************)
(* The inductive invariant.  SeedThenFiles alone is not inductive: a     *)
(* load starts from r.initialRules, so the invariant must say that it is *)
(* the seed once Init has run, and that before the first Init the rule   *)
(* set is still the seed.                                                 *)
(***************************************************************************)
SeedBeforeInit == ~inited => rules = Seed

InitialIsSeed == inited => initialRules = Seed

IInv ==
    /\ TypeOK
    /\ SeedBeforeInit
    /\ InitialIsSeed
    /\ SeedThenFiles

\* SeedThenFiles, of a given rule sequence.
SeedThen(r) ==
    /\ Len(r) >= Len(Seed)
    /\ SubSeq(r, 1, Len(Seed)) = Seed
    /\ \A i \in Len(Seed)+1..Len(r) : r[i] \in Token
    /\ \A i, j \in Len(Seed)+1..Len(r) : r[i][1] = r[j][1] => i = j

-----------------------------------------------------------------------------
\* Every non-empty set of naturals has a least element.
LEMMA LeastNat ==
    ASSUME NEW T \in SUBSET Nat, T # {}
    PROVE  \E m \in T : \A k \in T : m <= k
<1>1. \E x \in T : \A y \in T : ~(<<y, x>> \in OpToRel(<, Nat))
  BY NatLessThanWellFounded, WFMin
<1>2. PICK x \in T : \A y \in T : ~(<<y, x>> \in OpToRel(<, Nat))
  BY <1>1
<1>3. \A y \in T : ~(y < x)
  BY <1>2 DEF OpToRel
<1>. QED BY <1>3

\* The listing order has a length, and its positions are files.
LEMMA OrderFacts ==
    /\ NFiles \in Nat
    /\ \A i \in 1..NFiles : FileOrder[i] \in Files
BY DEF NFiles

\* The count of existing files among the first i is at most i.
LEMMA CountType ==
    ASSUME NEW i \in 0..NFiles
    PROVE  /\ IsFiniteSet({j \in 1..i : Present(j)})
           /\ ListedCount(i) \in 0..i
<1>1. IsFiniteSet(1..i) /\ Cardinality(1..i) = i
  BY FS_Interval, OrderFacts
<1>2. IsFiniteSet({j \in 1..i : Present(j)})
      /\ Cardinality({j \in 1..i : Present(j)}) <= Cardinality(1..i)
  BY <1>1, FS_Subset
<1>3. Cardinality({j \in 1..i : Present(j)}) \in Nat
  BY <1>2, FS_CardinalityType
<1>. QED BY <1>1, <1>2, <1>3 DEF ListedCount

\* The same, as a fact about the count alone.
LEMMA CountRange == \A i \in 0..NFiles : ListedCount(i) \in 0..i
BY CountType

\* Each position of the listing order adds one to the count if its file exists.
LEMMA CountStep ==
    ASSUME NEW i \in 1..NFiles
    PROVE  ListedCount(i) = ListedCount(i - 1) + (IF Present(i) THEN 1 ELSE 0)
<1>1. IsFiniteSet(Before(i)) /\ i \notin Before(i)
  BY CountType, OrderFacts DEF Before
<1>2. CASE Present(i)
  <2>1. {j \in 1..i : Present(j)} = Before(i) \cup {i}
    BY <1>2, OrderFacts DEF Before
  <2>2. Cardinality(Before(i) \cup {i}) = Cardinality(Before(i)) + 1
    BY <1>1, FS_AddElement
  <2>3. ListedCount(i) = Cardinality(Before(i)) + 1 /\ ListedCount(i - 1) = Cardinality(Before(i))
    BY <2>1, <2>2 DEF ListedCount, Before
  <2>4. (IF Present(i) THEN 1 ELSE 0) = 1
    BY <1>2
  <2>. QED BY <2>3, <2>4
<1>3. CASE ~Present(i)
  <2>1. {j \in 1..i : Present(j)} = Before(i)
    BY <1>3, OrderFacts DEF Before
  <2>2. ListedCount(i) = Cardinality(Before(i)) /\ ListedCount(i - 1) = Cardinality(Before(i))
    BY <2>1 DEF ListedCount, Before
  <2>3. (IF Present(i) THEN 1 ELSE 0) = 0
    BY <1>3
  <2>4. Cardinality(Before(i)) \in Nat
    BY <1>1, FS_CardinalityType
  <2>. QED BY <2>2, <2>3, <2>4
<1>. QED BY <1>2, <1>3

\* Every count reached is reached at an existing file: the first position
\* whose count is k adds one to the count before it, so its file exists.
LEMMA ListedIndex ==
    ASSUME NEW k \in 1..ListedCount(NFiles)
    PROVE  \E i \in 1..NFiles : Present(i) /\ ListedCount(i) = k
<1>1. NFiles \in Nat /\ ListedCount(NFiles) \in 0..NFiles /\ k \in Nat
  BY OrderFacts, CountRange
<1>2. NFiles \in Reach(k) /\ Reach(k) \subseteq Nat
  BY <1>1 DEF Reach
<1>3. PICK m \in Reach(k) : \A x \in Reach(k) : m <= x
  BY <1>2, LeastNat
<1>4. ListedCount(0) = 0
  <2>1. {j \in 1..0 : Present(j)} = {}
    OBVIOUS
  <2>. QED BY <2>1, FS_EmptySet DEF ListedCount
<1>5. m \in 1..NFiles /\ ListedCount(m) >= k
  BY <1>1, <1>3, <1>4 DEF Reach
<1>6. ListedCount(m - 1) < k
  <2>1. m - 1 \in 0..NFiles
    BY <1>5, <1>1
  <2>2. m - 1 \notin Reach(k)
    BY <1>3, <1>5
  <2>3. ListedCount(m - 1) \in Nat
    BY <2>1, CountRange
  <2>. QED BY <2>1, <2>2, <2>3, <1>1 DEF Reach
<1>7. ListedCount(m) = ListedCount(m - 1) + (IF Present(m) THEN 1 ELSE 0)
  BY <1>5, CountStep
<1>8. ListedCount(m - 1) \in Nat
  BY <1>5, <1>1, CountRange
<1>9. CASE Present(m)
  <2>1. ListedCount(m) = ListedCount(m - 1) + 1
    BY <1>7, <1>9
  <2>2. ListedCount(m) = k
    BY <2>1, <1>5, <1>6, <1>8, <1>1
  <2>. QED BY <1>5, <1>9, <2>2
<1>10. CASE ~Present(m)
  <2>1. ListedCount(m) = ListedCount(m - 1)
    BY <1>7, <1>10, <1>8
  <2>. QED BY <2>1, <1>5, <1>6, <1>8
<1>. QED BY <1>9, <1>10

\* fs.List returns a sequence of distinct files, each of which exists.
LEMMA ListedFacts ==
    /\ Listed \in Seq(Files)
    /\ Len(Listed) = ListedCount(NFiles)
    /\ \A k \in 1..Len(Listed) : store[Listed[k]].kind # "missing"
    /\ \A k1, k2 \in 1..Len(Listed) : Listed[k1] = Listed[k2] => k1 = k2
<1>1. ListedCount(NFiles) \in Nat
  BY OrderFacts, CountRange
<1>2. \A k \in 1..ListedCount(NFiles) :
        /\ ListedPos(k) \in 1..NFiles
        /\ Present(ListedPos(k))
        /\ ListedCount(ListedPos(k)) = k
  <2>. SUFFICES ASSUME NEW k \in 1..ListedCount(NFiles)
                PROVE  /\ ListedPos(k) \in 1..NFiles
                       /\ Present(ListedPos(k))
                       /\ ListedCount(ListedPos(k)) = k
    OBVIOUS
  <2>1. \E i \in 1..NFiles : Present(i) /\ ListedCount(i) = k
    BY ListedIndex
  <2>. QED BY <2>1 DEF ListedPos, NFiles
<1>3. Listed = [k \in 1..ListedCount(NFiles) |-> FileOrder[ListedPos(k)]]
  BY DEF Listed, ListedPos, NFiles
<1>4. Listed \in Seq(Files) /\ Len(Listed) = ListedCount(NFiles)
  <2>1. Listed \in [1..ListedCount(NFiles) -> Files]
    BY <1>2, <1>3, OrderFacts
  <2>2. Listed \in Seq(Files)
    <3>1. Seq(Files) = UNION {[1..n -> Files] : n \in Nat}
      BY SeqDef
    <3>2. [1..ListedCount(NFiles) -> Files] \in {[1..n -> Files] : n \in Nat}
      BY <1>1
    <3>. QED BY <2>1, <3>1, <3>2
  <2>3. DOMAIN Listed = 1..Len(Listed) /\ Len(Listed) \in Nat
    BY <2>2, LenProperties
  <2>. QED BY <1>1, <2>1, <2>2, <2>3
<1>5. \A k \in 1..Len(Listed) : store[Listed[k]].kind # "missing"
  BY <1>2, <1>3, <1>4 DEF Present
<1>6. \A k1, k2 \in 1..Len(Listed) : Listed[k1] = Listed[k2] => k1 = k2
  <2>. SUFFICES ASSUME NEW k1 \in 1..Len(Listed), NEW k2 \in 1..Len(Listed),
                       Listed[k1] = Listed[k2]
                PROVE  k1 = k2
    OBVIOUS
  <2>1. FileOrder[ListedPos(k1)] = FileOrder[ListedPos(k2)]
    BY <1>3, <1>4
  <2>2. ListedPos(k1) = ListedPos(k2)
    BY <1>2, <1>4, <2>1 DEF NFiles
  <2>. QED BY <1>2, <1>4, <2>2
<1>. QED BY <1>4, <1>5, <1>6

\* loadResources appends, for the first k listed files, one token per file,
\* naming the listed file and its current version.
LEMMA DecodedFacts ==
    ASSUME TypeOK, NEW k \in 0..Len(Listed)
    PROVE  /\ Decoded(k) \in Seq(Token)
           /\ Len(Decoded(k)) = k
           /\ \A i \in 1..k : Decoded(k)[i][1] = Listed[i]
<1>1. Listed \in Seq(Files) /\ Len(Listed) \in Nat
  BY ListedFacts
<1>2. \A i \in 1..k : Listed[i] \in Files /\ store[Listed[i]].ver \in Versions
  <2>1. \A i \in 1..k : Listed[i] \in Files
    BY <1>1, ElementOfSeq
  <2>2. store \in [Files -> FileState]
    BY DEF TypeOK
  <2>. QED BY <2>1, <2>2 DEF FileState
<1>3. Decoded(k) \in [1..k -> Token]
  BY <1>2 DEF Decoded, Token
<1>4. Decoded(k) \in Seq(Token)
  <2>1. Seq(Token) = UNION {[1..n -> Token] : n \in Nat}
    BY SeqDef
  <2>. QED BY <1>1, <1>3, <2>1
<1>5. Len(Decoded(k)) = k
  BY <1>1, <1>3, <1>4, LenProperties
<1>. QED BY <1>4, <1>5 DEF Decoded

\* Whatever loadAllResources meets, r.Rules ends as the initial rules
\* followed by the rules of the first k listed files, for some k.
LEMMA LoadShape ==
    ASSUME TypeOK, NEW initial \in Seq(Rule), NEW o \in LoadOutcomes(initial)
    PROVE  \E k \in 0..Len(Listed) : o[1] = initial \o Decoded(k)
<1>1. Len(Listed) \in Nat
  BY ListedFacts
<1>2. initial \o Decoded(0) = initial
  <2>1. Decoded(0) = << >>
    BY DEF Decoded
  <2>. QED BY <2>1, ConcatEmptySeq
<1>3. 0 \in 0..Len(Listed) /\ Len(Listed) \in 0..Len(Listed)
  BY <1>1
<1>4. CASE o \in {<<initial, TRUE>>}
  <2>1. o[1] = initial \o Decoded(0)
    BY <1>2, <1>4
  <2>. QED BY <1>3, <2>1
<1>5. CASE o \in (IF Len(Listed) = 0 THEN {<<initial, FALSE>>} ELSE {})
  <2>1. Len(Listed) = 0 /\ o = <<initial, FALSE>>
    BY <1>5
  <2>2. o[1] = initial \o Decoded(0)
    BY <1>2, <2>1
  <2>. QED BY <1>3, <2>2
<1>6. CASE o \in {<<initial \o Decoded(k - 1), TRUE>> :
                    k \in {j \in 1..Len(Listed) : Decodable(j - 1)}}
  <2>1. PICK k \in 1..Len(Listed) : o = <<initial \o Decoded(k - 1), TRUE>>
    BY <1>6
  <2>2. k - 1 \in 0..Len(Listed)
    BY <1>1
  <2>. QED BY <2>1, <2>2
<1>7. CASE o \in (IF Decodable(Len(Listed))
                  THEN {<<initial \o Decoded(Len(Listed)), FALSE>>} ELSE {})
  <2>1. o = <<initial \o Decoded(Len(Listed)), FALSE>>
    BY <1>7
  <2>. QED BY <1>3, <2>1
<1>. QED BY <1>4, <1>5, <1>6, <1>7 DEF LoadOutcomes

\* Concatenating rule sequences, as ConcatProperties states it.
LEMMA ConcatRule ==
    ASSUME NEW s1 \in Seq(Rule), NEW s2 \in Seq(Rule)
    PROVE  /\ s1 \o s2 \in Seq(Rule)
           /\ Len(s1 \o s2) = Len(s1) + Len(s2)
           /\ \A i \in 1..Len(s1) + Len(s2) :
                 (s1 \o s2)[i] = IF i <= Len(s1) THEN s1[i] ELSE s2[i - Len(s1)]
BY ConcatProperties

\* The seed followed by the rules of the first k listed files is a rule
\* sequence of the shape SeedThenFiles asks for: fs.List names each file once.
LEMMA SeedLoaded ==
    ASSUME TypeOK, NEW k \in 0..Len(Listed)
    PROVE  /\ Seed \o Decoded(k) \in Seq(Rule)
           /\ SeedThen(Seed \o Decoded(k))
<1>1. /\ Decoded(k) \in Seq(Token)
      /\ Len(Decoded(k)) = k
      /\ \A i \in 1..k : Decoded(k)[i][1] = Listed[i]
  BY DecodedFacts
<1>2. Decoded(k) \in Seq(Rule) /\ Seed \in Seq(Rule) /\ Len(Seed) \in Nat
  BY <1>1, SeqMonotonic, LenProperties DEF Rule
<1>3. /\ Seed \o Decoded(k) \in Seq(Rule)
      /\ Len(Seed \o Decoded(k)) = Len(Seed) + k
      /\ \A i \in 1..Len(Seed) + k :
            (Seed \o Decoded(k))[i] = IF i <= Len(Seed) THEN Seed[i]
                                      ELSE Decoded(k)[i - Len(Seed)]
  <2>1. /\ Seed \o Decoded(k) \in Seq(Rule)
        /\ Len(Seed \o Decoded(k)) = Len(Seed) + Len(Decoded(k))
        /\ \A i \in 1..Len(Seed) + Len(Decoded(k)) :
             (Seed \o Decoded(k))[i] = IF i <= Len(Seed) THEN Seed[i]
                                       ELSE Decoded(k)[i - Len(Seed)]
    BY <1>2, ConcatRule
  <2>2. Len(Decoded(k)) = k
    BY <1>1
  <2>. QED BY <2>1, <2>2
<1>4. \A i, j \in 1..Len(Listed) : Listed[i] = Listed[j] => i = j
  BY ListedFacts
<1>5. k \in Nat /\ k <= Len(Listed)
  BY ListedFacts
<1>6. SubSeq(Seed \o Decoded(k), 1, Len(Seed)) = Seed
  <2>1. \A i \in 1..Len(Seed) : (Seed \o Decoded(k))[i] \in Rule
    BY <1>2, <1>3, <1>5
  <2>2. /\ SubSeq(Seed \o Decoded(k), 1, Len(Seed)) \in Seq(Rule)
        /\ Len(SubSeq(Seed \o Decoded(k), 1, Len(Seed))) = Len(Seed)
        /\ \A i \in 1..Len(Seed) :
             SubSeq(Seed \o Decoded(k), 1, Len(Seed))[i] = (Seed \o Decoded(k))[i]
    BY <1>2, <2>1, SubSeqProperties
  <2>. QED BY <1>2, <1>3, <1>5, <2>2, SeqEqual
<1>7. \A i \in Len(Seed)+1..Len(Seed \o Decoded(k)) :
        /\ (Seed \o Decoded(k))[i] \in Token
        /\ (Seed \o Decoded(k))[i][1] = Listed[i - Len(Seed)]
  BY <1>1, <1>2, <1>3, <1>5, ElementOfSeq
<1>8. \A i, j \in Len(Seed)+1..Len(Seed \o Decoded(k)) :
        (Seed \o Decoded(k))[i][1] = (Seed \o Decoded(k))[j][1] => i = j
  <2>. SUFFICES ASSUME NEW i \in Len(Seed)+1..Len(Seed \o Decoded(k)),
                       NEW j \in Len(Seed)+1..Len(Seed \o Decoded(k)),
                       (Seed \o Decoded(k))[i][1] = (Seed \o Decoded(k))[j][1]
                PROVE  i = j
    OBVIOUS
  <2>1. Listed[i - Len(Seed)] = Listed[j - Len(Seed)]
    BY <1>7
  <2>2. i - Len(Seed) \in 1..Len(Listed) /\ j - Len(Seed) \in 1..Len(Listed)
    BY <1>2, <1>3, <1>5
  <2>3. i - Len(Seed) = j - Len(Seed)
    BY <1>4, <2>1, <2>2
  <2>. QED BY <1>2, <1>3, <2>3
<1>. QED BY <1>2, <1>3, <1>5, <1>6, <1>7, <1>8 DEF SeedThen

\* The seed on its own has that shape.
LEMMA SeedAlone ==
    ASSUME TypeOK
    PROVE  SeedThen(Seed)
<1>1. 0 \in 0..Len(Listed)
  BY ListedFacts
<1>2. Seed \o Decoded(0) = Seed
  <2>1. Decoded(0) = << >>
    BY DEF Decoded
  <2>. QED BY <2>1, ConcatEmptySeq
<1>3. SeedThen(Seed \o Decoded(0))
  BY <1>1, SeedLoaded
<1>. QED BY <1>2, <1>3, Zenon

\* Before Init runs, the rule set is the configuration's seed.
LEMMA InitIInv == Init => IInv
<1>. SUFFICES ASSUME Init PROVE IInv
  OBVIOUS
<1>1. store \in [Files -> FileState] /\ cached \in [Files -> FileState]
  BY DEF Init, NoMeta, FileState, FileKinds, Versions
<1>2. rules = Seed /\ Seed \in Seq(Rule) /\ initialRules \in Seq(Rule)
  BY DEF Init
<1>3. inited = FALSE /\ lastReload = "none"
  BY DEF Init
<1>4. TypeOK
  BY <1>1, <1>2, <1>3 DEF TypeOK
<1>5. SeedThenFiles
  BY <1>2, <1>4, SeedAlone DEF SeedThen, SeedThenFiles
<1>. QED BY <1>2, <1>3, <1>4, <1>5 DEF IInv, SeedBeforeInit, InitialIsSeed

\* Resources.Init: the compare-and-swap keeps the seed as initialRules,
\* and the load appends the rules of distinct listed files to it.
LEMMA ResourcesInitIInv ==
    ASSUME IInv, ResourcesInit
    PROVE  IInv'
<1>1. TypeOK /\ Seed \in Seq(Rule)
  BY DEF IInv
<1>2. initialRules' = Seed
  <2>1. CASE inited
    BY <2>1 DEF ResourcesInit, InitRules, IInv, InitialIsSeed
  <2>2. CASE ~inited
    BY <2>2 DEF ResourcesInit, InitRules, IInv, SeedBeforeInit
  <2>. QED BY <2>1, <2>2
<1>3. PICK o \in LoadOutcomes(Seed) : rules' = o[1]
  BY <1>2 DEF ResourcesInit
<1>4. PICK k \in 0..Len(Listed) : rules' = Seed \o Decoded(k)
  <2>1. \E k \in 0..Len(Listed) : o[1] = Seed \o Decoded(k)
    BY <1>1, LoadShape
  <2>. QED BY <1>3, <2>1
<1>5. rules' \in Seq(Rule) /\ SeedThen(rules')
  BY <1>1, <1>4, SeedLoaded
<1>6. /\ store' = store /\ cached' = NoMeta
      /\ inited' = TRUE /\ lastReload' = "none"
  BY DEF ResourcesInit
<1>7. TypeOK'
  <2>1. store \in [Files -> FileState]
    BY <1>1 DEF TypeOK
  <2>2. NoMeta \in [Files -> FileState]
    BY DEF NoMeta, FileState, FileKinds, Versions
  <2>3. (store \in [Files -> FileState] /\ cached \in [Files -> FileState])'
    BY <1>6, <2>1, <2>2
  <2>4. (rules \in Seq(Rule) /\ initialRules \in Seq(Rule))'
    BY <1>1, <1>2, <1>5
  <2>5. (inited \in BOOLEAN /\ lastReload \in {"none", "unchanged", "reloaded", "failed"})'
    BY <1>6
  <2>. QED BY <2>3, <2>4, <2>5 DEF TypeOK
<1>. QED BY <1>2, <1>5, <1>6, <1>7
         DEF IInv, SeedBeforeInit, InitialIsSeed, SeedThen, SeedThenFiles

\* ReloadIfNeeded after Init: an unchanged listing keeps the rules, a
\* changed one reloads from initialRules, which is the seed.
LEMMA ReloadIInv ==
    ASSUME IInv, ReloadIfNeeded
    PROVE  IInv'
<1>1. TypeOK /\ inited /\ initialRules = Seed
  BY DEF ReloadIfNeeded, IInv, InitialIsSeed
<1>2. /\ cached' = store /\ store' = store
      /\ initialRules' = initialRules /\ inited' = inited
      /\ lastReload' \in {"none", "unchanged", "reloaded", "failed"}
  BY DEF ReloadIfNeeded
<1>3. rules' \in Seq(Rule) /\ SeedThen(rules')
  <2>1. CASE store = cached
    <3>1. rules' = rules
      BY <2>1 DEF ReloadIfNeeded
    <3>. QED BY <3>1 DEF IInv, TypeOK, SeedThen, SeedThenFiles
  <2>2. CASE store # cached
    <3>1. PICK o \in LoadOutcomes(Seed) : rules' = o[1]
      BY <1>1, <2>2 DEF ReloadIfNeeded
    <3>2. PICK k \in 0..Len(Listed) : rules' = Seed \o Decoded(k)
      <4>1. \E k \in 0..Len(Listed) : o[1] = Seed \o Decoded(k)
        BY <1>1, LoadShape
      <4>. QED BY <3>1, <4>1
    <3>. QED BY <1>1, <3>2, SeedLoaded
  <2>. QED BY <2>1, <2>2
<1>4. TypeOK'
  BY <1>1, <1>2, <1>3 DEF TypeOK
<1>. QED BY <1>1, <1>2, <1>3, <1>4
         DEF IInv, SeedBeforeInit, InitialIsSeed, SeedThen, SeedThenFiles

\* A failed HasChanged and the edits of the rule files leave the rules alone.
LEMMA EnvIInv ==
    ASSUME IInv,
           \/ HasChangedFails
           \/ \E f \in Files, k \in {"valid", "corrupt"} : WriteFile(f, k)
           \/ \E f \in Files : DeleteFile(f)
    PROVE  IInv'
<1>1. UNCHANGED <<rules, initialRules, inited, cached>>
  BY DEF HasChangedFails, WriteFile, DeleteFile
<1>0. store \in [Files -> FileState]
  BY DEF IInv, TypeOK
<1>2. store' \in [Files -> FileState]
  <2>1. CASE HasChangedFails
    BY <1>0, <2>1 DEF HasChangedFails
  <2>2. CASE \E f \in Files, k \in {"valid", "corrupt"} : WriteFile(f, k)
    <3>1. PICK f \in Files, k \in {"valid", "corrupt"} : WriteFile(f, k)
      BY <2>2
    <3>2. store[f].ver \in 0..MaxVer /\ store[f].ver < MaxVer
      BY <1>0, <3>1 DEF WriteFile, FileState, Versions
    <3>3. store' = [store EXCEPT ![f] = [kind |-> k, ver |-> store[f].ver + 1]]
      BY <3>1 DEF WriteFile
    <3>4. [kind |-> k, ver |-> store[f].ver + 1] \in FileState
      <4>1. store[f].ver + 1 \in Versions
        <5>1. MaxVer \in Nat /\ store[f].ver \in Nat
          BY <3>2
        <5>2. \A v \in 0..MaxVer : v < MaxVer => v + 1 \in 0..MaxVer
          BY <5>1
        <5>3. Versions = 0..MaxVer
          BY DEF Versions
        <5>. QED BY <3>2, <5>2, <5>3
      <4>2. k \in FileKinds
        BY DEF FileKinds
      <4>. QED BY <4>1, <4>2 DEF FileState
    <3>. QED BY <1>0, <3>3, <3>4
  <2>3. CASE \E f \in Files : DeleteFile(f)
    <3>1. PICK f \in Files : DeleteFile(f)
      BY <2>3
    <3>2. store' = [store EXCEPT ![f].kind = "missing"]
      BY <3>1 DEF DeleteFile
    <3>3. store[f] = [kind |-> store[f].kind, ver |-> store[f].ver]
      BY <1>0 DEF FileState
    <3>4. store' = [store EXCEPT ![f] = [kind |-> "missing", ver |-> store[f].ver]]
      <4>1. [store[f] EXCEPT !.kind = "missing"] = [kind |-> "missing", ver |-> store[f].ver]
        BY <3>3
      <4>. QED BY <3>2, <4>1
    <3>5. [kind |-> "missing", ver |-> store[f].ver] \in FileState
      BY <1>0 DEF FileState, FileKinds
    <3>. QED BY <1>0, <3>4, <3>5
  <2>. QED BY <2>1, <2>2, <2>3
<1>3. lastReload' \in {"none", "unchanged", "reloaded", "failed"}
  BY DEF HasChangedFails, WriteFile, DeleteFile, IInv, TypeOK
<1>. QED BY <1>1, <1>2, <1>3
         DEF IInv, TypeOK, SeedBeforeInit, InitialIsSeed, SeedThenFiles

\* Every step keeps the invariant.
LEMMA NextIInv == IInv /\ [Next]_vars => IInv'
<1>. SUFFICES ASSUME IInv, [Next]_vars PROVE IInv'
  OBVIOUS
<1>1. CASE ResourcesInit
  BY <1>1, ResourcesInitIInv
<1>2. CASE ReloadIfNeeded
  BY <1>2, ReloadIInv
<1>3. CASE HasChangedFails \/ (\E f \in Files, k \in {"valid", "corrupt"} : WriteFile(f, k))
           \/ (\E f \in Files : DeleteFile(f))
  BY <1>3, EnvIInv
<1>4. CASE UNCHANGED vars
  BY <1>4 DEF vars, IInv, TypeOK, SeedBeforeInit, InitialIsSeed, SeedThenFiles
<1>. QED BY <1>1, <1>2, <1>3, <1>4 DEF Next

\* Every state of the rule set is well typed, for every configuration.
THEOREM TypeCorrect == Spec => []TypeOK
<1>1. Spec => []IInv
  BY InitIInv, NextIInv, PTL DEF Spec
<1>. QED BY <1>1, PTL DEF IInv

\* For every set of rule files, listing order and seed, and whatever Init
\* calls, reloads and file edits happen, r.Rules is the seed rules once, in
\* order, followed by the rules of distinct files: initRules' compare-and-
\* swap keeps a second Init from folding loaded rules into initialRules,
\* and fs.List names each file once.
THEOREM SeedFirst == Spec => []SeedThenFiles
<1>1. Spec => []IInv
  BY InitIInv, NextIInv, PTL DEF Spec
<1>. QED BY <1>1, PTL DEF IInv

\* A load that reports no error has loaded every listed file.
LEMMA LoadSuccess ==
    ASSUME TypeOK, NEW initial \in Seq(Rule), NEW o \in LoadOutcomes(initial), ~o[2]
    PROVE  o[1] = initial \o Decoded(Len(Listed))
<1>1. CASE o \in {<<initial, TRUE>>}
  <2>0. o = <<initial, TRUE>>
    BY <1>1
  <2>1. o[2] = TRUE
    BY <2>0, Zenon
  <2>. QED BY <2>1
<1>2. CASE o \in (IF Len(Listed) = 0 THEN {<<initial, FALSE>>} ELSE {})
  <2>0. Len(Listed) = 0 /\ o = <<initial, FALSE>>
    BY <1>2
  <2>1. Len(Listed) = 0 /\ o[1] = initial
    BY <2>0
  <2>2. Decoded(0) = << >>
    BY DEF Decoded
  <2>. QED BY <2>1, <2>2, ConcatEmptySeq
<1>3. CASE o \in {<<initial \o Decoded(k - 1), TRUE>> :
                    k \in {j \in 1..Len(Listed) : Decodable(j - 1)}}
  <2>0. PICK k \in 1..Len(Listed) : o = <<initial \o Decoded(k - 1), TRUE>>
    BY <1>3
  <2>1. o[2] = TRUE
    BY <2>0, Zenon
  <2>. QED BY <2>1
<1>4. CASE o \in (IF Decodable(Len(Listed))
                  THEN {<<initial \o Decoded(Len(Listed)), FALSE>>} ELSE {})
  <2>1. o = <<initial \o Decoded(Len(Listed)), FALSE>>
    BY <1>4
  <2>. QED BY <2>1
<1>. QED BY <1>1, <1>2, <1>3, <1>4 DEF LoadOutcomes

\* A ReloadIfNeeded that reports success has installed the full snapshot.
LEMMA ReloadSuccess ==
    ASSUME IInv, ReloadIfNeeded, lastReload' = "reloaded"
    PROVE  rules' = initialRules \o Decoded(Len(Listed))
<1>1. store # cached
  BY DEF ReloadIfNeeded
<1>2. PICK o \in LoadOutcomes(initialRules) :
          /\ rules' = o[1]
          /\ lastReload' = IF o[2] THEN "failed" ELSE "reloaded"
  BY <1>1 DEF ReloadIfNeeded
<1>3. ~o[2]
  BY <1>2
<1>4. TypeOK /\ initialRules \in Seq(Rule)
  BY DEF IInv, TypeOK
<1>. QED BY <1>2, <1>3, <1>4, LoadSuccess

\* For every configuration, a ReloadIfNeeded that returns no error makes
\* r.Rules the seed followed by the rules of every listed file, in listing
\* order (the spec's "initial_rules ++ concat of decoded arrays"), whatever
\* a failed load left in r.Rules before it.
THEOREM ReloadLoadsAll == Spec => ReloadInstallsAll
<1>1. Spec => []IInv
  BY InitIInv, NextIInv, PTL DEF Spec
<1>2. IInv /\ [Next]_vars =>
        [ReloadIfNeeded /\ lastReload' = "reloaded" =>
           rules' = initialRules \o Decoded(Len(Listed))]_vars
  BY ReloadSuccess
<1>. QED BY <1>1, <1>2, PTL DEF ReloadInstallsAll, Spec
====
