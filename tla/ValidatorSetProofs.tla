-------------------------- MODULE ValidatorSetProofs --------------------------
(***************************************************************************)
(* Proofs about ValidatorSet: its storage items stay in step, a kick       *)
(* leaves the minimum, and no candidate is kicked before its turn.         *)
(***************************************************************************)
EXTENDS ValidatorSet, FiniteSetTheorems, SequenceTheorems, TLAPS

(* How long ago a candidate was seen: one that is not queued yet           *)
(* registered in this session, and was seen in its first block at the      *)
(* earliest; one that is no validator of this session was not queued in    *)
(* the session before, and was seen in the first block of that one.        *)
JustRegistered ==
    \A a \in Range(candidates) \ Range(queued) : idle[a] <= block - 1

NotActiveYet ==
    \A a \in Range(candidates) \ Range(active) : idle[a] <= SessionLength - 1 + block

VInv == TypeOK /\ CandidatesInStep /\ JustRegistered /\ NotActiveYet
-------------------------------------------------------------------------------
(* Places in a finite set of numbers *)

Before(S, i) == {j \in S : j < i}

LEMMA BeforeFinite ==
    ASSUME NEW S \in SUBSET Int, IsFiniteSet(S), NEW i \in S
    PROVE  /\ IsFiniteSet(Before(S, i)) /\ Cardinality(Before(S, i)) \in Nat
           /\ Cardinality(Before(S, i)) < Cardinality(S) /\ Cardinality(S) \in Nat
<1>1. Before(S, i) \in SUBSET S /\ i \notin Before(S, i)
  BY DEF Before
<1>2. /\ IsFiniteSet(Before(S, i)) /\ Cardinality(Before(S, i)) <= Cardinality(S)
      /\ Cardinality(S) # Cardinality(Before(S, i))
  BY <1>1, FS_Subset
<1> QED
  BY <1>2, FS_CardinalityType

LEMMA BeforeGrows ==
    ASSUME NEW S \in SUBSET Int, IsFiniteSet(S), NEW i \in S, NEW j \in S, i < j
    PROVE  Cardinality(Before(S, i)) < Cardinality(Before(S, j))
<1>1. Before(S, i) = Before(Before(S, j), i) /\ i \in Before(S, j)
  <2>1. \A k \in S : k < i => k < j
    OBVIOUS
  <2> QED
    BY <2>1 DEF Before
<1>2. Before(S, j) \in SUBSET Int /\ IsFiniteSet(Before(S, j))
  BY BeforeFinite DEF Before
<1> QED
  BY <1>1, <1>2, BeforeFinite

(* Every place is taken, by one.                                           *)
LEMMA PlacesTaken ==
    ASSUME NEW S \in SUBSET Int, IsFiniteSet(S)
    PROVE  /\ \A k \in 1..Cardinality(S) : \E i \in S : Cardinality(Before(S, i)) = k - 1
           /\ \A i \in S : Cardinality(Before(S, i)) + 1 \in 1..Cardinality(S)
           /\ \A i, j \in S : Cardinality(Before(S, i)) = Cardinality(Before(S, j)) => i = j
<1> DEFINE n == Cardinality(S)
           T == 0..(n - 1)
           f == [i \in S |-> Cardinality(Before(S, i))]
<1>1. n \in Nat
  BY FS_CardinalityType
<1>2. \A i \in S : Cardinality(Before(S, i)) \in Nat /\ Cardinality(Before(S, i)) < n
  BY BeforeFinite
<1>3. f \in [S -> T]
  BY <1>1, <1>2
<1>4. \A i, j \in S : f[i] = f[j] => i = j
  <2> SUFFICES ASSUME NEW i \in S, NEW j \in S, i # j
               PROVE  f[i] # f[j]
    OBVIOUS
  <2>1. i \in Int /\ j \in Int /\ (i < j \/ j < i)
    OBVIOUS
  <2> QED
    BY <1>2, <2>1, BeforeGrows
<1>5. IsFiniteSet(T) /\ Cardinality(T) = n
  BY <1>1, FS_Interval
<1>6. f \in Injection(S, T)
  BY <1>3, <1>4 DEF Injection, IsInjective
<1>7. f \in Surjection(S, T)
  BY <1>5, <1>6, FS_Injection
<1>8. \A t \in T : \E i \in S : f[i] = t
  BY <1>7 DEF Surjection
<1> QED
  BY <1>1, <1>2, <1>4, <1>8

(* Of a set of numbers, those with fewer than n before them are n at most. *)
LEMMA FirstOnes ==
    ASSUME NEW S \in SUBSET Int, IsFiniteSet(S), NEW n \in Nat
    PROVE  LET F == {i \in S : Cardinality(Before(S, i)) < n}
           IN  IsFiniteSet(F) /\ Cardinality(F) <= n
<1> DEFINE F == {i \in S : Cardinality(Before(S, i)) < n}
           T == 0..(n - 1)
           f == [i \in F |-> Cardinality(Before(S, i))]
<1>0. F \subseteq S /\ \A i \in F : Cardinality(Before(S, i)) \in T
  BY BeforeFinite
<1>1. f \in [F -> T] /\ \A i, j \in F : f[i] = f[j] => i = j
  <2>1. \A i, j \in S : Cardinality(Before(S, i)) = Cardinality(Before(S, j)) => i = j
    BY PlacesTaken
  <2> HIDE DEF F, T
  <2> QED
    BY <1>0, <2>1
<1>2. IsFiniteSet(T) /\ Cardinality(T) = n
  BY FS_Interval
<1> HIDE DEF F, f, T
<1>3. f \in Injection(F, T)
  BY <1>1 DEF Injection, IsInjective
<1>4. IsFiniteSet(F) /\ Cardinality(F) <= n
  BY <1>2, <1>3, FS_Injection
<1> QED
  BY <1>4 DEF F

-------------------------------------------------------------------------------
(* What a kick leaves *)

LEMMA Constants ==
    /\ DesiredCandidates \in Nat /\ MinCandidates \in Nat
    /\ ExistentialDeposit \in Nat /\ PotBalance \in Nat
    /\ KickThreshold \in Nat /\ KickThreshold > 0
    /\ SessionLength \in Nat /\ SessionLength > 0
    /\ \A s \in InvulnerableChoices : s \in Seq(Accounts) /\ s # <<>>
  BY ValidatorSetAssumption

(* The places of the candidates that are kicked and of the others.         *)
KickedAt ==
    {i \in Stale : Cardinality({j \in Stale : j < i}) < Len(candidates) - MinCandidates}
KeptAt == {i \in DOMAIN candidates : candidates[i] \notin Kicked}

LEMMA Places ==
    ASSUME VInv
    PROVE  /\ candidates \in Seq(Accounts) /\ Len(candidates) \in Nat
           /\ DOMAIN candidates = 1..Len(candidates)
           /\ Stale \subseteq DOMAIN candidates
           /\ KickedAt \subseteq DOMAIN candidates /\ KeptAt = DOMAIN candidates \ KickedAt
           /\ Kicked = {candidates[i] : i \in KickedAt}
           /\ IsFiniteSet(DOMAIN candidates) /\ Cardinality(DOMAIN candidates) = Len(candidates)
           /\ \A i, j \in DOMAIN candidates : candidates[i] = candidates[j] => i = j
<1>1. /\ candidates \in Seq(Accounts) /\ Len(candidates) \in Nat
      /\ DOMAIN candidates = 1..Len(candidates)
      /\ \A i, j \in DOMAIN candidates : candidates[i] = candidates[j] => i = j
  BY DEF VInv, TypeOK, CandidatesInStep
<1>2. Stale \subseteq DOMAIN candidates /\ KickedAt \subseteq Stale
  BY DEF Stale, KickedAt
<1>3. Kicked = {candidates[i] : i \in KickedAt}
  BY DEF Kicked, KickedAt
<1>4. KeptAt = DOMAIN candidates \ KickedAt
  BY <1>1, <1>2, <1>3 DEF KeptAt
<1>5. IsFiniteSet(DOMAIN candidates) /\ Cardinality(DOMAIN candidates) = Len(candidates)
  <2>1. \A n \in Nat : IsFiniteSet(1..n) /\ Cardinality(1..n) = n
    BY FS_Interval
  <2>2. Len(candidates) \in Nat /\ DOMAIN candidates = 1..Len(candidates)
    BY <1>1
  <2> QED
    BY <2>1, <2>2
<1> QED
  BY <1>1, <1>2, <1>3, <1>4, <1>5

(* The remaining candidates are those that are not kicked, each once.      *)
LEMMA RemainingKept ==
    ASSUME VInv
    PROVE  /\ Remaining \in Seq(Accounts)
           /\ Len(Remaining) = Cardinality(KeptAt)
           /\ Range(Remaining) = Range(candidates) \ Kicked
           /\ \A k, l \in DOMAIN Remaining : k # l => Remaining[k] # Remaining[l]
           /\ Len(Remaining) <= Len(candidates)
<1> DEFINE n == Cardinality(KeptAt)
           at(k) == CHOOSE i \in KeptAt : Cardinality(Before(KeptAt, i)) = k - 1
<1>1. KeptAt \in SUBSET Int /\ IsFiniteSet(KeptAt) /\ n \in Nat /\ n <= Len(candidates)
  BY Places, FS_Subset, FS_CardinalityType
<1>2. Remaining = [k \in 1..n |-> candidates[at(k)]]
  BY DEF Remaining, KeptAt, Before
<1>3. \A k \in 1..n : at(k) \in KeptAt /\ Cardinality(Before(KeptAt, at(k))) = k - 1
  BY <1>1, PlacesTaken
<1>4. \A i \in KeptAt : \E k \in 1..n : at(k) = i
  <2> SUFFICES ASSUME NEW i \in KeptAt
               PROVE  \E k \in 1..n : at(k) = i
    OBVIOUS
  <2>1. PICK k \in 1..n : k = Cardinality(Before(KeptAt, i)) + 1
    BY <1>1, PlacesTaken
  <2>2. Cardinality(Before(KeptAt, i)) = Cardinality(Before(KeptAt, at(k))) /\ at(k) \in KeptAt
    BY <1>1, <1>3, <2>1, BeforeFinite
  <2>3. at(k) = i
    BY <1>1, <2>2, PlacesTaken
  <2> QED
    BY <2>3
<1>5. \A k, l \in 1..n : at(k) = at(l) => k = l
  BY <1>3
<1> HIDE DEF n, at
<1>6. /\ KeptAt \subseteq DOMAIN candidates
      /\ \A i \in DOMAIN candidates : candidates[i] \in Accounts
      /\ \A i, j \in DOMAIN candidates : candidates[i] = candidates[j] => i = j
  BY Places
<1>7. /\ DOMAIN Remaining = 1..n
      /\ \A k \in 1..n : Remaining[k] = candidates[at(k)] /\ Remaining[k] \in Accounts
  BY <1>2, <1>3, <1>6
<1>8. Remaining \in Seq(Accounts) /\ Len(Remaining) = n
  <2>1. Remaining \in [1..n -> Accounts]
    BY <1>2, <1>7
  <2> QED
    BY <1>1, <2>1, LenProperties
<1>9. Range(Remaining) = Range(candidates) \ Kicked
  <2>1. ASSUME NEW x \in Range(Remaining) PROVE x \in Range(candidates) \ Kicked
    <3>1. PICK k \in 1..n : x = candidates[at(k)]
      BY <1>7, <2>1 DEF Range
    <3> QED
      BY <1>3, <3>1 DEF Range, KeptAt
  <2>2. ASSUME NEW x \in Range(candidates) \ Kicked PROVE x \in Range(Remaining)
    <3>1. PICK i \in KeptAt : x = candidates[i]
      BY <2>2 DEF Range, KeptAt
    <3>2. PICK k \in 1..n : at(k) = i
      BY <1>4
    <3> QED
      BY <1>7, <3>1, <3>2 DEF Range
  <2> QED
    BY <2>1, <2>2
<1>10. \A k, l \in DOMAIN Remaining : k # l => Remaining[k] # Remaining[l]
  BY <1>3, <1>5, <1>6, <1>7
<1> QED
  BY <1>1, <1>8, <1>9, <1>10 DEF n

(* A kick leaves MinCandidates, if it kicks anyone.                        *)
LEMMA RemainingEnough ==
    ASSUME VInv, Len(Remaining) < Len(candidates)
    PROVE  Len(Remaining) >= MinCandidates
<1>1. /\ Stale \in SUBSET Int /\ IsFiniteSet(Stale) /\ IsFiniteSet(KickedAt)
      /\ KickedAt \in SUBSET DOMAIN candidates /\ Len(candidates) \in Nat
      /\ IsFiniteSet(DOMAIN candidates) /\ Cardinality(DOMAIN candidates) = Len(candidates)
  BY Places, FS_Subset
<1>2. Len(Remaining) = Len(candidates) - Cardinality(KickedAt)
  <2>1. DOMAIN candidates \cap KickedAt = KickedAt
    BY <1>1
  <2>2. Cardinality(DOMAIN candidates \ KickedAt)
            = Cardinality(DOMAIN candidates) - Cardinality(DOMAIN candidates \cap KickedAt)
    BY <1>1, FS_Difference
  <2>3. KeptAt = DOMAIN candidates \ KickedAt /\ Len(Remaining) = Cardinality(KeptAt)
    BY Places, RemainingKept
  <2> QED
    BY <1>1, <2>1, <2>2, <2>3
<1>3. Cardinality(KickedAt) \in Nat /\ KickedAt # {}
  BY <1>1, <1>2, FS_CardinalityType, FS_EmptySet
<1>4. PICK i \in Stale : Cardinality(Before(Stale, i)) < Len(candidates) - MinCandidates
  BY <1>3 DEF KickedAt, Before
<1>5. PICK n \in Nat : n = Len(candidates) - MinCandidates
  <2>1. Cardinality(Before(Stale, i)) \in Nat
    BY <1>1, BeforeFinite
  <2> QED
    BY <1>1, <1>4, <2>1, Constants
<1>6. KickedAt = {j \in Stale : Cardinality(Before(Stale, j)) < n}
  BY <1>5 DEF KickedAt, Before
<1>7. Cardinality(KickedAt) <= n
  BY <1>1, <1>6, FirstOnes
<1> QED
  BY <1>1, <1>2, <1>3, <1>5, <1>7, Constants

-------------------------------------------------------------------------------
(* The invariant *)

LEMMA RewardWithin ==
    ASSUME NEW b \in Nat
    PROVE  AuthorReward(b) \in Nat /\ b - AuthorReward(b) \in Nat
<1>1. CASE b < ExistentialDeposit
  BY <1>1, Constants DEF AuthorReward
<1>2. CASE b >= ExistentialDeposit
  <2>1. PICK d \in Nat : d = b - ExistentialDeposit
    BY <1>2, Constants
  <2>2. d \div 2 \in Nat /\ d \div 2 <= d
    OBVIOUS
  <2>3. AuthorReward(b) = d \div 2 /\ d <= b
    BY <1>2, <2>1, Constants DEF AuthorReward
  <2> QED
    BY <2>2, <2>3
<1> QED
  BY <1>1, <1>2, Constants

LEMMA InitVInv == Init => VInv
<1> SUFFICES ASSUME Init PROVE VInv
  OBVIOUS
<1>1. /\ invulnerables \in Seq(Accounts) /\ candidates = <<>> /\ locked = {}
      /\ active = invulnerables /\ queued = invulnerables /\ block = 1
  BY Constants DEF Init
<1>2. Range(candidates) = {} /\ DOMAIN candidates = {} /\ Len(candidates) = 0
  BY <1>1 DEF Range
<1>3. pot \in Nat
  BY RewardWithin, Constants DEF Init
<1>4. PICK author \in Range(invulnerables) : idle = [a \in {author} |-> 0]
  BY DEF Init
<1>5. author \in Accounts
  BY <1>1, <1>4 DEF Range
<1>6. /\ DOMAIN idle \subseteq Accounts
      /\ \A a \in DOMAIN idle : idle[a] \in (-KickThreshold)..KickThreshold
  BY <1>4, <1>5, Constants
<1>7. TypeOK
  BY <1>1, <1>2, <1>3, <1>6, Constants DEF TypeOK
<1> QED
  BY <1>1, <1>2, <1>7 DEF VInv, CandidatesInStep, JustRegistered, NotActiveYet

LEMMA SetInvulnerablesKeeps ==
    ASSUME VInv, NEW s \in InvulnerableChoices, SetInvulnerables(s)
    PROVE  VInv' /\ candidates' = candidates
<1>1. invulnerables' \in Seq(Accounts) /\ UNCHANGED <<candidates, idle, locked, pot, active, queued, block>>
  BY Constants DEF SetInvulnerables
<1>2. TypeOK'
  BY <1>1 DEF VInv, TypeOK
<1>3. CandidatesInStep' /\ JustRegistered' /\ NotActiveYet'
  BY <1>1 DEF VInv, CandidatesInStep, JustRegistered, NotActiveYet
<1> QED
  BY <1>1, <1>2, <1>3 DEF VInv

LEMMA RangeOfAppend ==
    ASSUME NEW S, NEW s \in Seq(S), NEW x \in S
    PROVE  Range(Append(s, x)) = Range(s) \cup {x}
<1>1. /\ DOMAIN Append(s, x) = DOMAIN s \cup {Len(s) + 1}
      /\ \A i \in DOMAIN s : Append(s, x)[i] = s[i]
      /\ Append(s, x)[Len(s) + 1] = x
  OBVIOUS
<1> QED
  BY <1>1 DEF Range

LEMMA RegisterKeeps ==
    ASSUME VInv, NEW who \in Accounts, RegisterAsCandidate(who)
    PROVE  VInv' /\ Len(candidates') > Len(candidates)
                 /\ Range(candidates) \subseteq Range(candidates')
<1>1. /\ candidates \in Seq(Accounts) /\ Len(candidates) \in Nat
      /\ DOMAIN candidates = 1..Len(candidates) /\ block \in Nat
      /\ DOMAIN idle \subseteq Accounts
      /\ \A a \in DOMAIN idle : idle[a] \in (-KickThreshold)..KickThreshold
  BY Constants DEF VInv, TypeOK
<1>2. /\ Len(candidates) < DesiredCandidates /\ who \notin Range(candidates)
      /\ candidates' = Append(candidates, who) /\ locked' = locked \cup {who}
      /\ UNCHANGED <<invulnerables, pot, active, queued, block>>
  BY DEF RegisterAsCandidate, BelowLimit
<1>3. /\ candidates' \in Seq(Accounts) /\ Len(candidates') = Len(candidates) + 1
      /\ DOMAIN candidates' = 1..(Len(candidates) + 1)
      /\ candidates'[Len(candidates) + 1] = who
      /\ \A i \in DOMAIN candidates : candidates'[i] = candidates[i]
  BY <1>1, <1>2
<1>4. Range(candidates') = Range(candidates) \cup {who}
  BY <1>1, <1>2, RangeOfAppend
<1>5. /\ DOMAIN idle' = DOMAIN idle \cup {who} /\ idle'[who] = -KickThreshold
      /\ \A a \in DOMAIN idle : a # who => idle'[a] = idle[a]
  BY DEF RegisterAsCandidate, FirstAuthored
<1>6. TypeOK'
  <2>1. \A a \in DOMAIN idle' : idle'[a] \in (-KickThreshold)..KickThreshold
    BY <1>1, <1>5, Constants
  <2> QED
    BY <1>1, <1>2, <1>3, <1>5, <2>1, Constants DEF VInv, TypeOK
<1>7. CandidatesInStep'
  <2>1. \A i, j \in DOMAIN candidates' : i # j => candidates'[i] # candidates'[j]
    <3> SUFFICES ASSUME NEW i \in 1..(Len(candidates) + 1), NEW j \in 1..(Len(candidates) + 1),
                        i # j
                 PROVE  candidates'[i] # candidates'[j]
      BY <1>3
    <3>1. CASE i \in DOMAIN candidates /\ j \in DOMAIN candidates
      BY <1>3, <3>1 DEF VInv, CandidatesInStep
    <3>2. CASE i \in DOMAIN candidates /\ j = Len(candidates) + 1
      BY <1>2, <1>3, <3>2 DEF Range
    <3>3. CASE j \in DOMAIN candidates /\ i = Len(candidates) + 1
      BY <1>2, <1>3, <3>3 DEF Range
    <3> QED
      BY <1>1, <3>1, <3>2, <3>3
  <2>2. locked = Range(candidates) /\ Range(candidates) \subseteq DOMAIN idle
    BY DEF VInv, CandidatesInStep
  <2> QED
    BY <1>2, <1>4, <1>5, <2>1, <2>2 DEF CandidatesInStep
<1>8. \A a \in Range(candidates) : a \in DOMAIN idle /\ idle'[a] = idle[a]
  BY <1>2, <1>5 DEF VInv, CandidatesInStep
<1>9. idle'[who] <= block - 1 /\ idle'[who] <= SessionLength - 1 + block
  BY <1>1, <1>5, Constants
<1>10. JustRegistered' /\ NotActiveYet'
  BY <1>2, <1>4, <1>8, <1>9 DEF VInv, JustRegistered, NotActiveYet
<1> QED
  BY <1>1, <1>3, <1>4, <1>6, <1>7, <1>10 DEF VInv

LEMMA NoteAuthorKeeps ==
    ASSUME VInv, NEW author \in Range(active), NoteAuthor(author)
    PROVE  VInv' /\ candidates' = candidates
<1>1. /\ block \in Nat /\ block < SessionLength /\ block' = block + 1
      /\ pot' = pot - AuthorReward(pot) /\ pot \in Nat
      /\ DOMAIN idle \subseteq Accounts /\ author \in Accounts
      /\ \A a \in DOMAIN idle : idle[a] \in (-KickThreshold)..KickThreshold
      /\ UNCHANGED <<invulnerables, candidates, locked, active, queued>>
  BY Constants DEF VInv, TypeOK, NoteAuthor, Range
<1>2. /\ DOMAIN idle' = DOMAIN idle \cup {author} /\ idle'[author] = 0
      /\ \A a \in DOMAIN idle : a # author =>
             idle'[a] = IF idle[a] < KickThreshold THEN idle[a] + 1 ELSE idle[a]
  BY DEF NoteAuthor
<1>3. /\ \A a \in DOMAIN idle' : idle'[a] \in (-KickThreshold)..KickThreshold
      /\ \A a \in DOMAIN idle : a # author => idle'[a] <= idle[a] + 1
  BY <1>1, <1>2, Constants
<1>4. TypeOK'
  <2>1. pot' \in Nat /\ block' \in 0..SessionLength /\ DOMAIN idle' \subseteq Accounts
    BY <1>1, <1>2, RewardWithin, Constants
  <2> QED
    BY <1>1, <1>3, <2>1 DEF VInv, TypeOK
<1>5. CandidatesInStep'
  BY <1>1, <1>2 DEF VInv, CandidatesInStep
<1>6. \A a \in Range(candidates) : a \in DOMAIN idle /\ idle[a] \in Int
  BY <1>1, Constants DEF VInv, CandidatesInStep
<1>7. \A a \in Range(candidates) :
          /\ idle'[a] \in Int
          /\ a = author => idle'[a] = 0
          /\ a # author => idle'[a] <= idle[a] + 1
  BY <1>1, <1>2, <1>3, <1>6, Constants
<1>8. JustRegistered'
  <2> SUFFICES ASSUME NEW a \in Range(candidates) \ Range(queued)
               PROVE  idle'[a] <= block
    BY <1>1 DEF JustRegistered
  <2>1. idle[a] <= block - 1
    BY DEF VInv, JustRegistered
  <2> QED
    BY <1>1, <1>6, <1>7, <2>1
<1>9. NotActiveYet'
  <2> SUFFICES ASSUME NEW a \in Range(candidates) \ Range(active)
               PROVE  idle'[a] <= SessionLength - 1 + (block + 1)
    BY <1>1 DEF NotActiveYet
  <2>1. idle[a] <= SessionLength - 1 + block /\ a # author
    BY DEF VInv, NotActiveYet
  <2> QED
    BY <1>1, <1>6, <1>7, <2>1, Constants
<1> QED
  BY <1>1, <1>4, <1>5, <1>8, <1>9 DEF VInv

LEMMA NewSessionKeeps ==
    ASSUME VInv, NewSession
    PROVE  VInv' /\ candidates' = Remaining
<1>1. /\ block = SessionLength /\ block' = 0 /\ candidates' = Remaining
      /\ locked' = locked \ Kicked /\ active' = queued
      /\ queued' = invulnerables \o Remaining
      /\ UNCHANGED <<invulnerables, pot>>
  BY DEF NewSession, LocksAfterKick, AssembleValidators
<1>2. /\ DOMAIN idle' = DOMAIN idle \ Kicked
      /\ \A a \in DOMAIN idle \ Kicked : idle'[a] = idle[a]
  BY DEF NewSession, Restrict
<1>3. /\ Remaining \in Seq(Accounts) /\ Len(Remaining) <= Len(candidates)
      /\ Range(Remaining) = Range(candidates) \ Kicked
      /\ \A k, l \in DOMAIN Remaining : k # l => Remaining[k] # Remaining[l]
  BY RemainingKept
<1>4. /\ locked = Range(candidates) /\ Range(candidates) \subseteq DOMAIN idle
      /\ invulnerables \in Seq(Accounts) /\ queued \in Seq(Accounts)
      /\ Len(candidates) \in Nat /\ Len(candidates) <= DesiredCandidates
  BY DEF VInv, TypeOK, CandidatesInStep
<1>5. Range(Remaining) \subseteq Range(queued')
  <2>1. /\ Len(invulnerables) \in Nat /\ Len(Remaining) \in Nat
        /\ DOMAIN queued' = 1..(Len(invulnerables) + Len(Remaining))
        /\ \A i \in 1..Len(Remaining) : queued'[Len(invulnerables) + i] = Remaining[i]
        /\ DOMAIN Remaining = 1..Len(Remaining)
    BY <1>1, <1>3, <1>4
  <2>2. \A i \in DOMAIN Remaining : Len(invulnerables) + i \in DOMAIN queued'
    BY <2>1
  <2> QED
    BY <2>1, <2>2 DEF Range
<1>6. TypeOK'
  <2>1. queued' \in Seq(Accounts) /\ active' \in Seq(Accounts) /\ candidates' \in Seq(Accounts)
    BY <1>1, <1>3, <1>4
  <2>2. Len(candidates') <= DesiredCandidates /\ block' \in 0..SessionLength
    BY <1>1, <1>3, <1>4, <2>1, Constants
  <2>3. /\ DOMAIN idle' \subseteq Accounts
        /\ \A a \in DOMAIN idle' : idle'[a] \in (-KickThreshold)..KickThreshold
    BY <1>2 DEF VInv, TypeOK
  <2> QED
    BY <1>1, <2>1, <2>2, <2>3 DEF VInv, TypeOK
<1>7. CandidatesInStep'
  BY <1>1, <1>2, <1>3, <1>4 DEF CandidatesInStep
<1>8. JustRegistered'
  BY <1>1, <1>3, <1>5 DEF JustRegistered
<1>9. NotActiveYet'
  <2> SUFFICES ASSUME NEW a \in Range(Remaining) \ Range(queued)
               PROVE  idle'[a] <= SessionLength - 1 + 0
    BY <1>1 DEF NotActiveYet
  <2>1. a \in Range(candidates) \ Range(queued) /\ idle'[a] = idle[a]
    BY <1>2, <1>3, <1>4
  <2> QED
    BY <1>1, <2>1, Constants DEF VInv, JustRegistered
<1> QED
  BY <1>1, <1>6, <1>7, <1>8, <1>9 DEF VInv


LEMMA NextVInv == VInv /\ [Next]_vars => VInv'
<1>1. ASSUME VInv, UNCHANGED vars PROVE VInv'
  <2>1. TypeOK'
    BY <1>1 DEF VInv, TypeOK, vars
  <2>2. CandidatesInStep' /\ JustRegistered' /\ NotActiveYet'
    BY <1>1 DEF VInv, CandidatesInStep, JustRegistered, NotActiveYet, vars
  <2> QED
    BY <2>1, <2>2 DEF VInv
<1> QED
  BY <1>1, SetInvulnerablesKeeps, RegisterKeeps, NoteAuthorKeeps, NewSessionKeeps
     DEF Next, Produce
-------------------------------------------------------------------------------
(* The state always has the types it is declared with: the candidates stay *)
(* within the limit, the pot pays authors without running dry.             *)
THEOREM TypeCorrect == Spec => []TypeOK
<1>1. VInv => TypeOK
  BY DEF VInv
<1> QED
  BY <1>1, InitVInv, NextVInv, PTL DEF Spec

(* Candidates, their locks and LastAuthoredBlock stay in step, whatever    *)
(* the order of registrations, kicks and changes of the invulnerables:     *)
(* try_remove_candidate never fails in kick_stale_candidates.              *)
THEOREM StorageStaysInStep == Spec => []CandidatesInStep
<1>1. VInv => CandidatesInStep
  BY DEF VInv
<1> QED
  BY <1>1, InitVInv, NextVInv, PTL DEF Spec

(* A session change that kicks any candidates leaves MinCandidates, for    *)
(* any number of stale ones.                                               *)
THEOREM MinimumIsKept == Spec => MinimumKept
<1> DEFINE Kept == Len(candidates') < Len(candidates) => Len(candidates') >= MinCandidates
<1>1. VInv /\ [Next]_vars => Kept
  <2>1. ASSUME VInv PROVE Len(candidates) \in Nat
    BY <2>1 DEF VInv, TypeOK
  <2>2. ASSUME VInv, NewSession PROVE Kept
    BY <2>2, NewSessionKeeps, RemainingEnough
  <2>3. ASSUME VInv, NEW who \in Accounts, RegisterAsCandidate(who) PROVE Kept
    <3>1. Len(candidates') \in Nat /\ Len(candidates') > Len(candidates)
      BY <2>3, RegisterKeeps DEF VInv, TypeOK
    <3> QED
      BY <2>1, <2>3, <3>1
  <2>4. ASSUME VInv, candidates' = candidates PROVE Kept
    BY <2>1, <2>4
  <2> HIDE DEF Kept
  <2> QED
    BY <2>2, <2>3, <2>4, SetInvulnerablesKeeps, NoteAuthorKeeps DEF Next, Produce, vars
<1>2. Spec => [][Kept]_vars
  BY <1>1, InitVInv, NextVInv, PTL DEF Spec
<1> QED
  BY <1>2 DEF Kept, MinimumKept

(* No candidate is kicked at the end of a session it was not a validator   *)
(* of, if the threshold is two sessions or more.  A candidate is a         *)
(* validator of the second session after the one it registers in; up to    *)
(* there it was seen less than two sessions ago, even if it was still a    *)
(* validator when it registered, and lost its head start by authoring.     *)
THEOREM TurnComesBeforeKick ==
    ASSUME KickThreshold >= 2 * SessionLength
    PROVE  Spec => TurnBeforeKick
<1> DEFINE Turn == Range(candidates) \ Range(candidates') \subseteq Range(active)
<1>1. VInv /\ [Next]_vars => Turn
  <2>1. ASSUME VInv, NewSession PROVE Turn
    <3> SUFFICES ASSUME NEW a \in Range(candidates), a \notin Range(candidates'),
                        a \notin Range(active)
                 PROVE  FALSE
      OBVIOUS
    <3>1. a \in Kicked
      BY <2>1, NewSessionKeeps, RemainingKept
    <3>2. idle[a] >= KickThreshold
      BY <3>1 DEF Kicked, Stale
    <3>3. idle[a] <= SessionLength - 1 + SessionLength /\ idle[a] \in Int
      BY <2>1, Constants DEF VInv, NotActiveYet, CandidatesInStep, TypeOK, NewSession
    <3> QED
      BY <3>2, <3>3, Constants
  <2>2. ASSUME VInv, NEW who \in Accounts, RegisterAsCandidate(who) PROVE Turn
    BY <2>2, RegisterKeeps
  <2>3. ASSUME candidates' = candidates PROVE Turn
    BY <2>3
  <2> HIDE DEF Turn
  <2> QED
    BY <2>1, <2>2, <2>3, SetInvulnerablesKeeps, NoteAuthorKeeps DEF Next, Produce, vars
<1>2. Spec => [][Turn]_vars
  BY <1>1, InitVInv, NextVInv, PTL DEF Spec
<1> QED
  BY <1>2 DEF Turn, TurnBeforeKick
===============================================================================
