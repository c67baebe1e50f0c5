---------------------------- MODULE ValidatorSet ------------------------------
(***************************************************************************)
(* pallets/validator-set: accounts register as candidates against a lock   *)
(* and join the invulnerables as validators; at each change of session the *)
(* candidates that have not authored a block for KickThreshold blocks are  *)
(* kicked.  The pallet is not part of the runtime at this commit; around   *)
(* it are pallet_session, which asks for the validators of the session     *)
(* after the next one, and pallet_authorship, which names the author of    *)
(* each block.                                                             *)
(*                                                                         *)
(* LastAuthoredBlock is kept as its distance to the current block, capped  *)
(* at KickThreshold, beyond which all distances are alike.  The bond is    *)
(* fixed at genesis, so a candidate is its account.  The session keys and  *)
(* the balance that register_as_candidate looks at are not this pallet's:  *)
(* any account may have them.  An empty set of invulnerables, which could   *)
(* leave the chain without any author, is not among the choices.           *)
(***************************************************************************)
EXTENDS Integers, Sequences, FiniteSets, Functions

CONSTANTS
    Accounts,
    DesiredCandidates,     \* DesiredCandidates, from the genesis
    MinCandidates,         \* T::MinCandidates
    KickThreshold,         \* T::KickThreshold
    SessionLength,         \* blocks per session, of pallet_session
    InvulnerableChoices,   \* arguments of set_invulnerables
    ExistentialDeposit,    \* T::Currency::minimum_balance
    PotBalance             \* what the pot holds at genesis

ASSUME ValidatorSetAssumption ==
    /\ {DesiredCandidates, MinCandidates, ExistentialDeposit, PotBalance}
           \subseteq Nat
    /\ {KickThreshold, SessionLength} \subseteq Nat \ {0}
    /\ InvulnerableChoices \subseteq Seq(Accounts) \ {<<>>}

VARIABLES
    invulnerables,   \* Invulnerables
    candidates,      \* Candidates
    idle,            \* LastAuthoredBlock: blocks since then
    locked,          \* accounts with the lock VALIDATOR_STAKING_ID
    pot,             \* balance of the pallet's account
    active,          \* pallet_session: validators of this session
    queued,          \* pallet_session: validators of the next session
    block            \* block of the session, SessionLength when it is over

vars == <<invulnerables, candidates, idle, locked, pot, active, queued, block>>

(* Half of what the pot has above the existential deposit.                 *)
AuthorReward(balance) ==
    IF balance >= ExistentialDeposit THEN (balance - ExistentialDeposit) \div 2 ELSE 0

(* The genesis, and the hooks of the first block.                          *)
Init ==
    /\ invulnerables \in InvulnerableChoices
    /\ \A i, j \in DOMAIN invulnerables :
           i # j => invulnerables[i] # invulnerables[j]
    /\ candidates = <<>>
    /\ \E author \in Range(invulnerables) : idle = [a \in {author} |-> 0]
    /\ locked = {}
    /\ pot = PotBalance - AuthorReward(PotBalance)
    /\ active = invulnerables
    /\ queued = invulnerables
    /\ block = 1

(* Calls run in a block, after the hooks.                                  *)
InBlock == block < SessionLength

SetInvulnerables(s) ==
    /\ InBlock
    /\ invulnerables' = s
    /\ UNCHANGED <<candidates, idle, locked, pot, active, queued, block>>

(* Slip: a new candidate counts as having authored this very block.        *)
FirstAuthoredNow == 0

(* "First authored block is current block plus kick threshold to handle    *)
(* session delay."                                                         *)
FirstAuthored == -KickThreshold

(* Slip: the limit can be passed by one.                                   *)
BelowLimitByOne == Len(candidates) <= DesiredCandidates

(* "Ensure we are below limit."                                            *)
BelowLimit == Len(candidates) < DesiredCandidates

RegisterAsCandidate(who) ==
    /\ InBlock
    /\ BelowLimit
    /\ who \notin Range(invulnerables)
    /\ who \notin Range(candidates)
    /\ locked' = locked \cup {who}
    /\ candidates' = Append(candidates, who)
    /\ idle' = [a \in DOMAIN idle \cup {who} |->
                    IF a = who THEN FirstAuthored ELSE idle[a]]
    /\ UNCHANGED <<invulnerables, pot, active, queued, block>>

(* The next block: its author is paid out of the pot, and noted.           *)
NoteAuthor(author) ==
    /\ block < SessionLength
    /\ block' = block + 1
    /\ pot' = pot - AuthorReward(pot)
    /\ idle' = [a \in DOMAIN idle \cup {author} |->
                    IF a = author THEN 0
                    ELSE IF idle[a] < KickThreshold THEN idle[a] + 1 ELSE idle[a]]
    /\ UNCHANGED <<invulnerables, candidates, locked, active, queued>>

(* Slip: the loop ends at the first candidate that is not stale, so that   *)
(* one that authors shields all those registered after it.                 *)
StaleInFront ==
    {i \in DOMAIN candidates :
        \A j \in 1..i : idle[candidates[j]] >= KickThreshold}

Stale == {i \in DOMAIN candidates : idle[candidates[i]] >= KickThreshold}

(* Slip: the number of candidates is read once, before the loop.           *)
KickedOneCount ==
    {candidates[i] : i \in {i \in Stale : Len(candidates) > MinCandidates}}

(* kick_stale_candidates looks at the candidates in order and kicks a      *)
(* stale one as long as more than MinCandidates remain.                    *)
Kicked ==
    {candidates[i] :
        i \in {i \in Stale : Cardinality({j \in Stale : j < i})
                                 < Len(candidates) - MinCandidates}}

(* Slip: the lock of a removed candidate stays.                            *)
LocksAfterKickKept == locked

LocksAfterKick == locked \ Kicked

(* The others, in the same order: in place k the one with k - 1 of them    *)
(* before it.                                                              *)
Remaining ==
    LET kept == {i \in DOMAIN candidates : candidates[i] \notin Kicked}
        at(k) == CHOOSE i \in kept : Cardinality({j \in kept : j < i}) = k - 1
    IN  [k \in 1..Cardinality(kept) |-> candidates[at(k)]]

AssembleValidators(remaining) == invulnerables \o remaining

(* new_session: try_remove_candidate of the kicked, then the invulnerables *)
(* and the remaining candidates are queued, and the queued become active.  *)
NewSession ==
    /\ block = SessionLength
    /\ block' = 0
    /\ candidates' = Remaining
    /\ locked' = LocksAfterKick
    /\ idle' = Restrict(idle, DOMAIN idle \ Kicked)
    /\ active' = queued
    /\ queued' = AssembleValidators(Remaining)
    /\ UNCHANGED <<invulnerables, pot>>

Produce == NewSession \/ \E a \in Range(active) : NoteAuthor(a)

Next ==
    \/ Produce
    \/ \E s \in InvulnerableChoices : SetInvulnerables(s)
    \/ \E a \in Accounts : RegisterAsCandidate(a)

Spec == Init /\ [][Next]_vars

(* Blocks are produced, by whichever validators.                           *)
FairSpec == Spec /\ WF_vars(Produce)
-------------------------------------------------------------------------------
TypeOK ==
    /\ invulnerables \in Seq(Accounts)
    /\ candidates \in Seq(Accounts)
    /\ Len(candidates) <= DesiredCandidates
    /\ DOMAIN idle \subseteq Accounts
    /\ \A a \in DOMAIN idle : idle[a] \in (-KickThreshold)..KickThreshold
    /\ locked \subseteq Accounts
    /\ pot \in Nat
    /\ active \in Seq(Accounts)
    /\ queued \in Seq(Accounts)
    /\ block \in 0..SessionLength

(* Exactly the candidates are locked, each is a candidate once, and the    *)
(* pallet knows when each was last seen: registering, kicking and          *)
(* registering again keep the three storage items in step, so that the     *)
(* removal in kick_stale_candidates, which debug_assert! relies on, never  *)
(* fails.                                                                  *)
CandidatesInStep ==
    /\ locked = Range(candidates)
    /\ \A i, j \in DOMAIN candidates : i # j => candidates[i] # candidates[j]
    /\ Range(candidates) \subseteq DOMAIN idle

(* A kick never goes below MinCandidates, "for disaster recovery", also    *)
(* when all candidates are stale at once.                                  *)
MinimumKept ==
    [][Len(candidates') < Len(candidates) => Len(candidates') >= MinCandidates]_vars

(* The session delay is handled, where the threshold is two sessions or    *)
(* more: no candidate is kicked at the end of a session it was not a       *)
(* validator of, and so before it could author a block.  With a shorter    *)
(* threshold the head start of register_as_candidate is not enough: an     *)
(* account that is still a validator of the session when it registers      *)
(* loses it with the next block that it authors.                           *)
TurnBeforeKick ==
    [][Range(candidates) \ Range(candidates') \subseteq Range(active)]_vars

(* A candidate that has stopped authoring does not stay for ever, unless   *)
(* it is needed for the minimum: it is time and again out of the set, or   *)
(* seen, or the set is at the minimum.                                     *)
IdleCandidatesLeave ==
    \A a \in Accounts :
        \/ []<>(a \notin Range(candidates))
        \/ []<>(a \in DOMAIN idle /\ idle[a] = 0)
        \/ []<>(Len(candidates) <= MinCandidates)
===============================================================================
