------------------------------- MODULE Balances -------------------------------
(***************************************************************************)
(* pallet_balances, as the pallets of this repository use it (Currency,    *)
(* ReservableCurrency, LockableCurrency).  An account is a record b: its   *)
(* free balance, its reserved balance, and the staking lock on the free    *)
(* balance, the only lock the runtime sets on a staker.                    *)
(***************************************************************************)
EXTENDS Naturals

CONSTANT ExistentialDeposit

ASSUME ExistentialDepositAssumption == ExistentialDeposit \in Nat

Account == [free : Nat, reserved : Nat, lock : Nat]

NewAccount(balance) == [free |-> balance, reserved |-> 0, lock |-> 0]

(* What is above the lock can be reserved or spent.                        *)
Usable(b, value) == value \in 0..b.free /\ b.free - value >= b.lock

Reserve(b, value) ==
    [free |-> b.free - value, reserved |-> b.reserved + value, lock |-> b.lock]

(* unreserve gives back as much as is there.                               *)
Unreserve(b, value) ==
    LET actual == IF value <= b.reserved THEN value ELSE b.reserved
    IN  [free |-> b.free + actual, reserved |-> b.reserved - actual,
         lock |-> b.lock]

(* set_lock returns early on a zero amount and leaves an older lock alone. *)
SetLock(b, amount) == IF amount = 0 THEN b ELSE [b EXCEPT !.lock = amount]

RemoveLock(b) == [b EXCEPT !.lock = 0]

(* resolve_creating: an account that does not exist is created by a        *)
(* deposit of at least the existential deposit; a smaller one is burned.   *)
Deposit(b, value) ==
    IF b.free + b.reserved = 0 /\ value < ExistentialDeposit
    THEN b
    ELSE [b EXCEPT !.free = b.free + value]

(* withdraw with KeepAlive, out of the account into the rest of the chain. *)
CanSpend(b, value) ==
    Usable(b, value) /\ b.free - value + b.reserved >= ExistentialDeposit

Spend(b, value) == [b EXCEPT !.free = b.free - value]

(* withdraw with AllowDeath, from an account without lock: less than the   *)
(* existential deposit does not stay, it is burned with the account.       *)
Withdraw(b, value) ==
    IF b.free - value + b.reserved < ExistentialDeposit
    THEN NewAccount(0)
    ELSE Spend(b, value)
===============================================================================
