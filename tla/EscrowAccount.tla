---------------------------- MODULE EscrowAccount ---------------------------
(***************************************************************************)
(* What the wallet engine promises its callers (the lifecycle comment at   *)
(* the top of src/src/lib/billing/wallet.ts), with no rows, keys, clocks   *)
(* or counters: every account has spendable credits and credits set aside  *)
(* in escrow.  A credit enters an account by a deposit.  It leaves only    *)
(* by a withdrawal of spendable credits, by capturing part of an escrow    *)
(* that exists, or with the account itself; what an escrow holds and is    *)
(* not captured becomes spendable again.  No account is ever overdrawn.    *)
(***************************************************************************)
EXTENDS CreditTally

CONSTANTS Users, HoldKeys

VARIABLES
  spendable,  \* [Users -> Nat]
  escrow      \* set of [key, user, credits]

escrowVars == <<spendable, escrow>>

EscrowInit ==
  /\ spendable = [u \in Users |-> 0]
  /\ escrow = {}

\* Any number of credits may come in.
Deposit(u) ==
  /\ spendable'[u] \in Nat
  /\ spendable'[u] >= spendable[u]
  /\ spendable' = [spendable EXCEPT ![u] = spendable'[u]]
  /\ UNCHANGED escrow

Withdraw(u, n) ==
  /\ spendable' = [spendable EXCEPT ![u] = @ - n]
  /\ UNCHANGED escrow

\* A key names at most one escrow at a time.
Reserve(k, u, n) ==
  /\ \A e \in escrow : e.key # k
  /\ spendable' = [spendable EXCEPT ![u] = @ - n]
  /\ escrow' = escrow \cup {[key |-> k, user |-> u, credits |-> n]}

Capture(e, n) ==
  /\ spendable' = [spendable EXCEPT ![e.user] = @ + (e.credits - n)]
  /\ escrow' = escrow \ {e}

Cancel(E) ==
  /\ spendable' = [u \in Users |->
       spendable[u] + Total([e \in {g \in E : g.user = u} |-> e.credits])]
  /\ escrow' = escrow \ E

Close(u) ==
  /\ spendable' = [spendable EXCEPT ![u] = 0]
  /\ escrow' = {e \in escrow : e.user # u}

EscrowNext ==
  \/ \E u \in Users :
       \/ Deposit(u)
       \/ Close(u)
       \/ \E n \in 0 .. spendable[u] :
            Withdraw(u, n) \/ \E k \in HoldKeys : Reserve(k, u, n)
  \/ \E e \in escrow : \E n \in 0 .. e.credits : Capture(e, n)
  \/ \E E \in SUBSET escrow : Cancel(E)

EscrowSpec == EscrowInit /\ [][EscrowNext]_escrowVars

=============================================================================
