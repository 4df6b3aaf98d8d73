------------------------------- MODULE Ewallet -------------------------------
(***************************************************************************)
(* The wallets of one customer and one worker (finance.service.ts).  The   *)
(* balances live in the finance service; a customer's debit reads the      *)
(* balance in one request and debits in another.  The amount of a request  *)
(* is any integer, as its input type says, and a debit may leave it out.   *)
(***************************************************************************)
EXTENDS Integers, FiniteSets

CONSTANTS MaxAmount,      \* amount of one request, of either sign (bound)
          WalletSlots,    \* requests that may run at the same time (bound)
          MaxWalletCalls  \* requests (bound)

ASSUME WalletAssumption ==
  /\ MaxAmount \in Nat /\ IsFiniteSet(WalletSlots) /\ WalletSlots # {}
  /\ MaxWalletCalls \in Nat

VARIABLES
  customerBalance, \* the customer's wallet, as the finance service keeps it
  workerBalance,   \* the worker's wallet
  walletCalls,     \* requests so far
  debitsOverlap,   \* two debits of the customer have run at the same time
  uncovered,       \* taken from the customer by requests that compare nothing with the balance
  walletRequests   \* the running requests

walletVars == <<customerBalance, workerBalance, walletCalls, debitsOverlap, uncovered,
                walletRequests>>

WalletRequest == [at : {"idle", "credit", "balance", "debit", "worker_credit", "worker_debit"},
                  amount : (-MaxAmount)..MaxAmount, given : BOOLEAN]

NoWalletRequest == [at |-> "idle", amount |-> 0, given |-> FALSE]

WalletAt(r, a) == walletRequests[r].at = a
WalletGo(r, q) == walletRequests' = [walletRequests EXCEPT ![r] = q]

\* Nothing looks at the amount but the input types: an integer, which a debit need not
\* have (PartialType).
WalletBegins(r, at) ==
  /\ WalletAt(r, "idle")
  /\ walletCalls < MaxWalletCalls
  /\ walletCalls' = walletCalls + 1
  /\ \/ \E n \in (-MaxAmount)..MaxAmount : WalletGo(r, [at |-> at, amount |-> n, given |-> TRUE])
     \/ /\ at \in {"balance", "worker_debit"}
        /\ WalletGo(r, [at |-> at, amount |-> 0, given |-> FALSE])
  /\ UNCHANGED <<customerBalance, workerBalance, uncovered>>

CustomerEwalletCredit(r) == WalletBegins(r, "credit") /\ UNCHANGED debitsOverlap

CustomerEwalletDebit(r) ==
  /\ WalletBegins(r, "balance")
  /\ debitsOverlap' = (debitsOverlap \/ \E k \in WalletSlots : walletRequests[k].at \in {"balance", "debit"})

WorkerWalletCredit(r) == WalletBegins(r, "worker_credit") /\ UNCHANGED debitsOverlap

\* Nothing reads the worker's balance first: her wallet may go below zero.
WorkerWalletDebit(r) == WalletBegins(r, "worker_debit") /\ UNCHANGED debitsOverlap

\* Mutant: the check lets a debit through that the balance does not cover.
DebitAnyBalance(r) ==
  /\ WalletAt(r, "balance")
  /\ WalletGo(r, IF customerBalance < 0 THEN NoWalletRequest
                 ELSE [walletRequests[r] EXCEPT !.at = "debit"])
  /\ UNCHANGED <<customerBalance, workerBalance, walletCalls, debitsOverlap, uncovered>>

\* getEwalletBalance and the check, which no balance fails when there is no amount; the
\* request may also fail here.
CheckBalance(r) ==
  /\ WalletAt(r, "balance")
  /\ \/ WalletGo(r, NoWalletRequest)
     \/ /\ walletRequests[r].given => customerBalance >= walletRequests[r].amount
        /\ WalletGo(r, [walletRequests[r] EXCEPT !.at = "debit"])
  /\ UNCHANGED <<customerBalance, workerBalance, walletCalls, debitsOverlap, uncovered>>

\* What the finance service credits or debits when it does: what a debit without an
\* amount takes is up to it.
Amounts(q) == IF q.given THEN {q.amount} ELSE 0..MaxAmount

\* What of it no check has seen: a credit that takes, a debit without an amount.
Unchecked(q, n) ==
  IF q.at = "credit" THEN IF n < 0 THEN -n ELSE 0
  ELSE IF q.given THEN 0 ELSE n

\* The POST to the finance service: refused, or applied, whether or not its answer
\* comes back.
Post(r) ==
  LET q == walletRequests[r] IN
  /\ q.at \in {"credit", "debit", "worker_credit", "worker_debit"}
  /\ \/ UNCHANGED <<customerBalance, workerBalance, uncovered>>
     \/ /\ q.at \in {"credit", "debit"}
        /\ \E n \in Amounts(q) :
             /\ customerBalance' = customerBalance + (IF q.at = "credit" THEN n ELSE -n)
             /\ uncovered' = uncovered + Unchecked(q, n)
        /\ UNCHANGED workerBalance
     \/ /\ q.at \in {"worker_credit", "worker_debit"}
        /\ \E n \in Amounts(q) :
             workerBalance' = workerBalance + (IF q.at = "worker_credit" THEN n ELSE -n)
        /\ UNCHANGED <<customerBalance, uncovered>>
  /\ WalletGo(r, NoWalletRequest)
  /\ UNCHANGED <<walletCalls, debitsOverlap>>

WalletInit ==
  /\ customerBalance = 0
  /\ workerBalance = 0
  /\ walletCalls = 0
  /\ debitsOverlap = FALSE
  /\ uncovered = 0
  /\ walletRequests = [r \in WalletSlots |-> NoWalletRequest]

WalletNext ==
  \E r \in WalletSlots :
    \/ CustomerEwalletCredit(r) \/ CustomerEwalletDebit(r)
    \/ WorkerWalletCredit(r) \/ WorkerWalletDebit(r)
    \/ CheckBalance(r) \/ Post(r)

WalletSpec == WalletInit /\ [][WalletNext]_walletVars

WalletTypeOK ==
  /\ customerBalance \in Int
  /\ workerBalance \in Int
  /\ walletCalls \in 0..MaxWalletCalls
  /\ debitsOverlap \in BOOLEAN
  /\ uncovered \in Nat
  /\ walletRequests \in [WalletSlots -> WalletRequest]

\* A customer's wallet is overdrawn only by what no check has seen (a negative credit, a
\* debit without an amount) and by debits that overlap (each found the balance sufficient,
\* customerEwalletDebit), and by these by no more than all of them but one.
NoOverdraft ==
  /\ ~debitsOverlap => customerBalance >= -uncovered
  /\ customerBalance >= -uncovered - (Cardinality(WalletSlots) - 1) * MaxAmount
=============================================================================
