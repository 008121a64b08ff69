------------------------------- MODULE Credits -------------------------------
(***************************************************************************)
(* The credits of one user (api/services/credits_service.py): a balance in *)
(* the user's row and a transaction for every change of it.  An operation  *)
(* reads the transactions and the balance, and then writes the balance it  *)
(* computed and its transaction in one commit; operations of different     *)
(* threads and processes lie between the two.  The jobs of the user ask    *)
(* for what a fast or a full analysis costs at the time.                   *)
(***************************************************************************)
EXTENDS Integers, FiniteSets, FiniteSetsExt

CONSTANTS
    PaidJobs, CreditThreads,
    Prices,       \* TA_FAST_COST_POINTS and TA_COST_ANALYSIS
    FullPrice,    \* _cost(), the amount when none is given
    OpeningBalance,
    Grants,       \* amounts an administrator adds or takes away
    MaxGrants     \* bound

ASSUME CreditsAssumption ==
    /\ FullPrice \in Prices /\ Prices \subseteq Nat \ {0} /\ Grants \subseteq Int
    /\ OpeningBalance \in Int /\ MaxGrants \in Nat
    /\ IsFiniteSet(PaidJobs) /\ "none" \notin PaidJobs

VARIABLES
    balance,    \* users.credits
    txs,        \* the transactions of each job: the sum of each type
    granted,    \* the sum of the grants and adjustments
    op,         \* what a thread has read: type, job, amount, balance
    grants,
    priced,     \* history: the amounts asked for in the name of a job
    crossed     \* history: an operation was written while another one was under way

creditVars == <<balance, txs, granted, op, grants, priced, crossed>>

\* The rows of a job in the ledger, added up by type.
Transactions == [reserve : Nat, commit : Nat, refund : Nat]

NoOp == [type |-> "none", job |-> "none", amount |-> 0, read |-> 0]
Has(j, type) == txs[j][type] > 0

Begin(t, type, j, amount) ==
    /\ op[t] = NoOp
    /\ op' = [op EXCEPT ![t] = [type |-> type, job |-> j, amount |-> amount, read |-> balance]]
    /\ priced' = [priced EXCEPT ![j] = @ \union {amount}]
    /\ UNCHANGED <<balance, txs, granted, grants, crossed>>

\* reserve_for_analysis: once per job, and only with enough on the account.
Reserve(t, j, amount) == ~Has(j, "reserve") /\ balance >= amount /\ Begin(t, "reserve", j, amount)

\* commit_analysis leaves the balance alone, and asks for no reservation.
Charge(t, j, amount) == ~Has(j, "commit") /\ Begin(t, "commit", j, amount)

\* refund_analysis: once per job, and only after a reservation; of the amount asked
\* for, not of the amount reserved.
Refund(t, j, amount) ==
    ~Has(j, "refund") /\ Has(j, "reserve") /\ Begin(t, "refund", j, amount)

\* grant: delta may be negative, the balance too.
Grant(t, delta) ==
    /\ grants < MaxGrants /\ grants' = grants + 1
    /\ op[t] = NoOp /\ delta # 0
    /\ op' = [op EXCEPT ![t] = [type |-> "grant", job |-> "none", amount |-> delta, read |-> balance]]
    /\ UNCHANGED <<balance, txs, granted, priced, crossed>>

\* Mutant of Delta: the account is debited the price of a full analysis.
DeltaAtCost(o) == CASE o.type = "reserve" -> -FullPrice
                    [] o.type \in {"refund", "grant"} -> o.amount
                    [] OTHER -> 0

Delta(o) == CASE o.type = "reserve" -> -o.amount
              [] o.type \in {"refund", "grant"} -> o.amount
              [] OTHER -> 0

Writers == {t \in CreditThreads : op[t].type \in {"reserve", "refund", "grant"}}

\* The commit of the balance computed, and of the transaction.
WriteOp(t) ==
    LET o == op[t] IN
    /\ o # NoOp
    /\ balance' = IF t \in Writers THEN o.read + Delta(o) ELSE balance
    /\ IF o.type = "grant"
       THEN granted' = granted + o.amount /\ UNCHANGED txs
       ELSE txs' = [txs EXCEPT ![o.job][o.type] = @ + o.amount] /\ UNCHANGED granted
    /\ op' = [op EXCEPT ![t] = NoOp]
    /\ crossed' = (crossed \/ \E u \in CreditThreads \ {t} : op[u] # NoOp)
    /\ UNCHANGED <<grants, priced>>

CreditsInit ==
    /\ balance = OpeningBalance /\ granted = 0 /\ grants = 0 /\ crossed = FALSE
    /\ txs = [j \in PaidJobs |-> [reserve |-> 0, commit |-> 0, refund |-> 0]]
    /\ priced = [j \in PaidJobs |-> {}]
    /\ op = [t \in CreditThreads |-> NoOp]

CreditsNext == \E t \in CreditThreads :
    \/ \E j \in PaidJobs, amount \in Prices : Reserve(t, j, amount) \/ Charge(t, j, amount) \/ Refund(t, j, amount)
    \/ \E delta \in Grants : Grant(t, delta)
    \/ WriteOp(t)

CreditsSpec == CreditsInit /\ [][CreditsNext]_creditVars

-----------------------------------------------------------------------------
\* The type of every variable.
CreditsTypeOK ==
    /\ balance \in Int /\ granted \in Int /\ grants \in 0 .. MaxGrants /\ crossed \in BOOLEAN
    /\ txs \in [PaidJobs -> Transactions]
    /\ priced \in [PaidJobs -> SUBSET Prices]
    /\ \A t \in CreditThreads : op[t].type \in {"none", "reserve", "commit", "refund", "grant"}

\* The balance is what the transactions add up to, through reservations of two
\* prices, refunds, grants and adjustments in any order; an operation that was
\* written while another one was under way may have lost the other's change.
BalanceIsLedger ==
    ~crossed => balance = OpeningBalance + granted
                    + MapThenSumSet(LAMBDA j : txs[j].refund - txs[j].reserve, PaidJobs)

\* No job gives its user more than it took, and none takes twice, whatever is
\* retried, resumed or settled again; a job that was run at two prices (a fast
\* analysis resumed as a full one) may be refunded more than was reserved.
JobPaysOnce ==
    \A j \in PaidJobs : (~crossed /\ Cardinality(priced[j]) <= 1) =>
        txs[j].reserve - txs[j].refund \in {0} \union priced[j]

\* The ledger: the balance is what the transactions add up to, and no job's
\* transactions pay it twice or charge it twice.
LedgerKept == BalanceIsLedger /\ JobPaysOnce
=============================================================================
