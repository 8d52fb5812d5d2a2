-------------------------- MODULE JournalPostings ---------------------------
(***************************************************************************)
(* The posting algebra of app/services/ledger_transfer_service.py: which   *)
(* legs a transfer writes, on which side, and in which amount.  Amounts    *)
(* are integers counting ten-thousandths, the quantum of Money.            *)
(*                                                                         *)
(* A transfer request is a record                                          *)
(*   src, dst      the two accounts                                        *)
(*   fee           the fee account, NoAccount when none is given           *)
(*   amount        the amount to transfer                                  *)
(*   charge        fee_amount                                              *)
(*   rate          exchange_rate in 1/RateScale, 0 when none is given      *)
(*   ref           reference_id                                            *)
(***************************************************************************)
EXTENDS Integers, FiniteSets

CONSTANTS
  Accounts,        \* ledger accounts, ordered like their lock keys
  Currencies,
  DebitNormal,     \* accounts of type ASSET or EXPENSE
  CurrencyOf,      \* currency of an account
  TreasuryOf,      \* the account numbered TREASURY-FX-<currency>
  Refs,            \* reference ids
  Requests,        \* arguments transfer_funds() is called with
  RateScale

NoAccount == 0

Treasuries == {TreasuryOf[cur] : cur \in Currencies}

ASSUME PostingsAssumption ==
  /\ Accounts \subseteq Nat \ {NoAccount}
  /\ DebitNormal \subseteq Accounts
  /\ CurrencyOf \in [Accounts -> Currencies]
  /\ TreasuryOf \in [Currencies -> Accounts]
  /\ RateScale \in Nat \ {0}
  /\ Requests \subseteq [src : Accounts, dst : Accounts,
                         fee : Accounts \cup {NoAccount},
                         amount : Nat, charge : Nat, rate : Nat, ref : Refs]

-----------------------------------------------------------------------------

(* Pre-flight validation of transfer_funds(). *)
ValidRequest(i) ==
  /\ i.src # i.dst
  /\ i.amount > 0
  /\ i.charge > 0 => i.fee # NoAccount
  /\ i.fee # NoAccount => i.fee \notin {i.src, i.dst}

TotalRequired(i) == i.amount + i.charge

CrossCurrency(i) == CurrencyOf[i.src] # CurrencyOf[i.dst]

(* Decimal.quantize(rounding=ROUND_HALF_EVEN) of the positive fraction n/d. *)
RoundHalfEven(n, d) ==
  LET q == n \div d
      r == n % d
  IN IF 2 * r > d \/ (2 * r = d /\ q % 2 = 1) THEN q + 1 ELSE q

DestinationAmount(i) ==
  IF CrossCurrency(i) THEN RoundHalfEven(i.amount * i.rate, RateScale) ELSE i.amount

Opposite(side) == IF side = "DEBIT" THEN "CREDIT" ELSE "DEBIT"

(* The side that increases an account, by its type. *)
NormalSide(a) == IF a \in DebitNormal THEN "DEBIT" ELSE "CREDIT"

SourceTreasury(i) == TreasuryOf[CurrencyOf[i.src]]

(* Mutation of DestinationTreasury: one clearing account for both legs. *)
MutSourceTreasury(i) == TreasuryOf[CurrencyOf[i.src]]

DestinationTreasury(i) == TreasuryOf[CurrencyOf[i.dst]]

(* The sum of the amounts of the legs P picks by account and side.  The    *)
(* sides of a single-currency transfer and of the fee follow the type of   *)
(* the source account alone; the destination pair of a cross-currency      *)
(* transfer follows the type of the destination account.                   *)
LegSum(i, P(_, _)) ==
  LET gives    == Opposite(NormalSide(i.src))
      takes    == NormalSide(i.src)
      received == DestinationAmount(i)
      Leg(a, side, amount) == IF P(a, side) THEN amount ELSE 0
  IN  Leg(i.src, gives, TotalRequired(i))
      + (IF CrossCurrency(i)
         THEN Leg(SourceTreasury(i), takes, i.amount)
              + Leg(DestinationTreasury(i), Opposite(NormalSide(i.dst)), received)
              + Leg(i.dst, NormalSide(i.dst), received)
         ELSE Leg(i.dst, takes, i.amount))
      + (IF i.charge > 0 THEN Leg(i.fee, takes, i.charge) ELSE 0)

Posted(i, side, a) == LegSum(i, LAMBDA b, s : b = a /\ s = side)

(* total_debits and total_credits of the zero-sum assertion. *)
TotalPosted(i, side) == LegSum(i, LAMBDA b, s : s = side)

(* PostingCreateDTO wants a positive amount, and the totals must agree. *)
PostingsAccepted(i) ==
  /\ DestinationAmount(i) > 0
  /\ TotalPosted(i, "DEBIT") = TotalPosted(i, "CREDIT")

(* The cleared balance of an account from its two aggregates. *)
BalanceOf(dr, cr, a) == IF a \in DebitNormal THEN dr[a] - cr[a] ELSE cr[a] - dr[a]
=============================================================================
