---------------------------- MODULE AtomicLedger ----------------------------
(***************************************************************************)
(* What transfer_funds() promises, as one indivisible step: a call either  *)
(* posts its whole journal entry together with its outbox event, once per  *)
(* reference and only out of sufficient funds, or changes nothing.         *)
(***************************************************************************)
EXTENDS JournalPostings

CONSTANTS
  Workers,         \* calls of transfer_funds()
  OpeningDebits,   \* aggregates of each account before the first call
  OpeningCredits

VARIABLES
  arg,       \* the request of a call
  journal,   \* calls whose journal entry is committed
  outbox,    \* calls whose outbox event is committed
  debits,    \* sum of the debit postings of an account
  credits    \* sum of its credit postings

ledgerVars == <<arg, journal, outbox, debits, credits>>

LedgerInit ==
  /\ arg \in [Workers -> Requests]
  /\ journal = {}
  /\ outbox = {}
  /\ debits = OpeningDebits
  /\ credits = OpeningCredits

Funded(w) == BalanceOf(debits, credits, arg[w].src) >= TotalRequired(arg[w])

(* The rows of one transfer become visible. *)
Apply(w) ==
  /\ journal' = journal \cup {w}
  /\ outbox' = outbox \cup {w}
  /\ debits' = [a \in Accounts |-> debits[a] + Posted(arg[w], "DEBIT", a)]
  /\ credits' = [a \in Accounts |-> credits[a] + Posted(arg[w], "CREDIT", a)]

(* Treasury accounts are posted to by transfers that do not name them, so  *)
(* their funds are not promised.                                           *)
Transfer(w) ==
  /\ w \notin journal
  /\ \A e \in journal : arg[e].ref # arg[w].ref
  /\ arg[w].src \notin Treasuries => Funded(w)
  /\ TotalPosted(arg[w], "DEBIT") = TotalPosted(arg[w], "CREDIT")
  /\ Apply(w)
  /\ UNCHANGED arg

LedgerSpec == LedgerInit /\ [][\E w \in Workers : Transfer(w)]_ledgerVars
=============================================================================
