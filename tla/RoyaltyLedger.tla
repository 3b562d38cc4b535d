--------------------------- MODULE RoyaltyLedger ---------------------------
(***************************************************************************)
(* What RoyaltySettlement.sol promises a supplier, without time, pauses,   *)
(* windows or tokens: a statement is opened once with fixed terms, is      *)
(* either contested or credited (never both, and each at most once), and   *)
(* what a supplier is owed grows only by credited statements and shrinks   *)
(* only by being paid out in full.                                         *)
(***************************************************************************)
EXTENDS Integers

CONSTANTS
  StatementIds,
  Suppliers,
  ZeroAddress,  \* the supplier of a statement that was never opened
  Amounts       \* amounts a statement may be opened for

VARIABLES
  phase,  \* "none", "open", "contested" or "credited", per statement
  terms,  \* the supplier and the amount of every statement that was opened
  owed,   \* per supplier: credited and not yet paid out
  paid    \* per supplier: paid out

ledgerVars == <<phase, terms, owed, paid>>

Phases == {"none", "open", "contested", "credited"}

NoTerms == [supplier |-> ZeroAddress, amount |-> 0]

LedgerInit ==
  /\ phase = [id \in StatementIds |-> "none"]
  /\ terms = [id \in StatementIds |-> NoTerms]
  /\ owed = [s \in Suppliers |-> 0]
  /\ paid = [s \in Suppliers |-> 0]

Open(id, supplier, amount) ==
  /\ phase[id] = "none"
  /\ amount > 0
  /\ phase' = [phase EXCEPT ![id] = "open"]
  /\ terms' = [terms EXCEPT ![id] = [supplier |-> supplier, amount |-> amount]]
  /\ UNCHANGED <<owed, paid>>

Contest(id) ==
  /\ phase[id] = "open"
  /\ phase' = [phase EXCEPT ![id] = "contested"]
  /\ UNCHANGED <<terms, owed, paid>>

Credit(id) ==
  /\ phase[id] = "open"
  /\ phase' = [phase EXCEPT ![id] = "credited"]
  /\ owed' = [owed EXCEPT ![terms[id].supplier] = @ + terms[id].amount]
  /\ UNCHANGED <<terms, paid>>

PayOut(supplier) ==
  /\ owed[supplier] > 0
  /\ owed' = [owed EXCEPT ![supplier] = 0]
  /\ paid' = [paid EXCEPT ![supplier] = @ + owed[supplier]]
  /\ UNCHANGED <<phase, terms>>

LedgerNext ==
  \/ \E id \in StatementIds :
        \/ \E supplier \in Suppliers, amount \in Amounts : Open(id, supplier, amount)
        \/ Contest(id)
        \/ Credit(id)
  \/ \E supplier \in Suppliers : PayOut(supplier)

LedgerSpec == LedgerInit /\ [][LedgerNext]_ledgerVars

=============================================================================
