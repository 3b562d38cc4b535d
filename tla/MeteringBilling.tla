-------------------------- MODULE MeteringBilling --------------------------
(***************************************************************************)
(* services/metering-billing up to the statements: the usage rows, the     *)
(* handler of the verification events (src/index.ts), the routes of        *)
(* src/routes/usage.ts and src/routes/settlements.ts, and their queries    *)
(* (src/db/index.ts).  What happens to a stored statement afterwards is    *)
(* SettlementService's.                                                    *)
(*                                                                         *)
(* One supplier, one predicate, and a price of 1.  Operations only: the    *)
(* module that EXTENDS this one says when the bus delivers.                *)
(***************************************************************************)
EXTENDS Integers, Sequences, FiniteSets

CONSTANTS
  RowIds,         \* the event_id values of usage rows: UNIQUE in the table
  Receipts,
  Periods,        \* the periods [from, to] that callers ask statements for
  MonthLength,    \* ticks of the clock per calendar month
  MaxStatements   \* bound on POST /settlements

ASSUME MeteringAssumption ==
  /\ Periods \subseteq [from : Nat, to : Nat]
  /\ MonthLength \in Nat \ {0}
  /\ MaxStatements \in Nat

VARIABLES
  usage,      \* the table verification_usage, in the order of insertion
  handled,    \* the handler of the event in hand has returned; its ack is due
  dropped,    \* history: events whose insert failed, which the handler only logs
  statements  \* POST /settlements: the rows it has read, and what it stored

meteringVars == <<usage, handled, dropped, statements>>

MeteringTypeOK ==
  /\ usage \in Seq([event : RowIds, receipt : Receipts, at : Nat])
  /\ handled \in BOOLEAN
  /\ dropped \subseteq RowIds
  /\ \A i \in DOMAIN statements :
       /\ statements[i].period \in Periods
       /\ statements[i].rows \subseteq DOMAIN usage
       /\ statements[i].outcome \in {"reading", "stored", "failed"}
       /\ statements[i].total \in 0..Cardinality(statements[i].rows)

MeteringInit ==
  /\ usage = <<>>
  /\ handled = FALSE
  /\ dropped = {}
  /\ statements = <<>>

-----------------------------------------------------------------------------
(* Mutated operations                                                      *)

\* The insert does not hit the UNIQUE constraint of event_id.
InsertAnyway(row) == usage' = Append(usage, row)

\* The end of the period is included.
InClosedPeriod(t, from, to) == from <= t /\ t <= to

\* The total is written as it is.
StoreUnchecked(i) ==
  /\ statements[i].outcome = "reading"
  /\ statements' = [statements EXCEPT ![i].outcome = "stored",
       ![i].total = IF Cardinality(statements[i].rows) <= 1
                    THEN Cardinality(statements[i].rows) ELSE -1]
  /\ UNCHANGED <<usage, handled, dropped>>

-----------------------------------------------------------------------------
(* Usage                                                                   *)

Taken(id) == \E i \in DOMAIN usage : usage[i].event = id

\* recordUsage: one INSERT, refused by the UNIQUE constraint on event_id.
RecordUsage(row) ==
  IF Taken(row.event) THEN UNCHANGED usage ELSE usage' = Append(usage, row)

\* The event handler: whatever the insert does, the handler returns.
MeterEvent(row) ==
  /\ ~handled
  /\ handled' = TRUE
  /\ RecordUsage(row)
  /\ UNCHANGED <<dropped, statements>>

\* The INSERT fails for a reason of the database's: logged, and no more.
MeterEventFails(row) ==
  /\ ~handled
  /\ handled' = TRUE
  /\ dropped' = IF Taken(row.event) THEN dropped ELSE dropped \cup {row.event}
  /\ UNCHANGED <<usage, statements>>

\* POST /usage: the caller chooses the event id.
PostUsage(row) ==
  /\ RecordUsage(row)
  /\ UNCHANGED <<handled, dropped, statements>>

-----------------------------------------------------------------------------
(* Statements and reports                                                  *)

InPeriod(t, from, to) == from <= t /\ t < to

RowsIn(from, to) == {i \in DOMAIN usage : InPeriod(usage[i].at, from, to)}

\* The driver returns a DECIMAL as text, and += on text concatenates: two prices
\* give "00.05000.0500", which is no number.
NotANumber == -1
TotalAmount(rows) ==
  IF Cardinality(rows) <= 1 THEN Cardinality(rows) ELSE NotANumber

\* POST /settlements: generateStatement reads the usage of the period ...
ReadUsage(period) ==
  /\ Len(statements) < MaxStatements
  /\ statements' = Append(statements,
       [period |-> period, rows |-> RowsIn(period.from, period.to),
        outcome |-> "reading", total |-> 0])
  /\ UNCHANGED <<usage, handled, dropped>>

\* ... and inserts the statement in a later statement of its own, which the
\* database refuses when the total is no number.
StoreStatement(i) ==
  /\ statements[i].outcome = "reading"
  /\ LET total == TotalAmount(statements[i].rows)
     IN  statements' = [statements EXCEPT ![i] =
           IF total = NotANumber
           THEN [@ EXCEPT !.outcome = "failed"]
           ELSE [@ EXCEPT !.outcome = "stored", !.total = total]]
  /\ UNCHANGED <<usage, handled, dropped>>

\* GET /usage/supplier/:supplierId over some rows: parseFloat of each price.
SummaryAmount(rows) == Cardinality(rows)

\* GET /usage/aggregations/:supplierId: the rows counted for the months first..last.
RowsOfMonths(first, last) ==
  {i \in DOMAIN usage : /\ first * MonthLength <= usage[i].at
                        /\ usage[i].at < last * MonthLength + MonthLength}

\* The process restarts: the request being handled and the statements being made are gone.
RestartMetering ==
  /\ handled' = FALSE
  /\ statements' = [i \in DOMAIN statements |->
       IF statements[i].outcome = "reading" THEN [statements[i] EXCEPT !.outcome = "failed"]
       ELSE statements[i]]
  /\ UNCHANGED <<usage, dropped>>

-----------------------------------------------------------------------------
(* Properties of the statements                                            *)

Stored == {i \in DOMAIN statements : statements[i].outcome = "stored"}

\* The places that add up the same usage agree: a statement's total is what the usage
\* report says of its rows, however many there are; the monthly report of whole months
\* counts what lies between the first day of the first and the first day after the
\* last; and usage that a statement bills is in no statement of a period that only
\* touches its own, whenever that one is made.  db/index.ts:104, :150 and :180,
\* routes/usage.ts:100.
ReportsAgree ==
  /\ \A i \in Stored : statements[i].total = SummaryAmount(statements[i].rows)
  /\ \A first, last \in 0..1 :
       first <= last =>
         RowsOfMonths(first, last) = RowsIn(first * MonthLength, (last + 1) * MonthLength)
  /\ \A i \in Stored, p \in Periods :
       LET mine == statements[i].period IN
       mine.to <= p.from \/ p.to <= mine.from
         => statements[i].rows \cap RowsIn(p.from, p.to) = {}

=============================================================================
