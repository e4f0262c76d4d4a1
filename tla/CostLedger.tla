----------------------------- MODULE CostLedger -----------------------------
(***************************************************************************)
(* The conservative cost ledger of storage.py: one row of                  *)
(* cost_reservations for each paid request.  A reservation holds an upper  *)
(* bound of the charge from before the request is sent until an operator   *)
(* settles or releases it.  Every operation is one SQLite write            *)
(* transaction (reserve_cost opens it with BEGIN IMMEDIATE, the others are *)
(* one guarded UPDATE), hence one action.                                  *)
(***************************************************************************)
EXTENDS Integers, FiniteSets

CONSTANTS
  Requests,     \* the request ids of paid calls
  Budget,       \* budget_microusd
  Amounts,      \* the upper bounds a caller may reserve
  Charges       \* the charges an operator may settle with

ASSUME LedgerAssumption ==
  /\ IsFiniteSet(Requests)
  /\ Budget \in Nat
  /\ Amounts \subseteq Nat
  /\ Charges \subseteq Nat

VARIABLE ledger   \* cost_reservations, by request_id (UNIQUE)

ReservationStates == {"none", "reserved", "ambiguous", "settled", "released"}

Reservation == [status : ReservationStates, reserved : Nat, spent : Nat]

LedgerTypeOK == ledger \in [Requests -> Reservation]

LedgerInit ==
  ledger = [r \in Requests |-> [status |-> "none", reserved |-> 0, spent |-> 0]]

(***************************************************************************)
(* What the SUM of reserve_cost counts of a row: the charge of a settled   *)
(* reservation, the bound of one whose charge is still unknown.            *)
(***************************************************************************)
Counted(row) ==
  CASE row.status = "settled" -> row.spent
    [] row.status \in {"reserved", "ambiguous"} -> row.reserved
    [] OTHER -> 0

(* The SUM over the rows: the size of the set of counted micro-dollars.    *)
SumOf(f) == Cardinality(UNION {{r} \X (1 .. f[r]) : r \in Requests})

Exposure == SumOf([r \in Requests |-> Counted(ledger[r])])

Reserve(r, amount) ==
  /\ ledger[r].status = "none"
  /\ Exposure + amount <= Budget
  /\ ledger' = [ledger EXCEPT ![r] =
                  [status |-> "reserved", reserved |-> amount, spent |-> 0]]

(* Mutant: a released reservation can be flagged and settled again.        *)
UnsettledOrReleased == {"reserved", "ambiguous", "released"}

Unsettled == {"reserved", "ambiguous"}

(* _update_reservation: the guarded UPDATE behind the three ways to close  *)
(* or flag a reservation.                                                  *)
UpdateReservation(r, status, spent) ==
  /\ ledger[r].status \in Unsettled
  /\ ledger' = [ledger EXCEPT ![r].status = status, ![r].spent = spent]

MarkCostAmbiguous(r) == UpdateReservation(r, "ambiguous", ledger[r].spent)
SettleCost(r, spent) == UpdateReservation(r, "settled", spent)
ReleaseCost(r)       == UpdateReservation(r, "released", ledger[r].spent)

(* The ledger after the requests of R have been flagged from inside a job  *)
(* transaction: only a reservation still 'reserved' changes.               *)
Flagged(R) ==
  [r \in Requests |->
     IF r \in R /\ ledger[r].status = "reserved"
     THEN [ledger[r] EXCEPT !.status = "ambiguous"]
     ELSE ledger[r]]

LedgerNext ==
  \E r \in Requests :
    \/ \E amount \in Amounts : Reserve(r, amount)
    \/ MarkCostAmbiguous(r)
    \/ \E spent \in Charges : SettleCost(r, spent)
    \/ ReleaseCost(r)

-----------------------------------------------------------------------------
(* By how much the charges settled above their reservation exceed it.      *)
Excess(row) ==
  IF row.status = "settled" /\ row.spent > row.reserved THEN row.spent - row.reserved ELSE 0

Overrun == SumOf([r \in Requests |-> Excess(ledger[r])])

(* However reservations, settlements, releases and flags from failing jobs *)
(* interleave, the exposure exceeds the budget by no more than what        *)
(* charges exceeded their own reservations: no sequence of calls hides an  *)
(* unknown charge from reserve_cost's sum (storage.py reserve_cost).       *)
BudgetRespected == Exposure <= Budget + Overrun
=============================================================================
