------------------------------ MODULE StockBook -----------------------------
(***************************************************************************)
(* What the stock ledger promises (stock_service.py:1-26): a request moves *)
(* all of its stock or none, no shelf holds less than nothing, and the     *)
(* balance kept for a shelf is the sum of the movements recorded for it.   *)
(***************************************************************************)
EXTENDS Integers, Sequences, Functions

CONSTANTS Cells,     \* pairs of an item and a location
          Requests,
          Moves      \* what each request moves: a sequence of [cell, quantity]

VARIABLES onHand, recorded

BookInit ==
  /\ onHand = [c \in Cells |-> 0]
  /\ recorded = [c \in Cells |-> 0]

\* What each move of a request does to a cell, and what they do together.
Changes(r, c) ==
  [i \in DOMAIN Moves[r] |-> IF Moves[r][i].cell = c THEN Moves[r][i].quantity ELSE 0]

Delta(r, c) == SumFunctionOnSet(Changes(r, c), DOMAIN Moves[r])

PostAll(r) ==
  /\ onHand' = [c \in Cells |-> recorded[c] + Delta(r, c)]
  /\ \A c \in Cells : onHand'[c] >= 0
  /\ recorded' = onHand'

BookSpec == BookInit /\ [][\E r \in Requests : PostAll(r)]_<<onHand, recorded>>

=============================================================================
