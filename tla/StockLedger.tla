---------------------------- MODULE StockLedger -----------------------------
(***************************************************************************)
(* Requests that move stock at the same time (stock_service.py and its     *)
(* callers).  A request reads the document it acts on, then moves stock    *)
(* shelf by shelf: each balance row is locked, or inserted when there is   *)
(* none, and stays locked until the request commits.  The document itself, *)
(* and the running total of an order line, are read without a lock.        *)
(***************************************************************************)
EXTENDS Integers, Sequences, FiniteSets

CONSTANTS Cells, Requests, Moves, Workers,
          Documents,   \* requests that carry out a document: an adjustment to
                       \* post, a return to dispatch; the others record new facts
          Receipts,    \* requests that add to the total of the order line
          MaxCommits   \* bound: the commits of one request

ASSUME LedgerAssumption ==
  /\ Documents \subseteq Requests /\ Receipts \subseteq Requests
  /\ MaxCommits \in Nat
  /\ \A r \in Requests : Moves[r] \in Seq([cell : Cells, quantity : Int])

VARIABLES balance,    \* committed stock_balances rows, -1 when there is none
          movements,  \* the sum of the committed stock_movements, per cell
          done,       \* how often each request has committed
          total,      \* received_quantity of the order line
          working

\* History, which no guard reads.
VARIABLES unread,     \* per worker: the requests others committed since its own began
          overtaken   \* the requests that committed over what they had not read

ledgerHistory == <<unread, overtaken>>
ledgerVars == <<balance, movements, done, total, working, ledgerHistory>>

NoRow == -1
OnHand == [c \in Cells |-> IF balance[c] = NoRow THEN 0 ELSE balance[c]]

Book == INSTANCE StockBook WITH onHand <- OnHand, recorded <- movements

AtRest == [request |-> "none", step |-> 1, mine |-> [c \in {} |-> 0],
         missed |-> FALSE, totalRead |-> 0]

LedgerInit ==
  /\ balance = [c \in Cells |-> NoRow]
  /\ movements = [c \in Cells |-> 0]
  /\ done = [r \in Requests |-> 0]
  /\ total = 0
  /\ working = [s \in Workers |-> AtRest]
  /\ unread = [s \in Workers |-> {}]
  /\ overtaken = {}

Active(s) == working[s] # AtRest
Plan(s) == Moves[working[s].request]
NextMove(s) == Plan(s)[working[s].step]
Pending(s) == Active(s) /\ working[s].step <= Len(Plan(s))

\* Mutant: the balance is read without with_for_update.
HeldByNobody(s, c) == FALSE

\* Another transaction has locked, or inserted, the row.
HeldByOther(s, c) == \E t \in Workers \ {s} : c \in DOMAIN working[t].mine

\* Mutant: the state of the document is not looked at.
BeginUnchecked(s, r) ==
  /\ working[s] = AtRest
  /\ done[r] < MaxCommits
  /\ working' = [working EXCEPT ![s] = [AtRest EXCEPT !.request = r, !.totalRead = total]]
  /\ unread' = [unread EXCEPT ![s] = {}]
  /\ UNCHANGED <<balance, movements, done, total, overtaken>>

\* The document is loaded, and its state checked; so is the order line.
Begin(s, r) ==
  /\ working[s] = AtRest
  /\ r \in Documents => done[r] = 0
  /\ done[r] < MaxCommits
  /\ working' = [working EXCEPT ![s] = [AtRest EXCEPT !.request = r, !.totalRead = total]]
  /\ unread' = [unread EXCEPT ![s] = {}]
  /\ UNCHANGED <<balance, movements, done, total, overtaken>>

\* Mutant: a request that fails keeps its transaction open.
RollbackForgotten(s) == UNCHANGED ledgerVars

\* Mutant: the total of the order line is kept when the request fails.
RollbackKeepsTotal(s) ==
  /\ working' = [working EXCEPT ![s] = AtRest]
  /\ total' = IF working[s].request \in Receipts THEN working[s].totalRead + 1 ELSE total
  /\ UNCHANGED <<balance, movements, done, ledgerHistory>>

RollbackMoves(s) ==
  /\ working' = [working EXCEPT ![s] = AtRest]
  /\ UNCHANGED <<balance, movements, done, total, ledgerHistory>>

\* The movement and the new balance, or InsufficientStock and nothing at all.
Post(s, onHand) ==
  LET m == NextMove(s) IN
  IF onHand + m.quantity < 0 THEN RollbackMoves(s)
  ELSE /\ working' = [working EXCEPT ![s] =
            [working[s] EXCEPT
               !.mine = [c \in DOMAIN @ \cup {m.cell} |->
                           IF c = m.cell THEN onHand + m.quantity ELSE @[c]],
               !.step = working[s].step + 1, !.missed = FALSE]]
       /\ UNCHANGED <<balance, movements, done, total, ledgerHistory>>

\* _locked_balance: the row is there, or was touched by this request before.
MoveRow(s) ==
  /\ Pending(s) /\ ~working[s].missed
  /\ LET c == NextMove(s).cell IN
       \/ c \in DOMAIN working[s].mine /\ Post(s, working[s].mine[c])
       \/ /\ c \notin DOMAIN working[s].mine
          /\ balance[c] # NoRow /\ ~HeldByOther(s, c)
          /\ Post(s, balance[c])

\* No committed row is seen: one is going to be inserted.
MissRow(s) ==
  /\ Pending(s) /\ ~working[s].missed
  /\ NextMove(s).cell \notin DOMAIN working[s].mine
  /\ balance[NextMove(s).cell] = NoRow
  /\ working' = [working EXCEPT ![s].missed = TRUE]
  /\ UNCHANGED <<balance, movements, done, total, ledgerHistory>>

\* The insert waits for another one of the same key; when that one committed,
\* the unique constraint fails this one.
InsertRow(s) ==
  /\ Pending(s) /\ working[s].missed
  /\ IF balance[NextMove(s).cell] # NoRow THEN RollbackMoves(s)
     ELSE ~HeldByOther(s, NextMove(s).cell) /\ Post(s, 0)

\* The document was carried out, or its order line received against, since the
\* request of this worker read it.
Overtaken(s) ==
  LET r == working[s].request IN
    \/ r \in Documents /\ r \in unread[s]
    \/ r \in Receipts /\ unread[s] \cap Receipts # {}

CommitMoves(s) ==
  /\ Active(s) /\ ~Pending(s)
  /\ LET mine == working[s].mine  r == working[s].request IN
       /\ balance' = [c \in Cells |-> IF c \in DOMAIN mine THEN mine[c] ELSE balance[c]]
       /\ movements' = [c \in Cells |-> movements[c] + Book!Delta(r, c)]
       /\ done' = [done EXCEPT ![r] = @ + 1]
       /\ total' = IF r \in Receipts THEN working[s].totalRead + 1 ELSE total
       /\ unread' = [t \in Workers |-> IF t = s THEN {} ELSE unread[t] \cup {r}]
       /\ overtaken' = overtaken \cup IF Overtaken(s) THEN {r} ELSE {}
  /\ working' = [working EXCEPT ![s] = AtRest]

WaitsFor(s, t) ==
  /\ Pending(s) /\ s # t
  /\ NextMove(s).cell \in DOMAIN working[t].mine
  /\ NextMove(s).cell \notin DOMAIN working[s].mine

\* PostgreSQL ends one of two transactions that wait for each other.
DeadlockBroken(s) ==
  /\ \E t \in Workers : WaitsFor(s, t) /\ WaitsFor(t, s)
  /\ RollbackMoves(s)

\* The worker dies, or anything else in the request raises.
RequestDies(s) == Active(s) /\ RollbackMoves(s)

LedgerNext ==
  \E s \in Workers :
    \/ \E r \in Requests : Begin(s, r)
    \/ MoveRow(s) \/ MissRow(s) \/ InsertRow(s) \/ CommitMoves(s)
    \/ DeadlockBroken(s) \/ RequestDies(s)

LedgerSpec == LedgerInit /\ [][LedgerNext]_ledgerVars

\* A request that started goes on; the database grants a lock to those that
\* wait for it in turn, and breaks deadlocks.
LedgerFairness ==
  \A s \in Workers :
    /\ SF_ledgerVars(MoveRow(s) \/ InsertRow(s))
    /\ WF_ledgerVars(MissRow(s) \/ CommitMoves(s) \/ DeadlockBroken(s))

FairLedgerSpec == LedgerSpec /\ LedgerFairness

-----------------------------------------------------------------------------
(* Properties.                                                             *)

WorkRecords == [request : Requests \cup {"none"}, step : Nat \ {0},
                mine : UNION {[C -> Nat] : C \in SUBSET Cells},
                missed : BOOLEAN, totalRead : Nat]

\* Rows and sessions hold values of their kind: no shelf holds less than nothing.
LedgerTypeOK ==
  /\ balance \in [Cells -> Nat \cup {NoRow}] /\ movements \in [Cells -> Int]
  /\ done \in [Requests -> Nat] /\ total \in Nat
  /\ working \in [Workers -> WorkRecords]
  /\ unread \in [Workers -> SUBSET Requests] /\ overtaken \subseteq Requests

\* stock_service.py:10-26: however requests interleave, each moves all of its
\* stock or none, no shelf goes below nothing, and no movement is lost from a
\* balance.
StockIsALedger == Book!BookSpec

\* A request that started ends: requests that lock shelves in opposite orders,
\* or insert the same row, do not wait for each other forever.
EveryRequestEnds == \A s \in Workers : Active(s) ~> ~Active(s)

\* inventory_adjustment_service.py:239-243, a submitted adjustment is approved
\* and posted once; vendor_return_service.py:205-209, so is a return dispatched.
\* Requests that overlap may break it.
DocumentsOnce == \A r \in Documents : done[r] <= 1

\* The receipts that have committed, one by one.
Counted ==
  {x \in Receipts \X (1..(MaxCommits + Cardinality(Workers))) : x[2] <= done[x[1]]}

\* goods_receipt_service.py:116-117: the running total on the order line is what
\* the match reads, so it never has to replay every receipt.  Requests that
\* overlap may break it.
TotalIsReceipts == total = Cardinality(Counted)

\* The same of every interleaving: a document is posted once, and the total on the
\* order line is what was received, unless a request committed over a posting of
\* that document, or over a receipt against that line, which came after it had
\* read them.  Requests that wait for each other's shelves, fail on a short or
\* missing row, are broken out of a deadlock or die do neither any harm, nor does
\* whatever overlaps on the shelves alone.
BookedOnceUnlessOvertaken ==
  /\ \A r \in Documents \ overtaken : done[r] <= 1
  /\ Receipts \cap overtaken = {} => TotalIsReceipts

\* Overlapping requests may each carry out a document they all found open, but
\* nothing that begins later does: no more than there are workers.
DocumentPerWorker == \A r \in Documents : done[r] <= Cardinality(Workers)

\* Overlapping receipts may lose an addition, but make none up: the match never
\* reads more than was received.
TotalWithinReceipts == total <= Cardinality(Counted)

\* What the overlap of requests cannot do: repeat a document without end, or make
\* up a receipt.
DocumentsBounded == DocumentPerWorker /\ TotalWithinReceipts

=============================================================================
