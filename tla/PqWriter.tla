-------------------------------- MODULE PqWriter --------------------------------
(***************************************************************************)
(* handlerpq: each message becomes SQL statements, which execSQL() runs in one    *)
(* transaction over a connection of its own.  Anything that fails gives up the    *)
(* transaction, and the message.  PostgreSQL is external: a statement that fails   *)
(* has done nothing, PQfinish() rolls back, and an END may commit although its     *)
(* answer is lost.                                                            *)
(***************************************************************************)
EXTENDS Sink

ASSUME FieldsAssumption == \A m \in Messages : m.fields \in Nat

VARIABLES
    mode,  \* -m: "sql" one row, "sql2" one row per field, "none" any other
    txn,   \* how many statements the open transaction has done
    table  \* how many rows of each message are in the database

pqVars == <<mode, txn, table>>

PqInit(m) == mode = m /\ txn = 0 /\ table = [m0 \in Messages |-> 0]

\* toStringInsert() gives one statement, toStringInsert2() one for each field.
Statements(m) ==
    CASE mode = "sql" -> 1
      [] mode = "sql2" -> m.fields
      [] OTHER -> 0

pqwriter_run ==
    /\ \/ Receive("pqwriter", "connect", {"good"})
       \/ ReceiveFails("pqwriter")
       \/ Leave("pqwriter")
    /\ UNCHANGED pqVars

\* A failure anywhere: PQfinish().
GivesUp == Fault /\ Goes("loop") /\ txn' = 0 /\ UNCHANGED <<mode, table>>

dbconnect ==
    /\ At("pqwriter", "connect")
    /\ \/ NoFault /\ Goes("begin") /\ UNCHANGED pqVars
       \/ GivesUp

Begin ==
    /\ At("pqwriter", "begin")
    /\ \/ NoFault /\ Goes("exec") /\ txn' = 0 /\ UNCHANGED <<mode, table>>
       \/ GivesUp

\* Wrong on purpose: each statement is a transaction of its own, as in pqdumper.cpp.
Exec_Alone ==
    /\ At("pqwriter", "exec") /\ txn < Statements(msg)
    /\ \/ NoFault /\ Goes("exec") /\ txn' = txn + 1
          /\ table' = [table EXCEPT ![msg] = @ + 1] /\ UNCHANGED mode
       \/ GivesUp

Exec ==
    /\ At("pqwriter", "exec") /\ txn < Statements(msg)
    /\ \/ NoFault /\ Goes("exec") /\ txn' = txn + 1 /\ UNCHANGED <<mode, table>>
       \/ GivesUp

Committed == table' = [table EXCEPT ![msg] = @ + txn] /\ txn' = 0 /\ UNCHANGED mode

End ==
    /\ At("pqwriter", "exec") /\ txn = Statements(msg)
    /\ \/ NoFault /\ Goes("loop") /\ Committed
       \/ Fault /\ Goes("loop") /\ Committed
       \/ GivesUp

PqStep == pqwriter_run \/ dbconnect \/ Begin \/ Exec \/ End

(***************************************************************************)
(* A message is in the database as a whole and once, or not at all, whichever    *)
(* statement, connection or answer is lost and although nothing tells the        *)
(* program whether a commit whose answer is lost took place.  (pqwriter.cpp       *)
(* 79-104)                                                                   *)
(***************************************************************************)
WholeMessages == sink = "pqwriter" => \A m \in Messages : table[m] \in {0, Statements(m)}
=============================================================================
