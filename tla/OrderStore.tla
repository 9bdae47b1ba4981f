----------------------------- MODULE OrderStore -----------------------------
(***************************************************************************)
(* The order storages: azbot/storage/buntdb.go, in memory or in a file     *)
(* (what a bot uses unless told otherwise), and azbot/storage/sql.go.      *)
(* Each operation is one transaction, hence one action.  The process may   *)
(* end and begin again: a file and an SQL database keep their orders, but  *)
(* Bunt counts its identifiers in the process.                             *)
(***************************************************************************)
EXTENDS Integers, SequencesExt, FiniteSetsExt

CONSTANTS
  Kinds,        \* the kinds of storage: "memory", "file", "sql"
  MaxRestarts   \* bound: how often the process begins again

ASSUME KindAssumption ==
  Kinds \subseteq {"memory", "file", "sql"} /\ MaxRestarts \in Nat

VARIABLES
  kind,       \* the storage the bot uses
  content,    \* the stored orders, by their identifier
  lastID,     \* Bunt.lastID
  table,      \* history: what should be stored, by the exchange's identifier
  restarts

storage == <<kind, content, lastID, table, restarts>>

Empty == [id \in {} |-> 0]

StoreInit ==
  kind \in Kinds /\ content = Empty /\ lastID = 0 /\ table = Empty /\ restarts = 0

With(f, key, value) == [k \in DOMAIN f \cup {key} |-> IF k = key THEN value ELSE f[k]]

(* Mutant: the last identifier, not the one after it.                      *)
NewIDMutant == IF kind = "sql" THEN Max(DOMAIN content \cup {0}) ELSE lastID

(* getID, or the database's auto-increment, which skips the used ones.     *)
NewID ==
  IF kind = "sql" THEN 1 + Max(DOMAIN content \cup {0}) ELSE lastID + 1

CreateOrder(o) ==
  /\ content' = With(content, NewID, o)
  /\ lastID' = IF kind = "sql" THEN lastID ELSE NewID
  /\ table' = With(table, o.exchangeID, o)
  /\ UNCHANGED <<kind, restarts>>

(* UpdateOrder, for each of the orders that a poll found to be changed.    *)
UpdateOrders(changed) ==
  /\ content' = [id \in DOMAIN content |-> IF id \in DOMAIN changed THEN changed[id]
                                            ELSE content[id]]
  /\ table' = [e \in DOMAIN table |->
                 IF \E id \in DOMAIN changed : changed[id].exchangeID = e
                 THEN changed[CHOOSE id \in DOMAIN changed : changed[id].exchangeID = e]
                 ELSE table[e]]
  /\ UNCHANGED <<kind, lastID, restarts>>

(* newBunt, FromSQL                                                        *)
Restart ==
  /\ restarts < MaxRestarts
  /\ restarts' = restarts + 1
  /\ lastID' = 0 /\ UNCHANGED kind
  /\ IF kind = "memory" THEN content' = Empty /\ table' = Empty
                        ELSE UNCHANGED <<content, table>>

-----------------------------------------------------------------------------
(* Orders.                                                                 *)

(* Bunt's index orders times as the strings they are written as.  A time   *)
(* is a number of half seconds; within a second, the string of the whole   *)
(* one, which has no fraction, comes last (in UTC: "Z" is after ".").      *)
Indexed(time) == 2 * (time \div 2) + 1 - (time % 2)

(* Bunt answers in the order of its index, SQL in that of its keys.        *)
Before(orders, a, b) ==
  IF kind = "sql" \/ orders[a].updated = orders[b].updated THEN a < b
  ELSE Indexed(orders[a].updated) < Indexed(orders[b].updated)

(* The identifiers that the filters let through, in the storage's order.   *)
Orders(orders, filtered) ==
  LET Rank(a) == Cardinality({b \in filtered : Before(orders, b, a)})
  IN  [i \in 1..Cardinality(filtered) |-> CHOOSE a \in filtered : Rank(a) = i - 1]

-----------------------------------------------------------------------------

(* Orders() answers every order created, once and as it was last written,  *)
(* however the creations, updates and restarts follow each other.          *)
Complete ==
  /\ \A e \in DOMAIN table :
       Cardinality({id \in DOMAIN content : content[id].exchangeID = e}) = 1
  /\ \A id \in DOMAIN content :
       content[id].exchangeID \in DOMAIN table /\ content[id] = table[content[id].exchangeID]

=============================================================================
