--------------------------------- MODULE Ledger --------------------------------
(***************************************************************************)
(* What the lock tests promise: every deposit, withdrawal and sale is one   *)
(* indivisible update of the value it is about.                             *)
(***************************************************************************)
EXTENDS Integers

CONSTANTS Workers,     \* the blocks dispatched by moneyTest and ticketsTest
          Op,          \* the method each of them calls
          Rounds       \* how often it calls it

VARIABLES account,     \* account["money"], account["tickets"]
          left         \* calls each worker still has to make

Ops == {"saveMoney", "drawMoney", "saleTickets"}
Values == {"money", "tickets"}

ValueOf(o) == IF o = "saleTickets" THEN "tickets" ELSE "money"
Delta(o) == CASE o = "saveMoney" -> 50 [] o = "drawMoney" -> -20 [] o = "saleTickets" -> -1

LedgerInit ==
  /\ account = [v \in Values |-> IF v = "money" THEN 100 ELSE 15]
  /\ left = [w \in Workers |-> Rounds]

Update(w) ==
  /\ left[w] > 0
  /\ left' = [left EXCEPT ![w] = @ - 1]
  /\ account' = [account EXCEPT ![ValueOf(Op[w])] = @ + Delta(Op[w])]

LedgerNext == \E w \in Workers : Update(w)

LedgerSpec == LedgerInit /\ [][LedgerNext]_<<account, left>>
===============================================================================
