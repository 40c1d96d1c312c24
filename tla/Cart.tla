-------------------------------- MODULE Cart --------------------------------
(***************************************************************************)
(* A customer's cart in order-service under overlapping requests: AddItem, *)
(* UpdateItemQuantity, RemoveItem and Checkout each find the cart first    *)
(* and write later, in statements of their own; only RemoveItem's writes   *)
(* and Checkout's are transactions.  A quantity is the set of the requests *)
(* that make it up, so that what is asked for can be followed.             *)
(***************************************************************************)
EXTENDS Naturals

CONSTANTS Requests,  \* the customer's requests in flight
          Menus,     \* each restaurant as the set of its order lines
          MaxIds     \* ids handed out, to carts and to requests

VARIABLES
  cart,      \* the row of carts: id and restaurant, or NoCart
  rows,      \* its rows of cart_items
  orders,    \* the orders made of it and its predecessors
  requests,  \* each request with what it found
  next,      \* the next id
  owed,      \* history: what the customer asked for, undisturbed, and did not take back
  slips      \* history: what may have left an empty cart behind

vars == <<cart, rows, orders, requests, next, owed, slips>>

Lines == UNION Menus
Ids   == 0..MaxIds + 1

(* Sizes and extras make different lines of one pizza.                     *)
Row     == [id : Ids, line : Lines, adds : (SUBSET Ids) \ {{}}]
Request == [pc : {"idle", "create", "merge", "update", "remove", "counted", "checkout"},
            cart : Ids, item : Ids, last : BOOLEAN, lines : SUBSET Lines, adds : SUBSET Ids]
Order   == [cart : Ids, lines : SUBSET Lines, adds : SUBSET Ids]

ASSUME CartAssumption ==
  /\ MaxIds \in Nat
  /\ \A m, n \in Menus : m # n => m \cap n = {}

NoCart == [id |-> 0, menu |-> {}]
Idle   == [pc |-> "idle", cart |-> 0, item |-> 0, last |-> FALSE, lines |-> {}, adds |-> {}]

MenuOf(p) == CHOOSE m \in Menus : p \in m
Adds(rs)  == UNION {x.adds : x \in rs}

TypeOK ==
  /\ cart \in [id : Ids, menu : Menus \cup {{}}]
  /\ rows \in SUBSET Row
  /\ orders \in SUBSET Order
  /\ requests \in [Requests -> Request]
  /\ next \in Ids \ {0}
  /\ owed \in SUBSET Ids
  /\ slips \in SUBSET {"abandoned", "joint"}

Init ==
  /\ cart = NoCart
  /\ rows = {}
  /\ orders = {}
  /\ requests = [r \in Requests |-> Idle]
  /\ next = 1
  /\ owed = {}
  /\ slips = {}

-----------------------------------------------------------------------------
(* FindByCustomer, by which every request begins.                          *)
Begin(r, pc, item, lines, adds) ==
  /\ requests[r].pc = "idle"
  /\ requests' = [requests EXCEPT ![r] =
       [pc |-> pc, cart |-> cart.id, item |-> item, last |-> FALSE, lines |-> lines, adds |-> adds]]
  /\ UNCHANGED <<cart, rows, orders, next, owed, slips>>

End(r) == requests' = [requests EXCEPT ![r] = Idle]

Fresh == next <= MaxIds /\ next' = next + 1

(* A removal in its transaction holds the row it deletes.                  *)
Removing(i) == \E o \in Requests : requests[o].pc = "counted" /\ requests[o].item = i

(* Whoever deletes the cart waits for those rows, which go with it.        *)
Waits(r) == \E o \in Requests \ {r} : requests[o].pc = "counted" /\ requests[o].cart = cart.id

DropCart == cart' = NoCart /\ rows' = {}

(* Somebody has already decided on what is in the cart.                    *)
Decided ==
  \E o \in Requests : /\ requests[o].cart = cart.id
                      /\ requests[o].pc = "checkout" \/ (requests[o].pc = "counted" /\ requests[o].last)

Owe(o) == owed' = IF Decided THEN o ELSE o \cup {next}

(* AddItem: finds the cart and checks its restaurant, creates a missing    *)
(* one, adds the line.  The unique customer_id and the foreign key of      *)
(* cart_items refuse what came too late.                                   *)
AddItem(r, p) ==
  /\ cart = NoCart \/ cart.menu = MenuOf(p)
  /\ Begin(r, IF cart = NoCart THEN "create" ELSE "merge", 0, {p}, {})

CreateCart(r) ==
  /\ requests[r].pc = "create"
  /\ cart = NoCart
  /\ Fresh
  /\ \E p \in requests[r].lines : cart' = [id |-> next, menu |-> MenuOf(p)]
  /\ requests' = [requests EXCEPT ![r] =
       [pc |-> "merge", cart |-> next, item |-> 0, last |-> FALSE,
        lines |-> requests[r].lines, adds |-> {}]]
  /\ UNCHANGED <<rows, orders, owed, slips>>

(* The line goes to whatever cart the customer has now.                    *)
InCart_anyCart(r) == cart # NoCart

InCart(r) == cart # NoCart /\ cart.id = requests[r].cart

AddOrMergeItem(r) ==
  /\ requests[r].pc = "merge" /\ InCart(r)
  /\ Fresh
  /\ \E p \in requests[r].lines :
       \/ /\ \A x \in rows : x.line # p
          /\ rows' = rows \cup {[id |-> next, line |-> p, adds |-> {next}]}
       \/ \E x \in rows :
            /\ x.line = p /\ ~Removing(x.id)
            /\ rows' = (rows \ {x}) \cup {[id |-> x.id, line |-> p, adds |-> x.adds \cup {next}]}
  /\ Owe(owed)
  /\ End(r)
  /\ UNCHANGED <<cart, orders, slips>>

UpdateItemQuantity(r) ==
  /\ requests[r].pc = "update" /\ InCart(r)
  /\ Fresh
  /\ \E x \in rows :
       /\ x.id = requests[r].item /\ ~Removing(x.id)
       /\ rows' = (rows \ {x}) \cup {[id |-> x.id, line |-> x.line, adds |-> {next}]}
       /\ Owe(owed \ x.adds)
  /\ End(r)
  /\ UNCHANGED <<cart, orders, slips>>

(* Every removal takes the cart to be empty.                               *)
IsLast_always(i) == TRUE

(* What is left is counted as others' open transactions left it.           *)
IsLast(i) == \A x \in rows : x.id = i

(* RemoveItem's transaction: delete the row, count the rest, and delete    *)
(* the cart when nothing is left.                                          *)
RemoveAndCount(r) ==
  /\ requests[r].pc = "remove" /\ InCart(r)
  /\ \E x \in rows : x.id = requests[r].item
  /\ ~Removing(requests[r].item)
  /\ requests' = [requests EXCEPT ![r] =
       [pc |-> "counted", cart |-> requests[r].cart, item |-> requests[r].item,
        last |-> IsLast(requests[r].item), lines |-> {}, adds |-> {}]]
  /\ slips' = IF Waits(r) THEN slips \cup {"joint"} ELSE slips
  /\ UNCHANGED <<cart, rows, orders, next, owed>>

(* The empty cart stays.                                                   *)
RemoveCommit_keepsCart(r) ==
  /\ requests[r].pc = "counted"
  /\ rows' = {x \in rows : x.id # requests[r].item}
  /\ owed' = owed \ Adds({x \in rows : x.id = requests[r].item})
  /\ End(r)
  /\ UNCHANGED <<cart, orders, next, slips>>

RemoveCommit(r) ==
  /\ requests[r].pc = "counted"
  /\ \/ requests[r].last /\ ~Waits(r) /\ DropCart
     \/ ~requests[r].last /\ rows' = {x \in rows : x.id # requests[r].item} /\ UNCHANGED cart
  /\ owed' = owed \ Adds({x \in rows : x.id = requests[r].item})
  /\ End(r)
  /\ UNCHANGED <<orders, next, slips>>

(* Only a cart that is still as it was read is cleared.                    *)
Clear_ifUnchanged(r) ==
  \/ InCart(r) /\ Adds(rows) = requests[r].adds /\ ~Waits(r) /\ DropCart
  \/ Adds(rows) # requests[r].adds /\ UNCHANGED <<cart, rows>>

Clear(r) ==
  \/ InCart(r) /\ ~Waits(r) /\ DropCart
  \/ ~InCart(r) /\ UNCHANGED <<cart, rows>>

(* Checkout's transaction: the order has the lines that were read, the     *)
(* cart goes with all it has by now, if it is still there.                 *)
CheckoutCommit(r) ==
  /\ requests[r].pc = "checkout"
  /\ orders' = orders \cup
        {[cart |-> requests[r].cart, lines |-> requests[r].lines, adds |-> requests[r].adds]}
  /\ Clear(r)
  /\ End(r)
  /\ UNCHANGED <<next, owed, slips>>

(* A check that fails, a refused or failed statement, a crash.             *)
Fail(r) ==
  /\ requests[r].pc # "idle"
  /\ slips' = IF requests[r].pc = "merge" THEN slips \cup {"abandoned"} ELSE slips
  /\ End(r)
  /\ UNCHANGED <<cart, rows, orders, next, owed>>

Next == \E r \in Requests :
  \/ \E p \in Lines : AddItem(r, p)
  \/ CreateCart(r)
  \/ AddOrMergeItem(r)
  \/ \E x \in rows : Begin(r, "update", x.id, {}, {}) \/ Begin(r, "remove", x.id, {}, {})
  \/ UpdateItemQuantity(r)
  \/ RemoveAndCount(r)
  \/ RemoveCommit(r)
  \/ rows # {} /\ Begin(r, "checkout", 0, {x.line : x \in rows}, Adds(rows))
  \/ CheckoutCommit(r)
  \/ Fail(r)

Spec == Init /\ [][Next]_vars

-----------------------------------------------------------------------------
(* A cart, and so an order, has lines of one restaurant only, although     *)
(* AddItem checks a cart that may be gone, and another in its place, when  *)
(* the line is written.                                                    *)
OneRestaurant ==
  /\ \A x \in rows : x.line \in cart.menu
  /\ \A o \in orders : o.lines # {} /\ \E m \in Menus : o.lines \subseteq m

(* A cart that was ordered is gone, whatever was added to it meanwhile:    *)
(* only a Checkout that had found it before can order it again.            *)
BoughtIsGone == \A o \in orders : o.cart # cart.id

(* What the customer asks for while no Checkout and no removal of the last *)
(* line is under way is ordered or still in the cart, until the customer   *)
(* changes or removes it.  (An item added meanwhile may be swept away with *)
(* the cart, although AddItem has answered that it is there.)              *)
AcceptedStays == owed \subseteq Adds(rows) \cup UNION {o.adds : o \in orders}

(* docs/services/order.md means a missing and an empty cart to be the same *)
(* state: an empty cart binds the customer to its restaurant.  One that no *)
(* AddItem is about to fill was left by an AddItem that failed, or by two  *)
(* removals that counted one another's rows.                               *)
EmptyCartHasReason ==
  cart # NoCart /\ rows = {} =>
    slips # {} \/ \E r \in Requests : requests[r].pc = "merge" /\ requests[r].cart = cart.id
=============================================================================
