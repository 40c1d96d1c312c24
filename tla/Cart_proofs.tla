---------------------------- MODULE Cart_proofs ----------------------------
(***************************************************************************)
(* What Cart promises, for every set of requests, every set of disjoint    *)
(* menus and every number of ids.                                          *)
(***************************************************************************)
EXTENDS Cart, TLAPS

(* Ids are handed out once.                                                *)
IdsKnown ==
  /\ cart.id < next
  /\ \A r \in Requests : requests[r].cart < next
  /\ \A o \in orders : o.cart # 0 /\ o.cart < next
  /\ \A t \in owed : t < next

CartShape ==
  /\ cart = NoCart \/ (cart.id # 0 /\ cart.menu \in Menus)
  /\ cart = NoCart => rows = {}

(* What a request found still holds of the cart it found; a cart that a    *)
(* removal has counted stays until the removal ends.                       *)
RequestShape ==
  \A r \in Requests :
    /\ requests[r].pc \in {"create", "merge"} => \E p \in Lines : requests[r].lines = {p}
    /\ requests[r].pc \in {"merge", "counted", "checkout"} => requests[r].cart # 0
    /\ requests[r].pc = "merge" /\ requests[r].cart = cart.id => requests[r].lines \subseteq cart.menu
    /\ requests[r].pc = "counted" => requests[r].cart = cart.id
    /\ requests[r].pc = "checkout" =>
         requests[r].lines # {} /\ \E m \in Menus : requests[r].lines \subseteq m

(* What came to the cart after somebody decided on it is not owed.         *)
DecidedIsNotOwed ==
  \A r \in Requests :
    requests[r].cart = cart.id =>
      /\ requests[r].pc = "counted" /\ requests[r].last =>
           \A x \in rows : x.id # requests[r].item => x.adds \cap owed = {}
      /\ requests[r].pc = "checkout" => Adds(rows) \cap owed \subseteq requests[r].adds

(* While no two removals have overlapped, one that counted another line    *)
(* leaves it there.                                                        *)
CountIsRight ==
  slips = {} =>
    /\ \A r, o \in Requests : requests[r].pc = "counted" /\ requests[o].pc = "counted" => r = o
    /\ \A r \in Requests : requests[r].pc = "counted" /\ ~requests[r].last =>
         \E x \in rows : x.id # requests[r].item

Inv ==
  /\ TypeOK /\ IdsKnown /\ CartShape /\ RequestShape
  /\ OneRestaurant /\ BoughtIsGone
  /\ DecidedIsNotOwed /\ AcceptedStays
  /\ CountIsRight /\ EmptyCartHasReason

LEMMA MenuFacts ==
  ASSUME NEW p \in Lines
  PROVE  MenuOf(p) \in Menus /\ p \in MenuOf(p)
<1>1. PICK m \in Menus : p \in m
  BY DEF Lines
<1>2. QED
  BY <1>1 DEF MenuOf

LEMMA InitInv == Init => Inv
<1> SUFFICES ASSUME Init PROVE Inv
  OBVIOUS
<1> USE CartAssumption DEF Init, NoCart, Idle
<1>1. TypeOK
  BY DEF TypeOK, Ids, Request
<1>2. IdsKnown /\ CartShape /\ RequestShape
  BY DEF IdsKnown, CartShape, RequestShape
<1>3. OneRestaurant /\ BoughtIsGone /\ AcceptedStays /\ EmptyCartHasReason
  BY DEF OneRestaurant, BoughtIsGone, AcceptedStays, EmptyCartHasReason
<1>4. DecidedIsNotOwed /\ CountIsRight
  BY DEF DecidedIsNotOwed, CountIsRight
<1>5. QED
  BY <1>1, <1>2, <1>3, <1>4 DEF Inv

-----------------------------------------------------------------------------
(* The kinds of step a request can take: it finds the cart, or it writes.  *)
Finds(r) ==
  \/ \E p \in Lines : AddItem(r, p)
  \/ \E x \in rows : Begin(r, "update", x.id, {}, {}) \/ Begin(r, "remove", x.id, {}, {})
  \/ rows # {} /\ Begin(r, "checkout", 0, {x.line : x \in rows}, Adds(rows))

LEMMA Steps ==
  ASSUME Next
  PROVE  \E r \in Requests :
           \/ Finds(r) \/ CreateCart(r) \/ AddOrMergeItem(r) \/ UpdateItemQuantity(r)
           \/ RemoveAndCount(r) \/ RemoveCommit(r) \/ CheckoutCommit(r) \/ Fail(r)
  BY DEF Next, Finds

(* A request that finds the cart takes a place of its own and touches      *)
(* nothing else.                                                           *)
LEMMA FindsFacts ==
  ASSUME Inv, NEW r \in Requests, Finds(r)
  PROVE  \E q \in Request :
           /\ requests[r].pc = "idle"
           /\ requests' = [requests EXCEPT ![r] = q]
           /\ UNCHANGED <<cart, rows, orders, next, owed, slips>>
           /\ q.cart = cart.id
           /\ \/ /\ q.pc \in {"create", "merge"}
                 /\ \E p \in Lines : q.lines = {p}
                 /\ q.pc = "merge" => cart # NoCart /\ q.lines \subseteq cart.menu
              \/ q.pc \in {"update", "remove"}
              \/ /\ q.pc = "checkout" /\ cart # NoCart
                 /\ q.lines # {} /\ q.lines \subseteq cart.menu
                 /\ q.adds = Adds(rows)
<1> DEFINE Q(pc, item, lines, adds) ==
      [pc |-> pc, cart |-> cart.id, item |-> item, last |-> FALSE, lines |-> lines, adds |-> adds]
<1>1. cart.id \in Ids /\ rows \subseteq Row /\ 0 \in Ids
  BY CartAssumption DEF Inv, TypeOK, Ids
<1>2. CASE \E p \in Lines : AddItem(r, p)
  <2>1. PICK p \in Lines : AddItem(r, p)
    BY <1>2
  <2>2. p \in MenuOf(p)
    BY MenuFacts
  <2>3. CASE cart = NoCart
    <3>1. Q("create", 0, {p}, {}) \in Request
      BY <1>1 DEF Request
    <3>2. QED
      BY <2>1, <2>3, <3>1 DEF AddItem, Begin
  <2>4. CASE cart # NoCart
    <3>1. Q("merge", 0, {p}, {}) \in Request
      BY <1>1 DEF Request
    <3>2. QED
      BY <2>1, <2>2, <2>4, <3>1 DEF AddItem, Begin
  <2>5. QED
    BY <2>3, <2>4
<1>3. CASE \E x \in rows : Begin(r, "update", x.id, {}, {}) \/ Begin(r, "remove", x.id, {}, {})
  <2>1. PICK x \in rows : Begin(r, "update", x.id, {}, {}) \/ Begin(r, "remove", x.id, {}, {})
    BY <1>3
  <2>2. Q("update", x.id, {}, {}) \in Request /\ Q("remove", x.id, {}, {}) \in Request
    BY <1>1 DEF Request, Row
  <2>3. QED
    BY <2>1, <2>2 DEF Begin
<1>4. CASE rows # {} /\ Begin(r, "checkout", 0, {x.line : x \in rows}, Adds(rows))
  <2> DEFINE L == {x.line : x \in rows}
  <2>1. L \subseteq Lines /\ Adds(rows) \subseteq Ids
    BY <1>1 DEF Row, Adds
  <2>2. Q("checkout", 0, L, Adds(rows)) \in Request
    BY <1>1, <2>1 DEF Request
  <2>3. cart # NoCart /\ L # {} /\ L \subseteq cart.menu
    BY <1>4 DEF Inv, CartShape, OneRestaurant
  <2>4. QED
    BY <1>4, <2>2, <2>3 DEF Begin
<1>5. QED
  BY <1>2, <1>3, <1>4 DEF Finds

(* What the record of a request can become.                                *)
LEMMA IdleIsRequest == Idle \in Request
  BY CartAssumption DEF Idle, Request, Ids

LEMMA AddsUnion ==
  ASSUME NEW R, NEW x \in R, NEW y
  PROVE  /\ \A t \in Adds(R) : t \in x.adds \/ t \in Adds((R \ {x}) \cup {y})
         /\ Adds((R \ {x}) \cup {y}) \subseteq Adds(R) \cup y.adds
         /\ y.adds \subseteq Adds((R \ {x}) \cup {y})
  BY DEF Adds

(* A line that is added, added to or set has somebody who asked for it.    *)
LEMMA RowFacts ==
  ASSUME NEW p \in Lines, NEW i \in Ids, NEW s \in SUBSET Ids, NEW n \in Ids
  PROVE  [id |-> i, line |-> p, adds |-> {n}] \in Row
         /\ [id |-> i, line |-> p, adds |-> s \cup {n}] \in Row
<1>1. {n} \in (SUBSET Ids) \ {{}} /\ (s \cup {n}) \in (SUBSET Ids) \ {{}}
  OBVIOUS
<1>2. QED
  BY <1>1 DEF Row

-----------------------------------------------------------------------------
(* Every step keeps the types and the order of the ids.                    *)

LEMMA TypeStep ==
  ASSUME Inv, Next
  PROVE  TypeOK'
<1> USE DEF Inv, TypeOK
<1>0. PICK r \in Requests :
        \/ Finds(r) \/ CreateCart(r) \/ AddOrMergeItem(r) \/ UpdateItemQuantity(r)
        \/ RemoveAndCount(r) \/ RemoveCommit(r) \/ CheckoutCommit(r) \/ Fail(r)
  BY Steps
<1>1. requests[r] \in Request /\ Idle \in Request /\ NoCart \in [id : Ids, menu : Menus \cup {{}}]
  BY CartAssumption, IdleIsRequest DEF NoCart, Ids
<1>2. requests[r].cart \in Ids /\ requests[r].item \in Ids /\ 0 \in Ids
      /\ requests[r].lines \subseteq Lines /\ requests[r].adds \subseteq Ids
  BY <1>1, CartAssumption DEF Request, Ids
<1>3. Fresh => next \in Ids /\ next' \in Ids \ {0}
  BY CartAssumption DEF Fresh, Ids
<1>4. CASE Finds(r)
  <2>1. PICK q \in Request :
          /\ requests' = [requests EXCEPT ![r] = q]
          /\ UNCHANGED <<cart, rows, orders, next, owed, slips>>
    BY <1>4, FindsFacts
  <2>2. QED
    BY <2>1
<1>5. CASE CreateCart(r)
  <2>1. PICK p \in requests[r].lines : cart' = [id |-> next, menu |-> MenuOf(p)]
    BY <1>5 DEF CreateCart
  <2>2. MenuOf(p) \in Menus
    BY <2>1, <1>2, MenuFacts
  <2>3. [pc |-> "merge", cart |-> next, item |-> 0, last |-> FALSE,
         lines |-> requests[r].lines, adds |-> {}] \in Request
    BY <1>2, <1>3, <1>5 DEF CreateCart, Request
  <2>4. QED
    BY <2>1, <2>2, <2>3, <1>3, <1>5 DEF CreateCart
<1>6. CASE AddOrMergeItem(r)
  <2>1. owed' \subseteq Ids /\ next' \in Ids \ {0}
    BY <1>3, <1>6 DEF AddOrMergeItem, Owe
  <2>2. \A p \in requests[r].lines : [id |-> next, line |-> p, adds |-> {next}] \in Row
    BY <1>2, <1>3, <1>6, RowFacts DEF AddOrMergeItem
  <2>3. \A x \in rows : x.id \in Ids /\ x.adds \in SUBSET Ids
    BY DEF Row
  <2>4. \A p \in requests[r].lines, x \in rows :
          [id |-> x.id, line |-> p, adds |-> x.adds \cup {next}] \in Row
    BY <2>3, <1>2, <1>3, <1>6, RowFacts DEF AddOrMergeItem
  <2>5. rows' \subseteq Row
    BY <2>2, <2>4, <1>6 DEF AddOrMergeItem
  <2>6. QED
    BY <2>1, <2>5, <1>1, <1>6 DEF AddOrMergeItem, End
<1>7. CASE UpdateItemQuantity(r)
  <2>1. PICK x \in rows :
          /\ rows' = (rows \ {x}) \cup {[id |-> x.id, line |-> x.line, adds |-> {next}]}
          /\ Owe(owed \ x.adds)
    BY <1>7 DEF UpdateItemQuantity
  <2>2. [id |-> x.id, line |-> x.line, adds |-> {next}] \in Row
    <3>1. x.id \in Ids /\ x.line \in Lines
      BY DEF Row
    <3>2. QED
      BY <3>1, <1>3, <1>7, RowFacts DEF UpdateItemQuantity
  <2>3. owed' \subseteq Ids /\ next' \in Ids \ {0}
    BY <2>1, <1>3, <1>7 DEF UpdateItemQuantity, Owe
  <2>4. QED
    BY <2>1, <2>2, <2>3, <1>1, <1>7 DEF UpdateItemQuantity, End
<1>8. CASE RemoveAndCount(r)
  <2>1. [pc |-> "counted", cart |-> requests[r].cart, item |-> requests[r].item,
         last |-> IsLast(requests[r].item), lines |-> {}, adds |-> {}] \in Request
    BY <1>2 DEF Request, IsLast
  <2>2. QED
    BY <2>1, <1>8 DEF RemoveAndCount
<1>9. CASE RemoveCommit(r)
  <2>1. rows' \subseteq Row /\ cart' \in [id : Ids, menu : Menus \cup {{}}] /\ owed' \subseteq Ids
    BY <1>1, <1>9 DEF RemoveCommit, DropCart
  <2>2. QED
    BY <2>1, <1>1, <1>9 DEF RemoveCommit, End
<1>10. CASE CheckoutCommit(r)
  <2>1. rows' \subseteq Row /\ cart' \in [id : Ids, menu : Menus \cup {{}}]
    BY <1>1, <1>10 DEF CheckoutCommit, Clear, DropCart
  <2>2. [cart |-> requests[r].cart, lines |-> requests[r].lines, adds |-> requests[r].adds] \in Order
    BY <1>2 DEF Order
  <2>3. QED
    BY <2>1, <2>2, <1>1, <1>10 DEF CheckoutCommit, End
<1>11. CASE Fail(r)
  BY <1>1, <1>11 DEF Fail, End
<1>12. QED
  BY <1>0, <1>4, <1>5, <1>6, <1>7, <1>8, <1>9, <1>10, <1>11

LEMMA IdsStep ==
  ASSUME Inv, Next
  PROVE  IdsKnown' /\ BoughtIsGone'
<1> USE DEF Inv, IdsKnown, BoughtIsGone
<1>0. PICK r \in Requests :
        \/ Finds(r) \/ CreateCart(r) \/ AddOrMergeItem(r) \/ UpdateItemQuantity(r)
        \/ RemoveAndCount(r) \/ RemoveCommit(r) \/ CheckoutCommit(r) \/ Fail(r)
  BY Steps
<1>1. /\ \A o \in Requests : requests[o] \in Request /\ requests[o].cart \in Nat
      /\ next \in Nat /\ 0 < next /\ cart.id \in Nat
      /\ \A o \in orders : o.cart \in Nat
      /\ owed \subseteq Nat
      /\ requests \in [Requests -> Request]
  BY CartAssumption DEF TypeOK, Request, Ids, Order
<1>2. CASE Finds(r)
  <2>1. PICK q \in Request :
          /\ requests' = [requests EXCEPT ![r] = q] /\ q.cart = cart.id
          /\ UNCHANGED <<cart, rows, orders, next, owed, slips>>
    BY <1>2, FindsFacts
  <2>2. QED
    BY <1>1, <2>1
<1>3. CASE CreateCart(r)
  BY <1>1, <1>3 DEF CreateCart, Fresh
<1>4. CASE AddOrMergeItem(r)
  BY <1>1, <1>4 DEF AddOrMergeItem, Fresh, Owe, End, Idle
<1>5. CASE UpdateItemQuantity(r)
  BY <1>1, <1>5 DEF UpdateItemQuantity, Fresh, Owe, End, Idle
<1>6. CASE RemoveAndCount(r)
  BY <1>1, <1>6 DEF RemoveAndCount
<1>7. CASE RemoveCommit(r)
  BY <1>1, <1>7 DEF RemoveCommit, DropCart, NoCart, End, Idle
<1>8. CASE CheckoutCommit(r)
  <2>1. requests[r].cart # 0
    BY <1>8 DEF RequestShape, CheckoutCommit
  <2>2. cart' = NoCart \/ (cart' = cart /\ (cart = NoCart \/ requests[r].cart # cart.id))
    BY <1>8 DEF CheckoutCommit, Clear, InCart, DropCart
  <2>3. QED
    BY <1>1, <1>8, <2>1, <2>2 DEF CheckoutCommit, NoCart, End, Idle
<1>9. CASE Fail(r)
  BY <1>1, <1>9 DEF Fail, End, Idle
<1>10. QED
  BY <1>0, <1>2, <1>3, <1>4, <1>5, <1>6, <1>7, <1>8, <1>9

-----------------------------------------------------------------------------
(* Every step keeps the cart to one restaurant.                            *)

LEMMA Types ==
  ASSUME Inv
  PROVE  /\ requests \in [Requests -> Request]
         /\ \A r \in Requests : requests[r].cart \in Nat
         /\ next \in Nat /\ 0 < next /\ cart.id \in Nat
  BY CartAssumption DEF Inv, TypeOK, Request, Ids

LEMMA CartStep ==
  ASSUME Inv, Next
  PROVE  CartShape' /\ OneRestaurant'
<1> USE DEF CartShape, OneRestaurant
<1>0. PICK r \in Requests :
        \/ Finds(r) \/ CreateCart(r) \/ AddOrMergeItem(r) \/ UpdateItemQuantity(r)
        \/ RemoveAndCount(r) \/ RemoveCommit(r) \/ CheckoutCommit(r) \/ Fail(r)
  BY Steps
<1>1. CartShape /\ OneRestaurant /\ RequestShape /\ next # 0
  BY Types DEF Inv
<1>2. CASE Finds(r)
  BY <1>1, <1>2, FindsFacts
<1>3. CASE CreateCart(r)
  <2>1. PICK p \in requests[r].lines : cart' = [id |-> next, menu |-> MenuOf(p)]
    BY <1>3 DEF CreateCart
  <2>2. MenuOf(p) \in Menus
    BY <2>1, <1>1, <1>3, MenuFacts DEF RequestShape, CreateCart
  <2>3. QED
    BY <2>1, <2>2, <1>1, <1>3 DEF CreateCart, NoCart
<1>4. CASE AddOrMergeItem(r)
  <2>1. \A p \in requests[r].lines : p \in cart.menu
    BY <1>1, <1>4 DEF AddOrMergeItem, InCart, RequestShape
  <2>2. \A x \in rows' : x.line \in cart.menu
    BY <2>1, <1>1, <1>4 DEF AddOrMergeItem
  <2>3. cart' = cart /\ orders' = orders /\ cart # NoCart
    BY <1>4 DEF AddOrMergeItem, InCart
  <2>4. QED
    BY <2>2, <2>3, <1>1
<1>5. CASE UpdateItemQuantity(r)
  <2>1. \A x \in rows' : x.line \in cart.menu
    BY <1>1, <1>5 DEF UpdateItemQuantity
  <2>2. cart' = cart /\ orders' = orders /\ cart # NoCart
    BY <1>5 DEF UpdateItemQuantity, InCart
  <2>3. QED
    BY <2>1, <2>2, <1>1
<1>6. CASE RemoveAndCount(r)
  BY <1>1, <1>6 DEF RemoveAndCount
<1>7. CASE RemoveCommit(r)
  BY <1>1, <1>7 DEF RemoveCommit, DropCart
<1>8. CASE CheckoutCommit(r)
  <2>1. requests[r].lines # {} /\ \E m \in Menus : requests[r].lines \subseteq m
    BY <1>1, <1>8 DEF CheckoutCommit, RequestShape
  <2>2. \A o \in orders' : o.lines # {} /\ \E m \in Menus : o.lines \subseteq m
    BY <2>1, <1>1, <1>8 DEF CheckoutCommit
  <2>3. QED
    BY <2>2, <1>1, <1>8 DEF CheckoutCommit, Clear, DropCart
<1>9. CASE Fail(r)
  BY <1>1, <1>9 DEF Fail
<1>10. QED
  BY <1>0, <1>2, <1>3, <1>4, <1>5, <1>6, <1>7, <1>8, <1>9

LEMMA RequestStep ==
  ASSUME Inv, Next
  PROVE  RequestShape'
<1> USE DEF RequestShape
<1>0. PICK r \in Requests :
        \/ Finds(r) \/ CreateCart(r) \/ AddOrMergeItem(r) \/ UpdateItemQuantity(r)
        \/ RemoveAndCount(r) \/ RemoveCommit(r) \/ CheckoutCommit(r) \/ Fail(r)
  BY Steps
<1>1. RequestShape /\ CartShape /\ OneRestaurant
  BY DEF Inv
<1>2. requests \in [Requests -> Request] /\ next # 0 /\ \A o \in Requests : requests[o].cart # next
  BY Types DEF Inv, IdsKnown
<1>3. CASE Finds(r)
  <2>1. PICK q \in Request :
          /\ requests' = [requests EXCEPT ![r] = q] /\ UNCHANGED cart
          /\ q.cart = cart.id
          /\ \/ /\ q.pc \in {"create", "merge"}
                /\ \E p \in Lines : q.lines = {p}
                /\ q.pc = "merge" => cart # NoCart /\ q.lines \subseteq cart.menu
             \/ q.pc \in {"update", "remove"}
             \/ /\ q.pc = "checkout" /\ cart # NoCart
                /\ q.lines # {} /\ q.lines \subseteq cart.menu
    BY <1>3, FindsFacts
  <2>2. cart # NoCart => cart.id # 0 /\ cart.menu \in Menus
    BY <1>1 DEF CartShape
  <2>3. QED
    BY <2>1, <2>2, <1>1, <1>2
<1>4. CASE CreateCart(r)
  <2>1. PICK p \in requests[r].lines : cart' = [id |-> next, menu |-> MenuOf(p)]
    BY <1>4 DEF CreateCart
  <2>2. requests[r].lines = {p} /\ p \in Lines /\ p \in MenuOf(p)
    BY <2>1, <1>1, <1>4, MenuFacts DEF CreateCart
  <2>3. \A o \in Requests : requests[o].pc # "counted"
    BY <1>1, <1>4 DEF CreateCart, NoCart
  <2>4. QED
    BY <2>1, <2>2, <2>3, <1>1, <1>2, <1>4 DEF CreateCart
<1>5. CASE AddOrMergeItem(r)
  BY <1>1, <1>2, <1>5 DEF AddOrMergeItem, End, Idle
<1>6. CASE UpdateItemQuantity(r)
  BY <1>1, <1>2, <1>6 DEF UpdateItemQuantity, End, Idle
<1>7. CASE RemoveAndCount(r)
  BY <1>1, <1>2, <1>7 DEF RemoveAndCount, InCart, CartShape
<1>8. CASE RemoveCommit(r)
  <2>1. cart' = cart \/ (cart' = NoCart /\ ~Waits(r))
    BY <1>8 DEF RemoveCommit, DropCart
  <2>2. QED
    BY <2>1, <1>1, <1>2, <1>8 DEF RemoveCommit, Waits, NoCart, End, Idle
<1>9. CASE CheckoutCommit(r)
  <2>1. cart' = cart \/ (cart' = NoCart /\ ~Waits(r))
    BY <1>9 DEF CheckoutCommit, Clear, DropCart
  <2>2. QED
    BY <2>1, <1>1, <1>2, <1>9 DEF CheckoutCommit, Waits, NoCart, End, Idle
<1>10. CASE Fail(r)
  BY <1>1, <1>2, <1>10 DEF Fail, End, Idle
<1>11. QED
  BY <1>0, <1>3, <1>4, <1>5, <1>6, <1>7, <1>8, <1>9, <1>10

-----------------------------------------------------------------------------
(* Every step keeps what the customer is owed.                             *)

LEMMA OwedStep ==
  ASSUME Inv, Next
  PROVE  DecidedIsNotOwed' /\ AcceptedStays'
<1> DEFINE Ordered == UNION {o.adds : o \in orders}
<1>0. PICK r \in Requests :
        \/ Finds(r) \/ CreateCart(r) \/ AddOrMergeItem(r) \/ UpdateItemQuantity(r)
        \/ RemoveAndCount(r) \/ RemoveCommit(r) \/ CheckoutCommit(r) \/ Fail(r)
  BY Steps
<1>1. DecidedIsNotOwed /\ owed \subseteq Adds(rows) \cup Ordered
  BY DEF Inv, AcceptedStays
<1>2. /\ requests \in [Requests -> Request] /\ next \notin owed
      /\ \A o \in Requests : requests[o].cart # next
  BY Types DEF Inv, IdsKnown, TypeOK
<1>3. CASE Finds(r)
  <2>1. PICK q \in Request :
          /\ requests' = [requests EXCEPT ![r] = q]
          /\ UNCHANGED <<cart, rows, orders, owed>>
          /\ q.pc # "counted" /\ (q.pc = "checkout" => q.adds = Adds(rows))
    BY <1>3, FindsFacts
  <2>2. QED
    BY <2>1, <1>1, <1>2 DEF DecidedIsNotOwed, AcceptedStays, Adds
<1>4. CASE CreateCart(r)
  <2>1. /\ cart'.id = next /\ UNCHANGED <<rows, orders, owed>>
        /\ requests'[r].pc = "merge"
        /\ \A o \in Requests \ {r} : requests'[o] = requests[o]
    BY <1>2, <1>4 DEF CreateCart
  <2>2. QED
    BY <2>1, <1>1, <1>2 DEF DecidedIsNotOwed, AcceptedStays, Adds
(* A row that is added, added to or set gains a token that is not owed     *)
(* when somebody has decided.                                              *)
<1> DEFINE Grown == \A z \in rows' :
      \/ z \in rows \/ z.adds \subseteq {next}
      \/ \E x \in rows : z.id = x.id /\ z.adds \subseteq x.adds \cup {next}
<1>5. ASSUME Grown, UNCHANGED cart, requests'[r].pc = "idle",
             \A o \in Requests \ {r} : requests'[o] = requests[o],
             Decided => owed' \subseteq owed
      PROVE  DecidedIsNotOwed'
  <2> SUFFICES ASSUME NEW o \in Requests, requests'[o].cart = cart'.id,
                      \/ requests'[o].pc = "counted" /\ requests'[o].last
                      \/ requests'[o].pc = "checkout"
               PROVE  /\ requests'[o].pc = "counted" /\ requests'[o].last =>
                           \A z \in rows' : z.id # requests'[o].item => z.adds \cap owed' = {}
                      /\ requests'[o].pc = "checkout" =>
                           Adds(rows') \cap owed' \subseteq requests'[o].adds
    BY DEF DecidedIsNotOwed, Adds
  <2>1. o # r /\ requests'[o] = requests[o] /\ requests[o].cart = cart.id
    BY <1>5
  <2>2. owed' \subseteq owed
    BY <2>1, <1>5 DEF Decided
  <2>3. requests[o].pc = "counted" /\ requests[o].last =>
          \A x \in rows : x.id # requests[o].item => x.adds \cap owed = {}
    BY <2>1, <1>1 DEF DecidedIsNotOwed
  <2>4. requests[o].pc = "checkout" => Adds(rows) \cap owed \subseteq requests[o].adds
    BY <2>1, <1>1 DEF DecidedIsNotOwed
  <2>5. Adds(rows') \subseteq Adds(rows) \cup {next}
    BY <1>5 DEF Adds
  <2>6. requests[o].pc = "counted" /\ requests[o].last =>
          \A z \in rows' : z.id # requests[o].item => z.adds \cap owed = {}
    BY <2>3, <1>2, <1>5
  <2>7. QED
    BY <2>1, <2>2, <2>4, <2>5, <2>6, <1>2
<1>6. CASE AddOrMergeItem(r)
  <2>1. /\ UNCHANGED <<cart, orders>> /\ requests'[r].pc = "idle"
        /\ \A o \in Requests \ {r} : requests'[o] = requests[o]
        /\ owed' \subseteq owed \cup {next} /\ (Decided => owed' = owed)
    BY <1>2, <1>6 DEF AddOrMergeItem, End, Idle, Owe
  <2>2. PICK p \in requests[r].lines :
       \/ rows' = rows \cup {[id |-> next, line |-> p, adds |-> {next}]}
       \/ \E x \in rows :
            rows' = (rows \ {x}) \cup {[id |-> x.id, line |-> p, adds |-> x.adds \cup {next}]}
    BY <1>6 DEF AddOrMergeItem
  <2>3. Grown /\ Adds(rows) \cup {next} \subseteq Adds(rows')
    <3>1. CASE rows' = rows \cup {[id |-> next, line |-> p, adds |-> {next}]}
      <4> DEFINE y == [id |-> next, line |-> p, adds |-> {next}]
      <4>1. y.adds = {next} /\ rows' = rows \cup {y}
        BY <3>1
      <4> HIDE DEF y
      <4>2. QED
        BY <4>1 DEF Adds
    <3>2. ASSUME NEW x \in rows,
                 rows' = (rows \ {x}) \cup {[id |-> x.id, line |-> p, adds |-> x.adds \cup {next}]}
          PROVE  Grown /\ Adds(rows) \cup {next} \subseteq Adds(rows')
      <4> DEFINE y == [id |-> x.id, line |-> p, adds |-> x.adds \cup {next}]
      <4>1. y.id = x.id /\ y.adds = x.adds \cup {next}
        OBVIOUS
      <4> HIDE DEF y
      <4>2. Grown
        BY <3>2, <4>1 DEF y
      <4>3. rows' = (rows \ {x}) \cup {y}
        BY <3>2 DEF y
      <4>4. Adds(rows) \cup {next} \subseteq Adds(rows')
        BY <4>1, <4>3, AddsUnion
      <4>5. QED
        BY <4>2, <4>4
    <3>3. QED
      BY <3>1, <3>2, <2>2
  <2>4. QED
    BY <2>1, <2>3, <1>1, <1>5 DEF AcceptedStays, Adds
<1>7. CASE UpdateItemQuantity(r)
  <2>1. PICK x \in rows :
          /\ rows' = (rows \ {x}) \cup {[id |-> x.id, line |-> x.line, adds |-> {next}]}
          /\ Owe(owed \ x.adds)
    BY <1>7 DEF UpdateItemQuantity
  <2>2. /\ UNCHANGED <<cart, orders>> /\ requests'[r].pc = "idle"
        /\ \A o \in Requests \ {r} : requests'[o] = requests[o]
        /\ owed' \subseteq (owed \ x.adds) \cup {next} /\ (Decided => owed' = owed \ x.adds)
    BY <2>1, <1>2, <1>7 DEF UpdateItemQuantity, End, Idle, Owe
  <2> DEFINE y == [id |-> x.id, line |-> x.line, adds |-> {next}]
  <2>3. y.id = x.id /\ y.adds = {next} /\ rows' = (rows \ {x}) \cup {y}
    BY <2>1
  <2> HIDE DEF y
  <2>4. Grown /\ (Adds(rows) \ x.adds) \cup {next} \subseteq Adds(rows')
    BY <2>3, AddsUnion
  <2>5. QED
    BY <2>2, <2>4, <1>1, <1>5 DEF AcceptedStays, Adds
<1>8. CASE RemoveAndCount(r)
  <2>1. /\ requests'[r].pc = "counted" /\ requests'[r].last = IsLast(requests[r].item)
        /\ requests'[r].item = requests[r].item
        /\ \A o \in Requests \ {r} : requests'[o] = requests[o]
        /\ UNCHANGED <<cart, rows, orders, owed>>
    BY <1>2, <1>8 DEF RemoveAndCount
  <2>2. QED
    BY <2>1, <1>1 DEF DecidedIsNotOwed, AcceptedStays, Adds, IsLast
<1>9. CASE RemoveCommit(r)
  <2> DEFINE gone == {x \in rows : x.id = requests[r].item}
  <2>1. /\ owed' = owed \ Adds(gone) /\ UNCHANGED orders /\ requests'[r].pc = "idle"
        /\ \A o \in Requests \ {r} : requests'[o] = requests[o]
        /\ requests[r].pc = "counted"
    BY <1>2, <1>9 DEF RemoveCommit, End, Idle
  <2>2. CASE requests[r].last /\ ~Waits(r) /\ DropCart
    <3>1. requests[r].cart = cart.id
      BY <2>1 DEF Inv, RequestShape
    <3>2. \A x \in rows : x \notin gone => x.adds \cap owed = {}
      BY <3>1, <2>1, <2>2, <1>1 DEF DecidedIsNotOwed
    <3>3. Adds(rows) \cap owed \subseteq Adds(gone)
      BY <3>2 DEF Adds
    <3>4. \A o \in Requests : requests'[o].pc \in {"counted", "checkout"} => requests'[o].cart # cart'.id
      BY <2>1, <2>2 DEF Inv, RequestShape, DropCart, NoCart
    <3>5. QED
      BY <3>3, <3>4, <2>1, <1>1 DEF DecidedIsNotOwed, AcceptedStays
  <2>3. CASE rows' = {x \in rows : x.id # requests[r].item} /\ UNCHANGED cart
    <3>1. rows' \subseteq rows /\ Adds(rows') \subseteq Adds(rows) /\ owed' \subseteq owed
      BY <2>1, <2>3 DEF Adds
    <3>2. Adds(rows) \subseteq Adds(rows') \cup Adds(gone)
      BY <2>3 DEF Adds
    <3>3. owed' \subseteq Adds(rows') \cup Ordered
      BY <3>2, <2>1, <1>1
    <3>4. DecidedIsNotOwed'
      <4> SUFFICES ASSUME NEW o \in Requests, requests'[o].cart = cart'.id,
                          \/ requests'[o].pc = "counted" /\ requests'[o].last
                          \/ requests'[o].pc = "checkout"
                   PROVE  /\ requests'[o].pc = "counted" /\ requests'[o].last =>
                               \A z \in rows' : z.id # requests'[o].item => z.adds \cap owed' = {}
                          /\ requests'[o].pc = "checkout" =>
                               Adds(rows') \cap owed' \subseteq requests'[o].adds
        BY DEF DecidedIsNotOwed, Adds
      <4>1. requests'[o] = requests[o] /\ requests[o].cart = cart.id
        BY <2>1, <2>3
      <4>2. QED
        BY <4>1, <3>1, <1>1 DEF DecidedIsNotOwed
    <3>5. QED
      BY <3>3, <3>4, <2>1 DEF AcceptedStays, Adds
  <2>4. QED
    BY <2>2, <2>3, <1>9 DEF RemoveCommit
<1>10. CASE CheckoutCommit(r)
  <2>1. /\ orders' = orders \cup {[cart |-> requests[r].cart, lines |-> requests[r].lines,
                                  adds |-> requests[r].adds]}
        /\ UNCHANGED owed /\ requests'[r].pc = "idle" /\ requests[r].pc = "checkout"
        /\ \A o \in Requests \ {r} : requests'[o] = requests[o]
    BY <1>2, <1>10 DEF CheckoutCommit, End, Idle
  <2>2. Ordered \cup requests[r].adds \subseteq UNION {o.adds : o \in orders'}
    BY <2>1
  <2>3. CASE InCart(r) /\ ~Waits(r) /\ DropCart
    <3>1. Adds(rows) \cap owed \subseteq requests[r].adds
      BY <2>1, <2>3, <1>1 DEF DecidedIsNotOwed, InCart
    <3>2. \A o \in Requests : requests'[o].pc \in {"counted", "checkout"} => requests'[o].cart # cart'.id
      BY <2>1, <2>3 DEF Inv, RequestShape, DropCart, NoCart
    <3>3. QED
      BY <3>1, <3>2, <2>1, <2>2, <1>1 DEF DecidedIsNotOwed, AcceptedStays
  <2>4. CASE UNCHANGED <<cart, rows>>
    BY <2>1, <2>2, <2>4, <1>1 DEF DecidedIsNotOwed, AcceptedStays, Adds
  <2>5. QED
    BY <2>3, <2>4, <1>10 DEF CheckoutCommit, Clear
<1>11. CASE Fail(r)
  <2>1. /\ requests'[r].pc = "idle" /\ UNCHANGED <<cart, rows, orders, owed>>
        /\ \A o \in Requests \ {r} : requests'[o] = requests[o]
    BY <1>2, <1>11 DEF Fail, End, Idle
  <2>2. QED
    BY <2>1, <1>1 DEF DecidedIsNotOwed, AcceptedStays, Adds
<1>12. QED
  BY <1>0, <1>3, <1>4, <1>6, <1>7, <1>8, <1>9, <1>10, <1>11

-----------------------------------------------------------------------------
(* Every step keeps the reason of an empty cart.                           *)

LEMMA EmptyStep ==
  ASSUME Inv, Next
  PROVE  CountIsRight' /\ EmptyCartHasReason'
<1>0. PICK r \in Requests :
        \/ Finds(r) \/ CreateCart(r) \/ AddOrMergeItem(r) \/ UpdateItemQuantity(r)
        \/ RemoveAndCount(r) \/ RemoveCommit(r) \/ CheckoutCommit(r) \/ Fail(r)
  BY Steps
<1>1. CountIsRight /\ EmptyCartHasReason
  BY DEF Inv
<1>2. requests \in [Requests -> Request]
  BY Types
<1>3. CASE Finds(r)
  <2>1. PICK q \in Request :
          /\ requests[r].pc = "idle" /\ requests' = [requests EXCEPT ![r] = q]
          /\ UNCHANGED <<cart, rows, slips>> /\ q.pc # "counted"
    BY <1>3, FindsFacts
  <2>2. QED
    BY <2>1, <1>1, <1>2 DEF CountIsRight, EmptyCartHasReason
<1>4. CASE CreateCart(r)
  <2>1. /\ requests'[r].pc = "merge" /\ requests'[r].cart = cart'.id
        /\ UNCHANGED <<rows, slips>>
        /\ \A o \in Requests \ {r} : requests'[o] = requests[o]
    BY <1>2, <1>4 DEF CreateCart
  <2>2. QED
    BY <2>1, <1>1 DEF CountIsRight, EmptyCartHasReason
<1>5. CASE AddOrMergeItem(r)
  <2>1. /\ requests'[r].pc = "idle" /\ UNCHANGED slips
        /\ \A o \in Requests \ {r} : requests'[o] = requests[o]
    BY <1>2, <1>5 DEF AddOrMergeItem, End, Idle
  <2>2. rows' # {} /\ \A x \in rows : \E y \in rows' : y.id = x.id
    BY <1>5 DEF AddOrMergeItem
  <2>3. QED
    BY <2>1, <2>2, <1>1 DEF CountIsRight, EmptyCartHasReason
<1>6. CASE UpdateItemQuantity(r)
  <2>1. /\ requests'[r].pc = "idle" /\ UNCHANGED slips
        /\ \A o \in Requests \ {r} : requests'[o] = requests[o]
    BY <1>2, <1>6 DEF UpdateItemQuantity, End, Idle
  <2>2. rows' # {} /\ \A x \in rows : \E y \in rows' : y.id = x.id
    BY <1>6 DEF UpdateItemQuantity
  <2>3. QED
    BY <2>1, <2>2, <1>1 DEF CountIsRight, EmptyCartHasReason
<1>7. CASE RemoveAndCount(r)
  <2>1. /\ requests[r].pc = "remove" /\ requests'[r].pc = "counted"
        /\ requests'[r].item = requests[r].item
        /\ requests'[r].last = IsLast(requests[r].item)
        /\ \A o \in Requests \ {r} : requests'[o] = requests[o]
        /\ UNCHANGED <<cart, rows>>
        /\ slips \subseteq slips' /\ (slips' = {} => ~Waits(r))
    BY <1>2, <1>7 DEF RemoveAndCount
  <2>2. slips' = {} => \A o \in Requests \ {r} : requests[o].pc # "counted"
    BY <2>1 DEF Waits, Inv, RequestShape
  <2>3. ~requests'[r].last => \E x \in rows' : x.id # requests'[r].item
    BY <2>1 DEF IsLast
  <2>4. CountIsRight'
    BY <2>1, <2>2, <2>3, <1>1 DEF CountIsRight
  <2>5. EmptyCartHasReason'
    <3>1. \A o \in Requests : requests[o].pc = "merge" => requests'[o] = requests[o]
      BY <2>1
    <3>2. QED
      BY <2>1, <3>1, <1>1 DEF EmptyCartHasReason
  <2>6. QED
    BY <2>4, <2>5
<1>8. CASE RemoveCommit(r)
  <2>1. /\ requests[r].pc = "counted" /\ requests'[r].pc = "idle" /\ UNCHANGED slips
        /\ \A o \in Requests \ {r} : requests'[o] = requests[o]
    BY <1>2, <1>8 DEF RemoveCommit, End, Idle
  <2>2. slips = {} => \A o \in Requests : requests'[o].pc # "counted"
    BY <2>1, <1>1 DEF CountIsRight
  <2>3. slips = {} /\ ~requests[r].last => \E x \in rows : x.id # requests[r].item
    BY <2>1, <1>1 DEF CountIsRight
  <2>4. QED
    BY <2>1, <2>2, <2>3, <1>8 DEF CountIsRight, EmptyCartHasReason, RemoveCommit, DropCart
<1>9. CASE CheckoutCommit(r)
  <2>1. /\ requests[r].pc = "checkout" /\ requests'[r].pc = "idle" /\ UNCHANGED slips
        /\ \A o \in Requests \ {r} : requests'[o] = requests[o]
    BY <1>2, <1>9 DEF CheckoutCommit, End, Idle
  <2>2. CASE InCart(r) /\ ~Waits(r) /\ DropCart
    <3>1. \A o \in Requests : requests'[o].pc # "counted"
      BY <2>1, <2>2 DEF Waits, Inv, RequestShape
    <3>2. QED
      BY <3>1, <2>2 DEF CountIsRight, EmptyCartHasReason, DropCart
  <2>3. CASE UNCHANGED <<cart, rows>>
    BY <2>1, <2>3, <1>1 DEF CountIsRight, EmptyCartHasReason
  <2>4. QED
    BY <2>2, <2>3, <1>9 DEF CheckoutCommit, Clear
<1>10. CASE Fail(r)
  <2>1. /\ requests'[r].pc = "idle" /\ UNCHANGED <<cart, rows>>
        /\ slips \subseteq slips' /\ (requests[r].pc = "merge" => slips' # {})
        /\ \A o \in Requests \ {r} : requests'[o] = requests[o]
    BY <1>2, <1>10 DEF Fail, End, Idle
  <2>2. QED
    BY <2>1, <1>1 DEF CountIsRight, EmptyCartHasReason
<1>11. QED
  BY <1>0, <1>3, <1>4, <1>5, <1>6, <1>7, <1>8, <1>9, <1>10

LEMMA NextInv == Inv /\ [Next]_vars => Inv'
<1> SUFFICES ASSUME Inv, [Next]_vars PROVE Inv'
  OBVIOUS
<1>1. CASE Next
  BY <1>1, TypeStep, IdsStep, CartStep, RequestStep, OwedStep, EmptyStep DEF Inv
<1>2. CASE UNCHANGED vars
  BY <1>2 DEF vars, Inv, TypeOK, IdsKnown, CartShape, RequestShape, OneRestaurant,
     BoughtIsGone, DecidedIsNotOwed, AcceptedStays, CountIsRight, EmptyCartHasReason, Adds
<1>3. QED
  BY <1>1, <1>2

LEMMA Invariance == Spec => []Inv
  BY InitInv, NextInv, PTL DEF Spec

-----------------------------------------------------------------------------
(* The theorems                                                            *)

(* A quantity is never zero, and every row, order and request refers to    *)
(* lines and ids there are (cart_items' CHECK and NOT NULL columns).       *)
THEOREM TypeCorrect == Spec => []TypeOK
<1>1. Inv => TypeOK
  BY DEF Inv
<1>2. QED
  BY <1>1, Invariance, PTL

(* A cart and an order have lines of one restaurant, although AddItem      *)
(* checks the cart before it writes.                                       *)
THEOREM OneRestaurantAlways == Spec => []OneRestaurant
<1>1. Inv => OneRestaurant
  BY DEF Inv
<1>2. QED
  BY <1>1, Invariance, PTL

(* Once Checkout has committed, the cart it ordered is gone for good.      *)
THEOREM BoughtIsGoneAlways == Spec => []BoughtIsGone
<1>1. Inv => BoughtIsGone
  BY DEF Inv
<1>2. QED
  BY <1>1, Invariance, PTL

(* What the customer asked for undisturbed is in the cart or ordered: the  *)
(* count of a removal and the rows a Checkout read cover everything owed.  *)
THEOREM AcceptedStaysAlways == Spec => []AcceptedStays
<1>1. Inv => AcceptedStays
  BY DEF Inv
<1>2. QED
  BY <1>1, Invariance, PTL

(* Only an abandoned AddItem and two removals that overlapped leave an     *)
(* empty cart behind.                                                      *)
THEOREM EmptyCartAlwaysHasReason == Spec => []EmptyCartHasReason
<1>1. Inv => EmptyCartHasReason
  BY DEF Inv
<1>2. QED
  BY <1>1, Invariance, PTL

=============================================================================
