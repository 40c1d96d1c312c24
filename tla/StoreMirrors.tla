---------------------------- MODULE StoreMirrors ----------------------------
(***************************************************************************)
(* What search-service and order-service know of a restaurant's own fields *)
(* and of its topping prices.  restaurant-service announces both in the    *)
(* snapshot of a launch and then one by one; every save of the restaurant  *)
(* writes the whole row as it was read, and each event carries the time    *)
(* its writer drew before the statement.  search-service compares these    *)
(* times in milliseconds, order-service in microseconds; two of them may   *)
(* be the same.  The two readers are independent: a behaviour follows one  *)
(* of them.  (Pizzas are in module PizzaMirrors.)                          *)
(***************************************************************************)
EXTENDS Naturals

CONSTANTS Commands,  \* SetToppingPrices, LaunchRestaurant and the commands that save fields
          Toppings,
          None       \* no writer: a price never set, a field never sent

VARIABLES
  reader,        \* the service whose mirror is followed
  store,         \* restaurants: its last writer, and whether it is active
  price,         \* topping_prices: the last writer of each
  clock,         \* time.Now, in the units the reader compares
  commands,      \* each of them with what it has read
  inflight,      \* events neither handled nor dead
  replica,       \* the document of search-service, the rows of order-service
  fieldsAstray,  \* history: what may keep the last fields from the mirror
  pricesAstray   \* history: what may keep the last prices from the mirror

storeVars == <<reader, store, price, clock, commands, inflight, replica, fieldsAstray, pricesAstray>>

Stamps  == Nat
Writers == Commands \cup {None}
PriceList == [Toppings -> Writers]
NoPrices == [t \in Toppings |-> None]
Kinds   == {"prices", "fields", "launch"}
Command == [pc : {"idle", "loaded", "listed", "stamped", "written", "done"},
            kind : Kinds, active : BOOLEAN, own : SUBSET Toppings, list : PriceList, at : Stamps]
News    == [name : {"launched", "updated", "topping_prices_updated"},
            writer : Commands, list : PriceList, at : Stamps]
Replica == [present : BOOLEAN, fields : Writers, at : Stamps,
            prices : PriceList, pricesAt : [Toppings -> Stamps]]

ASSUME StoreMirrorsAssumption == None \notin Commands

StoreTypeOK ==
  /\ reader \in {"search", "order"}
  /\ store \in [writer : Writers, active : BOOLEAN]
  /\ price \in PriceList
  /\ clock \in Stamps
  /\ commands \in [Commands -> Command]
  /\ inflight \in SUBSET News
  /\ replica \in Replica
  /\ fieldsAstray \in SUBSET {"unannounced", "stamps", "dead"}
  /\ pricesAstray \in SUBSET {"unannounced", "stamps", "overlap", "dead", "relaunch"}

StoreInit ==
  /\ reader \in {"search", "order"}
  /\ store = [writer |-> None, active |-> FALSE]
  /\ price = NoPrices
  /\ clock = 1
  /\ commands = [r \in Commands |->
       [pc |-> "idle", kind |-> "fields", active |-> FALSE, own |-> {}, list |-> NoPrices, at |-> 0]]
  /\ inflight = {}
  /\ replica = [present |-> FALSE, fields |-> None, at |-> 0,
               prices |-> NoPrices, pricesAt |-> [t \in Toppings |-> 0]]
  /\ fieldsAstray = {}
  /\ pricesAstray = {}

-----------------------------------------------------------------------------
(* FindByIDAndOwner; only an approved restaurant can be launched.          *)
LoadStore(r, kind, own) ==
  /\ commands[r].pc = "idle"
  /\ kind = "launch" => ~store.active
  /\ (kind = "prices") = (own # {})
  /\ commands' = [commands EXCEPT ![r].pc = "loaded", ![r].kind = kind,
                                  ![r].active = store.active, ![r].own = own]
  /\ UNCHANGED <<reader, store, price, clock, inflight, replica, fieldsAstray, pricesAstray>>

(* A launch lists the prices before its transaction.                       *)
ListPrices(r) ==
  /\ commands[r].pc = "loaded" /\ commands[r].kind = "launch"
  /\ commands' = [commands EXCEPT ![r].pc = "listed", ![r].list = price]
  /\ UNCHANGED <<reader, store, price, clock, inflight, replica, fieldsAstray, pricesAstray>>

(* UpsertPrices takes the time, Save has it taken; the statement follows.  *)
(* The next command may find the clock of the reader's units where it was. *)
TakeTime(r) ==
  /\ commands[r].pc = IF commands[r].kind = "launch" THEN "listed" ELSE "loaded"
  /\ clock' \in {clock, clock + 1}
  /\ commands' = [commands EXCEPT ![r].pc = "stamped", ![r].at = clock']
  /\ UNCHANGED <<reader, store, price, inflight, replica, fieldsAstray, pricesAstray>>

(* The times of the events committed so far.                               *)
Committed(kinds) ==
  {commands[r].at : r \in {q \in Commands :
     commands[q].pc = "done" /\ commands[q].at # 0 /\ commands[q].kind \in kinds}}

Newest(r, kinds) == \A s \in Committed(kinds) : s < commands[r].at

Announced(r, name) ==
  {[name |-> name, writer |-> r, list |-> commands[r].list, at |-> commands[r].at]}

(* UPDATE of the row as it was read, and the event, in one transaction:    *)
(* whatever was saved in between is overwritten, the status with it.       *)
SaveRow(r) ==
  LET launch == commands[r].kind = "launch"
  IN  /\ commands[r].pc = "stamped" /\ commands[r].kind # "prices"
      /\ store' = [writer |-> r, active |-> launch \/ commands[r].active]
      /\ inflight' = inflight \cup
           (IF launch THEN Announced(r, "launched")
            ELSE IF commands[r].active THEN Announced(r, "updated") ELSE {})
      /\ fieldsAstray' =
           (IF store'.active THEN {} ELSE {"unannounced"})
             \cup (IF Newest(r, {"fields", "launch"}) THEN {} ELSE {"stamps"})
      /\ pricesAstray' = IF ~launch THEN pricesAstray
           ELSE (IF commands[r].list = price THEN {} ELSE {"unannounced"})
             \cup (IF Committed({"launch"}) = {} THEN {} ELSE {"relaunch"})
      /\ commands' = [commands EXCEPT ![r].pc = "done"]
      /\ UNCHANGED <<reader, price, clock, replica>>

(* INSERT ... ON CONFLICT waits for the rows another transaction wrote;    *)
(* the list after it shows what was committed and its own.                 *)
WritePrices(r) ==
  /\ commands[r].pc = "stamped" /\ commands[r].kind = "prices"
  /\ \A q \in Commands : commands[q].pc = "written" => commands[q].own \cap commands[r].own = {}
  /\ commands' = [commands EXCEPT ![r].pc = "written",
       ![r].list = [t \in Toppings |-> IF t \in commands[r].own THEN r ELSE price[t]]]
  /\ UNCHANGED <<reader, store, price, clock, inflight, replica, fieldsAstray, pricesAstray>>

CommitPrices(r) ==
  /\ commands[r].pc = "written"
  /\ price' = [t \in Toppings |-> IF t \in commands[r].own THEN r ELSE price[t]]
  /\ inflight' = inflight \cup
       (IF commands[r].active THEN Announced(r, "topping_prices_updated") ELSE {})
  /\ pricesAstray' = (pricesAstray \cap {"relaunch"})
       \cup (IF commands[r].active THEN {} ELSE {"unannounced"})
       \cup (IF Newest(r, {"prices", "launch"}) THEN {} ELSE {"stamps"})
       \cup (IF commands[r].list = price' THEN {} ELSE {"overlap"})
  /\ commands' = [commands EXCEPT ![r].pc = "done"]
  /\ UNCHANGED <<reader, store, clock, replica, fieldsAstray>>

(* Refused, rolled back or crashed: nothing of it stays.                   *)
CommandFails(r) ==
  /\ commands[r].pc \in {"loaded", "listed", "stamped", "written"}
  /\ commands' = [commands EXCEPT ![r].pc = "done", ![r].at = 0]
  /\ UNCHANGED <<reader, store, price, clock, inflight, replica, fieldsAstray, pricesAstray>>

-----------------------------------------------------------------------------
Handled(m) == inflight' \in {inflight, inflight \ {m}}

(* upsertSnapshotScript: a new document, or all of it when it is newer;    *)
(* toppingPricesUpdatedAt is the zero time.                                *)
Snapshot(m) ==
  IF ~replica.present \/ m.at > replica.at
  THEN [present |-> TRUE, fields |-> m.writer, at |-> m.at,
        prices |-> m.list, pricesAt |-> [t \in Toppings |-> 0]]
  ELSE replica

IndexLaunched(m) ==
  /\ reader = "search" /\ m \in inflight /\ m.name = "launched"
  /\ replica' = Snapshot(m)
  /\ Handled(m)
  /\ UNCHANGED <<reader, store, price, clock, commands, fieldsAstray, pricesAstray>>

Fields_unguarded(m) == [replica EXCEPT !.present = TRUE, !.fields = m.writer, !.at = m.at]

(* updateFieldsScript, and the guarded upsert of order-service.            *)
Fields(m) ==
  IF ~replica.present \/ m.at > replica.at
  THEN [replica EXCEPT !.present = TRUE, !.fields = m.writer, !.at = m.at]
  ELSE replica

(* Without a document the update fails and is tried again.                 *)
IndexUpdated(m) ==
  /\ reader = "search" /\ m \in inflight /\ m.name = "updated"
  /\ replica.present
  /\ replica' = Fields(m)
  /\ Handled(m)
  /\ UNCHANGED <<reader, store, price, clock, commands, fieldsAstray, pricesAstray>>

(* toppingPricesUpdateScript: the whole list, guarded by its own time.     *)
IndexPrices(m) ==
  /\ reader = "search" /\ m \in inflight /\ m.name = "topping_prices_updated"
  /\ replica.present
  /\ replica' = IF \A t \in Toppings : m.at > replica.pricesAt[t]
               THEN [replica EXCEPT !.prices = m.list, !.pricesAt = [t \in Toppings |-> m.at]]
               ELSE replica
  /\ Handled(m)
  /\ UNCHANGED <<reader, store, price, clock, commands, fieldsAstray, pricesAstray>>

Upserts_unguarded(m, t) == m.list[t] # None

(* ON CONFLICT DO UPDATE WHERE updated_at < excluded.updated_at            *)
Upserts(m, t) ==
  m.list[t] # None /\ (replica.prices[t] = None \/ replica.pricesAt[t] < m.at)

(* One statement per topping, outside any transaction: only some of them   *)
(* when one fails, and then again from the first.                          *)
Topped(old, m, some) ==
  [old EXCEPT
     !.prices   = [t \in Toppings |-> IF t \in some /\ Upserts(m, t) THEN m.list[t] ELSE @[t]],
     !.pricesAt = [t \in Toppings |-> IF t \in some /\ Upserts(m, t) THEN m.at ELSE @[t]]]

(* A launch's toppings take the time of the restaurant's row; without that *)
(* row the foreign key refuses a topping price, and the message is retried.*)
StoreEvent(m, some) ==
  /\ reader = "order" /\ m \in inflight
  /\ m.name = "updated" => some = {}
  /\ m.name = "topping_prices_updated" => replica.present
  /\ replica' = Topped(IF m.name = "topping_prices_updated" THEN replica ELSE Fields(m), m, some)
  /\ IF m.name = "updated" \/ some = Toppings THEN Handled(m) ELSE UNCHANGED inflight
  /\ UNCHANGED <<reader, store, price, clock, commands, fieldsAstray, pricesAstray>>

(* Retried too often.                                                      *)
Dies(m) ==
  /\ inflight' = inflight \ {m}
  /\ fieldsAstray' = IF m.name = "topping_prices_updated" THEN fieldsAstray ELSE fieldsAstray \cup {"dead"}
  /\ pricesAstray' = IF m.name = "updated" THEN pricesAstray ELSE pricesAstray \cup {"dead"}
  /\ UNCHANGED <<reader, store, price, clock, commands, replica>>

StoreNext ==
  \/ \E r \in Commands :
       \/ \E kind \in Kinds, own \in SUBSET Toppings : LoadStore(r, kind, own)
       \/ ListPrices(r) \/ TakeTime(r) \/ SaveRow(r) \/ WritePrices(r) \/ CommitPrices(r)
       \/ CommandFails(r)
  \/ \E m \in inflight :
       \/ IndexLaunched(m) \/ IndexUpdated(m) \/ IndexPrices(m)
       \/ \E some \in SUBSET Toppings : StoreEvent(m, some)
       \/ Dies(m)

StoreSpec == StoreInit /\ [][StoreNext]_storeVars

-----------------------------------------------------------------------------
(* With every launched and updated event out of the way a mirror shows the *)
(* row of its last writer - unless that one announced nothing, because it  *)
(* had read the restaurant before its launch, it drew a time that is not   *)
(* later, in the reader's units, than that of one saved before it, or an   *)
(* event is dead.                                                          *)
FieldsSettle ==
  replica.present /\ fieldsAstray = {}
    /\ (\A m \in inflight : m.name = "topping_prices_updated")
  => replica.fields = store.writer

(* With every event that lists prices out of the way a mirror shows the    *)
(* last price of every topping - unless the last change was not announced, *)
(* came with a time that is not later, in the reader's units, than that of *)
(* one before it, did not see one that was committed beside it, an event   *)
(* is dead, or the restaurant was launched again, which forgets how old    *)
(* its prices are.                                                         *)
PricesSettle ==
  replica.present /\ pricesAstray = {} /\ (\A m \in inflight : m.name = "updated")
  => replica.prices = price
=============================================================================
