---------------------------- MODULE PizzaMirrors ----------------------------
(***************************************************************************)
(* One pizza of a restaurant and its two copies: the document of           *)
(* search-service's index and the read model order-service sells from.     *)
(* restaurant-service sends the whole pizza with every change, stamped     *)
(* with its updated_at; the events may arrive late, out of order and more  *)
(* than once, and each copy takes them under the guard of that stamp.  A   *)
(* stamp is drawn before the save waits for the row, and two of them may   *)
(* be the same to a copy: search-service compares milliseconds,            *)
(* order-service microseconds.  The two copies share nothing: a behaviour  *)
(* follows one of them.                                                    *)
(***************************************************************************)
EXTENDS Naturals

CONSTANTS Requests,  \* the owner's requests, each run once
          Sizes,     \* sizes the pizza may be sold in
          Idle,      \* a request that has not come yet
          Done,      \* one that is answered
          NoEvent,   \* nothing was announced yet
          NoDoc,     \* the index has no document of the restaurant
          Absent     \* no pizza in the document, no row in the table

VARIABLES
  pizza,      \* the row of pizzas: status and updated_at
  prices,     \* the rows of pizza_prices: active or not, by size
  active,     \* the restaurant is launched
  now,        \* time.Now, in the units the copy compares
  requests,   \* each request with what it has read, Idle or Done
  announced,  \* the last event put into the outbox, or NoEvent
  latest,     \* history: the greatest stamp announced
  consumer,   \* the copy this behaviour follows
  pending,    \* the events it still has to acknowledge
  index,      \* search-service: the restaurant's document
  row,        \* order-service: the row of pizzas
  priceRows,  \* order-service: the rows of pizza_prices
  astray      \* history: what may keep the last announcement from the copy

source == <<pizza, prices, active, now, requests, announced, latest>>
order  == <<row, priceRows>>
mirror == <<consumer, index, order>>
vars   == <<source, pending, mirror, astray>>

Status   == {"available", "unavailable", "archived"}
Prices   == [Sizes -> {"none", "inactive", "active"}]
Unpriced == [s \in Sizes |-> "none"]
Row      == [status : Status, at : Nat]
Event    == [name : {"launched", "pizza_updated"}, status : Status, prices : Prices,
             at : Nat, opened : Nat]
Request  == [pc : {"loaded", "read", "upserted", "found", "listed", "stamped"},
             cmd : {"update", "prices", "launch"}, active : BOOLEAN, seen : Row,
             prices : Prices, at : Nat]
Entry    == [prices : SUBSET Sizes, at : Nat]
Document == [at : Nat, pizza : Entry \cup {Absent}]
PriceRow == [active : BOOLEAN, at : Nat]

ASSUME MirrorsAssumption ==
  /\ Idle \notin Request /\ Done \notin Request /\ Idle # Done
  /\ NoEvent \notin Event /\ NoDoc \notin Document
  /\ Absent \notin Entry \cup Row \cup PriceRow

TypeOK ==
  /\ pizza \in Row
  /\ prices \in Prices
  /\ active \in BOOLEAN
  /\ now \in Nat
  /\ requests \in [Requests -> Request \cup {Idle, Done}]
  /\ announced \in Event \cup {NoEvent}
  /\ latest \in Nat
  /\ consumer \in {"search", "order"}
  /\ pending \in SUBSET Event
  /\ index \in Document \cup {NoDoc}
  /\ row \in Row \cup {Absent}
  /\ priceRows \in [Sizes -> PriceRow \cup {Absent}]
  /\ astray \in SUBSET {"stamps", "relaunch", "overtaken"}

(* CreatePizza announces nothing and leaves updated_at unset; the first    *)
(* SetPizzaPrices may be over.                                             *)
Init ==
  /\ prices \in Prices
  /\ pizza = [status |-> "available", at |-> IF prices = Unpriced THEN 0 ELSE 1]
  /\ active = FALSE
  /\ now = 1
  /\ requests = [r \in Requests |-> Idle]
  /\ announced = NoEvent
  /\ latest = 0
  /\ consumer \in {"search", "order"}
  /\ pending = {}
  /\ index = NoDoc
  /\ row = Absent
  /\ priceRows = [s \in Sizes |-> Absent]
  /\ astray = {}

-----------------------------------------------------------------------------
(* restaurant-service.                                                     *)

Open(r)    == requests[r] \notin {Idle, Done}
At(r, pcs) == Open(r) /\ requests[r].pc \in pcs

(* Each command reads the restaurant first.  Launch() refuses one that     *)
(* this copy shows as launched, and only that.                             *)
Load(r, cmd) ==
  /\ requests[r] = Idle
  /\ cmd = "launch" => ~active
  /\ requests' = [requests EXCEPT ![r] =
       [pc |-> "loaded", cmd |-> cmd, active |-> active, seen |-> pizza,
        prices |-> Unpriced, at |-> 0]]
  /\ UNCHANGED <<pizza, prices, active, now, announced, latest, pending, mirror, astray>>

ReadPizza(r) ==
  /\ At(r, {"loaded"})
  /\ requests' = [requests EXCEPT ![r].pc = "read", ![r].seen = pizza]
  /\ UNCHANGED <<pizza, prices, active, now, announced, latest, pending, mirror, astray>>

(* A command that sends prices it does not set itself reads them before    *)
(* its transaction.                                                        *)
ReadPrices(r) ==
  /\ At(r, {"read"}) /\ requests[r].cmd # "prices"
  /\ requests' = [requests EXCEPT ![r].pc = "listed", ![r].prices = prices]
  /\ UNCHANGED <<pizza, prices, active, now, announced, latest, pending, mirror, astray>>

(* ReplacePrices, two statements at read committed.  A transaction keeps   *)
(* the rows it has written to itself until it ends; the price list of its  *)
(* request holds what it has written.                                      *)
Locked(r) ==
  IF ~Open(r) \/ requests[r].cmd # "prices" THEN {}
  ELSE {s \in Sizes : \/ requests[r].prices[s] = "active"
                      \/ requests[r].prices[s] = "inactive" /\ requests[r].pc # "found"}

Locks(r, sizes) == \A q \in Requests \ {r} : Locked(q) \cap sizes = {}

UpsertPrices(r, sold) ==
  /\ At(r, {"read"}) /\ requests[r].cmd = "prices"
  /\ sold # {} /\ Locks(r, sold)
  /\ requests' = [requests EXCEPT ![r].pc = "upserted",
       ![r].prices = [s \in Sizes |-> IF s \in sold THEN "active" ELSE "none"]]
  /\ UNCHANGED <<pizza, prices, active, now, announced, latest, pending, mirror, astray>>

(* A price left out of the request is switched off, never deleted.  The    *)
(* second statement finds the committed ones, then waits for their rows.   *)
FindUnsold(r) ==
  /\ At(r, {"upserted"})
  /\ requests' = [requests EXCEPT ![r].pc = "found",
       ![r].prices = [s \in Sizes |-> IF @[s] = "none" /\ prices[s] # "none" THEN "inactive" ELSE @[s]]]
  /\ UNCHANGED <<pizza, prices, active, now, announced, latest, pending, mirror, astray>>

DeactivateUnsold(r) ==
  /\ At(r, {"found"})
  /\ Locks(r, {s \in Sizes : requests[r].prices[s] = "inactive"})
  /\ requests' = [requests EXCEPT ![r].pc = "listed"]
  /\ UNCHANGED <<pizza, prices, active, now, announced, latest, pending, mirror, astray>>

(* Update has the time taken before its statement waits for the row.  The  *)
(* next request may find the clock of the copy's units where it was.       *)
DrawStamp(r) ==
  /\ At(r, {"listed"})
  /\ now' \in {now, now + 1}
  /\ requests' = [requests EXCEPT ![r].pc = "stamped", ![r].at = now']
  /\ UNCHANGED <<pizza, prices, active, announced, latest, pending, mirror, astray>>

Ready(r, cmd) == At(r, {"stamped"}) /\ requests[r].cmd = cmd

Announce(e) ==
  /\ announced' = e
  /\ pending' = pending \cup {e}
  /\ latest' = IF e.at > latest THEN e.at ELSE latest
  /\ astray' = {cause \in {"stamps", "relaunch"} :
       \/ cause = "stamps" /\ announced # NoEvent /\ e.at <= latest
       \/ cause = "relaunch" /\ announced # NoEvent /\ e.name = "launched"
       \/ cause = "relaunch" /\ cause \in astray /\ consumer = "search"}

(* Before the launch nobody is told.                                       *)
NotifyPizzaUpdated(r, status, listed, at) ==
  IF requests[r].active
    THEN Announce([name |-> "pizza_updated", status |-> status, prices |-> listed,
                   at |-> at, opened |-> 0])
    ELSE UNCHANGED <<announced, latest, pending, astray>>

(* The response is built before Update sets updated_at.                    *)
UpdatePizza_early(r, status) ==
  /\ Ready(r, "update")
  /\ pizza' = [status |-> status, at |-> requests[r].at]
  /\ NotifyPizzaUpdated(r, status, requests[r].prices, requests[r].seen.at)
  /\ requests' = [requests EXCEPT ![r] = Done]
  /\ UNCHANGED <<prices, active, now, mirror>>

(* The commits: the whole row is saved with the stamp, be it older than    *)
(* the row's.  UpdatePizza sends the prices it read, SetPizzaPrices saves  *)
(* the details it read and lists the prices after its own are written.     *)
UpdatePizza(r, status) ==
  /\ Ready(r, "update")
  /\ pizza' = [status |-> status, at |-> requests[r].at]
  /\ NotifyPizzaUpdated(r, status, requests[r].prices, requests[r].at)
  /\ requests' = [requests EXCEPT ![r] = Done]
  /\ UNCHANGED <<prices, active, now, mirror>>

SetPizzaPrices(r) ==
  /\ Ready(r, "prices")
  /\ prices' = [s \in Sizes |-> IF requests[r].prices[s] = "none" THEN prices[s]
                                ELSE requests[r].prices[s]]
  /\ pizza' = [status |-> requests[r].seen.status, at |-> requests[r].at]
  /\ NotifyPizzaUpdated(r, requests[r].seen.status, prices', requests[r].at)
  /\ requests' = [requests EXCEPT ![r] = Done]
  /\ UNCHANGED <<active, now, mirror>>

(* The stamp is that of the restaurant's row; the pizza is sent with the   *)
(* one it was read with.  Whether it is in the snapshot depends on what    *)
(* was read of it; the restaurant's other pizzas make it ready for launch. *)
LaunchRestaurant(r) ==
  /\ Ready(r, "launch")
  /\ active' = TRUE
  /\ Announce([name |-> "launched", status |-> requests[r].seen.status,
               prices |-> requests[r].prices, at |-> requests[r].seen.at,
               opened |-> requests[r].at])
  /\ requests' = [requests EXCEPT ![r] = Done]
  /\ UNCHANGED <<pizza, prices, now, mirror>>

(* A command that changes the restaurant's profile saves the row as it     *)
(* read it before the launch, which makes it unlaunched again.             *)
SaveProfile ==
  /\ active /\ active' = FALSE
  /\ UNCHANGED <<pizza, prices, now, requests, announced, latest, pending, mirror, astray>>

Fail(r) ==
  /\ Open(r)
  /\ requests' = [requests EXCEPT ![r] = Done]
  /\ UNCHANGED <<pizza, prices, active, now, announced, latest, pending, mirror, astray>>

-----------------------------------------------------------------------------
(* The consumers.                                                          *)

(* An archived or unpriced pizza cannot be ordered and is removed.         *)
Active(e)   == {s \in Sizes : e.prices[s] = "active"}
Sellable(e) == e.status # "archived" /\ Active(e) # {}

(* A handled message is acknowledged, or comes again: the ack was lost, or *)
(* the outbox published it twice.                                          *)
Acknowledge(e) == pending' = pending \ {e} \/ UNCHANGED pending

(* A snapshot with an unstamped pizza is refused by order-service.         *)
StoresPizza(e) == Sellable(e) /\ (e.name = "launched" => e.at > 0)

(* What would bring the pizza back once it is removed.                     *)
Restores(e) ==
  IF consumer = "search" THEN Sellable(e) /\ e.name = "pizza_updated" ELSE StoresPizza(e)

NoteOvertaking(e) ==
  astray' = IF e = announced /\ ~Sellable(e) /\ \E o \in pending : Restores(o)
              THEN astray \cup {"overtaken"} ELSE astray

(* A new document, or all of it when the snapshot is newer: the pizzas in  *)
(* it carry no stamp.  A newer stamp of the restaurant's other fields      *)
(* (module StoreMirrors) may refuse it.                                    *)
InSnapshot(e) ==
  IF Sellable(e) THEN [prices |-> Active(e), at |-> 0] ELSE Absent

UpsertSnapshot(e) ==
  LET new == [at |-> e.opened, pizza |-> InSnapshot(e)]
  IN  index' \in IF index = NoDoc THEN {new}
                 ELSE IF e.opened > index.at THEN {index, new} ELSE {index}

(* The newest message wins.                                                *)
UpsertPizza_unguarded(e) == index' = [index EXCEPT !.pizza = [prices |-> Active(e), at |-> e.at]]

UpsertPizza(e) ==
  index' = IF index.pizza = Absent \/ e.at > index.pizza.at
             THEN [index EXCEPT !.pizza = [prices |-> Active(e), at |-> e.at]] ELSE index

RemovePizza(e) ==
  index' = IF index.pizza # Absent /\ e.at > index.pizza.at
             THEN [index EXCEPT !.pizza = Absent] ELSE index

(* Without a document the scripts fail and the message is retried.         *)
SearchHandles(e) ==
  /\ consumer = "search" /\ e \in pending
  /\ IF e.name = "launched" THEN UpsertSnapshot(e)
     ELSE /\ index # NoDoc
          /\ IF Sellable(e) THEN UpsertPizza(e) ELSE RemovePizza(e)
  /\ NoteOvertaking(e)
  /\ Acknowledge(e)
  /\ UNCHANGED <<source, consumer, order>>

UpsertRow(e) ==
  row' = IF row = Absent \/ row.at < e.at
           THEN [status |-> e.status, at |-> e.at] ELSE row

(* The price rows the message lists, of the given sizes, each under its    *)
(* own guard.                                                              *)
UpsertPriceRows(e, sizes) ==
  priceRows' = [s \in Sizes |->
    IF s \in sizes /\ e.prices[s] # "none" /\ (priceRows[s] = Absent \/ priceRows[s].at < e.at)
      THEN [active |-> s \in Active(e), at |-> e.at] ELSE priceRows[s]]

(* The prices go with the row (ON DELETE CASCADE).                         *)
DeleteRow(e) ==
  IF row # Absent /\ row.at < e.at
    THEN row' = Absent /\ priceRows' = [s \in Sizes |-> Absent]
    ELSE UNCHANGED order

(* A snapshot does nothing about a pizza it leaves out.  (An update of the *)
(* restaurant's fields also creates its row, so the pizza's event need not *)
(* wait for the launch.)                                                   *)
OrderHandles(e) ==
  /\ consumer = "order" /\ e \in pending
  /\ \/ StoresPizza(e) /\ UpsertRow(e) /\ UpsertPriceRows(e, Sizes)
     \/ ~Sellable(e) /\ e.name = "pizza_updated" /\ DeleteRow(e)
     \/ ~Sellable(e) /\ e.name = "launched" /\ UNCHANGED order
  /\ NoteOvertaking(e)
  /\ Acknowledge(e)
  /\ UNCHANGED <<source, consumer, index>>

(* The row and its prices are statements of their own, without a           *)
(* transaction: the database may fail in between and the message is        *)
(* retried.                                                                *)
OrderHandlesPartly(e, sizes) ==
  /\ consumer = "order" /\ e \in pending
  /\ StoresPizza(e) /\ UpsertRow(e) /\ UpsertPriceRows(e, sizes)
  /\ UNCHANGED <<source, consumer, pending, index, astray>>

Next ==
  \/ \E r \in Requests :
       \/ \E cmd \in {"update", "prices", "launch"} : Load(r, cmd)
       \/ ReadPizza(r) \/ ReadPrices(r)
       \/ \E sold \in SUBSET Sizes : UpsertPrices(r, sold)
       \/ FindUnsold(r) \/ DeactivateUnsold(r)
       \/ DrawStamp(r)
       \/ \E s \in Status : UpdatePizza(r, s)
       \/ SetPizzaPrices(r)
       \/ LaunchRestaurant(r)
       \/ Fail(r)
  \/ SaveProfile
  \/ \E e \in pending :
       \/ SearchHandles(e)
       \/ OrderHandles(e)
       \/ \E sizes \in SUBSET Sizes : OrderHandlesPartly(e, sizes)

Spec == Init /\ [][Next]_vars

-----------------------------------------------------------------------------
IndexShows(e) ==
  /\ index # NoDoc
  /\ IF Sellable(e) THEN index.pizza # Absent /\ index.pizza.prices = Active(e)
     ELSE index.pizza = Absent

ReadModelShows(e) ==
  IF Sellable(e)
    THEN /\ row # Absent /\ row.status = e.status
         /\ \A s \in Sizes : e.prices[s] # "none" =>
              priceRows[s] # Absent /\ priceRows[s].active = (s \in Active(e))
    ELSE row = Absent

(* Out-of-order and repeated delivery do no lasting harm: a consumer that  *)
(* has acknowledged everything shows the pizza as it was last announced.   *)
(* Three things can keep it from that.  The last announcement may carry a  *)
(* stamp that is not later, in the units the consumer compares, than one   *)
(* announced before it: they are drawn before the row is locked, and may   *)
(* be equal.  The restaurant may have been launched twice: the index then  *)
(* takes a whole document again, without stamps, and the read model keeps  *)
(* a pizza the second snapshot leaves out, until its next announcement.    *)
(* And the removal last announced may have been taken while an event that  *)
(* restores the pizza was still on its way, which then finds nothing to be *)
(* compared with.  The read model keeps what it has of a size the message  *)
(* does not list.                                                          *)
MirrorsSettle ==
  announced # NoEvent /\ pending = {} /\ astray = {} =>
    IF consumer = "search" THEN IndexShows(announced) ELSE ReadModelShows(announced)

(* A save of an up-to-date copy of a launched restaurant's pizza announces *)
(* exactly the row and the prices it leaves behind; so does a launch.  (A  *)
(* stale one may announce prices another request has replaced, or nothing  *)
(* at all.)                                                                *)
Current(r) ==
  /\ requests[r].seen = pizza
  /\ requests[r].cmd # "prices" => requests[r].prices = prices
  /\ requests[r].active = active

FreshSavesAreAnnounced ==
  [][\A r \in Requests :
       Open(r) /\ Current(r) /\ requests'[r] = Done /\ active'
         /\ <<pizza, prices, active>>' # <<pizza, prices, active>>
       => /\ announced'.status = pizza'.status
          /\ announced'.prices = prices'
          /\ announced'.at = pizza'.at]_vars
=============================================================================
