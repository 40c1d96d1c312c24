----------------------------- MODULE Customers ------------------------------
(***************************************************************************)
(* One customer in the two services that keep a row of their own for it.   *)
(* identity-service announces the user to both; the phone is edited in     *)
(* customer-service and mirrored by order-service; an address is given at  *)
(* an order-service checkout and kept in customer-service's address book.  *)
(* Between them events arrive in any order, more than once, and after      *)
(* MaxRetries failures not at all (modules Outbox and Delivery).           *)
(***************************************************************************)
EXTENDS Naturals, FiniteSets

CONSTANTS Addresses,   \* what ExistsForCustomer compares: house, street, city, postal code
          Orders,      \* checkouts for delivery with saveAddress
          MaxPhones,   \* bound: calls of UpdatePhone
          MaxRetries,  \* MaxRetryAttempts
          NoPhone,     \* a NULL phone
          Idle         \* the worker is not inside AddressSaved.Handle

VARIABLES
  profile,   \* the row of customers in customer-service
  mirror,    \* the row of customers in order-service
  book,      \* the rows of customer_addresses
  orders,    \* the orders placed
  handler,   \* AddressSaved.Handle between its reads and its write
  inflight,  \* the events neither handled nor dead
  dead,      \* the events in a dead-letter queue
  lastPhone, \* history: number of phones committed
  astray,    \* history: what may have kept the last phone from the mirror
  bare       \* history: the default address was deleted and none made since

vars == <<profile, mirror, book, orders, handler, inflight, dead, lastPhone, astray, bare>>

Phones     == 1..MaxPhones
Registered == [event : {"user.registered"}, to : {"customer", "order"}, tries : 0..MaxRetries]
PhoneEvent == [event : {"customer.phone_updated"}, phone : Phones, tries : 0..MaxRetries]
SaveEvent  == [event : {"order.address_saved"}, order : Orders, address : Addresses, tries : 0..MaxRetries]
Message    == Registered \cup PhoneEvent \cup SaveEvent

CustomerRow == [exists : BOOLEAN, phone : Phones \cup {NoPhone}]

ASSUME CustomersAssumption ==
  /\ MaxPhones \in Nat
  /\ MaxRetries \in Nat
  /\ NoPhone \notin Phones
  /\ Idle \notin SaveEvent \X BOOLEAN

TypeOK ==
  /\ profile \in CustomerRow
  /\ mirror \in CustomerRow
  /\ book \in [Addresses -> {"absent", "plain", "default"}]
  /\ orders \in SUBSET Orders
  /\ handler \in (SaveEvent \X BOOLEAN) \cup {Idle}
  /\ inflight \in SUBSET Message
  /\ dead \in SUBSET Message
  /\ lastPhone \in 0..MaxPhones
  /\ astray \in SUBSET {"early", "late", "dead"}
  /\ bare \in BOOLEAN

Init ==
  /\ profile = [exists |-> FALSE, phone |-> NoPhone]
  /\ mirror = [exists |-> FALSE, phone |-> NoPhone]
  /\ book = [a \in Addresses |-> "absent"]
  /\ orders = {}
  /\ handler = Idle
  /\ inflight = {[event |-> "user.registered", to |-> s, tries |-> 0] : s \in {"customer", "order"}}
  /\ dead = {}
  /\ lastPhone = 0
  /\ astray = {}
  /\ bare = FALSE

-----------------------------------------------------------------------------
(* Handled messages are acknowledged, unless the connection breaks first:  *)
(* then the broker delivers them again.                                    *)
Handled(m) == inflight' \in {inflight, inflight \ {m}} /\ UNCHANGED dead

(* A handler's error: republished with one more try, at last dead.         *)
Failed(m) ==
  IF m.tries < MaxRetries
  THEN /\ inflight' = (inflight \ {m}) \cup {[m EXCEPT !.tries = @ + 1]}
       /\ UNCHANGED <<dead, astray>>
  ELSE /\ inflight' = inflight \ {m}
       /\ dead' = dead \cup {m}
       /\ astray' = IF m \in PhoneEvent /\ m.phone = lastPhone THEN astray \cup {"dead"} ELSE astray

(* customer-service, user.registered: Upsert does nothing on a conflict.   *)
StoreCustomer(m) ==
  /\ m \in inflight \cap Registered /\ m.to = "customer"
  /\ handler = Idle
  /\ profile' = [profile EXCEPT !.exists = TRUE]
  /\ Handled(m)
  /\ UNCHANGED <<mirror, book, orders, handler, lastPhone, astray, bare>>

(* order-service, user.registered: likewise.                               *)
MirrorCustomer(m) ==
  /\ m \in inflight \cap Registered /\ m.to = "order"
  /\ mirror' = [mirror EXCEPT !.exists = TRUE]
  /\ Handled(m)
  /\ UNCHANGED <<profile, book, orders, handler, lastPhone, astray, bare>>

-----------------------------------------------------------------------------
(* PUT of the phone: row and outbox event in one transaction, 404 before   *)
(* the row is there.                                                       *)
UpdatePhone ==
  /\ profile.exists
  /\ lastPhone < MaxPhones
  /\ lastPhone' = lastPhone + 1
  /\ profile' = [profile EXCEPT !.phone = lastPhone']
  /\ inflight' = inflight \cup
       {[event |-> "customer.phone_updated", phone |-> lastPhone', tries |-> 0]}
  /\ astray' = {}
  /\ UNCHANGED <<mirror, book, orders, handler, dead, bare>>

(* The update only happens where the row has no phone yet.                 *)
Phoned_onlyFirst(m) ==
  IF mirror.exists /\ mirror.phone = NoPhone THEN [mirror EXCEPT !.phone = m.phone] ELSE mirror

(* UPDATE ... WHERE id: nothing, and no error, where there is no row.      *)
Phoned(m) == IF mirror.exists THEN [mirror EXCEPT !.phone = m.phone] ELSE mirror

(* A phone that comes late replaces the one that came before it.           *)
MirrorPhone(m) ==
  /\ m \in inflight \cap PhoneEvent
  /\ mirror' = Phoned(m)
  /\ astray' = IF m.phone # lastPhone
               THEN IF mirror.phone = lastPhone THEN astray \cup {"late"} ELSE astray
               ELSE IF mirror.exists THEN {} ELSE astray \cup {"early"}
  /\ Handled(m)
  /\ UNCHANGED <<profile, book, orders, handler, lastPhone, bare>>

-----------------------------------------------------------------------------
(* The checkout does not ask for the phone.                                *)
Checkout_anyPhone(k, a) ==
  /\ k \notin orders
  /\ mirror.exists
  /\ orders' = orders \cup {k}
  /\ inflight' = inflight \cup
       {[event |-> "order.address_saved", order |-> k, address |-> a, tries |-> 0]}
  /\ UNCHANGED <<profile, mirror, book, handler, dead, lastPhone, astray, bare>>

(* An order for delivery needs the mirrored customer and a phone; with     *)
(* saveAddress it announces the address in the order's own transaction.    *)
Checkout(k, a) ==
  /\ k \notin orders
  /\ mirror.exists /\ mirror.phone # NoPhone
  /\ orders' = orders \cup {k}
  /\ inflight' = inflight \cup
       {[event |-> "order.address_saved", order |-> k, address |-> a, tries |-> 0]}
  /\ UNCHANGED <<profile, mirror, book, handler, dead, lastPhone, astray, bare>>

(* A saved address never becomes the default by itself.                    *)
IsFirst_never(b) == FALSE

(* len(existing) == 0                                                      *)
IsFirst(b) == \A a \in Addresses : b[a] = "absent"

(* AddressSaved.Handle reads: no-op when the address is there ...          *)
SkipAddress(m) ==
  /\ m \in inflight \cap SaveEvent
  /\ handler = Idle
  /\ book[m.address] # "absent"
  /\ Handled(m)
  /\ UNCHANGED <<profile, mirror, book, orders, handler, lastPhone, astray, bare>>

(* ... else whether it is the first decides whether it is the default.     *)
ReadBook(m) ==
  /\ m \in inflight \cap SaveEvent
  /\ handler = Idle
  /\ book[m.address] = "absent"
  /\ handler' = <<m, IsFirst(book)>>
  /\ UNCHANGED <<profile, mirror, book, orders, inflight, dead, lastPhone, astray, bare>>

(* The row references the customer's.                                      *)
CreateAddress ==
  /\ handler # Idle
  /\ profile.exists
  /\ book' = [book EXCEPT ![handler[1].address] = IF handler[2] THEN "default" ELSE "plain"]
  /\ bare' = (bare /\ ~handler[2])
  /\ handler' = Idle
  /\ Handled(handler[1])
  /\ UNCHANGED <<profile, mirror, orders, lastPhone, astray>>

(* A crash, or no answer from the database: nothing was written.           *)
HandleFails(m) ==
  /\ m \in inflight
  /\ m \in SaveEvent \/ (m \in Registered /\ m.to = "customer")
       => handler \in {Idle} \cup ({m} \X BOOLEAN)
  /\ handler' = IF m \in SaveEvent THEN Idle ELSE handler
  /\ Failed(m)
  /\ UNCHANGED <<profile, mirror, book, orders, lastPhone, bare>>

-----------------------------------------------------------------------------
(* Unset and set in one transaction; of two at once the unique index of    *)
(* default addresses turns the later one away.                             *)
SetDefault(a) ==
  /\ book[a] # "absent"
  /\ book' = [b \in Addresses |->
                IF b = a THEN "default" ELSE IF book[b] = "default" THEN "plain" ELSE book[b]]
  /\ bare' = FALSE
  /\ UNCHANGED <<profile, mirror, orders, handler, inflight, dead, lastPhone, astray>>

(* Deleting the default promotes no other.                                 *)
DeleteAddress(a) ==
  /\ book[a] # "absent"
  /\ book' = [book EXCEPT ![a] = "absent"]
  /\ bare' = (bare \/ book[a] = "default")
  /\ UNCHANGED <<profile, mirror, orders, handler, inflight, dead, lastPhone, astray>>

Next ==
  \/ UpdatePhone
  \/ CreateAddress
  \/ \E m \in inflight :
       StoreCustomer(m) \/ MirrorCustomer(m) \/ MirrorPhone(m)
         \/ SkipAddress(m) \/ ReadBook(m) \/ HandleFails(m)
  \/ \E a \in Addresses :
       (\E k \in Orders : Checkout(k, a)) \/ SetDefault(a) \/ DeleteAddress(a)

Spec == Init /\ [][Next]_vars

-----------------------------------------------------------------------------
(* Order-service never announces an address of a customer that             *)
(* customer-service does not know yet, so AddressSaved never fails on the  *)
(* foreign key - although neither service asks the other, and the two      *)
(* learn of the user in either order: the phone a delivery needs can only  *)
(* have come from customer-service's own row.                              *)
AddressHasOwner ==
  \A m \in inflight \cup dead : m \in SaveEvent => profile.exists

(* Once the last phone's event is out of the way the mirror shows it,      *)
(* except when it came before the mirror's row, when an earlier one came   *)
(* after it, or when it is dead.                                           *)
PhoneSettles ==
  /\ lastPhone # 0
  /\ astray = {}
  /\ \A m \in inflight \cap PhoneEvent : m.phone # lastPhone
  => mirror.phone = profile.phone

(* At most one address is the default, and when none is, the customer      *)
(* deleted the one that was: whichever address is saved first becomes it,  *)
(* also when a retry or a deletion comes between the read and the write.   *)
DefaultHasReason ==
  /\ \A a, b \in Addresses : book[a] = "default" /\ book[b] = "default" => a = b
  /\ (\E a \in Addresses : book[a] # "absent") /\ (\A a \in Addresses : book[a] # "default") => bare
=============================================================================
