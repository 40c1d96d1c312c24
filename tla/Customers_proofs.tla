-------------------------- MODULE Customers_proofs --------------------------
(***************************************************************************)
(* The customer of three services.  For any number of addresses, orders,   *)
(* phones and retries: what two of them that never ask one another agree   *)
(* on.  For any number of code requests, registrations, refresh calls and  *)
(* tokens: how an email address becomes an account of the third, and what  *)
(* becomes of its sessions.                                                *)
(***************************************************************************)
EXTENDS Customers, Accounts, FiniteSetTheorems, WellFoundedInduction, TLAPS

(* Kinds of message never mix, whatever a retry does to the counter.       *)
LEMMA Retried ==
  ASSUME NEW m \in Message, m.tries < MaxRetries,
         NEW r, r = [m EXCEPT !.tries = @ + 1]
  PROVE  /\ r \in Message
         /\ r \in Registered <=> m \in Registered
         /\ r \in PhoneEvent <=> m \in PhoneEvent
         /\ r \in SaveEvent <=> m \in SaveEvent
         /\ m \in PhoneEvent => r.phone = m.phone
<1>1. CASE m \in Registered
  <2>1. r = [event |-> "user.registered", to |-> m.to, tries |-> m.tries + 1]
    BY <1>1 DEF Registered
  <2>2. QED
    BY <1>1, <2>1, CustomersAssumption DEF Registered, PhoneEvent, SaveEvent, Message
<1>2. CASE m \in PhoneEvent
  <2>1. r = [event |-> "customer.phone_updated", phone |-> m.phone, tries |-> m.tries + 1]
    BY <1>2 DEF PhoneEvent
  <2>2. QED
    BY <1>2, <2>1, CustomersAssumption DEF Registered, PhoneEvent, SaveEvent, Message
<1>3. CASE m \in SaveEvent
  <2>1. r = [event |-> "order.address_saved", order |-> m.order, address |-> m.address, tries |-> m.tries + 1]
    BY <1>3 DEF SaveEvent
  <2>2. QED
    BY <1>3, <2>1, CustomersAssumption DEF Registered, PhoneEvent, SaveEvent, Message
<1>4. QED
  BY <1>1, <1>2, <1>3 DEF Message

LEMMA Kinds ==
  ASSUME NEW m \in Message
  PROVE  /\ ~(m \in PhoneEvent /\ m \in SaveEvent)
         /\ ~(m \in PhoneEvent /\ m \in Registered)
         /\ ~(m \in SaveEvent /\ m \in Registered)
  BY DEF Message, PhoneEvent, SaveEvent, Registered

(* What a handler's error does to the messages.                            *)
LEMMA FailedKeeps ==
  ASSUME TypeOK, NEW m \in inflight, Failed(m)
  PROVE  /\ inflight' \in SUBSET Message
         /\ dead' \in SUBSET Message
         /\ astray' \in SUBSET {"early", "late", "dead"}
         /\ \A n \in inflight' \cup dead' :
              \E o \in inflight \cup dead :
                /\ n \in PhoneEvent <=> o \in PhoneEvent
                /\ n \in SaveEvent <=> o \in SaveEvent
         /\ \A o \in inflight \cap PhoneEvent :
              \/ \E n \in inflight' \cap PhoneEvent : n.phone = o.phone
              \/ o.phone # lastPhone
              \/ astray' # {}
         /\ astray' = {} => astray = {}
<1>0. m \in Message /\ inflight \in SUBSET Message /\ dead \in SUBSET Message
  BY DEF TypeOK
<1>1. CASE m.tries < MaxRetries
  <2> DEFINE r == [m EXCEPT !.tries = @ + 1]
  <2>1. /\ r \in Message
        /\ r \in PhoneEvent <=> m \in PhoneEvent
        /\ r \in SaveEvent <=> m \in SaveEvent
        /\ m \in PhoneEvent => r.phone = m.phone
    BY <1>0, <1>1, Retried
  <2>2. inflight' = (inflight \ {m}) \cup {r} /\ dead' = dead /\ astray' = astray
    BY <1>1 DEF Failed
  <2> HIDE DEF r
  <2>3. \A o \in inflight \cap PhoneEvent : \E n \in inflight' \cap PhoneEvent : n.phone = o.phone
    BY <2>1, <2>2
  <2>4. \A n \in inflight' \cup dead' :
          \E o \in inflight \cup dead :
            /\ n \in PhoneEvent <=> o \in PhoneEvent
            /\ n \in SaveEvent <=> o \in SaveEvent
    BY <2>1, <2>2
  <2>5. astray' \in SUBSET {"early", "late", "dead"}
    BY <2>2 DEF TypeOK
  <2>6. inflight' \in SUBSET Message /\ dead' \in SUBSET Message
    BY <1>0, <2>1, <2>2
  <2>7. QED
    BY <2>2, <2>3, <2>4, <2>5, <2>6
<1>2. CASE ~(m.tries < MaxRetries)
  <2>1. /\ inflight' = inflight \ {m}
        /\ dead' = dead \cup {m}
        /\ astray' = IF m \in PhoneEvent /\ m.phone = lastPhone THEN astray \cup {"dead"} ELSE astray
    BY <1>2 DEF Failed
  <2>2. inflight' \in SUBSET Message /\ dead' \in SUBSET Message
    BY <1>0, <2>1
  <2>3. astray' \in SUBSET {"early", "late", "dead"} /\ (astray' = {} => astray = {})
    BY <2>1 DEF TypeOK
  <2>4. \A o \in inflight \cap PhoneEvent :
          \/ \E n \in inflight' \cap PhoneEvent : n.phone = o.phone
          \/ o.phone # lastPhone
          \/ astray' # {}
    BY <2>1
  <2>5. \A n \in inflight' \cup dead' : n \in inflight \cup dead
    BY <2>1
  <2>6. QED
    BY <2>2, <2>3, <2>4, <2>5
<1>3. QED
  BY <1>1, <1>2

-----------------------------------------------------------------------------
(* Customers is well typed: a retry never passes the budget, and what the  *)
(* worker holds between its reads and its write is one of the messages.    *)
LEMMA Type_Init == Init => TypeOK
<1> SUFFICES ASSUME Init PROVE TypeOK
  OBVIOUS
<1> USE CustomersAssumption
<1>1. \A s \in {"customer", "order"} :
        [event |-> "user.registered", to |-> s, tries |-> 0] \in Message
  BY DEF Message, Registered
<1>2. inflight \in SUBSET Message
  BY <1>1 DEF Init
<1>3. profile \in CustomerRow /\ mirror \in CustomerRow
  BY DEF Init, CustomerRow
<1>4. book \in [Addresses -> {"absent", "plain", "default"}]
  BY DEF Init
<1>5. handler \in (SaveEvent \X BOOLEAN) \cup {Idle}
  BY DEF Init
<1>6. orders \in SUBSET Orders /\ dead \in SUBSET Message /\ lastPhone \in 0..MaxPhones
  BY DEF Init
<1>7. astray \in SUBSET {"early", "late", "dead"} /\ bare \in BOOLEAN
  BY DEF Init
<1>8. QED
  BY <1>2, <1>3, <1>4, <1>5, <1>6, <1>7 DEF TypeOK

LEMMA Type_Handled ==
  ASSUME TypeOK, NEW m, Handled(m)
  PROVE  inflight' \in SUBSET Message /\ dead' \in SUBSET Message
  BY DEF TypeOK, Handled

LEMMA Type_Next == TypeOK /\ [Next]_vars => TypeOK'
<1> SUFFICES ASSUME TypeOK, [Next]_vars PROVE TypeOK'
  OBVIOUS
<1> USE CustomersAssumption
<1>1. CASE UpdatePhone
  <2>0. lastPhone' = lastPhone + 1 /\ lastPhone' \in Phones
    BY <1>1 DEF UpdatePhone, TypeOK, Phones
  <2>1. profile' = [exists |-> profile.exists, phone |-> lastPhone'] /\ lastPhone' \in Phones
    BY <1>1, <2>0 DEF UpdatePhone, TypeOK, CustomerRow
  <2>2. [event |-> "customer.phone_updated", phone |-> lastPhone', tries |-> 0] \in Message
    BY <2>1 DEF Message, PhoneEvent
  <2>3. profile' \in CustomerRow /\ inflight' \in SUBSET Message
    BY <1>1, <2>1, <2>2 DEF UpdatePhone, TypeOK, CustomerRow
  <2>4. QED
    BY <1>1, <2>1, <2>3 DEF UpdatePhone, TypeOK, Phones
<1>2. CASE CreateAddress
  <2>1. inflight' \in SUBSET Message /\ dead' \in SUBSET Message
    BY <1>2, Type_Handled DEF CreateAddress
  <2>2. book' \in [Addresses -> {"absent", "plain", "default"}]
    BY <1>2 DEF CreateAddress, TypeOK
  <2>3. QED
    BY <1>2, <2>1, <2>2 DEF CreateAddress, TypeOK
<1>3. ASSUME NEW m \in inflight, StoreCustomer(m) PROVE TypeOK'
  <2>1. profile' = [exists |-> TRUE, phone |-> profile.phone]
    BY <1>3 DEF StoreCustomer, TypeOK, CustomerRow
  <2>2. profile' \in CustomerRow
    BY <2>1 DEF TypeOK, CustomerRow
  <2>3. QED
    BY <1>3, <2>2, Type_Handled DEF StoreCustomer, TypeOK
<1>4. ASSUME NEW m \in inflight, MirrorCustomer(m) PROVE TypeOK'
  <2>1. mirror' = [exists |-> TRUE, phone |-> mirror.phone]
    BY <1>4 DEF MirrorCustomer, TypeOK, CustomerRow
  <2>2. mirror' \in CustomerRow
    BY <2>1 DEF TypeOK, CustomerRow
  <2>3. QED
    BY <1>4, <2>2, Type_Handled DEF MirrorCustomer, TypeOK
<1>5. ASSUME NEW m \in inflight, MirrorPhone(m) PROVE TypeOK'
  <2>1. m.phone \in Phones
    BY <1>5 DEF MirrorPhone, PhoneEvent
  <2>2. mirror' \in {mirror, [exists |-> mirror.exists, phone |-> m.phone]}
    BY <1>5 DEF MirrorPhone, Phoned, TypeOK, CustomerRow
  <2>3. mirror' \in CustomerRow
    BY <2>1, <2>2 DEF TypeOK, CustomerRow
  <2>4. astray' \in SUBSET {"early", "late", "dead"}
    BY <1>5 DEF MirrorPhone, TypeOK
  <2>5. inflight' \in SUBSET Message /\ dead' \in SUBSET Message
    BY <1>5, Type_Handled DEF MirrorPhone
  <2>6. QED
    BY <1>5, <2>3, <2>4, <2>5 DEF MirrorPhone, TypeOK
<1>6. ASSUME NEW m \in inflight, SkipAddress(m) PROVE TypeOK'
  BY <1>6, Type_Handled DEF SkipAddress, TypeOK
<1>7. ASSUME NEW m \in inflight, ReadBook(m) PROVE TypeOK'
  <2>1. handler' \in SaveEvent \X BOOLEAN
    BY <1>7 DEF ReadBook, IsFirst
  <2>2. QED
    BY <1>7, <2>1 DEF ReadBook, TypeOK
<1>8. ASSUME NEW m \in inflight, HandleFails(m) PROVE TypeOK'
  <2>1. /\ inflight' \in SUBSET Message
        /\ dead' \in SUBSET Message
        /\ astray' \in SUBSET {"early", "late", "dead"}
    BY <1>8, FailedKeeps DEF HandleFails
  <2>2. handler' \in (SaveEvent \X BOOLEAN) \cup {Idle}
    BY <1>8 DEF HandleFails, TypeOK
  <2>3. QED
    BY <1>8, <2>1, <2>2 DEF HandleFails, TypeOK
<1>9. ASSUME NEW a \in Addresses, NEW k \in Orders, Checkout(k, a) PROVE TypeOK'
  <2>1. [event |-> "order.address_saved", order |-> k, address |-> a, tries |-> 0] \in Message
    BY DEF Message, SaveEvent
  <2>2. QED
    BY <1>9, <2>1 DEF Checkout, TypeOK
<1>10. ASSUME NEW a \in Addresses, SetDefault(a) PROVE TypeOK'
  BY <1>10 DEF SetDefault, TypeOK
<1>11. ASSUME NEW a \in Addresses, DeleteAddress(a) PROVE TypeOK'
  BY <1>11 DEF DeleteAddress, TypeOK
<1>12. CASE UNCHANGED vars
  BY <1>12 DEF vars, TypeOK
<1>13. QED
  BY <1>1, <1>2, <1>3, <1>4, <1>5, <1>6, <1>7, <1>8, <1>9, <1>10, <1>11, <1>12 DEF Next

(* Every reachable state of both services' rows and messages is well       *)
(* typed: in particular no message is retried past MaxRetries.             *)
THEOREM TypeCorrect == Spec => []TypeOK
  BY Type_Init, Type_Next, PTL DEF Spec

-----------------------------------------------------------------------------
(* Why an address cannot arrive before its customer: the checkout needs a  *)
(* mirrored phone, the phone came in an event, and the event came from the *)
(* row that the address will reference.                                    *)
Owner ==
  /\ mirror.phone # NoPhone => profile.exists
  /\ \A m \in inflight \cup dead : m \in PhoneEvent \/ m \in SaveEvent => profile.exists

LEMMA Owner_Init == Init => Owner
<1> SUFFICES ASSUME Init PROVE Owner
  OBVIOUS
<1>1. mirror.phone = NoPhone
  BY DEF Init
<1>2. \A m \in inflight \cup dead : m.event = "user.registered"
  BY DEF Init
<1>3. \A m : m \in PhoneEvent \/ m \in SaveEvent => m.event # "user.registered"
  BY DEF PhoneEvent, SaveEvent
<1>4. QED
  BY <1>1, <1>2, <1>3 DEF Owner

LEMMA Owner_Same ==
  ASSUME Owner, mirror' = mirror, profile' = profile,
         inflight' \in SUBSET inflight, dead' = dead
  PROVE  Owner'
  BY DEF Owner

LEMMA Owner_Next == TypeOK /\ Owner /\ [Next]_vars => Owner'
<1> SUFFICES ASSUME TypeOK, Owner, [Next]_vars PROVE Owner'
  OBVIOUS
<1>1. CASE UpdatePhone
  <2>1. profile.exists /\ profile'.exists /\ mirror' = mirror /\ dead' = dead
    BY <1>1 DEF UpdatePhone, TypeOK, CustomerRow
  <2>2. QED
    BY <2>1 DEF Owner
<1>2. CASE CreateAddress
  BY <1>2, Owner_Same DEF CreateAddress, Handled
<1>3. ASSUME NEW m \in inflight, StoreCustomer(m) PROVE Owner'
  <2>1. profile'.exists
    BY <1>3 DEF StoreCustomer, TypeOK, CustomerRow
  <2>2. QED
    BY <2>1 DEF Owner
<1>4. ASSUME NEW m \in inflight, MirrorCustomer(m) PROVE Owner'
  <2>1. mirror'.phone = mirror.phone /\ profile' = profile
    BY <1>4 DEF MirrorCustomer, TypeOK, CustomerRow
  <2>2. inflight' \in SUBSET inflight /\ dead' = dead
    BY <1>4 DEF MirrorCustomer, Handled
  <2>3. QED
    BY <2>1, <2>2 DEF Owner
<1>5. ASSUME NEW m \in inflight, MirrorPhone(m) PROVE Owner'
  <2>1. profile.exists /\ profile' = profile
    BY <1>5 DEF MirrorPhone, Owner
  <2>2. QED
    BY <2>1 DEF Owner
<1>6. ASSUME NEW m \in inflight, SkipAddress(m) PROVE Owner'
  BY <1>6, Owner_Same DEF SkipAddress, Handled
<1>7. ASSUME NEW m \in inflight, ReadBook(m) PROVE Owner'
  BY <1>7, Owner_Same DEF ReadBook
<1>8. ASSUME NEW m \in inflight, HandleFails(m) PROVE Owner'
  <2>1. \A n \in inflight' \cup dead' :
          \E o \in inflight \cup dead :
            /\ n \in PhoneEvent <=> o \in PhoneEvent
            /\ n \in SaveEvent <=> o \in SaveEvent
    BY <1>8, FailedKeeps DEF HandleFails
  <2>2. profile' = profile /\ mirror' = mirror
    BY <1>8 DEF HandleFails
  <2>3. QED
    BY <2>1, <2>2 DEF Owner
<1>9. ASSUME NEW a \in Addresses, NEW k \in Orders, Checkout(k, a) PROVE Owner'
  <2>1. profile.exists /\ profile' = profile
    BY <1>9 DEF Checkout, Owner
  <2>2. QED
    BY <2>1 DEF Owner
<1>10. ASSUME NEW a \in Addresses, SetDefault(a) PROVE Owner'
  BY <1>10, Owner_Same DEF SetDefault
<1>11. ASSUME NEW a \in Addresses, DeleteAddress(a) PROVE Owner'
  BY <1>11, Owner_Same DEF DeleteAddress
<1>12. CASE UNCHANGED vars
  BY <1>12, Owner_Same DEF vars
<1>13. QED
  BY <1>1, <1>2, <1>3, <1>4, <1>5, <1>6, <1>7, <1>8, <1>9, <1>10, <1>11, <1>12 DEF Next

(* AddressSaved.Handle never meets an address whose customer is unknown,   *)
(* for any number of orders, phones and retries and any order of events.   *)
THEOREM Address_HasOwner == Spec => []AddressHasOwner
<1>1. Owner => AddressHasOwner
  BY DEF Owner, AddressHasOwner
<1>2. QED
  BY <1>1, Type_Init, Type_Next, Owner_Init, Owner_Next, PTL DEF Spec

-----------------------------------------------------------------------------
(* The last phone is in the mirror, under way, or known to be astray.      *)
Phone ==
  lastPhone # 0 =>
    /\ profile.phone = lastPhone
    /\ \/ mirror.phone = lastPhone
       \/ \E m \in inflight \cap PhoneEvent : m.phone = lastPhone
       \/ astray # {}

LEMMA Phone_Same ==
  ASSUME Phone, profile'.phone = profile.phone, mirror'.phone = mirror.phone,
         lastPhone' = lastPhone, astray' = astray,
         inflight' \cap PhoneEvent = inflight \cap PhoneEvent
  PROVE  Phone'
  BY DEF Phone

(* Acknowledging a message that carries no phone.                          *)
LEMMA Phone_Kept ==
  ASSUME TypeOK, NEW m \in Message, m \notin PhoneEvent, Handled(m)
  PROVE  inflight' \cap PhoneEvent = inflight \cap PhoneEvent
  BY DEF Handled

LEMMA Phone_Next == TypeOK /\ Phone /\ [Next]_vars => Phone'
<1> SUFFICES ASSUME TypeOK, Phone, [Next]_vars PROVE Phone'
  OBVIOUS
<1>0. inflight \in SUBSET Message
  BY DEF TypeOK
<1>1. CASE UpdatePhone
  <2> DEFINE e == [event |-> "customer.phone_updated", phone |-> lastPhone', tries |-> 0]
  <2>1. lastPhone' \in Phones
    BY <1>1, CustomersAssumption DEF UpdatePhone, TypeOK, Phones
  <2>2. e \in PhoneEvent /\ e.phone = lastPhone'
    BY <2>1, CustomersAssumption DEF PhoneEvent
  <2>3. profile'.phone = lastPhone' /\ e \in inflight'
    BY <1>1 DEF UpdatePhone, TypeOK, CustomerRow
  <2> HIDE DEF e
  <2>4. QED
    BY <2>2, <2>3 DEF Phone
<1>2. CASE CreateAddress
  <2>1. handler[1] \in SaveEvent
    BY <1>2 DEF CreateAddress, TypeOK
  <2>2. handler[1] \in Message /\ handler[1] \notin PhoneEvent
    BY <2>1, Kinds DEF Message
  <2>3. QED
    BY <1>2, <2>2, Phone_Kept, Phone_Same DEF CreateAddress
<1>3. ASSUME NEW m \in inflight, StoreCustomer(m) PROVE Phone'
  <2>1. m \in Message /\ m \notin PhoneEvent
    BY <1>0, <1>3, Kinds DEF StoreCustomer
  <2>2. profile'.phone = profile.phone
    BY <1>3 DEF StoreCustomer, TypeOK, CustomerRow
  <2>3. QED
    BY <1>3, <2>1, <2>2, Phone_Kept, Phone_Same DEF StoreCustomer
<1>4. ASSUME NEW m \in inflight, MirrorCustomer(m) PROVE Phone'
  <2>1. m \in Message /\ m \notin PhoneEvent
    BY <1>0, <1>4, Kinds DEF MirrorCustomer
  <2>2. mirror'.phone = mirror.phone
    BY <1>4 DEF MirrorCustomer, TypeOK, CustomerRow
  <2>3. QED
    BY <1>4, <2>1, <2>2, Phone_Kept, Phone_Same DEF MirrorCustomer
<1>5. ASSUME NEW m \in inflight, MirrorPhone(m) PROVE Phone'
  <2>0. /\ profile' = profile /\ lastPhone' = lastPhone
        /\ inflight' \in {inflight, inflight \ {m}}
    BY <1>5 DEF MirrorPhone, Handled
  <2>1. CASE m.phone = lastPhone /\ mirror.exists
    <3>1. mirror'.phone = lastPhone
      BY <1>5, <2>1 DEF MirrorPhone, Phoned, TypeOK, CustomerRow
    <3>2. QED
      BY <2>0, <3>1 DEF Phone
  <2>2. CASE m.phone = lastPhone /\ ~mirror.exists
    <3>1. astray' # {}
      BY <1>5, <2>2 DEF MirrorPhone
    <3>2. QED
      BY <2>0, <3>1 DEF Phone
  <2>3. CASE m.phone # lastPhone /\ mirror.phone = lastPhone
    <3>1. astray' # {}
      BY <1>5, <2>3 DEF MirrorPhone
    <3>2. QED
      BY <2>0, <3>1 DEF Phone
  <2>4. CASE m.phone # lastPhone /\ mirror.phone # lastPhone
    <3>1. astray' = astray
      BY <1>5, <2>4 DEF MirrorPhone
    <3>2. QED
      BY <2>0, <2>4, <3>1 DEF Phone
  <2>5. QED
    BY <2>1, <2>2, <2>3, <2>4
<1>6. ASSUME NEW m \in inflight, SkipAddress(m) PROVE Phone'
  <2>1. m \in Message /\ m \notin PhoneEvent
    BY <1>0, <1>6, Kinds DEF SkipAddress
  <2>2. QED
    BY <1>6, <2>1, Phone_Kept, Phone_Same DEF SkipAddress
<1>7. ASSUME NEW m \in inflight, ReadBook(m) PROVE Phone'
  BY <1>7, Phone_Same DEF ReadBook
<1>8. ASSUME NEW m \in inflight, HandleFails(m) PROVE Phone'
  <2>1. /\ \A o \in inflight \cap PhoneEvent :
             \/ \E n \in inflight' \cap PhoneEvent : n.phone = o.phone
             \/ o.phone # lastPhone
             \/ astray' # {}
        /\ astray' = {} => astray = {}
    BY <1>8, FailedKeeps DEF HandleFails
  <2>2. profile' = profile /\ mirror' = mirror /\ lastPhone' = lastPhone
    BY <1>8 DEF HandleFails
  <2>3. QED
    BY <2>1, <2>2 DEF Phone
<1>9. ASSUME NEW a \in Addresses, NEW k \in Orders, Checkout(k, a) PROVE Phone'
  <2>1. /\ profile' = profile /\ mirror' = mirror /\ lastPhone' = lastPhone
        /\ astray' = astray /\ inflight \in SUBSET inflight'
    BY <1>9 DEF Checkout
  <2>2. QED
    BY <2>1 DEF Phone
<1>10. ASSUME NEW a \in Addresses, SetDefault(a) PROVE Phone'
  BY <1>10, Phone_Same DEF SetDefault
<1>11. ASSUME NEW a \in Addresses, DeleteAddress(a) PROVE Phone'
  BY <1>11, Phone_Same DEF DeleteAddress
<1>12. CASE UNCHANGED vars
  BY <1>12, Phone_Same DEF vars
<1>13. QED
  BY <1>1, <1>2, <1>3, <1>4, <1>5, <1>6, <1>7, <1>8, <1>9, <1>10, <1>11, <1>12 DEF Next

(* Whatever the order of the events, a mirror that ends without the last   *)
(* phone took that phone too early, an older one after it, or never.       *)
THEOREM Phone_Settles == Spec => []PhoneSettles
<1>1. Init => Phone
  BY DEF Init, Phone
<1>2. Phone => PhoneSettles
  BY DEF Phone, PhoneSettles
<1>3. QED
  BY <1>1, <1>2, Type_Init, Type_Next, Phone_Next, PTL DEF Spec

-----------------------------------------------------------------------------
(* What the worker read still holds when it writes: only it adds rows, so  *)
(* an empty book stays empty, and a book that was not empty has a default  *)
(* or lost it to the customer.                                             *)
HasDefault == \E a \in Addresses : book[a] = "default"

Read ==
  handler # Idle =>
    /\ book[handler[1].address] = "absent"
    /\ handler[2] => \A a \in Addresses : book[a] = "absent"
    /\ ~handler[2] => HasDefault \/ bare

BookInv == Read /\ DefaultHasReason

(* Only the handler, the customer's choice and deletion touch the book.    *)
LEMMA Book_Same ==
  ASSUME BookInv, handler' = handler, book' = book, bare' = bare
  PROVE  BookInv'
  BY DEF BookInv, Read, DefaultHasReason, HasDefault

LEMMA Book_Next == TypeOK /\ BookInv /\ [Next]_vars => BookInv'
<1> SUFFICES ASSUME TypeOK, BookInv, [Next]_vars PROVE BookInv'
  OBVIOUS
<1>0. Read /\ DefaultHasReason /\ book \in [Addresses -> {"absent", "plain", "default"}] /\ bare \in BOOLEAN
  BY DEF BookInv, TypeOK
<1>1. CASE UpdatePhone
  BY <1>1, Book_Same DEF UpdatePhone
<1>2. CASE CreateAddress
  <2> DEFINE a == handler[1].address
  <2>1. /\ handler \in SaveEvent \X BOOLEAN
        /\ handler # Idle /\ handler' = Idle
        /\ bare' = (bare /\ ~handler[2])
        /\ book' = [book EXCEPT ![a] = IF handler[2] THEN "default" ELSE "plain"]
    BY <1>2 DEF CreateAddress, TypeOK
  <2>2. a \in Addresses /\ handler[2] \in BOOLEAN
    BY <2>1 DEF SaveEvent
  <2>3. Read'
    BY <2>1 DEF Read
  <2> HIDE DEF a
  <2>4. CASE handler[2]
    <3>1. \A b \in Addresses : book[b] = "absent"
      BY <1>0, <2>1, <2>4 DEF Read
    <3>2. book'[a] = "default" /\ \A b \in Addresses : b # a => book'[b] = "absent"
      BY <1>0, <2>1, <2>2, <2>4, <3>1
    <3>3. QED
      BY <2>2, <2>3, <3>2 DEF BookInv, DefaultHasReason
  <2>5. CASE ~handler[2]
    <3>1. book[a] = "absent" /\ (HasDefault \/ bare) /\ bare' = bare
      BY <1>0, <2>1, <2>5 DEF Read, a
    <3>2. book'[a] = "plain" /\ \A b \in Addresses : b # a => book'[b] = book[b]
      BY <1>0, <2>1, <2>2, <2>5
    <3>3. \A b \in Addresses : book'[b] = "default" <=> book[b] = "default"
      BY <3>1, <3>2
    <3>4. QED
      BY <1>0, <2>3, <3>1, <3>3 DEF BookInv, DefaultHasReason, HasDefault
  <2>6. QED
    BY <2>4, <2>5
<1>3. ASSUME NEW m \in inflight, StoreCustomer(m) PROVE BookInv'
  BY <1>3, Book_Same DEF StoreCustomer
<1>4. ASSUME NEW m \in inflight, MirrorCustomer(m) PROVE BookInv'
  BY <1>4, Book_Same DEF MirrorCustomer
<1>5. ASSUME NEW m \in inflight, MirrorPhone(m) PROVE BookInv'
  BY <1>5, Book_Same DEF MirrorPhone
<1>6. ASSUME NEW m \in inflight, SkipAddress(m) PROVE BookInv'
  BY <1>6, Book_Same DEF SkipAddress
<1>7. ASSUME NEW m \in inflight, ReadBook(m) PROVE BookInv'
  <2>1. /\ handler'[1] = m /\ handler'[2] = IsFirst(book)
        /\ book' = book /\ bare' = bare /\ book[m.address] = "absent"
    BY <1>7 DEF ReadBook
  <2>2. IsFirst(book) => \A a \in Addresses : book[a] = "absent"
    BY DEF IsFirst
  <2>3. ~IsFirst(book) => HasDefault \/ bare
    BY <1>0 DEF IsFirst, DefaultHasReason, HasDefault
  <2>4. Read'
    BY <2>1, <2>2, <2>3 DEF Read, HasDefault
  <2>5. QED
    BY <1>0, <2>1, <2>4 DEF BookInv, DefaultHasReason
<1>8. ASSUME NEW m \in inflight, HandleFails(m) PROVE BookInv'
  <2>1. book' = book /\ bare' = bare /\ handler' \in {handler, Idle}
    BY <1>8 DEF HandleFails
  <2>2. QED
    BY <1>0, <2>1 DEF BookInv, Read, DefaultHasReason, HasDefault
<1>9. ASSUME NEW a \in Addresses, NEW k \in Orders, Checkout(k, a) PROVE BookInv'
  BY <1>9, Book_Same DEF Checkout
<1>10. ASSUME NEW a \in Addresses, SetDefault(a) PROVE BookInv'
  <2>1. /\ book[a] # "absent" /\ handler' = handler
        /\ \A b \in Addresses :
             /\ book'[b] = "default" <=> b = a
             /\ book'[b] = "absent" <=> book[b] = "absent"
    BY <1>0, <1>10 DEF SetDefault
  <2>2. DefaultHasReason'
    BY <2>1 DEF DefaultHasReason
  <2>3. handler # Idle => ~handler[2]
    BY <1>0, <2>1 DEF Read
  <2>4. handler # Idle => handler[1].address \in Addresses
    BY DEF TypeOK, SaveEvent
  <2>5. HasDefault'
    BY <2>1 DEF HasDefault
  <2>6. Read'
    BY <1>0, <2>1, <2>3, <2>4, <2>5 DEF Read
  <2>7. QED
    BY <2>2, <2>6 DEF BookInv
<1>11. ASSUME NEW a \in Addresses, DeleteAddress(a) PROVE BookInv'
  <2>1. /\ book[a] # "absent" /\ handler' = handler
        /\ book'[a] = "absent"
        /\ \A b \in Addresses : b # a => book'[b] = book[b]
        /\ bare' = (bare \/ book[a] = "default")
    BY <1>0, <1>11 DEF DeleteAddress
  <2>2. HasDefault \/ bare => HasDefault' \/ bare'
    BY <2>1 DEF HasDefault
  <2>3. DefaultHasReason'
    BY <1>0, <2>1, <2>2 DEF DefaultHasReason, HasDefault
  <2>4. handler # Idle => handler[1].address \in Addresses
    BY DEF TypeOK, SaveEvent
  <2>5. Read'
    BY <1>0, <2>1, <2>2, <2>4 DEF Read
  <2>6. QED
    BY <2>3, <2>5 DEF BookInv
<1>12. CASE UNCHANGED vars
  BY <1>12, Book_Same DEF vars
<1>13. QED
  BY <1>1, <1>2, <1>3, <1>4, <1>5, <1>6, <1>7, <1>8, <1>9, <1>10, <1>11, <1>12 DEF Next

(* AddressSaved's read and write are two statements, and still a book has  *)
(* one default at most, and one unless the customer deleted it.            *)
THEOREM Default_HasReason == Spec => []DefaultHasReason
<1>1. Init => BookInv
  BY DEF Init, BookInv, Read, DefaultHasReason
<1>2. BookInv => DefaultHasReason
  BY DEF BookInv
<1>3. QED
  BY <1>1, <1>2, Type_Init, Type_Next, Book_Next, PTL DEF Spec

-----------------------------------------------------------------------------
(* The sessions of an account                                              *)

(* A session that slipped nowhere is refreshed by one call at a time, which*)
(* holds every token of it that counts; one that was logged out is refreshed*)
(* by none.                                                                *)
OneRefresh ==
  /\ \A c \in Calls : calls[c].new # None =>
       calls[c].old # None /\ session[calls[c].new] = session[calls[c].old]
  /\ \A c, d \in Calls :
       calls[c].old # None /\ calls[d].old # None /\ session[calls[c].old] = session[calls[d].old]
         => c = d \/ session[calls[c].old] \in slips
  /\ \A c \in Calls, t \in live :
       calls[c].old # None /\ session[t] = session[calls[c].old]
         => t \in {calls[c].old, calls[c].new} \/ session[t] \in slips
  /\ \A c \in Calls : calls[c].old # None => session[calls[c].old] \notin ended

SessionsInv == SessionsTypeOK /\ OneRefresh /\ RotationHasReason /\ LoggedOutStaysOut

LEMMA SessionsInitInv == SessionsInit => SessionsInv
<1> SUFFICES ASSUME SessionsInit PROVE SessionsInv
  OBVIOUS
<1>1. session \in [1..0 -> 1..0] /\ Issued = {}
  BY DEF SessionsInit, Issued
<1>2. SessionsTypeOK
  BY <1>1, SessionsAssumption DEF SessionsInit, SessionsTypeOK, Closed, None
<1> QED
  BY <1>1, <1>2 DEF SessionsInit, SessionsInv, OneRefresh, RotationHasReason, LoggedOutStaysOut, Closed

(* A token is never None.                                                  *)
LEMMA IssuedTokens ==
  ASSUME SessionsTypeOK
  PROVE  /\ None \notin Issued
         /\ \A u \in Issued : session[u] \in Issued
         /\ live \subseteq Issued /\ slips \subseteq Issued /\ ended \subseteq Issued
         /\ \A c \in Calls : /\ calls[c].old \in Issued \cup {None}
                            /\ calls[c].new \in Issued \cup {None}
  BY DEF SessionsTypeOK, Issued, None

(* The next token is one nobody has seen.                                  *)
LEMMA SaveType ==
  ASSUME SessionsTypeOK, NEW t \in Tokens, NEW s \in Issued \cup {t}, Save(t, s)
  PROVE  /\ t \notin Issued
         /\ Issued' = Issued \cup {t}
         /\ \E n \in 0..MaxTokens : session' \in [1..n -> 1..n]
         /\ session'[t] = s
         /\ \A u \in Issued : session'[u] = session[u] /\ session[u] \in Issued
         /\ live' = live \cup {t}
<1>1. PICK n \in 0..MaxTokens : session \in [1..n -> 1..n]
  BY DEF SessionsTypeOK
<1>2. Issued = 1..n /\ n \in Nat
  BY <1>1, SessionsAssumption DEF Issued
<1>3. t = n + 1 /\ n + 1 \in 0..MaxTokens
  BY <1>2, SessionsAssumption DEF Save, Tokens
<1>4. Issued \cup {t} = 1..(n + 1)
  BY <1>2, <1>3
<1>5. session' = [u \in 1..(n + 1) |-> IF u = t THEN s ELSE session[u]]
  BY <1>4 DEF Save
<1>6. session' \in [1..(n + 1) -> 1..(n + 1)]
  BY <1>1, <1>2, <1>4, <1>5
<1>7. Issued' = 1..(n + 1)
  BY <1>5 DEF Issued
<1>8. \A u \in Issued : session'[u] = session[u] /\ session[u] \in Issued
  BY <1>1, <1>2, <1>3, <1>5
<1>9. session'[t] = s
  BY <1>3, <1>4, <1>5
<1> QED
  BY <1>2, <1>3, <1>4, <1>6, <1>7, <1>8, <1>9 DEF Save

(* Which no call and no history knows.                                     *)
LEMMA LoginInv == ASSUME SessionsInv, Login PROVE SessionsInv'
<1>1. PICK t \in Tokens : Save(t, t) /\ known' = known \cup {t}
  BY DEF Login
<1>2. /\ t \notin Issued
      /\ Issued' = Issued \cup {t}
      /\ \E n \in 0..MaxTokens : session' \in [1..n -> 1..n]
      /\ session'[t] = t
      /\ \A u \in Issued : session'[u] = session[u] /\ session[u] \in Issued
      /\ live' = live \cup {t}
  BY <1>1, SaveType DEF SessionsInv
<1>3. UNCHANGED <<calls, slips, ended>>
  BY DEF Login
<1>4. SessionsTypeOK'
  BY <1>1, <1>2, <1>3 DEF SessionsInv, SessionsTypeOK
<1>5. /\ live \subseteq Issued /\ slips \subseteq Issued /\ ended \subseteq Issued
      /\ \A c \in Calls : /\ calls[c].old \in Issued \cup {None}
                         /\ calls[c].new \in Issued \cup {None}
      /\ \A u \in Issued : session'[u] = session[u] /\ session'[u] # t
  BY <1>2, IssuedTokens DEF SessionsInv
<1>6. OneRefresh'
  <2>1. \A c \in Calls : calls[c].old # None =>
          session'[calls[c].old] = session[calls[c].old] /\ session'[calls[c].old] # t
    BY <1>5
  <2>2. \A c \in Calls : calls[c].new # None =>
          session'[calls[c].new] = session[calls[c].new]
    BY <1>5
  <2>3. \A c \in Calls, u \in live' : calls[c].old # None /\ session'[u] = session'[calls[c].old]
          => u \in live /\ session[u] = session[calls[c].old]
    BY <1>2, <1>5, <2>1
  <2> QED  BY <1>3, <2>1, <2>2, <2>3 DEF SessionsInv, OneRefresh
<1>7. RotationHasReason'
  <2>1. \A u, v \in live' : u # v /\ session'[u] = session'[v]
          => u \in live /\ v \in live /\ session[u] = session[v] /\ session'[u] = session[u]
    BY <1>2, <1>5
  <2> QED  BY <1>3, <2>1 DEF SessionsInv, RotationHasReason
<1>8. LoggedOutStaysOut'
  BY <1>2, <1>3, <1>5 DEF SessionsInv, LoggedOutStaysOut, Chain
<1> QED  BY <1>4, <1>6, <1>7, <1>8 DEF SessionsInv

(* A refresh begins with a token that counts, so on no ended session; a    *)
(* second one beside it is a slip.                                         *)
LEMMA FindInv ==
  ASSUME SessionsInv, NEW c \in Calls, NEW t \in Issued, Find(c, t)
  PROVE  SessionsInv'
<1>1. /\ calls' = [calls EXCEPT ![c] = [old |-> t, new |-> None]]
      /\ calls[c] = Closed /\ t \in live
      /\ slips' = IF Open(session[t]) = {} THEN slips ELSE slips \cup {session[t]}
      /\ UNCHANGED <<live, session, known, ended>>
  BY DEF Find
<1>2. /\ calls'[c] = [old |-> t, new |-> None]
      /\ \A d \in Calls \ {c} : calls'[d] = calls[d]
      /\ calls' \in [Calls -> [old : Issued \cup {None}, new : Issued \cup {None}]]
  BY <1>1 DEF SessionsInv, SessionsTypeOK
<1>3. /\ \A u \in Issued : u # None /\ session[u] \in Issued
      /\ live \subseteq Issued /\ Issued' = Issued
  BY <1>1, IssuedTokens DEF SessionsInv, Issued
<1>4. SessionsTypeOK'
  BY <1>1, <1>2, <1>3 DEF SessionsInv, SessionsTypeOK
<1>5. /\ slips \subseteq slips'
      /\ \A d \in Calls : calls[d].old # None /\ session[calls[d].old] = session[t] => session[t] \in slips'
  BY <1>1 DEF Open
<1>6. \A u \in live : u = t \/ session[u] # session[t] \/ session[t] \in slips'
  BY <1>1, <1>3, <1>5 DEF SessionsInv, RotationHasReason, Open, OneRefresh
<1>7. session[t] \notin ended
  BY <1>1, <1>3 DEF SessionsInv, LoggedOutStaysOut, Chain
<1>8. OneRefresh'
  BY <1>1, <1>2, <1>3, <1>5, <1>6, <1>7 DEF SessionsInv, OneRefresh
<1>9. RotationHasReason'
  <2> SUFFICES ASSUME NEW u \in live, NEW v \in live, u # v, session[u] = session[v], session[u] \notin slips'
               PROVE  \E d \in Calls : {calls'[d].old, calls'[d].new} = {u, v}
    BY <1>1 DEF RotationHasReason
  <2>1. PICK d \in Calls : {calls[d].old, calls[d].new} = {u, v}
    BY <1>5 DEF SessionsInv, RotationHasReason
  <2>2. d # c
    BY <1>1, <1>3, <2>1 DEF Closed
  <2> QED  BY <1>2, <2>1, <2>2
<1>10. LoggedOutStaysOut'
  BY <1>1, <1>3 DEF SessionsInv, LoggedOutStaysOut, Chain
<1> QED  BY <1>4, <1>8, <1>9, <1>10 DEF SessionsInv

(* The successor joins the session of the token it replaces, which is not  *)
(* an ended one because this refresh is open.                              *)
LEMMA RefreshSaveInv ==
  ASSUME SessionsInv, NEW c \in Calls, RefreshSave(c)
  PROVE  SessionsInv'
<1>0. calls[c].old # None /\ calls[c].new = None /\ UNCHANGED <<known, slips, ended>>
  BY DEF RefreshSave
<1> DEFINE s == session[calls[c].old]
<1>1. PICK t \in Tokens : Save(t, s) /\ calls' = [calls EXCEPT ![c] = [old |-> calls[c].old, new |-> t]]
  BY DEF RefreshSave
<1>2. /\ live \subseteq Issued /\ slips \subseteq Issued /\ ended \subseteq Issued
      /\ \A d \in Calls : calls[d].old \in Issued \cup {None} /\ calls[d].new \in Issued \cup {None}
      /\ s \in Issued
  BY <1>0 DEF SessionsInv, SessionsTypeOK, Issued
<1>3. /\ t \notin Issued
      /\ Issued' = Issued \cup {t}
      /\ \E n \in 0..MaxTokens : session' \in [1..n -> 1..n]
      /\ session'[t] = s
      /\ \A u \in Issued : session'[u] = session[u] /\ session[u] \in Issued
      /\ live' = live \cup {t}
  <2>1. s \in Issued \cup {t}
    BY <1>2
  <2> HIDE DEF s
  <2> QED  BY <1>1, <2>1, SaveType DEF SessionsInv
<1>4. /\ calls'[c] = [old |-> calls[c].old, new |-> t]
      /\ \A d \in Calls \ {c} : calls'[d] = calls[d]
      /\ calls' \in [Calls -> [old : Issued' \cup {None}, new : Issued' \cup {None}]]
  BY <1>1, <1>2, <1>3 DEF SessionsInv, SessionsTypeOK
<1>5. SessionsTypeOK'
  BY <1>0, <1>3, <1>4 DEF SessionsInv, SessionsTypeOK
<1>6. t # None
  BY DEF Tokens, None
<1>7. OneRefresh'
  <2>1. \A d \in Calls : calls'[d].old = calls[d].old
    BY <1>4
  <2>2. \A d \in Calls : calls[d].old # None => session'[calls[d].old] = session[calls[d].old]
    BY <1>2, <1>3
  <2>3. \A d \in Calls : calls'[d].new # None =>
          calls'[d].old # None /\ session'[calls'[d].new] = session'[calls'[d].old]
    <3> SUFFICES ASSUME NEW d \in Calls, calls'[d].new # None
                 PROVE  calls'[d].old # None /\ session'[calls'[d].new] = session'[calls'[d].old]
      OBVIOUS
    <3>1. CASE d = c
      BY <1>0, <1>2, <1>3, <1>4, <3>1
    <3>2. CASE d # c
      <4>1. calls'[d] = calls[d]
        BY <1>4, <3>2
      <4>2. calls[d].old # None /\ session[calls[d].new] = session[calls[d].old]
        BY <4>1 DEF SessionsInv, OneRefresh
      <4> QED  BY <1>2, <1>3, <4>1, <4>2
    <3> QED  BY <3>1, <3>2
  <2>4. \A d, e \in Calls :
          calls'[d].old # None /\ calls'[e].old # None /\ session'[calls'[d].old] = session'[calls'[e].old]
            => d = e \/ session'[calls'[d].old] \in slips'
    BY <1>0, <2>1, <2>2 DEF SessionsInv, OneRefresh
  <2>5. \A d \in Calls, u \in live' :
          calls'[d].old # None /\ session'[u] = session'[calls'[d].old]
            => u \in {calls'[d].old, calls'[d].new} \/ session'[u] \in slips'
    <3> SUFFICES ASSUME NEW d \in Calls, NEW u \in live', calls[d].old # None,
                        session'[u] = session[calls[d].old], session'[u] \notin slips
                 PROVE  u \in {calls'[d].old, calls'[d].new}
      BY <1>0, <2>1, <2>2
    <3>1. CASE u = t
      <4>1. d = c
        BY <1>0, <1>3, <3>1 DEF SessionsInv, OneRefresh
      <4> QED  BY <1>4, <3>1, <4>1
    <3>2. CASE u # t
      <4>1. u \in live /\ session'[u] = session[u]
        BY <1>2, <1>3, <3>2
      <4>2. u \in {calls[d].old, calls[d].new}
        BY <4>1 DEF SessionsInv, OneRefresh
      <4>3. u # None
        BY <4>1, IssuedTokens DEF SessionsInv
      <4> QED  BY <1>0, <1>4, <4>2, <4>3
    <3> QED  BY <3>1, <3>2
  <2>6. \A d \in Calls : calls'[d].old # None => session'[calls'[d].old] \notin ended'
    BY <1>0, <2>1, <2>2 DEF SessionsInv, OneRefresh
  <2> QED  BY <2>3, <2>4, <2>5, <2>6 DEF OneRefresh
<1>8. RotationHasReason'
  <2> SUFFICES ASSUME NEW u \in live', NEW v \in live', u # v,
                         session'[u] = session'[v], session'[u] \notin slips
               PROVE  \E d \in Calls : {calls'[d].old, calls'[d].new} = {u, v}
    BY <1>0 DEF RotationHasReason
  <2>1. CASE u = t \/ v = t
    <3>1. calls'[c].old # None /\ calls'[c].new = t /\ session'[calls'[c].old] = s
      BY <1>0, <1>2, <1>3, <1>4
    <3>2. session'[u] = session'[calls'[c].old] /\ session'[v] = session'[calls'[c].old]
      BY <1>3, <2>1, <3>1
    <3>3. \A w \in live' : session'[w] = session'[calls'[c].old]
            => w \in {calls'[c].old, calls'[c].new} \/ session'[w] \in slips'
      BY <1>7, <3>1 DEF OneRefresh
    <3>4. u \in {calls'[c].old, calls'[c].new} /\ v \in {calls'[c].old, calls'[c].new}
      BY <1>0, <3>2, <3>3
    <3> QED  BY <3>4
  <2>2. CASE u # t /\ v # t
    <3>1. u \in live /\ v \in live /\ session[u] = session[v] /\ session[u] \notin slips
      BY <1>2, <1>3, <2>2
    <3>2. PICK d \in Calls : {calls[d].old, calls[d].new} = {u, v}
      BY <3>1 DEF SessionsInv, RotationHasReason
    <3>3. d # c
      BY <1>0, <3>1, <3>2, IssuedTokens DEF SessionsInv
    <3> QED  BY <1>4, <3>2, <3>3
  <2> QED  BY <2>1, <2>2
<1>9. LoggedOutStaysOut'
  <2>1. s \notin ended
    BY <1>0 DEF SessionsInv, OneRefresh
  <2> QED  BY <1>0, <1>2, <1>3, <2>1 DEF SessionsInv, LoggedOutStaysOut, Chain
<1> QED  BY <1>5, <1>7, <1>8, <1>9 DEF SessionsInv
(* The old token is deleted, or stays beside the new one: a slip.          *)
LEMMA RefreshAnswerInv ==
  ASSUME SessionsInv, NEW c \in Calls, RefreshAnswer(c)
  PROVE  SessionsInv'
<1> DEFINE s == session[calls[c].old]
<1>1. /\ calls[c].new # None
      /\ calls' = [calls EXCEPT ![c] = Closed]
      /\ UNCHANGED <<session, ended>>
      /\ known' \in {known, known \cup {calls[c].new}}
      /\ \/ live' = live \ {calls[c].old} /\ slips' = slips
         \/ live' = live /\ slips' = slips \cup {s}
  BY DEF RefreshAnswer, Delete
<1>2. /\ None \notin Issued /\ live \subseteq Issued /\ Issued' = Issued
      /\ \A u \in Issued : session[u] \in Issued
      /\ calls[c].old \in Issued /\ calls[c].new \in Issued /\ s \in Issued
      /\ session[calls[c].new] = s
  <2>1. calls[c].old # None /\ session[calls[c].new] = s
    BY <1>1 DEF SessionsInv, OneRefresh
  <2> QED  BY <1>1, <2>1, IssuedTokens DEF SessionsInv, Issued
<1> HIDE DEF s
<1>3. /\ calls'[c] = Closed /\ calls'[c].old = None /\ calls'[c].new = None
      /\ \A d \in Calls \ {c} : calls'[d] = calls[d]
      /\ calls' \in [Calls -> [old : Issued \cup {None}, new : Issued \cup {None}]]
  BY <1>1 DEF SessionsInv, SessionsTypeOK, Closed
<1>4. SessionsTypeOK'
  BY <1>1, <1>2, <1>3 DEF SessionsInv, SessionsTypeOK
<1>5. live' \subseteq live /\ slips \subseteq slips'
  BY <1>1
<1>6. OneRefresh'
  BY <1>1, <1>3, <1>5 DEF SessionsInv, OneRefresh
<1>7. RotationHasReason'
  <2> SUFFICES ASSUME NEW u \in live', NEW v \in live', u # v,
                         session[u] = session[v], session[u] \notin slips'
               PROVE  \E d \in Calls : {calls'[d].old, calls'[d].new} = {u, v}
    BY <1>1 DEF RotationHasReason
  <2>1. PICK d \in Calls : {calls[d].old, calls[d].new} = {u, v}
    BY <1>5 DEF SessionsInv, RotationHasReason
  <2>2. ASSUME d = c PROVE FALSE
    <3>1. session[u] = s
      BY <1>2, <2>1, <2>2 DEF s
    <3>2. calls[c].old \notin live'
      BY <1>1, <2>1, <3>1
    <3> QED  BY <2>1, <2>2, <3>2
  <2> QED  BY <1>3, <2>1, <2>2
<1>8. LoggedOutStaysOut'
  BY <1>1, <1>2, <1>5 DEF SessionsInv, LoggedOutStaysOut, Chain
<1> QED  BY <1>4, <1>6, <1>7, <1>8 DEF SessionsInv

(* Cut short after the successor was stored it leaves two tokens: a slip.  *)
LEMMA RefreshAbandonedInv ==
  ASSUME SessionsInv, NEW c \in Calls, RefreshAbandoned(c)
  PROVE  SessionsInv'
<1> DEFINE s == session[calls[c].old]
<1>1. /\ calls[c].old # None
      /\ calls' = [calls EXCEPT ![c] = Closed]
      /\ UNCHANGED <<live, session, known, ended>>
      /\ slips' = IF calls[c].new = None THEN slips ELSE slips \cup {s}
  BY DEF RefreshAbandoned
<1>2. /\ None \notin Issued /\ live \subseteq Issued /\ Issued' = Issued
      /\ \A u \in Issued : session[u] \in Issued
      /\ s \in Issued
  BY <1>1, IssuedTokens DEF SessionsInv, Issued
<1>3. /\ calls'[c] = Closed /\ calls'[c].old = None /\ calls'[c].new = None
      /\ \A d \in Calls \ {c} : calls'[d] = calls[d]
      /\ calls' \in [Calls -> [old : Issued \cup {None}, new : Issued \cup {None}]]
  BY <1>1 DEF SessionsInv, SessionsTypeOK, Closed
<1> HIDE DEF s
<1>4. SessionsTypeOK'
  BY <1>1, <1>2, <1>3 DEF SessionsInv, SessionsTypeOK
<1>5. slips \subseteq slips'
  BY <1>1
<1>6. OneRefresh'
  BY <1>1, <1>3, <1>5 DEF SessionsInv, OneRefresh
<1>7. RotationHasReason'
  <2> SUFFICES ASSUME NEW u \in live, NEW v \in live, u # v, session[u] = session[v], session[u] \notin slips'
               PROVE  \E d \in Calls : {calls'[d].old, calls'[d].new} = {u, v}
    BY <1>1 DEF RotationHasReason
  <2>1. PICK d \in Calls : {calls[d].old, calls[d].new} = {u, v}
    BY <1>5 DEF SessionsInv, RotationHasReason
  <2>2. d # c
    <3>1. ASSUME d = c PROVE calls[c].new # None /\ session[u] = s
      BY <1>1, <1>2, <2>1, <3>1 DEF s, SessionsInv, OneRefresh
    <3> QED  BY <1>1, <3>1
  <2> QED  BY <1>3, <2>1, <2>2
<1>8. LoggedOutStaysOut'
  BY <1>1, <1>2 DEF SessionsInv, LoggedOutStaysOut, Chain
<1> QED  BY <1>4, <1>6, <1>7, <1>8 DEF SessionsInv

(* A token less.                                                           *)
LEMMA FewerTokens ==
  ASSUME SessionsInv, NEW t \in Issued, live' = live \ {t},
         UNCHANGED <<session, known, calls, slips>>
  PROVE  /\ ended' \in SUBSET Issued => SessionsTypeOK'
         /\ ended' = ended => SessionsInv'
         /\ RotationHasReason'
         /\ (\A c \in Calls : calls[c].old # None => session[calls[c].old] \notin ended') => OneRefresh'
<1>1. Issued' = Issued /\ live' \subseteq live
  BY DEF Issued
<1>2. ended' \in SUBSET Issued => SessionsTypeOK'
  BY <1>1 DEF SessionsInv, SessionsTypeOK
<1>3. RotationHasReason'
  BY <1>1 DEF SessionsInv, RotationHasReason
<1>4. (\A c \in Calls : calls[c].old # None => session[calls[c].old] \notin ended') => OneRefresh'
  BY <1>1 DEF SessionsInv, OneRefresh
<1>5. ASSUME ended' = ended PROVE SessionsInv'
  <2>1. SessionsTypeOK'
    BY <1>2, <1>5 DEF SessionsInv, SessionsTypeOK
  <2>2. OneRefresh'
    BY <1>4, <1>5 DEF SessionsInv, OneRefresh
  <2>3. LoggedOutStaysOut'
    BY <1>1, <1>5 DEF SessionsInv, LoggedOutStaysOut, Chain
  <2> QED  BY <1>3, <2>1, <2>2, <2>3 DEF SessionsInv
<1> QED  BY <1>2, <1>3, <1>4, <1>5

(* With no refresh under way the token was the only one, or the session    *)
(* had slipped.                                                            *)
LEMMA LogoutInv ==
  ASSUME SessionsInv, NEW t \in Issued, Logout(t)
  PROVE  SessionsInv'
<1>1. /\ live' = live \ {t}
      /\ UNCHANGED <<session, known, calls, slips>>
      /\ ended' = IF t \in live /\ Open(session[t]) = {} /\ session[t] \notin slips
                  THEN ended \cup {session[t]} ELSE ended
  BY DEF Logout
<1>2. CASE ended' = ended
  BY <1>1, <1>2, FewerTokens
<1>3. CASE /\ t \in live /\ Open(session[t]) = {} /\ session[t] \notin slips
           /\ ended' = ended \cup {session[t]}
  <2>1. /\ None \notin Issued /\ live \subseteq Issued /\ session[t] \in Issued
        /\ ended' \in SUBSET Issued /\ Issued' = Issued
    BY <1>1, <1>3, IssuedTokens DEF SessionsInv, Issued
  <2>2. \A c \in Calls : calls[c].old # None => session[calls[c].old] # session[t]
    BY <1>3 DEF Open
  <2>3. \A u \in live : u # t => session[u] # session[t]
    <3> SUFFICES ASSUME NEW u \in live, u # t, session[u] = session[t] PROVE FALSE
      OBVIOUS
    <3>1. PICK c \in Calls : {calls[c].old, calls[c].new} = {t, u}
      BY <1>3 DEF SessionsInv, RotationHasReason
    <3>2. calls[c].old \in {t, u} /\ calls[c].old # None
      BY <2>1, <3>1
    <3> QED  BY <2>2, <3>2
  <2>4. \A c \in Calls : calls[c].old # None => session[calls[c].old] \notin ended'
    BY <1>3, <2>2 DEF SessionsInv, OneRefresh
  <2>5. LoggedOutStaysOut'
    BY <1>1, <1>3, <2>1, <2>3 DEF SessionsInv, LoggedOutStaysOut, Chain
  <2> QED  BY <1>1, <2>1, <2>4, <2>5, FewerTokens DEF SessionsInv
<1> QED  BY <1>1, <1>2, <1>3

LEMMA ExpireInv ==
  ASSUME SessionsInv, NEW t \in Issued, Expire(t)
  PROVE  SessionsInv'
  BY FewerTokens DEF Expire

LEMMA SessionsStepInv == SessionsInv /\ SessionsNext => SessionsInv'
<1> SUFFICES ASSUME SessionsInv, SessionsNext PROVE SessionsInv'
  OBVIOUS
<1>1. CASE Login
  BY <1>1, LoginInv
<1>2. ASSUME NEW c \in Calls, NEW t \in Issued, Find(c, t) PROVE SessionsInv'
  BY <1>2, FindInv
<1>3. ASSUME NEW c \in Calls, RefreshSave(c) PROVE SessionsInv'
  BY <1>3, RefreshSaveInv
<1>4. ASSUME NEW c \in Calls, RefreshAnswer(c) PROVE SessionsInv'
  BY <1>4, RefreshAnswerInv
<1>5. ASSUME NEW c \in Calls, RefreshAbandoned(c) PROVE SessionsInv'
  BY <1>5, RefreshAbandonedInv
<1>6. ASSUME NEW t \in Issued, Logout(t) \/ Expire(t) PROVE SessionsInv'
  BY <1>6, LogoutInv, ExpireInv
<1> QED  BY <1>1, <1>2, <1>3, <1>4, <1>5, <1>6 DEF SessionsNext

LEMMA SessionsStutterInv == SessionsInv /\ UNCHANGED sessionVars => SessionsInv'
<1> SUFFICES ASSUME SessionsInv, UNCHANGED sessionVars PROVE SessionsInv'
  OBVIOUS
<1>1. Issued' = Issued
  BY DEF Issued, sessionVars
<1>2. SessionsTypeOK'
  BY <1>1 DEF SessionsInv, SessionsTypeOK, sessionVars
<1>3. OneRefresh' /\ RotationHasReason'
  BY DEF SessionsInv, OneRefresh, RotationHasReason, sessionVars
<1>4. LoggedOutStaysOut'
  BY <1>1 DEF SessionsInv, LoggedOutStaysOut, Chain, sessionVars
<1> QED  BY <1>2, <1>3, <1>4 DEF SessionsInv

(* Every step of the accounts is one of their sessions or leaves them.     *)
LEMMA SessionsAlways == AccountsSpec => []SessionsInv
<1>1. AccountsInit => SessionsInv
  BY SessionsInitInv DEF AccountsInit
<1>2. SessionsInv /\ [AccountsNext]_accountVars => SessionsInv'
  <2> SUFFICES ASSUME SessionsInv, [AccountsNext]_accountVars PROVE SessionsInv'
    OBVIOUS
  <2>1. CASE SessionsNext
    BY <2>1, SessionsStepInv
  <2>2. CASE UNCHANGED sessionVars
    BY <2>2, SessionsStutterInv
  <2>3. SessionsNext \/ UNCHANGED sessionVars
    BY DEF AccountsNext, accountVars
  <2> QED  BY <2>1, <2>2, <2>3
<1> QED  BY <1>1, <1>2, PTL DEF AccountsSpec

(* Two tokens of one session count only while a refresh is between storing *)
(* the new and deleting the old, or after one that overlapped another, was *)
(* cut short or could not delete: for any number of calls and tokens.      *)
THEOREM Rotation_HasReason == AccountsSpec => []RotationHasReason
<1>1. SessionsInv => RotationHasReason
  BY DEF SessionsInv
<1> QED  BY <1>1, SessionsAlways, PTL

(* A session logged out with its one token stays logged out.               *)
THEOREM LoggedOut_StaysOut == AccountsSpec => []LoggedOutStaysOut
<1>1. SessionsInv => LoggedOutStaysOut
  BY DEF SessionsInv
<1> QED  BY <1>1, SessionsAlways, PTL

-----------------------------------------------------------------------------
(* The verification rows of an address                                     *)

(* Any set of naturals has a least: the intervals below them are ordered   *)
(* by inclusion, which is well founded.                                    *)
LEMMA LeastNatural ==
  ASSUME NEW S \in SUBSET Nat, S # {}
  PROVE  \E m \in S : \A n \in S : m <= n
<1> DEFINE Below(n) == 1..n
           T == {Below(n) : n \in S}
<1>1. T \subseteq FiniteSubsetsOf(Nat)
  <2>1. \A n \in S : Below(n) \in SUBSET Nat /\ IsFiniteSet(Below(n))
    BY FS_Interval
  <2> QED  BY <2>1 DEF FiniteSubsetsOf
<1>2. T # {}
  OBVIOUS
<1> HIDE DEF T
<1>3. PICK X \in T : \A Y \in T : ~ (<<Y, X>> \in StrictSubsetOrdering(Nat))
  BY <1>1, <1>2, FS_StrictSubsetOrderingWellFounded, WFMin
<1>4. PICK m \in S : X = Below(m)
  BY DEF T
<1>5. ASSUME NEW n \in S, n < m PROVE FALSE
  <2>1. Below(n) \in T
    BY DEF T
  <2>2. Below(n) \subseteq Below(m) /\ m \in Below(m) /\ m \notin Below(n)
    BY <1>5
  <2>3. <<Below(n), X>> \in StrictSubsetOrdering(Nat)
    BY <1>4, <2>2 DEF StrictSubsetOrdering
  <2> QED  BY <1>3, <2>1, <2>3
<1> QED  BY <1>5

(* A row that was read is still there, under its id; an id has one row.    *)
RowsInv ==
  /\ \A x, y \in rows : x.id = y.id => x = y
  /\ \A r \in Requests :
       /\ requests[r].pc \in {"idle", "allowed"} => requests[r].id = 0
       /\ requests[r].pc = "found" => requests[r].id # 0
       /\ requests[r].found # NoRow => \E x \in rows : x.id = requests[r].found.id
  /\ \A g \in Registrations :
       regs[g].pc \in {"wrong", "right"} =>
         regs[g].found # NoRow /\ \E x \in rows : x.id = regs[g].found.id

(* Unless two rows came of two requests there is one, and unless something *)
(* spoilt it it takes the code mailed last.                                *)
CodeInv ==
  /\ "split" \notin excuse => \A x, y \in rows : x = y
  /\ mailed # NoCode => requests[mailed].pc = "done"
  /\ mailed # NoCode /\ excuse = {} =>
       \E x \in rows : x.code = mailed /\ ~x.used /\ x.attempts < MaxAttempts /\ ~x.expired

OtpTypeOK ==
  /\ rows \in SUBSET Row
  /\ slot \in BOOLEAN
  /\ requests \in [Requests -> [pc : {"idle", "allowed", "found", "done"},
                                id : Ids \cup {0}, found : Row \cup {NoRow}]]
  /\ regs \in [Registrations -> [pc : {"idle", "wrong", "right", "verified", "done"},
                                 found : Row \cup {NoRow}]]
  /\ user \in [by : Registrations, role : Roles] \cup {NoUser, OldUser}
  /\ mailed \in Requests \cup {NoCode}
  /\ events \in SUBSET ({"user.registered", "restaurant.initiated"} \X Registrations)
  /\ excuse \in SUBSET {"split", "spent", "clobbered", "guessed", "expired"}

OtpInv == OtpTypeOK /\ RowsInv /\ CodeInv /\ RegistrationIsWhole

LEMMA OtpInitInv == AccountsInit => OtpInv
<1> SUFFICES ASSUME AccountsInit PROVE OtpInv
  OBVIOUS
<1>1. OtpTypeOK
  BY DEF AccountsInit, OtpTypeOK, NoUser, OldUser
<1>2. RowsInv
  BY DEF AccountsInit, RowsInv
<1>3. CodeInv
  BY DEF AccountsInit, CodeInv
<1>4. RegistrationIsWhole
  BY DEF AccountsInit, RegistrationIsWhole
<1> QED  BY <1>1, <1>2, <1>3, <1>4 DEF OtpInv

(* The row that is read is the oldest there is.                            *)
LEMMA FirstRow ==
  ASSUME OtpTypeOK
  PROVE  /\ rows = {} => First = NoRow
         /\ rows # {} => First \in rows /\ First # NoRow
         /\ First \in Row \cup {NoRow}
         /\ First # NoRow => First \in rows
<1>1. \A x \in Row : x.id \in Nat /\ x # NoRow
  <2>1. Cardinality(Requests) \in Nat
    BY AccountsAssumption, FS_CardinalityType
  <2> QED  BY <2>1 DEF Row, Ids, NoRow
<1>2. CASE rows = {}
  BY <1>2 DEF First
<1>3. CASE rows # {}
  <2> DEFINE S == {x.id : x \in rows}
  <2>1. S \in SUBSET Nat /\ S # {}
    BY <1>1, <1>3 DEF OtpTypeOK
  <2>2. PICK m \in S : \A n \in S : m <= n
    BY <2>1, LeastNatural
  <2>3. PICK x \in rows : x.id = m
    OBVIOUS
  <2>4. \A y \in rows : x.id <= y.id
    BY <2>2, <2>3
  <2>5. First \in rows
    BY <1>3, <2>3, <2>4 DEF First
  <2> QED  BY <1>1, <1>3, <2>5 DEF OtpTypeOK
<1> QED  BY <1>2, <1>3

(* What storing a row under an id does.                                    *)
LEMMA Stored ==
  ASSUME OtpInv, NEW z \in Row, Store(z)
  PROVE  /\ rows' \in SUBSET Row
         /\ z \in rows'
         /\ \A x, y \in rows' : x.id = y.id => x = y
         /\ \A x \in rows : \E y \in rows' : y.id = x.id
         /\ (\E x \in rows : x.id = z.id) =>
              ("split" \notin excuse => \A x, y \in rows' : x = y)
         /\ \A y \in rows' : y = z \/ (y \in rows /\ y.id # z.id)
<1>1. rows' = {y \in rows : y.id # z.id} \cup {z}
  BY DEF Store
<1>2. \A x, y \in rows : x.id = y.id => x = y
  BY DEF OtpInv, RowsInv
<1>3. rows \in SUBSET Row
  BY DEF OtpInv, OtpTypeOK
<1>4. \A x \in rows : \E y \in rows' : y.id = x.id
  <2> TAKE x \in rows
  <2>1. CASE x.id = z.id
    BY <1>1, <2>1
  <2>2. CASE x.id # z.id
    BY <1>1, <2>2
  <2> QED  BY <2>1, <2>2
<1>5. ASSUME NEW w \in rows, w.id = z.id, "split" \notin excuse
      PROVE  \A x, y \in rows' : x = y
  <2>1. \A x \in rows : x = w
    BY <1>5 DEF OtpInv, CodeInv
  <2> QED  BY <1>1, <1>5, <2>1
<1> QED  BY <1>1, <1>2, <1>3, <1>4, <1>5

(* A step of one request that writes no row.                               *)
LEMMA RequestStep ==
  ASSUME OtpInv, NEW r \in Requests, NEW q,
         q \in [pc : {"allowed", "found", "done"}, id : Ids \cup {0}, found : Row \cup {NoRow}],
         requests[r].pc # "done",
         requests' = [requests EXCEPT ![r] = q],
         q.pc = "allowed" => q.id = 0,
         q.pc = "found" => q.id # 0,
         q.found # NoRow => \E x \in rows : x.id = q.found.id,
         slot' \in BOOLEAN,
         UNCHANGED <<rows, regs, user, mailed, events, excuse>>
  PROVE  OtpInv'
<1>1. /\ requests'[r] = q
      /\ \A o \in Requests \ {r} : requests'[o] = requests[o]
      /\ requests' \in [Requests -> [pc : {"idle", "allowed", "found", "done"},
                                     id : Ids \cup {0}, found : Row \cup {NoRow}]]
  BY DEF OtpInv, OtpTypeOK
<1>2. OtpTypeOK'
  BY <1>1 DEF OtpInv, OtpTypeOK
<1>3. RowsInv'
  BY <1>1 DEF OtpInv, RowsInv
<1>4. CodeInv'
  BY <1>1 DEF OtpInv, CodeInv, OtpTypeOK
<1>5. RegistrationIsWhole'
  BY DEF OtpInv, RegistrationIsWhole
<1> QED  BY <1>2, <1>3, <1>4, <1>5 DEF OtpInv

LEMMA AllowInv == ASSUME OtpInv, NEW r \in Requests, Allow(r) PROVE OtpInv'
<1> DEFINE q == [pc |-> "allowed", id |-> requests[r].id, found |-> NoRow]
<1>1. q.id = 0 /\ q.found = NoRow /\ requests[r].pc # "done" /\ requests' = [requests EXCEPT ![r] = q]
  BY DEF Allow, Step, OtpInv, RowsInv
<1>2. q \in [pc : {"allowed", "found", "done"}, id : Ids \cup {0}, found : Row \cup {NoRow}]
  BY <1>1
<1> QED  BY <1>1, <1>2, RequestStep DEF Allow

(* One id more than were drawn, of which this request's is not one.        *)
LEMMA FindRowInv == ASSUME OtpInv, NEW r \in Requests, FindRow(r) PROVE OtpInv'
<1> DEFINE drawn == {o \in Requests : requests[o].id # 0}
           n == 1 + Cardinality(drawn)
           q == [pc |-> "found", id |-> n, found |-> First]
<1>1. r \notin drawn /\ requests[r].pc # "done"
  BY DEF FindRow, OtpInv, RowsInv
<1>2. n \in Ids /\ n # 0
  <2>1. IsFiniteSet(Requests) /\ drawn \in SUBSET Requests /\ Cardinality(Requests) \in Nat
    BY AccountsAssumption, FS_CardinalityType
  <2>2. IsFiniteSet(drawn) /\ Cardinality(drawn) <= Cardinality(Requests) /\ Cardinality(drawn) \in Nat
        /\ Cardinality(drawn) # Cardinality(Requests)
    BY <1>1, <2>1, FS_Subset, FS_CardinalityType
  <2> HIDE DEF drawn
  <2> QED  BY <2>1, <2>2 DEF Ids
<1>3. First \in Row \cup {NoRow} /\ (First # NoRow => \E x \in rows : x.id = First.id)
  BY FirstRow DEF OtpInv
<1>4. requests' = [requests EXCEPT ![r] = q]
  BY DEF FindRow
<1> HIDE DEF n
<1>5. /\ q \in [pc : {"allowed", "found", "done"}, id : Ids \cup {0}, found : Row \cup {NoRow}]
      /\ q.pc = "found" /\ q.id # 0 /\ q.found = First
  BY <1>2, <1>3
<1>6. UNCHANGED <<rows, slot, regs, user, mailed, events, excuse>> /\ slot \in BOOLEAN
  BY DEF FindRow, OtpInv, OtpTypeOK
<1> HIDE DEF q
<1> QED  BY <1>1, <1>3, <1>4, <1>5, <1>6, RequestStep

LEMMA RequestFailsInv == ASSUME OtpInv, NEW r \in Requests, RequestFails(r) PROVE OtpInv'
<1> DEFINE q == [pc |-> "done", id |-> requests[r].id, found |-> NoRow]
<1>1. /\ q \in [pc : {"allowed", "found", "done"}, id : Ids \cup {0}, found : Row \cup {NoRow}]
      /\ q.pc = "done" /\ q.found = NoRow /\ requests[r].pc # "done"
      /\ requests' = [requests EXCEPT ![r] = q] /\ slot' \in BOOLEAN
  BY DEF RequestFails, Step, OtpInv, OtpTypeOK
<1> HIDE DEF q
<1> QED  BY <1>1, RequestStep DEF RequestFails

(* A new code in the one row there is, or in the first; a second row is    *)
(* the split.                                                              *)
LEMMA SaveCodeInv == ASSUME OtpInv, NEW r \in Requests, SaveCode(r) PROVE OtpInv'
<1>1. /\ requests[r].pc = "found" /\ Store(Renewed(r)) /\ mailed' = r
      /\ excuse' = (excuse \cap {"split"})
           \cup (IF requests[r].found = NoRow /\ rows # {} THEN {"split"} ELSE {})
      /\ requests' = [requests EXCEPT ![r] = [pc |-> "done", id |-> requests[r].id, found |-> NoRow]]
      /\ UNCHANGED <<slot, regs, user, events>>
  BY DEF SaveCode, Step
<1> DEFINE z == Renewed(r)
<1>2. /\ z \in Row /\ z.code = r /\ ~z.used /\ z.attempts = 0 /\ ~z.expired
      /\ requests[r].found # NoRow => \E x \in rows : x.id = z.id
  <2>1. requests[r].id \in Ids /\ requests[r].found \in Row \cup {NoRow}
    BY <1>1 DEF OtpInv, OtpTypeOK, RowsInv
  <2>2. requests[r].found # NoRow => requests[r].found.id \in Ids
    BY <2>1 DEF Row
  <2> DEFINE i == IF requests[r].found = NoRow THEN requests[r].id ELSE requests[r].found.id
  <2>3. z = [id |-> i, code |-> r, used |-> FALSE, attempts |-> 0, expired |-> FALSE]
    BY DEF Renewed
  <2>4. i \in Ids
    BY <2>1, <2>2
  <2> HIDE DEF z, i
  <2>5. z \in Row /\ z.id = i
    BY <2>3, <2>4 DEF Row
  <2>6. requests[r].found # NoRow => \E x \in rows : x.id = i
    BY DEF i, OtpInv, RowsInv
  <2> QED  BY <2>3, <2>5, <2>6
<1> HIDE DEF z
<1>3. /\ rows' \in SUBSET Row /\ z \in rows'
      /\ \A x, y \in rows' : x.id = y.id => x = y
      /\ \A x \in rows : \E y \in rows' : y.id = x.id
      /\ (\E x \in rows : x.id = z.id) =>
           ("split" \notin excuse => \A x, y \in rows' : x = y)
      /\ \A y \in rows' : y = z \/ (y \in rows /\ y.id # z.id)
  BY <1>1, <1>2, Stored DEF z
<1>4. /\ requests'[r] = [pc |-> "done", id |-> requests[r].id, found |-> NoRow]
      /\ \A o \in Requests \ {r} : requests'[o] = requests[o]
      /\ requests' \in [Requests -> [pc : {"idle", "allowed", "found", "done"},
                                     id : Ids \cup {0}, found : Row \cup {NoRow}]]
  BY <1>1 DEF OtpInv, OtpTypeOK
<1>5. OtpTypeOK'
  BY <1>1, <1>3, <1>4 DEF OtpInv, OtpTypeOK
<1>6. RowsInv'
  BY <1>1, <1>3, <1>4 DEF OtpInv, RowsInv
<1>7. CodeInv'
  <2>1. requests'[r].pc = "done" /\ z.attempts < MaxAttempts
    BY <1>2, <1>4, AccountsAssumption
  <2>2. ASSUME "split" \notin excuse' PROVE \A x, y \in rows' : x = y
    BY <1>1, <1>2, <1>3, <2>2
  <2> QED  BY <1>1, <1>2, <1>3, <2>1, <2>2 DEF CodeInv
<1>8. RegistrationIsWhole'
  BY <1>1 DEF OtpInv, RegistrationIsWhole
<1> QED  BY <1>5, <1>6, <1>7, <1>8 DEF OtpInv

(* A step that stores a row where there was one, for a reason, and touches *)
(* at most one registration.                                               *)
LEMMA RewriteStep ==
  ASSUME OtpInv, NEW z \in Row, Store(z), \E x \in rows : x.id = z.id,
         regs' \in [Registrations -> [pc : {"idle", "wrong", "right", "verified", "done"},
                                      found : Row \cup {NoRow}]],
         \A g \in Registrations : regs'[g] = regs[g] \/ regs'[g].pc \notin {"wrong", "right"},
         excuse \subseteq excuse',
         excuse' \in SUBSET {"split", "spent", "clobbered", "guessed", "expired"},
         excuse' = {} /\ mailed # NoCode =>
           z.code = mailed /\ ~z.used /\ z.attempts < MaxAttempts /\ ~z.expired,
         UNCHANGED <<slot, requests, user, mailed, events>>
  PROVE  OtpInv'
<1>1. /\ rows' \in SUBSET Row /\ z \in rows'
      /\ \A x, y \in rows' : x.id = y.id => x = y
      /\ \A x \in rows : \E y \in rows' : y.id = x.id
      /\ "split" \notin excuse => \A x, y \in rows' : x = y
  BY Stored
<1>2. OtpTypeOK'
  BY <1>1 DEF OtpInv, OtpTypeOK
<1>3. RowsInv'
  <2>1. \A g \in Registrations : regs'[g].pc \in {"wrong", "right"} =>
          regs'[g].found # NoRow /\ \E x \in rows' : x.id = regs'[g].found.id
    BY <1>1 DEF OtpInv, RowsInv
  <2>2. \A r \in Requests : requests'[r].found # NoRow => \E x \in rows' : x.id = requests'[r].found.id
    BY <1>1 DEF OtpInv, RowsInv
  <2> QED  BY <1>1, <2>1, <2>2 DEF OtpInv, RowsInv
<1>4. CodeInv'
  BY <1>1 DEF OtpInv, CodeInv
<1>5. RegistrationIsWhole'
  BY DEF OtpInv, RegistrationIsWhole
<1> QED  BY <1>2, <1>3, <1>4, <1>5 DEF OtpInv
LEMMA CodeExpiresInv == ASSUME OtpInv, CodeExpires PROVE OtpInv'
<1>1. PICK x \in rows : ~x.expired /\ Store([x EXCEPT !.expired = TRUE])
  BY DEF CodeExpires
<1> DEFINE z == [x EXCEPT !.expired = TRUE]
<1>2. z \in Row /\ z.id = x.id
  BY DEF OtpInv, OtpTypeOK, Row
<1>3. /\ excuse' = excuse \cup {"expired"}
      /\ UNCHANGED <<slot, requests, regs, user, mailed, events>>
      /\ Store(z) /\ \E w \in rows : w.id = z.id
  BY <1>1, <1>2 DEF CodeExpires
<1>4. /\ excuse \subseteq excuse' /\ excuse' # {}
      /\ excuse' \in SUBSET {"split", "spent", "clobbered", "guessed", "expired"}
      /\ regs' \in [Registrations -> [pc : {"idle", "wrong", "right", "verified", "done"},
                                      found : Row \cup {NoRow}]]
  BY <1>3 DEF OtpInv, OtpTypeOK
<1> HIDE DEF z
<1> QED  BY <1>2, <1>3, <1>4, RewriteStep

(* What a registration's next step makes of it.                            *)
LEMMA StepRegType ==
  ASSUME OtpInv, NEW g \in Registrations,
         NEW pc \in {"idle", "verified", "done"}, StepReg(g, pc)
  PROVE  /\ regs'[g] = [pc |-> pc, found |-> NoRow]
         /\ \A o \in Registrations \ {g} : regs'[o] = regs[o]
         /\ regs' \in [Registrations -> [pc : {"idle", "wrong", "right", "verified", "done"},
                                        found : Row \cup {NoRow}]]
         /\ \A o \in Registrations : regs'[o] = regs[o] \/ regs'[o].pc \notin {"wrong", "right"}
<1>1. regs' = [regs EXCEPT ![g] = [pc |-> pc, found |-> NoRow]]
  BY DEF StepReg
<1> QED  BY <1>1 DEF OtpInv, OtpTypeOK

(* A step of one registration that writes no row.                          *)
LEMMA RegistrationStep ==
  ASSUME OtpInv, NEW g \in Registrations,
         regs' \in [Registrations -> [pc : {"idle", "wrong", "right", "verified", "done"},
                                      found : Row \cup {NoRow}]],
         \A o \in Registrations \ {g} : regs'[o] = regs[o],
         regs'[g].pc \in {"wrong", "right"} => regs'[g].found \in rows,
         UNCHANGED <<rows, slot, requests, user, mailed, events, excuse>>
  PROVE  OtpInv'
<1>1. \A x \in rows : x # NoRow
  BY AccountsAssumption, FS_CardinalityType DEF OtpInv, OtpTypeOK, Row, Ids, NoRow
<1>2. OtpTypeOK'
  BY DEF OtpInv, OtpTypeOK
<1>3. RowsInv'
  BY <1>1 DEF OtpInv, RowsInv
<1>4. CodeInv' /\ RegistrationIsWhole'
  BY DEF OtpInv, CodeInv, RegistrationIsWhole
<1> QED  BY <1>2, <1>3, <1>4 DEF OtpInv

LEMMA VerifyInv ==
  ASSUME OtpInv, NEW g \in Registrations, NEW code \in Requests, Verify(g, code)
  PROVE  OtpInv'
<1>1. First # NoRow
  BY DEF Verify, NoRow
<1>2. First \in rows /\ First \in Row
  BY <1>1, FirstRow DEF OtpInv
<1> DEFINE pc == IF code = First.code THEN "right" ELSE "wrong"
<1>3. regs' = [regs EXCEPT ![g] = [pc |-> pc, found |-> First]] /\ pc \in {"right", "wrong"}
  BY DEF Verify
<1> HIDE DEF pc
<1>4. /\ regs'[g] = [pc |-> pc, found |-> First]
      /\ \A o \in Registrations \ {g} : regs'[o] = regs[o]
      /\ regs' \in [Registrations -> [pc : {"idle", "wrong", "right", "verified", "done"},
                                     found : Row \cup {NoRow}]]
  BY <1>2, <1>3 DEF OtpInv, OtpTypeOK
<1> QED  BY <1>2, <1>4, RegistrationStep DEF Verify

LEMMA RegistrationFailsInv ==
  ASSUME OtpInv, NEW g \in Registrations, RegistrationFails(g)
  PROVE  OtpInv'
<1>1. StepReg(g, "idle")
  BY DEF RegistrationFails
<1>2. /\ regs'[g] = [pc |-> "idle", found |-> NoRow]
      /\ \A o \in Registrations \ {g} : regs'[o] = regs[o]
      /\ regs' \in [Registrations -> [pc : {"idle", "wrong", "right", "verified", "done"},
                                     found : Row \cup {NoRow}]]
  BY <1>1, StepRegType
<1> QED  BY <1>2, RegistrationStep DEF RegistrationFails

(* The row counted up is the one of the id that was read.                  *)
LEMMA CountedRow ==
  ASSUME OtpInv, NEW g \in Registrations, regs[g].pc = "wrong"
  PROVE  \E y \in rows : /\ y.id = regs[g].found.id
                         /\ Counted(g) = [y EXCEPT !.attempts = @ + 1]
<1> DEFINE y == CHOOSE x \in rows : x.id = regs[g].found.id
<1>1. y \in rows /\ y.id = regs[g].found.id
  BY DEF OtpInv, RowsInv
<1> QED  BY <1>1 DEF Counted

(* One more wrong code; the code still works unless it was the last try.   *)
LEMMA IncrementAttemptsInv ==
  ASSUME OtpInv, NEW g \in Registrations, IncrementAttempts(g)
  PROVE  OtpInv'
<1>1. PICK y \in rows : y.id = regs[g].found.id /\ Counted(g) = [y EXCEPT !.attempts = @ + 1]
  BY CountedRow DEF IncrementAttempts
<1> DEFINE z == Counted(g)
<1>2. y \in Row /\ y.attempts \in Nat
  BY DEF OtpInv, OtpTypeOK, Row
<1>3. z = [id |-> y.id, code |-> y.code, used |-> y.used, attempts |-> y.attempts + 1, expired |-> y.expired]
  BY <1>1, <1>2 DEF Row
<1>4. z \in Row /\ z.id = y.id
  BY <1>2, <1>3 DEF Row
<1>5. /\ Store(z) /\ \E x \in rows : x.id = z.id
      /\ StepReg(g, "idle")
      /\ excuse' = IF z.attempts >= MaxAttempts THEN excuse \cup {"guessed"} ELSE excuse
      /\ UNCHANGED <<slot, requests, user, mailed, events>>
  BY <1>4 DEF IncrementAttempts
<1> HIDE DEF z
<1>6. excuse' = {} /\ mailed # NoCode =>
        z.code = mailed /\ ~z.used /\ z.attempts < MaxAttempts /\ ~z.expired
  <2> SUFFICES ASSUME excuse' = {}, mailed # NoCode
               PROVE  z.code = mailed /\ ~z.used /\ z.attempts < MaxAttempts /\ ~z.expired
    OBVIOUS
  <2>1. excuse = {} /\ ~(z.attempts >= MaxAttempts)
    BY <1>5
  <2>2. y.code = mailed /\ ~y.used /\ ~y.expired
    BY <2>1 DEF OtpInv, CodeInv
  <2>3. z.attempts \in Nat /\ MaxAttempts \in Nat
    BY <1>4, AccountsAssumption DEF Row
  <2> QED  BY <1>3, <2>1, <2>2, <2>3
<1>7. /\ excuse \subseteq excuse'
      /\ excuse' \in SUBSET {"split", "spent", "clobbered", "guessed", "expired"}
  BY <1>5 DEF OtpInv, OtpTypeOK
<1>8. /\ regs' \in [Registrations -> [pc : {"idle", "wrong", "right", "verified", "done"},
                                     found : Row \cup {NoRow}]]
      /\ \A o \in Registrations : regs'[o] = regs[o] \/ regs'[o].pc \notin {"wrong", "right"}
  BY <1>5, StepRegType
<1> QED  BY <1>4, <1>5, <1>6, <1>7, <1>8, RewriteStep

LEMMA MarkUsedInv == ASSUME OtpInv, NEW g \in Registrations, MarkUsed(g) PROVE OtpInv'
<1> DEFINE f == regs[g].found
           z == [f EXCEPT !.code = NoCode, !.used = TRUE]
<1>1. f \in Row /\ \E x \in rows : x.id = f.id
  BY DEF MarkUsed, OtpInv, OtpTypeOK, RowsInv
<1>2. z \in Row /\ z.id = f.id
  BY <1>1 DEF Row
<1>3. /\ Store(z) /\ \E x \in rows : x.id = z.id
      /\ StepReg(g, "verified")
      /\ excuse' = excuse \cup {IF f.code = mailed THEN "spent" ELSE "clobbered"}
      /\ UNCHANGED <<slot, requests, user, mailed, events>>
  BY <1>1, <1>2 DEF MarkUsed
<1> HIDE DEF z, f
<1>4. /\ excuse \subseteq excuse' /\ excuse' # {}
      /\ excuse' \in SUBSET {"split", "spent", "clobbered", "guessed", "expired"}
  BY <1>3 DEF OtpInv, OtpTypeOK
<1>5. /\ regs' \in [Registrations -> [pc : {"idle", "wrong", "right", "verified", "done"},
                                     found : Row \cup {NoRow}]]
      /\ \A o \in Registrations : regs'[o] = regs[o] \/ regs'[o].pc \notin {"wrong", "right"}
  BY <1>3, StepRegType
<1> QED  BY <1>2, <1>3, <1>4, <1>5, RewriteStep

(* The first registration to get here; there were no events before it.     *)
LEMMA CreateUserInv ==
  ASSUME OtpInv, NEW g \in Registrations, NEW role \in Roles, CreateUser(g, role)
  PROVE  OtpInv'
<1>1. /\ user = NoUser /\ user' = [by |-> g, role |-> role]
      /\ events' = events \cup Announced(g, role)
      /\ StepReg(g, "done")
      /\ UNCHANGED <<rows, slot, requests, mailed, excuse>>
  BY DEF CreateUser
<1>2. /\ regs'[g] = [pc |-> "done", found |-> NoRow]
      /\ \A o \in Registrations \ {g} : regs'[o] = regs[o]
      /\ regs' \in [Registrations -> [pc : {"idle", "wrong", "right", "verified", "done"},
                                     found : Row \cup {NoRow}]]
      /\ \A o \in Registrations : regs'[o] = regs[o] \/ regs'[o].pc \notin {"wrong", "right"}
  BY <1>1, StepRegType
<1>3. events = {} /\ user' \notin {NoUser, OldUser} /\ user'.by = g /\ user'.role = role
  BY <1>1, AccountsAssumption DEF OtpInv, RegistrationIsWhole, NoUser, OldUser
<1>4. events' = Announced(g, role)
  BY <1>1, <1>3
<1>5. RegistrationIsWhole'
  BY <1>3, <1>4 DEF RegistrationIsWhole
<1>6. events' \in SUBSET ({"user.registered", "restaurant.initiated"} \X Registrations)
  BY <1>4 DEF Announced
<1>7. OtpTypeOK'
  BY <1>1, <1>2, <1>6 DEF OtpInv, OtpTypeOK
<1>8. RowsInv'
  BY <1>1, <1>2 DEF OtpInv, RowsInv
<1>9. CodeInv'
  BY <1>1 DEF OtpInv, CodeInv
<1> QED  BY <1>5, <1>7, <1>8, <1>9 DEF OtpInv

LEMMA OtpStutterInv ==
  ASSUME OtpInv, UNCHANGED <<rows, requests, regs, user, mailed, events, excuse>>, slot' \in BOOLEAN
  PROVE  OtpInv'
<1>1. OtpTypeOK'
  BY DEF OtpInv, OtpTypeOK
<1>2. RowsInv' /\ CodeInv' /\ RegistrationIsWhole'
  BY DEF OtpInv, RowsInv, CodeInv, RegistrationIsWhole
<1> QED  BY <1>1, <1>2 DEF OtpInv

LEMMA OtpStepInv == OtpInv /\ [AccountsNext]_accountVars => OtpInv'
<1> SUFFICES ASSUME OtpInv, [AccountsNext]_accountVars PROVE OtpInv'
  OBVIOUS
<1>1. CASE UNCHANGED otpVars
  BY <1>1, OtpStutterInv DEF otpVars, OtpInv, OtpTypeOK
<1>2. CASE CooldownEnds
  BY <1>2, OtpStutterInv DEF CooldownEnds
<1>3. CASE CodeExpires
  BY <1>3, CodeExpiresInv
<1>4. ASSUME NEW r \in Requests, Allow(r) \/ FindRow(r) \/ SaveCode(r) \/ RequestFails(r)
      PROVE  OtpInv'
  BY <1>4, AllowInv, FindRowInv, SaveCodeInv, RequestFailsInv
<1>5. ASSUME NEW g \in Registrations, NEW code \in Requests, Verify(g, code) PROVE OtpInv'
  BY <1>5, VerifyInv
<1>6. ASSUME NEW g \in Registrations, IncrementAttempts(g) \/ MarkUsed(g) \/ RegistrationFails(g)
      PROVE  OtpInv'
  BY <1>6, IncrementAttemptsInv, MarkUsedInv, RegistrationFailsInv
<1>7. ASSUME NEW g \in Registrations, NEW role \in Roles, CreateUser(g, role) PROVE OtpInv'
  BY <1>7, CreateUserInv
<1>8. OtpNext \/ UNCHANGED otpVars
  BY DEF AccountsNext, accountVars
<1> QED  BY <1>1, <1>2, <1>3, <1>4, <1>5, <1>6, <1>7, <1>8 DEF OtpNext

LEMMA OtpAlways == AccountsSpec => []OtpInv
  BY OtpInitInv, OtpStepInv, PTL DEF AccountsSpec

(* The code mailed last is accepted as long as nothing spoilt it.          *)
THEOREM MailedCode_Works == AccountsSpec => []MailedCodeWorks
<1>1. OtpInv => MailedCodeWorks
  <2> SUFFICES ASSUME OtpInv, mailed # NoCode, excuse = {}
               PROVE  First.code = mailed /\ ~First.used /\ First.attempts < MaxAttempts /\ ~First.expired
    BY DEF MailedCodeWorks
  <2>1. PICK x \in rows : x.code = mailed /\ ~x.used /\ x.attempts < MaxAttempts /\ ~x.expired
    BY DEF OtpInv, CodeInv
  <2>2. First \in rows
    BY <2>1, FirstRow DEF OtpInv
  <2>3. First = x
    BY <2>2 DEF OtpInv, CodeInv
  <2> QED  BY <2>1, <2>3
<1> QED  BY <1>1, OtpAlways, PTL

(* The events tell of the one registration that made the user, whatever    *)
(* registrations passed Verify together.                                   *)
THEOREM Registration_IsWhole == AccountsSpec => []RegistrationIsWhole
<1>1. OtpInv => RegistrationIsWhole
  BY DEF OtpInv
<1> QED  BY <1>1, OtpAlways, PTL

(* A used row becomes usable again only as another code is mailed.         *)
LEMMA SpentStep ==
  ASSUME OtpInv, [AccountsNext]_accountVars, mailed' = mailed
  PROVE  \A x \in rows, y \in rows' : x.id = y.id /\ x.used => y.used
<1> DEFINE Kept == \A x \in rows, y \in rows' : x.id = y.id /\ x.used => y.used
<1>1. \A x, y \in rows : x.id = y.id => x = y
  BY DEF OtpInv, RowsInv
<1>2. CASE UNCHANGED rows
  BY <1>1, <1>2
<1>3. ASSUME NEW z, Store(z), \A x \in rows : x.id = z.id /\ x.used => z.used PROVE Kept
  BY <1>1, <1>3 DEF Store
<1>4. CASE CodeExpires
  <2>1. PICK w \in rows : Store([w EXCEPT !.expired = TRUE])
    BY <1>4 DEF CodeExpires
  <2> DEFINE z == [w EXCEPT !.expired = TRUE]
  <2>2. z.id = w.id /\ z.used = w.used
    BY DEF OtpInv, OtpTypeOK, Row
  <2> HIDE DEF z
  <2>3. \A x \in rows : x.id = z.id /\ x.used => z.used
    BY <1>1, <2>2
  <2> QED  BY <1>3, <2>1, <2>3 DEF z
<1>5. ASSUME NEW r \in Requests, SaveCode(r) PROVE FALSE
  <2>1. mailed = r /\ requests[r].pc = "found" /\ r # NoCode
    BY <1>5, AccountsAssumption DEF SaveCode
  <2> QED  BY <2>1 DEF OtpInv, CodeInv
<1>6. ASSUME NEW g \in Registrations, IncrementAttempts(g) PROVE Kept
  <2>1. PICK w \in rows : Counted(g) = [w EXCEPT !.attempts = @ + 1]
    BY <1>6, CountedRow DEF IncrementAttempts
  <2>2. Counted(g).id = w.id /\ Counted(g).used = w.used
    BY <2>1 DEF OtpInv, OtpTypeOK, Row
  <2>3. \A x \in rows : x.id = Counted(g).id /\ x.used => Counted(g).used
    BY <1>1, <2>2
  <2>4. Store(Counted(g))
    BY <1>6 DEF IncrementAttempts
  <2> QED  BY <1>3, <2>3, <2>4
<1>7. ASSUME NEW g \in Registrations, MarkUsed(g) PROVE Kept
  <2> DEFINE z == [regs[g].found EXCEPT !.code = NoCode, !.used = TRUE]
  <2>1. regs[g].found \in Row /\ Store(z)
    BY <1>7 DEF MarkUsed, OtpInv, OtpTypeOK, RowsInv
  <2>2. z.used
    BY <2>1 DEF Row
  <2> HIDE DEF z
  <2> QED  BY <1>3, <2>1, <2>2
<1>8. \/ UNCHANGED rows \/ CodeExpires
      \/ \E r \in Requests : SaveCode(r)
      \/ \E g \in Registrations : IncrementAttempts(g) \/ MarkUsed(g)
  BY DEF AccountsNext, accountVars, otpVars, OtpNext, CooldownEnds, Allow, FindRow, RequestFails,
         Verify, CreateUser, RegistrationFails
<1> QED  BY <1>2, <1>4, <1>5, <1>6, <1>7, <1>8

(* No step, whoever takes it, makes a used verification usable without     *)
(* mailing another code.                                                   *)
THEOREM Spent_StaysSpent == AccountsSpec => SpentStaysSpent
<1>1. OtpInv /\ [AccountsNext]_accountVars =>
        [mailed' = mailed =>
           \A x \in rows, y \in rows' : x.id = y.id /\ x.used => y.used]_accountVars
  BY SpentStep
<1> QED  BY <1>1, OtpAlways, PTL DEF AccountsSpec, SpentStaysSpent

(* Every reachable state of an address, its account and its sessions is    *)
(* well typed.                                                             *)
THEOREM Accounts_TypeCorrect == AccountsSpec => []AccountsTypeOK
<1>1. SessionsInv /\ OtpInv => AccountsTypeOK
  BY DEF SessionsInv, OtpInv, OtpTypeOK, AccountsTypeOK
<1> QED  BY <1>1, SessionsAlways, OtpAlways, PTL
=============================================================================
