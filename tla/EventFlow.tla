------------------------------ MODULE EventFlow ------------------------------
(***************************************************************************)
(* The six services together: an event goes from the outbox of the service *)
(* that committed it through that service's exchange into the queue of     *)
(* every worker that bound its name, and there to the handler registered   *)
(* for it.  Who publishes, binds and handles what is written down in each  *)
(* service by itself.  One transaction is followed, with what its handlers *)
(* commit in turn.  (One outbox row in detail is module Outbox, one queue  *)
(* module Delivery; here both keep what the other end can tell.)           *)
(***************************************************************************)
EXTENDS Naturals, Sequences, FiniteSets

CONSTANTS MaxAttempts,  \* WorkerConfig.MaxRetries
          MaxRetries,   \* MaxRetryAttempts of the consumers
          MaxMishaps    \* bound: lost answers, failed handlers, crashes

ASSUME EventFlowAssumption ==
  MaxAttempts \in Nat \ {0} /\ MaxRetries \in Nat /\ MaxMishaps \in Nat

VARIABLES
  row,          \* each event's outbox row, and how far a relay is with it
  bound,        \* the workers whose queue has been declared and bound
  queues,       \* the copies in the workers' queues, delivered ones included
  accepted,     \* which worker's handler succeeded with which event
  deadLetters,  \* which event is in which worker's dead-letter queue
  mails,        \* how often each mail of an event was handed to the SMTP server
  early,        \* history: published before the worker had its queue
  mishaps

flowVars == <<row, bound, queues, accepted, deadLetters, mails, early, mishaps>>

-----------------------------------------------------------------------------
(* What each service says of itself: its events by transaction, its        *)
(* bindings as <<exchange, routing key>>, and its handlers.                *)
IdentityTransactions ==
  {{"email.verification_created"}, {"user.registered"}, {"user.registered", "restaurant.initiated"}}
CustomerTransactions == {{"customer.phone_updated"}}
PaymentTransactions == {{"payment.succeeded"}, {"payment.failed"}}
OrderTransactions == {{"order.address_saved"}}
RestaurantTransactions ==
  {{e} : e \in {"restaurant.ready_for_review", "restaurant.approved", "restaurant.launched",
                "restaurant.updated", "restaurant.pizza_updated", "restaurant.topping_prices_updated"}}

RestaurantNews == {"restaurant.launched", "restaurant.updated",
                   "restaurant.pizza_updated", "restaurant.topping_prices_updated"}

OrderExchanges ==
  ({"restaurant.events"} \X RestaurantNews)
    \cup {<<"identity.events", "user.registered">>, <<"customer.events", "customer.phone_updated">>}
    \cup ({"payment.events"} \X {"payment.succeeded", "payment.failed"})
CustomerExchanges ==
  {<<"identity.events", "user.registered">>, <<"order.events", "order.address_saved">>}
RestaurantExchanges == {<<"identity.events", "restaurant.initiated">>}
SearchExchanges == {"restaurant.events"} \X RestaurantNews

(* The order is looked for at the service that has it paid.                *)
NotificationExchanges_payment ==
  ({"identity.events"} \X {"email.verification_created", "user.registered"})
    \cup ({"restaurant.events"} \X {"restaurant.ready_for_review", "restaurant.approved"})
    \cup {<<"payment.events", "order.confirmed">>}
NotificationExchanges ==
  ({"identity.events"} \X {"email.verification_created", "user.registered"})
    \cup ({"restaurant.events"} \X {"restaurant.ready_for_review", "restaurant.approved"})
    \cup {<<"order.events", "order.confirmed">>}

OrderHandlers == RestaurantNews \cup
  {"user.registered", "customer.phone_updated", "payment.succeeded", "payment.failed"}
CustomerHandlers == {"user.registered", "order.address_saved"}
RestaurantHandlers == {"restaurant.initiated"}
(* One of the four is bound, but not registered with the dispatcher.       *)
SearchHandlers_forgotten == RestaurantNews \ {"restaurant.topping_prices_updated"}
SearchHandlers == RestaurantNews
NotificationHandlers == {"user.registered", "email.verification_created",
  "restaurant.ready_for_review", "restaurant.approved", "order.confirmed"}

Recipients == {"user", "customer", "owner", "admin"}

(* What a notification handler sends, in its order.                        *)
WelcomeMails == <<"user">>
CodeMails    == <<"user">>
ReviewMails  == <<"admin">>
ApprovedMails == <<"owner">>
(* The owner's mail goes out first.                                        *)
OrderMails_ownerFirst == <<"owner", "customer">>
OrderMails == <<"customer", "owner">>
Mails(e) ==
  CASE e = "user.registered"             -> WelcomeMails
    [] e = "email.verification_created"  -> CodeMails
    [] e = "restaurant.ready_for_review" -> ReviewMails
    [] e = "restaurant.approved"         -> ApprovedMails
    [] e = "order.confirmed"             -> OrderMails
    [] OTHER                             -> <<>>

-----------------------------------------------------------------------------
Transactions == IdentityTransactions \cup CustomerTransactions \cup PaymentTransactions
                  \cup OrderTransactions \cup RestaurantTransactions
Names   == (UNION Transactions) \cup {"order.confirmed"}
Workers == {"order", "customer", "restaurant", "search", "notification"}

Exchanges ==
  [order |-> OrderExchanges, customer |-> CustomerExchanges, restaurant |-> RestaurantExchanges,
   search |-> SearchExchanges, notification |-> NotificationExchanges]

Handlers ==
  [order |-> OrderHandlers, customer |-> CustomerHandlers, restaurant |-> RestaurantHandlers,
   search |-> SearchHandlers, notification |-> NotificationHandlers]

Row  == [status : {"none", "pending", "processing", "processed", "failed"},
         attempts : Nat, relay : {"none", "claimed", "confirmed", "error"}]
QueuedCopy == [at : Workers, name : Names, copy : Nat, tries : 0..MaxRetries]

FlowTypeOK ==
  /\ row \in [Names -> Row]
  /\ bound \in SUBSET Workers
  /\ \A c \in queues : c \in QueuedCopy
  /\ accepted \in SUBSET (Workers \X Names)
  /\ deadLetters \in SUBSET (Workers \X Names)
  /\ mails \in [Names -> [Recipients -> Nat]]
  /\ early \in SUBSET (Workers \X Names)
  /\ mishaps \in 0..MaxMishaps

FlowInit ==
  /\ row = [e \in Names |-> [status |-> "none", attempts |-> 0, relay |-> "none"]]
  /\ bound = {}
  /\ queues = {}
  /\ accepted = {}
  /\ deadLetters = {}
  /\ mails = [e \in Names |-> [r \in Recipients |-> 0]]
  /\ early = {}
  /\ mishaps = 0

(* n of the mishaps that are left happen in this step.                      *)
Mishaps(n) == mishaps + n <= MaxMishaps /\ mishaps' = mishaps + n

Recorded(events) ==
  [e \in Names |-> IF e \in events /\ row[e].status = "none"
                   THEN [status |-> "pending", attempts |-> 0, relay |-> "none"] ELSE row[e]]

(* A command's transaction; one in a behaviour.                            *)
Commit(transactions) ==
  /\ \A e \in Names : row[e].status = "none"
  /\ \E t \in transactions : row' = Recorded(t)
  /\ UNCHANGED <<bound, queues, accepted, deadLetters, mails, early, mishaps>>

-----------------------------------------------------------------------------
(* The relay of a service, its outbox worker and publisher.                *)
SetRow(e, status, attempts, relay) ==
  row' = [row EXCEPT ![e] = [status |-> status, attempts |-> attempts, relay |-> relay]]

(* Only pending rows are looked for.                                       *)
Claims_pendingOnly(e) ==
  /\ row[e].relay = "none"
  /\ row[e].status = "pending"
  /\ SetRow(e, "processing", row[e].attempts + 1, "claimed")
  /\ UNCHANGED <<bound, queues, accepted, deadLetters, mails, early, mishaps>>

(* FetchAndMarkProcessing: pending, or processing by nobody once the lease *)
(* has run out.                                                            *)
Claims(e) ==
  /\ row[e].relay = "none"
  /\ row[e].status \in {"pending", "processing"}
  /\ SetRow(e, "processing", row[e].attempts + 1, "claimed")
  /\ UNCHANGED <<bound, queues, accepted, deadLetters, mails, early, mishaps>>

Routed(exchange, e) ==
  queues \cup {[at |-> w, name |-> e, copy |-> row[e].attempts, tries |-> 0] :
                w \in {v \in bound : <<exchange, e>> \in Exchanges[v]}}

(* Not mandatory: the broker confirms what no queue is bound for, too.  An *)
(* error may come before the message reached the broker, or after.         *)
Publishes(exchange, e) ==
  /\ row[e].relay = "claimed"
  /\ \/ /\ SetRow(e, "processing", row[e].attempts, "confirmed")
        /\ queues' = Routed(exchange, e)
        /\ UNCHANGED mishaps
     \/ /\ SetRow(e, "processing", row[e].attempts, "error")
        /\ queues' \in {queues, Routed(exchange, e)}
        /\ Mishaps(1)
  /\ early' = early \cup {<<w, e>> : w \in {v \in Workers \ bound : e \in Handlers[v]}}
  /\ UNCHANGED <<bound, accepted, deadLetters, mails>>

(* handleEvent writes down the outcome; when that fails the lease runs out.*)
Settles(e) ==
  /\ row[e].relay \in {"confirmed", "error"}
  /\ \/ /\ SetRow(e, IF row[e].relay = "confirmed" THEN "processed"
                     ELSE IF row[e].attempts >= MaxAttempts THEN "failed" ELSE "pending",
                  row[e].attempts, "none")
        /\ UNCHANGED mishaps
     \/ /\ SetRow(e, "processing", row[e].attempts, "none")
        /\ Mishaps(1)
  /\ UNCHANGED <<bound, queues, accepted, deadLetters, mails, early>>

(* The worker stops: the rest of the batch is released, an event that had  *)
(* its goroutine is left to its lease; or it crashes and leaves them all.  *)
Stops(e) ==
  /\ row[e].relay # "none"
  /\ \E status \in {"processing"} \cup (IF row[e].relay = "claimed" THEN {"pending"} ELSE {}) :
       SetRow(e, status, row[e].attempts, "none")
  /\ Mishaps(1)
  /\ UNCHANGED <<bound, queues, accepted, deadLetters, mails, early>>

-----------------------------------------------------------------------------
(* The worker of a service, its consumer and dispatcher.                   *)
Connects(w) ==
  /\ w \notin bound
  /\ \E b \in Exchanges[w] : row[b[2]].status # "none"  \* bound: it is concerned
  /\ bound' = bound \cup {w}
  /\ UNCHANGED <<row, queues, accepted, deadLetters, mails, early, mishaps>>

(* The restaurant is created, not upserted: a second delivery fails.       *)
Refuses(c) ==
  c.name \notin Handlers[c.at] \/ (c.name = "restaurant.initiated" /\ <<c.at, c.name>> \in accepted)

(* The first n mails of a handler.                                         *)
Sent(e, n) ==
  [mails EXCEPT ![e] = [r \in Recipients |->
     IF \E i \in 1..n : Mails(e)[i] = r THEN @[r] + 1 ELSE @[r]]]

(* payment.succeeded confirms the order, once, which records its event.    *)
HandledBy(w, e) == Recorded(IF w = "order" /\ e = "payment.succeeded" THEN {"order.confirmed"} ELSE {})

(* The handler succeeds; acknowledged, unless the connection is lost.      *)
Accepts(c) ==
  /\ ~Refuses(c)
  /\ accepted' = accepted \cup {<<c.at, c.name>>}
  /\ row' = HandledBy(c.at, c.name)
  /\ mails' = IF c.at = "notification" THEN Sent(c.name, Len(Mails(c.name))) ELSE mails
  /\ \/ queues' = queues \ {c} /\ UNCHANGED mishaps
     \/ UNCHANGED queues /\ Mishaps(1)
  /\ UNCHANGED deadLetters

(* It fails, some mails of it sent: republished with one more try, then    *)
(* acknowledged, or rejected into the dead-letter queue.                   *)
Rejects(c) ==
  /\ \E cause \in 0..1, lost \in 0..1 :
       /\ Refuses(c) = (cause = 0)
       /\ Mishaps(cause + lost)
       /\ c.tries = MaxRetries => lost = 0
       /\ queues' = (IF lost = 1 THEN queues ELSE queues \ {c}) \cup
                   (IF c.tries < MaxRetries THEN {[c EXCEPT !.tries = @ + 1]} ELSE {})
  /\ deadLetters' = deadLetters \cup (IF c.tries < MaxRetries THEN {} ELSE {<<c.at, c.name>>})
  /\ \E n \in 0..Len(Mails(c.name)) :
       mails' = IF c.at = "notification" /\ ~Refuses(c) THEN Sent(c.name, n) ELSE mails
  /\ UNCHANGED <<row, accepted>>

Delivers(w) ==
  /\ \E c \in queues : c.at = w /\ (Accepts(c) \/ Rejects(c))
  /\ UNCHANGED <<bound, early>>

-----------------------------------------------------------------------------
(* identity-service                                                         *)
IdentityEvents == UNION IdentityTransactions
IdentityCommits == Commit(IdentityTransactions)
IdentityClaims(e) == e \in IdentityEvents /\ Claims(e)
IdentityPublishes(e) == e \in IdentityEvents /\ Publishes("identity.events", e)
IdentitySettles(e) == e \in IdentityEvents /\ Settles(e)
IdentityStops(e) == e \in IdentityEvents /\ Stops(e)

-----------------------------------------------------------------------------
(* customer-service and its worker                                          *)
CustomerEvents == UNION CustomerTransactions
CustomerCommits == Commit(CustomerTransactions)
CustomerClaims(e) == e \in CustomerEvents /\ Claims(e)
CustomerPublishes(e) == e \in CustomerEvents /\ Publishes("customer.events", e)
CustomerSettles(e) == e \in CustomerEvents /\ Settles(e)
CustomerStops(e) == e \in CustomerEvents /\ Stops(e)
CustomerConnects == Connects("customer")
CustomerDelivers == Delivers("customer")

-----------------------------------------------------------------------------
(* payment-service                                                          *)
PaymentEvents == UNION PaymentTransactions
PaymentCommits == Commit(PaymentTransactions)
PaymentClaims(e) == e \in PaymentEvents /\ Claims(e)
PaymentPublishes(e) == e \in PaymentEvents /\ Publishes("payment.events", e)
PaymentSettles(e) == e \in PaymentEvents /\ Settles(e)
PaymentStops(e) == e \in PaymentEvents /\ Stops(e)

-----------------------------------------------------------------------------
(* order-service and its worker                                             *)
OrderEvents == (UNION OrderTransactions) \cup {"order.confirmed"}
OrderCommits == Commit(OrderTransactions)
OrderClaims(e) == e \in OrderEvents /\ Claims(e)
OrderPublishes(e) == e \in OrderEvents /\ Publishes("order.events", e)
OrderSettles(e) == e \in OrderEvents /\ Settles(e)
OrderStops(e) == e \in OrderEvents /\ Stops(e)
OrderConnects == Connects("order")
OrderDelivers == Delivers("order")

-----------------------------------------------------------------------------
(* restaurant-service and its worker                                        *)
RestaurantEvents == UNION RestaurantTransactions
RestaurantCommits == Commit(RestaurantTransactions)
RestaurantClaims(e) == e \in RestaurantEvents /\ Claims(e)
RestaurantPublishes(e) == e \in RestaurantEvents /\ Publishes("restaurant.events", e)
RestaurantSettles(e) == e \in RestaurantEvents /\ Settles(e)
RestaurantStops(e) == e \in RestaurantEvents /\ Stops(e)
RestaurantConnects == Connects("restaurant")
RestaurantDelivers == Delivers("restaurant")

-----------------------------------------------------------------------------
(* search-service: a worker only                                            *)
SearchConnects == Connects("search")
SearchDelivers == Delivers("search")

-----------------------------------------------------------------------------
(* notification-service: a worker only                                      *)
NotificationConnects == Connects("notification")
NotificationDelivers == Delivers("notification")

-----------------------------------------------------------------------------
Committed == {e \in Names : row[e].status # "none"}

Relays(e) ==
  \/ IdentityClaims(e) \/ IdentityPublishes(e) \/ IdentitySettles(e)
  \/ CustomerClaims(e) \/ CustomerPublishes(e) \/ CustomerSettles(e)
  \/ PaymentClaims(e) \/ PaymentPublishes(e) \/ PaymentSettles(e)
  \/ OrderClaims(e) \/ OrderPublishes(e) \/ OrderSettles(e)
  \/ RestaurantClaims(e) \/ RestaurantPublishes(e) \/ RestaurantSettles(e)

Consumes ==
  \/ OrderDelivers \/ CustomerDelivers \/ RestaurantDelivers
  \/ SearchDelivers \/ NotificationDelivers

FlowNext ==
  \/ IdentityCommits \/ CustomerCommits \/ PaymentCommits \/ OrderCommits \/ RestaurantCommits
  \/ \E e \in Committed :
       \/ Relays(e)
       \/ IdentityStops(e) \/ CustomerStops(e) \/ PaymentStops(e)
       \/ OrderStops(e) \/ RestaurantStops(e)
  \/ OrderConnects \/ CustomerConnects \/ RestaurantConnects
  \/ SearchConnects \/ NotificationConnects
  \/ Consumes

(* Fairness: the relays poll every two seconds, the workers wait on their  *)
(* queues.  Nobody need commit anything, start a worker or make a mistake. *)
FlowSpec == FlowInit /\ [][FlowNext]_flowVars
FairFlow ==
  /\ FlowSpec
  /\ WF_flowVars(\E e \in Committed : Relays(e))
  /\ WF_flowVars(Consumes)

-----------------------------------------------------------------------------
Subscribers(e) == {w \in Workers : e \in Handlers[w]}

(* An event marked as processed has reached every worker that has a        *)
(* handler for it, or was published before that worker first bound its     *)
(* queue: the broker confirms what it routes to nobody.  It holds although *)
(* exchange, binding and handler are named in three places each.           *)
MissedHasReason ==
  \A e \in Names : row[e].status = "processed" =>
    \A w \in Subscribers(e) :
      \/ <<w, e>> \in accepted \cup deadLetters \cup early
      \/ \E c \in queues : c.at = w /\ c.name = e

(* A dead letter has failed for every try of its budget - or what it asks  *)
(* for had been done: only restaurant-service cannot take an event twice.  *)
DeadHasReason ==
  \A w \in Workers, e \in Names : <<w, e>> \in deadLetters =>
    mishaps > MaxRetries \/ (w = "restaurant" /\ <<w, e>> \in accepted)

(* The owner is not told of an order before its customer is, nobody is     *)
(* left out of an event that was handled, and a mail is repeated at most   *)
(* once for each failure on its way, however the handler got to fail.      *)
MailsHaveReasons ==
  /\ \A e \in Names, r \in Recipients : mails[e][r] <= 1 + mishaps
  /\ mails["order.confirmed"]["owner"] <= mails["order.confirmed"]["customer"]
  /\ \A e \in Names : <<"notification", e>> \in accepted =>
       \A i \in 1..Len(Mails(e)) : mails[e][Mails(e)[i]] > 0

(* Every event that was committed, also by a handler, gets to all its      *)
(* subscribers that were there when it was published, or is given up on    *)
(* the record: as failed in the outbox or as a dead letter.                *)
Arrived(e) ==
  \/ row[e].status = "failed"
  \/ \A w \in Subscribers(e) : <<w, e>> \in accepted \cup deadLetters \cup early
CommittedArrives == <>[](\A e \in Committed : Arrived(e))
=============================================================================
