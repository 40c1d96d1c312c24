------------------------- MODULE PizzaMirrors_proofs -------------------------
(***************************************************************************)
(* The copies of a pizza settle, for any requests and sizes.  A stamp says *)
(* little by itself: it is drawn before its row is locked, and two may be  *)
(* equal.  The argument: `latest' bounds every stamp that was announced    *)
(* and therefore all that is pending or stored.  An announcement above     *)
(* that bound leaves nothing astray that came before it; a copy that has   *)
(* taken it holds its stamp and refuses the others, and where it holds     *)
(* nothing because the last one was a removal, nothing pending would       *)
(* restore it.  The second part is about the fields and the topping prices *)
(* of StoreMirrors, where likewise a later writer may have an older time,  *)
(* or the same.                                                            *)
(***************************************************************************)
EXTENDS PizzaMirrors, StoreMirrors, TLAPS

(* Who has seen the restaurant launched knows of an announcement.          *)
LaunchInv ==
  /\ active => announced # NoEvent
  /\ \A r \in Requests : Open(r) /\ requests[r].active => announced # NoEvent

(* Before the first launch there is nothing to take.                       *)
QuietInv ==
  announced = NoEvent =>
    /\ latest = 0 /\ pending = {} /\ index = NoDoc /\ row = Absent
    /\ \A s \in Sizes : priceRows[s] = Absent

(* No stamp announced, pending or stored is above the greatest one.        *)
StampInv ==
  /\ announced # NoEvent => announced.at <= latest
  /\ \A e \in pending : e.at <= latest
  /\ index # NoDoc /\ index.pizza # Absent => index.pizza.at <= latest
  /\ row # Absent => row.at <= latest
  /\ \A s \in Sizes : priceRows[s] # Absent => priceRows[s].at <= latest

(* Launched once, the restaurant has one snapshot, and the document is it. *)
SnapshotInv ==
  consumer = "search" /\ "relaunch" \notin astray =>
    /\ \A e \in pending : e.name = "launched" /\ index # NoDoc => e.opened = index.at
    /\ \A e, o \in pending : e.name = "launched" /\ o.name = "launched" => e = o

(* With nothing astray everything else is older than what was announced    *)
(* last.                                                                   *)
Newer == announced # NoEvent /\ astray = {}

LastInv ==
  Newer =>
    /\ latest = announced.at
    /\ \A e \in pending : e # announced => e.at < announced.at
    /\ announced.name = "launched" => pending \subseteq {announced}
    /\ announced.name = "pizza_updated" => announced.at > 0

(* What has the stamp of the last announcement has its content.            *)
IndexInv ==
  Newer /\ index # NoDoc =>
    /\ announced.name = "launched" => index.pizza = InSnapshot(announced)
    /\ announced.name = "pizza_updated" /\ index.pizza # Absent /\ index.pizza.at = announced.at =>
         Sellable(announced) /\ index.pizza.prices = Active(announced)

ReadModelInv ==
  Newer =>
    /\ announced.name = "launched" /\ ~Sellable(announced) => row = Absent
    /\ row # Absent /\ row.at = announced.at =>
         Sellable(announced) /\ row.status = announced.status
    /\ \A s \in Sizes : priceRows[s] # Absent /\ priceRows[s].at = announced.at =>
         priceRows[s].active = (s \in Active(announced))

(* Having taken the last announcement, a copy cannot lose it.              *)
IndexSettled ==
  consumer = "search" /\ Newer /\ announced \notin pending =>
    /\ index # NoDoc
    /\ IF Sellable(announced)
         THEN /\ index.pizza # Absent
              /\ announced.name = "pizza_updated" => index.pizza.at = announced.at
         ELSE index.pizza = Absent /\ \A e \in pending : ~Restores(e)

ReadModelSettled ==
  consumer = "order" /\ Newer /\ announced \notin pending =>
    IF Sellable(announced)
      THEN /\ row # Absent /\ row.at = announced.at
           /\ \A s \in Sizes : announced.prices[s] # "none" =>
                priceRows[s] # Absent /\ priceRows[s].at = announced.at
      ELSE row = Absent /\ \A e \in pending : ~Restores(e)

Inv == /\ TypeOK /\ LaunchInv /\ QuietInv /\ StampInv /\ SnapshotInv /\ LastInv
       /\ IndexInv /\ ReadModelInv /\ IndexSettled /\ ReadModelSettled

-----------------------------------------------------------------------------
(* A step of restaurant-service that announces nothing.                    *)
LEMMA SilentStep ==
  ASSUME Inv, UNCHANGED <<announced, latest, pending, mirror, astray>>,
         pizza' \in Row, prices' \in Prices, active' \in BOOLEAN, now' \in Nat,
         requests' \in [Requests -> Request \cup {Idle, Done}],
         active' => announced # NoEvent,
         \A r \in Requests : Open(r)' /\ requests'[r].active => announced # NoEvent
  PROVE  Inv'
<1> USE DEF Inv, mirror, order
<1>1. TypeOK'
  BY DEF TypeOK
<1>2. LaunchInv'
  BY DEF LaunchInv
<1>3. QuietInv' /\ StampInv' /\ SnapshotInv'
  BY DEF QuietInv, StampInv, SnapshotInv
<1>4. LastInv' /\ IndexInv' /\ ReadModelInv'
  BY DEF LastInv, IndexInv, ReadModelInv, Newer
<1>5. IndexSettled' /\ ReadModelSettled'
  BY DEF IndexSettled, ReadModelSettled, Newer, Restores, StoresPizza
<1> QED  BY <1>1, <1>2, <1>3, <1>4, <1>5

(* One request reads, writes its prices or draws its stamp.                *)
LEMMA RequestStep ==
  ASSUME Inv, NEW r \in Requests, NEW q \in Request,
         requests' = [requests EXCEPT ![r] = q], q.active => announced # NoEvent, now' \in Nat,
         UNCHANGED <<pizza, prices, active, announced, latest, pending, mirror, astray>>
  PROVE  Inv'
<1>1. /\ requests' \in [Requests -> Request \cup {Idle, Done}]
      /\ requests'[r] = q /\ \A o \in Requests \ {r} : requests'[o] = requests[o]
  BY DEF Inv, TypeOK
<1>2. \A o \in Requests : Open(o)' /\ requests'[o].active => announced # NoEvent
  BY <1>1 DEF Inv, LaunchInv, Open
<1>3. pizza' \in Row /\ prices' \in Prices /\ active' \in BOOLEAN /\ (active' => announced # NoEvent)
  BY DEF Inv, TypeOK, LaunchInv
<1> QED  BY <1>1, <1>2, <1>3, SilentStep

LEMMA UnpricedType == Unpriced \in Prices
BY DEF Unpriced, Prices

LEMMA LoadStep ==
  ASSUME Inv, NEW r \in Requests, NEW cmd \in {"update", "prices", "launch"}, Load(r, cmd)
  PROVE  Inv'
<1> DEFINE q == [pc |-> "loaded", cmd |-> cmd, active |-> active, seen |-> pizza,
                 prices |-> Unpriced, at |-> 0]
<1>1. q \in Request
  BY UnpricedType DEF Inv, TypeOK, Request
<1>2. q.active => announced # NoEvent
  BY DEF Inv, LaunchInv
<1>3. now' \in Nat /\ requests' = [requests EXCEPT ![r] = q]
  BY DEF Load, Inv, TypeOK
<1> HIDE DEF q
<1> QED  BY <1>1, <1>2, <1>3, RequestStep DEF Load

(* An open request with a field or two replaced.                           *)
LEMMA OpenRequest ==
  ASSUME Inv, NEW r \in Requests, Open(r)
  PROVE  /\ requests[r] \in Request
         /\ requests[r].active => announced # NoEvent
         /\ requests[r].seen \in Row /\ requests[r].prices \in Prices /\ requests[r].at \in Nat
         /\ requests[r].active \in BOOLEAN
<1>1. requests[r] \in Request /\ (requests[r].active => announced # NoEvent)
  BY DEF Inv, TypeOK, LaunchInv, Open
<1> QED  BY <1>1 DEF Request

LEMMA ReadPizzaStep ==
  ASSUME Inv, NEW r \in Requests, ReadPizza(r)
  PROVE  Inv'
<1> DEFINE q == [requests[r] EXCEPT !.pc = "read", !.seen = pizza]
<1>1. Open(r)
  BY DEF ReadPizza, At
<1>2. q \in Request /\ q.active = requests[r].active
  BY <1>1, OpenRequest DEF Request, Inv, TypeOK
<1>3. now' \in Nat /\ requests' = [requests EXCEPT ![r] = q]
  BY DEF ReadPizza, Inv, TypeOK
<1> HIDE DEF q
<1> QED  BY <1>1, <1>2, <1>3, OpenRequest, RequestStep DEF ReadPizza

LEMMA ReadPricesStep ==
  ASSUME Inv, NEW r \in Requests, ReadPrices(r)
  PROVE  Inv'
<1> DEFINE q == [requests[r] EXCEPT !.pc = "listed", !.prices = prices]
<1>1. Open(r)
  BY DEF ReadPrices, At
<1>2. q \in Request /\ q.active = requests[r].active
  BY <1>1, OpenRequest DEF Request, Inv, TypeOK
<1>3. now' \in Nat /\ requests' = [requests EXCEPT ![r] = q]
  BY DEF ReadPrices, Inv, TypeOK
<1> HIDE DEF q
<1> QED  BY <1>1, <1>2, <1>3, OpenRequest, RequestStep DEF ReadPrices

LEMMA UpsertPricesStep ==
  ASSUME Inv, NEW r \in Requests, NEW sold \in SUBSET Sizes, UpsertPrices(r, sold)
  PROVE  Inv'
<1> DEFINE list == [s \in Sizes |-> IF s \in sold THEN "active" ELSE "none"]
           q == [requests[r] EXCEPT !.pc = "upserted", !.prices = list]
<1>1. Open(r) /\ list \in Prices
  BY DEF UpsertPrices, At, Prices
<1> HIDE DEF list
<1>2. q \in Request /\ q.active = requests[r].active
  BY <1>1, OpenRequest DEF Request
<1>3. now' \in Nat /\ requests' = [requests EXCEPT ![r] = q]
  BY DEF UpsertPrices, Inv, TypeOK, list
<1> HIDE DEF q
<1> QED  BY <1>1, <1>2, <1>3, OpenRequest, RequestStep DEF UpsertPrices

LEMMA FindUnsoldStep ==
  ASSUME Inv, NEW r \in Requests, FindUnsold(r)
  PROVE  Inv'
<1> DEFINE list == [s \in Sizes |-> IF requests[r].prices[s] = "none" /\ prices[s] # "none"
                                    THEN "inactive" ELSE requests[r].prices[s]]
           q == [requests[r] EXCEPT !.pc = "found", !.prices = list]
<1>1. Open(r) /\ list \in Prices
  BY OpenRequest DEF FindUnsold, At, Prices
<1>2. now' \in Nat /\ requests' = [requests EXCEPT ![r] = q]
  <2>1. requests' = [requests EXCEPT ![r].pc = "found", ![r].prices = list]
    BY DEF FindUnsold
  <2> HIDE DEF list
  <2> QED  BY <2>1 DEF FindUnsold, Inv, TypeOK
<1> HIDE DEF list
<1>3. q \in Request /\ q.active = requests[r].active
  BY <1>1, OpenRequest DEF Request
<1> HIDE DEF q
<1> QED  BY <1>1, <1>2, <1>3, OpenRequest, RequestStep DEF FindUnsold

LEMMA DeactivateUnsoldStep ==
  ASSUME Inv, NEW r \in Requests, DeactivateUnsold(r)
  PROVE  Inv'
<1> DEFINE q == [requests[r] EXCEPT !.pc = "listed"]
<1>1. Open(r)
  BY DEF DeactivateUnsold, At
<1>2. q \in Request /\ q.active = requests[r].active
  BY <1>1, OpenRequest DEF Request
<1>3. now' \in Nat /\ requests' = [requests EXCEPT ![r] = q]
  BY DEF DeactivateUnsold, Inv, TypeOK
<1> HIDE DEF q
<1> QED  BY <1>1, <1>2, <1>3, OpenRequest, RequestStep DEF DeactivateUnsold

LEMMA DrawStampStep ==
  ASSUME Inv, NEW r \in Requests, DrawStamp(r)
  PROVE  Inv'
<1> DEFINE q == [requests[r] EXCEPT !.pc = "stamped", !.at = now']
<1>1. Open(r) /\ now' \in Nat
  BY DEF DrawStamp, At, Inv, TypeOK
<1>2. q \in Request /\ q.active = requests[r].active
  BY <1>1, OpenRequest DEF Request
<1>3. requests' = [requests EXCEPT ![r] = q]
  BY DEF DrawStamp, Inv, TypeOK
<1> HIDE DEF q
<1> QED  BY <1>1, <1>2, <1>3, OpenRequest, RequestStep DEF DrawStamp

-----------------------------------------------------------------------------
LEMMA EventType ==
  ASSUME NEW e \in Event
  PROVE  /\ e # NoEvent /\ e.at \in Nat /\ e.opened \in Nat /\ e.status \in Status
         /\ e.name \in {"launched", "pizza_updated"} /\ Active(e) \in SUBSET Sizes
         /\ InSnapshot(e) \in Entry \cup {Absent}
         /\ [prices |-> Active(e), at |-> e.at] \in Entry
         /\ [status |-> e.status, at |-> e.at] \in Row
         /\ \A s \in Sizes : [active |-> s \in Active(e), at |-> e.at] \in PriceRow
<1>1. e # NoEvent
  BY MirrorsAssumption
<1>2. e.at \in Nat /\ e.opened \in Nat /\ e.status \in Status /\ e.name \in {"launched", "pizza_updated"}
  BY DEF Event
<1>3. Active(e) \in SUBSET Sizes
  BY DEF Active
<1>4. InSnapshot(e) \in Entry \cup {Absent} /\ [prices |-> Active(e), at |-> e.at] \in Entry
  BY <1>2, <1>3 DEF InSnapshot, Entry
<1>5. /\ [status |-> e.status, at |-> e.at] \in Row
      /\ \A s \in Sizes : [active |-> s \in Active(e), at |-> e.at] \in PriceRow
  BY <1>2 DEF Row, PriceRow
<1> QED  BY <1>1, <1>2, <1>3, <1>4, <1>5

(* The stamps in the state are numbers.                                    *)
LEMMA Stamped ==
  ASSUME Inv
  PROVE  /\ latest \in Nat /\ pending \subseteq Event
         /\ announced # NoEvent => announced \in Event
         /\ index # NoDoc => /\ index \in Document /\ index.at \in Nat
                             /\ index.pizza # Absent => index.pizza \in Entry /\ index.pizza.at \in Nat
         /\ row # Absent => row \in Row /\ row.at \in Nat
         /\ \A s \in Sizes : priceRows[s] # Absent => priceRows[s] \in PriceRow /\ priceRows[s].at \in Nat
<1>1. latest \in Nat /\ pending \subseteq Event /\ (announced # NoEvent => announced \in Event)
  BY DEF Inv, TypeOK
<1>2. index # NoDoc => index \in Document
  BY DEF Inv, TypeOK
<1>3. ASSUME index \in Document
      PROVE  index.at \in Nat /\ (index.pizza # Absent => index.pizza \in Entry /\ index.pizza.at \in Nat)
  BY <1>3 DEF Document, Entry
<1>4. row # Absent => row \in Row /\ row.at \in Nat
  BY DEF Inv, TypeOK, Row
<1>5. \A s \in Sizes : priceRows[s] # Absent => priceRows[s] \in PriceRow /\ priceRows[s].at \in Nat
  BY DEF Inv, TypeOK, PriceRow
<1> QED  BY <1>1, <1>2, <1>3, <1>4, <1>5

(* An announcement: the first one is a snapshot; a later one leaves        *)
(* nothing astray only if it is no snapshot and above every stamp before.  *)
LEMMA AnnounceStep ==
  ASSUME Inv, NEW e \in Event, Announce(e), NEW r \in Requests,
         e.name = "pizza_updated" => announced # NoEvent,
         pizza' \in Row, prices' \in Prices, active' \in BOOLEAN,
         requests' = [requests EXCEPT ![r] = Done], UNCHANGED <<now, mirror>>
  PROVE  Inv'
<1>1. /\ announced' = e /\ announced' # NoEvent /\ pending' = pending \cup {e}
      /\ UNCHANGED <<consumer, index, row, priceRows>>
  BY EventType DEF Announce, mirror, order
<1>2. /\ e.at \in Nat /\ latest \in Nat /\ latest' \in Nat
      /\ latest <= latest' /\ e.at <= latest' /\ latest' \in {latest, e.at}
  <2>1. latest' = IF e.at > latest THEN e.at ELSE latest
    BY DEF Announce
  <2>2. e.at \in Nat /\ latest \in Nat
    BY EventType, Stamped
  <2> QED  BY <2>1, <2>2
<1>3. /\ astray' \in SUBSET {"stamps", "relaunch", "overtaken"}
      /\ "stamps" \notin astray' /\ announced # NoEvent => latest < e.at
      /\ "relaunch" \notin astray' /\ announced # NoEvent => e.name # "launched"
      /\ "relaunch" \notin astray' /\ consumer = "search" => "relaunch" \notin astray
  BY <1>2 DEF Announce
<1>4. TypeOK'
  <2>1. requests' \in [Requests -> Request \cup {Idle, Done}]
    BY DEF Inv, TypeOK
  <2> QED  BY <1>1, <1>2, <1>3, <2>1 DEF Inv, TypeOK
<1>5. LaunchInv' /\ QuietInv'
  BY <1>1 DEF LaunchInv, QuietInv
<1>6. StampInv'
  <2>1. ASSUME NEW o \in pending'  PROVE o.at <= latest'
    <3>1. CASE o \in pending
      <4>1. o.at \in Nat /\ o.at <= latest
        BY <3>1, Stamped, EventType DEF Inv, StampInv
      <4> QED  BY <1>2, <4>1
    <3> QED  BY <1>1, <1>2, <3>1
  <2>2. index # NoDoc /\ index.pizza # Absent => index.pizza.at <= latest'
    BY <1>2, Stamped DEF Inv, StampInv
  <2>3. row # Absent => row.at <= latest'
    BY <1>2, Stamped DEF Inv, StampInv
  <2>4. \A s \in Sizes : priceRows[s] # Absent => priceRows[s].at <= latest'
    BY <1>2, Stamped DEF Inv, StampInv
  <2> QED  BY <1>1, <1>2, <2>1, <2>2, <2>3, <2>4 DEF StampInv
<1>7. SnapshotInv'
  <2> SUFFICES ASSUME consumer = "search", "relaunch" \notin astray'
               PROVE  /\ \A o \in pending' : o.name = "launched" /\ index # NoDoc => o.opened = index.at
                      /\ \A o, p \in pending' : o.name = "launched" /\ p.name = "launched" => o = p
    BY <1>1 DEF SnapshotInv
  <2>1. CASE announced = NoEvent
    BY <1>1, <2>1 DEF Inv, QuietInv
  <2>2. CASE announced # NoEvent
    <3>1. e.name # "launched"
      BY <1>3, <2>2
    <3> QED  BY <1>1, <1>3, <3>1 DEF Inv, SnapshotInv
  <2> QED  BY <2>1, <2>2
<1>8. CASE announced = NoEvent
  <2>1. /\ e.name = "launched" /\ latest = 0 /\ pending' = {e}
        /\ index = NoDoc /\ row = Absent /\ \A s \in Sizes : priceRows[s] = Absent
    BY <1>1, <1>8, EventType DEF Inv, QuietInv
  <2>2. latest' = e.at
    BY <1>2, <2>1
  <2>3. LastInv'
    BY <1>1, <2>1, <2>2 DEF LastInv
  <2>4. IndexInv' /\ ReadModelInv'
    BY <1>1, <2>1 DEF IndexInv, ReadModelInv
  <2>5. IndexSettled' /\ ReadModelSettled'
    BY <1>1 DEF IndexSettled, ReadModelSettled
  <2> QED  BY <1>4, <1>5, <1>6, <1>7, <2>3, <2>4, <2>5 DEF Inv
<1>9. CASE announced # NoEvent
  <2>1. Newer' => e.name = "pizza_updated" /\ latest < e.at /\ latest' = e.at
    <3>1. Newer' => "stamps" \notin astray' /\ "relaunch" \notin astray'
      BY DEF Newer
    <3>2. Newer' => e.name = "pizza_updated" /\ latest < e.at
      BY <1>3, <1>9, <3>1, EventType
    <3> QED  BY <1>2, <3>2
  <2>2. LastInv'
    <3> SUFFICES ASSUME Newer'
                 PROVE  /\ latest' = e.at /\ e.at > 0 /\ e.name = "pizza_updated"
                        /\ \A o \in pending' : o # e => o.at < e.at
      BY <1>1 DEF LastInv
    <3>1. ASSUME NEW o \in pending  PROVE o.at < e.at
      <4>1. o.at \in Nat /\ o.at <= latest
        BY Stamped, EventType DEF Inv, StampInv
      <4> QED  BY <1>2, <2>1, <4>1
    <3> QED  BY <1>1, <1>2, <2>1, <3>1
  <2>3. IndexInv'
    <3>1. Newer' /\ index # NoDoc /\ index.pizza # Absent => index.pizza.at # e.at
      BY <1>2, <2>1, Stamped DEF Inv, StampInv
    <3> QED  BY <1>1, <2>1, <3>1 DEF IndexInv
  <2>4. ReadModelInv'
    <3>1. Newer' /\ row # Absent => row.at # e.at
      BY <1>2, <2>1, Stamped DEF Inv, StampInv
    <3>2. ASSUME Newer', NEW s \in Sizes, priceRows[s] # Absent  PROVE priceRows[s].at # e.at
      BY <1>2, <2>1, <3>2, Stamped DEF Inv, StampInv
    <3> QED  BY <1>1, <2>1, <3>1, <3>2 DEF ReadModelInv
  <2>5. IndexSettled' /\ ReadModelSettled'
    BY <1>1 DEF IndexSettled, ReadModelSettled
  <2> QED  BY <1>4, <1>5, <1>6, <1>7, <2>2, <2>3, <2>4, <2>5 DEF Inv
<1> QED  BY <1>8, <1>9

(* A commit that ends its request.                                         *)
LEMMA AnsweredStep ==
  ASSUME Inv, NEW r \in Requests, Open(r), requests' = [requests EXCEPT ![r] = Done],
         pizza' \in Row, prices' \in Prices, active' = active, now' = now,
         UNCHANGED <<announced, latest, pending, mirror, astray>>
  PROVE  Inv'
<1>1. /\ requests' \in [Requests -> Request \cup {Idle, Done}]
      /\ requests'[r] = Done /\ \A o \in Requests \ {r} : requests'[o] = requests[o]
  BY DEF Inv, TypeOK
<1>2. \A o \in Requests : Open(o)' /\ requests'[o].active => announced # NoEvent
  BY <1>1 DEF Inv, LaunchInv, Open
<1>3. active' \in BOOLEAN /\ now' \in Nat /\ (active' => announced # NoEvent)
  BY DEF Inv, TypeOK, LaunchInv
<1> QED  BY <1>1, <1>2, <1>3, SilentStep

LEMMA FailStep ==
  ASSUME Inv, NEW r \in Requests, Fail(r)
  PROVE  Inv'
<1>1. pizza' \in Row /\ prices' \in Prices
  BY DEF Fail, Inv, TypeOK
<1> QED  BY <1>1, AnsweredStep DEF Fail, Open

LEMMA SaveProfileStep ==
  ASSUME Inv, SaveProfile
  PROVE  Inv'
<1>1. /\ pizza' \in Row /\ prices' \in Prices /\ active' = FALSE /\ now' \in Nat
      /\ requests' \in [Requests -> Request \cup {Idle, Done}]
  BY DEF SaveProfile, Inv, TypeOK
<1>2. \A r \in Requests : Open(r)' /\ requests'[r].active => announced # NoEvent
  BY DEF SaveProfile, Inv, LaunchInv, Open
<1> QED  BY <1>1, <1>2, SilentStep DEF SaveProfile

(* The pizza is saved and, by a request that saw the launch, announced.    *)
LEMMA EditStep ==
  ASSUME Inv, NEW r \in Requests, NEW status \in Status, NEW listed \in Prices,
         Open(r), pizza' = [status |-> status, at |-> requests[r].at], prices' \in Prices,
         NotifyPizzaUpdated(r, status, listed, requests[r].at),
         requests' = [requests EXCEPT ![r] = Done],
         UNCHANGED <<active, now, mirror>>
  PROVE  Inv'
<1> DEFINE e == [name |-> "pizza_updated", status |-> status, prices |-> listed,
                 at |-> requests[r].at, opened |-> 0]
<1>1. requests[r].at \in Nat /\ (requests[r].active => announced # NoEvent)
  BY OpenRequest
<1>2. e \in Event /\ e.name = "pizza_updated" /\ pizza' \in Row
  BY <1>1 DEF Event, Row
<1>3. active' \in BOOLEAN
  BY DEF Inv, TypeOK
<1>4. CASE requests[r].active
  <2>1. Announce(e)
    BY <1>4 DEF NotifyPizzaUpdated
  <2> HIDE DEF e
  <2> QED  BY <1>1, <1>2, <1>3, <1>4, <2>1, AnnounceStep
<1>5. CASE ~requests[r].active
  BY <1>2, <1>5, AnsweredStep DEF NotifyPizzaUpdated
<1> QED  BY <1>4, <1>5

LEMMA UpdatePizzaStep ==
  ASSUME Inv, NEW r \in Requests, NEW status \in Status, UpdatePizza(r, status)
  PROVE  Inv'
<1>1. Open(r)
  BY DEF UpdatePizza, Ready, At
<1>2. requests[r].prices \in Prices /\ prices' \in Prices
  BY <1>1, OpenRequest DEF UpdatePizza, Inv, TypeOK
<1> QED
  BY <1>1, <1>2, EditStep DEF UpdatePizza

LEMMA SetPizzaPricesStep ==
  ASSUME Inv, NEW r \in Requests, SetPizzaPrices(r)
  PROVE  Inv'
<1>1. Open(r)
  BY DEF SetPizzaPrices, Ready, At
<1>2. requests[r].seen.status \in Status /\ requests[r].prices \in Prices
  BY <1>1, OpenRequest DEF Row
<1>3. prices' \in Prices
  BY <1>2 DEF SetPizzaPrices, Inv, TypeOK, Prices
<1> QED
  BY <1>1, <1>2, <1>3, EditStep DEF SetPizzaPrices

LEMMA LaunchStep ==
  ASSUME Inv, NEW r \in Requests, LaunchRestaurant(r)
  PROVE  Inv'
<1> DEFINE e == [name |-> "launched", status |-> requests[r].seen.status,
                 prices |-> requests[r].prices, at |-> requests[r].seen.at,
                 opened |-> requests[r].at]
<1>1. Open(r)
  BY DEF LaunchRestaurant, Ready, At
<1>2. e \in Event /\ e.name = "launched"
  BY <1>1, OpenRequest DEF Event, Row
<1>3. pizza' \in Row /\ prices' \in Prices /\ active' \in BOOLEAN
  BY DEF LaunchRestaurant, Inv, TypeOK
<1>4. Announce(e)
  BY DEF LaunchRestaurant
<1> HIDE DEF e
<1> QED  BY <1>2, <1>3, <1>4, AnnounceStep DEF LaunchRestaurant

-----------------------------------------------------------------------------
(* What both consumers' handlers have in common.                           *)
LEMMA Handling ==
  ASSUME Inv, NEW e \in pending, UNCHANGED <<source, consumer>>, pending' \subseteq pending,
         astray \subseteq astray', astray' \subseteq astray \cup {"overtaken"},
         index' \in Document \cup {NoDoc}, row' \in Row \cup {Absent},
         priceRows' \in [Sizes -> PriceRow \cup {Absent}]
  PROVE  /\ announced \in Event /\ announced # NoEvent /\ e \in Event
         /\ UNCHANGED <<announced, latest, consumer>>
         /\ e.at \in Nat /\ announced.at \in Nat /\ e.at <= latest
         /\ Newer' => Newer
         /\ "relaunch" \in astray' <=> "relaunch" \in astray
         /\ Newer => /\ e = announced \/ (announced.name = "pizza_updated" /\ e.at < announced.at)
                     /\ announced.name = "pizza_updated" => announced.at > 0
                     /\ announced.name # "pizza_updated" => announced.name = "launched"
                     /\ announced.name = "launched" => pending \subseteq {announced}
         /\ \A o : Restores(o)' <=> Restores(o)
         /\ TypeOK' /\ LaunchInv' /\ QuietInv' /\ LastInv'
<1>1. UNCHANGED <<pizza, prices, active, now, requests, announced, latest, consumer>>
  BY DEF source
<1>2. announced # NoEvent /\ announced \in Event /\ e \in Event /\ e.at <= latest
  BY Stamped DEF Inv, QuietInv, StampInv
<1>3. e.at \in Nat /\ announced.at \in Nat /\ announced.name \in {"launched", "pizza_updated"}
  BY <1>2, EventType
<1>4. (Newer' => Newer) /\ ("relaunch" \in astray' <=> "relaunch" \in astray)
  BY <1>1 DEF Newer
<1>5. Newer => /\ e = announced \/ (announced.name = "pizza_updated" /\ e.at < announced.at)
               /\ announced.name = "pizza_updated" => announced.at > 0
               /\ announced.name # "pizza_updated" => announced.name = "launched"
               /\ announced.name = "launched" => pending \subseteq {announced}
  BY <1>3 DEF Inv, LastInv
<1>6. \A o : Restores(o)' <=> Restores(o)
  BY <1>1 DEF Restores, StoresPizza
<1>7. TypeOK'
  BY <1>1 DEF Inv, TypeOK
<1>8. LaunchInv' /\ QuietInv'
  BY <1>1, <1>2 DEF Inv, LaunchInv, QuietInv, Open
<1>9. LastInv'
  BY <1>1, <1>4 DEF Inv, LastInv
<1> QED  BY <1>1, <1>2, <1>3, <1>4, <1>5, <1>6, <1>7, <1>8, <1>9

LEMMA Overtaking ==
  ASSUME Inv, NEW e \in pending, NoteOvertaking(e)
  PROVE  /\ astray \subseteq astray' /\ astray' \subseteq astray \cup {"overtaken"}
         /\ astray' = {} /\ e = announced /\ ~Sellable(e) => \A o \in pending : ~Restores(o)
BY DEF NoteOvertaking

(* A document that was replaced by a snapshot: the first one, or by a      *)
(* second launch.                                                          *)
LEMMA SnapshotStep ==
  ASSUME Inv, NEW e \in pending, SearchHandles(e), e.name = "launched",
         index' = [at |-> e.opened, pizza |-> InSnapshot(e)],
         index = NoDoc \/ e.opened > index.at
  PROVE  Inv'
<1>1. /\ UNCHANGED <<source, consumer, row, priceRows>> /\ consumer = "search"
      /\ pending' \subseteq pending
      /\ announced \in pending /\ announced # e => announced \in pending'
  BY DEF SearchHandles, Acknowledge, order
<1>2. /\ astray \subseteq astray' /\ astray' \subseteq astray \cup {"overtaken"}
      /\ astray' = {} /\ e = announced /\ ~Sellable(e) => \A o \in pending : ~Restores(o)
  BY Overtaking DEF SearchHandles
<1>3. /\ index' \in Document /\ index' # NoDoc /\ index'.pizza = InSnapshot(e)
      /\ index'.at = e.opened /\ InSnapshot(e) \in Entry \cup {Absent}
  <2>1. e \in Event
    BY Stamped
  <2>2. index' \in Document
    BY <2>1, EventType DEF Document
  <2> QED  BY <2>1, <2>2, EventType, MirrorsAssumption
<1>4. row' \in Row \cup {Absent} /\ priceRows' \in [Sizes -> PriceRow \cup {Absent}]
  BY <1>1 DEF Inv, TypeOK
<1>5. /\ announced \in Event /\ announced # NoEvent /\ e \in Event
      /\ UNCHANGED <<announced, latest, consumer>>
      /\ Newer' => Newer
      /\ "relaunch" \in astray' <=> "relaunch" \in astray
      /\ Newer => /\ e = announced \/ (announced.name = "pizza_updated" /\ e.at < announced.at)
                  /\ announced.name = "pizza_updated" => announced.at > 0
                  /\ announced.name # "pizza_updated" => announced.name = "launched"
                  /\ announced.name = "launched" => pending \subseteq {announced}
      /\ TypeOK' /\ LaunchInv' /\ QuietInv' /\ LastInv'
  BY <1>1, <1>2, <1>3, <1>4, Handling
<1>6. /\ Sellable(e) => InSnapshot(e) # Absent /\ InSnapshot(e).at = 0
      /\ ~Sellable(e) => InSnapshot(e) = Absent
  <2>1. Sellable(e) => InSnapshot(e) = [prices |-> Active(e), at |-> 0]
    BY DEF InSnapshot
  <2>2. [prices |-> Active(e), at |-> 0] \in Entry
    BY <1>5, EventType DEF Entry
  <2> QED  BY <2>1, <2>2, MirrorsAssumption DEF InSnapshot
<1>7. StampInv'
  <2>1. latest \in Nat
    BY Stamped
  <2>2. index'.pizza # Absent => index'.pizza.at <= latest
    BY <1>3, <1>6, <2>1
  <2> QED  BY <1>1, <1>5, <2>2 DEF Inv, StampInv
<1>8. "relaunch" \notin astray => index = NoDoc /\ \A o \in pending : o.name = "launched" => o = e
  <2> SUFFICES ASSUME "relaunch" \notin astray
               PROVE  index = NoDoc /\ \A o \in pending : o.name = "launched" => o = e
    OBVIOUS
  <2>1. \A o \in pending : o.name = "launched" => o = e
    BY <1>1 DEF Inv, SnapshotInv
  <2>2. index # NoDoc => e.opened = index.at /\ index.at \in Nat
    BY <1>1, Stamped DEF Inv, SnapshotInv
  <2> QED  BY <2>1, <2>2
<1>9. SnapshotInv'
  BY <1>1, <1>3, <1>5, <1>8 DEF SnapshotInv
<1>10. Newer' => index = NoDoc /\ Newer
  BY <1>5, <1>8 DEF Newer
<1>11. IndexInv'
  <2> SUFFICES ASSUME Newer'
               PROVE  /\ announced.name = "launched" => index'.pizza = InSnapshot(announced)
                      /\ announced.name = "pizza_updated" /\ index'.pizza # Absent =>
                           index'.pizza.at # announced.at
    BY <1>5 DEF IndexInv
  <2> QED  BY <1>3, <1>5, <1>6
<1>12. IndexSettled'
  <2> SUFFICES ASSUME Newer', announced \notin pending'
               PROVE  IF Sellable(announced)
                      THEN index'.pizza # Absent /\ announced.name # "pizza_updated"
                      ELSE index'.pizza = Absent /\ pending' = {}
    BY <1>3, <1>5 DEF IndexSettled
  <2>1. e = announced
    BY <1>1, <1>5, <1>10 DEF Inv, IndexSettled
  <2>2. pending' = {}
    BY <1>1, <1>5, <2>1
  <2> QED  BY <1>3, <1>6, <2>1, <2>2
<1>13. ReadModelInv' /\ ReadModelSettled'
  BY <1>1, <1>5 DEF Inv, ReadModelInv, ReadModelSettled
<1> QED  BY <1>5, <1>7, <1>9, <1>11, <1>12, <1>13 DEF Inv

(* A pizza of the document that was put, removed or left as it was: what   *)
(* is not newer than it changes nothing.                                   *)
PizzaPut(e) ==
  /\ index' = [index EXCEPT !.pizza = [prices |-> Active(e), at |-> e.at]]
  /\ Sellable(e) /\ (index.pizza = Absent \/ e.at > index.pizza.at)

PizzaRemoved(e) ==
  /\ index' = [index EXCEPT !.pizza = Absent]
  /\ ~Sellable(e) /\ index.pizza # Absent /\ e.at > index.pizza.at

PizzaKept(e) ==
  /\ index' = index
  /\ \/ e.name = "launched"
     \/ Sellable(e) /\ index.pizza # Absent /\ ~(e.at > index.pizza.at)
     \/ ~Sellable(e) /\ (index.pizza = Absent \/ ~(e.at > index.pizza.at))

LEMMA PizzaStep ==
  ASSUME Inv, NEW e \in pending, SearchHandles(e), index # NoDoc,
         \/ PizzaKept(e)
         \/ e.name = "pizza_updated" /\ (PizzaPut(e) \/ PizzaRemoved(e))
  PROVE  Inv'
<1>1. /\ UNCHANGED <<source, consumer, row, priceRows>> /\ consumer = "search"
      /\ pending' \subseteq pending
      /\ announced \in pending /\ announced # e => announced \in pending'
  BY DEF SearchHandles, Acknowledge, order
<1>2. /\ astray \subseteq astray' /\ astray' \subseteq astray \cup {"overtaken"}
      /\ astray' = {} /\ e = announced /\ ~Sellable(e) => \A o \in pending : ~Restores(o)
  BY Overtaking DEF SearchHandles
<1>3. /\ index \in Document /\ e \in Event
      /\ index.pizza # Absent => index.pizza.at \in Nat /\ index.pizza.at <= latest
  BY Stamped DEF Inv, StampInv
<1>4. /\ [prices |-> Active(e), at |-> e.at] \in Entry
      /\ [prices |-> Active(e), at |-> e.at] # Absent
  BY <1>3, EventType, MirrorsAssumption
<1>5. /\ index' \in Document /\ index' # NoDoc /\ index'.at = index.at
      /\ PizzaPut(e) => index'.pizza # Absent /\ index'.pizza.at = e.at /\ index'.pizza.prices = Active(e)
      /\ PizzaRemoved(e) => index'.pizza = Absent
      /\ PizzaKept(e) => index'.pizza = index.pizza
  <2>1. index.at \in Nat /\ index = [at |-> index.at, pizza |-> index.pizza]
    BY <1>3 DEF Document
  <2>2. PizzaPut(e) => index' = [at |-> index.at, pizza |-> [prices |-> Active(e), at |-> e.at]]
    BY <2>1 DEF PizzaPut
  <2>3. PizzaRemoved(e) => index' = [at |-> index.at, pizza |-> Absent]
    BY <2>1 DEF PizzaRemoved
  <2>4. PizzaKept(e) => index' = index
    BY DEF PizzaKept
  <2>5. \A p \in Entry \cup {Absent} : [at |-> index.at, pizza |-> p] \in Document
    BY <2>1 DEF Document
  <2>6. index' \in Document /\ index'.at = index.at
    BY <1>3, <1>4, <2>2, <2>3, <2>4, <2>5
  <2>7. index' # NoDoc
    BY <2>6, MirrorsAssumption
  <2> QED  BY <1>4, <2>2, <2>3, <2>4, <2>6, <2>7
<1>6. row' \in Row \cup {Absent} /\ priceRows' \in [Sizes -> PriceRow \cup {Absent}]
  BY <1>1 DEF Inv, TypeOK
<1>7. /\ announced \in Event /\ announced # NoEvent
      /\ UNCHANGED <<announced, latest, consumer>>
      /\ e.at \in Nat /\ announced.at \in Nat /\ e.at <= latest
      /\ Newer' => Newer
      /\ "relaunch" \in astray' <=> "relaunch" \in astray
      /\ Newer => /\ e = announced \/ (announced.name = "pizza_updated" /\ e.at < announced.at)
                  /\ announced.name = "pizza_updated" => announced.at > 0
                  /\ announced.name # "pizza_updated" => announced.name = "launched"
                  /\ announced.name = "launched" => pending \subseteq {announced}
      /\ \A o : Restores(o)' <=> Restores(o)
      /\ TypeOK' /\ LaunchInv' /\ QuietInv' /\ LastInv'
  BY <1>1, <1>2, <1>5, <1>6, Handling
<1>8. StampInv'
  <2>1. index'.pizza # Absent => index'.pizza.at <= latest
    BY <1>3, <1>5, <1>7
  <2> QED  BY <1>1, <1>7, <2>1 DEF Inv, StampInv
<1>9. SnapshotInv'
  BY <1>1, <1>5, <1>7 DEF Inv, SnapshotInv
<1>10. ReadModelInv' /\ ReadModelSettled'
  BY <1>1, <1>7 DEF Inv, ReadModelInv, ReadModelSettled
<1>11. Newer => /\ announced.name = "launched" => index.pizza = InSnapshot(announced)
                /\ announced.name = "pizza_updated" /\ index.pizza # Absent
                     /\ index.pizza.at = announced.at =>
                     Sellable(announced) /\ index.pizza.prices = Active(announced)
  BY DEF Inv, IndexInv
<1>12. IndexInv'
  <2> SUFFICES ASSUME Newer'
               PROVE  /\ announced.name = "launched" => index'.pizza = InSnapshot(announced)
                      /\ announced.name = "pizza_updated" /\ index'.pizza # Absent
                           /\ index'.pizza.at = announced.at =>
                           Sellable(announced) /\ index'.pizza.prices = Active(announced)
    BY <1>7 DEF IndexInv
  <2>1. CASE PizzaKept(e)
    BY <1>5, <1>7, <1>11, <2>1
  <2>2. CASE e.name = "pizza_updated" /\ PizzaRemoved(e)
    BY <1>5, <1>7, <2>2
  <2>3. CASE e.name = "pizza_updated" /\ PizzaPut(e)
    <3>1. e = announced \/ (announced.name = "pizza_updated" /\ e.at < announced.at)
      BY <1>7
    <3>2. Sellable(e)
      BY <2>3 DEF PizzaPut
    <3> QED  BY <1>5, <1>7, <2>3, <3>1, <3>2
  <2> QED  BY <2>1, <2>2, <2>3
<1>13. IndexSettled'
  <2> SUFFICES ASSUME Newer', announced \notin pending'
               PROVE  IF Sellable(announced)
                      THEN /\ index'.pizza # Absent
                           /\ announced.name = "pizza_updated" => index'.pizza.at = announced.at
                      ELSE index'.pizza = Absent /\ \A o \in pending' : ~Restores(o)
    BY <1>5, <1>7 DEF IndexSettled
  <2>1. Newer /\ astray' = {}
    BY <1>7 DEF Newer
  <2>2. CASE e # announced
    <3>1. announced \notin pending /\ announced.name = "pizza_updated" /\ e.at < announced.at
      BY <1>1, <1>7, <2>1, <2>2
    <3>2. CASE Sellable(announced)
      <4>1. index.pizza # Absent /\ index.pizza.at = announced.at
        BY <1>1, <2>1, <3>1, <3>2 DEF Inv, IndexSettled
      <4>2. ~(e.at > index.pizza.at)
        BY <1>7, <3>1, <4>1
      <4>3. PizzaKept(e)
        BY <4>1, <4>2 DEF PizzaPut, PizzaRemoved
      <4> QED  BY <1>5, <3>2, <4>1, <4>3
    <3>3. CASE ~Sellable(announced)
      <4>1. index.pizza = Absent /\ \A o \in pending : ~Restores(o)
        BY <1>1, <2>1, <3>1, <3>3 DEF Inv, IndexSettled
      <4>2. ~(e.name = "pizza_updated" /\ PizzaPut(e)) /\ ~PizzaRemoved(e)
        BY <1>1, <4>1 DEF Restores, PizzaPut, PizzaRemoved
      <4> QED  BY <1>1, <1>5, <3>3, <4>1, <4>2
    <3> QED  BY <3>2, <3>3
  <2>3. CASE e = announced /\ e.name = "launched"
    <3>1. pending' = {} /\ index'.pizza = InSnapshot(announced)
      BY <1>1, <1>5, <1>7, <1>11, <2>1, <2>3
    <3>2. [prices |-> Active(e), at |-> 0] \in Entry
      BY <1>3, EventType DEF Entry
    <3>3. [prices |-> Active(e), at |-> 0] # Absent
      BY <3>2, MirrorsAssumption
    <3> QED  BY <2>3, <3>1, <3>3 DEF InSnapshot
  <2>4. CASE e = announced /\ e.name = "pizza_updated" /\ Sellable(e)
    <3>1. index.pizza # Absent => index.pizza.at <= announced.at
      BY <1>3, <2>1 DEF Inv, LastInv
    <3>2. CASE PizzaPut(e)
      BY <1>5, <2>4, <3>2
    <3>3. CASE PizzaKept(e)
      <4>1. index.pizza # Absent /\ ~(e.at > index.pizza.at)
        BY <2>4, <3>3 DEF PizzaKept
      <4>2. index.pizza.at = announced.at
        BY <1>3, <1>7, <2>4, <3>1, <4>1
      <4> QED  BY <1>5, <2>4, <3>3, <4>1, <4>2
    <3> QED  BY <2>4, <3>2, <3>3 DEF PizzaRemoved
  <2>5. CASE e = announced /\ e.name = "pizza_updated" /\ ~Sellable(e)
    <3>1. \A o \in pending' : ~Restores(o)
      BY <1>1, <1>2, <2>1, <2>5
    <3>2. CASE PizzaRemoved(e)
      BY <1>5, <2>5, <3>1, <3>2
    <3>3. CASE PizzaKept(e)
      <4>1. index.pizza = Absent \/ ~(e.at > index.pizza.at)
        BY <2>5, <3>3 DEF PizzaKept
      <4>2. index.pizza # Absent => index.pizza.at # announced.at /\ index.pizza.at <= announced.at
        BY <1>3, <1>11, <2>1, <2>5 DEF Inv, LastInv
      <4>3. index.pizza = Absent
        BY <1>3, <1>7, <2>5, <4>1, <4>2
      <4> QED  BY <1>5, <2>5, <3>1, <3>3, <4>3
    <3> QED  BY <2>5, <3>2, <3>3 DEF PizzaPut
  <2> QED  BY <1>7, <2>1, <2>2, <2>3, <2>4, <2>5
<1> QED  BY <1>7, <1>8, <1>9, <1>10, <1>12, <1>13 DEF Inv

LEMMA SearchStep ==
  ASSUME Inv, NEW e \in pending, SearchHandles(e)
  PROVE  Inv'
<1>1. e \in Event /\ e.name \in {"launched", "pizza_updated"}
  BY Stamped, EventType
<1>2. CASE e.name = "launched"
  <2>1. index' \in IF index = NoDoc THEN {[at |-> e.opened, pizza |-> InSnapshot(e)]}
                   ELSE IF e.opened > index.at
                     THEN {index, [at |-> e.opened, pizza |-> InSnapshot(e)]} ELSE {index}
    BY <1>2 DEF SearchHandles, UpsertSnapshot
  <2>2. CASE index # NoDoc /\ index' = index
    <3>1. PizzaKept(e)
      BY <1>2, <2>2 DEF PizzaKept
    <3> QED  BY <2>2, <3>1, PizzaStep
  <2>3. CASE index' = [at |-> e.opened, pizza |-> InSnapshot(e)] /\ (index = NoDoc \/ e.opened > index.at)
    BY <1>2, <2>3, SnapshotStep
  <2> QED  BY <2>1, <2>2, <2>3
<1>3. CASE e.name = "pizza_updated"
  <2>1. index # NoDoc /\ IF Sellable(e) THEN UpsertPizza(e) ELSE RemovePizza(e)
    BY <1>3 DEF SearchHandles
  <2>2. PizzaPut(e) \/ PizzaRemoved(e) \/ PizzaKept(e)
    BY <2>1 DEF UpsertPizza, RemovePizza, PizzaPut, PizzaRemoved, PizzaKept
  <2> QED  BY <1>3, <2>1, <2>2, PizzaStep
<1> QED  BY <1>1, <1>2, <1>3


(* The pizza is stored, with all its prices or some of them.               *)
LEMMA StoreStep ==
  ASSUME Inv, NEW e \in pending, NEW sizes \in SUBSET Sizes,
         StoresPizza(e), UpsertRow(e), UpsertPriceRows(e, sizes),
         consumer = "order", UNCHANGED <<source, consumer, index>>, pending' \subseteq pending,
         announced # e /\ announced \in pending => announced \in pending',
         announced = e /\ announced \notin pending' => sizes = Sizes,
         astray \subseteq astray', astray' \subseteq astray \cup {"overtaken"}
  PROVE  Inv'
<1>1. /\ e \in Event /\ row \in Row \cup {Absent}
      /\ priceRows \in [Sizes -> PriceRow \cup {Absent}]
      /\ index \in Document \cup {NoDoc} /\ latest \in Nat
      /\ row # Absent => row.at \in Nat /\ row.at <= latest
      /\ \A s \in Sizes : priceRows[s] # Absent => priceRows[s].at \in Nat /\ priceRows[s].at <= latest
  <2>1. row \in Row \cup {Absent} /\ priceRows \in [Sizes -> PriceRow \cup {Absent}]
        /\ index \in Document \cup {NoDoc}
    BY DEF Inv, TypeOK
  <2> QED  BY <2>1, Stamped DEF Inv, StampInv
<1>2. /\ e.at \in Nat
      /\ [status |-> e.status, at |-> e.at] \in Row
      /\ [status |-> e.status, at |-> e.at] # Absent
      /\ \A s \in Sizes : /\ [active |-> s \in Active(e), at |-> e.at] \in PriceRow
                          /\ [active |-> s \in Active(e), at |-> e.at] # Absent
  BY <1>1, EventType, MirrorsAssumption
<1>3. row' = IF row = Absent \/ row.at < e.at THEN [status |-> e.status, at |-> e.at] ELSE row
  BY DEF UpsertRow
<1>4. row' \in Row \cup {Absent} /\ row' # Absent
  BY <1>1, <1>2, <1>3
<1>5. ASSUME NEW s \in Sizes
      PROVE  priceRows'[s] =
               IF s \in sizes /\ e.prices[s] # "none" /\ (priceRows[s] = Absent \/ priceRows[s].at < e.at)
                 THEN [active |-> s \in Active(e), at |-> e.at] ELSE priceRows[s]
  BY DEF UpsertPriceRows
<1>6. priceRows' \in [Sizes -> PriceRow \cup {Absent}]
  <2>1. priceRows' = [s \in Sizes |-> priceRows'[s]]
    BY DEF UpsertPriceRows
  <2>2. \A s \in Sizes : priceRows'[s] \in PriceRow \cup {Absent}
    BY <1>1, <1>2, <1>5
  <2> QED  BY <2>1, <2>2
<1>7. /\ announced \in Event /\ announced # NoEvent
      /\ UNCHANGED <<announced, latest, consumer>>
      /\ announced.at \in Nat /\ e.at <= latest
      /\ Newer' => Newer
      /\ "relaunch" \in astray' <=> "relaunch" \in astray
      /\ Newer => /\ e = announced \/ (announced.name = "pizza_updated" /\ e.at < announced.at)
                  /\ announced.name = "pizza_updated" => announced.at > 0
                  /\ announced.name # "pizza_updated" => announced.name = "launched"
                  /\ announced.name = "launched" => pending \subseteq {announced}
      /\ \A o : Restores(o)' <=> Restores(o)
      /\ TypeOK' /\ LaunchInv' /\ QuietInv' /\ LastInv'
  BY <1>1, <1>4, <1>6, Handling
<1>8. Sellable(e) /\ Restores(e)
  BY DEF Restores, StoresPizza
<1>9. StampInv'
  <2>1. row'.at <= latest
    BY <1>1, <1>2, <1>3, <1>7
  <2>2. ASSUME NEW s \in Sizes, priceRows'[s] # Absent  PROVE priceRows'[s].at <= latest
    <3>1. CASE priceRows'[s] = [active |-> s \in Active(e), at |-> e.at]
      BY <1>7, <3>1
    <3>2. CASE priceRows'[s] = priceRows[s]
      BY <1>1, <2>2, <3>2
    <3> QED  BY <1>5, <3>1, <3>2
  <2> QED  BY <1>7, <2>1, <2>2 DEF Inv, StampInv
<1>10. SnapshotInv' /\ IndexInv' /\ IndexSettled'
  BY <1>7 DEF Inv, SnapshotInv, IndexInv, IndexSettled
<1>11. ReadModelInv'
  <2> SUFFICES ASSUME Newer'
               PROVE  /\ announced.name = "launched" => Sellable(announced)
                      /\ row'.at = announced.at => Sellable(announced) /\ row'.status = announced.status
                      /\ \A s \in Sizes : priceRows'[s] # Absent /\ priceRows'[s].at = announced.at =>
                           priceRows'[s].active = (s \in Active(announced))
    BY <1>7 DEF ReadModelInv
  <2>1. e = announced \/ (announced.name = "pizza_updated" /\ e.at < announced.at)
    BY <1>7
  <2>2. announced.name = "launched" => Sellable(announced)
    BY <1>8, <2>1
  <2>3. row'.at = announced.at => Sellable(announced) /\ row'.status = announced.status
    <3>1. CASE row = Absent \/ row.at < e.at
      <4>1. row'.at = e.at /\ row'.status = e.status
        BY <1>3, <3>1
      <4> QED  BY <1>2, <1>7, <1>8, <2>1, <4>1
    <3>2. CASE ~(row = Absent \/ row.at < e.at)
      BY <1>3, <1>7, <3>2 DEF Inv, ReadModelInv
    <3> QED  BY <3>1, <3>2
  <2>4. ASSUME NEW s \in Sizes, priceRows'[s] # Absent, priceRows'[s].at = announced.at
        PROVE  priceRows'[s].active = (s \in Active(announced))
    <3>1. CASE priceRows'[s] = [active |-> s \in Active(e), at |-> e.at]
      <4>1. priceRows'[s].at = e.at /\ priceRows'[s].active = (s \in Active(e))
        BY <3>1
      <4> QED  BY <1>2, <1>7, <2>1, <2>4, <4>1
    <3>2. CASE priceRows'[s] = priceRows[s]
      BY <1>7, <2>4, <3>2 DEF Inv, ReadModelInv
    <3> QED  BY <1>5, <3>1, <3>2
  <2> QED  BY <2>2, <2>3, <2>4
<1>12. ReadModelSettled'
  <2> SUFFICES ASSUME announced \notin pending', Newer'
               PROVE  /\ Sellable(announced)
                      /\ row' # Absent /\ row'.at = announced.at
                      /\ \A s \in Sizes : announced.prices[s] # "none" =>
                           priceRows'[s] # Absent /\ priceRows'[s].at = announced.at
    BY <1>7 DEF ReadModelSettled
  <2>0. Newer /\ latest = announced.at
    BY <1>7 DEF Inv, LastInv
  <2>1. CASE e = announced
    <3>1. sizes = Sizes /\ Sellable(announced)
      BY <1>8, <2>1
    <3>2. row'.at = announced.at
      BY <1>1, <1>2, <1>3, <2>0, <2>1
    <3>3. ASSUME NEW s \in Sizes, announced.prices[s] # "none"
          PROVE  priceRows'[s] # Absent /\ priceRows'[s].at = announced.at
      <4>1. CASE priceRows[s] = Absent \/ priceRows[s].at < e.at
        <5>1. priceRows'[s] = [active |-> s \in Active(e), at |-> e.at]
          BY <1>5, <2>1, <3>1, <3>3, <4>1
        <5> QED  BY <1>2, <2>1, <5>1
      <4>2. CASE ~(priceRows[s] = Absent \/ priceRows[s].at < e.at)
        <5>1. priceRows'[s] = priceRows[s] /\ priceRows[s] # Absent
          BY <1>5, <4>2
        <5> QED  BY <1>1, <1>2, <2>0, <2>1, <4>2, <5>1
      <4> QED  BY <4>1, <4>2
    <3> QED  BY <1>4, <3>1, <3>2, <3>3
  <2>2. CASE e # announced
    <3>1. announced \notin pending /\ e.at < announced.at
      BY <1>7, <2>0, <2>2
    <3>2. Sellable(announced)
      BY <1>8, <2>0, <3>1 DEF Inv, ReadModelSettled
    <3>3. /\ row # Absent /\ row.at = announced.at
          /\ \A s \in Sizes : announced.prices[s] # "none" =>
               priceRows[s] # Absent /\ priceRows[s].at = announced.at
      BY <2>0, <3>1, <3>2 DEF Inv, ReadModelSettled
    <3>4. row' = row
      BY <1>2, <1>3, <1>7, <3>1, <3>3
    <3>5. ASSUME NEW s \in Sizes, announced.prices[s] # "none"  PROVE priceRows'[s] = priceRows[s]
      <4>1. ~(priceRows[s] = Absent \/ priceRows[s].at < e.at)
        BY <1>2, <1>7, <3>1, <3>3, <3>5
      <4> QED  BY <1>5, <4>1
    <3> QED  BY <3>2, <3>3, <3>4, <3>5
  <2> QED  BY <2>1, <2>2
<1> QED  BY <1>7, <1>9, <1>10, <1>11, <1>12 DEF Inv

(* The pizza is removed, or was never there.                               *)
LEMMA DropStep ==
  ASSUME Inv, NEW e \in pending, ~Sellable(e), NoteOvertaking(e),
         \/ e.name = "pizza_updated" /\ DeleteRow(e)
         \/ e.name = "launched" /\ UNCHANGED order,
         consumer = "order", UNCHANGED <<source, consumer, index>>, pending' \subseteq pending,
         announced # e /\ announced \in pending => announced \in pending'
  PROVE  Inv'
<1>1. row \in Row \cup {Absent} /\ priceRows \in [Sizes -> PriceRow \cup {Absent}]
      /\ index \in Document \cup {NoDoc} /\ (row # Absent => row.at \in Nat)
  BY Stamped DEF Inv, TypeOK
<1>2. \/ UNCHANGED <<row, priceRows>>
      \/ row' = Absent /\ priceRows' = [s \in Sizes |-> Absent]
  BY DEF order, DeleteRow
<1>3. /\ astray \subseteq astray' /\ astray' \subseteq astray \cup {"overtaken"}
      /\ astray' = {} /\ e = announced /\ ~Sellable(e) => \A o \in pending : ~Restores(o)
  BY Overtaking
<1>4. /\ announced \in Event /\ announced # NoEvent
      /\ UNCHANGED <<announced, latest, consumer>>
      /\ e.at \in Nat /\ announced.at \in Nat /\ e.at <= latest
      /\ Newer' => Newer
      /\ "relaunch" \in astray' <=> "relaunch" \in astray
      /\ Newer => /\ e = announced \/ (announced.name = "pizza_updated" /\ e.at < announced.at)
                  /\ announced.name = "pizza_updated" => announced.at > 0
                  /\ announced.name # "pizza_updated" => announced.name = "launched"
                  /\ announced.name = "launched" => pending \subseteq {announced}
      /\ \A o : Restores(o)' <=> Restores(o)
      /\ TypeOK' /\ LaunchInv' /\ QuietInv' /\ LastInv'
  <2>1. row' \in Row \cup {Absent} /\ priceRows' \in [Sizes -> PriceRow \cup {Absent}]
        /\ index' \in Document \cup {NoDoc}
    BY <1>1, <1>2
  <2> QED  BY <1>3, <2>1, Handling
<1>5. StampInv'
  BY <1>2, <1>4 DEF Inv, StampInv
<1>6. SnapshotInv' /\ IndexInv' /\ IndexSettled'
  BY <1>4 DEF Inv, SnapshotInv, IndexInv, IndexSettled
<1>7. ReadModelInv'
  BY <1>2, <1>4 DEF Inv, ReadModelInv
<1>8. ReadModelSettled'
  <2> SUFFICES ASSUME announced \notin pending', Newer'
               PROVE  IF Sellable(announced)
                        THEN /\ row' # Absent /\ row'.at = announced.at
                             /\ \A s \in Sizes : announced.prices[s] # "none" =>
                                  priceRows'[s] # Absent /\ priceRows'[s].at = announced.at
                        ELSE row' = Absent /\ \A o \in pending' : ~Restores(o)
    BY <1>4 DEF ReadModelSettled
  <2>0. Newer /\ latest = announced.at /\ astray' = {}
    BY <1>4 DEF Inv, LastInv, Newer
  <2>1. CASE e = announced
    <3>1. row' = Absent
      <4>1. CASE e.name = "launched"
        BY <1>2, <2>0, <2>1, <4>1 DEF Inv, ReadModelInv
      <4>2. CASE e.name # "launched" /\ row # Absent
        <5>1. row.at <= announced.at /\ row.at # announced.at
          BY <2>0, <2>1, <4>2 DEF Inv, StampInv, ReadModelInv
        <5> QED  BY <1>1, <1>4, <2>1, <4>2, <5>1 DEF DeleteRow
      <4>3. CASE row = Absent
        BY <1>2, <4>3
      <4> QED  BY <4>1, <4>2, <4>3
    <3> QED  BY <1>3, <2>0, <2>1, <3>1
  <2>2. CASE e # announced
    <3>1. announced \notin pending /\ e.at < announced.at
      BY <1>4, <2>0, <2>2
    <3>2. CASE Sellable(announced)
      <4>1. /\ row # Absent /\ row.at = announced.at
            /\ \A s \in Sizes : announced.prices[s] # "none" =>
                 priceRows[s] # Absent /\ priceRows[s].at = announced.at
        BY <2>0, <3>1, <3>2 DEF Inv, ReadModelSettled
      <4>2. UNCHANGED <<row, priceRows>>
        BY <1>4, <3>1, <4>1 DEF DeleteRow, order
      <4> QED  BY <3>2, <4>1, <4>2
    <3>3. CASE ~Sellable(announced)
      <4>1. row = Absent /\ \A o \in pending : ~Restores(o)
        BY <2>0, <3>1, <3>3 DEF Inv, ReadModelSettled
      <4> QED  BY <1>2, <3>3, <4>1
    <3> QED  BY <3>2, <3>3
  <2> QED  BY <2>1, <2>2
<1> QED  BY <1>4, <1>5, <1>6, <1>7, <1>8 DEF Inv

LEMMA OrderStep ==
  ASSUME Inv, NEW e \in pending, OrderHandles(e)
  PROVE  Inv'
<1>1. /\ consumer = "order" /\ UNCHANGED <<source, consumer, index>>
      /\ pending' \subseteq pending
      /\ announced # e /\ announced \in pending => announced \in pending'
      /\ NoteOvertaking(e)
  BY DEF OrderHandles, Acknowledge
<1>2. CASE StoresPizza(e) /\ UpsertRow(e) /\ UpsertPriceRows(e, Sizes)
  BY <1>1, <1>2, StoreStep, Overtaking
<1>3. CASE ~Sellable(e) /\ e.name = "pizza_updated" /\ DeleteRow(e)
  BY <1>1, <1>3, DropStep
<1>4. CASE ~Sellable(e) /\ e.name = "launched" /\ UNCHANGED order
  BY <1>1, <1>4, DropStep
<1> QED  BY <1>2, <1>3, <1>4 DEF OrderHandles

LEMMA OrderPartlyStep ==
  ASSUME Inv, NEW e \in pending, NEW sizes \in SUBSET Sizes, OrderHandlesPartly(e, sizes)
  PROVE  Inv'
<1>1. /\ consumer = "order" /\ UNCHANGED <<source, consumer, index, pending, astray>>
      /\ StoresPizza(e) /\ UpsertRow(e) /\ UpsertPriceRows(e, sizes)
  BY DEF OrderHandlesPartly
<1> QED  BY <1>1, StoreStep

-----------------------------------------------------------------------------
LEMMA InitInv == Init => Inv
<1> SUFFICES ASSUME Init  PROVE Inv
  OBVIOUS
<1>1. pizza \in Row /\ Unpriced \in Prices
  BY UnpricedType DEF Init, Row, Status
<1>2. TypeOK
  BY <1>1 DEF Init, TypeOK
<1>3. \A r \in Requests : ~Open(r)
  BY DEF Init, Open
<1>4. /\ ~active /\ announced = NoEvent /\ latest = 0 /\ pending = {}
      /\ index = NoDoc /\ row = Absent /\ \A s \in Sizes : priceRows[s] = Absent
  BY DEF Init
<1>5. LaunchInv /\ QuietInv /\ StampInv /\ SnapshotInv
  BY <1>3, <1>4 DEF LaunchInv, QuietInv, StampInv, SnapshotInv
<1>6. ~Newer
  BY <1>4 DEF Newer
<1>7. LastInv /\ IndexInv /\ ReadModelInv /\ IndexSettled /\ ReadModelSettled
  BY <1>6 DEF LastInv, IndexInv, ReadModelInv, IndexSettled, ReadModelSettled
<1> QED  BY <1>2, <1>5, <1>7 DEF Inv

LEMMA NextInv == Inv /\ [Next]_vars => Inv'
<1> SUFFICES ASSUME Inv, [Next]_vars  PROVE Inv'
  OBVIOUS
<1>1. CASE UNCHANGED vars
  <2>1. /\ pizza' \in Row /\ prices' \in Prices /\ active' \in BOOLEAN /\ now' \in Nat
        /\ requests' \in [Requests -> Request \cup {Idle, Done}]
        /\ active' => announced # NoEvent
    BY <1>1 DEF Inv, TypeOK, LaunchInv, vars, source
  <2>2. \A r \in Requests : Open(r)' /\ requests'[r].active => announced # NoEvent
    BY <1>1 DEF Inv, LaunchInv, Open, vars, source
  <2> QED  BY <1>1, <2>1, <2>2, SilentStep DEF vars, source, mirror
<1>2. ASSUME NEW r \in Requests, NEW cmd \in {"update", "prices", "launch"}, Load(r, cmd)  PROVE Inv'
  BY <1>2, LoadStep
<1>3. ASSUME NEW r \in Requests, ReadPizza(r) \/ ReadPrices(r)  PROVE Inv'
  BY <1>3, ReadPizzaStep, ReadPricesStep
<1>4. ASSUME NEW r \in Requests, NEW sold \in SUBSET Sizes, UpsertPrices(r, sold)  PROVE Inv'
  BY <1>4, UpsertPricesStep
<1>5. ASSUME NEW r \in Requests, FindUnsold(r) \/ DeactivateUnsold(r)  PROVE Inv'
  BY <1>5, FindUnsoldStep, DeactivateUnsoldStep
<1>6. ASSUME NEW r \in Requests, DrawStamp(r)  PROVE Inv'
  BY <1>6, DrawStampStep
<1>7. ASSUME NEW r \in Requests, NEW s \in Status, UpdatePizza(r, s)  PROVE Inv'
  BY <1>7, UpdatePizzaStep
<1>8. ASSUME NEW r \in Requests, SetPizzaPrices(r)  PROVE Inv'
  BY <1>8, SetPizzaPricesStep
<1>9. ASSUME NEW r \in Requests, LaunchRestaurant(r)  PROVE Inv'
  BY <1>9, LaunchStep
<1>10. ASSUME NEW r \in Requests, Fail(r)  PROVE Inv'
  BY <1>10, FailStep
<1>11. CASE SaveProfile
  BY <1>11, SaveProfileStep
<1>12. ASSUME NEW e \in pending, SearchHandles(e)  PROVE Inv'
  BY <1>12, SearchStep
<1>13. ASSUME NEW e \in pending, OrderHandles(e)  PROVE Inv'
  BY <1>13, OrderStep
<1>14. ASSUME NEW e \in pending, NEW sizes \in SUBSET Sizes, OrderHandlesPartly(e, sizes)  PROVE Inv'
  BY <1>14, OrderPartlyStep
<1> QED
  BY <1>1, <1>2, <1>3, <1>4, <1>5, <1>6, <1>7, <1>8, <1>9, <1>10, <1>11, <1>12, <1>13, <1>14 DEF Next

(* The strengthening above holds throughout: what is stamped above all     *)
(* that was announced before it orders what is under way and what each     *)
(* copy has stored.                                                        *)
THEOREM Invariance == Spec => []Inv
BY InitInv, NextInv, PTL DEF Spec

(* The types of the pizza, of the events and of both copies.               *)
THEOREM TypeCorrect == Spec => []TypeOK
<1>1. Inv => TypeOK
  BY DEF Inv
<1> QED  BY <1>1, Invariance, PTL

(* However its events were delayed, repeated or reordered, a copy that has *)
(* acknowledged them all shows the pizza as last announced, unless that    *)
(* announcement did not carry a later stamp than all before it, the        *)
(* restaurant was launched twice, or the copy took a removal before an     *)
(* event that restores the pizza.                                          *)
THEOREM Mirrors_Settle == Spec => []MirrorsSettle
<1>1. Inv => MirrorsSettle
  <2> SUFFICES ASSUME Inv, announced # NoEvent, pending = {}, astray = {}
               PROVE  IF consumer = "search" THEN IndexShows(announced) ELSE ReadModelShows(announced)
    BY DEF MirrorsSettle
  <2>1. Newer /\ announced \notin pending /\ announced \in Event
    BY Stamped DEF Newer
  <2>2. announced.name \in {"launched", "pizza_updated"}
    BY <2>1, EventType
  <2>3. CASE consumer = "search"
    <3>1. /\ index # NoDoc
          /\ announced.name = "launched" => index.pizza = InSnapshot(announced)
          /\ announced.name = "pizza_updated" /\ index.pizza # Absent /\ index.pizza.at = announced.at =>
               index.pizza.prices = Active(announced)
      BY <2>1, <2>3 DEF Inv, IndexSettled, IndexInv
    <3>2. IF Sellable(announced)
            THEN /\ index.pizza # Absent
                 /\ announced.name = "pizza_updated" => index.pizza.at = announced.at
            ELSE index.pizza = Absent
      BY <2>1, <2>3 DEF Inv, IndexSettled
    <3>3. CASE Sellable(announced)
      <4>1. InSnapshot(announced).prices = Active(announced)
        BY <3>3 DEF InSnapshot
      <4> QED  BY <2>2, <2>3, <3>1, <3>2, <3>3, <4>1 DEF IndexShows
    <3>4. CASE ~Sellable(announced)
      BY <2>3, <3>1, <3>2, <3>4 DEF IndexShows
    <3> QED  BY <3>3, <3>4
  <2>4. CASE consumer = "order"
    <3>1. CASE Sellable(announced)
      <4>1. row # Absent /\ row.status = announced.status
        BY <2>1, <2>4, <3>1 DEF Inv, ReadModelInv, ReadModelSettled
      <4>2. ASSUME NEW s \in Sizes, announced.prices[s] # "none"
            PROVE  priceRows[s] # Absent /\ priceRows[s].active = (s \in Active(announced))
        BY <2>1, <2>4, <3>1, <4>2 DEF Inv, ReadModelInv, ReadModelSettled
      <4> QED  BY <2>4, <3>1, <4>1, <4>2 DEF ReadModelShows
    <3>2. CASE ~Sellable(announced)
      BY <2>1, <2>4, <3>2 DEF Inv, ReadModelSettled, ReadModelShows
    <3> QED  BY <3>1, <3>2
  <2> QED  BY <2>3, <2>4 DEF Inv, TypeOK
<1> QED  BY <1>1, Invariance, PTL

(* Saving an up-to-date copy announces exactly what is saved.              *)
THEOREM FreshSaves_Announced == Spec => FreshSavesAreAnnounced
<1> DEFINE Fresh(r) ==
      Open(r) /\ Current(r) /\ requests'[r] = Done /\ active'
        /\ <<pizza, prices, active>>' # <<pizza, prices, active>>
<1> DEFINE Told ==
      announced'.status = pizza'.status /\ announced'.prices = prices' /\ announced'.at = pizza'.at
<1>1. ASSUME TypeOK, Next, NEW r \in Requests, Fresh(r)  PROVE Told
  <2>1. ASSUME NEW o \in Requests, requests' = [requests EXCEPT ![o] = Done]  PROVE o = r
    BY <1>1, <2>1 DEF TypeOK, Open
  <2>2. <<pizza, prices, active>>' # <<pizza, prices, active>> /\ active'
    BY <1>1
  <2>3. requests[r].seen = pizza /\ requests[r].active = active
        /\ (requests[r].cmd # "prices" => requests[r].prices = prices)
    BY <1>1 DEF Current
  <2>4. ASSUME NEW o \in Requests, NEW s \in Status, UpdatePizza(o, s)  PROVE Told
    <3>1. o = r /\ active
      BY <2>1, <2>2, <2>4 DEF UpdatePizza
    <3>2. announced' = [name |-> "pizza_updated", status |-> s, prices |-> requests[r].prices,
                        at |-> requests[r].at, opened |-> 0]
      BY <2>3, <2>4, <3>1 DEF UpdatePizza, NotifyPizzaUpdated, Announce
    <3>3. pizza' = [status |-> s, at |-> requests[r].at] /\ prices' = requests[r].prices
      BY <2>3, <2>4, <3>1 DEF UpdatePizza, Ready
    <3> QED  BY <3>2, <3>3
  <2>5. ASSUME NEW o \in Requests, SetPizzaPrices(o)  PROVE Told
    <3>1. o = r /\ active
      BY <2>1, <2>2, <2>5 DEF SetPizzaPrices
    <3>2. announced' = [name |-> "pizza_updated", status |-> requests[r].seen.status,
                        prices |-> prices', at |-> requests[r].at, opened |-> 0]
      BY <2>3, <2>5, <3>1 DEF SetPizzaPrices, NotifyPizzaUpdated, Announce
    <3>3. pizza' = [status |-> requests[r].seen.status, at |-> requests[r].at]
      BY <2>5, <3>1 DEF SetPizzaPrices
    <3> QED  BY <3>2, <3>3
  <2>6. ASSUME NEW o \in Requests, LaunchRestaurant(o)  PROVE Told
    <3>1. o = r
      BY <2>1, <2>6 DEF LaunchRestaurant
    <3> QED  BY <2>3, <2>6, <3>1 DEF LaunchRestaurant, Ready, Announce
  <2>7. CASE \E o \in Requests :
               \/ \E cmd \in {"update", "prices", "launch"} : Load(o, cmd)
               \/ ReadPizza(o) \/ ReadPrices(o)
               \/ \E sold \in SUBSET Sizes : UpsertPrices(o, sold)
               \/ FindUnsold(o) \/ DeactivateUnsold(o)
               \/ DrawStamp(o)
               \/ Fail(o)
    BY <2>2, <2>7 DEF Load, ReadPizza, ReadPrices, UpsertPrices, FindUnsold, DeactivateUnsold,
                      DrawStamp, Fail
  <2>8. CASE SaveProfile
    BY <2>2, <2>8 DEF SaveProfile
  <2>9. CASE \E e \in pending :
               \/ SearchHandles(e)
               \/ OrderHandles(e)
               \/ \E sizes \in SUBSET Sizes : OrderHandlesPartly(e, sizes)
    BY <2>2, <2>9 DEF SearchHandles, OrderHandles, OrderHandlesPartly, source
  <2> QED
    BY <1>1, <2>4, <2>5, <2>6, <2>7, <2>8, <2>9 DEF Next
<1>2. TypeOK /\ [Next]_vars =>
        [\A r \in Requests :
           Open(r) /\ Current(r) /\ requests'[r] = Done /\ active'
             /\ <<pizza, prices, active>>' # <<pizza, prices, active>>
           => /\ announced'.status = pizza'.status
              /\ announced'.prices = prices'
              /\ announced'.at = pizza'.at]_vars
  BY <1>1
<1> QED
  BY <1>2, TypeCorrect, PTL DEF Spec, FreshSavesAreAnnounced

-----------------------------------------------------------------------------
(* A restaurant's fields and topping prices                                *)

(* Commands whose row was saved, whose prices were committed; among them   *)
(* those that set the fields, the launches, and those whose list of prices *)
(* was announced.                                                          *)
Stored(q)   == commands[q].pc = "done" /\ commands[q].at # 0
Sets(q)     == Stored(q) /\ commands[q].kind \in {"fields", "launch"}
Launched(q) == Stored(q) /\ commands[q].kind = "launch"
Lists(q)    == Stored(q) /\ \/ commands[q].kind = "launch"
                            \/ commands[q].kind = "prices" /\ commands[q].active

(* The times are drawn and not later than the clock.                       *)
ClockInv ==
  /\ clock > 0
  /\ \A q \in Commands :
       /\ commands[q].at <= clock
       /\ commands[q].pc \in {"idle", "loaded", "listed"} => commands[q].at = 0
       /\ commands[q].pc \in {"stamped", "written"} => commands[q].at # 0
       /\ commands[q].pc = "written" => commands[q].kind = "prices"

(* A price once listed is never unset again, unless it was rolled back.    *)
ListInv ==
  /\ \A q \in Commands, t \in Toppings :
       commands[q].list[t] # None =>
         \/ price[t] # None
         \/ commands[q].pc = "written" /\ t \in commands[q].own
         \/ commands[q].pc = "done" /\ commands[q].at = 0
  /\ \A t \in Toppings : replica.prices[t] # None => price[t] # None

(* An event says what its writer committed.                                *)
NewsInv ==
  \A m \in inflight :
    /\ Stored(m.writer)
    /\ m.at = commands[m.writer].at
    /\ m.list = commands[m.writer].list
    /\ m.name = "launched" => commands[m.writer].kind = "launch"
    /\ m.name = "updated" => commands[m.writer].kind = "fields"
    /\ m.name = "topping_prices_updated" => Lists(m.writer) /\ commands[m.writer].kind = "prices"

(* Nothing is announced before a launch, what was read as active has no    *)
(* earlier time than one, and without a second launch there is only one.   *)
OpenInv ==
  /\ store.active \/ replica.present \/ inflight # {} \/ (\E t \in Toppings : replica.prices[t] # None)
       => \E q \in Commands : Launched(q)
  /\ \A q \in Commands : commands[q].active =>
       \E p \in Commands : Launched(p) /\ (commands[q].at # 0 => commands[p].at <= commands[q].at)
  /\ "relaunch" \notin pricesAstray =>
       \A p, q \in Commands : Launched(p) /\ Launched(q) => p = q

(* The row is some saved one's, and so is the time of the mirror.          *)
RowInv ==
  /\ store.writer # None => Sets(store.writer)
  /\ store.writer = None => \A q \in Commands : ~Sets(q)
  /\ replica.present =>
       /\ \E q \in Commands : Sets(q) /\ replica.at = commands[q].at
       /\ reader = "search" => \E q \in Commands : Launched(q) /\ commands[q].at <= replica.at

(* Unless something is astray, the row's writer has the latest time, its   *)
(* event is pending or taken, and a mirror with its time has its fields.   *)
FieldsInv ==
  fieldsAstray = {} /\ store.writer # None =>
    LET w == store.writer IN
    /\ \A q \in Commands \ {w} : Sets(q) => commands[q].at < commands[w].at
    /\ \/ \E m \in inflight : m.writer = w
       \/ replica.present /\ replica.at = commands[w].at
    /\ replica.present /\ replica.at = commands[w].at => replica.fields = w

(* Whether the mirror holds a price, and the time a list has there:        *)
(* search-service forgets that of a launch.                                *)
Shown(t)  == IF reader = "search" THEN replica.present ELSE replica.prices[t] # None
ListAt(q) == IF reader = "search" /\ commands[q].kind = "launch" THEN 0 ELSE commands[q].at

(* The list of w is the prices there are, no announced list is later, and  *)
(* for every topping its event is pending or taken.                        *)
TakenOrPending(w, t) ==
  \/ \E m \in inflight : m.writer = w
  \/ reader = "order" /\ price[t] = None
  \/ Shown(t) /\ replica.pricesAt[t] = ListAt(w)

Latest(w) ==
  /\ Lists(w)
  /\ commands[w].list = price
  /\ \A q \in Commands \ {w} : Lists(q) => commands[q].at < commands[w].at
  /\ \A t \in Toppings :
       /\ TakenOrPending(w, t)
       /\ Shown(t) => replica.pricesAt[t] <= ListAt(w)
       /\ Shown(t) /\ replica.pricesAt[t] = ListAt(w) => replica.prices[t] = price[t]

PricesInv ==
  /\ \A t \in Toppings : Shown(t) =>
       \E q \in Commands : Lists(q) /\ replica.pricesAt[t] \in {0, commands[q].at}
  /\ reader = "search" => \A t, u \in Toppings : replica.pricesAt[t] = replica.pricesAt[u]
  /\ pricesAstray = {} /\ (\E q \in Commands : Launched(q)) => \E w \in Commands : Latest(w)

StoreInv ==
  /\ StoreTypeOK /\ ClockInv /\ ListInv /\ NewsInv
  /\ OpenInv /\ RowInv /\ FieldsInv /\ PricesInv

LEMMA StoreInitInv == StoreInit => StoreInv
<1> SUFFICES ASSUME StoreInit PROVE StoreInv
  OBVIOUS
<1>1. 0 \in Stamps /\ 1 \in Stamps /\ 1 > 0 /\ 0 <= 1
  BY DEF Stamps
<1>2. NoPrices \in PriceList
  BY DEF NoPrices, PriceList, Writers
<1>3. StoreTypeOK
  BY <1>1, <1>2 DEF StoreInit, StoreTypeOK, Command, Writers, Kinds, Replica
<1>4. ClockInv
  BY <1>1 DEF StoreInit, ClockInv
<1>5. \A q \in Commands : ~Stored(q)
  BY DEF StoreInit, Stored
<1>6. ListInv /\ NewsInv /\ OpenInv
  BY <1>5 DEF StoreInit, ListInv, NewsInv, OpenInv, NoPrices, Launched
<1>7. RowInv /\ FieldsInv
  BY <1>5 DEF StoreInit, RowInv, FieldsInv, Sets
<1>8. PricesInv
  BY <1>5 DEF StoreInit, PricesInv, Shown, NoPrices, Launched
<1> QED  BY <1>3, <1>4, <1>6, <1>7, <1>8 DEF StoreInv

(* Ranges the arithmetic needs.                                            *)
LEMMA StoreRanges ==
  ASSUME StoreInv
  PROVE  /\ clock \in Nat /\ replica.at \in Nat
         /\ \A q \in Commands : commands[q] \in Command /\ commands[q].at \in Nat
         /\ \A t \in Toppings : replica.pricesAt[t] \in Nat
         /\ \A m \in inflight : m \in News /\ m.writer \in Commands /\ m.at \in Nat
<1>2. Stamps \subseteq Nat
  BY DEF Stamps
<1>3. clock \in Nat /\ replica.at \in Nat
  BY <1>2 DEF StoreInv, StoreTypeOK, Replica
<1>4. \A t \in Toppings : replica.pricesAt[t] \in Nat
  BY <1>2 DEF StoreInv, StoreTypeOK, Replica
<1>5. \A q \in Commands : commands[q] \in Command /\ commands[q].at \in Nat
  BY <1>2 DEF StoreInv, StoreTypeOK, Command
<1>6. \A m \in inflight : m \in News /\ m.writer \in Commands /\ m.at \in Nat
  BY <1>2 DEF StoreInv, StoreTypeOK, News
<1> QED  BY <1>3, <1>4, <1>5, <1>6

-----------------------------------------------------------------------------
(* A step of one command that commits nothing.                             *)
LEMMA QuietStep ==
  ASSUME StoreInv, NEW r \in Commands, NEW c \in Command,
         commands' \in [Commands -> Command], commands'[r] = c,
         \A q \in Commands \ {r} : commands'[q] = commands[q],
         UNCHANGED <<reader, store, price, inflight, replica, fieldsAstray, pricesAstray>>,
         commands[r].pc # "done", ~(c.pc = "done" /\ c.at # 0),
         clock' \in {clock, clock + 1}, c.at \in {0, commands[r].at, clock'},
         c.pc \in {"idle", "loaded", "listed"} => c.at = 0,
         c.pc \in {"stamped", "written"} => c.at # 0,
         c.pc = "written" => c.kind = "prices",
         \A t \in Toppings : c.list[t] # None =>
           price[t] # None \/ (c.pc = "written" /\ t \in c.own) \/ (c.pc = "done" /\ c.at = 0),
         c.active => \E p \in Commands : Launched(p) /\ (c.at # 0 => commands[p].at <= c.at)
  PROVE  StoreInv'
<1>1. /\ commands' \in [Commands -> Command] /\ commands'[r] = c
      /\ \A q \in Commands \ {r} : commands'[q] = commands[q]
  OBVIOUS
<1>2. \A q \in Commands : /\ Stored(q)' <=> Stored(q)
                          /\ Stored(q) => commands'[q] = commands[q]
  BY <1>1 DEF Stored
<1>3. \A q \in Commands : /\ Sets(q)' <=> Sets(q)
                          /\ Launched(q)' <=> Launched(q)
                          /\ Lists(q)' <=> Lists(q)
  BY <1>1, <1>2 DEF Sets, Launched, Lists
<1>4. clock' \in Stamps /\ clock' > 0 /\ clock <= clock'
  BY StoreRanges DEF StoreInv, ClockInv, Stamps
<1>5. StoreTypeOK'
  BY <1>1, <1>4 DEF StoreInv, StoreTypeOK
<1>6. ClockInv'
  <2>1. ASSUME NEW q \in Commands PROVE commands'[q].at <= clock'
    <3>1. commands[q].at <= clock /\ commands[q].at \in Nat /\ clock \in Nat /\ clock' \in Nat
      BY <1>4, StoreRanges DEF StoreInv, ClockInv, Stamps
    <3>2. commands'[q].at \in {0, commands[q].at, clock'}
      BY <1>1
    <3> QED  BY <1>4, <3>1, <3>2
  <2>3. \A q \in Commands :
          /\ commands'[q].pc \in {"idle", "loaded", "listed"} => commands'[q].at = 0
          /\ commands'[q].pc \in {"stamped", "written"} => commands'[q].at # 0
          /\ commands'[q].pc = "written" => commands'[q].kind = "prices"
    BY <1>1 DEF StoreInv, ClockInv
  <2> QED  BY <1>4, <2>1, <2>3 DEF ClockInv
<1>7. ListInv'
  BY <1>1 DEF StoreInv, ListInv
<1>8. NewsInv'
  BY <1>2, <1>3, StoreRanges DEF StoreInv, NewsInv
<1>9. OpenInv'
  <2>1. ASSUME NEW q \in Commands, commands'[q].active
        PROVE  \E p \in Commands : Launched(p)' /\ (commands'[q].at # 0 => commands'[p].at <= commands'[q].at)
    BY <1>1, <1>2, <1>3, <2>1 DEF StoreInv, OpenInv, Launched
  <2> QED  BY <1>3, <2>1 DEF StoreInv, OpenInv
<1>10. RowInv' /\ FieldsInv'
  <2>1. store.writer \in Writers
    BY DEF StoreInv, StoreTypeOK
  <2>2. RowInv'
    BY <1>2, <1>3, <2>1 DEF StoreInv, RowInv, Writers, Sets, Launched
  <2>3. FieldsInv'
    BY <1>2, <1>3, <2>1 DEF StoreInv, FieldsInv, RowInv, Writers, Sets
  <2> QED  BY <2>2, <2>3
<1>11. PricesInv'
  <2>1. \A q \in Commands : Lists(q) => commands'[q] = commands[q] /\ ListAt(q)' = ListAt(q)
    BY <1>2 DEF Lists, ListAt
  <2>2. ASSUME NEW w \in Commands, Latest(w) PROVE Latest(w)'
    BY <1>3, <2>1, <2>2 DEF Latest, TakenOrPending, Shown
  <2> QED  BY <1>3, <2>1, <2>2 DEF StoreInv, PricesInv, Shown
<1> QED  BY <1>5, <1>6, <1>7, <1>8, <1>9, <1>10, <1>11 DEF StoreInv

LEMMA LoadStoreInv ==
  ASSUME StoreInv, NEW r \in Commands, NEW kind \in Kinds, NEW own \in SUBSET Toppings,
         LoadStore(r, kind, own)
  PROVE  StoreInv'
<1> DEFINE c == [pc |-> "loaded", kind |-> kind, active |-> store.active, own |-> own,
                 list |-> commands[r].list, at |-> commands[r].at]
<1>1. commands[r] \in Command /\ store.active \in BOOLEAN
  BY DEF StoreInv, StoreTypeOK
<1>2. c \in Command
  BY <1>1 DEF Command
<1>31. commands'[r] = c
  BY <1>1 DEF LoadStore, StoreInv, StoreTypeOK, Command
<1>32. commands' \in [Commands -> Command] /\ \A q \in Commands \ {r} : commands'[q] = commands[q]
  BY <1>2, <1>31 DEF LoadStore, StoreInv, StoreTypeOK
<1>3. commands[r].pc = "idle" /\ commands[r].at = 0
  BY DEF LoadStore, StoreInv, ClockInv
<1>4. \A t \in Toppings : c.list[t] # None => price[t] # None
  BY <1>3 DEF StoreInv, ListInv
<1>5. c.active => \E p \in Commands : Launched(p) /\ (c.at # 0 => commands[p].at <= c.at)
  BY <1>3 DEF StoreInv, OpenInv
<1>6. UNCHANGED <<reader, store, price, clock, inflight, replica, fieldsAstray, pricesAstray>>
  BY DEF LoadStore
<1> QED  BY <1>2, <1>3, <1>4, <1>5, <1>6, <1>31, <1>32, QuietStep

LEMMA ListPricesInv ==
  ASSUME StoreInv, NEW r \in Commands, ListPrices(r)
  PROVE  StoreInv'
<1> DEFINE c == [pc |-> "listed", kind |-> commands[r].kind, active |-> commands[r].active,
                 own |-> commands[r].own, list |-> price, at |-> commands[r].at]
<1>1. commands[r] \in Command /\ price \in PriceList
  BY DEF StoreInv, StoreTypeOK
<1>2. c \in Command
  BY <1>1 DEF Command
<1>31. commands'[r] = c
  BY <1>1 DEF ListPrices, StoreInv, StoreTypeOK, Command
<1>32. commands' \in [Commands -> Command] /\ \A q \in Commands \ {r} : commands'[q] = commands[q]
  BY <1>2, <1>31 DEF ListPrices, StoreInv, StoreTypeOK
<1>3. commands[r].pc = "loaded" /\ commands[r].at = 0
  BY DEF ListPrices, StoreInv, ClockInv
<1>4. c.active => \E p \in Commands : Launched(p) /\ (c.at # 0 => commands[p].at <= c.at)
  BY <1>3 DEF StoreInv, OpenInv
<1>5. UNCHANGED <<reader, store, price, clock, inflight, replica, fieldsAstray, pricesAstray>>
  BY DEF ListPrices
<1> QED  BY <1>2, <1>3, <1>4, <1>5, <1>31, <1>32, QuietStep

LEMMA TakeTimeInv ==
  ASSUME StoreInv, NEW r \in Commands, TakeTime(r)
  PROVE  StoreInv'
<1> DEFINE c == [pc |-> "stamped", kind |-> commands[r].kind, active |-> commands[r].active,
                 own |-> commands[r].own, list |-> commands[r].list, at |-> clock']
<1>1. /\ commands[r] \in Command /\ clock \in Nat /\ clock > 0 /\ clock' \in {clock, clock + 1}
      /\ commands[r].pc \in {"loaded", "listed"} /\ commands[r].at = 0
  BY StoreRanges DEF TakeTime, StoreInv, ClockInv
<1>2. clock' \in Stamps /\ clock' # 0 /\ clock <= clock'
  BY <1>1 DEF Stamps
<1>3. c \in Command
  BY <1>1, <1>2 DEF Command
<1>31. commands'[r] = c
  BY <1>1, <1>2 DEF TakeTime, StoreInv, StoreTypeOK, Command
<1>32. commands' \in [Commands -> Command] /\ \A q \in Commands \ {r} : commands'[q] = commands[q]
  BY <1>3, <1>31 DEF TakeTime, StoreInv, StoreTypeOK
<1>4. \A t \in Toppings : c.list[t] # None => price[t] # None
  BY <1>1 DEF StoreInv, ListInv
<1>5. c.active => \E p \in Commands : Launched(p) /\ (c.at # 0 => commands[p].at <= c.at)
  <2>1. \A p \in Commands : commands[p].at <= clock'
    BY <1>1, <1>2, StoreRanges DEF StoreInv, ClockInv, Stamps
  <2> QED  BY <2>1 DEF StoreInv, OpenInv
<1>6. UNCHANGED <<reader, store, price, inflight, replica, fieldsAstray, pricesAstray>>
  BY DEF TakeTime
<1>7. c.at # 0
  BY <1>2
<1>8. commands[r].pc \notin {"done", "stamped", "written"} /\ c.pc = "stamped" /\ c.at = clock'
  BY <1>1
<1> QED  BY <1>1, <1>3, <1>4, <1>5, <1>6, <1>7, <1>8, <1>31, <1>32, QuietStep

LEMMA WritePricesInv ==
  ASSUME StoreInv, NEW r \in Commands, WritePrices(r)
  PROVE  StoreInv'
<1> DEFINE list == [t \in Toppings |-> IF t \in commands[r].own THEN r ELSE price[t]]
           c == [pc |-> "written", kind |-> commands[r].kind, active |-> commands[r].active,
                 own |-> commands[r].own, list |-> list, at |-> commands[r].at]
<1>1. commands[r] \in Command /\ price \in PriceList
  BY DEF StoreInv, StoreTypeOK
<1>2. list \in PriceList
  BY <1>1 DEF PriceList, Writers
<1>3. c \in Command
  BY <1>1, <1>2 DEF Command
<1>31. commands'[r] = c
  BY <1>1, <1>2 DEF WritePrices, StoreInv, StoreTypeOK, Command
<1>32. commands' \in [Commands -> Command] /\ \A q \in Commands \ {r} : commands'[q] = commands[q]
  BY <1>3, <1>31 DEF WritePrices, StoreInv, StoreTypeOK
<1>4. commands[r].pc = "stamped" /\ commands[r].at # 0 /\ commands[r].kind = "prices"
  BY DEF WritePrices, StoreInv, ClockInv
<1>5. \A t \in Toppings : c.list[t] # None => price[t] # None \/ (c.pc = "written" /\ t \in c.own)
  OBVIOUS
<1>6. c.active => \E p \in Commands : Launched(p) /\ (c.at # 0 => commands[p].at <= c.at)
  BY DEF StoreInv, OpenInv
<1>7. UNCHANGED <<reader, store, price, clock, inflight, replica, fieldsAstray, pricesAstray>>
  BY DEF WritePrices
<1> HIDE DEF list
<1> QED  BY <1>3, <1>4, <1>5, <1>6, <1>7, <1>31, <1>32, QuietStep

LEMMA CommandFailsInv ==
  ASSUME StoreInv, NEW r \in Commands, CommandFails(r)
  PROVE  StoreInv'
<1> DEFINE c == [pc |-> "done", kind |-> commands[r].kind, active |-> commands[r].active,
                 own |-> commands[r].own, list |-> commands[r].list, at |-> 0]
<1>1. commands[r] \in Command /\ 0 \in Stamps
  BY StoreRanges DEF StoreInv, StoreTypeOK, Stamps
<1>2. c \in Command
  BY <1>1 DEF Command
<1>31. commands'[r] = c
  BY <1>1 DEF CommandFails, StoreInv, StoreTypeOK, Command
<1>32. commands' \in [Commands -> Command] /\ \A q \in Commands \ {r} : commands'[q] = commands[q]
  BY <1>2, <1>31 DEF CommandFails, StoreInv, StoreTypeOK
<1>3. commands[r].pc \in {"loaded", "listed", "stamped", "written"}
  BY DEF CommandFails
<1>4. c.active => \E p \in Commands : Launched(p) /\ (c.at # 0 => commands[p].at <= c.at)
  BY DEF StoreInv, OpenInv
<1>5. UNCHANGED <<reader, store, price, clock, inflight, replica, fieldsAstray, pricesAstray>>
  BY DEF CommandFails
<1> QED  BY <1>2, <1>3, <1>4, <1>5, <1>31, <1>32, QuietStep

-----------------------------------------------------------------------------
(* A step of one command that commits.                                     *)
Committing(r) ==
  /\ commands[r].pc \in {"stamped", "written"}
  /\ commands' = [commands EXCEPT ![r].pc = "done"]
  /\ UNCHANGED <<reader, clock, replica>>

LEMMA CommitFacts ==
  ASSUME StoreInv, NEW r \in Commands, Committing(r)
  PROVE  /\ commands' \in [Commands -> Command]
         /\ commands'[r].pc = "done" /\ commands[r].at # 0 /\ ~Stored(r) /\ Stored(r)'
         /\ \A q \in Commands \ {r} : commands'[q] = commands[q] /\ (Stored(q)' <=> Stored(q))
         /\ \A q \in Commands :
              /\ commands'[q].kind = commands[q].kind /\ commands'[q].active = commands[q].active
              /\ commands'[q].own = commands[q].own /\ commands'[q].list = commands[q].list
              /\ commands'[q].at = commands[q].at
         /\ ClockInv'
         /\ \A m \in inflight : m.writer # r
<1>1. commands[r] \in Command /\ commands[r].at # 0
  BY DEF Committing, StoreInv, StoreTypeOK, ClockInv
<1>2. commands'[r] = [pc |-> "done", kind |-> commands[r].kind, active |-> commands[r].active,
                      own |-> commands[r].own, list |-> commands[r].list, at |-> commands[r].at]
  BY <1>1 DEF Committing, StoreInv, StoreTypeOK, Command
<1>3. commands'[r] \in Command
  BY <1>1, <1>2 DEF Command
<1>4. commands' \in [Commands -> Command] /\ \A q \in Commands \ {r} : commands'[q] = commands[q]
  BY <1>3 DEF Committing, StoreInv, StoreTypeOK
<1>5. ~Stored(r) /\ Stored(r)' /\ \A q \in Commands \ {r} : Stored(q)' <=> Stored(q)
  BY <1>1, <1>2, <1>4 DEF Committing, Stored
<1>7. \A q \in Commands :
        /\ commands'[q].kind = commands[q].kind /\ commands'[q].active = commands[q].active
        /\ commands'[q].own = commands[q].own /\ commands'[q].list = commands[q].list
        /\ commands'[q].at = commands[q].at
  BY <1>2, <1>4
<1>8. ClockInv'
  BY <1>1, <1>2, <1>4, <1>7 DEF Committing, StoreInv, ClockInv
<1>9. \A m \in inflight : m.writer # r
  BY <1>5 DEF StoreInv, NewsInv
<1> QED  BY <1>1, <1>2, <1>4, <1>5, <1>7, <1>8, <1>9

LEMMA SaveRowInv ==
  ASSUME StoreInv, NEW r \in Commands, SaveRow(r)
  PROVE  StoreInv'
<1> DEFINE launch == commands[r].kind = "launch"
           Told(name) == [name |-> name, writer |-> r, list |-> commands[r].list, at |-> commands[r].at]
<1>1. Committing(r) /\ commands[r].kind \in {"fields", "launch"} /\ commands[r] \in Command
  BY DEF SaveRow, Committing, StoreInv, StoreTypeOK, Command, Kinds
<1>2. /\ store' = [writer |-> r, active |-> launch \/ commands[r].active]
      /\ UNCHANGED <<reader, price, clock, replica>>
  BY DEF SaveRow
<1>3. \/ launch /\ inflight' = inflight \cup {Told("launched")}
      \/ ~launch /\ commands[r].active /\ inflight' = inflight \cup {Told("updated")}
      \/ ~launch /\ ~commands[r].active /\ inflight' = inflight
  BY DEF SaveRow, Announced
<1> HIDE DEF Told
<1>4. \A name \in {"launched", "updated", "topping_prices_updated"} :
        /\ Told(name) \in News
        /\ Told(name).name = name /\ Told(name).writer = r
        /\ Told(name).list = commands[r].list /\ Told(name).at = commands[r].at
  BY <1>1 DEF Told, News, Command
<1>5. /\ \A q \in Commands : Sets(q)' <=> Sets(q) \/ q = r
      /\ \A q \in Commands : Launched(q)' <=> Launched(q) \/ (q = r /\ launch)
      /\ \A q \in Commands : Lists(q)' <=> Lists(q) \/ (q = r /\ launch)
      /\ ~Sets(r) /\ ~Launched(r) /\ ~Lists(r)
      /\ \A q \in Commands : Launched(q) => Sets(q)
  BY <1>1, CommitFacts DEF Sets, Launched, Lists
<1>6. inflight \subseteq inflight' /\ \A m \in inflight' \ inflight :
        /\ m \in {Told("launched"), Told("updated")} /\ m.name # "topping_prices_updated"
        /\ m.name = "launched" <=> launch
  BY <1>3, <1>4
<1>7. StoreTypeOK'
  <2>1. store' \in [writer : Writers, active : BOOLEAN]
    BY <1>1, <1>2 DEF Writers, Command
  <2>2. inflight' \in SUBSET News
    BY <1>4, <1>6 DEF StoreInv, StoreTypeOK
  <2>3. /\ fieldsAstray' \in SUBSET {"unannounced", "stamps", "dead"}
        /\ pricesAstray' \in SUBSET {"unannounced", "stamps", "overlap", "dead", "relaunch"}
    BY DEF SaveRow, StoreInv, StoreTypeOK
  <2> QED  BY <1>1, <1>2, <2>1, <2>2, <2>3, CommitFacts DEF StoreInv, StoreTypeOK
<1>8. ListInv'
  BY <1>1, <1>2, CommitFacts DEF StoreInv, ListInv, SaveRow
<1>9. NewsInv'
  <2>1. ASSUME NEW m \in inflight
        PROVE  /\ Stored(m.writer)' /\ m.at = commands'[m.writer].at /\ m.list = commands'[m.writer].list
               /\ m.name = "launched" => commands'[m.writer].kind = "launch"
               /\ m.name = "updated" => commands'[m.writer].kind = "fields"
               /\ m.name = "topping_prices_updated" => Lists(m.writer)' /\ commands'[m.writer].kind = "prices"
    BY <1>1, <1>5, CommitFacts, StoreRanges DEF StoreInv, NewsInv
  <2>2. ASSUME NEW m \in inflight' \ inflight
        PROVE  /\ Stored(m.writer)' /\ m.at = commands'[m.writer].at /\ m.list = commands'[m.writer].list
               /\ m.name = "launched" => commands'[m.writer].kind = "launch"
               /\ m.name = "updated" => commands'[m.writer].kind = "fields"
               /\ m.name # "topping_prices_updated"
    BY <1>1, <1>4, <1>6, CommitFacts
  <2> QED  BY <2>1, <2>2 DEF NewsInv
<1>10. OpenInv'
  <2>1. (\E q \in Commands : Launched(q)) => \E q \in Commands : Launched(q)'
    BY <1>5
  <2>2. commands[r].active => \E q \in Commands : Launched(q)
    BY DEF StoreInv, OpenInv
  <2>3. store'.active \/ replica'.present \/ inflight' # {} \/ (\E t \in Toppings : replica'.prices[t] # None)
           => \E q \in Commands : Launched(q)'
    BY <1>2, <1>3, <1>5, <2>1, <2>2 DEF StoreInv, OpenInv
  <2>4. \A q \in Commands : commands'[q].active =>
          \E p \in Commands : Launched(p)' /\ (commands'[q].at # 0 => commands'[p].at <= commands'[q].at)
    BY <1>1, <1>5, CommitFacts DEF StoreInv, OpenInv
  <2>5. ASSUME "relaunch" \notin pricesAstray', NEW p \in Commands, NEW q \in Commands,
               Launched(p)', Launched(q)'
        PROVE  p = q
    <3>1. CASE ~launch
      BY <1>5, <2>5, <3>1 DEF SaveRow, StoreInv, OpenInv
    <3>2. CASE launch
      <4>1. \A o \in Commands : ~Launched(o)
        BY <2>5, <3>2 DEF SaveRow, Committed, Launched, Stored
      <4> QED  BY <1>5, <2>5, <4>1
    <3> QED  BY <3>1, <3>2
  <2> QED  BY <2>3, <2>4, <2>5 DEF OpenInv
<1>11. RowInv'
  <2>1. store'.writer = r /\ r # None
    BY <1>2, StoreMirrorsAssumption
  <2>2. replica.present => \E q \in Commands : Sets(q)' /\ replica.at = commands'[q].at
    BY <1>1, <1>5, CommitFacts DEF StoreInv, RowInv
  <2>3. replica.present /\ reader = "search" =>
         \E q \in Commands : Launched(q)' /\ commands'[q].at <= replica.at
    BY <1>1, <1>5, CommitFacts DEF StoreInv, RowInv
  <2> QED  BY <1>2, <1>5, <2>1, <2>2, <2>3 DEF RowInv
<1>12. FieldsInv'
  <2> SUFFICES ASSUME fieldsAstray' = {}
               PROVE  /\ \A q \in Commands \ {r} : Sets(q)' => commands'[q].at < commands'[r].at
                      /\ \/ \E m \in inflight' : m.writer = r
                         \/ replica'.present /\ replica'.at = commands'[r].at
                      /\ replica'.present /\ replica'.at = commands'[r].at => replica'.fields = r
    BY <1>2 DEF FieldsInv
  <2>1. store'.active /\ Newest(r, {"fields", "launch"})
    BY DEF SaveRow
  <2>2. \A q \in Commands : Sets(q) => commands[q].at < commands[r].at
    BY <2>1 DEF Newest, Committed, Sets, Stored
  <2>3. \E m \in inflight' : m.writer = r
    BY <1>2, <1>3, <1>4, <2>1
  <2>4. replica.present => replica.at # commands[r].at
    BY <2>2, StoreRanges DEF StoreInv, RowInv
  <2>5. \A q \in Commands \ {r} : Sets(q)' => commands'[q].at < commands'[r].at
    BY <1>1, <1>5, <2>2, CommitFacts, StoreRanges
  <2> QED  BY <1>1, <1>2, <2>3, <2>4, <2>5, CommitFacts
<1>13. PricesInv'
  <2>1. \A t \in Toppings : Shown(t)' <=> Shown(t)
    BY <1>2 DEF Shown
  <2>2. \A q \in Commands : ListAt(q)' = ListAt(q)
    BY <1>1, <1>2, CommitFacts DEF ListAt
  <2>3. ASSUME NEW t \in Toppings, Shown(t)
        PROVE  \E q \in Commands : Lists(q)' /\ replica.pricesAt[t] \in {0, commands'[q].at}
    BY <1>1, <1>5, <2>3, CommitFacts DEF StoreInv, PricesInv
  <2>4. CASE ~launch
    <3>1. ASSUME NEW w \in Commands, Latest(w) PROVE Latest(w)'
      <4>1. /\ Lists(w)' /\ commands'[w].list = price'
            /\ \A q \in Commands \ {w} : Lists(q)' => commands'[q].at < commands'[w].at
        BY <1>1, <1>2, <1>5, <2>4, <3>1, CommitFacts DEF Latest
      <4>2. \A t \in Toppings : TakenOrPending(w, t)'
        BY <1>2, <1>6, <2>1, <2>2, <3>1 DEF Latest, TakenOrPending
      <4> QED  BY <1>2, <2>1, <2>2, <3>1, <4>1, <4>2 DEF Latest
    <3>2. pricesAstray' = pricesAstray /\ \A q \in Commands : Launched(q)' <=> Launched(q)
      BY <1>5, <2>4 DEF SaveRow
    <3> QED  BY <1>2, <2>1, <2>3, <3>1, <3>2 DEF StoreInv, PricesInv
  <2>5. CASE launch
    <3>1. ASSUME pricesAstray' = {} PROVE Latest(r)'
      <4>1. commands[r].list = price /\ \A o \in Commands : ~Launched(o)
        BY <2>5, <3>1 DEF SaveRow, Committed, Launched, Stored
      <4>2. ~replica.present /\ \A t \in Toppings : replica.prices[t] = None
        BY <4>1 DEF StoreInv, OpenInv
      <4>3. \A q \in Commands : ~Lists(q)
        BY <4>1 DEF StoreInv, OpenInv, Lists, Launched
      <4>4. \E m \in inflight' : m.writer = r
        BY <1>3, <1>4, <2>5
      <4>5. \A t \in Toppings : ~Shown(t)'
        BY <1>2, <4>2 DEF Shown
      <4>6. Lists(r)' /\ commands'[r].list = price'
        BY <1>1, <1>2, <1>5, <2>5, <4>1, CommitFacts
      <4>7. \A q \in Commands \ {r} : Lists(q)' => commands'[q].at < commands'[r].at
        BY <1>1, <1>5, <4>3, CommitFacts, StoreRanges
      <4> QED  BY <4>4, <4>5, <4>6, <4>7 DEF Latest, TakenOrPending
    <3> QED  BY <1>2, <2>1, <2>3, <3>1 DEF StoreInv, PricesInv
  <2> QED  BY <2>4, <2>5
<1> QED  BY <1>1, <1>7, <1>8, <1>9, <1>10, <1>11, <1>12, <1>13, CommitFacts DEF StoreInv

LEMMA CommitPricesInv ==
  ASSUME StoreInv, NEW r \in Commands, CommitPrices(r)
  PROVE  StoreInv'
<1> DEFINE event == [name |-> "topping_prices_updated", writer |-> r,
                     list |-> commands[r].list, at |-> commands[r].at]
<1>1. Committing(r) /\ commands[r].kind = "prices" /\ commands[r] \in Command /\ commands[r].pc = "written"
  BY DEF CommitPrices, Committing, StoreInv, StoreTypeOK, ClockInv
<1>2. /\ price' = [t \in Toppings |-> IF t \in commands[r].own THEN r ELSE price[t]]
      /\ UNCHANGED <<reader, store, clock, replica, fieldsAstray>>
  BY DEF CommitPrices
<1>3. inflight' = IF commands[r].active THEN inflight \cup {event} ELSE inflight
  BY DEF CommitPrices, Announced
<1>4. event \in News /\ event.name = "topping_prices_updated" /\ event.writer = r
      /\ event.list = commands[r].list /\ event.at = commands[r].at
  BY <1>1 DEF News, Command
<1> HIDE DEF event
<1>5. /\ \A q \in Commands : Sets(q)' <=> Sets(q)
      /\ \A q \in Commands : Launched(q)' <=> Launched(q)
      /\ \A q \in Commands : Lists(q)' <=> Lists(q) \/ (q = r /\ commands[r].active)
      /\ ~Sets(r) /\ ~Launched(r) /\ ~Lists(r)
  BY <1>1, CommitFacts DEF Sets, Launched, Lists
<1>6. inflight \subseteq inflight' /\ \A m \in inflight' \ inflight : m = event /\ commands[r].active
  BY <1>3
<1>7. StoreTypeOK'
  <2>1. price' \in PriceList
    BY <1>2 DEF PriceList, Writers, StoreInv, StoreTypeOK
  <2>2. inflight' \in SUBSET News
    BY <1>4, <1>6 DEF StoreInv, StoreTypeOK
  <2>3. pricesAstray' \in SUBSET {"unannounced", "stamps", "overlap", "dead", "relaunch"}
    BY DEF CommitPrices, StoreInv, StoreTypeOK
  <2> QED  BY <1>1, <1>2, <2>1, <2>2, <2>3, CommitFacts DEF StoreInv, StoreTypeOK
<1>8. ListInv'
  <2>1. \A t \in Toppings : /\ price[t] # None => price'[t] # None
                            /\ t \in commands[r].own => price'[t] # None
    BY <1>2, StoreMirrorsAssumption
  <2>2. ASSUME NEW q \in Commands, NEW t \in Toppings, commands'[q].list[t] # None
        PROVE  \/ price'[t] # None
               \/ commands'[q].pc = "written" /\ t \in commands'[q].own
               \/ commands'[q].pc = "done" /\ commands'[q].at = 0
    <3>1. CASE q = r
      BY <1>1, <2>1, <2>2, <3>1, CommitFacts DEF StoreInv, ListInv
    <3>2. CASE q # r
      BY <1>1, <2>1, <2>2, <3>2, CommitFacts DEF StoreInv, ListInv
    <3> QED  BY <3>1, <3>2
  <2>3. \A t \in Toppings : replica'.prices[t] # None => price'[t] # None
    BY <1>2, <2>1 DEF StoreInv, ListInv
  <2> QED  BY <2>2, <2>3 DEF ListInv
<1>9. NewsInv'
  <2>1. ASSUME NEW m \in inflight
        PROVE  /\ Stored(m.writer)' /\ m.at = commands'[m.writer].at /\ m.list = commands'[m.writer].list
               /\ m.name = "launched" => commands'[m.writer].kind = "launch"
               /\ m.name = "updated" => commands'[m.writer].kind = "fields"
               /\ m.name = "topping_prices_updated" => Lists(m.writer)' /\ commands'[m.writer].kind = "prices"
    BY <1>1, <1>5, CommitFacts, StoreRanges DEF StoreInv, NewsInv
  <2>2. ASSUME NEW m \in inflight' \ inflight
        PROVE  /\ Stored(m.writer)' /\ m.at = commands'[m.writer].at /\ m.list = commands'[m.writer].list
               /\ m.name = "topping_prices_updated"
               /\ Lists(m.writer)' /\ commands'[m.writer].kind = "prices"
    BY <1>1, <1>4, <1>5, <1>6, CommitFacts
  <2> QED  BY <2>1, <2>2 DEF NewsInv
<1>10. OpenInv'
  <2>1. store'.active \/ replica'.present \/ inflight' # {} \/ (\E t \in Toppings : replica'.prices[t] # None)
           => \E q \in Commands : Launched(q)'
    BY <1>2, <1>3, <1>5 DEF StoreInv, OpenInv
  <2>2. \A q \in Commands : commands'[q].active =>
          \E p \in Commands : Launched(p)' /\ (commands'[q].at # 0 => commands'[p].at <= commands'[q].at)
    BY <1>1, <1>5, CommitFacts DEF StoreInv, OpenInv
  <2>3. "relaunch" \notin pricesAstray' => "relaunch" \notin pricesAstray
    BY DEF CommitPrices
  <2> QED  BY <1>5, <2>1, <2>2, <2>3 DEF StoreInv, OpenInv
<1>11. RowInv'
  <2>1. replica.present => \E q \in Commands : Sets(q)' /\ replica.at = commands'[q].at
    BY <1>1, <1>5, CommitFacts DEF StoreInv, RowInv
  <2>2. replica.present /\ reader = "search" =>
         \E q \in Commands : Launched(q)' /\ commands'[q].at <= replica.at
    BY <1>1, <1>5, CommitFacts DEF StoreInv, RowInv
  <2>3. store.writer \in Writers
    BY DEF StoreInv, StoreTypeOK
  <2>4. store'.writer # None => Sets(store.writer)'
    <3> SUFFICES ASSUME NEW w \in Commands, w = store.writer, w = store'.writer PROVE Sets(w)'
      BY <1>2, <2>3 DEF Writers, Sets, Stored
    <3> QED  BY <1>5, StoreMirrorsAssumption DEF StoreInv, RowInv
  <2>5. store.writer = None => \A q \in Commands : ~Sets(q)'
    BY <1>5 DEF StoreInv, RowInv
  <2> QED  BY <1>2, <2>1, <2>2, <2>4, <2>5 DEF RowInv
<1>12. FieldsInv'
  <2> SUFFICES ASSUME fieldsAstray = {}, NEW w \in Commands, w = store.writer
               PROVE  /\ \A q \in Commands \ {w} : Sets(q)' => commands'[q].at < commands'[w].at
                      /\ \/ \E m \in inflight' : m.writer = w
                         \/ replica.present /\ replica.at = commands'[w].at
                      /\ replica.present /\ replica.at = commands'[w].at => replica.fields = w
    BY <1>2 DEF FieldsInv, StoreInv, StoreTypeOK, Writers
  <2>1. /\ \A q \in Commands \ {w} : Sets(q) => commands[q].at < commands[w].at
        /\ (\E m \in inflight : m.writer = w) \/ (replica.present /\ replica.at = commands[w].at)
        /\ replica.present /\ replica.at = commands[w].at => replica.fields = w
    BY StoreMirrorsAssumption DEF StoreInv, FieldsInv
  <2> QED  BY <1>1, <1>5, <1>6, <2>1, CommitFacts
<1>13. PricesInv'
  <2>1. \A t \in Toppings : Shown(t)' <=> Shown(t)
    BY <1>2 DEF Shown
  <2>2. \A q \in Commands : ListAt(q)' = ListAt(q)
    BY <1>1, <1>2, CommitFacts DEF ListAt
  <2>3. ASSUME NEW t \in Toppings, Shown(t)
        PROVE  \E q \in Commands : Lists(q)' /\ replica.pricesAt[t] \in {0, commands'[q].at}
    BY <1>1, <1>5, <2>3, CommitFacts DEF StoreInv, PricesInv
  <2>4. ASSUME pricesAstray' = {} PROVE Latest(r)'
    <3>1. commands[r].active /\ Newest(r, {"prices", "launch"}) /\ commands[r].list = price'
      BY <2>4 DEF CommitPrices
    <3>2. \A q \in Commands : Lists(q) => commands[q].at < commands[r].at
      BY <3>1 DEF Newest, Committed, Lists, Stored
    <3>3. \E m \in inflight' : m.writer = r
      BY <1>3, <1>4, <3>1
    <3>4. commands[r].at \in Nat /\ commands[r].at > 0 /\ ListAt(r) = commands[r].at
      BY <1>1, CommitFacts, StoreRanges DEF ListAt
    <3>5. \A t \in Toppings : Shown(t) => replica.pricesAt[t] < ListAt(r)
      BY <3>2, <3>4, StoreRanges DEF StoreInv, PricesInv
    <3>6. Lists(r)' /\ commands'[r].list = price'
      BY <1>1, <1>5, <3>1, CommitFacts
    <3>7. \A q \in Commands \ {r} : Lists(q)' => commands'[q].at < commands'[r].at
      BY <1>1, <1>5, <3>2, CommitFacts, StoreRanges
    <3>8. \A t \in Toppings : Shown(t)' =>
            replica'.pricesAt[t] < ListAt(r)' /\ replica'.pricesAt[t] # ListAt(r)'
      BY <1>2, <2>1, <2>2, <3>4, <3>5, StoreRanges
    <3>9. \A t \in Toppings : Shown(t)' => replica'.pricesAt[t] <= ListAt(r)'
      BY <1>2, <2>1, <2>2, <3>4, <3>5, StoreRanges
    <3> QED  BY <3>3, <3>6, <3>7, <3>8, <3>9 DEF Latest, TakenOrPending
  <2> QED  BY <1>2, <2>1, <2>3, <2>4 DEF StoreInv, PricesInv
<1> QED  BY <1>1, <1>7, <1>8, <1>9, <1>10, <1>11, <1>12, <1>13, CommitFacts DEF StoreInv

-----------------------------------------------------------------------------
(* A step of the mirror: an event is taken, kept for another delivery, or  *)
(* dies.                                                                   *)
Takes(m) ==
  /\ inflight' \subseteq inflight /\ inflight \ {m} \subseteq inflight'
  /\ UNCHANGED <<reader, store, price, clock, commands>>
  /\ fieldsAstray \subseteq fieldsAstray' /\ pricesAstray \subseteq pricesAstray'
  /\ "relaunch" \in pricesAstray' => "relaunch" \in pricesAstray

LEMMA TakesFacts ==
  ASSUME StoreInv, NEW m \in inflight, Takes(m), StoreTypeOK',
         \A t \in Toppings : replica'.prices[t] \in {replica.prices[t], m.list[t]}
  PROVE  /\ ClockInv' /\ ListInv' /\ NewsInv' /\ OpenInv'
         /\ \A q \in Commands : /\ Sets(q)' <=> Sets(q)
                                /\ Launched(q)' <=> Launched(q)
                                /\ Lists(q)' <=> Lists(q)
                                /\ ListAt(q)' = ListAt(q)
<1> USE DEF Takes
<1>1. \A q \in Commands : /\ Sets(q)' <=> Sets(q)
                          /\ Launched(q)' <=> Launched(q)
                          /\ Lists(q)' <=> Lists(q)
                          /\ ListAt(q)' = ListAt(q)
  BY DEF Sets, Launched, Lists, Stored, ListAt
<1>2. ClockInv'
  BY DEF StoreInv, ClockInv
<1>3. ListInv'
  <2>1. m.writer \in Commands /\ Stored(m.writer) /\ m.list = commands[m.writer].list
    BY StoreRanges DEF StoreInv, NewsInv
  <2>2. \A t \in Toppings : m.list[t] # None => price[t] # None
    BY <2>1 DEF StoreInv, ListInv, Stored
  <2> QED  BY <2>2 DEF StoreInv, ListInv
<1>4. NewsInv'
  BY <1>1, StoreRanges DEF StoreInv, NewsInv, Stored
<1>5. OpenInv'
  BY <1>1 DEF StoreInv, OpenInv
<1> QED  BY <1>1, <1>2, <1>3, <1>4, <1>5

(* What a mirror makes of the fields: an event that has them is taken if   *)
(* it is newer.                                                            *)
FieldsTaken(m) ==
  /\ m.name # "topping_prices_updated"
  /\ replica'.present
  /\ IF ~replica.present \/ m.at > replica.at
     THEN replica'.fields = m.writer /\ replica'.at = m.at
     ELSE replica'.fields = replica.fields /\ replica'.at = replica.at

FieldsKept ==
  /\ replica'.present = replica.present
  /\ replica'.fields = replica.fields /\ replica'.at = replica.at

LEMMA FieldsStep ==
  ASSUME StoreInv, NEW m \in inflight, Takes(m),
         \/ /\ FieldsTaken(m)
            /\ reader = "search" /\ m.name = "updated" => replica.present
         \/ /\ FieldsKept
            /\ fieldsAstray' = {} => m.name = "topping_prices_updated",
         \A q \in Commands : (Sets(q)' <=> Sets(q)) /\ (Launched(q)' <=> Launched(q))
  PROVE  RowInv' /\ FieldsInv'
<1> USE DEF Takes
<1>1. /\ m.writer \in Commands /\ m.at = commands[m.writer].at
      /\ m.name \in {"launched", "updated", "topping_prices_updated"}
      /\ m.name # "topping_prices_updated" => Sets(m.writer)
      /\ m.name = "topping_prices_updated" => ~Sets(m.writer)
      /\ m.name = "launched" => Launched(m.writer)
  BY StoreRanges DEF StoreInv, NewsInv, News, Sets, Launched
<1>2. RowInv'
  <2>1. store.writer \in Writers
    BY DEF StoreInv, StoreTypeOK
  <2>2. store'.writer # None => Sets(store.writer)'
    <3> SUFFICES ASSUME NEW w \in Commands, w = store.writer, w = store'.writer PROVE Sets(w)'
      BY <2>1 DEF Writers, Sets, Stored
    <3> QED  BY StoreMirrorsAssumption DEF StoreInv, RowInv
  <2>3. store'.writer = None => \A q \in Commands : ~Sets(q)'
    BY DEF StoreInv, RowInv
  <2>4. replica'.present => \E q \in Commands : Sets(q)' /\ replica'.at = commands'[q].at
    BY <1>1 DEF StoreInv, RowInv, FieldsTaken, FieldsKept
  <2>5. ASSUME replica'.present, reader = "search"
        PROVE  \E q \in Commands : Launched(q)' /\ commands'[q].at <= replica'.at
    <3>1. CASE replica.present
      <4>1. PICK q \in Commands : Launched(q) /\ commands[q].at <= replica.at
        BY <2>5, <3>1 DEF StoreInv, RowInv
      <4> DEFINE a == replica.at
                 b == m.at
                 c == replica'.at
      <4>2. a \in Nat /\ b \in Nat
        BY StoreRanges
      <4>3. c = a \/ (c = b /\ b > a)
        BY <3>1 DEF FieldsTaken, FieldsKept
      <4> HIDE DEF a, b, c
      <4>4. a <= c
        BY <4>2, <4>3
      <4>5. replica.at <= replica'.at
        BY <4>4 DEF a, c
      <4>6. replica'.at \in Nat
        BY StoreRanges DEF FieldsTaken, FieldsKept
      <4>7. commands'[q].at <= replica'.at
        BY <4>1, <4>5, <4>6, StoreRanges
      <4> QED  BY <4>1, <4>7
    <3>2. CASE ~replica.present
      <4>1. m.name = "launched" /\ replica'.at = m.at
        BY <1>1, <2>5, <3>2 DEF FieldsTaken, FieldsKept
      <4> QED  BY <1>1, <4>1, StoreRanges
    <3> QED  BY <3>1, <3>2
  <2> QED  BY <2>2, <2>3, <2>4, <2>5 DEF RowInv
<1>3. FieldsInv'
  <2> SUFFICES ASSUME fieldsAstray' = {}, NEW w \in Commands, w = store.writer
               PROVE  /\ \A q \in Commands \ {w} : Sets(q)' => commands'[q].at < commands'[w].at
                      /\ \/ \E o \in inflight' : o.writer = w
                         \/ replica'.present /\ replica'.at = commands'[w].at
                      /\ replica'.present /\ replica'.at = commands'[w].at => replica'.fields = w
    BY DEF FieldsInv, StoreInv, StoreTypeOK, Writers
  <2>1. /\ \A q \in Commands \ {w} : Sets(q) => commands[q].at < commands[w].at
        /\ (\E o \in inflight : o.writer = w) \/ (replica.present /\ replica.at = commands[w].at)
        /\ replica.present /\ replica.at = commands[w].at => replica.fields = w
        /\ Sets(w)
    BY StoreMirrorsAssumption DEF StoreInv, FieldsInv, RowInv
  <2>2. replica.present => replica.at <= commands[w].at
    BY <2>1, StoreRanges DEF StoreInv, RowInv
  <2>3. CASE FieldsKept /\ m.name = "topping_prices_updated"
    <3>1. m.writer # w
      BY <1>1, <2>1, <2>3
    <3> QED  BY <2>1, <2>3, <3>1 DEF FieldsKept
  <2>4. CASE FieldsTaken(m)
    <3>1. m.at <= commands[w].at /\ (m.at = commands[w].at => m.writer = w)
      BY <1>1, <2>1, <2>4, StoreRanges DEF FieldsTaken, StoreInv, ClockInv, Sets, Stored
    <3>2. CASE m.writer = w
      BY <1>1, <2>1, <2>2, <2>4, <3>1, <3>2, StoreRanges DEF FieldsTaken
    <3>3. CASE m.writer # w
      BY <1>1, <2>1, <2>2, <2>4, <3>1, <3>3, StoreRanges DEF FieldsTaken
    <3> QED  BY <3>2, <3>3
  <2> QED  BY <2>1, <2>3, <2>4
<1> QED  BY <1>2, <1>3

(* Among announced lists the order of their times is that of the mirror's, *)
(* unless the restaurant was launched again.                               *)
LEMMA ListOrder ==
  ASSUME StoreInv, "relaunch" \notin pricesAstray,
         NEW w \in Commands, Latest(w), NEW q \in Commands, Lists(q)
  PROVE  /\ ListAt(q) \in Nat /\ ListAt(w) \in Nat
         /\ ListAt(q) <= ListAt(w)
         /\ ListAt(q) = ListAt(w) => q = w
<1>1. /\ commands[q].at \in Nat /\ commands[w].at \in Nat
      /\ commands[q].at <= commands[w].at /\ Lists(w)
      /\ commands[q].at # 0 /\ commands[w].at # 0
      /\ commands[q].at = commands[w].at => q = w
  BY StoreRanges DEF Latest, Lists, Stored, StoreInv, ClockInv
<1>2. Launched(w) /\ ~Launched(q) => FALSE
  <2> SUFFICES ASSUME Launched(w), ~Launched(q) PROVE FALSE
    OBVIOUS
  <2>1. commands[q].active
    BY <1>1 DEF Lists, Launched
  <2>2. PICK p \in Commands : Launched(p) /\ commands[p].at <= commands[q].at
    BY <1>1, <2>1 DEF StoreInv, OpenInv
  <2>3. p = w
    BY <2>2 DEF StoreInv, OpenInv
  <2> QED  BY <1>1, <2>2, <2>3
<1>3. Launched(w) /\ Launched(q) => q = w
  BY DEF StoreInv, OpenInv
<1>4. \A o \in {q, w} : ListAt(o) = IF reader = "search" /\ Launched(o) THEN 0 ELSE commands[o].at
  BY <1>1 DEF ListAt, Launched, Lists
<1>5. CASE reader = "search" /\ Launched(w)
  BY <1>1, <1>2, <1>3, <1>4, <1>5
<1>6. CASE ~(reader = "search" /\ Launched(w))
  BY <1>1, <1>4, <1>6
<1> QED  BY <1>5, <1>6

(* What a mirror makes of a price: it keeps it, or takes that of a list    *)
(* that is newer; and an event that is done with was taken or overtaken.   *)
PriceKept(t) ==
  /\ Shown(t)' <=> Shown(t)
  /\ replica'.prices[t] = replica.prices[t] /\ replica'.pricesAt[t] = replica.pricesAt[t]

PriceTaken(m, t) ==
  /\ Lists(m.writer) /\ Shown(t)'
  /\ replica'.prices[t] = m.list[t] /\ replica'.pricesAt[t] = ListAt(m.writer)
  /\ pricesAstray = {} => ~Shown(t) \/ replica.pricesAt[t] < ListAt(m.writer)

LEMMA PricesStep ==
  ASSUME StoreInv, NEW m \in inflight, Takes(m), StoreTypeOK',
         \A t \in Toppings : PriceKept(t) \/ PriceTaken(m, t),
         reader = "search" => \A t, u \in Toppings : replica'.pricesAt[t] = replica'.pricesAt[u],
         m \notin inflight' /\ Lists(m.writer) /\ pricesAstray' = {} => \A t \in Toppings :
           \/ reader = "order" /\ m.list[t] = None
           \/ Shown(t)' /\ replica'.pricesAt[t] >= ListAt(m.writer)
  PROVE  PricesInv'
<1> USE DEF Takes
<1>1. \A t \in Toppings : replica'.prices[t] \in {replica.prices[t], m.list[t]}
  BY DEF PriceKept, PriceTaken
<1>2. \A q \in Commands : /\ Launched(q)' <=> Launched(q)
                          /\ Lists(q)' <=> Lists(q)
                          /\ ListAt(q)' = ListAt(q)
  BY <1>1, TakesFacts
<1>3. m.writer \in Commands /\ m.list = commands[m.writer].list
  BY StoreRanges DEF StoreInv, NewsInv
<1>4. ASSUME NEW t \in Toppings, Shown(t)'
      PROVE  \E q \in Commands : Lists(q)' /\ replica'.pricesAt[t] \in {0, commands'[q].at}
  <2>1. CASE PriceKept(t)
    BY <1>2, <1>4, <2>1 DEF PriceKept, StoreInv, PricesInv
  <2>2. CASE PriceTaken(m, t)
    BY <1>2, <1>3, <2>2 DEF PriceTaken, ListAt
  <2> QED  BY <2>1, <2>2
<1>5. ASSUME pricesAstray' = {}, NEW w \in Commands, Latest(w) PROVE Latest(w)'
  <2>1. pricesAstray = {} /\ "relaunch" \notin pricesAstray /\ Lists(w) /\ commands[w].list = price
    BY <1>5 DEF Latest
  <2>2. /\ ListAt(w) \in Nat
        /\ Lists(m.writer) => /\ ListAt(m.writer) \in Nat /\ ListAt(m.writer) <= ListAt(w)
                              /\ ListAt(m.writer) = ListAt(w) => m.writer = w
    BY <1>3, <1>5, <2>1, ListOrder
  <2>3. ASSUME NEW t \in Toppings
        PROVE  /\ Shown(t)' => replica'.pricesAt[t] <= ListAt(w)
               /\ Shown(t)' /\ replica'.pricesAt[t] = ListAt(w) => replica'.prices[t] = price[t]
               /\ Shown(t) /\ replica.pricesAt[t] = ListAt(w) =>
                    Shown(t)' /\ replica'.pricesAt[t] = ListAt(w)
    <3>1. CASE PriceKept(t)
      BY <1>5, <3>1 DEF Latest, PriceKept
    <3>2. CASE PriceTaken(m, t)
      BY <1>3, <2>1, <2>2, <3>2, StoreRanges DEF PriceTaken
    <3> QED  BY <3>1, <3>2
  <2>4. ASSUME NEW t \in Toppings PROVE TakenOrPending(w, t)'
    <3>1. CASE \E o \in inflight' : o.writer = w
      BY <3>1 DEF TakenOrPending
    <3>2. CASE m \notin inflight' /\ m.writer = w
      <4>1. \/ reader = "order" /\ price[t] = None
            \/ Shown(t)' /\ replica'.pricesAt[t] >= ListAt(w)
        BY <1>3, <1>5, <2>1, <3>2
      <4>2. replica'.pricesAt[t] \in Nat
        <5>1. \A q \in Commands : commands[q].at \in Nat
          BY StoreRanges
        <5> QED  BY <2>2, StoreRanges DEF PriceKept, PriceTaken
      <4> QED  BY <1>2, <2>2, <2>3, <4>1, <4>2 DEF TakenOrPending
    <3>3. CASE ~\E o \in inflight : o.writer = w
      BY <1>2, <1>5, <2>3, <3>3 DEF Latest, TakenOrPending
    <3> QED  BY <3>1, <3>2, <3>3
  <2>5. /\ Lists(w)' /\ commands'[w].list = price'
        /\ \A q \in Commands \ {w} : Lists(q)' => commands'[q].at < commands'[w].at
    BY <1>2, <1>5 DEF Latest
  <2> QED  BY <1>2, <2>3, <2>4, <2>5 DEF Latest
<1>6. ASSUME pricesAstray' = {}, \E q \in Commands : Launched(q)'
      PROVE  \E w \in Commands : Latest(w)'
  BY <1>2, <1>5, <1>6 DEF StoreInv, PricesInv
<1> QED  BY <1>4, <1>6 DEF PricesInv

LEMMA MirrorStep ==
  ASSUME StoreInv, NEW m \in inflight, Takes(m), StoreTypeOK',
         \/ /\ FieldsTaken(m)
            /\ reader = "search" /\ m.name = "updated" => replica.present
         \/ /\ FieldsKept
            /\ fieldsAstray' = {} => m.name = "topping_prices_updated",
         \A t \in Toppings : PriceKept(t) \/ PriceTaken(m, t),
         reader = "search" => \A t, u \in Toppings : replica'.pricesAt[t] = replica'.pricesAt[u],
         m \notin inflight' /\ Lists(m.writer) /\ pricesAstray' = {} => \A t \in Toppings :
           \/ reader = "order" /\ m.list[t] = None
           \/ Shown(t)' /\ replica'.pricesAt[t] >= ListAt(m.writer)
  PROVE  StoreInv'
<1>1. \A t \in Toppings : replica'.prices[t] \in {replica.prices[t], m.list[t]}
  BY DEF PriceKept, PriceTaken
<1>2. /\ ClockInv' /\ ListInv' /\ NewsInv' /\ OpenInv'
      /\ \A q \in Commands : (Sets(q)' <=> Sets(q)) /\ (Launched(q)' <=> Launched(q))
  BY <1>1, TakesFacts
<1>3. RowInv' /\ FieldsInv'
  BY <1>2, FieldsStep
<1>4. PricesInv'
  BY PricesStep
<1> QED  BY <1>2, <1>3, <1>4 DEF StoreInv

(* What is known of an event in flight, and of the mirror.                 *)
LEMMA NewsFacts ==
  ASSUME StoreInv, NEW m \in inflight
  PROVE  /\ m.writer \in Commands /\ m.at \in Stamps /\ m.at \in Nat /\ m.list \in PriceList
         /\ Stored(m.writer) /\ m.at = commands[m.writer].at
         /\ m.name \in {"launched", "updated", "topping_prices_updated"}
         /\ m.name = "launched" => Launched(m.writer) /\ Lists(m.writer)
         /\ m.name = "updated" => ~Lists(m.writer)
         /\ m.name = "topping_prices_updated" => Lists(m.writer) /\ ListAt(m.writer) = m.at
         /\ replica \in Replica /\ reader \in {"search", "order"}
BY StoreRanges DEF StoreInv, StoreTypeOK, NewsInv, News, Launched, Lists, ListAt

LEMMA IndexLaunchedInv ==
  ASSUME StoreInv, NEW m \in inflight, IndexLaunched(m)
  PROVE  StoreInv'
<1> DEFINE newer == ~replica.present \/ m.at > replica.at
           snapshot == [present |-> TRUE, fields |-> m.writer, at |-> m.at,
                        prices |-> m.list, pricesAt |-> [t \in Toppings |-> 0]]
<1>1. /\ reader = "search" /\ m.name = "launched" /\ Launched(m.writer) /\ Lists(m.writer)
      /\ ListAt(m.writer) = 0
  BY NewsFacts DEF IndexLaunched, ListAt, Launched
<1>2. /\ newer => replica' = snapshot
      /\ ~newer => replica' = replica
  BY DEF IndexLaunched, Snapshot
<1>3. Takes(m) /\ UNCHANGED <<fieldsAstray, pricesAstray>>
  BY DEF IndexLaunched, Handled, Takes
<1>4. snapshot \in Replica
  <2>1. 0 \in Stamps
    BY StoreRanges DEF Stamps
  <2> QED  BY <2>1, NewsFacts DEF Replica, Writers
<1>5. StoreTypeOK'
  BY <1>2, <1>3, <1>4 DEF StoreInv, StoreTypeOK, Takes
<1>6. FieldsTaken(m)
  BY <1>1, <1>2 DEF FieldsTaken
<1>7. ASSUME NEW t \in Toppings PROVE PriceKept(t) \/ PriceTaken(m, t)
  <2>1. CASE ~newer
    BY <1>2, <1>3, <2>1 DEF PriceKept, Shown, Takes
  <2>2. CASE newer
    <3>1. pricesAstray = {} => ~replica.present
      <4> SUFFICES ASSUME pricesAstray = {}, replica.present PROVE FALSE
        OBVIOUS
      <4>1. PICK q \in Commands : Launched(q) /\ commands[q].at <= replica.at
        BY <1>1 DEF StoreInv, RowInv
      <4>2. q = m.writer
        BY <1>1, <4>1, NewsFacts DEF StoreInv, OpenInv
      <4> QED  BY <2>2, <4>1, <4>2, NewsFacts, StoreRanges
    <3> QED  BY <1>1, <1>2, <1>3, <2>2, <3>1 DEF PriceTaken, Shown, Takes
  <2> QED  BY <2>1, <2>2
<1>8. \A t, u \in Toppings : replica'.pricesAt[t] = replica'.pricesAt[u]
  BY <1>1, <1>2 DEF StoreInv, PricesInv
<1>9. \A t \in Toppings : Shown(t)' /\ replica'.pricesAt[t] >= ListAt(m.writer)
  <2>1. \A t \in Toppings : replica'.pricesAt[t] \in Nat
    BY <1>2, StoreRanges
  <2>2. replica'.present
    BY <1>2
  <2> QED  BY <1>1, <1>3, <2>1, <2>2 DEF Shown, Takes
<1> HIDE DEF newer, snapshot
<1> QED  BY <1>3, <1>5, <1>6, <1>7, <1>8, <1>9, <1>1, MirrorStep

LEMMA IndexUpdatedInv ==
  ASSUME StoreInv, NEW m \in inflight, IndexUpdated(m)
  PROVE  StoreInv'
<1>1. reader = "search" /\ m.name = "updated" /\ ~Lists(m.writer) /\ replica.present
  BY NewsFacts DEF IndexUpdated
<1>2. replica' = IF m.at > replica.at
                 THEN [present |-> TRUE, fields |-> m.writer, at |-> m.at,
                       prices |-> replica.prices, pricesAt |-> replica.pricesAt]
                 ELSE replica
  <2>1. replica \in Replica /\ replica' = Fields(m)
    BY NewsFacts DEF IndexUpdated
  <2>2. CASE m.at > replica.at
    <3>1. replica' = [replica EXCEPT !.present = TRUE, !.fields = m.writer, !.at = m.at]
      BY <2>1, <2>2 DEF Fields
    <3>2. replica' = [present |-> TRUE, fields |-> m.writer, at |-> m.at,
                      prices |-> replica.prices, pricesAt |-> replica.pricesAt]
      BY <2>1, <3>1 DEF Replica
    <3> QED  BY <2>2, <3>2
  <2>3. CASE ~(m.at > replica.at)
    BY <1>1, <2>1, <2>3 DEF Fields, Replica
  <2> QED  BY <2>2, <2>3
<1>3. Takes(m) /\ UNCHANGED <<fieldsAstray, pricesAstray>>
  BY DEF IndexUpdated, Handled, Takes
<1>4. replica' \in Replica
  BY <1>2, NewsFacts DEF Replica, Writers
<1>5. StoreTypeOK'
  BY <1>3, <1>4 DEF StoreInv, StoreTypeOK, Takes
<1>6. FieldsTaken(m)
  BY <1>1, <1>2 DEF FieldsTaken
<1>7. \A t \in Toppings : PriceKept(t)
  BY <1>1, <1>2, <1>3 DEF PriceKept, Shown, Takes
<1>8. \A t, u \in Toppings : replica'.pricesAt[t] = replica'.pricesAt[u]
  BY <1>1, <1>2 DEF StoreInv, PricesInv
<1> QED  BY <1>1, <1>3, <1>5, <1>6, <1>7, <1>8, MirrorStep

LEMMA IndexPricesInv ==
  ASSUME StoreInv, NEW m \in inflight, IndexPrices(m)
  PROVE  StoreInv'
<1> DEFINE newer == \A t \in Toppings : m.at > replica.pricesAt[t]
<1>1. /\ reader = "search" /\ m.name = "topping_prices_updated" /\ replica.present
      /\ Lists(m.writer) /\ ListAt(m.writer) = m.at
  BY NewsFacts DEF IndexPrices
<1>2. /\ newer => replica' = [present |-> TRUE, fields |-> replica.fields, at |-> replica.at,
                              prices |-> m.list, pricesAt |-> [t \in Toppings |-> m.at]]
      /\ ~newer => replica' = replica
  BY <1>1, NewsFacts DEF IndexPrices, Replica
<1>3. Takes(m) /\ UNCHANGED <<fieldsAstray, pricesAstray>>
  BY DEF IndexPrices, Handled, Takes
<1>4. replica' \in Replica
  <2>1. CASE newer
    <3>1. /\ [t \in Toppings |-> m.at] \in [Toppings -> Stamps]
          /\ m.list \in PriceList /\ replica.fields \in Writers /\ replica.at \in Stamps
      BY NewsFacts DEF Replica
    <3>2. [present |-> TRUE, fields |-> replica.fields, at |-> replica.at,
           prices |-> m.list, pricesAt |-> [t \in Toppings |-> m.at]] \in Replica
      BY <3>1 DEF Replica
    <3> HIDE DEF newer
    <3> QED  BY <1>2, <2>1, <3>2
  <2>2. CASE ~newer
    BY <1>2, <2>2, NewsFacts
  <2> QED  BY <2>1, <2>2
<1>5. StoreTypeOK'
  BY <1>3, <1>4 DEF StoreInv, StoreTypeOK, Takes
<1>6. FieldsKept
  <2> HIDE DEF newer
  <2>1. CASE newer
    <3>1. replica.present = TRUE
      BY <1>1, NewsFacts DEF Replica
    <3>2. replica'.present = TRUE /\ replica'.fields = replica.fields /\ replica'.at = replica.at
      BY <1>2, <2>1
    <3> QED  BY <3>1, <3>2 DEF FieldsKept
  <2>2. CASE ~newer
    BY <1>2, <2>2 DEF FieldsKept
  <2> QED  BY <2>1, <2>2
<1>7. \A t \in Toppings : PriceKept(t) \/ PriceTaken(m, t)
  BY <1>1, <1>2, <1>3 DEF PriceKept, PriceTaken, Shown, Takes
<1>8. \A t, u \in Toppings : replica'.pricesAt[t] = replica'.pricesAt[u]
  BY <1>1, <1>2 DEF StoreInv, PricesInv
<1>9. \A t \in Toppings : Shown(t)' /\ replica'.pricesAt[t] >= ListAt(m.writer)
  <2>1. replica'.present
    BY <1>1, <1>2
  <2>2. CASE newer
    BY <1>1, <1>2, <1>3, <2>1, <2>2, NewsFacts DEF Shown, Takes
  <2>3. CASE ~newer
    <3>1. PICK u \in Toppings : ~(m.at > replica.pricesAt[u])
      BY <2>3
    <3>2. \A t \in Toppings : replica.pricesAt[t] = replica.pricesAt[u]
      BY <1>1 DEF StoreInv, PricesInv
    <3>3. \A t \in Toppings : replica.pricesAt[t] >= m.at
      BY <3>1, <3>2, NewsFacts, StoreRanges
    <3> QED  BY <1>1, <1>2, <1>3, <2>1, <2>3, <3>3 DEF Shown, Takes
  <2> QED  BY <2>2, <2>3
<1> HIDE DEF newer
<1> QED  BY <1>1, <1>3, <1>5, <1>6, <1>7, <1>8, <1>9, MirrorStep

LEMMA StoreEventInv ==
  ASSUME StoreInv, NEW m \in inflight, NEW some \in SUBSET Toppings, StoreEvent(m, some)
  PROVE  StoreInv'
<1> DEFINE base   == IF m.name = "topping_prices_updated" THEN replica ELSE Fields(m)
           listed == [t \in Toppings |-> IF t \in some /\ Upserts(m, t) THEN m.list[t] ELSE base.prices[t]]
           times  == [t \in Toppings |-> IF t \in some /\ Upserts(m, t) THEN m.at ELSE base.pricesAt[t]]
<1>1. /\ reader = "order" /\ replica' = Topped(base, m, some)
      /\ m.name = "updated" => some = {}
      /\ m \notin inflight' => m.name = "updated" \/ some = Toppings
  BY DEF StoreEvent
<1>2. Takes(m) /\ UNCHANGED <<fieldsAstray, pricesAstray>>
  BY DEF StoreEvent, Handled, Takes
<1>3. /\ base \in Replica
      /\ base.prices = replica.prices /\ base.pricesAt = replica.pricesAt
      /\ m.name = "topping_prices_updated" => base = replica
      /\ m.name # "topping_prices_updated" =>
           /\ base.present = TRUE
           /\ IF ~replica.present \/ m.at > replica.at
              THEN base.fields = m.writer /\ base.at = m.at
              ELSE base.fields = replica.fields /\ base.at = replica.at
  <2>1. replica \in Replica /\ m.writer \in Writers /\ m.at \in Stamps
    BY NewsFacts DEF Writers
  <2>2. CASE m.name = "topping_prices_updated"
    BY <2>1, <2>2
  <2>3. CASE m.name # "topping_prices_updated" /\ (~replica.present \/ m.at > replica.at)
    <3>1. base = [replica EXCEPT !.present = TRUE, !.fields = m.writer, !.at = m.at]
      BY <2>3 DEF Fields
    <3>2. base = [present |-> TRUE, fields |-> m.writer, at |-> m.at,
                  prices |-> replica.prices, pricesAt |-> replica.pricesAt]
      BY <2>1, <3>1 DEF Replica
    <3>3. [present |-> TRUE, fields |-> m.writer, at |-> m.at,
           prices |-> replica.prices, pricesAt |-> replica.pricesAt] \in Replica
      BY <2>1 DEF Replica
    <3>4. base \in Replica
      BY <3>2, <3>3
    <3> QED  BY <2>3, <3>2, <3>4
  <2>4. CASE m.name # "topping_prices_updated" /\ ~(~replica.present \/ m.at > replica.at)
    <3>1. base = replica /\ replica.present
      BY <2>4 DEF Fields
    <3>2. replica.present = TRUE
      BY <2>1, <3>1 DEF Replica
    <3> QED  BY <2>1, <2>4, <3>1, <3>2
  <2> QED  BY <2>2, <2>3, <2>4
<1> HIDE DEF base
<1>4. replica' = [present |-> base.present, fields |-> base.fields, at |-> base.at,
                  prices |-> listed, pricesAt |-> times]
  <2>1. replica' = [base EXCEPT !.prices = listed, !.pricesAt = times]
    BY <1>1, <1>3 DEF Topped, Replica
  <2> HIDE DEF listed, times
  <2> QED  BY <1>3, <2>1 DEF Replica
<1>5. StoreTypeOK'
  <2>1. listed \in PriceList /\ times \in [Toppings -> Stamps]
    BY <1>3, NewsFacts DEF Replica, PriceList
  <2> HIDE DEF listed, times
  <2>2. replica' \in Replica
    BY <1>3, <1>4, <2>1 DEF Replica
  <2> QED  BY <1>2, <2>2 DEF StoreInv, StoreTypeOK, Takes
<1>6. \/ FieldsTaken(m) /\ m.name # "topping_prices_updated"
      \/ FieldsKept /\ m.name = "topping_prices_updated"
  <2>1. replica'.present = base.present /\ replica'.fields = base.fields /\ replica'.at = base.at
    BY <1>4
  <2>2. CASE m.name = "topping_prices_updated"
    BY <1>3, <2>1, <2>2 DEF FieldsKept
  <2>3. CASE m.name # "topping_prices_updated"
    <3>1. replica'.present
      BY <1>3, <2>1, <2>3
    <3> QED  BY <1>3, <2>1, <2>3, <3>1 DEF FieldsTaken
  <2> QED  BY <2>2, <2>3
<1>7. \A t \in Toppings :
        /\ t \in some /\ Upserts(m, t) => replica'.prices[t] = m.list[t] /\ replica'.pricesAt[t] = m.at
        /\ ~(t \in some /\ Upserts(m, t)) =>
             replica'.prices[t] = replica.prices[t] /\ replica'.pricesAt[t] = replica.pricesAt[t]
  BY <1>3, <1>4
<1> HIDE DEF listed, times
<1>8. \A t \in Toppings : /\ Shown(t) <=> replica.prices[t] # None
                          /\ Shown(t)' <=> replica'.prices[t] # None
  BY <1>1, <1>2 DEF Shown, Takes
<1>9. some # {} => Lists(m.writer) /\ ListAt(m.writer) = m.at
  BY <1>1, NewsFacts DEF ListAt
<1>10. ASSUME NEW t \in Toppings PROVE PriceKept(t) \/ PriceTaken(m, t)
  <2>1. CASE t \in some /\ Upserts(m, t)
    BY <1>7, <1>8, <1>9, <2>1 DEF PriceTaken, Upserts
  <2>2. CASE ~(t \in some /\ Upserts(m, t))
    BY <1>7, <1>8, <2>2 DEF PriceKept
  <2> QED  BY <2>1, <2>2
<1>11. ASSUME m \notin inflight', Lists(m.writer), NEW t \in Toppings
       PROVE  \/ reader = "order" /\ m.list[t] = None
              \/ Shown(t)' /\ replica'.pricesAt[t] >= ListAt(m.writer)
  <2>1. some = Toppings
    BY <1>1, <1>11, NewsFacts
  <2>2. CASE Upserts(m, t)
    BY <1>7, <1>8, <1>9, <2>1, <2>2, NewsFacts DEF Upserts
  <2>3. CASE ~Upserts(m, t)
    BY <1>1, <1>7, <1>8, <1>9, <2>1, <2>3, NewsFacts, StoreRanges DEF Upserts
  <2> QED  BY <2>2, <2>3
<1> QED  BY <1>1, <1>2, <1>5, <1>6, <1>10, <1>11, MirrorStep

LEMMA DiesInv ==
  ASSUME StoreInv, NEW m \in inflight, Dies(m)
  PROVE  StoreInv'
<1>1. Takes(m) /\ UNCHANGED replica
  BY DEF Dies, Takes
<1>2. StoreTypeOK'
  BY DEF Dies, StoreInv, StoreTypeOK
<1>3. FieldsKept /\ (fieldsAstray' = {} => m.name = "topping_prices_updated")
  BY DEF Dies, FieldsKept
<1>4. \A t \in Toppings : PriceKept(t)
  BY <1>1 DEF PriceKept, Shown, Takes
<1>5. reader = "search" => \A t, u \in Toppings : replica'.pricesAt[t] = replica'.pricesAt[u]
  BY <1>1 DEF StoreInv, PricesInv
<1>6. pricesAstray' = {} => ~Lists(m.writer)
  BY NewsFacts DEF Dies
<1> QED  BY <1>1, <1>2, <1>3, <1>4, <1>5, <1>6, MirrorStep

LEMMA StoreStepInv == StoreInv /\ [StoreNext]_storeVars => StoreInv'
<1> SUFFICES ASSUME StoreInv, [StoreNext]_storeVars PROVE StoreInv'
  OBVIOUS
<1>1. CASE \E r \in Commands, kind \in Kinds, own \in SUBSET Toppings : LoadStore(r, kind, own)
  BY <1>1, LoadStoreInv
<1>2. CASE \E r \in Commands : ListPrices(r) \/ TakeTime(r) \/ WritePrices(r) \/ CommandFails(r)
  BY <1>2, ListPricesInv, TakeTimeInv, WritePricesInv, CommandFailsInv
<1>3. CASE \E r \in Commands : SaveRow(r) \/ CommitPrices(r)
  BY <1>3, SaveRowInv, CommitPricesInv
<1>4. CASE \E m \in inflight : IndexLaunched(m) \/ IndexUpdated(m) \/ IndexPrices(m)
  BY <1>4, IndexLaunchedInv, IndexUpdatedInv, IndexPricesInv
<1>5. CASE \E m \in inflight, some \in SUBSET Toppings : StoreEvent(m, some)
  BY <1>5, StoreEventInv
<1>6. CASE \E m \in inflight : Dies(m)
  BY <1>6, DiesInv
<1>7. CASE UNCHANGED storeVars
  <2> USE <1>7 DEF storeVars
  <2>1. StoreTypeOK' /\ ClockInv' /\ ListInv'
    BY DEF StoreInv, StoreTypeOK, ClockInv, ListInv
  <2>2. NewsInv' /\ OpenInv' /\ RowInv' /\ FieldsInv'
    BY DEF StoreInv, NewsInv, OpenInv, RowInv, FieldsInv, Lists, Launched, Sets, Stored
  <2>3. PricesInv'
    BY DEF StoreInv, PricesInv, Latest, TakenOrPending, Shown, ListAt, Lists, Launched, Stored
  <2> QED  BY <2>1, <2>2, <2>3 DEF StoreInv
<1> QED  BY <1>1, <1>2, <1>3, <1>4, <1>5, <1>6, <1>7 DEF StoreNext

LEMMA StoreAlways == StoreSpec => []StoreInv
  BY StoreInitInv, StoreStepInv, PTL DEF StoreSpec

(* Every reachable state of the restaurant, its events and its mirror is   *)
(* well typed, for any commands and toppings.                              *)
THEOREM Store_TypeCorrect == StoreSpec => []StoreTypeOK
<1>1. StoreInv => StoreTypeOK
  BY DEF StoreInv
<1> QED  BY <1>1, StoreAlways, PTL

(* A mirror whose events are all out of the way shows the fields of the    *)
(* last save, but for the reasons FieldsSettle names.                      *)
THEOREM Fields_Settle == StoreSpec => []FieldsSettle
<1>1. StoreInv => FieldsSettle
  <2> SUFFICES ASSUME StoreInv, replica.present, fieldsAstray = {},
                      \A m \in inflight : m.name = "topping_prices_updated"
               PROVE  replica.fields = store.writer
    BY DEF FieldsSettle
  <2>1. store.writer # None
    BY DEF StoreInv, RowInv
  <2>2. Sets(store.writer)
    BY <2>1 DEF StoreInv, RowInv
  <2>3. \A m \in inflight : m.writer # store.writer
    BY <2>2 DEF StoreInv, NewsInv, Lists, Sets
  <2> QED  BY <2>1, <2>3 DEF StoreInv, FieldsInv
<1> QED  BY <1>1, StoreAlways, PTL

(* A mirror whose events are all out of the way shows the last price of    *)
(* every topping, but for the reasons PricesSettle names.                  *)
THEOREM Prices_Settle == StoreSpec => []PricesSettle
<1>1. StoreInv => PricesSettle
  <2> SUFFICES ASSUME StoreInv, replica.present, pricesAstray = {},
                      \A m \in inflight : m.name = "updated"
               PROVE  replica.prices = price
    BY DEF PricesSettle
  <2>1. PICK w \in Commands : Latest(w)
    BY DEF StoreInv, OpenInv, PricesInv
  <2>2. \A m \in inflight : m.writer # w
    BY <2>1, NewsFacts DEF Latest
  <2>3. ASSUME NEW t \in Toppings PROVE replica.prices[t] = price[t]
    <3>1. /\ TakenOrPending(w, t)
          /\ Shown(t) /\ replica.pricesAt[t] = ListAt(w) => replica.prices[t] = price[t]
      BY <2>1 DEF Latest
    <3>2. CASE reader = "order" /\ price[t] = None
      BY <3>2 DEF StoreInv, ListInv
    <3>3. CASE Shown(t) /\ replica.pricesAt[t] = ListAt(w)
      BY <3>1, <3>3
    <3> QED  BY <2>2, <3>1, <3>2, <3>3 DEF TakenOrPending
  <2>4. replica.prices \in PriceList /\ price \in PriceList
    BY DEF StoreInv, StoreTypeOK, Replica
  <2> QED  BY <2>3, <2>4 DEF PriceList
<1> QED  BY <1>1, StoreAlways, PTL
=============================================================================
