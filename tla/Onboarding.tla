----------------------------- MODULE Onboarding -----------------------------
(***************************************************************************)
(* A restaurant from its first event to its launch (restaurant-service):   *)
(* the checklist the owner completes, the review, the admin's approval and *)
(* the launch.  Every command reads the whole row, changes it in memory    *)
(* and later saves the whole row in a transaction of its own, so that two  *)
(* requests overlap between one's read and its save.                       *)
(***************************************************************************)
EXTENDS Naturals

CONSTANTS Requests,  \* requests in flight, each running one command at a time
          Details,   \* checklist items that are columns of the row
          Tags,      \* the command that sets a column no item stands for
          Payouts,   \* what an owner may submit as payout details
          NoPayout,
          NoRow,
          MaxCount   \* events of one kind are told apart up to this number

ASSUME OnboardingAssumption ==
  /\ Details \subseteq {"contact", "address", "delivery", "openinghours"}
  /\ Tags \notin Details \cup {"basic", "payout", "approve", "launch"}
  /\ NoPayout \notin Payouts
  /\ MaxCount \in Nat \ {0}

VARIABLES
  row,        \* the row of restaurants, or NoRow
  payout,     \* the rows of payout_details, by status
  announced,  \* events written to the outbox, by name
  pc, cmd,    \* each request: "idle", or "loaded" and its command
  res         \* the copy of the row it loaded and changes

vars == <<row, payout, announced, pc, cmd, res>>

Required == {"basic", "payout"} \cup Details
Status   == {"draft", "review", "approved", "active"}
Row      == [status : Status, done : SUBSET Required, columns : SUBSET (Details \cup {Tags})]
Commands == Details \cup {Tags, "payout", "approve", "launch"}
Events   == {"ready_for_review", "approved", "launched", "updated"}

ASSUME NoRowAssumption == NoRow \notin Row

TypeOK ==
  /\ row \in Row \cup {NoRow}
  /\ payout \in [{"unverified", "active"} -> Payouts \cup {NoPayout}]
  /\ announced \in [Events -> 0..MaxCount]
  /\ pc \in [Requests -> {"idle", "loaded"}]
  /\ cmd \in [Requests -> Commands]
  /\ res \in [Requests -> Row \cup {NoRow}]
  /\ \A r \in Requests : pc[r] = "loaded" => res[r] \in Row

Init ==
  /\ row = NoRow
  /\ payout = [s \in {"unverified", "active"} |-> NoPayout]
  /\ announced = [e \in Events |-> 0]
  /\ pc = [r \in Requests |-> "idle"]
  /\ cmd = [r \in Requests |-> Tags]
  /\ res = [r \in Requests |-> NoRow]

(* The list of required items in IsCompleted forgets the address.          *)
IsCompleted_nowhere(done) == Required \ {"address"} \subseteq done

(* The checklist of required items forgets the payout.                     *)
IsCompleted_unpaid(done) == Required \ {"payout"} \subseteq done

IsCompleted(done) == Required \subseteq done

(* The events join the outbox in the transaction of the save.              *)
DispatchEventsTx(raised) ==
  announced' = [e \in Events |->
    IF e \in raised /\ announced[e] < MaxCount THEN announced[e] + 1 ELSE announced[e]]

(* restaurant.initiated creates the row.  Delivered again it hits the      *)
(* primary key and changes nothing.                                        *)
RestaurantInitiated ==
  /\ row = NoRow
  /\ row' = [status |-> "draft", done |-> {"basic"}, columns |-> {}]
  /\ UNCHANGED <<payout, announced, pc, cmd, res>>

(* Launch does not ask for the approval.                                   *)
Admits_unapproved(c, copy) == c = "approve" => copy.status = "review"

(* A command loads the row and makes its check on that copy; refused, it   *)
(* ends there.                                                             *)
Admits(c, copy) ==
  /\ c = "approve" => copy.status = "review"
  /\ c = "launch"  => copy.status = "approved"

Load(r, c) ==
  /\ pc[r] = "idle"
  /\ row \in Row
  /\ Admits(c, row)
  /\ pc' = [pc EXCEPT ![r] = "loaded"]
  /\ cmd' = [cmd EXCEPT ![r] = c]
  /\ res' = [res EXCEPT ![r] = row]
  /\ UNCHANGED <<row, payout, announced>>

End(r) ==
  /\ pc' = [pc EXCEPT ![r] = "idle"]
  /\ cmd' = [cmd EXCEPT ![r] = Tags]
  /\ res' = [res EXCEPT ![r] = NoRow]

(* Ticking the last item of a draft sends it to review.                    *)
CompleteChecklistItem(copy, item) ==
  [status  |-> IF copy.status = "draft" /\ IsCompleted(copy.done \cup {item})
                 THEN "review" ELSE copy.status,
   done    |-> copy.done \cup {item},
   columns |-> copy.columns]

ReadyForReview(before, after) ==
  IF before.status = "draft" /\ after.status = "review" THEN {"ready_for_review"} ELSE {}

(* Pre-launch changes are nobody else's business.                          *)
NotifyUpdated(copy) == IF copy.status = "active" THEN {"updated"} ELSE {}

With(copy, column) ==
  [status |-> copy.status, done |-> copy.done, columns |-> copy.columns \cup {column}]

(* The four commands that store a detail, complete its item and tell       *)
(* search-service about a launched restaurant.                             *)
SaveDetail(r, item) ==
  /\ pc[r] = "loaded" /\ cmd[r] = item /\ item \in Details
  /\ LET after == With(CompleteChecklistItem(res[r], item), item)
     IN  /\ row' = after
         /\ DispatchEventsTx(ReadyForReview(res[r], after) \cup NotifyUpdated(after))
  /\ End(r)
  /\ UNCHANGED payout

UpdateContact(r)      == SaveDetail(r, "contact")
UpdateAddress(r)      == SaveDetail(r, "address")
UpdateDelivery(r)     == SaveDetail(r, "delivery")
UpdateOpeningHours(r) == SaveDetail(r, "openinghours")

UpdateTags(r) ==
  /\ pc[r] = "loaded" /\ cmd[r] = Tags
  /\ row' = With(res[r], Tags)
  /\ DispatchEventsTx(NotifyUpdated(res[r]))
  /\ End(r)
  /\ UNCHANGED payout

(* The payout details are stored without the row of the restaurant.        *)
CreatePayout_alone(r, p) ==
  /\ pc[r] = "loaded" /\ cmd[r] = "payout"
  /\ payout["unverified"] = NoPayout
  /\ payout' = [payout EXCEPT !["unverified"] = p]
  /\ End(r)
  /\ UNCHANGED <<row, announced>>

(* The unique index admits one unverified submission; a second one fails   *)
(* and takes its whole transaction with it (Fail).                         *)
CreatePayout(r, p) ==
  /\ pc[r] = "loaded" /\ cmd[r] = "payout"
  /\ payout["unverified"] = NoPayout
  /\ payout' = [payout EXCEPT !["unverified"] = p]
  /\ LET after == CompleteChecklistItem(res[r], "payout")
     IN  /\ row' = after
         /\ DispatchEventsTx(ReadyForReview(res[r], after))
  /\ End(r)

(* One conditional UPDATE, the row of the restaurant only read.            *)
UpdatePayout(p) ==
  /\ row \in Row
  /\ payout["unverified"] # NoPayout
  /\ payout' = [payout EXCEPT !["unverified"] = p]
  /\ UNCHANGED <<row, announced, pc, cmd, res>>

(* Approval leaves the payout details for later.                           *)
ApproveRestaurant_unpaid(r) ==
  /\ pc[r] = "loaded" /\ cmd[r] = "approve"
  /\ row' = [status |-> "approved", done |-> res[r].done, columns |-> res[r].columns]
  /\ DispatchEventsTx({"approved"})
  /\ End(r)
  /\ UNCHANGED payout

(* The status and the payout details change together: no unverified        *)
(* submission, or an active one already there, undoes both (Fail).         *)
ApproveRestaurant(r) ==
  /\ pc[r] = "loaded" /\ cmd[r] = "approve"
  /\ payout["unverified"] # NoPayout
  /\ payout["active"] = NoPayout
  /\ row' = [status |-> "approved", done |-> res[r].done, columns |-> res[r].columns]
  /\ payout' = [payout EXCEPT !["active"] = payout["unverified"], !["unverified"] = NoPayout]
  /\ DispatchEventsTx({"approved"})
  /\ End(r)

LaunchRestaurant(r) ==
  /\ pc[r] = "loaded" /\ cmd[r] = "launch"
  /\ row' = [status |-> "active", done |-> res[r].done, columns |-> res[r].columns]
  /\ DispatchEventsTx({"launched"})
  /\ End(r)
  /\ UNCHANGED payout

(* The geocoder, the slug, too few pizzas, a unique index, the database.   *)
Fail(r) ==
  /\ pc[r] = "loaded"
  /\ End(r)
  /\ UNCHANGED <<row, payout, announced>>

Next ==
  \/ RestaurantInitiated
  \/ \E p \in Payouts : UpdatePayout(p)
  \/ \E r \in Requests :
       \/ \E c \in Commands : Load(r, c)
       \/ UpdateContact(r) \/ UpdateAddress(r)
       \/ UpdateDelivery(r) \/ UpdateOpeningHours(r)
       \/ UpdateTags(r)
       \/ \E p \in Payouts : CreatePayout(r, p)
       \/ ApproveRestaurant(r)
       \/ LaunchRestaurant(r)
       \/ Fail(r)

Spec == Init /\ [][Next]_vars

-----------------------------------------------------------------------------
(* A restaurant past draft has its whole checklist, the columns the items  *)
(* stand for and payout details, however its requests overlapped.          *)
PastDraftIsComplete ==
  row \in Row /\ row.status # "draft" =>
    /\ row.done = Required
    /\ Details \subseteq row.columns
    /\ \E s \in {"unverified", "active"} : payout[s] # NoPayout

(* The columns a command's event dereferences without a nil check: the     *)
(* email, or the slug, the coordinates and the time zone.                  *)
Dereferenced(c, copy) ==
  Details \cap
    CASE c = "approve" -> {"contact"}
      [] c = "launch" -> {"address"}
      [] c \in Details \cup {Tags} /\ copy.status = "active" -> {"address"}
      [] OTHER -> {}

(* No command meets a nil in the row it loaded: Approve reads *Email,      *)
(* Launch and every update of a launched restaurant read *Slug, *Lat.      *)
NoNilDereference ==
  \A r \in Requests : pc[r] = "loaded" =>
    Dereferenced(cmd[r], res[r]) \subseteq res[r].columns

(* An approved or launched restaurant has active payout details: the       *)
(* approval promotes them in its transaction, and no stale save can bring  *)
(* the status back without them.                                           *)
ApprovedIsPaid ==
  row \in Row /\ row.status \in {"approved", "active"} => payout["active"] # NoPayout

Later(status) ==
  CASE status = "draft"    -> {}
    [] status = "review"   -> {"ready_for_review"}
    [] status = "approved" -> {"ready_for_review", "approved"}
    [] status = "active"   -> {"ready_for_review", "approved", "launched"}

(* Nobody misses a stage: whatever the row's status, its events and those  *)
(* of the stages before are in the outbox, and an update is only announced *)
(* after the launch that gives search-service its document.                *)
EveryStageAnnounced ==
  /\ row \in Row => \A e \in Later(row.status) : announced[e] > 0
  /\ announced["updated"] > 0 => announced["launched"] > 0

(* Active payout details never change: neither a resubmission nor an       *)
(* approval repeated after a stale save replaces them.                     *)
ActivePayoutIsFinal ==
  [][payout["active"] # NoPayout => payout'["active"] = payout["active"]]_vars

Rank == [draft |-> 0, review |-> 1, approved |-> 2, active |-> 3]

NextStage(from, to) == Rank[to] \in {Rank[from], Rank[from] + 1}

(* docs/services/restaurant.md draws the workflow draft, review, approved, *)
(* active with no way back.  A save of an up-to-date copy keeps to it: the *)
(* only step back is that of a save over another command's.                *)
OnlyLostUpdatesStepBack ==
  [][row # NoRow /\ (\A r \in Requests : pc[r] = "loaded" /\ pc'[r] = "idle" => res[r] = row)
       => NextStage(row.status, row'.status)]_vars
=============================================================================
