-------------------------- MODULE Onboarding_proofs --------------------------
(***************************************************************************)
(* The safety invariants of Onboarding for every number of overlapping     *)
(* requests, checklist items and payout details.  The argument: what is    *)
(* wanted of the row holds of every copy of it as well, a copy stays       *)
(* sound when the payout details and the outbox move on, and saving a      *)
(* sound copy keeps the row sound.                                         *)
(***************************************************************************)
EXTENDS Onboarding, TLAPS

(* A row, or a copy of one, that may be saved at any later time.           *)
Sound(copy) ==
  /\ copy.done \cap Details \subseteq copy.columns
  /\ "payout" \in copy.done => \E s \in {"unverified", "active"} : payout[s] # NoPayout
  /\ copy.status # "draft" => Required \subseteq copy.done
  /\ copy.status \in {"approved", "active"} => payout["active"] # NoPayout
  /\ copy.status \in {"review", "approved", "active"} => announced["ready_for_review"] > 0
  /\ copy.status \in {"approved", "active"} => announced["approved"] > 0
  /\ copy.status = "active" => announced["launched"] > 0

Inv ==
  /\ TypeOK
  /\ row \in Row => Sound(row)
  /\ \A r \in Requests : pc[r] = "loaded" =>
       /\ Sound(res[r])
       /\ Admits(cmd[r], res[r])
  /\ announced["updated"] > 0 => announced["launched"] > 0

(* Events are only ever added, within the bound.                           *)
LEMMA Announcing ==
  ASSUME TypeOK, NEW raised, DispatchEventsTx(raised)
  PROVE  /\ announced' \in [Events -> 0..MaxCount]
         /\ \A e \in Events : announced[e] > 0 => announced'[e] > 0
         /\ \A e \in Events : e \in raised => announced'[e] > 0
         /\ \A e \in Events : announced'[e] > 0 => e \in raised \/ announced[e] > 0
  BY OnboardingAssumption DEF TypeOK, DispatchEventsTx

(* Payout details are replaced or promoted, never removed.                 *)
PayoutKept ==
  /\ payout["active"] # NoPayout => payout'["active"] # NoPayout
  /\ (\E s \in {"unverified", "active"} : payout[s] # NoPayout)
       => \E s \in {"unverified", "active"} : payout'[s] # NoPayout

AnnouncedKept == \A e \in Events : announced[e] > 0 => announced'[e] > 0

(* A copy nobody touched is as sound after the step as before.             *)
LEMMA CopyStaysSound ==
  ASSUME NEW copy, Sound(copy), PayoutKept, AnnouncedKept
  PROVE  /\ copy.done \cap Details \subseteq copy.columns
         /\ "payout" \in copy.done => \E s \in {"unverified", "active"} : payout'[s] # NoPayout
         /\ copy.status # "draft" => Required \subseteq copy.done
         /\ copy.status \in {"approved", "active"} => payout'["active"] # NoPayout
         /\ copy.status \in {"review", "approved", "active"} => announced'["ready_for_review"] > 0
         /\ copy.status \in {"approved", "active"} => announced'["approved"] > 0
         /\ copy.status = "active" => announced'["launched"] > 0
  BY DEF Sound, PayoutKept, AnnouncedKept, Events

(* The other requests' copies after a step that ends request r.            *)
LEMMA OthersStaySound ==
  ASSUME Inv, NEW r \in Requests, End(r), PayoutKept, AnnouncedKept
  PROVE  /\ pc' \in [Requests -> {"idle", "loaded"}]
         /\ cmd' \in [Requests -> Commands]
         /\ res' \in [Requests -> Row \cup {NoRow}]
         /\ \A q \in Requests : pc'[q] = "loaded" =>
              res'[q] \in Row /\ Sound(res[q])' /\ Admits(cmd'[q], res'[q])
<1>1. /\ pc' \in [Requests -> {"idle", "loaded"}]
      /\ cmd' \in [Requests -> Commands]
      /\ res' \in [Requests -> Row \cup {NoRow}]
  BY DEF Inv, TypeOK, End, Commands
<1>2. ASSUME NEW q \in Requests, pc'[q] = "loaded"
      PROVE  res'[q] \in Row /\ Sound(res[q])' /\ Admits(cmd'[q], res'[q])
  <2>1. q # r /\ pc[q] = "loaded" /\ res'[q] = res[q] /\ cmd'[q] = cmd[q]
    BY <1>2 DEF Inv, TypeOK, End
  <2>2. res[q] \in Row /\ Sound(res[q]) /\ Admits(cmd[q], res[q])
    BY <2>1 DEF Inv, TypeOK
  <2>3. Sound(res[q])'
    BY <2>1, <2>2, CopyStaysSound DEF Sound
  <2> QED  BY <2>1, <2>2, <2>3
<1> QED  BY <1>1, <1>2

-----------------------------------------------------------------------------
(* Saving the copy a request loaded, changed the way its command changes   *)
(* it, leaves a sound row.  In a step that announces `raised`, keeps the   *)
(* payout details and ends the request, this is all there is to show.      *)
LEMMA SaveKeepsInv ==
  ASSUME Inv, NEW r \in Requests, End(r), PayoutKept, NEW raised, DispatchEventsTx(raised),
         row' \in Row, Sound(row)',
         payout' \in [{"unverified", "active"} -> Payouts \cup {NoPayout}],
         "updated" \in raised => announced["launched"] > 0
  PROVE  Inv'
<1>1. TypeOK
  BY DEF Inv
<1>2. /\ announced' \in [Events -> 0..MaxCount]
      /\ AnnouncedKept
      /\ announced'["updated"] > 0 => announced'["launched"] > 0
  BY <1>1, Announcing DEF Inv, AnnouncedKept, Events
<1>3. /\ pc' \in [Requests -> {"idle", "loaded"}]
      /\ cmd' \in [Requests -> Commands]
      /\ res' \in [Requests -> Row \cup {NoRow}]
      /\ \A q \in Requests : pc'[q] = "loaded" =>
           res'[q] \in Row /\ Sound(res[q])' /\ Admits(cmd'[q], res'[q])
  BY <1>2, OthersStaySound
<1>4. TypeOK'
  BY <1>2, <1>3 DEF TypeOK
<1>5. (\A q \in Requests : pc[q] = "loaded" => Sound(res[q]) /\ Admits(cmd[q], res[q]))'
  BY <1>3
<1> QED  BY <1>2, <1>4, <1>5 DEF Inv

(* What a save relies on: the request's copy and its command's check.      *)
LEMMA LoadedIsSound ==
  ASSUME Inv, NEW r \in Requests, pc[r] = "loaded"
  PROVE  /\ res[r] \in Row
         /\ Sound(res[r])
         /\ cmd[r] = "approve" => res[r].status = "review"
         /\ cmd[r] = "launch" => res[r].status = "approved"
  BY DEF Inv, TypeOK, Admits

LEMMA InitInv == Init => Inv
  BY OnboardingAssumption, NoRowAssumption DEF Init, Inv, TypeOK, Events, Commands

LEMMA InitiatedKeepsInv == Inv /\ RestaurantInitiated => Inv'
<1> SUFFICES ASSUME Inv, RestaurantInitiated PROVE Inv'
  OBVIOUS
<1>1. row' \in Row
  BY DEF RestaurantInitiated, Row, Status, Required
<1>2. Sound(row)'
  BY OnboardingAssumption DEF RestaurantInitiated, Sound
<1>3. TypeOK'
  BY <1>1 DEF RestaurantInitiated, Inv, TypeOK
<1>4. \A q \in Requests : Sound(res[q])' <=> Sound(res[q])
  BY DEF RestaurantInitiated, Sound
<1> QED  BY <1>2, <1>3, <1>4 DEF RestaurantInitiated, Inv

LEMMA LoadKeepsInv ==
  ASSUME NEW r \in Requests, NEW c \in Commands, Inv, Load(r, c)
  PROVE  Inv'
<1>1. Sound(row) /\ row \in Row /\ Admits(c, row)
  BY DEF Load, Inv
<1>2. TypeOK'
  BY DEF Load, Inv, TypeOK
<1>3. Sound(row)'
  BY <1>1 DEF Load, Sound
<1>4. ASSUME NEW q \in Requests, pc'[q] = "loaded"
      PROVE  Sound(res[q])' /\ Admits(cmd'[q], res'[q])
  <2>1. CASE q = r
    <3>1. res'[q] = row /\ cmd'[q] = c
      BY <2>1 DEF Load, Inv, TypeOK
    <3> QED  BY <1>1, <3>1 DEF Load, Sound
  <2>2. CASE q # r
    <3>1. res'[q] = res[q] /\ cmd'[q] = cmd[q] /\ pc[q] = "loaded"
      BY <1>4, <2>2 DEF Load, Inv, TypeOK
    <3>2. Sound(res[q]) /\ Admits(cmd[q], res[q])
      BY <3>1 DEF Inv
    <3> QED  BY <3>1, <3>2 DEF Load, Sound
  <2> QED  BY <2>1, <2>2
<1>5. announced'["updated"] > 0 => announced'["launched"] > 0
  BY DEF Load, Inv
<1> QED  BY <1>2, <1>3, <1>4, <1>5 DEF Inv

LEMMA SaveDetailKeepsInv ==
  ASSUME NEW r \in Requests, NEW item, Inv, SaveDetail(r, item)
  PROVE  Inv'
<1> DEFINE after == With(CompleteChecklistItem(res[r], item), item)
           raised == ReadyForReview(res[r], after) \cup NotifyUpdated(after)
<1>1. /\ pc[r] = "loaded" /\ item \in Details /\ row' = after
      /\ DispatchEventsTx(raised) /\ End(r) /\ payout' = payout
  BY DEF SaveDetail
<1>2. res[r] \in Row /\ Sound(res[r]) /\ TypeOK
  BY <1>1, LoadedIsSound DEF Inv
<1>3. after \in Row
  BY <1>1, <1>2 DEF With, CompleteChecklistItem, Row, Status, Required
<1>4. PayoutKept
  BY <1>1 DEF PayoutKept
<1>5. /\ \A e \in Events : announced[e] > 0 => announced'[e] > 0
      /\ \A e \in Events : e \in raised => announced'[e] > 0
  BY <1>1, <1>2, Announcing
<1>6. after.done = res[r].done \cup {item} /\ after.columns = res[r].columns \cup {item}
  BY DEF With, CompleteChecklistItem
<1>7. \/ after.status = res[r].status
      \/ /\ res[r].status = "draft" /\ after.status = "review"
         /\ Required \subseteq after.done /\ "ready_for_review" \in raised
  BY DEF With, CompleteChecklistItem, IsCompleted, ReadyForReview
<1>8. Sound(row)'
  <2>1. after.done \cap Details \subseteq after.columns
    BY <1>2, <1>6 DEF Sound
  <2>2. "payout" \in after.done => \E s \in {"unverified", "active"} : payout[s] # NoPayout
    BY <1>1, <1>2, <1>6, OnboardingAssumption DEF Sound
  <2>3. after.status # "draft" => Required \subseteq after.done
    BY <1>2, <1>6, <1>7 DEF Sound
  <2>4. after.status \in {"approved", "active"} => after.status = res[r].status
    BY <1>7
  <2>5. after.status \in {"review", "approved", "active"} => announced'["ready_for_review"] > 0
    BY <1>2, <1>5, <1>7 DEF Sound, Events
  <2>6. /\ after.status \in {"approved", "active"} => announced'["approved"] > 0
        /\ after.status = "active" => announced'["launched"] > 0
    BY <1>2, <1>5, <2>4 DEF Sound, Events
  <2>7. after.status \in {"approved", "active"} => payout["active"] # NoPayout
    BY <1>2, <2>4 DEF Sound
  <2> QED  BY <1>1, <2>1, <2>2, <2>3, <2>5, <2>6, <2>7 DEF Sound
<1>9. "updated" \in raised => announced["launched"] > 0
  BY <1>2, <1>7 DEF ReadyForReview, NotifyUpdated, Sound
<1>10. payout' \in [{"unverified", "active"} -> Payouts \cup {NoPayout}]
  BY <1>1, <1>2 DEF TypeOK
<1>11. row' \in Row
  BY <1>1, <1>3
<1> HIDE DEF after, raised
<1> QED  BY <1>1, <1>4, <1>8, <1>9, <1>10, <1>11, SaveKeepsInv

LEMMA UpdateTagsKeepsInv ==
  ASSUME NEW r \in Requests, Inv, UpdateTags(r)
  PROVE  Inv'
<1>1. /\ pc[r] = "loaded" /\ row' = With(res[r], Tags)
      /\ DispatchEventsTx(NotifyUpdated(res[r])) /\ End(r) /\ payout' = payout
  BY DEF UpdateTags
<1>2. res[r] \in Row /\ Sound(res[r]) /\ TypeOK
  BY <1>1, LoadedIsSound DEF Inv
<1>3. row' \in Row
  BY <1>1, <1>2 DEF With, Row
<1>4. PayoutKept
  BY <1>1 DEF PayoutKept
<1>5. AnnouncedKept
  BY <1>1, <1>2, Announcing DEF AnnouncedKept
<1>6. Sound(row)'
  BY <1>1, <1>2, <1>5 DEF Sound, With, AnnouncedKept, Events
<1>7. "updated" \in NotifyUpdated(res[r]) => announced["launched"] > 0
  BY <1>2 DEF NotifyUpdated, Sound
<1>8. payout' \in [{"unverified", "active"} -> Payouts \cup {NoPayout}]
  BY <1>1, <1>2 DEF TypeOK
<1> QED  BY <1>1, <1>3, <1>4, <1>6, <1>7, <1>8, SaveKeepsInv

LEMMA CreatePayoutKeepsInv ==
  ASSUME NEW r \in Requests, NEW p \in Payouts, Inv, CreatePayout(r, p)
  PROVE  Inv'
<1> DEFINE after == CompleteChecklistItem(res[r], "payout")
           raised == ReadyForReview(res[r], after)
<1>1. /\ pc[r] = "loaded" /\ row' = after
      /\ payout' = [payout EXCEPT !["unverified"] = p]
      /\ DispatchEventsTx(raised) /\ End(r)
  BY DEF CreatePayout
<1>2. res[r] \in Row /\ Sound(res[r]) /\ TypeOK
  BY <1>1, LoadedIsSound DEF Inv
<1>3. row' \in Row
  BY <1>1, <1>2 DEF CompleteChecklistItem, Row, Status, Required
<1>4. /\ payout' \in [{"unverified", "active"} -> Payouts \cup {NoPayout}]
      /\ payout'["unverified"] # NoPayout
      /\ payout'["active"] = payout["active"]
  BY <1>1, <1>2, OnboardingAssumption DEF TypeOK
<1>5. PayoutKept
  BY <1>4 DEF PayoutKept
<1>6. /\ \A e \in Events : announced[e] > 0 => announced'[e] > 0
      /\ \A e \in Events : e \in raised => announced'[e] > 0
  BY <1>1, <1>2, Announcing
<1>7. after.done = res[r].done \cup {"payout"} /\ after.columns = res[r].columns
  BY DEF CompleteChecklistItem
<1>8. \/ after.status = res[r].status
      \/ /\ res[r].status = "draft" /\ after.status = "review"
         /\ Required \subseteq after.done /\ "ready_for_review" \in raised
  BY DEF CompleteChecklistItem, IsCompleted, ReadyForReview
<1>9. Sound(row)'
  <2>1. after.done \cap Details \subseteq after.columns
    BY <1>2, <1>7, OnboardingAssumption DEF Sound
  <2>2. after.status # "draft" => Required \subseteq after.done
    BY <1>2, <1>7, <1>8 DEF Sound
  <2>3. after.status \in {"approved", "active"} => after.status = res[r].status
    BY <1>8
  <2>4. after.status \in {"review", "approved", "active"} => announced'["ready_for_review"] > 0
    BY <1>2, <1>6, <1>8 DEF Sound, Events
  <2>5. /\ after.status \in {"approved", "active"} => announced'["approved"] > 0
        /\ after.status = "active" => announced'["launched"] > 0
    BY <1>2, <1>6, <2>3 DEF Sound, Events
  <2>6. after.status \in {"approved", "active"} => payout'["active"] # NoPayout
    BY <1>2, <1>4, <2>3 DEF Sound
  <2> QED  BY <1>1, <1>4, <2>1, <2>2, <2>4, <2>5, <2>6 DEF Sound
<1>10. "updated" \in raised => announced["launched"] > 0
  BY DEF ReadyForReview
<1> HIDE DEF after, raised
<1> QED  BY <1>1, <1>3, <1>4, <1>5, <1>9, <1>10, SaveKeepsInv

LEMMA UpdatePayoutKeepsInv ==
  ASSUME NEW p \in Payouts, Inv, UpdatePayout(p)
  PROVE  Inv'
<1>1. /\ payout' \in [{"unverified", "active"} -> Payouts \cup {NoPayout}]
      /\ payout'["unverified"] # NoPayout
      /\ payout'["active"] = payout["active"]
  BY OnboardingAssumption DEF UpdatePayout, Inv, TypeOK
<1>2. UNCHANGED <<row, announced, pc, cmd, res>>
  BY DEF UpdatePayout
<1>4. TypeOK'
  BY <1>1, <1>2 DEF Inv, TypeOK
<1>5. row \in Row => Sound(row)'
  BY <1>1, <1>2 DEF Inv, Sound
<1>6. \A q \in Requests : pc[q] = "loaded" => Sound(res[q])'
  BY <1>1, <1>2 DEF Inv, Sound
<1> QED  BY <1>2, <1>4, <1>5, <1>6 DEF Inv

LEMMA ApproveKeepsInv ==
  ASSUME NEW r \in Requests, Inv, ApproveRestaurant(r)
  PROVE  Inv'
<1> DEFINE after == [status |-> "approved", done |-> res[r].done, columns |-> res[r].columns]
<1>1. /\ pc[r] = "loaded" /\ cmd[r] = "approve" /\ row' = after
      /\ payout["unverified"] # NoPayout
      /\ payout' = [payout EXCEPT !["active"] = payout["unverified"], !["unverified"] = NoPayout]
      /\ DispatchEventsTx({"approved"}) /\ End(r)
  BY DEF ApproveRestaurant
<1>2. res[r] \in Row /\ Sound(res[r]) /\ TypeOK /\ res[r].status = "review"
  BY <1>1, LoadedIsSound DEF Inv
<1>3. row' \in Row
  BY <1>1, <1>2 DEF Row, Status
<1>4. /\ payout' \in [{"unverified", "active"} -> Payouts \cup {NoPayout}]
      /\ payout'["active"] # NoPayout
  BY <1>1, <1>2 DEF TypeOK
<1>5. PayoutKept
  BY <1>4 DEF PayoutKept
<1>6. /\ \A e \in Events : announced[e] > 0 => announced'[e] > 0
      /\ announced'["approved"] > 0
  BY <1>1, <1>2, Announcing DEF Events
<1>7. Sound(row)'
  BY <1>1, <1>2, <1>4, <1>6 DEF Sound, Events
<1> QED  BY <1>1, <1>3, <1>4, <1>5, <1>7, SaveKeepsInv

LEMMA LaunchKeepsInv ==
  ASSUME NEW r \in Requests, Inv, LaunchRestaurant(r)
  PROVE  Inv'
<1> DEFINE after == [status |-> "active", done |-> res[r].done, columns |-> res[r].columns]
<1>1. /\ pc[r] = "loaded" /\ cmd[r] = "launch" /\ row' = after
      /\ payout' = payout /\ DispatchEventsTx({"launched"}) /\ End(r)
  BY DEF LaunchRestaurant
<1>2. res[r] \in Row /\ Sound(res[r]) /\ TypeOK /\ res[r].status = "approved"
  BY <1>1, LoadedIsSound DEF Inv
<1>3. row' \in Row
  BY <1>1, <1>2 DEF Row, Status
<1>4. payout' \in [{"unverified", "active"} -> Payouts \cup {NoPayout}] /\ PayoutKept
  BY <1>1, <1>2 DEF TypeOK, PayoutKept
<1>5. /\ \A e \in Events : announced[e] > 0 => announced'[e] > 0
      /\ announced'["launched"] > 0
  BY <1>1, <1>2, Announcing DEF Events
<1>6. Sound(row)'
  BY <1>1, <1>2, <1>4, <1>5 DEF Sound, Events
<1> QED  BY <1>1, <1>3, <1>4, <1>6, SaveKeepsInv

LEMMA FailKeepsInv ==
  ASSUME NEW r \in Requests, Inv, Fail(r)
  PROVE  Inv'
<1>1. End(r) /\ row' = row /\ payout' = payout /\ announced' = announced
  BY DEF Fail
<1>2. PayoutKept /\ AnnouncedKept
  BY <1>1 DEF PayoutKept, AnnouncedKept
<1>3. /\ pc' \in [Requests -> {"idle", "loaded"}]
      /\ cmd' \in [Requests -> Commands]
      /\ res' \in [Requests -> Row \cup {NoRow}]
      /\ \A q \in Requests : pc'[q] = "loaded" =>
           res'[q] \in Row /\ Sound(res[q])' /\ Admits(cmd'[q], res'[q])
  BY <1>1, <1>2, OthersStaySound
<1>4. TypeOK'
  BY <1>1, <1>3 DEF Inv, TypeOK
<1>5. row \in Row => Sound(row)'
  BY <1>1 DEF Inv, Sound
<1> QED  BY <1>1, <1>3, <1>4, <1>5 DEF Inv

LEMMA StutterKeepsInv == Inv /\ UNCHANGED vars => Inv'
<1> SUFFICES ASSUME Inv, UNCHANGED vars PROVE Inv'
  OBVIOUS
<1>1. UNCHANGED <<row, payout, announced, pc, cmd, res>>
  BY DEF vars
<1>2. TypeOK'
  BY <1>1 DEF Inv, TypeOK
<1>3. row \in Row => Sound(row)'
  BY <1>1 DEF Inv, Sound
<1>4. \A q \in Requests : pc[q] = "loaded" => Sound(res[q])'
  BY <1>1 DEF Inv, Sound
<1> QED  BY <1>1, <1>2, <1>3, <1>4 DEF Inv

(* The induction.                                                          *)
THEOREM Invariance == Spec => []Inv
<1>1. Init => Inv
  BY InitInv
<1>2. Inv /\ [Next]_vars => Inv'
  <2> SUFFICES ASSUME Inv, [Next]_vars PROVE Inv'
    OBVIOUS
  <2>1. CASE RestaurantInitiated
    BY <2>1, InitiatedKeepsInv
  <2>2. ASSUME NEW p \in Payouts, UpdatePayout(p) PROVE Inv'
    BY <2>2, UpdatePayoutKeepsInv
  <2>3. ASSUME NEW r \in Requests, NEW c \in Commands, Load(r, c) PROVE Inv'
    BY <2>3, LoadKeepsInv
  <2>4. ASSUME NEW r \in Requests,
               \/ UpdateContact(r) \/ UpdateAddress(r)
               \/ UpdateDelivery(r) \/ UpdateOpeningHours(r)
        PROVE  Inv'
    BY <2>4, SaveDetailKeepsInv
       DEF UpdateContact, UpdateAddress, UpdateDelivery, UpdateOpeningHours
  <2>5. ASSUME NEW r \in Requests, UpdateTags(r) PROVE Inv'
    BY <2>5, UpdateTagsKeepsInv
  <2>6. ASSUME NEW r \in Requests, NEW p \in Payouts, CreatePayout(r, p) PROVE Inv'
    BY <2>6, CreatePayoutKeepsInv
  <2>7. ASSUME NEW r \in Requests, ApproveRestaurant(r) PROVE Inv'
    BY <2>7, ApproveKeepsInv
  <2>8. ASSUME NEW r \in Requests, LaunchRestaurant(r) PROVE Inv'
    BY <2>8, LaunchKeepsInv
  <2>9. ASSUME NEW r \in Requests, Fail(r) PROVE Inv'
    BY <2>9, FailKeepsInv
  <2>10. CASE UNCHANGED vars
    BY <2>10, StutterKeepsInv
  <2> QED
    BY <2>1, <2>2, <2>3, <2>4, <2>5, <2>6, <2>7, <2>8, <2>9, <2>10 DEF Next
<1> QED  BY <1>1, <1>2, PTL DEF Spec

(* Every reachable state is well typed.                                    *)
THEOREM TypeCorrect == Spec => []TypeOK
<1>1. Inv => TypeOK
  BY DEF Inv
<1> QED  BY <1>1, Invariance, PTL

(* What approve and launch dereference is there: past draft, a row has its *)
(* whole checklist, its columns and payout details.                        *)
THEOREM PastDraft_Complete == Spec => []PastDraftIsComplete
<1>1. Inv => PastDraftIsComplete
  <2> SUFFICES ASSUME Inv, row \in Row, row.status # "draft"
               PROVE  /\ row.done = Required
                      /\ Details \subseteq row.columns
                      /\ \E s \in {"unverified", "active"} : payout[s] # NoPayout
    BY DEF PastDraftIsComplete
  <2>1. Sound(row) /\ row.done \in SUBSET Required
    BY DEF Inv, Row
  <2>2. row.done = Required
    BY <2>1 DEF Sound
  <2> QED  BY <2>1, <2>2 DEF Sound, Required
<1> QED  BY <1>1, Invariance, PTL

(* No command dereferences a column its copy of the row lacks.             *)
THEOREM NoNil_Dereference == Spec => []NoNilDereference
<1>1. Inv => NoNilDereference
  <2> SUFFICES ASSUME Inv, NEW r \in Requests, pc[r] = "loaded"
               PROVE  Dereferenced(cmd[r], res[r]) \subseteq res[r].columns
    BY DEF NoNilDereference
  <2>1. /\ Sound(res[r])
        /\ cmd[r] = "approve" => res[r].status = "review"
        /\ cmd[r] = "launch" => res[r].status = "approved"
    BY LoadedIsSound
  <2>2. res[r].status # "draft" => Details \subseteq res[r].columns
    BY <2>1 DEF Sound, Required
  <2>3. CASE res[r].status # "draft"
    BY <2>2, <2>3 DEF Dereferenced
  <2>4. CASE res[r].status = "draft"
    <3>1. Dereferenced(cmd[r], res[r]) = {}
      BY <2>1, <2>4 DEF Dereferenced
    <3> QED  BY <3>1
  <2> QED  BY <2>3, <2>4
<1> QED  BY <1>1, Invariance, PTL

(* An approved or launched restaurant can be paid.                         *)
THEOREM Approved_Paid == Spec => []ApprovedIsPaid
<1>1. Inv => ApprovedIsPaid
  BY DEF Inv, Sound, ApprovedIsPaid
<1> QED  BY <1>1, Invariance, PTL

(* No stage is reached without its event in the outbox.                    *)
THEOREM EveryStage_Announced == Spec => []EveryStageAnnounced
<1>1. Inv => EveryStageAnnounced
  <2> SUFFICES ASSUME Inv PROVE EveryStageAnnounced
    OBVIOUS
  <2>1. ASSUME row \in Row PROVE \A e \in Later(row.status) : announced[e] > 0
    <3>1. Sound(row) /\ row.status \in Status
      BY <2>1 DEF Inv, Row
    <3> QED  BY <3>1 DEF Sound, Later, Status
  <2> QED  BY <2>1 DEF EveryStageAnnounced, Inv
<1> QED  BY <1>1, Invariance, PTL

(* Active payout details are final.                                        *)
THEOREM ActivePayout_Final == Spec => ActivePayoutIsFinal
<1>1. TypeOK /\ [Next]_vars =>
        [payout["active"] # NoPayout => payout'["active"] = payout["active"]]_vars
  <2> SUFFICES ASSUME TypeOK, [Next]_vars, payout["active"] # NoPayout
               PROVE  payout'["active"] = payout["active"]
    OBVIOUS
  <2>1. ASSUME NEW p \in Payouts, UpdatePayout(p)
        PROVE  payout'["active"] = payout["active"]
    BY <2>1 DEF TypeOK, UpdatePayout
  <2>2. ASSUME NEW r \in Requests, NEW p \in Payouts, CreatePayout(r, p)
        PROVE  payout'["active"] = payout["active"]
    BY <2>2 DEF TypeOK, CreatePayout
  <2>3. ASSUME NEW r \in Requests PROVE ~ApproveRestaurant(r)
    BY DEF ApproveRestaurant
  <2>4. CASE UNCHANGED payout
    BY <2>4
  <2> QED
    BY <2>1, <2>2, <2>3, <2>4
       DEF Next, RestaurantInitiated, Load, SaveDetail, UpdateContact, UpdateAddress,
           UpdateDelivery, UpdateOpeningHours, UpdateTags, LaunchRestaurant, Fail, vars
<1> QED  BY <1>1, TypeCorrect, PTL DEF Spec, ActivePayoutIsFinal

(* Only a save over another command's changes takes the status back.       *)
THEOREM OnlyLostUpdates_StepBack == Spec => OnlyLostUpdatesStepBack
<1>1. Inv /\ [Next]_vars =>
        [row # NoRow /\ (\A r \in Requests : pc[r] = "loaded" /\ pc'[r] = "idle" => res[r] = row)
           => NextStage(row.status, row'.status)]_vars
  <2> SUFFICES ASSUME Inv, [Next]_vars, row # NoRow,
                      \A r \in Requests : pc[r] = "loaded" /\ pc'[r] = "idle" => res[r] = row
               PROVE  NextStage(row.status, row'.status)
    OBVIOUS
  <2> DEFINE Fresh == \A r \in Requests : pc[r] = "loaded" /\ pc'[r] = "idle" => res[r] = row
  <2>1. row \in Row /\ row.status \in Status /\ Fresh
    BY DEF Inv, TypeOK, Row
  <2>2. ASSUME NEW r \in Requests, pc[r] = "loaded", End(r)
        PROVE  res[r] = row /\ Admits(cmd[r], row)
    BY <2>1, <2>2 DEF Inv, TypeOK, End
  <2>3. CASE UNCHANGED row
    BY <2>1, <2>3 DEF NextStage, Rank, Status
  <2>4. ASSUME NEW r \in Requests, NEW item, SaveDetail(r, item)
        PROVE  NextStage(row.status, row'.status)
    <3>1. res[r] = row
      BY <2>2, <2>4 DEF SaveDetail
    <3>2. row'.status = IF row.status = "draft" /\ IsCompleted(row.done \cup {item})
                          THEN "review" ELSE row.status
      BY <2>4, <3>1 DEF SaveDetail, With, CompleteChecklistItem
    <3> QED  BY <2>1, <3>2 DEF NextStage, Rank, Status
  <2>5. ASSUME NEW r \in Requests, UpdateTags(r)
        PROVE  NextStage(row.status, row'.status)
    <3>1. row'.status = row.status
      BY <2>2, <2>5 DEF UpdateTags, With
    <3> QED  BY <2>1, <3>1 DEF NextStage, Rank, Status
  <2>6. ASSUME NEW r \in Requests, NEW p \in Payouts, CreatePayout(r, p)
        PROVE  NextStage(row.status, row'.status)
    <3>1. row'.status = IF row.status = "draft" /\ IsCompleted(row.done \cup {"payout"})
                          THEN "review" ELSE row.status
      BY <2>2, <2>6 DEF CreatePayout, CompleteChecklistItem
    <3> QED  BY <2>1, <3>1 DEF NextStage, Rank, Status
  <2>7. ASSUME NEW r \in Requests, ApproveRestaurant(r)
        PROVE  NextStage(row.status, row'.status)
    BY <2>2, <2>7 DEF ApproveRestaurant, Admits, NextStage, Rank
  <2>8. ASSUME NEW r \in Requests, LaunchRestaurant(r)
        PROVE  NextStage(row.status, row'.status)
    BY <2>2, <2>8 DEF LaunchRestaurant, Admits, NextStage, Rank
  <2> QED
    BY <2>1, <2>3, <2>4, <2>5, <2>6, <2>7, <2>8, NoRowAssumption
       DEF Next, RestaurantInitiated, UpdatePayout, Load, UpdateContact, UpdateAddress,
           UpdateDelivery, UpdateOpeningHours, Fail, vars
<1> QED  BY <1>1, Invariance, PTL DEF Spec, OnlyLostUpdatesStepBack
=============================================================================
