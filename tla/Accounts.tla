------------------------------ MODULE Accounts ------------------------------
(***************************************************************************)
(* How an email address becomes an account of identity-service, for one    *)
(* address: RequestEmailOTP stores a code and has it mailed, registration  *)
(* verifies the code, uses it up and only then creates the user.  Reads    *)
(* and writes of the verification are separate statements, and a write     *)
(* saves every column of what was read.  A request's code is the request   *)
(* itself: two codes coincide once in a million draws.  The sessions of an *)
(* account (module Sessions) are followed for one that is there from the   *)
(* start: all they share with registration is the user.                    *)
(***************************************************************************)
EXTENDS Sessions, FiniteSets

CONSTANTS Requests,       \* calls of RequestEmailOTP
          Registrations,  \* calls of RegisterCustomer and RegisterOwner
          MaxAttempts,    \* maxVerificationAttempts
          NoCode          \* no code, and the "..." of a used one

VARIABLES
  rows,      \* email_verifications of the address, which no constraint keeps single
  slot,      \* the key otp_request:email of the rate limiter
  requests,  \* each request with the row it found
  regs,      \* each registration with the row it found
  user,      \* the registration that made the user, and as what
  mailed,    \* the last code committed to the outbox
  events,    \* the user's events in the outbox
  excuse     \* history: what may have spoilt the code mailed last

otpVars     == <<rows, slot, requests, regs, user, mailed, events, excuse>>
accountVars == <<otpVars, sessionVars>>

Roles  == {"customer", "owner"}
Ids    == 1..Cardinality(Requests)
Row    == [id : Ids, code : Requests \cup {NoCode}, used : BOOLEAN, attempts : Nat, expired : BOOLEAN]
NoRow  == [id |-> 0, code |-> NoCode, used |-> TRUE, attempts |-> 0, expired |-> TRUE]
NoUser  == [by |-> NoCode, role |-> "none"]
OldUser == [by |-> NoCode, role |-> "customer"]

ASSUME AccountsAssumption ==
  /\ IsFiniteSet(Requests)
  /\ MaxAttempts \in Nat \ {0}
  /\ NoCode \notin Requests \cup Registrations

AccountsTypeOK ==
  /\ SessionsTypeOK
  /\ rows \in SUBSET Row
  /\ slot \in BOOLEAN
  /\ requests \in [Requests -> [pc : {"idle", "allowed", "found", "done"},
                                id : Ids \cup {0}, found : Row \cup {NoRow}]]
  /\ regs \in [Registrations -> [pc : {"idle", "wrong", "right", "verified", "done"},
                                 found : Row \cup {NoRow}]]
  /\ user \in [by : Registrations, role : Roles] \cup {NoUser, OldUser}
  /\ mailed \in Requests \cup {NoCode}
  /\ events \in SUBSET ({"user.registered", "restaurant.initiated"} \X Registrations)
  /\ excuse \in SUBSET {"split", "spent", "clobbered", "guessed", "expired"}

AccountsInit ==
  /\ SessionsInit
  /\ rows = {}
  /\ slot = FALSE
  /\ requests = [r \in Requests |-> [pc |-> "idle", id |-> 0, found |-> NoRow]]
  /\ regs = [g \in Registrations |-> [pc |-> "idle", found |-> NoRow]]
  /\ user \in {NoUser, OldUser}
  /\ mailed = NoCode
  /\ events = {}
  /\ excuse = {}

-----------------------------------------------------------------------------
(* FindByEmail takes the first by primary key, a UUIDv7: the oldest.       *)
First == IF rows = {} THEN NoRow ELSE CHOOSE x \in rows : \A y \in rows : x.id <= y.id

Store(x) == rows' = {y \in rows : y.id # x.id} \cup {x}

Step(r, pc) == requests' = [requests EXCEPT ![r] = [pc |-> pc, id |-> requests[r].id, found |-> NoRow]]

(* EmailExists, and SET NX of the cool-down, which comes before the rest   *)
(* and is not given back when the rest fails.                              *)
Allow(r) ==
  /\ requests[r].pc = "idle"
  /\ user = NoUser
  /\ ~slot
  /\ slot' = TRUE
  /\ Step(r, "allowed")
  /\ UNCHANGED <<rows, regs, user, mailed, events, excuse>>

CooldownEnds ==
  /\ slot
  /\ slot' = FALSE
  /\ UNCHANGED <<rows, requests, regs, user, mailed, events, excuse>>

(* The code and the id are drawn, the row looked for outside the           *)
(* transaction that writes it.                                             *)
FindRow(r) ==
  /\ requests[r].pc = "allowed"
  /\ requests' = [requests EXCEPT ![r] =
       [pc |-> "found", id |-> 1 + Cardinality({o \in Requests : requests[o].id # 0}), found |-> First]]
  /\ UNCHANGED <<rows, slot, regs, user, mailed, events, excuse>>

Renewed_keepsUsed(r) ==
  IF requests[r].found = NoRow
  THEN [id |-> requests[r].id, code |-> r, used |-> FALSE, attempts |-> 0, expired |-> FALSE]
  ELSE [requests[r].found EXCEPT !.code = r, !.attempts = 0, !.expired = FALSE]

Renewed(r) ==
  [id |-> IF requests[r].found = NoRow THEN requests[r].id ELSE requests[r].found.id,
   code |-> r, used |-> FALSE, attempts |-> 0, expired |-> FALSE]

(* Row and outbox row in one transaction.  Two requests that both found    *)
(* nothing leave two rows, of which only the first is ever read.           *)
SaveCode(r) ==
  /\ requests[r].pc = "found"
  /\ Store(Renewed(r))
  /\ mailed' = r
  /\ excuse' = (excuse \cap {"split"})
       \cup (IF requests[r].found = NoRow /\ rows # {} THEN {"split"} ELSE {})
  /\ Step(r, "done")
  /\ UNCHANGED <<slot, regs, user, events>>

RequestFails(r) ==
  /\ requests[r].pc \in {"allowed", "found"}
  /\ Step(r, "done")
  /\ UNCHANGED <<rows, slot, regs, user, mailed, events, excuse>>

(* Fifteen minutes.                                                        *)
CodeExpires ==
  /\ \E x \in rows : ~x.expired /\ Store([x EXCEPT !.expired = TRUE])
  /\ excuse' = excuse \cup {"expired"}
  /\ UNCHANGED <<slot, requests, regs, user, mailed, events>>

-----------------------------------------------------------------------------
(* Verify reads the row and compares: used and exhausted rows refuse every *)
(* code, an expired one the right code.                                    *)
Verify(g, code) ==
  /\ regs[g].pc = "idle"
  /\ ~First.used /\ First.attempts < MaxAttempts
  /\ code = First.code => ~First.expired
  /\ regs' = [regs EXCEPT ![g] =
       [pc |-> IF code = First.code THEN "right" ELSE "wrong", found |-> First]]
  /\ UNCHANGED <<rows, slot, requests, user, mailed, events, excuse>>

(* What it read is of no use to it any more.                               *)
StepReg(g, pc) == regs' = [regs EXCEPT ![g] = [pc |-> pc, found |-> NoRow]]

(* The count is saved with the rest of what was read.                      *)
Counted_wholeRow(g) == [regs[g].found EXCEPT !.attempts = @ + 1]

(* attempt_count + 1 in the database.                                      *)
Counted(g) ==
  LET x == CHOOSE y \in rows : y.id = regs[g].found.id IN [x EXCEPT !.attempts = @ + 1]

IncrementAttempts(g) ==
  /\ regs[g].pc = "wrong"
  /\ Store(Counted(g))
  /\ excuse' = IF Counted(g).attempts >= MaxAttempts THEN excuse \cup {"guessed"} ELSE excuse
  /\ StepReg(g, "idle")
  /\ UNCHANGED <<slot, requests, user, mailed, events>>

(* Verify saves what it read as used, all columns, whatever the row has    *)
(* become since: a code stored in between is gone.                         *)
MarkUsed(g) ==
  /\ regs[g].pc = "right"
  /\ Store([regs[g].found EXCEPT !.code = NoCode, !.used = TRUE])
  /\ excuse' = excuse \cup {IF regs[g].found.code = mailed THEN "spent" ELSE "clobbered"}
  /\ StepReg(g, "verified")
  /\ UNCHANGED <<slot, requests, user, mailed, events>>

Announced(g, role) ==
  {<<"user.registered", g>>} \cup (IF role = "owner" THEN {<<"restaurant.initiated", g>>} ELSE {})

(* The events are stored although the user is not.                         *)
CreateUser_eventsFirst(g, role) ==
  /\ regs[g].pc = "verified"
  /\ user' = IF user = NoUser THEN [by |-> g, role |-> role] ELSE user
  /\ events' = events \cup Announced(g, role)
  /\ StepReg(g, "done")
  /\ UNCHANGED <<rows, slot, requests, mailed, excuse>>

(* User and events in one transaction, after the code was used up in       *)
(* another; the unique email turns the second registration away.           *)
CreateUser(g, role) ==
  /\ regs[g].pc = "verified"
  /\ user = NoUser
  /\ user' = [by |-> g, role |-> role]
  /\ events' = events \cup Announced(g, role)
  /\ StepReg(g, "done")
  /\ UNCHANGED <<rows, slot, requests, mailed, excuse>>

(* Refused by the unique email, failed or crashed: the code stays used.    *)
RegistrationFails(g) ==
  /\ regs[g].pc \in {"wrong", "right", "verified"}
  /\ StepReg(g, "idle")
  /\ UNCHANGED <<rows, slot, requests, user, mailed, events, excuse>>

OtpNext ==
  \/ CooldownEnds
  \/ CodeExpires
  \/ \E r \in Requests : Allow(r) \/ FindRow(r) \/ SaveCode(r) \/ RequestFails(r)
  \/ \E g \in Registrations :
       \/ \E code \in Requests : Verify(g, code)
       \/ IncrementAttempts(g)
       \/ MarkUsed(g)
       \/ \E role \in Roles : CreateUser(g, role)
       \/ RegistrationFails(g)

AccountsNext ==
  \/ OtpNext /\ UNCHANGED sessionVars
  \/ user = OldUser /\ SessionsNext /\ UNCHANGED otpVars

AccountsSpec == AccountsInit /\ [][AccountsNext]_accountVars

-----------------------------------------------------------------------------
(* Whatever registrations passed Verify with one code together, the outbox *)
(* tells of exactly the one that made the user, and of a restaurant only   *)
(* when that user is an owner.                                             *)
RegistrationIsWhole ==
  events = IF user \in {NoUser, OldUser} THEN {} ELSE Announced(user.by, user.role)

(* The code mailed last is accepted until it was used, tried too often or  *)
(* expired - except after a registration with an older code overwrote it   *)
(* or two requests that overlapped left two rows.                          *)
MailedCodeWorks ==
  mailed # NoCode /\ excuse = {} =>
    First.code = mailed /\ ~First.used /\ First.attempts < MaxAttempts /\ ~First.expired

(* A used verification becomes usable again only as another code is        *)
(* mailed.                                                                 *)
SpentStaysSpent ==
  [][mailed' = mailed =>
       \A x \in rows, y \in rows' : x.id = y.id /\ x.used => y.used]_accountVars
=============================================================================
