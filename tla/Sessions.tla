------------------------------ MODULE Sessions ------------------------------
(***************************************************************************)
(* Refresh tokens of identity-service, keys in Redis.  Login stores one,   *)
(* RefreshToken finds one, stores its successor and deletes it, each in a  *)
(* command of its own, Logout deletes one.  A token is a number in the     *)
(* order of issue; a session is the chain of tokens that one login began.  *)
(***************************************************************************)
EXTENDS Naturals

CONSTANTS Calls,     \* refresh calls in flight
          MaxTokens  \* tokens ever issued

VARIABLES
  live,     \* the keys in Redis
  session,  \* the login each token issued so far descends from
  known,    \* the tokens that reached their client
  calls,    \* each refresh call: the token presented, its successor once stored
  slips,    \* history: sessions a refresh left with more than one token
  ended     \* history: sessions logged out with their token, nothing under way

sessionVars == <<live, session, known, calls, slips, ended>>

ASSUME SessionsAssumption == MaxTokens \in Nat

Tokens == 1..MaxTokens
None   == 0
Issued == DOMAIN session

Chain(s)  == {t \in Issued : session[t] = s}
Open(s)   == {c \in Calls : calls[c].old # None /\ session[calls[c].old] = s}
Closed    == [old |-> None, new |-> None]

SessionsTypeOK ==
  /\ \E n \in 0..MaxTokens : session \in [1..n -> 1..n]
  /\ live \in SUBSET Issued
  /\ known \in SUBSET Issued
  /\ calls \in [Calls -> [old : Issued \cup {None}, new : Issued \cup {None}]]
  /\ slips \in SUBSET Issued
  /\ ended \in SUBSET Issued

SessionsInit ==
  /\ live = {}
  /\ session = <<>>
  /\ known = {}
  /\ calls = [c \in Calls |-> Closed]
  /\ slips = {}
  /\ ended = {}

-----------------------------------------------------------------------------
(* Generate and Save: the next token of session s, or the first of its own *)
Save(t, s) ==
  /\ t \in Tokens \ Issued /\ \A u \in Tokens \ Issued : t <= u
  /\ session' = [u \in Issued \cup {t} |-> IF u = t THEN s ELSE session[u]]
  /\ live' = live \cup {t}

(* The password is right; logged_at may fail to be saved.                  *)
Login ==
  /\ \E t \in Tokens : Save(t, t) /\ known' = known \cup {t}
  /\ UNCHANGED <<calls, slips, ended>>

(* A refresh may still run on a token that another one has taken.          *)
Find_unchecked(c, t) ==
  /\ calls[c] = Closed
  /\ t \in known
  /\ calls' = [calls EXCEPT ![c] = [old |-> t, new |-> None]]
  /\ slips' = IF Open(session[t]) = {} THEN slips ELSE slips \cup {session[t]}
  /\ UNCHANGED <<live, session, known, ended>>

Find(c, t) ==
  /\ calls[c] = Closed
  /\ t \in known \cap live
  /\ calls' = [calls EXCEPT ![c] = [old |-> t, new |-> None]]
  /\ slips' = IF Open(session[t]) = {} THEN slips ELSE slips \cup {session[t]}
  /\ UNCHANGED <<live, session, known, ended>>

(* The successor is stored while the old token still counts.               *)
RefreshSave(c) ==
  /\ calls[c].old # None /\ calls[c].new = None
  /\ \E t \in Tokens :
       /\ Save(t, session[calls[c].old])
       /\ calls' = [calls EXCEPT ![c] = [old |-> calls[c].old, new |-> t]]
  /\ UNCHANGED <<known, slips, ended>>

(* Only then is the old one deleted, and an error of that ignored; the     *)
(* answer may be lost on its way to the client.                            *)
Delete_never(c) == live' = live /\ slips' = slips

Delete(c) ==
  \/ live' = live \ {calls[c].old} /\ slips' = slips
  \/ live' = live /\ slips' = slips \cup {session[calls[c].old]}

RefreshAnswer(c) ==
  /\ calls[c].new # None
  /\ Delete(c)
  /\ known' \in {known, known \cup {calls[c].new}}
  /\ calls' = [calls EXCEPT ![c] = Closed]
  /\ UNCHANGED <<session, ended>>

(* The process dies, or Redis fails, before the old token is deleted.      *)
RefreshAbandoned(c) ==
  /\ calls[c].old # None
  /\ calls' = [calls EXCEPT ![c] = Closed]
  /\ slips' = IF calls[c].new = None THEN slips ELSE slips \cup {session[calls[c].old]}
  /\ UNCHANGED <<live, session, known, ended>>

(* Logout deletes the token it is given and nothing that came of it.       *)
Logout(t) ==
  /\ t \in known
  /\ live' = live \ {t}
  /\ ended' = IF t \in live /\ Open(session[t]) = {} /\ session[t] \notin slips
              THEN ended \cup {session[t]} ELSE ended
  /\ UNCHANGED <<session, known, calls, slips>>

(* Seven days.                                                             *)
Expire(t) ==
  /\ t \in live
  /\ live' = live \ {t}
  /\ UNCHANGED <<session, known, calls, slips, ended>>

SessionsNext ==
  \/ Login
  \/ \E c \in Calls :
       \/ \E t \in Issued : Find(c, t)
       \/ RefreshSave(c)
       \/ RefreshAnswer(c)
       \/ RefreshAbandoned(c)
  \/ \E t \in Issued : Logout(t) \/ Expire(t)

-----------------------------------------------------------------------------
(* A session has two tokens that count only while a refresh that stored    *)
(* the second has not deleted the first, or after one that overlapped with *)
(* another, was cut short or failed to delete.                             *)
RotationHasReason ==
  \A t, u \in live :
    \/ t = u \/ session[t] # session[u] \/ session[t] \in slips
    \/ \E c \in Calls : {calls[c].old, calls[c].new} = {t, u}

(* A session logged out with its one token, no refresh under way, has no   *)
(* token that counts ever after: no late refresh revives it.               *)
LoggedOutStaysOut == \A s \in ended : live \cap Chain(s) = {}
=============================================================================
