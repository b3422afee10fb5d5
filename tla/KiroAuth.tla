------------------------------ MODULE KiroAuth ------------------------------
(***************************************************************************)
(* Token refresh of the CodeWhisperer backend: sqliteKiroAuth in           *)
(* codewhisperer.go.  The tokens live in a SQLite database; a backend      *)
(* reads them again for every use.  NewCodeWhisperer gives every backend a *)
(* source of its own, with a mutex of its own: the module is about one     *)
(* source.  Callers are the goroutines that use it (a stream and a listing *)
(* of models, or a stream that was refused): each one asks for a token, or *)
(* wants it refreshed, under the mutex mu.  The other sources, of this     *)
(* process (every open session has one) and of others (the Kiro CLI),      *)
(* refresh the same tokens and do not take mu.                             *)
(*                                                                         *)
(* Access and refresh tokens are numbered as the server issues them; a     *)
(* response may leave the refresh token out.  That the token in the store  *)
(* expires soon is a flag that may be raised at any time.                  *)
(***************************************************************************)
EXTENDS Integers, FiniteSets

CONSTANTS Callers, NoToken, MaxIssued

ASSUME AuthAssumption == NoToken \notin Callers /\ MaxIssued \in Nat

VARIABLES
  store,      \* the database: [access, refresh, expiring], and whether another
              \* source put it there (history)
  cached,     \* s.state, as this source first read it, or NoToken
  issued,     \* tokens issued so far
  abroad,     \* tokens issued to other sources, which have yet to store them
  mu,         \* the caller that holds mu, or NoToken
  where,      \* position of each caller
  seen,       \* the state a caller works with, as load returned it
  forced,     \* the caller called Refresh itself, after a 401
  retired,    \* history: refresh tokens this source has replaced
  reused,     \* history: callers that sent a retired one in this call
  blind       \* history: callers one of whose reads failed in this call

authHistory == <<retired, reused, blind>>
authVars == <<store, cached, issued, abroad, mu, where, seen, forced, authHistory>>

Nothing == [access |-> 0, refresh |-> 0, expiring |-> FALSE, foreign |-> FALSE]

AuthInit ==
  /\ store = Nothing
  /\ cached = NoToken /\ issued = 0 /\ abroad = {} /\ mu = NoToken
  /\ where = [c \in Callers |-> "idle"]
  /\ seen = [c \in Callers |-> Nothing]
  /\ forced = [c \in Callers |-> FALSE]
  /\ retired = {} /\ reused = {} /\ blind = {}

Tokens(s) == [Nothing EXCEPT !.access = s.access, !.refresh = s.refresh]
Move(c, p) == where' = [where EXCEPT ![c] = p]

(* The call returns; its local variables are gone.                         *)
Leaves(c) ==
  /\ Move(c, "done")
  /\ seen' = [seen EXCEPT ![c] = Nothing]

(* load returns s: the tokens in the store, or, when they cannot be read,  *)
(* those this source read first.                                           *)
Loads(c, s) ==
  \/ /\ s = store
     /\ cached' = IF cached = NoToken THEN store ELSE cached
     /\ UNCHANGED blind
  \/ /\ cached # NoToken /\ s = cached
     /\ blind' = blind \cup {c}
     /\ UNCHANGED cached

(* AccessToken; or Refresh, by a stream that was answered 401 or 403.      *)
CallAuth(c) ==
  /\ where[c] = "idle"
  /\ \E f \in BOOLEAN :
       forced' = [forced EXCEPT ![c] = f] /\ Move(c, IF f THEN "lock" ELSE "load")
  /\ UNCHANGED <<store, cached, issued, abroad, mu, seen, authHistory>>

LoadFirst(c) ==
  /\ where[c] = "load"
  /\ \E s \in {store, cached} :
       /\ Loads(c, s)
       /\ IF s.expiring THEN Move(c, "lock") /\ seen' = [seen EXCEPT ![c] = Tokens(s)] ELSE Leaves(c)
  /\ UNCHANGED <<store, issued, abroad, mu, forced, retired, reused>>

(* Mutant: the refresh token is chosen from the tokens read before the     *)
(* lock was taken.                                                         *)
LockRefreshStale(c) ==
  /\ where[c] = "lock" /\ mu = NoToken
  /\ mu' = c
  /\ Move(c, "send")
  /\ UNCHANGED <<store, cached, issued, abroad, seen, forced, authHistory>>

(* Mutant: Refresh is not serialized.                                      *)
LockRefreshShared(c) ==
  /\ where[c] = "lock"
  /\ mu' = c
  /\ \E s \in {store, cached} : Loads(c, s) /\ seen' = [seen EXCEPT ![c] = Tokens(s)]
  /\ Move(c, "reread")
  /\ UNCHANGED <<store, issued, abroad, forced, retired, reused>>

LockRefresh(c) ==
  /\ where[c] = "lock" /\ mu = NoToken
  /\ mu' = c
  /\ \E s \in {store, cached} : Loads(c, s) /\ seen' = [seen EXCEPT ![c] = Tokens(s)]
  /\ Move(c, "reread")
  /\ UNCHANGED <<store, issued, abroad, forced, retired, reused>>

(* Refresh returns, with or without an error: AccessToken reads the tokens *)
(* once more (or returns the ones it has).                                 *)
Unlock(c) ==
  /\ mu' = NoToken
  /\ seen' = [seen EXCEPT ![c] = Nothing]
  /\ Move(c, IF forced[c] THEN "done" ELSE "last")

(* "Another process may have already refreshed it": since load, a moment   *)
(* ago.  Otherwise the refresh token to send is the one in the store.      *)
ReadAgain(c) ==
  /\ where[c] = "reread"
  /\ \/ /\ store.access # seen[c].access /\ ~store.expiring
        /\ Unlock(c) /\ UNCHANGED blind
     \/ /\ store.access = seen[c].access \/ store.expiring
        /\ seen' = [seen EXCEPT ![c].refresh = store.refresh]
        /\ Move(c, "send") /\ UNCHANGED <<mu, blind>>
     \/ /\ blind' = blind \cup {c}
        /\ Move(c, "send") /\ UNCHANGED <<mu, seen>>
  /\ UNCHANGED <<store, cached, issued, abroad, forced, retired, reused>>

(* refreshOIDC, refreshSocial: the request.  The response has an access    *)
(* token, which is put into seen until it is stored, and perhaps a refresh *)
(* token.                                                                  *)
SendRefresh(c) ==
  /\ where[c] = "send"
  /\ reused' = IF seen[c].refresh \in retired THEN reused \cup {c} ELSE reused
  /\ \/ Unlock(c) /\ UNCHANGED issued                     \* an error
     \/ /\ issued < MaxIssued /\ issued' = issued + 1
        /\ \E r \in {seen[c].refresh, issued'} :
             seen' = [seen EXCEPT ![c] =
               [Nothing EXCEPT !.access = issued', !.refresh = r]]
        /\ Move(c, "store") /\ UNCHANGED mu
  /\ UNCHANGED <<store, cached, abroad, forced, retired, blind>>

(* kiroUpdateSQLiteTokens: one transaction.  A response without a refresh  *)
(* token leaves the one in the store.                                      *)
StoreTokens(c) ==
  /\ where[c] = "store"
  /\ \/ UNCHANGED <<store, retired>>                                \* sqlite3 fails
     \/ LET new == seen[c].refresh = seen[c].access
            refresh == IF new THEN seen[c].refresh ELSE store.refresh
        IN  /\ store' = [seen[c] EXCEPT !.refresh = refresh]
            /\ retired' = retired \cup ({store.refresh} \ {refresh})
  /\ Unlock(c)
  /\ UNCHANGED <<cached, issued, abroad, forced, reused, blind>>

LoadLast(c) ==
  /\ where[c] = "last"
  /\ \E s \in {store, cached} : Loads(c, s)
  /\ Leaves(c)
  /\ UNCHANGED <<store, issued, abroad, mu, forced, retired, reused>>

(* A later call of the same goroutine.                                     *)
AgainAuth(c) ==
  /\ where[c] = "done"
  /\ Move(c, "idle")
  /\ forced' = [forced EXCEPT ![c] = FALSE]
  /\ reused' = reused \ {c} /\ blind' = blind \ {c}
  /\ UNCHANGED <<store, cached, issued, abroad, mu, seen, retired>>

ExpireSoon ==
  /\ ~store.expiring
  /\ store' = [store EXCEPT !.expiring = TRUE]
  /\ UNCHANGED <<cached, issued, abroad, mu, where, seen, forced, authHistory>>

(* Another source is answered with a token, and later stores it, with a    *)
(* refresh token or without one.                                           *)
ForeignRefresh ==
  /\ issued < MaxIssued /\ issued' = issued + 1
  /\ abroad' = abroad \cup {issued'}
  /\ UNCHANGED <<store, cached, mu, where, seen, forced, authHistory>>

ForeignStore ==
  /\ \E n \in abroad : \E r \in {n, store.refresh} :
       /\ store' = [access |-> n, refresh |-> r, expiring |-> FALSE, foreign |-> TRUE]
       /\ abroad' = abroad \ {n}
  /\ UNCHANGED <<cached, issued, mu, where, seen, forced, authHistory>>

AuthStep(c) ==
  \/ LoadFirst(c) \/ LockRefresh(c) \/ ReadAgain(c) \/ SendRefresh(c)
  \/ StoreTokens(c) \/ LoadLast(c)

AuthNext ==
  \/ ExpireSoon \/ ForeignRefresh \/ ForeignStore
  \/ \E c \in Callers : CallAuth(c) \/ AuthStep(c) \/ AgainAuth(c)

AuthSpec == AuthInit /\ [][AuthNext]_authVars

-----------------------------------------------------------------------------
(* Properties.                                                             *)

(* A refresh token that this source has replaced in the store is not sent  *)
(* by it again, unless a read failed: load then falls back on the tokens   *)
(* of the first read (codewhisperer.go:630).                               *)
RetiredNotReused == reused \subseteq blind

(* No refresh of this source puts an older token over a newer one of its   *)
(* own: request and update are under mu.  Other sources, those of the      *)
(* other sessions of this process included, do not take it, and may.       *)
StoreMovesForward ==
  [][store'.access >= store.access \/ store.foreign \/ store'.foreign]_authVars

=============================================================================
