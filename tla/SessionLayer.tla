----------------------------- MODULE SessionLayer -----------------------------
(***************************************************************************)
(* SessionLayer over a MemorySessionStore                                  *)
(* (crates/blazingly-security/src/lib.rs): on_request loads the session    *)
(* the cookie names, the handler changes it, on_response writes it back,   *)
(* removes it or leaves it.  Workers share the store, so that requests     *)
(* with cookies of one session overlap; each of the store's calls takes    *)
(* its lock anew.                                                          *)
(*                                                                         *)
(* What a session holds (subject, scopes, data) is one of a few Contents.  *)
(* Signing is abstracted to this: only cookies the layer issued verify.    *)
(***************************************************************************)
EXTENDS Naturals, FiniteSets

CONSTANTS
  Exchanges,
  Ids,      \* session ids new_session_id may draw
  Subjects, \* subjects a handler logs in
  Anonymous,\* no subject: a session without an identity
  NoId, NoRecord,
  Ttl, Leeway, \* ttl_seconds, and JwtValidation.leeway_seconds
  Horizon, MaxEdits \* bounds on the clock and on a handler's changes

Contents == Subjects \cup {Anonymous}
Record == [subject : Contents, expires : Nat]
Cookie == [sid : Ids \cup {NoId}, subject : Contents, expires : Nat]
Status == {"Unchanged", "Modified", "Cleared"}

SessionAssumption ==
  /\ Ttl \in Nat \ {0} /\ Leeway \in Nat /\ Horizon \in Nat /\ MaxEdits \in Nat
  /\ Anonymous \notin Subjects /\ NoId \notin Ids /\ NoRecord \notin Record

VARIABLES
  stored,  \* the layer has a store; without one the cookie is the session
  clock,     \* unix_time
  store,   \* MemorySessionStore.sessions
  cookies, \* the cookies issued so far
  used,    \* the ids drawn so far
  spc,      \* where each request is in the layer
  read,    \* the record a request has cloned from the store
  session, \* SessionState: id, subject and status
  edits,   \* how often the handler has changed it
  held     \* for each id, the requests that had its session in hand when its
           \* record was last removed (history)

sessionVars == <<stored, clock, store, cookies, used, spc, read, session, edits, held>>

NewSession == [id |-> NoId, subject |-> Anonymous, status |-> "Unchanged"]
Restored(id, subject) == [id |-> id, subject |-> subject, status |-> "Unchanged"]

SessionInit ==
  /\ stored \in BOOLEAN
  /\ clock = 0
  /\ store = [i \in Ids |-> NoRecord]
  /\ cookies = {} /\ used = {}
  /\ spc = [r \in Exchanges |-> "new"]
  /\ read = [r \in Exchanges |-> NoRecord]
  /\ session = [r \in Exchanges |-> NewSession]
  /\ edits = [r \in Exchanges |-> 0]
  /\ held = [i \in Ids |-> {}]

Elapse ==
  /\ clock < Horizon /\ clock' = clock + 1
  /\ UNCHANGED <<stored, store, cookies, used, spc, read, session, edits, held>>

------------------------------------------------------------------------------
(* MemorySessionStore *)

Expired(record) == record.expires <= clock
Save(id, record) == store' = [store EXCEPT ![id] = record] /\ UNCHANGED held

\* The requests that have the session of an id in hand.
Holders(id) == {r \in Exchanges : session[r].id = id /\ spc[r] \in {"loading", "handler"}}

EraseAll(ids) ==
  /\ store' = [i \in Ids |-> IF i \in ids THEN NoRecord ELSE store[i]]
  /\ held' = [i \in Ids |-> IF i \in ids THEN Holders(i) ELSE held[i]]

Erase(id) == EraseAll({id})

\* purge_expired, called by the application.
PurgeExpired ==
  /\ \E i \in Ids : store[i] # NoRecord /\ Expired(store[i])
  /\ EraseAll({i \in Ids : store[i] # NoRecord /\ Expired(store[i])})
  /\ UNCHANGED <<stored, clock, cookies, used, spc, read, session, edits>>

------------------------------------------------------------------------------
(* load, the first half: the cookie is verified, and the record it names is *)
(* cloned under the store's lock.                                           *)

\* verify_token with the validation of the layer: the subject is not required.
Verifies(c) == clock <= c.expires + Leeway

Handles(r, s) ==
  /\ spc' = [spc EXCEPT ![r] = "handler"]
  /\ session' = [session EXCEPT ![r] = s]

LoadNone(r) ==
  /\ spc[r] = "new" /\ Handles(r, NewSession)
  /\ UNCHANGED <<stored, clock, store, cookies, used, read, edits, held>>

LoadSigned(r) ==
  /\ spc[r] = "new" /\ ~stored
  /\ \E c \in cookies : Verifies(c) /\ Handles(r, Restored(c.sid, c.subject))
  /\ UNCHANGED <<stored, clock, store, cookies, used, read, edits, held>>

\* Mutant: a session the store does not know is restored under its old id.
LoadRecordOrId(r) ==
  /\ spc[r] = "new" /\ stored
  /\ \E c \in cookies :
       /\ Verifies(c)
       /\ IF store[c.sid] = NoRecord
          THEN Handles(r, Restored(c.sid, Anonymous)) /\ UNCHANGED read
          ELSE /\ read' = [read EXCEPT ![r] = store[c.sid]]
               /\ session' = [session EXCEPT ![r].id = c.sid]
               /\ spc' = [spc EXCEPT ![r] = "loading"]
  /\ UNCHANGED <<stored, clock, store, cookies, used, edits, held>>

\* A session the store does not know, revoked or expired, is a new one.
LoadRecord(r) ==
  /\ spc[r] = "new" /\ stored
  /\ \E c \in cookies :
       /\ Verifies(c)
       /\ IF store[c.sid] = NoRecord
          THEN Handles(r, NewSession) /\ UNCHANGED read
          ELSE /\ read' = [read EXCEPT ![r] = store[c.sid]]
               /\ session' = [session EXCEPT ![r].id = c.sid]
               /\ spc' = [spc EXCEPT ![r] = "loading"]
  /\ UNCHANGED <<stored, clock, store, cookies, used, edits, held>>

\* The second half, with the lock released: an expired clone removes what the
\* store holds by now under the id.
CheckExpiry(r) ==
  /\ spc[r] = "loading"
  /\ IF Expired(read[r])
     THEN Erase(session[r].id) /\ Handles(r, NewSession)
     ELSE /\ Handles(r, Restored(session[r].id, read[r].subject))
          /\ UNCHANGED <<store, held>>
  /\ read' = [read EXCEPT ![r] = NoRecord]
  /\ UNCHANGED <<stored, clock, cookies, used, edits>>

------------------------------------------------------------------------------
(* The handler *)

Edits(r, s) ==
  /\ spc[r] = "handler" /\ edits[r] < MaxEdits
  /\ edits' = [edits EXCEPT ![r] = @ + 1]
  /\ session' = [session EXCEPT ![r] = s]
  /\ UNCHANGED <<stored, clock, store, cookies, used, spc, read, held>>

\* set_subject; it also stands for a login after a logout.
SetSubject(r) ==
  \E s \in Subjects : Edits(r, [session[r] EXCEPT !.subject = s, !.status = "Modified"])

\* insert, grant_scope and set_scopes: the session is renewed.
Touch(r) == Edits(r, [session[r] EXCEPT !.status = "Modified"])

Clear(r) == Edits(r, [session[r] EXCEPT !.subject = Anonymous, !.status = "Cleared"])

------------------------------------------------------------------------------
(* write *)

Leaves(r) ==
  /\ spc[r] = "handler"
  /\ spc' = [spc EXCEPT ![r] = "done"]

WriteNothing(r) ==
  /\ Leaves(r) /\ session[r].status = "Unchanged"
  /\ UNCHANGED <<stored, clock, store, cookies, used, read, session, edits, held>>

WriteCleared(r) ==
  /\ Leaves(r) /\ session[r].status = "Cleared"
  /\ LET id == session[r].id IN
     IF stored /\ id # NoId
     THEN Erase(id)
     ELSE UNCHANGED <<store, held>>
  /\ UNCHANGED <<stored, clock, cookies, used, read, session, edits>>

\* issue: the record is saved under the id the session has or a new one, and a
\* cookie that expires with it.
WriteModified(r) ==
  /\ Leaves(r) /\ session[r].status = "Modified"
  /\ \E id \in IF stored /\ session[r].id = NoId THEN Ids \ used ELSE {session[r].id} :
       /\ IF stored
          THEN Save(id, [subject |-> session[r].subject, expires |-> clock + Ttl])
          ELSE UNCHANGED <<store, held>>
       /\ used' = used \cup ({id} \ {NoId})
       /\ cookies' = cookies \cup
            {[sid |-> id, subject |-> IF stored THEN Anonymous ELSE session[r].subject,
              expires |-> clock + Ttl]}
  /\ UNCHANGED <<stored, clock, read, session, edits>>

SessionNext ==
  \/ Elapse \/ PurgeExpired
  \/ \E r \in Exchanges :
       \/ LoadNone(r) \/ LoadSigned(r) \/ LoadRecord(r) \/ CheckExpiry(r)
       \/ SetSubject(r) \/ Touch(r) \/ Clear(r)
       \/ WriteNothing(r) \/ WriteCleared(r) \/ WriteModified(r)

SessionSpec == SessionInit /\ [][SessionNext]_sessionVars

------------------------------------------------------------------------------
SessionTypeOK ==
  /\ stored \in BOOLEAN /\ clock \in 0 .. Horizon
  /\ store \in [Ids -> Record \cup {NoRecord}]
  /\ cookies \subseteq Cookie /\ used \subseteq Ids
  /\ spc \in [Exchanges -> {"new", "loading", "handler", "done"}]
  /\ read \in [Exchanges -> Record \cup {NoRecord}]
  /\ session \in [Exchanges -> [id : Ids \cup {NoId}, subject : Contents, status : Status]]
  /\ edits \in [Exchanges -> 0 .. MaxEdits]
  /\ held \in [Ids -> SUBSET Exchanges]

\* A request that loaded a session after its logout cannot bring it back: a
\* record appears under an id that was drawn before only if its saver had the
\* session in hand when the record was removed.
RevivedOnlyByOverlap ==
  [][\A i \in used : store[i] = NoRecord /\ store'[i] # NoRecord =>
       \E r \in Exchanges : spc'[r] = "done" /\ spc[r] = "handler" /\ r \in held[i]]_sessionVars

\* Of whatever requests do to whatever sessions at once: the states are typed,
\* and a session that was removed comes back only so.
SessionsAreSound == []SessionTypeOK /\ RevivedOnlyByOverlap

===============================================================================
