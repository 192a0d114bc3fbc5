------------------------------ MODULE Accounts ------------------------------
(***************************************************************************)
(* One account: logins, sessions and the self-service password change of   *)
(* src/lib/auth/session.ts, src/app/(auth)/actions.ts and                  *)
(* src/app/(app)/account/password/actions.ts.  A password is the number of *)
(* the change that set it; 0 is the first.  Hashing a password takes long, *)
(* so logins and changes of the account overlap.                           *)
(***************************************************************************)
EXTENDS Environment, FiniteSets

CONSTANTS
  Logins,      \* login requests
  Changes,     \* password changes: numbers, a change sets the password to its own
  SessionTtl   \* how long a session lives

ASSUME AccountAssumption ==
  Changes \subseteq Nat \ {0} /\ SessionTtl \in Nat \ {0}

VARIABLES
  active,     \* User.active
  password,   \* User.passwordHash: whose change it is
  sessions,   \* the Session rows, by the login that created them
  logins,     \* the login requests
  changes,    \* the changes
  excused     \* history: sessions a change does not reach: its own, those
              \* whose login overlapped it, all when it lost its own session

accountVars == <<active, password, sessions, logins, changes, excused>>

Asked == [st |-> "asked"]
NoSession == [at |-> 0]
Live(x) == sessions[x] # NoSession /\ clock <= sessions[x].until /\ active

AccountInit ==
  /\ active = TRUE
  /\ password = 0
  /\ sessions = [x \in Logins |-> NoSession]
  /\ logins = [x \in Logins |-> Asked]
  /\ changes = [c \in Changes |-> Asked]
  /\ excused = {}
-----------------------------------------------------------------------------
Changing == {c \in Changes : changes[c].st \in {"verify", "resolve", "revoke", "write"}}
LoggingIn == {x \in Logins : logins[x].st = "create"}

\* login: findUnique, verifyPassword, active.  What is typed is the password
\* that is stored, or the request ends in LOGIN_FAILED.
CheckPassword(x) ==
  /\ logins[x] = Asked /\ active
  /\ logins' = [logins EXCEPT ![x] = [st |-> "create", with |-> password]]
  /\ excused' = IF Changing # {} THEN excused \cup {x} ELSE excused
  /\ Calm
  /\ UNCHANGED <<active, password, sessions, changes>>

\* createSession, and lastLoginAt, which nothing reads.
CreateSession(x) ==
  /\ logins[x].st = "create"
  /\ sessions' = [sessions EXCEPT ![x] =
       [at |-> clock, until |-> clock + SessionTtl, with |-> logins[x].with]]
  /\ logins' = [logins EXCEPT ![x] = [st |-> "in"]]
  /\ Calm
  /\ UNCHANGED <<active, password, changes, excused>>

\* resolveSession by any page or action: an expired session is deleted.
Resolve(x) ==
  /\ sessions[x] # NoSession /\ sessions[x].until < clock
  /\ sessions' = [sessions EXCEPT ![x] = NoSession]
  /\ Calm
  /\ UNCHANGED <<active, password, logins, changes, excused>>

\* logout: destroySession.
Logout(x) ==
  /\ sessions[x] # NoSession
  /\ sessions' = [sessions EXCEPT ![x] = NoSession]
  /\ Calm
  /\ UNCHANGED <<active, password, logins, changes, excused>>

\* An administrator's edit of the row; no code of the application does it.
SetActive(b) ==
  /\ active # b
  /\ active' = b
  /\ Upset
  /\ UNCHANGED <<password, sessions, logins, changes, excused>>
-----------------------------------------------------------------------------
(* changePassword.                                                         *)

\* withAction: requireUser, validated input.
BeginChange(c, x) ==
  /\ changes[c] = Asked
  /\ Live(x)
  /\ changes' = [changes EXCEPT ![c] = [st |-> "verify", by |-> x]]
  /\ excused' = excused \cup LoggingIn
  /\ Calm
  /\ UNCHANGED <<active, password, sessions, logins>>

\* findUnique and verifyPassword: the person types the password of then, or
\* the change is denied.
VerifyCurrent(c, right) ==
  /\ changes[c].st = "verify"
  /\ changes' = [changes EXCEPT ![c].st = IF right THEN "resolve" ELSE "denied"]
  /\ Calm
  /\ UNCHANGED <<active, password, sessions, logins, excused>>

\* resolveSession once more: without a session nothing is revoked.
ResolveAgain(c) ==
  /\ changes[c].st = "resolve"
  /\ LET x == changes[c].by
     IN  /\ changes' = [changes EXCEPT ![c].st = IF Live(x) THEN "revoke" ELSE "write"]
         /\ excused' = IF Live(x) THEN excused \cup {x} ELSE Logins
         /\ sessions' = IF sessions[x] # NoSession /\ sessions[x].until < clock
                        THEN [sessions EXCEPT ![x] = NoSession] ELSE sessions
  /\ Calm
  /\ UNCHANGED <<active, password, logins>>

\* deleteMany: the account's sessions but this one.
\* (RevokedExpired takes only those that are over.)
RevokedExpired(c) == {x \in Logins : sessions[x] # NoSession /\ sessions[x].until < clock}
Revoked(c) == Logins \ {changes[c].by}

Revoke(c) ==
  /\ changes[c].st = "revoke"
  /\ sessions' = [x \in Logins |-> IF x \in Revoked(c) THEN NoSession ELSE sessions[x]]
  /\ changes' = [changes EXCEPT ![c].st = "write"]
  /\ Calm
  /\ UNCHANGED <<active, password, logins, excused>>

\* hashPassword, then the update.
WritePassword(c) ==
  /\ changes[c].st = "write"
  /\ password' = c
  /\ changes' = [changes EXCEPT ![c].st = "changed"]
  /\ Calm
  /\ UNCHANGED <<active, sessions, logins, excused>>

\* The process dies or a statement is rejected.
ChangeDies(c) ==
  /\ c \in Changing
  /\ changes' = [changes EXCEPT ![c].st = "denied"]
  /\ Upset
  /\ UNCHANGED <<active, password, sessions, logins, excused>>

AccountNext ==
  \/ \E x \in Logins : CheckPassword(x) \/ CreateSession(x) \/ Resolve(x) \/ Logout(x)
  \/ \E b \in BOOLEAN : SetActive(b)
  \/ \E c \in Changes :
       \/ \E x \in Logins : BeginChange(c, x)
       \/ \E right \in BOOLEAN : VerifyCurrent(c, right)
       \/ ResolveAgain(c)
       \/ Revoke(c)
       \/ WritePassword(c)
       \/ ChangeDies(c)
-----------------------------------------------------------------------------
\* "Every other session is revoked": a session that was opened with another
\* password than the stored one is the session of a change, or its login and
\* a change overlapped, or a change had lost its own session when it came to
\* revoke the others.
OldSessionsGone ==
  \A x \in Logins :
    sessions[x] # NoSession /\ sessions[x].with # password => x \in excused
=============================================================================
