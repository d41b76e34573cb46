------------------------------- MODULE Sessions -------------------------------
(***************************************************************************)
(* Who may command: logins, sessions, users and their roles, and requests  *)
(* and control sockets that use them (trade_post/security/auth.py,         *)
(* trade_post/api/server.py).  Every statement of a handler is an await:   *)
(* reads see the last commit, and a transaction that writes holds the      *)
(* database's write lock from its first write to its commit, which is      *)
(* therefore one step.                                                     *)
(*                                                                         *)
(* A session that was revoked or has expired has ended.  Ids of users and  *)
(* of sessions are never used twice.  users.locked_until is left out: no   *)
(* code sets it.                                                           *)
(***************************************************************************)
EXTENDS Integers, FiniteSets

CONSTANTS
    Tasks,         \* requests and sockets that are served at once
    Users,         \* accounts that exist at some time
    Admin,         \* the account startup creates
    Sids,          \* sessions that can be issued
    Roles,         \* roles an administrator gives
    MaxAttempts,   \* settings.login_max_attempts_per_ip
    None           \* no session, no user, no role

ASSUME SessionsAssumption ==
    /\ IsFiniteSet(Tasks) /\ Tasks # {}
    /\ Admin \in Users /\ None \notin Users
    /\ None \notin Sids
    /\ "admin" \in Roles /\ Roles \subseteq {"viewer", "operator", "admin"}
    /\ MaxAttempts \in Nat \ {0}

VARIABLES
    role,       \* users.role, or "absent" before the account and "deleted" after it
    active,     \* users.account_status is active
    owner,      \* sessions.user_id, None while the session is not issued
    ended,      \* sessions that are revoked or have expired
    failed,     \* failed logins of one address in the lockout window
    pc,         \* per task: where its handler is
    kind,       \* per task: what it was asked for
    sid,        \* per task: the session cookie it came with
    who,        \* per task: the account a login is for
    known,      \* per task: the role it has read
    late,       \* history: per task, its session was over when it was asked
    had         \* history: per task, roles its active user has had since it was asked

vars == <<role, active, owner, ended, failed, pc, kind, sid, who, known, late, had>>

tables == <<role, active, owner, ended, failed>>
local == <<pc, kind, sid, who, known, late, had>>

Kinds == {"command", "manage", "connect", "message"}
Commanding == {"operator", "admin"}

Init ==
    /\ role = [u \in Users |-> IF u = Admin THEN "admin" ELSE "absent"]
    /\ active = [u \in Users |-> TRUE]
    /\ owner = [s \in Sids |-> None]
    /\ ended = {}
    /\ failed = 0
    /\ pc = [t \in Tasks |-> "idle"]
    /\ kind = [t \in Tasks |-> None]
    /\ sid = [t \in Tasks |-> None]
    /\ who = [t \in Tasks |-> None]
    /\ known = [t \in Tasks |-> None]
    /\ late = [t \in Tasks |-> FALSE]
    /\ had = [t \in Tasks |-> {}]

\* The role of user u, if its account is active, with roles r and statuses a.
HeldIn(r, a, u) == IF r[u] \in Roles /\ a[u] THEN {r[u]} ELSE {}

Held(u) == HeldIn(role, active, u)

Over(s) == s \in ended \/ role[owner[s]] = "deleted"

Goto(t, s) == pc' = [pc EXCEPT ![t] = s]

\* The handler is through.
Leave(t) ==
    /\ Goto(t, "idle")
    /\ kind' = [kind EXCEPT ![t] = None]
    /\ sid' = [sid EXCEPT ![t] = None]
    /\ who' = [who EXCEPT ![t] = None]
    /\ known' = [known EXCEPT ![t] = None]
    /\ late' = [late EXCEPT ![t] = FALSE]
    /\ had' = [had EXCEPT ![t] = {}]

-----------------------------------------------------------------------------
(* Login and logout.                                                       *)

\* Mutant: one attempt too many.
LoginCountLoose(t) ==
    /\ pc[t] = "idle"
    /\ failed <= MaxAttempts
    /\ Goto(t, "counted")
    /\ UNCHANGED <<tables, kind, sid, who, known, late, had>>

\* _check_login_rate_limit.
LoginCount(t) ==
    /\ pc[t] = "idle"
    /\ failed < MaxAttempts
    /\ Goto(t, "counted")
    /\ UNCHANGED <<tables, kind, sid, who, known, late, had>>

\* Reads the account and verifies the password: wrong, or there is no account;
\* right, but the account is disabled; right.
LoginRead(t, u) ==
    /\ pc[t] = "counted"
    /\ \/ Goto(t, "reject")
       \/ role[u] \in Roles /\ ~active[u] /\ Goto(t, "disabled")
       \/ role[u] \in Roles /\ active[u] /\ Goto(t, "accept")
    /\ who' = [who EXCEPT ![t] = u]
    /\ UNCHANGED <<tables, kind, sid, known, late, had>>

\* The transaction of the writes.  The account is not looked at again, and may
\* have been deleted: SQLite's foreign keys are off.
LoginAccept(t, s) ==
    /\ pc[t] = "accept"
    /\ owner[s] = None
    /\ owner' = [owner EXCEPT ![s] = who[t]]
    /\ Leave(t)
    /\ UNCHANGED <<role, active, ended, failed>>

LoginReject(t) ==
    /\ pc[t] \in {"reject", "disabled"}
    /\ failed' = IF pc[t] = "reject" THEN failed + 1 ELSE failed
    /\ Leave(t)
    /\ UNCHANGED <<role, active, owner, ended>>

\* The window has moved past some attempts.
WindowMoves ==
    /\ failed > 0
    /\ \E n \in 0 .. failed - 1 : failed' = n
    /\ UNCHANGED <<role, active, owner, ended, local>>

\* Logout revokes the session, whoever asks; or its time is over.
End(s) ==
    /\ owner[s] # None
    /\ s \notin ended
    /\ ended' = ended \cup {s}
    /\ UNCHANGED <<role, active, owner, failed, local>>

-----------------------------------------------------------------------------
(* Requests and messages with a session.                                   *)

\* Begins a request with cookie s, or with it the next message of a socket.
Begin(t, s, k) ==
    /\ Goto(t, "session")
    /\ kind' = [kind EXCEPT ![t] = k]
    /\ sid' = [sid EXCEPT ![t] = s]
    /\ late' = [late EXCEPT ![t] = Over(s)]
    /\ had' = [had EXCEPT ![t] = Held(owner[s])]
    /\ UNCHANGED <<tables, who, known>>

Request(t, s, k) ==
    /\ pc[t] = "idle"
    /\ owner[s] # None
    /\ Begin(t, s, k)

\* Mutant: the session is validated when the socket is opened only.
MessageUnchecked(t) ==
    /\ pc[t] = "open"
    /\ Goto(t, "resolved")
    /\ kind' = [kind EXCEPT ![t] = "message"]
    /\ late' = [late EXCEPT ![t] = Over(sid[t])]
    /\ had' = [had EXCEPT ![t] = Held(owner[sid[t]])]
    /\ UNCHANGED <<tables, who, sid, known>>

Message(t) ==
    /\ pc[t] = "open"
    /\ Begin(t, sid[t], "message")

\* resolve_session, first read: the session.
ReadSession(t) ==
    /\ pc[t] = "session"
    /\ \/ sid[t] \notin ended /\ Goto(t, "user")
          /\ UNCHANGED <<tables, kind, sid, who, known, late, had>>
       \/ sid[t] \in ended /\ Leave(t) /\ UNCHANGED tables

\* Mutant: the account's status is not looked at.
ReadUserAnyStatus(t) ==
    /\ pc[t] = "user"
    /\ LET u == owner[sid[t]]
       IN  /\ role[u] \in Roles
           /\ Goto(t, IF kind[t] = "connect" THEN "open" ELSE "resolved")
           /\ known' = [known EXCEPT ![t] = IF kind[t] = "message" THEN @ ELSE role[u]]
           /\ UNCHANGED <<tables, kind, sid, who, late, had>>

\* resolve_session, second read: the user.  A socket keeps the role it has read
\* when it was opened, and does not use the one it reads with every message.
ReadUser(t) ==
    /\ pc[t] = "user"
    /\ LET u == owner[sid[t]]
       IN  \/ /\ Held(u) # {}
              /\ Goto(t, IF kind[t] = "connect" THEN "open" ELSE "resolved")
              /\ known' = [known EXCEPT ![t] = IF kind[t] = "message" THEN @ ELSE role[u]]
              /\ UNCHANGED <<tables, kind, sid, who, late, had>>
           \/ Held(u) = {} /\ Leave(t) /\ UNCHANGED tables

\* Kill, start, stop, analyze, subscribe.
Command(t) ==
    /\ pc[t] = "resolved"
    /\ kind[t] \in {"command", "message"}
    /\ known[t] \in Commanding
    /\ Goto(t, "acted")
    /\ UNCHANGED <<tables, kind, sid, who, known, late, had>>

\* An administrator's request that has passed its checks.
Manages(t) ==
    /\ pc[t] = "resolved"
    /\ kind[t] = "manage"
    /\ known[t] = "admin"

\* The commit of its transaction, which leaves roles r and status a: running
\* requests have had these as well.
Commit(t, r, a) ==
    /\ role' = r
    /\ active' = a
    /\ had' = [v \in Tasks |-> IF sid[v] = None THEN {}
                               ELSE had[v] \cup HeldIn(r, a, owner[sid[v]])]
    /\ Goto(t, "acted")
    /\ UNCHANGED <<owner, failed, kind, sid, who, known, late>>

CreateUser(t, u, r) ==
    /\ Manages(t)
    /\ role[u] = "absent"
    /\ Commit(t, [role EXCEPT ![u] = r], active)
    /\ UNCHANGED ended

UpdateUser(t, u, r, a) ==
    /\ Manages(t)
    /\ role[u] \in Roles
    /\ Commit(t, [role EXCEPT ![u] = r], [active EXCEPT ![u] = a])
    /\ UNCHANGED ended

\* Revokes the sessions of the account and deletes it, unless it is one's own.
DeleteUser(t, u) ==
    /\ Manages(t)
    /\ role[u] \in Roles
    /\ u # owner[sid[t]]
    /\ Commit(t, [role EXCEPT ![u] = "deleted"], active)
    /\ ended' = ended \cup {s \in Sids : owner[s] = u}

\* The reply of a request; a socket waits for its next message, as it does after
\* a message that is no command or is refused.
Reply(t) ==
    /\ \/ pc[t] = "acted" /\ kind[t] # "message" /\ Leave(t)
       \/ /\ pc[t] \in {"resolved", "acted"} /\ kind[t] = "message"
          /\ Goto(t, "open")
          /\ UNCHANGED <<kind, sid, who, known, late, had>>
    /\ UNCHANGED tables

\* Refused for its role or its token, disconnected, or an exception before the
\* commit.
Abort(t) ==
    /\ pc[t] \notin {"idle", "acted"}
    /\ Leave(t)
    /\ UNCHANGED tables

Login(t) ==
    \/ LoginCount(t)
    \/ \E u \in Users : LoginRead(t, u)
    \/ \E s \in Sids : LoginAccept(t, s)
    \/ LoginReject(t)

Resolve(t) ==
    \/ \E s \in Sids, k \in Kinds \ {"message"} : Request(t, s, k)
    \/ Message(t)
    \/ ReadSession(t)
    \/ ReadUser(t)

Act(t) ==
    \/ Command(t)
    \/ \E u \in Users :
        \/ \E r \in Roles : CreateUser(t, u, r)
        \/ \E r \in Roles, a \in BOOLEAN : UpdateUser(t, u, r, a)
        \/ DeleteUser(t, u)

Next ==
    \/ \E t \in Tasks : Login(t) \/ Resolve(t) \/ Act(t) \/ Reply(t) \/ Abort(t)
    \/ \E s \in Sids : End(s)
    \/ WindowMoves

Spec == Init /\ [][Next]_vars

-----------------------------------------------------------------------------
(* Properties.                                                             *)

\* Every variable has the type its declaration says.
TypeOK ==
    /\ role \in [Users -> Roles \cup {"absent", "deleted"}]
    /\ active \in [Users -> BOOLEAN]
    /\ owner \in [Sids -> Users \cup {None}]
    /\ ended \in SUBSET Sids
    /\ failed \in Nat
    /\ pc \in [Tasks -> {"idle", "counted", "reject", "disabled", "accept",
                         "session", "user", "resolved", "acted", "open"}]
    /\ kind \in [Tasks -> Kinds \cup {None}]
    /\ sid \in [Tasks -> Sids \cup {None}]
    /\ who \in [Tasks -> Users \cup {None}]
    /\ known \in [Tasks -> Roles \cup {None}]
    /\ late \in [Tasks -> BOOLEAN]
    /\ had \in [Tasks -> SUBSET Roles]

\* Session and user are read before the handler acts and may change in between.
\* Still a request, and a message of an open socket, has no effect if its
\* session had ended or its user had been deleted when it came in.
OnlyLiveSessionsAct == \A t \in Tasks : pc[t] = "acted" => ~late[t]

\* A request has an effect only if, at some time since it came in, its user was
\* active with a role that may have this effect.  A socket goes by the role its
\* user had when it was opened, but its user has been active as well.
OnlyEntitledAct ==
    \A t \in Tasks : pc[t] = "acted" =>
        CASE kind[t] = "command" -> had[t] \cap Commanding # {}
          [] kind[t] = "manage"  -> "admin" \in had[t]
          [] OTHER               -> had[t] # {}

\* Logins from one address that overlap count before any of them has recorded
\* its failure: they exceed the limit by the others that are under way, and by
\* no more.
AttemptsBounded == failed < MaxAttempts + Cardinality(Tasks)
=============================================================================
