---------------------------- MODULE SessionsProofs ----------------------------
(***************************************************************************)
(* Proofs about Sessions, for any number of tasks, accounts and sessions:  *)
(* its type invariant, that ended sessions have no effect, that roles are  *)
(* enforced, and how far overlapping logins exceed their limit.            *)
(***************************************************************************)
EXTENDS Sessions, FiniteSetTheorems, TLAPS

-----------------------------------------------------------------------------
(* What a task with a session relies on.                                   *)

\* From Begin on a task has a session, which somebody owns.
Attached(t) ==
    pc[t] \in {"session", "user", "resolved", "acted", "open"} =>
        sid[t] \in Sids /\ owner[sid[t]] \in Users

\* A session that was over stays so, and one of the two reads notices.
OverNoticed(t) ==
    /\ pc[t] = "session" /\ late[t] => Over(sid[t])
    /\ pc[t] = "user" /\ late[t] => role[owner[sid[t]]] = "deleted"
    /\ pc[t] \in {"resolved", "acted"} => ~late[t]

\* The role that is read is one the user has had since the request came in.
RoleNoted(t) ==
    /\ pc[t] \in {"session", "user"} => Held(owner[sid[t]]) \subseteq had[t]
    /\ pc[t] \in {"resolved", "acted"} =>
        had[t] # {} /\ (kind[t] # "message" => known[t] \in had[t])
    /\ pc[t] = "acted" => /\ kind[t] = "command" => known[t] \in Commanding
                          /\ kind[t] = "manage" => known[t] = "admin"

SInv ==
    /\ TypeOK
    /\ \A t \in Tasks : Attached(t) /\ OverNoticed(t) /\ RoleNoted(t)

\* Nobody has a session, and nobody is served, in the beginning.
LEMMA InitSInv == Init => SInv
  BY SessionsAssumption
  DEF Init, SInv, TypeOK, Attached, OverNoticed, RoleNoted

\* A login touches no task that has a session, and the session it creates is
\* nobody's yet.
LEMMA LoginSInv ==
  ASSUME SInv, NEW t \in Tasks, Login(t)
  PROVE  SInv'
  <1>1. CASE LoginCount(t)
    BY <1>1 DEF LoginCount, SInv, TypeOK, Goto, tables, Attached, OverNoticed,
                RoleNoted, Over, Held, HeldIn
  <1>2. ASSUME NEW u \in Users, LoginRead(t, u) PROVE SInv'
    BY <1>2 DEF LoginRead, SInv, TypeOK, Goto, tables, Attached, OverNoticed,
                RoleNoted, Over, Held, HeldIn
  <1>3. ASSUME NEW s \in Sids, LoginAccept(t, s) PROVE SInv'
    <2>1. TypeOK'
      BY <1>3 DEF LoginAccept, Leave, Goto, SInv, TypeOK
    <2>2. ASSUME NEW v \in Tasks
          PROVE  (Attached(v) /\ OverNoticed(v) /\ RoleNoted(v))'
      <3>1. CASE v = t
        BY <1>3, <3>1 DEF LoginAccept, Leave, Goto, SInv, TypeOK, Attached,
                          OverNoticed, RoleNoted
      <3>2. CASE v # t
        BY <1>3, <3>2, SessionsAssumption
        DEF LoginAccept, Leave, Goto, SInv, TypeOK, Attached, OverNoticed,
            RoleNoted, Over, Held, HeldIn
      <3> QED BY <3>1, <3>2
    <2> QED BY <2>1, <2>2 DEF SInv
  <1>4. CASE LoginReject(t)
    BY <1>4 DEF LoginReject, Leave, SInv, TypeOK, Goto, Attached, OverNoticed,
                RoleNoted, Over, Held, HeldIn
  <1> QED BY <1>1, <1>2, <1>3, <1>4 DEF Login

\* What Begin notes about a session is what the reads will be compared with.
LEMMA BeginSInv ==
  ASSUME SInv, NEW t \in Tasks, NEW s \in Sids, NEW k \in Kinds,
         owner[s] \in Users, Begin(t, s, k)
  PROVE  SInv'
  <1>1. Held(owner[s]) \subseteq Roles
    BY DEF Held, HeldIn
  <1>2. TypeOK'
    BY <1>1 DEF Begin, Goto, tables, SInv, TypeOK, Over
  <1>3. ASSUME NEW v \in Tasks
        PROVE  (Attached(v) /\ OverNoticed(v) /\ RoleNoted(v))'
    <2>1. CASE v = t
      BY <2>1 DEF Begin, Goto, tables, SInv, TypeOK, Attached, OverNoticed,
                  RoleNoted, Over, Held, HeldIn
    <2>2. CASE v # t
      BY <2>2 DEF Begin, Goto, tables, SInv, TypeOK, Attached, OverNoticed,
                  RoleNoted, Over, Held, HeldIn
    <2> QED BY <2>1, <2>2
  <1> QED BY <1>2, <1>3 DEF SInv

\* A task that leaves needs no session, and no other task notices.
LEMMA LeaveSInv ==
  ASSUME SInv, NEW t \in Tasks, Leave(t), UNCHANGED tables
  PROVE  SInv'
  BY DEF Leave, Goto, tables, SInv, TypeOK, Attached, OverNoticed, RoleNoted,
         Over, Held, HeldIn

\* The reads of resolve_session, by the earlier state of the session.
LEMMA ResolveSInv ==
  ASSUME SInv, NEW t \in Tasks, Resolve(t)
  PROVE  SInv'
  <1>1. ASSUME NEW s \in Sids, NEW k \in Kinds \ {"message"}, Request(t, s, k)
        PROVE  SInv'
    BY <1>1, BeginSInv DEF Request, SInv, TypeOK
  <1>2. CASE Message(t)
    BY <1>2, BeginSInv DEF Message, SInv, Attached, Kinds
  <1>3. CASE ReadSession(t)
    <2>1. CASE Leave(t) /\ UNCHANGED tables
      BY <2>1, LeaveSInv
    <2>2. CASE /\ sid[t] \notin ended
               /\ Goto(t, "user")
               /\ UNCHANGED <<tables, kind, sid, who, known, late, had>>
      BY <1>3, <2>2 DEF ReadSession, Goto, tables, SInv, TypeOK, Attached,
                        OverNoticed, RoleNoted, Over, Held, HeldIn
    <2> QED BY <1>3, <2>1, <2>2 DEF ReadSession
  <1>4. CASE ReadUser(t)
    <2> DEFINE u == owner[sid[t]]
    <2>1. CASE Leave(t) /\ UNCHANGED tables
      BY <2>1, LeaveSInv
    <2>2. CASE /\ Held(u) # {}
               /\ Goto(t, IF kind[t] = "connect" THEN "open" ELSE "resolved")
               /\ known' = [known EXCEPT ![t] = IF kind[t] = "message" THEN @ ELSE role[u]]
               /\ UNCHANGED <<tables, kind, sid, who, late, had>>
      <3>1. pc[t] = "user" /\ role[u] \in Roles /\ role[u] \in Held(u)
        BY <1>4, <2>2 DEF ReadUser, Held, HeldIn
      <3>2. ~late[t] /\ role[u] \in had[t]
        BY <3>1, SessionsAssumption DEF SInv, OverNoticed, RoleNoted
      <3>3. TypeOK'
        BY <2>2, <3>1 DEF Goto, tables, SInv, TypeOK
      <3>4. ASSUME NEW v \in Tasks
            PROVE  (Attached(v) /\ OverNoticed(v) /\ RoleNoted(v))'
        <4>1. CASE v = t
          BY <2>2, <3>1, <3>2, <4>1 DEF Goto, tables, SInv, TypeOK, Attached,
                                        OverNoticed, RoleNoted
        <4>2. CASE v # t
          BY <2>2, <4>2 DEF Goto, tables, SInv, TypeOK, Attached, OverNoticed,
                            RoleNoted, Over, Held, HeldIn
        <4> QED BY <4>1, <4>2
      <3> QED BY <3>3, <3>4 DEF SInv
    <2> QED BY <1>4, <2>1, <2>2 DEF ReadUser
  <1> QED BY <1>1, <1>2, <1>3, <1>4 DEF Resolve

\* A commit that undoes no deletion keeps sessions over that were over, and is
\* noted for every task that has a session.
LEMMA CommitSInv ==
  ASSUME SInv, NEW t \in Tasks, Manages(t),
         NEW r, NEW a, Commit(t, r, a),
         r \in [Users -> Roles \cup {"absent", "deleted"}],
         a \in [Users -> BOOLEAN],
         \A u \in Users : role[u] = "deleted" => r[u] = "deleted",
         ended' \in SUBSET Sids, ended \subseteq ended'
  PROVE  SInv'
  <1>1. \A u : HeldIn(r, a, u) \subseteq Roles
    BY DEF HeldIn
  <1>2. had' \in [Tasks -> SUBSET Roles]
    BY <1>1 DEF Commit, SInv, TypeOK
  <1>3. TypeOK'
    BY <1>2 DEF Commit, Goto, SInv, TypeOK
  <1>4. ASSUME NEW v \in Tasks
        PROVE  (Attached(v) /\ OverNoticed(v) /\ RoleNoted(v))'
    <2>1. Attached(v)'
      BY DEF Commit, Goto, Manages, SInv, TypeOK, Attached
    <2>2. CASE pc[v] \notin {"session", "user", "resolved", "acted", "open"}
      BY <2>1, <2>2 DEF Commit, Goto, Manages, SInv, TypeOK, OverNoticed, RoleNoted
    <2>3. CASE pc[v] \in {"session", "user", "resolved", "acted", "open"}
      <3>1. sid[v] \in Sids /\ owner[sid[v]] \in Users /\ sid[v] # None
        BY <2>3, SessionsAssumption DEF SInv, Attached
      <3>2. had[v] \subseteq had'[v] /\ Held(owner[sid[v]])' \subseteq had'[v]
        BY <3>1 DEF Commit, Held, HeldIn
      <3>3. OverNoticed(v)'
        BY <3>1 DEF Commit, Goto, Manages, SInv, TypeOK, OverNoticed, Over
      <3>4. RoleNoted(v)'
        BY <3>1, <3>2 DEF Commit, Goto, Manages, SInv, TypeOK, RoleNoted
      <3> QED BY <2>1, <3>3, <3>4
    <2> QED BY <2>2, <2>3
  <1> QED BY <1>3, <1>4 DEF SInv

\* Requests that have an effect.
LEMMA ActSInv ==
  ASSUME SInv, NEW t \in Tasks, Act(t)
  PROVE  SInv'
  <1> USE SessionsAssumption
  <1>1. CASE Command(t)
    BY <1>1 DEF Command, Goto, tables, SInv, TypeOK, Attached, OverNoticed,
                RoleNoted, Over, Held, HeldIn
  <1>2. ASSUME NEW u \in Users, NEW r \in Roles, CreateUser(t, u, r)
        PROVE  SInv'
    <2> DEFINE x == [role EXCEPT ![u] = r]
    <2>1. x \in [Users -> Roles \cup {"absent", "deleted"}]
          /\ \A w \in Users : role[w] = "deleted" => x[w] = "deleted"
      BY <1>2 DEF CreateUser, SInv, TypeOK
    <2> HIDE DEF x
    <2>2. Manages(t) /\ Commit(t, x, active) /\ ended' = ended
      BY <1>2 DEF CreateUser, x
    <2> QED BY <2>1, <2>2, CommitSInv DEF SInv, TypeOK
  <1>3. ASSUME NEW u \in Users, NEW r \in Roles, NEW a \in BOOLEAN,
               UpdateUser(t, u, r, a)
        PROVE  SInv'
    <2> DEFINE x == [role EXCEPT ![u] = r]
               y == [active EXCEPT ![u] = a]
    <2>1. x \in [Users -> Roles \cup {"absent", "deleted"}]
          /\ \A w \in Users : role[w] = "deleted" => x[w] = "deleted"
      BY <1>3 DEF UpdateUser, SInv, TypeOK
    <2>2. y \in [Users -> BOOLEAN]
      BY DEF SInv, TypeOK
    <2> HIDE DEF x, y
    <2>3. Manages(t) /\ Commit(t, x, y) /\ ended' = ended
      BY <1>3 DEF UpdateUser, x, y
    <2> QED BY <2>1, <2>2, <2>3, CommitSInv DEF SInv, TypeOK
  <1>4. ASSUME NEW u \in Users, DeleteUser(t, u)
        PROVE  SInv'
    <2> DEFINE x == [role EXCEPT ![u] = "deleted"]
    <2>1. x \in [Users -> Roles \cup {"absent", "deleted"}]
          /\ \A w \in Users : role[w] = "deleted" => x[w] = "deleted"
      BY <1>4 DEF DeleteUser, SInv, TypeOK
    <2> HIDE DEF x
    <2>2. /\ Manages(t) /\ Commit(t, x, active)
          /\ ended' \in SUBSET Sids /\ ended \subseteq ended'
      BY <1>4 DEF DeleteUser, SInv, TypeOK, x
    <2> QED BY <2>1, <2>2, CommitSInv DEF SInv, TypeOK
  <1> QED BY <1>1, <1>2, <1>3, <1>4 DEF Act

\* Every step keeps the invariant.
LEMMA NextSInv == SInv /\ [Next]_vars => SInv'
  <1> SUFFICES ASSUME SInv, [Next]_vars PROVE SInv'
    OBVIOUS
  <1>1. ASSUME NEW t \in Tasks, Reply(t) PROVE SInv'
    <2>1. CASE Leave(t) /\ UNCHANGED tables
      BY <2>1, LeaveSInv
    <2>2. CASE /\ Goto(t, "open")
               /\ UNCHANGED <<tables, kind, sid, who, known, late, had>>
      BY <1>1, <2>2 DEF Reply, Goto, tables, SInv, TypeOK, Attached, OverNoticed,
                        RoleNoted, Over, Held, HeldIn
    <2> QED BY <1>1, <2>1, <2>2 DEF Reply
  <1>2. ASSUME NEW t \in Tasks, Abort(t) PROVE SInv'
    BY <1>2, LeaveSInv DEF Abort
  <1>3. ASSUME NEW s \in Sids, End(s) PROVE SInv'
    BY <1>3 DEF End, local, SInv, TypeOK, Attached, OverNoticed, RoleNoted,
                Over, Held, HeldIn
  <1>4. CASE WindowMoves
    BY <1>4 DEF WindowMoves, local, SInv, TypeOK, Attached, OverNoticed,
                RoleNoted, Over, Held, HeldIn
  <1>5. CASE UNCHANGED vars
    BY <1>5 DEF vars, SInv, TypeOK, Attached, OverNoticed, RoleNoted, Over,
                Held, HeldIn
  <1> QED
    BY <1>1, <1>2, <1>3, <1>4, <1>5, LoginSInv, ResolveSInv, ActSInv DEF Next

\* The invariant holds in every reachable state.
LEMMA AlwaysSInv == Spec => []SInv
  BY InitSInv, NextSInv, PTL DEF Spec

\* Every variable of logins, sessions and users keeps its type.
THEOREM SessionsTypeCorrect == Spec => []TypeOK
  <1>1. SInv => TypeOK
    BY DEF SInv
  <1> QED BY <1>1, AlwaysSInv, PTL

\* A request or message with a session that was over has no effect
\* (resolve_session).
THEOREM EndedSessionsAreIdle == Spec => []OnlyLiveSessionsAct
  <1>1. SInv => OnlyLiveSessionsAct
    BY DEF SInv, OverNoticed, OnlyLiveSessionsAct
  <1> QED BY <1>1, AlwaysSInv, PTL

\* Commands and user management need a role that the user has had since the
\* request came in, and a message a user that has been active (require_role,
\* ws_control).
THEOREM RolesAreEnforced == Spec => []OnlyEntitledAct
  <1>1. SInv => OnlyEntitledAct
    BY DEF SInv, RoleNoted, OnlyEntitledAct, Commanding
  <1> QED BY <1>1, AlwaysSInv, PTL

-----------------------------------------------------------------------------
(* Attempts.                                                               *)

\* Logins that may still record a failure.
Pending == {t \in Tasks : pc[t] \in {"counted", "reject"}}

\* A login is let in below the limit only, when every other task may be pending.
AInv == failed + Cardinality(Pending) < MaxAttempts + Cardinality(Tasks)

\* The pending logins are finitely many.
LEMMA PendingFinite ==
  /\ IsFiniteSet(Pending) /\ Cardinality(Pending) \in Nat
  /\ Cardinality(Pending) <= Cardinality(Tasks)
  /\ Cardinality(Tasks) \in Nat
  <1>1. Pending \subseteq Tasks
    BY DEF Pending
  <1> QED BY <1>1, SessionsAssumption, FS_Subset, FS_CardinalityType

\* The same after a step.
LEMMA PendingFiniteNext ==
  /\ IsFiniteSet(Pending') /\ Cardinality(Pending') \in Nat
  /\ Cardinality(Pending') <= Cardinality(Tasks)
  <1>1. Pending' \subseteq Tasks
    BY DEF Pending
  <1> QED BY <1>1, SessionsAssumption, FS_Subset, FS_CardinalityType

\* Fewer pending logins and no more failures keep the bound.
LEMMA FewerPending ==
  ASSUME AInv, TypeOK, TypeOK', failed' <= failed, Pending' \subseteq Pending
  PROVE  AInv'
  <1>1. Cardinality(Pending') <= Cardinality(Pending)
    BY PendingFinite, FS_Subset
  <1> QED
    BY <1>1, PendingFinite, PendingFiniteNext, SessionsAssumption DEF AInv, TypeOK

\* Every step keeps the bound: LoginCount adds a pending login below the limit,
\* LoginReject turns one into a failure.
LEMMA NextAInv == AInv /\ TypeOK /\ TypeOK' /\ [Next]_vars => AInv'
  <1> SUFFICES ASSUME AInv, TypeOK, TypeOK', [Next]_vars PROVE AInv'
    OBVIOUS
  <1>1. ASSUME NEW t \in Tasks, LoginCount(t) PROVE AInv'
    BY <1>1, PendingFiniteNext, PendingFinite, SessionsAssumption
    DEF LoginCount, AInv, TypeOK, Goto, tables
  <1>2. ASSUME NEW t \in Tasks, NEW u \in Users, LoginRead(t, u) PROVE AInv'
    BY <1>2, FewerPending DEF LoginRead, TypeOK, Goto, tables, Pending
  <1>3. ASSUME NEW t \in Tasks, NEW s \in Sids, LoginAccept(t, s) PROVE AInv'
    BY <1>3, FewerPending DEF LoginAccept, Leave, TypeOK, Goto, Pending
  <1>4. ASSUME NEW t \in Tasks, LoginReject(t) PROVE AInv'
    <2>1. CASE pc[t] = "reject"
      <3>1. t \in Pending /\ Pending' = Pending \ {t} /\ failed' = failed + 1
        BY <1>4, <2>1 DEF LoginReject, Leave, TypeOK, Goto, Pending
      <3>2. Cardinality(Pending') = Cardinality(Pending) - 1
        BY <3>1, PendingFinite, FS_RemoveElement
      <3> QED
        BY <3>1, <3>2, PendingFinite, SessionsAssumption DEF AInv, TypeOK
    <2>2. CASE pc[t] # "reject"
      BY <1>4, <2>2, FewerPending DEF LoginReject, Leave, TypeOK, Goto, Pending
    <2> QED BY <2>1, <2>2
  <1>5. ASSUME NEW t \in Tasks, Resolve(t) \/ Act(t) \/ Reply(t) \/ Abort(t)
        PROVE  AInv'
    <2>1. failed' = failed
      BY <1>5 DEF Resolve, Request, Message, Begin, ReadSession, ReadUser, Act,
                  Command, CreateUser, UpdateUser, DeleteUser, Commit, Reply,
                  Abort, tables
    <2>2. \E x \in {"idle", "session", "user", "resolved", "acted", "open"} :
            Goto(t, x)
      BY <1>5 DEF Resolve, Request, Message, Begin, ReadSession, ReadUser, Act,
                  Command, CreateUser, UpdateUser, DeleteUser, Commit, Reply,
                  Abort, Leave
    <2>3. Pending' \subseteq Pending
      BY <2>2 DEF Goto, Pending, TypeOK
    <2> QED BY <2>1, <2>3, FewerPending DEF TypeOK
  <1>6. ASSUME NEW s \in Sids, End(s) PROVE AInv'
    BY <1>6, FewerPending DEF End, local, TypeOK, Pending
  <1>7. CASE WindowMoves
    BY <1>7, FewerPending DEF WindowMoves, local, TypeOK, Pending
  <1>8. CASE UNCHANGED vars
    BY <1>8, FewerPending DEF vars, TypeOK, Pending
  <1> QED
    BY <1>1, <1>2, <1>3, <1>4, <1>5, <1>6, <1>7, <1>8 DEF Next, Login

\* The failed logins of an address exceed the limit by the other tasks at most
\* (_check_login_rate_limit).
THEOREM BoundsAttempts == Spec => []AttemptsBounded
  <1>1. Init => AInv
    <2>1. ASSUME Init PROVE Pending = {}
      BY <2>1 DEF Init, Pending
    <2> QED
      BY <2>1, PendingFinite, FS_EmptySet, SessionsAssumption DEF Init, AInv
  <1>2. AInv /\ TypeOK => AttemptsBounded
    BY PendingFinite, SessionsAssumption DEF AInv, AttemptsBounded, TypeOK
  <1> QED BY <1>1, <1>2, NextAInv, SessionsTypeCorrect, PTL DEF Spec
=============================================================================
