--------------------------- MODULE DatabaseProofs ---------------------------
(***************************************************************************)
(* Theorems about Database, for any number and size of migrations, any     *)
(* requests, and any order of stops, starts, requests and trades.          *)
(***************************************************************************)
EXTENDS Database, TLAPS

USE DatabaseAssumption

-----------------------------------------------------------------------------
(* The inductive invariant.                                                *)

\* Who has a transaction open where, and what its content still shares with disk.
LockInv ==
    /\ writer = None => work = disk
    /\ phase \in {"versions", "created"} <=> writer = "startup"
    /\ writer = "engine" => phase = "ready"
    /\ traded <=> writer = "engine"
    /\ phase # "ready" => /\ job = "idle"
                          /\ \A r \in Requests : pc[r] \notin {"begun", "changed"}
    /\ work.changed = disk.changed /\ work.audited = disk.audited
    /\ phase # "created" => work.admin = disk.admin
    /\ writer # "engine" => work.cash = disk.cash

Whole(content, v) == content.done[v] = IF v \in content.recorded THEN Size[v] ELSE 0

\* On disk every version is whole; in the transaction of a start at most the one
\* it is at is not, and those before it are recorded.
MigrationInv ==
    /\ \A v \in 1 .. Versions : Whole(disk, v)
    /\ \A v \in 1 .. Versions :
        \/ Whole(work, v)
        \/ phase = "versions" /\ v = version /\ v \notin work.recorded
             /\ work.done[v] <= Size[v]
    /\ phase = "versions" =>
        /\ version >= 1
        /\ disk.base = BaseSize /\ work.base = BaseSize
        /\ 0 .. version - 1 \subseteq work.recorded
    /\ phase \in {"admin", "bootstrap", "created", "ready"} =>
        /\ disk.base = BaseSize /\ work.base = BaseSize
        /\ disk.recorded = 0 .. Versions /\ work.recorded = 0 .. Versions

\* A made-up password that is committed is the one shown last, whatever the phase;
\* a password is shown only while there is no account.
ShownInv ==
    /\ disk.admin \in Passwords => disk.admin = shown
    /\ phase \in {"bootstrap", "created"} => disk.admin = "absent"
    /\ phase = "created" /\ work.admin \in Passwords => work.admin = shown

\* How far a request has come, on disk.
RequestInv ==
    /\ \A r \in Requests :
        /\ pc[r] \in {"new", "begun"} => r \notin disk.changed
        /\ pc[r] = "changed" => r \in disk.changed \cup Empty
        /\ pc[r] = "ok" => r \in disk.audited
    /\ disk.audited \subseteq disk.changed \cup Empty

\* No fill is ever on disk.
CashInv == disk.cash = 0 /\ "fail" \notin verdicts

IInv == LockInv /\ MigrationInv /\ ShownInv /\ RequestInv /\ CashInv

-----------------------------------------------------------------------------
(* Types.                                                                  *)

\* The database a release has left has its type, and every version in it is whole.
LEMMA ReleasedType ==
    ASSUME NEW n \in -1 .. Versions
    PROVE  /\ Released(n) \in Content
           /\ Released(n).changed = {} /\ Released(n).audited = {}
           /\ Released(n).admin \in {"absent", "own"} /\ Released(n).cash = 0
           /\ \A v \in 1 .. Versions : Whole(Released(n), v)
<1>1. n \in Int /\ 0 .. n \subseteq 0 .. Versions
  OBVIOUS
<1>2. [v \in 1 .. Versions |-> IF v <= n THEN Size[v] ELSE 0] \in [1 .. Versions -> Nat]
  OBVIOUS
<1> QED
  BY <1>1, <1>2 DEF Released, Content, Accounts, Whole

\* Every change that a statement makes keeps the type of the content.
LEMMA ContentTypes ==
    ASSUME NEW c \in Content
    PROVE  /\ c.base < BaseSize => [c EXCEPT !.base = @ + 1] \in Content
           /\ \A v \in 0 .. Versions : [c EXCEPT !.recorded = @ \cup {v}] \in Content
           /\ \A v \in 0 .. Versions : [c EXCEPT !.done[v] = @ + 1] \in Content
           /\ \A a \in Accounts : [c EXCEPT !.admin = a] \in Content
           /\ \A r \in Requests, a \in Accounts :
                [c EXCEPT !.changed = @ \cup {r}, !.admin = a] \in Content
           /\ \A r \in Requests : [c EXCEPT !.audited = @ \cup {r}] \in Content
           /\ \A x \in Cash : [c EXCEPT !.cash = x] \in Content
<1>1. c.base < BaseSize => c.base + 1 \in 0 .. BaseSize
  BY DEF Content
<1>2. ASSUME NEW v \in 0 .. Versions
      PROVE  [c.done EXCEPT ![v] = @ + 1] \in [1 .. Versions -> Nat]
  <2>1. c.done \in [1 .. Versions -> Nat]
    BY DEF Content
  <2>2. v \in 1 .. Versions => c.done[v] + 1 \in Nat
    BY <2>1
  <2> QED
    BY <2>1, <2>2
<1>3. \A v \in 0 .. Versions : c.recorded \cup {v} \in SUBSET (0 .. Versions)
  BY DEF Content
<1>4. /\ c.base < BaseSize => [c EXCEPT !.base = @ + 1] \in Content
      /\ \A v \in 0 .. Versions : [c EXCEPT !.recorded = @ \cup {v}] \in Content
      /\ \A v \in 0 .. Versions : [c EXCEPT !.done[v] = @ + 1] \in Content
  BY <1>1, <1>2, <1>3 DEF Content
<1>5. /\ \A a \in Accounts : [c EXCEPT !.admin = a] \in Content
      /\ \A x \in Cash : [c EXCEPT !.cash = x] \in Content
  BY DEF Content
<1>6. /\ \A r \in Requests, a \in Accounts :
           [c EXCEPT !.changed = @ \cup {r}, !.admin = a] \in Content
      /\ \A r \in Requests : [c EXCEPT !.audited = @ \cup {r}] \in Content
  BY DEF Content
<1> QED
  BY <1>4, <1>5, <1>6

\* What a request to change an account leaves: nothing, or one more change.
LEMMA ChangeCases ==
    ASSUME TypeOK, NEW r \in Requests, Change(r)
    PROVE  /\ pc[r] = "begun" /\ pc' = [pc EXCEPT ![r] = "changed"]
           /\ UNCHANGED <<writer, phase, version, shown, job, verdicts, traded>>
           /\ \/ r \in Empty /\ disk' = disk /\ work' = work
              \/ /\ r \notin Empty /\ writer = None
                 /\ disk' \in Content /\ work' = disk'
                 /\ disk'.base = disk.base /\ disk'.recorded = disk.recorded
                 /\ disk'.done = disk.done /\ disk'.admin \in {disk.admin, "absent", "own"}
                 /\ disk'.changed = disk.changed \cup {r}
                 /\ disk'.audited = disk.audited /\ disk'.cash = disk.cash
<1>1. /\ pc[r] = "begun" /\ pc' = [pc EXCEPT ![r] = "changed"]
      /\ UNCHANGED <<phase, version, shown, job, verdicts, traded>>
  BY DEF Change, Answer, start
<1>2. CASE r \in Empty /\ UNCHANGED <<disk, work, writer>>
  BY <1>1, <1>2
<1>3. CASE r \notin Empty /\ \E a \in {disk.admin, "absent", "own"} :
                Commit([disk EXCEPT !.changed = @ \cup {r}, !.admin = a])
  <2>1. PICK a \in {disk.admin, "absent", "own"} :
               Commit([disk EXCEPT !.changed = @ \cup {r}, !.admin = a])
    BY <1>3
  <2>2. disk \in Content /\ a \in Accounts
    BY DEF TypeOK, Content, Accounts
  <2>3. [disk EXCEPT !.changed = @ \cup {r}, !.admin = a] \in Content
    BY <2>2, ContentTypes
  <2>4. /\ writer = None /\ writer' = writer /\ work' = disk'
        /\ disk' = [disk EXCEPT !.changed = @ \cup {r}, !.admin = a]
    BY <2>1 DEF Commit
  <2>5. /\ disk'.base = disk.base /\ disk'.recorded = disk.recorded
        /\ disk'.done = disk.done /\ disk'.admin = a
        /\ disk'.changed = disk.changed \cup {r}
        /\ disk'.audited = disk.audited /\ disk'.cash = disk.cash
    BY <2>2, <2>4 DEF Content
  <2> QED
    BY <1>1, <1>3, <2>3, <2>4, <2>5
<1> QED
  BY <1>2, <1>3 DEF Change

\* The types hold initially.
LEMMA TypeInit == Init => TypeOK
<1> SUFFICES ASSUME Init PROVE TypeOK
  OBVIOUS
<1>1. disk \in Content
  BY ReleasedType DEF Init
<1>2. version \in 0 .. Versions + 1
  BY DEF Init
<1> QED
  BY <1>1, <1>2 DEF Init, TypeOK, Phases

\* Every step keeps the types.
LEMMA TypeStep ==
    ASSUME TypeOK, [Next]_vars
    PROVE  TypeOK'
<1> USE DEF TypeOK, Phases
<1>0. 0 \in 0 .. Versions /\ 0 \in 0 .. Versions + 1
  OBVIOUS
<1>1. ASSUME Start PROVE TypeOK'
  BY <1>1 DEF Start, Goto, serving
<1>2. ASSUME SchemaStatement PROVE TypeOK'
  <2>1. disk.base < BaseSize => [disk EXCEPT !.base = @ + 1] \in Content
    BY ContentTypes
  <2> QED
    BY <1>2, <2>1 DEF SchemaStatement, Commit, start, serving
<1>3. ASSUME RecordInit PROVE TypeOK'
  <2>1. [disk EXCEPT !.recorded = @ \cup {0}] \in Content
    BY <1>0, ContentTypes
  <2> QED
    BY <1>3, <2>1 DEF RecordInit, Write, Goto, serving
<1>4. ASSUME SkipVersion PROVE TypeOK'
  BY <1>4 DEF SkipVersion, serving
<1>5. ASSUME VersionStatement PROVE TypeOK'
  <2>1. [work EXCEPT !.done[version] = @ + 1] \in Content
    <3>1. version \in 0 .. Versions
      BY <1>5 DEF VersionStatement
    <3> QED
      BY <3>1, ContentTypes
  <2> QED
    BY <1>5, <2>1 DEF VersionStatement, Write, start, serving
<1>6. ASSUME RecordVersion PROVE TypeOK'
  <2>1. [work EXCEPT !.recorded = @ \cup {version}] \in Content
    <3>1. version \in 0 .. Versions
      BY <1>6 DEF RecordVersion
    <3> QED
      BY <3>1, ContentTypes
  <2> QED
    BY <1>6, <2>1 DEF RecordVersion, Write, serving
<1>7. ASSUME CommitMigrations \/ CommitAdmin PROVE TypeOK'
  BY <1>0, <1>7 DEF CommitMigrations, CommitAdmin, CommitOpen, Goto, serving
<1>8. ASSUME FindAdmin PROVE TypeOK'
  BY <1>8 DEF FindAdmin, Goto, serving
<1>9. ASSUME Bootstrap PROVE TypeOK'
  <2>1. \A a \in Passwords \cup {"configured"} : [disk EXCEPT !.admin = a] \in Content
    BY ContentTypes DEF Accounts
  <2> QED
    BY <1>9, <2>1 DEF Bootstrap, Write, Goto, serving
<1>10. ASSUME NEW r \in Requests, BeginRequest(r) \/ RequestFails(r) PROVE TypeOK'
  BY <1>10 DEF BeginRequest, RequestFails, Answer, start
<1>11. ASSUME NEW r \in Requests, Change(r) PROVE TypeOK'
  BY <1>11, ChangeCases
<1>12. ASSUME NEW r \in Requests, Audit(r) PROVE TypeOK'
  <2>1. [disk EXCEPT !.audited = @ \cup {r}] \in Content
    BY ContentTypes
  <2> QED
    BY <1>12, <2>1 DEF Audit, Commit, Answer, start
<1>13. ASSUME InsertOrder PROVE TypeOK'
  BY <1>13 DEF InsertOrder, Write, start
<1>13a. ASSUME InsertFill PROVE TypeOK'
  <2>1. PICK c \in Cash : Write("engine", [work EXCEPT !.cash = c])
    BY <1>13a DEF InsertFill
  <2>2. [work EXCEPT !.cash = c] \in Content
    BY ContentTypes
  <2> QED
    BY <1>13a, <2>1, <2>2 DEF InsertFill, Write, start, serving
<1>14. ASSUME Reconcile PROVE TypeOK'
  BY <1>14 DEF Reconcile, start
<1>15. ASSUME EndReconcile PROVE TypeOK'
  BY <1>15 DEF EndReconcile, Commit, start
<1>16. ASSUME Stop PROVE TypeOK'
  BY <1>0, <1>16 DEF Stop, Goto
<1>17. ASSUME UNCHANGED vars PROVE TypeOK'
  BY <1>17 DEF vars
<1> QED
  BY <1>1, <1>2, <1>3, <1>4, <1>5, <1>6, <1>7, <1>8, <1>9, <1>10, <1>11, <1>12,
     <1>13, <1>14, <1>15, <1>16, <1>17, <1>13a DEF Next, StartStep

\* Every variable has its type in every reachable state.
THEOREM Typed == Spec => []TypeOK
BY TypeInit, TypeStep, PTL DEF Spec

-----------------------------------------------------------------------------
(* The invariant is inductive.                                             *)

\* The invariant holds initially.
LEMMA InvInit == Init => IInv
<1> SUFFICES ASSUME Init PROVE IInv
  OBVIOUS
<1>1. /\ disk.changed = {} /\ disk.audited = {}
      /\ disk.admin \in {"absent", "own"} /\ disk.cash = 0
      /\ \A v \in 1 .. Versions : Whole(disk, v)
  BY ReleasedType DEF Init
<1>2. LockInv
  BY DEF Init, LockInv
<1>3. MigrationInv
  BY <1>1 DEF Init, MigrationInv
<1>4. ShownInv
  BY <1>1 DEF Init, ShownInv
<1>5. RequestInv /\ CashInv
  BY <1>1 DEF Init, RequestInv, CashInv
<1> QED
  BY <1>2, <1>3, <1>4, <1>5 DEF IInv

\* Every step keeps what is known of the open transaction.
LEMMA LockStep ==
    ASSUME TypeOK, LockInv, [Next]_vars
    PROVE  LockInv'
<1> USE DEF TypeOK, LockInv
<1>1. ASSUME Start PROVE LockInv'
  BY <1>1 DEF Start, Goto, serving
<1>2. ASSUME SchemaStatement PROVE LockInv'
  BY <1>2 DEF SchemaStatement, Commit, start, serving
<1>3. ASSUME RecordInit PROVE LockInv'
  BY <1>3 DEF RecordInit, Write, Goto, serving, Content
<1>4. ASSUME SkipVersion PROVE LockInv'
  BY <1>4 DEF SkipVersion, serving
<1>5. ASSUME VersionStatement PROVE LockInv'
  BY <1>5 DEF VersionStatement, Write, start, serving, Content
<1>6. ASSUME RecordVersion PROVE LockInv'
  BY <1>6 DEF RecordVersion, Write, serving, Content
<1>7. ASSUME CommitMigrations \/ CommitAdmin PROVE LockInv'
  BY <1>7 DEF CommitMigrations, CommitAdmin, CommitOpen, Goto, serving
<1>8. ASSUME FindAdmin PROVE LockInv'
  BY <1>8 DEF FindAdmin, Goto, serving
<1>9. ASSUME Bootstrap PROVE LockInv'
  BY <1>9 DEF Bootstrap, Write, Goto, serving, Content
<1>10. ASSUME NEW r \in Requests, BeginRequest(r) \/ RequestFails(r) PROVE LockInv'
  BY <1>10 DEF BeginRequest, RequestFails, Answer, start
<1>11. ASSUME NEW r \in Requests, Change(r) PROVE LockInv'
  BY <1>11, ChangeCases
<1>12. ASSUME NEW r \in Requests, Audit(r) PROVE LockInv'
  BY <1>12 DEF Audit, Commit, Answer, start
<1>13. ASSUME InsertOrder PROVE LockInv'
  BY <1>13 DEF InsertOrder, Write, start
<1>14. ASSUME InsertFill PROVE LockInv'
  BY <1>14 DEF InsertFill, Write, start, serving, Content
<1>15. ASSUME Reconcile PROVE LockInv'
  BY <1>15 DEF Reconcile, start
<1>16. ASSUME EndReconcile PROVE LockInv'
  BY <1>16 DEF EndReconcile, Commit, start
<1>17. ASSUME Stop PROVE LockInv'
  BY <1>17 DEF Stop, Goto
<1>18. ASSUME UNCHANGED vars PROVE LockInv'
  BY <1>18 DEF vars
<1> QED
  BY <1>1, <1>2, <1>3, <1>4, <1>5, <1>6, <1>7, <1>8, <1>9, <1>10, <1>11, <1>12,
     <1>13, <1>14, <1>15, <1>16, <1>17, <1>18 DEF Next, StartStep

\* What a start, a stop and a request leave of the migrations.
LEMMA MigrationStep ==
    ASSUME TypeOK, LockInv, MigrationInv, [Next]_vars
    PROVE  MigrationInv'
<1> USE DEF TypeOK, LockInv, MigrationInv, Whole
<1>0. /\ disk.done \in [1 .. Versions -> Nat] /\ work.done \in [1 .. Versions -> Nat]
      /\ disk.recorded \subseteq 0 .. Versions /\ work.recorded \subseteq 0 .. Versions
      /\ disk.base \in Nat
  BY DEF Content
<1>1. ASSUME Start PROVE MigrationInv'
  BY <1>1 DEF Start, Goto, serving
<1>2. ASSUME SchemaStatement PROVE MigrationInv'
  BY <1>2 DEF SchemaStatement, Commit, start, serving, Content
<1>3. ASSUME RecordInit PROVE MigrationInv'
  <2>1. work' = [disk EXCEPT !.recorded = @ \cup {0}] /\ disk' = disk
    BY <1>3 DEF RecordInit, Write
  <2>2. /\ work'.done = disk.done /\ work'.base = disk.base
        /\ work'.recorded = disk.recorded \cup {0}
    BY <2>1 DEF Content
  <2> QED
    BY <1>0, <1>3, <2>1, <2>2 DEF RecordInit, Goto
<1>4. ASSUME SkipVersion PROVE MigrationInv'
  BY <1>0, <1>4 DEF SkipVersion, serving
<1>5. ASSUME VersionStatement PROVE MigrationInv'
  <2>1. work' = [work EXCEPT !.done[version] = @ + 1] /\ disk' = disk
    BY <1>5 DEF VersionStatement, Write
  <2>2. /\ work'.done = [work.done EXCEPT ![version] = @ + 1]
        /\ work'.base = work.base /\ work'.recorded = work.recorded
    BY <2>1 DEF Content
  <2> QED
    BY <1>0, <1>5, <2>1, <2>2 DEF VersionStatement, start
<1>6. ASSUME RecordVersion PROVE MigrationInv'
  <2>1. work' = [work EXCEPT !.recorded = @ \cup {version}] /\ disk' = disk
    BY <1>6 DEF RecordVersion, Write
  <2>2. /\ work'.done = work.done /\ work'.base = work.base
        /\ work'.recorded = work.recorded \cup {version}
    BY <2>1 DEF Content
  <2> QED
    BY <1>0, <1>6, <2>1, <2>2 DEF RecordVersion
<1>7. ASSUME CommitMigrations \/ CommitAdmin PROVE MigrationInv'
  <2>1. CASE CommitMigrations
    <3>1. phase = "versions" /\ version = Versions + 1
      BY <2>1 DEF CommitMigrations
    <3>2. work.recorded = 0 .. Versions /\ work.base = BaseSize
      <4>1. version - 1 = Versions
        BY <3>1
      <4>2. 0 .. version - 1 \subseteq work.recorded /\ work.base = BaseSize
        BY <3>1
      <4> QED
        BY <1>0, <4>1, <4>2
    <3>3. \A v \in 1 .. Versions : v # version
      BY <3>1
    <3> QED
      BY <2>1, <3>1, <3>2, <3>3 DEF CommitMigrations, CommitOpen, Goto
  <2>2. CASE CommitAdmin
    BY <1>0, <2>2 DEF CommitAdmin, CommitOpen, Goto
  <2> QED
    BY <1>7, <2>1, <2>2
<1>8. ASSUME FindAdmin PROVE MigrationInv'
  BY <1>8 DEF FindAdmin, Goto, serving
<1>9. ASSUME Bootstrap PROVE MigrationInv'
  BY <1>9 DEF Bootstrap, Write, Goto, serving, Content
<1>10. ASSUME NEW r \in Requests, BeginRequest(r) \/ RequestFails(r)
       PROVE  MigrationInv'
  BY <1>10 DEF BeginRequest, RequestFails, start
<1>11. ASSUME NEW r \in Requests, Change(r) PROVE MigrationInv'
  BY <1>11, ChangeCases
<1>12. ASSUME NEW r \in Requests, Audit(r) PROVE MigrationInv'
  BY <1>12 DEF Audit, Commit, start, Content
<1>13. ASSUME InsertOrder PROVE MigrationInv'
  BY <1>13 DEF InsertOrder, Write, start
<1>14. ASSUME InsertFill PROVE MigrationInv'
  BY <1>14 DEF InsertFill, Write, start, Content
<1>15. ASSUME Reconcile PROVE MigrationInv'
  BY <1>15 DEF Reconcile, start
<1>16. ASSUME EndReconcile PROVE MigrationInv'
  BY <1>16 DEF EndReconcile, Commit, start
<1>17. ASSUME Stop PROVE MigrationInv'
  BY <1>17 DEF Stop, Goto
<1>18. ASSUME UNCHANGED vars PROVE MigrationInv'
  BY <1>18 DEF vars
<1> QED
  BY <1>1, <1>2, <1>3, <1>4, <1>5, <1>6, <1>7, <1>8, <1>9, <1>10, <1>11, <1>12,
     <1>13, <1>14, <1>15, <1>16, <1>17, <1>18 DEF Next, StartStep

\* Steps that change neither disk nor the start.
LEMMA Elsewhere ==
    ASSUME InsertOrder \/ InsertFill \/ Reconcile \/ UNCHANGED vars
    PROVE  UNCHANGED <<disk, phase, shown, pc>>
BY DEF InsertOrder, InsertFill, Reconcile, Write, start, serving, vars

\* Every step keeps what is known of the password that was shown.
LEMMA ShownStep ==
    ASSUME TypeOK, LockInv, ShownInv, [Next]_vars
    PROVE  ShownInv'
<1> USE DEF TypeOK, LockInv, ShownInv
<1>1. ASSUME Start \/ FindAdmin PROVE ShownInv'
  BY <1>1 DEF Start, FindAdmin, Goto, serving
<1>2. ASSUME SchemaStatement PROVE ShownInv'
  BY <1>2 DEF SchemaStatement, Commit, start, serving, Content
<1>3. ASSUME RecordInit \/ SkipVersion \/ VersionStatement \/ RecordVersion
      PROVE  ShownInv'
  BY <1>3 DEF RecordInit, SkipVersion, VersionStatement, RecordVersion, Write, Goto,
              start, serving
<1>4. ASSUME CommitMigrations \/ CommitAdmin PROVE ShownInv'
  BY <1>4 DEF CommitMigrations, CommitAdmin, CommitOpen, Goto, serving
<1>5. ASSUME Bootstrap PROVE ShownInv'
  BY <1>5 DEF Bootstrap, Write, Goto, serving, Content
<1>6. ASSUME NEW r \in Requests, BeginRequest(r) \/ RequestFails(r) PROVE ShownInv'
  BY <1>6 DEF BeginRequest, RequestFails, start
<1>7. ASSUME NEW r \in Requests, Change(r) PROVE ShownInv'
  <2>1. phase = "ready"
    BY <1>7, ChangeCases
  <2>2. disk'.admin \in {disk.admin, "absent", "own"} /\ UNCHANGED start
    BY <1>7, ChangeCases DEF start
  <2> QED
    BY <2>1, <2>2 DEF start
<1>8. ASSUME NEW r \in Requests, Audit(r) PROVE ShownInv'
  BY <1>8 DEF Audit, Commit, start, Content
<1>9. ASSUME EndReconcile PROVE ShownInv'
  BY <1>9 DEF EndReconcile, Commit, start
<1>10. ASSUME Stop PROVE ShownInv'
  BY <1>10 DEF Stop, Goto
<1>11. ASSUME InsertOrder \/ InsertFill \/ Reconcile \/ UNCHANGED vars
       PROVE  ShownInv'
  <2>1. phase # "created" \/ work' = work
    BY <1>11 DEF InsertOrder, InsertFill, Write, Reconcile, vars
  <2> QED
    BY <1>11, <2>1, Elsewhere
<1> QED
  BY <1>1, <1>2, <1>3, <1>4, <1>5, <1>6, <1>7, <1>8, <1>9, <1>10, <1>11
     DEF Next, StartStep

\* Every step keeps what is known of the requests.
LEMMA RequestStep ==
    ASSUME TypeOK, LockInv, RequestInv, [Next]_vars
    PROVE  RequestInv'
<1> USE DEF TypeOK, LockInv, RequestInv
<1>1. ASSUME Start \/ FindAdmin PROVE RequestInv'
  BY <1>1 DEF Start, FindAdmin, serving
<1>2. ASSUME SchemaStatement PROVE RequestInv'
  BY <1>2 DEF SchemaStatement, Commit, serving, Content
<1>3. ASSUME RecordInit \/ SkipVersion \/ VersionStatement \/ RecordVersion \/ Bootstrap
      PROVE  RequestInv'
  BY <1>3 DEF RecordInit, SkipVersion, VersionStatement, RecordVersion, Bootstrap,
              Write, serving
<1>4. ASSUME CommitMigrations \/ CommitAdmin PROVE RequestInv'
  BY <1>4 DEF CommitMigrations, CommitAdmin, CommitOpen, serving
<1>5. ASSUME NEW r \in Requests, BeginRequest(r) \/ RequestFails(r) PROVE RequestInv'
  BY <1>5 DEF BeginRequest, RequestFails, Answer
<1>6. ASSUME NEW r \in Requests, Change(r) PROVE RequestInv'
  <2>1. /\ disk'.changed = disk.changed \cup ({r} \ Empty) /\ disk'.audited = disk.audited
        /\ pc' = [pc EXCEPT ![r] = "changed"]
    BY <1>6, ChangeCases
  <2> QED
    BY <2>1
<1>7. ASSUME NEW r \in Requests, Audit(r) PROVE RequestInv'
  <2>1. /\ disk'.changed = disk.changed /\ disk'.audited = disk.audited \cup {r}
        /\ pc' = [pc EXCEPT ![r] = "ok"] /\ pc[r] = "changed"
    BY <1>7 DEF Audit, Commit, Answer, Content
  <2> QED
    BY <2>1
<1>8. ASSUME EndReconcile PROVE RequestInv'
  BY <1>8 DEF EndReconcile, Commit
<1>9. ASSUME Stop PROVE RequestInv'
  BY <1>9 DEF Stop
<1>10. ASSUME InsertOrder \/ InsertFill \/ Reconcile \/ UNCHANGED vars
       PROVE  RequestInv'
  BY <1>10, Elsewhere
<1> QED
  BY <1>1, <1>2, <1>3, <1>4, <1>5, <1>6, <1>7, <1>8, <1>9, <1>10 DEF Next, StartStep

\* No step brings a fill to the disk.
LEMMA CashStep ==
    ASSUME TypeOK, LockInv, CashInv, [Next]_vars
    PROVE  CashInv'
<1> USE DEF TypeOK, LockInv, CashInv
<1>1. ASSUME Start \/ FindAdmin PROVE CashInv'
  BY <1>1 DEF Start, FindAdmin, serving
<1>2. ASSUME SchemaStatement PROVE CashInv'
  BY <1>2 DEF SchemaStatement, Commit, serving, Content
<1>3. ASSUME RecordInit \/ SkipVersion \/ VersionStatement \/ RecordVersion \/ Bootstrap
      PROVE  CashInv'
  BY <1>3 DEF RecordInit, SkipVersion, VersionStatement, RecordVersion, Bootstrap,
              Write, serving
<1>4. ASSUME CommitMigrations \/ CommitAdmin PROVE CashInv'
  BY <1>4 DEF CommitMigrations, CommitAdmin, CommitOpen, serving
<1>5. ASSUME NEW r \in Requests, BeginRequest(r) \/ RequestFails(r) \/ Change(r) \/ Audit(r)
      PROVE  CashInv'
  BY <1>5, ChangeCases DEF BeginRequest, RequestFails, Audit, Commit, Content
<1>6. ASSUME Reconcile PROVE CashInv'
  BY <1>6 DEF Reconcile
<1>7. ASSUME EndReconcile \/ Stop PROVE CashInv'
  BY <1>7 DEF EndReconcile, Stop, Commit
<1>8. ASSUME InsertOrder \/ InsertFill \/ UNCHANGED vars PROVE CashInv'
  BY <1>8 DEF InsertOrder, InsertFill, Write, serving, vars
<1> QED
  BY <1>1, <1>2, <1>3, <1>4, <1>5, <1>6, <1>7, <1>8 DEF Next, StartStep

\* The types and the inductive invariant hold in every reachable state.
THEOREM Invariant == Spec => [](TypeOK /\ IInv)
<1>1. Init => TypeOK /\ IInv
  BY TypeInit, InvInit
<1>2. TypeOK /\ IInv /\ [Next]_vars => (TypeOK /\ IInv)'
  BY TypeStep, LockStep, MigrationStep, ShownStep, RequestStep, CashStep DEF IInv
<1> QED
  BY <1>1, <1>2, PTL DEF Spec

-----------------------------------------------------------------------------
(* Theorems.                                                               *)

\* However often starts are cut short: a version is on disk as a whole or not at
\* all, and what serves requests has all of them.
THEOREM SchemaIsWhole == Spec => []SchemaWhole
<1>1. IInv => SchemaWhole
  BY DEF IInv, MigrationInv, Whole, SchemaWhole
<1> QED
  BY <1>1, Invariant, PTL

\* The made-up password of the first administrator is the one shown last.
THEOREM ShownIsValid == Spec => []LastShownIsValid
<1>1. IInv => LastShownIsValid
  BY DEF IInv, ShownInv, LastShownIsValid
<1> QED
  BY <1>1, Invariant, PTL

\* What was answered with success is on disk together with its audit event.
THEOREM AnswersAreAudited == Spec => []AnsweredIsAudited
<1>1. IInv => AnsweredIsAudited
  BY DEF IInv, RequestInv, AnsweredIsAudited
<1> QED
  BY <1>1, Invariant, PTL

\* No reconciliation ever fails, whatever the fills.
THEOREM ReconciliationNeverFails == Spec => []ReconciliationBlind
<1>1. IInv => ReconciliationBlind
  BY DEF IInv, CashInv, ReconciliationBlind
<1> QED
  BY <1>1, Invariant, PTL

\* No start takes the account admin away from its owner.
THEOREM OwnerKeepsAccount == Spec => OwnAccountKept
<1>1. ASSUME TypeOK, IInv, [Next]_vars, disk.admin = "own", disk'.admin # "own"
      PROVE  disk'.changed # disk.changed
  <2> USE <1>1 DEF TypeOK, IInv, LockInv, ShownInv, RequestInv
  <2>1. ASSUME SchemaStatement PROVE FALSE
    BY <2>1 DEF SchemaStatement, Commit, Content
  <2>2. ASSUME CommitMigrations \/ CommitAdmin PROVE FALSE
    BY <2>2 DEF CommitMigrations, CommitAdmin, CommitOpen
  <2>3. ASSUME NEW r \in Requests, Change(r) PROVE disk'.changed # disk.changed
    <3>1. r \notin disk.changed
      BY <2>3, ChangeCases
    <3> QED
      BY <2>3, <3>1, ChangeCases
  <2>4. ASSUME NEW r \in Requests, Audit(r) PROVE FALSE
    BY <2>4 DEF Audit, Commit, Content
  <2>5. ASSUME EndReconcile PROVE FALSE
    BY <2>5 DEF EndReconcile, Commit
  <2>6. ASSUME NEW r \in Requests, BeginRequest(r) \/ RequestFails(r) PROVE FALSE
    BY <2>6 DEF BeginRequest, RequestFails
  <2>7. ASSUME \/ Start \/ FindAdmin \/ SkipVersion \/ RecordInit \/ VersionStatement
               \/ RecordVersion \/ Bootstrap \/ Stop
        PROVE  FALSE
    BY <2>7 DEF Start, FindAdmin, SkipVersion, RecordInit, VersionStatement,
                RecordVersion, Bootstrap, Write, Stop
  <2>8. ASSUME InsertOrder \/ InsertFill \/ Reconcile \/ UNCHANGED vars PROVE FALSE
    BY <2>8, Elsewhere
  <2> QED
    BY <2>1, <2>2, <2>3, <2>4, <2>5, <2>6, <2>7, <2>8 DEF Next, StartStep
<1>2. TypeOK /\ IInv /\ [Next]_vars =>
        [disk.admin = "own" /\ disk'.admin # "own" => disk'.changed # disk.changed]_vars
  BY <1>1
<1> QED
  BY <1>2, Invariant, PTL DEF Spec, OwnAccountKept

\* From its first order on a process changes nothing on disk.
THEOREM TradingLocksOut == Spec => LockedOutOnceTrading
<1> DEFINE Locked == /\ disk' = disk
                     /\ \A r \in Requests : pc'[r] = "ok" => pc[r] = "ok"
<1>1. ASSUME TypeOK, IInv, [Next]_vars, traded, traded'
      PROVE  Locked
  <2> USE <1>1 DEF TypeOK, IInv, LockInv
  <2>1. writer = "engine" /\ phase = "ready"
    OBVIOUS
  <2>2. ASSUME Start \/ StartStep \/ Stop PROVE Locked
    <3>1. StartStep => phase # "ready"
      BY DEF StartStep, SchemaStatement, RecordInit, SkipVersion, VersionStatement,
             RecordVersion, CommitMigrations, FindAdmin, Bootstrap, CommitAdmin
    <3> QED
      BY <2>1, <2>2, <3>1 DEF Start, Stop
  <2>3. ASSUME NEW r \in Requests, BeginRequest(r) \/ RequestFails(r) PROVE Locked
    BY <2>3 DEF BeginRequest, RequestFails, Answer
  <2>4. ASSUME NEW r \in Requests, Audit(r) PROVE Locked
    BY <2>1, <2>4 DEF Audit, Commit
  <2>4a. ASSUME NEW r \in Requests, Change(r) PROVE Locked
    <3>1. disk' = disk /\ pc' = [pc EXCEPT ![r] = "changed"]
      BY <2>1, <2>4a, ChangeCases
    <3> QED
      BY <3>1
  <2>5. ASSUME EndReconcile PROVE Locked
    BY <2>1, <2>5 DEF EndReconcile, Commit
  <2>6. ASSUME InsertOrder \/ InsertFill \/ Reconcile \/ UNCHANGED vars PROVE Locked
    BY <2>6, Elsewhere
  <2> QED
    BY <2>2, <2>3, <2>4, <2>4a, <2>5, <2>6 DEF Next
<1>2. TypeOK /\ IInv /\ [Next]_vars => [traded /\ traded' => Locked]_vars
  BY <1>1
<1> QED
  BY <1>2, Invariant, PTL DEF Spec, LockedOutOnceTrading
=============================================================================
