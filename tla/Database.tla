------------------------------- MODULE Database -------------------------------
(***************************************************************************)
(* One SQLite file and the process that owns it: run_migrations, the first *)
(* administrator, requests of administrators, the session of the execution *)
(* engine and the reconciliation job, with a stop of the process between   *)
(* any two statements (trade_post/persistence, orchestrator/runtime.py,    *)
(* reconciliation/service.py, api/server.py).                              *)
(*                                                                         *)
(* The driver opens a transaction with the first INSERT, UPDATE or DELETE  *)
(* of a connection; statements before it are committed one by one.  Only   *)
(* one connection writes at a time; what it has written is in work, and on *)
(* disk when it commits.  A session that neither awaits between its first  *)
(* write and its commit nor is left open writes in one step.               *)
(***************************************************************************)
EXTENDS Integers

CONSTANTS
    BaseSize,      \* number of statements of _SCHEMA_SQL
    Versions,      \* number of VERSIONED_MIGRATIONS
    Size,          \* Size[v]: number of statements of version v
    Passwords,     \* one-time passwords of the first administrator
    Requests,      \* requests that change accounts
    Empty,         \* those that are a PATCH with neither role nor status
    Cash,          \* cash of all fills, in units of the tolerance
    None

ASSUME DatabaseAssumption ==
    /\ BaseSize \in Nat \ {0} /\ Versions \in Nat
    /\ Size \in [1 .. Versions -> Nat \ {0}]
    /\ Cash \subseteq Int /\ 0 \in Cash
    /\ Empty \subseteq Requests
    /\ None \notin Passwords
    /\ {"absent", "own", "configured"} \cap Passwords = {} /\ None \notin {"startup", "engine"}
    /\ \A p \in Passwords : \E q \in Passwords : q # p

Accounts == {"absent", "own", "configured"} \cup Passwords

Content ==
    [base : 0 .. BaseSize, recorded : SUBSET (0 .. Versions),
     done : [1 .. Versions -> Nat], admin : Accounts,
     changed : SUBSET Requests, audited : SUBSET Requests, cash : Cash]

VARIABLES
    disk,       \* what is committed
    work,       \* what the open transaction sees; disk if there is none
    writer,     \* who holds the write lock: "startup", "engine" or None
    phase,      \* where the process is
    version,    \* the migration run_migrations looks at
    shown,      \* the password that was logged last
    pc,         \* per request: where it is, and how it was answered
    job,        \* the reconciliation job
    verdicts,   \* history: outcomes of reconciliations
    traded      \* history: this process has inserted an order

vars == <<disk, work, writer, phase, version, shown, pc, job, verdicts, traded>>

start == <<phase, version, shown>>
serving == <<pc, job, verdicts, traded>>

\* A database that a release with the first n versions has left, or none at all.
Released(n) ==
    [base |-> IF n < 0 THEN 0 ELSE BaseSize, recorded |-> 0 .. n,
     done |-> [v \in 1 .. Versions |-> IF v <= n THEN Size[v] ELSE 0],
     admin |-> IF n < 0 THEN "absent" ELSE "own",
     changed |-> {}, audited |-> {}, cash |-> 0]

Init ==
    /\ \E n \in -1 .. Versions : disk = Released(n)
    /\ work = disk
    /\ writer = None
    /\ phase = "down" /\ version = 0
    /\ shown = None
    /\ pc = [r \in Requests |-> "new"]
    /\ job = "idle" /\ verdicts = {}
    /\ traded = FALSE

Goto(p) == phase' = p

\* A statement outside of a transaction, or a whole transaction.
Commit(content) ==
    /\ writer = None
    /\ disk' = content /\ work' = content
    /\ UNCHANGED writer

\* A statement of the transaction that w has open, or opens with it.
Write(w, content) ==
    /\ writer \in {None, w}
    /\ writer' = w
    /\ work' = content
    /\ UNCHANGED disk

CommitOpen(w) ==
    /\ writer = w
    /\ writer' = None
    /\ disk' = work
    /\ UNCHANGED work

-----------------------------------------------------------------------------
(* run_migrations.                                                         *)

Start ==
    /\ phase = "down"
    /\ Goto("schema")
    /\ UNCHANGED <<disk, work, writer, version, shown, serving>>

\* CREATE TABLE IF NOT EXISTS and CREATE INDEX IF NOT EXISTS, before any write.
SchemaStatement ==
    /\ phase = "schema"
    /\ disk.base < BaseSize
    /\ Commit([disk EXCEPT !.base = @ + 1])
    /\ UNCHANGED <<start, serving>>

\* Mutant: INSERT without OR IGNORE.
RecordInitOnce ==
    /\ phase = "schema"
    /\ disk.base = BaseSize
    /\ 0 \notin disk.recorded
    /\ Write("startup", [disk EXCEPT !.recorded = @ \cup {0}])
    /\ Goto("versions") /\ version' = 1
    /\ UNCHANGED <<shown, serving>>

\* INSERT OR IGNORE of the baseline opens the transaction of all that follows.
RecordInit ==
    /\ phase = "schema"
    /\ disk.base = BaseSize
    /\ Write("startup", [disk EXCEPT !.recorded = @ \cup {0}])
    /\ Goto("versions") /\ version' = 1
    /\ UNCHANGED <<shown, serving>>

\* _migration_applied.
SkipVersion ==
    /\ phase = "versions"
    /\ version <= Versions
    /\ version \in work.recorded
    /\ version' = version + 1
    /\ UNCHANGED <<disk, work, writer, phase, shown, serving>>

\* Mutant: every statement is committed at once.
VersionStatementCommitted ==
    /\ phase = "versions"
    /\ version <= Versions /\ version \notin work.recorded
    /\ work.done[version] < Size[version]
    /\ work' = [work EXCEPT !.done[version] = @ + 1]
    /\ disk' = work'
    /\ UNCHANGED <<writer, start, serving>>

VersionStatement ==
    /\ phase = "versions"
    /\ version <= Versions /\ version \notin work.recorded
    /\ work.done[version] < Size[version]
    /\ Write("startup", [work EXCEPT !.done[version] = @ + 1])
    /\ UNCHANGED <<start, serving>>

RecordVersion ==
    /\ phase = "versions"
    /\ version <= Versions /\ version \notin work.recorded
    /\ work.done[version] = Size[version]
    /\ Write("startup", [work EXCEPT !.recorded = @ \cup {version}])
    /\ version' = version + 1
    /\ UNCHANGED <<phase, shown, serving>>

CommitMigrations ==
    /\ phase = "versions"
    /\ version > Versions
    /\ CommitOpen("startup")
    /\ Goto("admin") /\ version' = 0
    /\ UNCHANGED <<shown, serving>>

-----------------------------------------------------------------------------
(* The first administrator.                                                *)

\* After risk.load, which only reads: is there an account named admin?
FindAdmin ==
    /\ phase = "admin"
    /\ Goto(IF disk.admin = "absent" THEN "bootstrap" ELSE "ready")
    /\ UNCHANGED <<disk, work, writer, version, shown, serving>>

\* Mutant: a password is logged exactly once, also if that start did not end.
BootstrapShowingOnce ==
    /\ phase = "bootstrap"
    /\ \/ /\ Write("startup", [disk EXCEPT !.admin = "configured"])
          /\ UNCHANGED shown
       \/ \E p \in Passwords \ {shown} :
            /\ Write("startup", [disk EXCEPT !.admin = p])
            /\ shown' = IF shown = None THEN p ELSE shown
    /\ Goto("created")
    /\ UNCHANGED <<version, serving>>

\* _bootstrap_admin: the configured password, or a new one that is logged before
\* the account is inserted.
Bootstrap ==
    /\ phase = "bootstrap"
    /\ \/ /\ Write("startup", [disk EXCEPT !.admin = "configured"])
          /\ UNCHANGED shown
       \/ \E p \in Passwords \ {shown} :
            /\ Write("startup", [disk EXCEPT !.admin = p])
            /\ shown' = p
    /\ Goto("created")
    /\ UNCHANGED <<version, serving>>

\* The event account_created, and the commit of the startup session.
CommitAdmin ==
    /\ phase = "created"
    /\ CommitOpen("startup")
    /\ Goto("ready")
    /\ UNCHANGED <<version, shown, serving>>

StartStep ==
    \/ SchemaStatement \/ RecordInit
    \/ SkipVersion \/ VersionStatement \/ RecordVersion \/ CommitMigrations
    \/ FindAdmin \/ Bootstrap \/ CommitAdmin

-----------------------------------------------------------------------------
(* Requests: the change and its audit event are two sessions.              *)

Answer(r, how) == pc' = [pc EXCEPT ![r] = how]

BeginRequest(r) ==
    /\ phase = "ready"
    /\ pc[r] = "new"
    /\ Answer(r, "begun")
    /\ UNCHANGED <<disk, work, writer, start, job, verdicts, traded>>

\* A change of another account, or of the account admin: its password, its
\* deletion, or its creation by another administrator.  A PATCH that names nothing
\* to change writes nothing, and goes on to its audit event.
Change(r) ==
    /\ pc[r] = "begun"
    /\ \/ r \in Empty /\ UNCHANGED <<disk, work, writer>>
       \/ /\ r \notin Empty
          /\ \E a \in {disk.admin, "absent", "own"} :
              Commit([disk EXCEPT !.changed = @ \cup {r}, !.admin = a])
    /\ Answer(r, "changed")
    /\ UNCHANGED <<start, job, verdicts, traded>>

\* Mutant: the answer does not wait for the audit event.
AuditLater(r) ==
    /\ pc[r] = "changed"
    /\ Answer(r, "ok")
    /\ UNCHANGED <<disk, work, writer, start, job, verdicts, traded>>

\* _record_auth_event, and the answer.
Audit(r) ==
    /\ pc[r] = "changed"
    /\ Commit([disk EXCEPT !.audited = @ \cup {r}])
    /\ Answer(r, "ok")
    /\ UNCHANGED <<start, job, verdicts, traded>>

\* Refused, or an exception: "database is locked" after 30 s among them.
RequestFails(r) ==
    /\ pc[r] \in {"begun", "changed"}
    /\ Answer(r, "failed")
    /\ UNCHANGED <<disk, work, writer, start, job, verdicts, traded>>

-----------------------------------------------------------------------------
(* The execution engine's session, and the reconciliation job.             *)

\* insert_order: the session startup_core has left begins a new transaction.
InsertOrder ==
    /\ phase = "ready"
    /\ Write("engine", work)
    /\ traded' = TRUE
    /\ UNCHANGED <<start, pc, job, verdicts>>

\* Mutant: the order and its fill are committed.
InsertFillCommitted ==
    /\ writer = "engine"
    /\ \E c \in Cash : work' = [work EXCEPT !.cash = c]
    /\ disk' = work' /\ writer' = None
    /\ UNCHANGED <<start, serving>>

\* insert_fill; no code commits the transaction.
InsertFill ==
    /\ writer = "engine"
    /\ \E c \in Cash : Write("engine", [work EXCEPT !.cash = c])
    /\ UNCHANGED <<start, serving>>

\* reconcile: the ledger, which no code writes, against the cash of the fills,
\* both as they are on disk.
Reconcile ==
    /\ phase = "ready" /\ job = "idle"
    /\ verdicts' = verdicts \cup {IF 0 - disk.cash \in {-1, 0, 1} THEN "pass" ELSE "fail"}
    /\ job' = "persist"
    /\ UNCHANGED <<disk, work, writer, start, pc, traded>>

\* _persist, or a DatabaseError that the loop logs.
EndReconcile ==
    /\ job = "persist"
    /\ Commit(disk) \/ UNCHANGED <<disk, work, writer>>
    /\ job' = "idle"
    /\ UNCHANGED <<start, pc, verdicts, traded>>

-----------------------------------------------------------------------------
(* A stop of the process, and the specification.                           *)

\* Between any two statements, by an exception of the startup or by a shutdown:
\* what is not committed is gone, and callers do not get an answer.
Stop ==
    /\ phase # "down"
    /\ Goto("down") /\ version' = 0
    /\ work' = disk /\ writer' = None
    /\ pc' = [r \in Requests |-> IF pc[r] \in {"begun", "changed"} THEN "failed" ELSE pc[r]]
    /\ job' = "idle"
    /\ traded' = FALSE
    /\ UNCHANGED <<disk, shown, verdicts>>

Next ==
    \/ Start \/ StartStep
    \/ \E r \in Requests : BeginRequest(r) \/ Change(r) \/ Audit(r) \/ RequestFails(r)
    \/ InsertOrder \/ InsertFill
    \/ Reconcile \/ EndReconcile
    \/ Stop

\* startup_core awaits one statement after the other.
Fairness == WF_vars(StartStep)

Spec == Init /\ [][Next]_vars /\ Fairness

-----------------------------------------------------------------------------
(* Properties.                                                             *)

Phases == {"down", "schema", "versions", "admin", "bootstrap", "created", "ready"}

\* Every variable has the type its declaration says.
TypeOK ==
    /\ disk \in Content /\ work \in Content
    /\ writer \in {"startup", "engine", None}
    /\ phase \in Phases
    /\ version \in 0 .. Versions + 1
    /\ shown \in Passwords \cup {None}
    /\ pc \in [Requests -> {"new", "begun", "changed", "ok", "failed"}]
    /\ job \in {"idle", "persist"}
    /\ verdicts \subseteq {"pass", "fail"}
    /\ traded \in BOOLEAN

\* Wherever starts were cut short: of every version all statements are on disk
\* and it is recorded, or none of them is; and a process that serves requests
\* has all of them.
SchemaWhole ==
    /\ \A v \in 1 .. Versions :
        disk.done[v] = IF v \in disk.recorded THEN Size[v] ELSE 0
    /\ phase = "ready" => disk.base = BaseSize /\ disk.recorded = 0 .. Versions

\* The bootstrap logs the password before it commits the account.  Still, as soon
\* as requests are served, a password it made up is the one logged last, whatever
\* starts before that logged another and did not end.
LastShownIsValid ==
    phase = "ready" /\ disk.admin \in Passwords => disk.admin = shown

\* A start never takes the account admin away from somebody who has chosen a
\* password of his own; only a request does.
OwnAccountKept ==
    [][disk.admin = "own" /\ disk'.admin # "own" => disk'.changed # disk.changed]_vars

\* A request that was answered with success has left its audit event on disk, and
\* its change if it asked for one, through every stop after it; and there is no
\* event without such a change.
AnsweredIsAudited ==
    /\ \A r \in Requests : pc[r] = "ok" => r \in disk.audited
    /\ disk.audited \subseteq disk.changed \cup Empty

\* From its first order on nothing a process does reaches the disk: no change of
\* an account, no event, no reconciliation; and no request is answered with
\* success any more.
LockedOutOnceTrading ==
    [][traded /\ traded' => /\ disk' = disk
                            /\ \A r \in Requests : pc'[r] = "ok" => pc[r] = "ok"]_vars

\* Reconciliation passes whatever was traded: it never sees a fill.
ReconciliationBlind == "fail" \notin verdicts

\* A start that is not cut short ends with a process that serves requests,
\* whatever the starts before it have left.
EveryStartEnds == <>[](phase # "down") => <>(phase = "ready")
=============================================================================
