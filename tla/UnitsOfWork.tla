----------------------------- MODULE UnitsOfWork ----------------------------
(***************************************************************************)
(* What of the work a program hands over is kept: Attachment.transaction() *)
(* with its savepoint scopes (Transaction.transaction(), drizzle's nested  *)
(* transactions), executeScript() in its four modes, and the migrator.     *)
(* Beside the server's transaction stands what the program was told:       *)
(* `logs` holds, for the unit (slot 0) and each open scope, the statements *)
(* it may count on if what surrounds it succeeds, and `owed` those it has  *)
(* been promised for good. Nobody else uses the attachment; a statement is *)
(* a number and does its work or does nothing. Where the server refuses a  *)
(* SAVEPOINT or a ROLLBACK TO, a statement ends otherwise than the program *)
(* was told: `amiss` has these, and no others.                             *)
(*                                                                         *)
(* The definitions named Slip... are slips in what they precede.           *)
(***************************************************************************)
EXTENDS Integers, FiniteSets, SequencesExt, TLC

CONSTANTS
    Slots,      \* savepoint scopes open at a time
    Modes,      \* how scripts are run, a subset of AllModes
    Refuses,    \* what the server may refuse, a subset of AllRefusals
    MaxWork,    \* bound on statements that do something
    MaxScript,  \* and on the commands of a script
    Files, FileLen, \* migration files, in order, and their statements
    Habits      \* what the caller may do besides, a subset of AllHabits

AllModes == {"perScript", "perStatement", "none", "callers"}

\* A commit of transaction() or of a script, a SAVEPOINT, a ROLLBACK TO SAVEPOINT.
AllRefusals == {"tx", "savepoint", "rollbackTo"} \cup AllModes

\* overlap: scopes of one transaction side by side; restart: tx.restart() in a scope.
AllHabits == {"overlap", "restart"}

ASSUME WorkAssumption ==
    /\ 0 \notin Slots /\ IsFiniteSet(Slots) /\ Modes \subseteq AllModes /\ Refuses \subseteq AllRefusals
    /\ {MaxWork, MaxScript, FileLen} \subseteq Nat /\ Files \subseteq Nat /\ Habits \subseteq AllHabits

VARIABLES
    unit,       \* "idle", "tx", "script" or "migrate"
    obj,        \* the Transaction object: fin, and spDepth as depth
    srv,        \* the server's transaction: open, its work, its savepoints
    scope,      \* per slot: the name of its savepoint, the slot it was opened in, and whether
                \* the savepoint has gone
    logs,       \* per open slot: what it may count on
    script,     \* the script under way
    mig,        \* the migrator: the file at work, its statements that stand, the files recorded with theirs
    durable, owed, doubt,   \* statements committed, promised, and committed for all anyone knows
    up,         \* the connection stands
    amiss,      \* statements whose end is not the one that their scope has told of
    leaked,     \* a server transaction is open that nobody will finish
    n           \* statements that did something

prog == <<unit, obj, scope, logs, script, mig>>
data == <<srv, durable, owed, doubt, amiss, up, leaked, n>>
vars == <<prog, data>>

NoScript == [mode |-> "no", at |-> 0, cont |-> FALSE, dirty |-> FALSE, auto |-> FALSE, left |-> 0]
NoTx == [open |-> FALSE, work |-> {}, saves |-> <<>>]
Fresh == [NoTx EXCEPT !.open = TRUE]
Root == [s \in {0} |-> {}]
NoScopes == [s \in {} |-> 0]

Init ==
    /\ unit = "idle" /\ obj = [fin |-> TRUE, depth |-> 0] /\ srv = NoTx
    /\ scope = NoScopes /\ logs = Root /\ script = NoScript
    /\ mig = [file |-> 0, done |-> 0, recorded |-> NoScopes]
    /\ durable = {} /\ owed = {} /\ doubt = {} /\ amiss = {} /\ up = TRUE /\ leaked = FALSE /\ n = 0

-----------------------------------------------------------------------------
(* The server's answers to commit and rollback. *)

Told == UNION {logs[s] : s \in DOMAIN logs}
Emptied == [s \in DOMAIN logs |-> {}]
With(f, s, v) == [x \in DOMAIN f \cup {s} |-> IF x = s THEN v ELSE f[x]]
Without(f, s) == [x \in DOMAIN f \ {s} |-> f[x]]

\* assertActive() passes and the connection stands.
Works == ~obj.fin /\ up

\* The connection breaks: the server rolls back, and nobody may count on anything.
Breaks(landed) ==
    /\ up' = FALSE /\ srv' = NoTx
    /\ durable' = IF landed THEN durable \cup srv.work ELSE durable
    /\ doubt' = IF landed THEN doubt \cup srv.work ELSE doubt
    /\ leaked' = FALSE /\ UNCHANGED <<owed, amiss, n>>

\* A commit accepted; `next` is the server's transaction after it.
Commit(next) ==
    /\ durable' = durable \cup srv.work
    /\ owed' = owed \cup Told
    /\ srv' = next
    /\ UNCHANGED <<doubt, amiss, up, leaked, n>>

Rollback(next) == srv' = next /\ UNCHANGED <<durable, owed, doubt, amiss, up, leaked, n>>
Same == UNCHANGED data

\* A statement that did its work within the transaction.
Works1(log) ==
    /\ n < MaxWork
    /\ n' = n + 1
    /\ srv' = [srv EXCEPT !.work = @ \cup {n + 1}]
    /\ logs' = [logs EXCEPT ![log] = @ \cup {n + 1}]
    /\ UNCHANGED <<durable, owed, doubt, amiss, up, leaked>>

\* The unit is over, returned or thrown.
Over == unit' = "idle" /\ obj' = [fin |-> TRUE, depth |-> 0] /\ scope' = NoScopes /\ logs' = Root
        /\ script' = NoScript /\ UNCHANGED mig

-----------------------------------------------------------------------------
(* Attachment.transaction() and what its callback may do. *)

BeginTx ==
    /\ unit = "idle" /\ up
    /\ unit' = "tx" /\ obj' = [fin |-> FALSE, depth |-> 0] /\ srv' = Fresh
    /\ UNCHANGED <<scope, logs, script, mig, durable, owed, doubt, amiss, up, leaked, n>>

\* The code of slot s is running: what it opened has ended, no script is under way.
Running(s) ==
    /\ unit = "tx" /\ script.mode = "no" /\ s \in DOMAIN logs
    /\ "overlap" \in Habits \/ \A c \in DOMAIN scope : scope[c].parent # s

Statement(s) ==
    /\ Running(s) /\ Works
    /\ Works1(s)
    /\ UNCHANGED <<unit, obj, scope, script, mig>>

Saved(name) == \E k \in DOMAIN srv.saves : srv.saves[k].name = name
At(name) == CHOOSE k \in DOMAIN srv.saves : srv.saves[k].name = name

\* A name used before names the new savepoint.
Save(name) ==
    LET others == IF Saved(name) THEN RemoveAt(srv.saves, At(name)) ELSE srv.saves
    IN [srv EXCEPT !.saves = Append(others, [name |-> name, work |-> srv.work])]

SlipName == 1
Name == obj.depth + 1

\* FF_SP_-1 is not a name.
OpenScope(s) ==
    /\ Running(s) /\ Works /\ Name >= 0
    /\ \E c \in Slots \ DOMAIN scope :
        /\ \A d \in Slots \ DOMAIN scope : c <= d
        /\ scope' = With(scope, c, [name |-> Name, parent |-> s, lost |-> FALSE])
        /\ logs' = With(logs, c, {})
    /\ obj' = [obj EXCEPT !.depth = @ + 1]
    /\ srv' = Save(Name)
    /\ UNCHANGED <<unit, script, mig, durable, owed, doubt, amiss, up, leaked, n>>

\* RELEASE SAVEPOINT ends those within as well; ROLLBACK TO keeps the one it names.
Release(name) == [srv EXCEPT !.saves = SubSeq(@, 1, At(name) - 1)]
RollbackTo(name) == [srv EXCEPT !.work = srv.saves[At(name)].work, !.saves = SubSeq(@, 1, At(name))]

\* SAVEPOINT is refused, and the catch block rolls back to its name, which may be that of a
\* scope of the same depth that threw before: what was done since is undone, and the
\* savepoints set since are gone. With no such name nothing changes.
SavepointRefused(s) ==
    /\ "savepoint" \in Refuses
    /\ Running(s) /\ Works /\ Saved(Name)
    /\ srv' = RollbackTo(Name)
    /\ amiss' = amiss \cup (srv.work \ srv'.work)
    /\ scope' = [c \in DOMAIN scope |->
                    [scope[c] EXCEPT !.lost = \A k \in DOMAIN srv'.saves : srv'.saves[k].name # scope[c].name]]
    /\ UNCHANGED <<unit, obj, logs, script, mig, durable, owed, doubt, up, leaked, n>>

SlipKeepsDepth(c) ==
    /\ obj' = obj
    /\ scope' = Without(scope, c)
    /\ UNCHANGED <<unit, script, mig, durable, owed, doubt, up, leaked, n>>

Closes(c) ==
    /\ obj' = [obj EXCEPT !.depth = @ - 1]
    /\ scope' = Without(scope, c)
    /\ UNCHANGED <<unit, script, mig, durable, owed, doubt, up, leaked, n>>

ReturnScope(c) ==
    /\ c # 0 /\ Running(c) /\ \A d \in DOMAIN scope : scope[d].parent # c
    /\ Works /\ Saved(scope[c].name)
    /\ srv' = Release(scope[c].name)
    /\ logs' = [Without(logs, c) EXCEPT ![scope[c].parent] = @ \cup logs[c]]
    /\ Closes(c) /\ UNCHANGED amiss

SlipUndoesNothing(c) == FALSE

\* The catch block rolls back to the savepoint if it can.
Undoes(c) == Works /\ Saved(scope[c].name)

\* The callback throws, or the RELEASE does. A refused ROLLBACK TO is swallowed, and the
\* work of the scope stays.
ThrowScope(c) ==
    /\ c # 0 /\ Running(c) /\ \A d \in DOMAIN scope : scope[d].parent # c
    /\ \/ /\ srv' = IF Undoes(c) THEN RollbackTo(scope[c].name) ELSE srv
          /\ amiss' = IF scope[c].lost THEN amiss \cup logs[c] ELSE amiss
       \/ /\ "rollbackTo" \in Refuses /\ Works
          /\ srv' = srv /\ amiss' = amiss \cup logs[c]
    /\ logs' = Without(logs, c)
    /\ Closes(c)

\* tx.commit() and tx.rollback() called by the callback. A refused commit leaves the
\* object as it was, and so does one whose answer is lost.
Finish(s) ==
    /\ Running(s) /\ Works
    /\ \/ (Commit(NoTx) \/ Rollback(NoTx)) /\ obj' = [obj EXCEPT !.fin = TRUE]
       \/ Breaks(TRUE) /\ UNCHANGED obj
    /\ logs' = Emptied
    /\ UNCHANGED <<unit, scope, script, mig>>

\* restart(): commit or rollback of what is open, then a new transaction.
Restart(s) ==
    /\ Running(s) /\ up /\ (s = 0 \/ "restart" \in Habits)
    /\ \/ Commit(Fresh) \/ Rollback(Fresh)
    /\ obj' = [fin |-> FALSE, depth |-> 0] /\ logs' = Emptied
    /\ UNCHANGED <<unit, scope, script, mig>>

SlipNeverRollsBack(mode) == mode # "none"

\* Who rolls back what he could not commit; perStatement's finally block does not.
RollsBack(mode) == mode # "perStatement"

\* A commit that ends the unit or one of its statements: it is accepted, refused, or
\* the connection breaks, before or after the server has done it.
Ends(mode) ==
    \/ up /\ Commit(NoTx)
    \/ /\ up /\ mode \in Refuses
       /\ srv' = IF RollsBack(mode) THEN NoTx ELSE srv
       /\ leaked' = (leaked \/ ~RollsBack(mode))
       /\ UNCHANGED <<durable, owed, doubt, amiss, up, n>>
    \/ up /\ \E landed \in BOOLEAN : Breaks(landed)
    \/ ~up /\ Same

\* The callback returns: commit, and rollback if that is refused. Or it throws.
EndTx ==
    /\ Running(0) /\ scope = NoScopes
    /\ \/ obj.fin /\ Same
       \/ ~obj.fin /\ Ends("tx")
       \/ ~obj.fin /\ Rollback(NoTx)
    /\ Over

-----------------------------------------------------------------------------
(* executeScript() *)

StartScript ==
    /\ unit = "idle" /\ up
    /\ \E mode \in Modes \ {"callers"}, cont \in BOOLEAN :
        /\ script' = [NoScript EXCEPT !.mode = mode, !.cont = cont, !.left = MaxScript]
        /\ obj' = [obj EXCEPT !.fin = mode # "perScript"]
        /\ srv' = IF mode = "perScript" THEN Fresh ELSE NoTx
    /\ unit' = "script"
    /\ UNCHANGED <<scope, logs, mig, durable, owed, doubt, amiss, up, leaked, n>>

StartOnCallers(s) ==
    /\ Running(s) /\ "callers" \in Modes
    /\ \E cont \in BOOLEAN : script' = [NoScript EXCEPT !.mode = "callers", !.at = s, !.cont = cont, !.left = MaxScript]
    /\ UNCHANGED <<unit, obj, scope, logs, mig, data>>

Next1 == [script EXCEPT !.left = @ - 1]
In(mode) == script.mode = mode /\ script.left > 0

\* emitError(): on it goes with continueOnError; else the script is over, and what
\* perScript has open is rolled back.
SlipCommits ==
    IF script.mode = "callers"
    THEN script' = NoScript /\ Same /\ UNCHANGED <<unit, obj, scope, logs, mig>>
    ELSE (IF Works THEN durable' = durable \cup srv.work /\ srv' = NoTx /\ UNCHANGED <<owed, doubt, amiss, up, leaked, n>> ELSE Same) /\ Over

Throws ==
    IF script.mode = "callers"
    THEN script' = NoScript /\ Same /\ UNCHANGED <<unit, obj, scope, logs, mig>>
    ELSE (IF Works THEN Rollback(NoTx) ELSE Same) /\ Over

Fails(s) ==
    IF script.cont THEN script' = s /\ Same /\ UNCHANGED <<unit, obj, scope, logs, mig>> ELSE Throws

\* runOne(), refused by the server or by assertActive().
StatementFails == script.mode # "no" /\ script.left > 0 /\ Fails([Next1 EXCEPT !.dirty = TRUE])

\* Client commands that are errors: unsupported ones, all with clientCommands 'error'
\* or a caller's transaction, SET TRANSACTION without one.
Rejected == script.mode # "no" /\ script.left > 0 /\ Fails(Next1)

OnCallers ==
    /\ In("callers") /\ Works
    /\ Works1(script.at)
    /\ script' = Next1
    /\ UNCHANGED <<unit, obj, scope, mig>>

InScript ==
    /\ In("perScript") /\ Works
    /\ Works1(0)
    /\ script' = [Next1 EXCEPT !.dirty = TRUE]
    /\ UNCHANGED <<unit, obj, scope, mig>>

Reopened == [Next1 EXCEPT !.dirty = FALSE]

\* COMMIT and ROLLBACK, with or without RETAIN. A refused one changes nothing and is
\* an error like any other (Rejected).
Checkpoint ==
    /\ In("perScript") /\ Works
    /\ \/ Commit(Fresh) \/ Rollback(Fresh)
    /\ logs' = Emptied /\ script' = Reopened
    /\ UNCHANGED <<unit, obj, scope, mig>>

\* The connection breaks in a checkpoint: in the commit, or before the transaction is
\* begun again, and then the object stays finished.
CheckpointBreaks ==
    /\ In("perScript") /\ Works
    /\ \/ \E landed \in BOOLEAN : Breaks(landed) /\ (IF script.cont THEN UNCHANGED obj ELSE obj' = [obj EXCEPT !.fin = TRUE])
       \/ /\ durable' = durable \cup srv.work /\ owed' = owed \cup Told /\ srv' = NoTx /\ up' = FALSE
          /\ obj' = [obj EXCEPT !.fin = TRUE] /\ leaked' = FALSE /\ UNCHANGED <<doubt, amiss, n>>
    /\ logs' = Emptied
    /\ IF script.cont THEN script' = Next1 /\ UNCHANGED unit ELSE script' = NoScript /\ unit' = "idle"
    /\ UNCHANGED <<scope, mig>>

\* SET AUTODDL ON: a DDL statement is committed at once, and a refusal throws even
\* with continueOnError.
SetAutoDdl ==
    /\ In("perScript")
    /\ \E on \in BOOLEAN : script' = [Next1 EXCEPT !.auto = on]
    /\ UNCHANGED <<unit, obj, scope, logs, mig, data>>

AutoDdl ==
    /\ In("perScript") /\ script.auto /\ Works /\ n < MaxWork
    /\ n' = n + 1
    /\ \/ /\ srv' = Fresh
          /\ durable' = durable \cup srv.work \cup {n + 1} /\ owed' = owed \cup Told \cup {n + 1}
          /\ logs' = Emptied /\ script' = Reopened
          /\ UNCHANGED <<unit, obj, scope, mig>>
       \/ /\ "perScript" \in Refuses
          /\ srv' = NoTx /\ UNCHANGED <<durable, owed>> /\ Over
    /\ UNCHANGED <<doubt, amiss, up, leaked>>

SlipUnguarded == TRUE
Clean == ~script.dirty

\* SET TRANSACTION commits the transaction for another kind: only a clean one.
SetTransaction ==
    /\ In("perScript") /\ Works /\ Clean
    /\ Commit(Fresh)
    /\ logs' = Emptied /\ script' = Reopened
    /\ UNCHANGED <<unit, obj, scope, mig>>

\* RECONNECT: perScript commits what it has first; the new connection may fail, and
\* then the transaction object stays finished.
Reconnect ==
    /\ script.mode \in {"perScript", "perStatement", "none"} /\ script.left > 0 /\ unit = "script"
    /\ script.mode = "perScript" => Works \/ obj.fin
    /\ logs' = Emptied
    /\ durable' = durable \cup srv.work /\ owed' = owed \cup Told
    /\ leaked' = FALSE
    /\ UNCHANGED <<doubt, amiss, n, scope, mig>>
    /\ \/ /\ up' = TRUE /\ srv' = IF script.mode = "perScript" THEN Fresh ELSE NoTx
          /\ obj' = [obj EXCEPT !.fin = script.mode # "perScript"]
          /\ script' = Reopened /\ UNCHANGED unit
       \/ /\ up' = FALSE /\ srv' = NoTx /\ obj' = [obj EXCEPT !.fin = TRUE]
          /\ IF script.cont THEN script' = Next1 /\ UNCHANGED unit ELSE script' = NoScript /\ unit' = "idle"

\* A statement in its own transaction: startTransaction(), the statement, commit.
\* A refused commit throws in perStatement and is the statement's error in none.
InOwn(mode) ==
    /\ In(mode) /\ up /\ n < MaxWork
    /\ n' = n + 1
    /\ \/ /\ durable' = durable \cup {n + 1} /\ owed' = owed \cup {n + 1}
          /\ script' = Next1 /\ mig' = [mig EXCEPT !.done = IF unit = "migrate" THEN @ + 1 ELSE @]
          /\ UNCHANGED <<unit, obj, scope, logs, srv, leaked>>
       \/ /\ mode \in Refuses
          /\ leaked' = (leaked \/ ~RollsBack(mode))
          /\ IF mode = "none" /\ script.cont
             THEN script' = Next1 /\ UNCHANGED <<unit, obj, scope, logs, mig>>
             ELSE Over
          /\ UNCHANGED <<durable, owed, srv>>
    /\ UNCHANGED <<doubt, amiss, up>>

\* Its commit is sent and the connection breaks.
OwnBreaks(mode) ==
    /\ In(mode) /\ up /\ n < MaxWork
    /\ n' = n + 1 /\ up' = FALSE /\ leaked' = FALSE
    /\ durable' = durable \cup {n + 1} /\ doubt' = doubt \cup {n + 1}
    /\ IF mode = "none" /\ script.cont THEN script' = Next1 /\ UNCHANGED <<unit, obj, scope, logs, mig>> ELSE Over
    /\ UNCHANGED <<owed, srv, amiss>>

\* The end: perScript commits, and rolls back what the server refuses to commit.
EndScript ==
    /\ script.mode # "no" /\ unit # "migrate"
    /\ IF script.mode = "callers"
       THEN script' = NoScript /\ Same /\ UNCHANGED <<unit, obj, scope, logs, mig>>
       ELSE /\ IF script.mode = "perScript" /\ ~obj.fin THEN Ends("perScript") ELSE Same
            /\ Over

-----------------------------------------------------------------------------
(* migrate(): a file is a script of its own, then it is recorded. *)

Due == {f \in Files : f \notin DOMAIN mig.recorded}

StartFile ==
    /\ unit \in {"idle", "migrate"} /\ script.mode = "no" /\ Due # {} /\ up
    /\ \E f \in Due : (\A g \in Due : f <= g) /\ mig' = [mig EXCEPT !.file = f, !.done = 0]
    /\ unit' = "migrate"
    /\ script' = [NoScript EXCEPT !.mode = "perStatement", !.left = FileLen]
    /\ UNCHANGED <<obj, scope, logs, data>>

SlipRecordsAnyway == script.mode = "perStatement"
FileDone == script.mode = "perStatement" /\ script.left = 0

Record ==
    /\ unit = "migrate" /\ FileDone /\ up
    /\ mig' = [mig EXCEPT !.recorded = With(@, mig.file, mig.done)]
    /\ script' = NoScript
    /\ unit' = IF Due = {mig.file} THEN "idle" ELSE "migrate"
    /\ UNCHANGED <<obj, scope, logs, data>>

\* The record may fail to be written although the file's statements stand, and the
\* next file may not be readable.
RecordFails == unit = "migrate" /\ (FileDone \/ script.mode = "no") /\ Over /\ Same

-----------------------------------------------------------------------------
\* The connection breaks between two calls.
Break ==
    /\ up /\ unit # "idle"
    /\ Breaks(FALSE) /\ logs' = Emptied
    /\ UNCHANGED <<unit, obj, scope, script, mig>>

\* Attachment.reconnect() by the program, between units.
Reconnects ==
    /\ unit = "idle" /\ ~up
    /\ up' = TRUE /\ leaked' = FALSE
    /\ UNCHANGED <<prog, srv, durable, owed, doubt, amiss, n>>

OfTransaction == BeginTx \/ EndTx \/ \E s \in {0} \cup Slots :
    Statement(s) \/ OpenScope(s) \/ SavepointRefused(s) \/ ReturnScope(s) \/ ThrowScope(s) \/ Finish(s) \/ Restart(s) \/ StartOnCallers(s)
OfScript == StartScript \/ StatementFails \/ Rejected \/ OnCallers \/ InScript \/ Checkpoint \/ CheckpointBreaks \/ SetAutoDdl \/ AutoDdl
    \/ SetTransaction \/ Reconnect \/ InOwn("perStatement") \/ InOwn("none")
    \/ OwnBreaks("perStatement") \/ OwnBreaks("none") \/ EndScript
OfMigrator == StartFile \/ Record \/ RecordFails
Next == OfTransaction \/ OfScript \/ OfMigrator \/ Break \/ Reconnects

Spec == Init /\ [][Next]_vars

-----------------------------------------------------------------------------
Names == {scope[c].name : c \in DOMAIN scope}

TypeOK ==
    /\ unit \in {"idle", "tx", "script", "migrate"} /\ script.mode \in AllModes \cup {"no"}
    /\ obj.depth \in 0..Cardinality(Slots) /\ {durable, owed, doubt} \subseteq SUBSET (1..MaxWork)
    /\ DOMAIN logs = {0} \cup DOMAIN scope

\* What stands in the database is what the program was told stands, but for commits
\* whose answer was lost and for what a refused SAVEPOINT or ROLLBACK TO has made amiss.
KeptAsTold == owed \ amiss \subseteq durable /\ durable \ amiss \subseteq owed \cup doubt

\* Scopes that succeeded are in the transaction, those that threw left nothing in it,
\* and the outer transaction survives either way: of every statement, but for what a
\* refused SAVEPOINT has undone and a refused ROLLBACK TO has left.
WorkAsTold == srv.open => srv.work \ amiss = Told \ amiss

\* Every open scope has a savepoint of its own to go back to, unless a refused SAVEPOINT
\* went back further.
ScopesSaved == Works =>
    /\ Cardinality(Names) = Cardinality(DOMAIN scope)
    /\ \A c \in DOMAIN scope : ~scope[c].lost => Saved(scope[c].name)

\* "released on success, rolled back to on error - the outer transaction survives either
\* way" (transaction.ts:164-165): what the program was told stays in the transaction.
OuterSurvives == srv.open => Told \subseteq srv.work

\* Savepoints do what scopes promise: each has its own, and what one undoes is its own.
ScopesRight == TypeOK /\ WorkAsTold /\ ScopesSaved

\* Once a transaction() or a script has ended, however it ended, no transaction of its
\* is left open at the server.
NoneLeft == unit = "idle" => ~srv.open /\ ~leaked

\* SET TRANSACTION commits nothing the script has not committed itself.
NothingByTheWay == [][SetTransaction => durable' = durable]_vars

\* A migration is recorded only when all its statements stand, and files go in order.
WholeFiles ==
    \A f \in DOMAIN mig.recorded : mig.recorded[f] = FileLen /\ \A g \in Files : g < f => g \in DOMAIN mig.recorded
=============================================================================
