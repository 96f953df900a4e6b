------------------------- MODULE UnitsOfWorkProofs -------------------------
(***************************************************************************)
(* Proofs about UnitsOfWork, for any number of scopes, statements, script  *)
(* commands and migration files. Four of them hold whatever the caller     *)
(* does; that scopes undo what is theirs and that the program is told the  *)
(* truth need scopes that do not overlap and no restart() within one: then *)
(* they are a stack, whose levels the savepoints mirror.                   *)
(***************************************************************************)
EXTENDS UnitsOfWork, FiniteSetTheorems, SequenceTheorems, TLAPS

Work == 1..MaxWork
Savepoints == [name : Int, work : SUBSET Work]
Servers == [open : BOOLEAN, work : SUBSET Work, saves : Seq(Savepoints)]
Scripts == [mode : AllModes \cup {"no"}, at : {0} \cup Slots,
            cont : BOOLEAN, dirty : BOOLEAN, auto : BOOLEAN, left : Int]
Logs(S) == [{0} \cup S -> SUBSET Work]
Scopes(S) == [S -> [name : Int, parent : {0} \cup Slots, lost : BOOLEAN]]

\* The kinds of the variables.
Kinds ==
    /\ unit \in {"idle", "tx", "script", "migrate"}
    /\ obj \in [fin : BOOLEAN, depth : Int]
    /\ srv \in Servers
    /\ DOMAIN scope \subseteq Slots /\ scope \in Scopes(DOMAIN scope)
    /\ logs \in Logs(DOMAIN scope)
    /\ script \in Scripts
    /\ {durable, owed, doubt} \subseteq SUBSET Work
    /\ up \in BOOLEAN /\ leaked \in BOOLEAN /\ n \in 0..MaxWork

\* Which unit runs which script, and what a unit leaves behind.
Phases ==
    /\ unit = "idle" => script.mode = "no"
    /\ unit = "tx" => script.mode \in {"no", "callers"}
    /\ script.mode = "callers" => script.at \in {0} \cup DOMAIN scope
    /\ unit = "script" => script.mode \in {"perScript", "perStatement", "none"}
    /\ unit = "migrate" => script.mode \in {"no", "perStatement"}
    /\ unit # "tx" => DOMAIN scope = {} /\ obj.depth = 0
    /\ unit # "tx" /\ script.mode # "perScript" => obj.fin

\* The server has a transaction just while the object does and the connection stands.
Open == (srv.open <=> Works) /\ (~srv.open => srv = NoTx)

Standing == Kinds /\ Phases /\ Open

-----------------------------------------------------------------------------
(* The kinds of the parts.                                                 *)

\* The server without a transaction, and with a new one.
LEMMA NoTxKind == NoTx \in Servers /\ Fresh \in Servers /\ ~NoTx.open /\ Fresh.open
          /\ NoTx.work = {} /\ Fresh.work = {} /\ Fresh.saves = <<>>
<1>1. <<>> \in Seq(Savepoints)
  BY EmptySeq
<1> QED
  BY <1>1 DEF NoTx, Fresh, Servers

\* Where every unit starts: no scope, and nothing done.
LEMMA FirstScopes == DOMAIN NoScopes = {} /\ NoScopes \in Scopes({}) /\ Root \in Logs({})
BY DEF NoScopes, Scopes, Root, Logs

\* No script is a script at rest.
LEMMA NoScriptKind == NoScript \in Scripts /\ NoScript.mode = "no"
BY DEF NoScript, Scripts

\* The first state stands.
LEMMA StandingInit == Init => Standing
<1> SUFFICES ASSUME Init PROVE Standing
  OBVIOUS
<1>1. Kinds
  <2>1. scope \in Scopes(DOMAIN scope) /\ DOMAIN scope = {} /\ logs \in Logs(DOMAIN scope)
    BY FirstScopes DEF Init
  <2>2. 0 \in 0..MaxWork
    BY WorkAssumption
  <2>3. obj \in [fin : BOOLEAN, depth : Int] /\ srv \in Servers /\ script \in Scripts
    BY NoTxKind, NoScriptKind DEF Init
  <2> QED
    BY <2>1, <2>2, <2>3 DEF Init, Kinds
<1>2. Phases
  BY FirstScopes, NoScriptKind DEF Init, Phases
<1>3. Open
  BY NoTxKind DEF Init, Open, Works
<1> QED
  BY <1>1, <1>2, <1>3 DEF Standing

\* SAVEPOINT changes nothing but the savepoints.
LEMMA SaveKind ==
    ASSUME Kinds, NEW name \in Int
    PROVE  Save(name) \in Servers /\ Save(name).open = srv.open /\ Save(name).work = srv.work
<1> DEFINE others == IF Saved(name) THEN RemoveAt(srv.saves, At(name)) ELSE srv.saves
           new == [name |-> name, work |-> srv.work]
<1>1. srv \in Servers /\ srv.saves \in Seq(Savepoints) /\ new \in Savepoints
  BY DEF Kinds, Servers, Savepoints
<1>2. others \in Seq(Savepoints)
  <2>1. CASE Saved(name)
    <3>1. At(name) \in 1..Len(srv.saves)
      BY <1>1, <2>1, LenProperties DEF Saved, At
    <3>2. /\ SubSeq(srv.saves, 1, At(name) - 1) \in Seq(Savepoints)
          /\ SubSeq(srv.saves, At(name) + 1, Len(srv.saves)) \in Seq(Savepoints)
      BY <1>1, <3>1, SubSeqProperties, LenProperties, ElementOfSeq
    <3>3. RemoveAt(srv.saves, At(name)) \in Seq(Savepoints)
      BY <3>2, ConcatProperties DEF RemoveAt
    <3> QED
      BY <2>1, <3>3
  <2>2. CASE ~Saved(name)
    BY <1>1, <2>2
  <2> QED
    BY <2>1, <2>2
<1>3. Append(others, new) \in Seq(Savepoints)
  BY <1>1, <1>2, AppendProperties
<1>4. Save(name) = [srv EXCEPT !.saves = Append(others, new)]
  BY DEF Save
<1> HIDE DEF others, new
<1> QED
  BY <1>1, <1>3, <1>4 DEF Servers

\* Nor does RELEASE SAVEPOINT.
LEMMA ReleaseKind ==
    ASSUME Kinds, NEW name \in Int, Saved(name)
    PROVE  Release(name) \in Servers /\ Release(name).open = srv.open /\ Release(name).work = srv.work
<1>1. srv \in Servers /\ srv.saves \in Seq(Savepoints)
  BY DEF Kinds, Servers
<1>2. At(name) \in 1..Len(srv.saves)
  BY <1>1, LenProperties DEF Saved, At
<1>3. SubSeq(srv.saves, 1, At(name) - 1) \in Seq(Savepoints)
  BY <1>1, <1>2, SubSeqProperties, LenProperties, ElementOfSeq
<1> QED
  BY <1>1, <1>3 DEF Release, Servers

\* ROLLBACK TO leaves the transaction open.
LEMMA RollbackToKind ==
    ASSUME Kinds, NEW name \in Int, Saved(name)
    PROVE  RollbackTo(name) \in Servers /\ RollbackTo(name).open = srv.open
<1>1. srv \in Servers /\ srv.saves \in Seq(Savepoints)
  BY DEF Kinds, Servers
<1>2. At(name) \in 1..Len(srv.saves)
  BY <1>1, LenProperties DEF Saved, At
<1>3. SubSeq(srv.saves, 1, At(name)) \in Seq(Savepoints)
  BY <1>1, <1>2, SubSeqProperties, LenProperties, ElementOfSeq
<1>4. srv.saves[At(name)].work \in SUBSET Work
  <2>1. srv.saves[At(name)] \in Savepoints
    BY <1>1, <1>2, ElementOfSeq
  <2> QED
    BY <2>1 DEF Savepoints
<1> DEFINE work == srv.saves[At(name)].work
           saves == SubSeq(srv.saves, 1, At(name))
<1>5. RollbackTo(name) = [srv EXCEPT !.work = work, !.saves = saves]
  BY DEF RollbackTo
<1>6. work \in SUBSET Work /\ saves \in Seq(Savepoints)
  BY <1>3, <1>4
<1> HIDE DEF work, saves
<1> QED
  BY <1>1, <1>5, <1>6 DEF Servers

\* What is told of is work.
LEMMA ToldKind == Kinds => Told \in SUBSET Work /\ Emptied \in Logs(DOMAIN scope)
BY DEF Kinds, Told, Emptied, Logs

\* A statement that does its work leaves the transaction as it was, but for that.
LEMMA Works1Kind ==
    ASSUME Kinds, NEW s \in DOMAIN logs, Works1(s)
    PROVE  /\ srv' \in Servers /\ srv'.open = srv.open /\ logs' \in Logs(DOMAIN scope)
           /\ n' \in 0..MaxWork
<1>1. n + 1 \in Work /\ n' = n + 1 /\ n' \in 0..MaxWork
  BY WorkAssumption DEF Kinds, Works1, Work
<1> DEFINE w == srv.work \cup {n + 1}
<1>2. w \in SUBSET Work
  BY <1>1 DEF Kinds, Servers
<1>3. srv' = [srv EXCEPT !.work = w]
  BY DEF Works1
<1>4. srv' \in Servers /\ srv'.open = srv.open
  <2> HIDE DEF w
  <2> QED
    BY <1>2, <1>3 DEF Kinds, Servers
<1>5. logs' \in Logs(DOMAIN scope)
  BY <1>1 DEF Works1, Kinds, Logs
<1> QED
  BY <1>1, <1>4, <1>5

\* A unit that is over leaves its places empty.
LEMMA OverKind ==
    ASSUME Over
    PROVE  /\ unit' = "idle" /\ obj' \in [fin : BOOLEAN, depth : Int] /\ obj'.fin /\ obj'.depth = 0
           /\ DOMAIN scope' = {} /\ scope' \in Scopes(DOMAIN scope')
           /\ logs' \in Logs(DOMAIN scope') /\ script' \in Scripts /\ script'.mode = "no"
BY FirstScopes, NoScriptKind DEF Over

\* A unit that is over and has left nothing at the server.
LEMMA OverStands ==
    ASSUME Over, srv' = NoTx, {durable, owed, doubt}' \subseteq SUBSET Work,
           up' \in BOOLEAN, leaked' \in BOOLEAN, n' \in 0..MaxWork
    PROVE  Standing'
BY OverKind, NoTxKind DEF Standing, Kinds, Phases, Open, Works

\* What commit, rollback and a broken connection leave of the data.
LEMMA DataKinds ==
    ASSUME Kinds
    PROVE  /\ \A next : Commit(next) =>
                /\ {durable, owed, doubt}' \subseteq SUBSET Work
                /\ srv' = next /\ up' = up /\ leaked' = leaked /\ n' = n
           /\ \A next : Rollback(next) =>
                /\ {durable, owed, doubt}' \subseteq SUBSET Work
                /\ srv' = next /\ up' = up /\ leaked' = leaked /\ n' = n
           /\ \A landed : Breaks(landed) =>
                /\ {durable, owed, doubt}' \subseteq SUBSET Work
                /\ srv' = NoTx /\ up' = FALSE /\ leaked' = FALSE /\ n' = n
           /\ Same =>
                /\ {durable, owed, doubt}' \subseteq SUBSET Work
                /\ srv' = srv /\ up' = up /\ leaked' = leaked /\ n' = n
<1>1. Told \in SUBSET Work /\ srv.work \in SUBSET Work /\ {durable, owed, doubt} \subseteq SUBSET Work
  BY ToldKind DEF Kinds, Servers
<1> QED
  BY <1>1 DEF Commit, Rollback, Breaks, Same, data

\* The end of a unit: unless nobody rolls back, a transaction stays only at a connection that is gone.
LEMMA EndsKind ==
    ASSUME Kinds, NEW mode, Ends(mode)
    PROVE  /\ {durable, owed, doubt}' \subseteq SUBSET Work
           /\ up' \in BOOLEAN /\ leaked' \in BOOLEAN /\ n' = n
           /\ RollsBack(mode) => srv' \in {NoTx, srv} /\ (srv' # NoTx => ~up)
           /\ RollsBack(mode) /\ leaked' => leaked
<1>1. up \in BOOLEAN /\ leaked \in BOOLEAN
  BY DEF Kinds
<1>2. CASE up /\ Commit(NoTx)
  <2>1. /\ {durable, owed, doubt}' \subseteq SUBSET Work
        /\ srv' = NoTx /\ up' = up /\ leaked' = leaked /\ n' = n
    BY <1>2, DataKinds
  <2> QED
    BY <1>1, <2>1
<1>3. CASE /\ up /\ mode \in Refuses
           /\ srv' = IF RollsBack(mode) THEN NoTx ELSE srv
           /\ leaked' = (leaked \/ ~RollsBack(mode))
           /\ UNCHANGED <<durable, owed, doubt, up, n>>
  BY <1>1, <1>3 DEF Kinds
<1>4. CASE up /\ \E landed \in BOOLEAN : Breaks(landed)
  BY <1>1, <1>4, DataKinds
<1>5. CASE ~up /\ Same
  BY <1>1, <1>5, DataKinds
<1> QED
  BY <1>2, <1>3, <1>4, <1>5 DEF Ends

\* Finishing the object changes nothing else of it.
LEMMA ObjKind ==
    ASSUME Kinds, NEW b \in BOOLEAN
    PROVE  /\ [obj EXCEPT !.fin = b] \in [fin : BOOLEAN, depth : Int]
           /\ [obj EXCEPT !.fin = b].fin = b /\ [obj EXCEPT !.fin = b].depth = obj.depth
BY DEF Kinds

\* A command done leaves the script in its mode and place.
LEMMA Next1Kind ==
    ASSUME Kinds
    PROVE  /\ Next1 \in Scripts /\ Next1.mode = script.mode /\ Next1.at = script.at
           /\ Reopened \in Scripts /\ Reopened.mode = script.mode /\ Reopened.at = script.at
           /\ \A b \in BOOLEAN :
                /\ [Next1 EXCEPT !.dirty = b] \in Scripts /\ [Next1 EXCEPT !.dirty = b].mode = script.mode
                /\ [Next1 EXCEPT !.dirty = b].at = script.at
                /\ [Next1 EXCEPT !.auto = b] \in Scripts /\ [Next1 EXCEPT !.auto = b].mode = script.mode
                /\ [Next1 EXCEPT !.auto = b].at = script.at
<1>1. Next1 \in Scripts /\ Next1.mode = script.mode /\ Next1.at = script.at
  BY DEF Kinds, Next1, Scripts
<1>2. Reopened = [Next1 EXCEPT !.dirty = FALSE]
  BY DEF Reopened
<1> HIDE DEF Next1
<1> QED
  BY <1>1, <1>2 DEF Scripts

\* A step that moves no scope and leaves the server what the object says.
LEMMA StandsByParts ==
    ASSUME Standing, scope' = scope, logs' \in Logs(DOMAIN scope),
           unit' = unit, script' \in Scripts, script'.mode = script.mode, script'.at = script.at,
           obj' \in [fin : BOOLEAN, depth : Int], obj'.depth = obj.depth \/ unit = "tx", 
           unit = "tx" \/ script.mode = "perScript" \/ obj'.fin = obj.fin,
           srv' \in Servers, {durable, owed, doubt}' \subseteq SUBSET Work,
           up' \in BOOLEAN, leaked' \in BOOLEAN, n' \in 0..MaxWork,
           srv'.open <=> ~obj'.fin /\ up', ~srv'.open => srv' = NoTx
    PROVE  Standing'
<1>1. Kinds'
  BY DEF Standing, Kinds
<1>2. Phases'
  BY DEF Standing, Phases
<1>3. Open'
  BY DEF Open, Works
<1> QED
  BY <1>1, <1>2, <1>3 DEF Standing

-----------------------------------------------------------------------------
(* The object and the server, at every step.                               *)

\* The steps of transaction() keep what stands: the object is unfinished just
\* while the server has its transaction.
LEMMA BeginTxStands ==
    ASSUME Standing, BeginTx
    PROVE  Standing'
BY NoTxKind DEF Standing, Kinds, Phases, Open, Works, BeginTx

\* A statement of the callback.
LEMMA StatementStands ==
    ASSUME Standing, NEW s, Statement(s)
    PROVE  Standing'
<1>1. s \in DOMAIN logs /\ Works1(s)
  BY DEF Statement, Running
<1>2. /\ srv' \in Servers /\ srv'.open = srv.open /\ logs' \in Logs(DOMAIN scope)
      /\ n' \in 0..MaxWork
  BY <1>1, Works1Kind DEF Standing
<1> QED
  BY <1>1, <1>2, StandsByParts DEF Statement, Works1, Works, Standing, Kinds, Open

\* commit() and rollback() by the callback finish both.
LEMMA FinishStands ==
    ASSUME Standing, NEW s, Finish(s)
    PROVE  Standing'
<1>0. Kinds /\ unit = "tx" /\ Works
  BY DEF Finish, Running, Standing
<1>1. Emptied \in Logs(DOMAIN scope)
  BY <1>0, ToldKind
<1>2. CASE (Commit(NoTx) \/ Rollback(NoTx)) /\ obj' = [obj EXCEPT !.fin = TRUE]
  <2>1. /\ {durable, owed, doubt}' \subseteq SUBSET Work
        /\ srv' = NoTx /\ up' = up /\ leaked' = leaked /\ n' = n
    BY <1>0, <1>2, DataKinds
  <2> QED
    BY <1>0, <1>1, <1>2, <2>1, ObjKind, NoTxKind, StandsByParts DEF Finish, Standing, Kinds
<1>3. CASE Breaks(TRUE) /\ UNCHANGED obj
  <2>1. /\ {durable, owed, doubt}' \subseteq SUBSET Work
        /\ srv' = NoTx /\ up' = FALSE /\ leaked' = FALSE /\ n' = n
    BY <1>0, <1>3, DataKinds
  <2> QED
    BY <1>0, <1>1, <1>3, <2>1, NoTxKind, StandsByParts DEF Finish, Standing, Kinds
<1> QED
  BY <1>2, <1>3 DEF Finish

\* restart() opens both anew.
LEMMA RestartStands ==
    ASSUME Standing, NEW s, Restart(s)
    PROVE  Standing'
<1>0. Kinds /\ unit = "tx" /\ up /\ Emptied \in Logs(DOMAIN scope)
  BY ToldKind DEF Restart, Running, Standing
<1>1. /\ {durable, owed, doubt}' \subseteq SUBSET Work
      /\ srv' = Fresh /\ up' = up /\ leaked' = leaked /\ n' = n
  BY <1>0, DataKinds DEF Restart
<1> QED
  BY <1>0, <1>1, NoTxKind, StandsByParts DEF Restart, Standing, Kinds

\* The end of transaction() leaves neither.
LEMMA EndTxStands ==
    ASSUME Standing, EndTx
    PROVE  Standing'
<1>0. Kinds /\ Over /\ up \in BOOLEAN /\ leaked \in BOOLEAN /\ n \in 0..MaxWork /\ Open
  BY DEF EndTx, Standing, Kinds
<1>1. CASE obj.fin /\ Same
  <2>1. /\ {durable, owed, doubt}' \subseteq SUBSET Work
        /\ srv' = srv /\ up' = up /\ leaked' = leaked /\ n' = n
    BY <1>0, <1>1, DataKinds
  <2>2. srv = NoTx
    BY <1>0, <1>1 DEF Open, Works
  <2> QED
    BY <1>0, <2>1, <2>2, OverStands
<1>2. CASE ~obj.fin /\ Ends("tx")
  <2>1. /\ {durable, owed, doubt}' \subseteq SUBSET Work
        /\ up' \in BOOLEAN /\ leaked' \in BOOLEAN /\ n' = n
        /\ srv' \in {NoTx, srv} /\ (srv' # NoTx => ~up)
    BY <1>0, <1>2, EndsKind DEF RollsBack
  <2>2. srv' = NoTx
    BY <1>0, <2>1 DEF Open, Works
  <2> QED
    BY <1>0, <2>1, <2>2, OverStands
<1>3. CASE ~obj.fin /\ Rollback(NoTx)
  <2>1. /\ {durable, owed, doubt}' \subseteq SUBSET Work
        /\ srv' = NoTx /\ up' = up /\ leaked' = leaked /\ n' = n
    BY <1>0, <1>3, DataKinds
  <2> QED
    BY <1>0, <2>1, OverStands
<1> QED
  BY <1>1, <1>2, <1>3 DEF EndTx

\* A script begins in its mode, in perScript with a transaction.
LEMMA StartScriptStands ==
    ASSUME Standing, StartScript
    PROVE  Standing'
<1>1. PICK mode \in Modes \ {"callers"}, cont \in BOOLEAN :
        /\ script' = [NoScript EXCEPT !.mode = mode, !.cont = cont, !.left = MaxScript]
        /\ obj' = [obj EXCEPT !.fin = mode # "perScript"]
        /\ srv' = IF mode = "perScript" THEN Fresh ELSE NoTx
  BY DEF StartScript
<1>2. mode \in {"perScript", "perStatement", "none"}
  BY WorkAssumption DEF AllModes
<1>3. script' \in Scripts /\ script'.mode = mode
  <2>1. mode \in AllModes /\ MaxScript \in Int
    BY <1>2, WorkAssumption DEF AllModes
  <2> QED
    BY <1>1, <2>1, NoScriptKind DEF Scripts
<1>4. /\ obj' \in [fin : BOOLEAN, depth : Int]
      /\ obj'.fin = (mode # "perScript") /\ obj'.depth = obj.depth
  BY <1>1, ObjKind DEF Standing
<1>5. srv' \in Servers /\ (srv'.open <=> mode = "perScript") /\ (~srv'.open => srv' = NoTx)
  BY <1>1, NoTxKind
<1>6. /\ unit = "idle" /\ unit' = "script" /\ up /\ scope' = scope /\ logs' = logs
      /\ durable' = durable /\ owed' = owed /\ doubt' = doubt /\ up' = up /\ leaked' = leaked /\ n' = n
  BY DEF StartScript
<1>7. Kinds'
  BY <1>3, <1>4, <1>5, <1>6 DEF Standing, Kinds
<1>8. Phases'
  BY <1>2, <1>3, <1>4, <1>6 DEF Standing, Phases
<1>9. Open'
  BY <1>4, <1>5, <1>6 DEF Open, Works
<1> QED
  BY <1>7, <1>8, <1>9 DEF Standing

\* A script on the transaction of the scope that starts it.
LEMMA StartOnCallersStands ==
    ASSUME Standing, NEW s \in {0} \cup Slots, StartOnCallers(s)
    PROVE  Standing'
<1>1. PICK cont \in BOOLEAN :
        script' = [NoScript EXCEPT !.mode = "callers", !.at = s, !.cont = cont, !.left = MaxScript]
  BY DEF StartOnCallers
<1>2. script' \in Scripts /\ script'.mode = "callers" /\ script'.at = s
  <2>1. "callers" \in AllModes /\ MaxScript \in Int
    BY WorkAssumption DEF AllModes
  <2> QED
    BY <1>1, <2>1, NoScriptKind DEF Scripts
<1>3. /\ unit = "tx" /\ s \in DOMAIN logs
      /\ UNCHANGED <<unit, obj, scope, logs>>
      /\ UNCHANGED <<srv, durable, owed, doubt, up, leaked, n>>
  BY DEF StartOnCallers, Running, data
<1>4. Kinds' /\ DOMAIN logs = {0} \cup DOMAIN scope
  BY <1>2, <1>3 DEF Standing, Kinds, Logs
<1>5. Phases'
  BY <1>2, <1>3, <1>4 DEF Standing, Phases
<1>6. Open'
  BY <1>3 DEF Standing, Open, Works
<1> QED
  BY <1>4, <1>5, <1>6 DEF Standing

\* An error that ends a script rolls back what is open.
LEMMA ThrowsStand ==
    ASSUME Standing, Throws, script.mode # "no"
    PROVE  Standing'
<1>0. Kinds /\ up \in BOOLEAN /\ leaked \in BOOLEAN /\ n \in 0..MaxWork /\ Open
  BY DEF Standing, Kinds
<1>1. CASE script.mode = "callers"
  BY <1>1, NoScriptKind DEF Throws, Same, Standing, Kinds, Phases, Open, Works, data
<1>2. CASE script.mode # "callers" /\ Works
  <2>1. Rollback(NoTx) /\ Over
    BY <1>2 DEF Throws
  <2> QED
    BY <1>0, <2>1, DataKinds, OverStands
<1>3. CASE script.mode # "callers" /\ ~Works
  <2>1. Same /\ Over /\ srv = NoTx
    BY <1>0, <1>3 DEF Throws, Open
  <2> QED
    BY <1>0, <2>1, DataKinds, OverStands
<1> QED
  BY <1>1, <1>2, <1>3

\* An error, with continueOnError or without.
LEMMA FailsStand ==
    ASSUME Standing, NEW s \in Scripts, s.mode = script.mode, s.at = script.at, script.mode # "no", Fails(s)
    PROVE  Standing'
<1>1. CASE script.cont
  BY <1>1, StandsByParts DEF Fails, Same, data, Standing, Kinds, Open, Works
<1> QED
  BY <1>1, ThrowsStand DEF Fails

\* A refused statement or command is such an error.
LEMMA StatementFailsStands ==
    ASSUME Standing, StatementFails \/ Rejected
    PROVE  Standing'
<1>1. [Next1 EXCEPT !.dirty = TRUE] \in Scripts /\ [Next1 EXCEPT !.dirty = TRUE].mode = script.mode
      /\ [Next1 EXCEPT !.dirty = TRUE].at = script.at
  BY Next1Kind DEF Standing
<1>2. Next1 \in Scripts /\ Next1.mode = script.mode /\ Next1.at = script.at
  BY Next1Kind DEF Standing
<1> QED
  BY <1>1, <1>2, FailsStand DEF StatementFails, Rejected

\* A statement of a script on the caller's transaction.
LEMMA OnCallersStands ==
    ASSUME Standing, OnCallers
    PROVE  Standing'
<1>1. script.at \in DOMAIN logs
  BY DEF OnCallers, In, Standing, Phases, Kinds, Logs
<1>2. /\ srv' \in Servers /\ srv'.open = srv.open /\ logs' \in Logs(DOMAIN scope)
      /\ n' \in 0..MaxWork
  BY <1>1, Works1Kind DEF Standing, OnCallers
<1>3. script' \in Scripts /\ script'.mode = script.mode /\ script'.at = script.at
  BY Next1Kind DEF OnCallers, Standing
<1> QED
  BY <1>2, <1>3, StandsByParts DEF OnCallers, Works1, Works, Standing, Kinds, Open

\* A statement of a perScript script.
LEMMA InScriptStands ==
    ASSUME Standing, InScript
    PROVE  Standing'
<1>1. 0 \in DOMAIN logs
  BY DEF Standing, Kinds, Logs
<1>2. /\ srv' \in Servers /\ srv'.open = srv.open /\ logs' \in Logs(DOMAIN scope)
      /\ n' \in 0..MaxWork
  BY <1>1, Works1Kind DEF Standing, InScript
<1>3. script' \in Scripts /\ script'.mode = script.mode /\ script'.at = script.at
  BY Next1Kind DEF InScript, Standing
<1> QED
  BY <1>2, <1>3, StandsByParts DEF InScript, Works1, Works, Standing, Kinds, Open

\* COMMIT, ROLLBACK and SET TRANSACTION put a new transaction for the old.
LEMMA CheckpointStands ==
    ASSUME Standing, Checkpoint \/ SetTransaction
    PROVE  Standing'
<1>0. Kinds /\ Works /\ Emptied \in Logs(DOMAIN scope)
  BY ToldKind DEF Checkpoint, SetTransaction, Standing
<1>1. /\ {durable, owed, doubt}' \subseteq SUBSET Work
      /\ srv' = Fresh /\ up' = up /\ leaked' = leaked /\ n' = n
  BY <1>0, DataKinds DEF Checkpoint, SetTransaction
<1>2. script' \in Scripts /\ script'.mode = script.mode /\ script'.at = script.at
  BY <1>0, Next1Kind DEF Checkpoint, SetTransaction
<1>3. UNCHANGED <<unit, obj, scope>> /\ logs' = Emptied
  BY DEF Checkpoint, SetTransaction
<1> QED
  BY <1>0, <1>1, <1>2, <1>3, NoTxKind, StandsByParts DEF Standing, Kinds, Works

\* The script loses the connection: with continueOnError it goes on without.
LEMMA LosesStands ==
    ASSUME Standing, script.mode \in {"perScript", "perStatement", "none"}, unit = "script",
           srv' = NoTx, up' = FALSE, leaked' = FALSE, n' \in 0..MaxWork,
           {durable, owed, doubt}' \subseteq SUBSET Work,
           scope' = scope, logs' = Emptied,
           \/ obj' = [obj EXCEPT !.fin = TRUE]
           \/ obj' = obj /\ script.cont,
           IF script.cont THEN script' = Next1 /\ UNCHANGED unit ELSE script' = NoScript /\ unit' = "idle"
    PROVE  Standing'
<1>0. /\ Kinds /\ Phases /\ Emptied \in Logs(DOMAIN scope) /\ Next1 \in Scripts
      /\ Next1.mode = script.mode
  BY ToldKind, Next1Kind DEF Standing
<1>1. /\ obj' \in [fin : BOOLEAN, depth : Int] /\ obj'.depth = obj.depth
      /\ obj'.fin \/ (obj' = obj /\ script.cont)
  BY <1>0, ObjKind DEF Kinds
<1>2. /\ script' \in Scripts /\ IF script.cont THEN script'.mode = script.mode ELSE script'.mode = "no"
  BY <1>0, NoScriptKind
<1>3. Kinds'
  BY <1>0, <1>1, <1>2, NoTxKind DEF Kinds
<1>4. Phases'
  <2>1. CASE script.cont
    <3>1. unit' = "script" /\ script' = Next1
      BY <2>1
    <3>2. unit' # "tx" /\ script'.mode = script.mode /\ DOMAIN scope' = {} /\ obj'.depth = 0
      BY <1>0, <1>1, <3>1 DEF Phases
    <3> QED
      BY <1>0, <1>1, <3>1, <3>2 DEF Phases
  <2>2. CASE ~script.cont
    BY <1>0, <1>1, <1>2, <2>2 DEF Phases
  <2> QED
    BY <2>1, <2>2
<1>5. Open'
  BY NoTxKind DEF Open, Works
<1> QED
  BY <1>3, <1>4, <1>5 DEF Standing

\* A connection that breaks in a checkpoint.
LEMMA CheckpointBreaksStands ==
    ASSUME Standing, CheckpointBreaks
    PROVE  Standing'
<1>0. /\ Kinds /\ script.mode = "perScript" /\ unit = "script"
      /\ scope' = scope /\ logs' = Emptied /\ n \in 0..MaxWork
      /\ IF script.cont THEN script' = Next1 /\ UNCHANGED unit ELSE script' = NoScript /\ unit' = "idle"
  BY DEF CheckpointBreaks, In, Standing, Phases, Kinds
<1>1. CASE \E landed \in BOOLEAN : Breaks(landed) /\ (IF script.cont THEN UNCHANGED obj ELSE obj' = [obj EXCEPT !.fin = TRUE])
  <2>1. /\ {durable, owed, doubt}' \subseteq SUBSET Work
        /\ srv' = NoTx /\ up' = FALSE /\ leaked' = FALSE /\ n' = n
    BY <1>0, <1>1, DataKinds
  <2> QED
    BY <1>0, <1>1, <2>1, LosesStands
<1>2. CASE /\ durable' = durable \cup srv.work /\ owed' = owed \cup Told /\ srv' = NoTx /\ up' = FALSE
           /\ obj' = [obj EXCEPT !.fin = TRUE] /\ leaked' = FALSE /\ UNCHANGED <<doubt, n>>
  <2>1. {durable, owed, doubt}' \subseteq SUBSET Work
    BY <1>0, <1>2, ToldKind DEF Kinds, Servers
  <2> QED
    BY <1>0, <1>2, <2>1, LosesStands
<1> QED
  BY <1>1, <1>2 DEF CheckpointBreaks

\* SET AUTODDL concerns the script alone.
LEMMA SetAutoDdlStands ==
    ASSUME Standing, SetAutoDdl
    PROVE  Standing'
<1>1. script' \in Scripts /\ script'.mode = script.mode /\ script'.at = script.at
  BY Next1Kind DEF SetAutoDdl, Standing
<1>2. UNCHANGED <<unit, obj, scope, logs>> /\ UNCHANGED <<srv, durable, owed, doubt, up, leaked, n>>
  BY DEF SetAutoDdl, data
<1> QED
  BY <1>1, <1>2, StandsByParts DEF Works, Standing, Kinds, Open

\* A DDL statement committed at once, or the end of the script.
LEMMA AutoDdlStands ==
    ASSUME Standing, AutoDdl
    PROVE  Standing'
<1>0. /\ Kinds /\ Works /\ n' = n + 1 /\ n + 1 \in Work /\ n' \in 0..MaxWork
      /\ UNCHANGED <<doubt, up, leaked>>
  BY WorkAssumption DEF AutoDdl, Standing, Kinds, Work
<1>1. CASE /\ srv' = Fresh
           /\ durable' = durable \cup srv.work \cup {n + 1} /\ owed' = owed \cup Told \cup {n + 1}
           /\ logs' = Emptied /\ script' = Reopened
           /\ UNCHANGED <<unit, obj, scope, mig>>
  <2>1. {durable, owed, doubt}' \subseteq SUBSET Work /\ logs' \in Logs(DOMAIN scope)
    BY <1>0, <1>1, ToldKind DEF Kinds, Servers
  <2>2. script' \in Scripts /\ script'.mode = script.mode /\ script'.at = script.at
    BY <1>0, <1>1, Next1Kind
  <2> QED
    BY <1>0, <1>1, <2>1, <2>2, NoTxKind, StandsByParts DEF Standing, Kinds, Works
<1>2. CASE srv' = NoTx /\ UNCHANGED <<durable, owed>> /\ Over
  BY <1>0, <1>2, OverStands DEF Kinds
<1> QED
  BY <1>1, <1>2 DEF AutoDdl

\* RECONNECT: a new connection, or none.
LEMMA ReconnectStands ==
    ASSUME Standing, Reconnect
    PROVE  Standing'
<1>0. /\ Kinds /\ unit = "script" /\ script.mode \in {"perScript", "perStatement", "none"}
      /\ scope' = scope /\ logs' = Emptied /\ leaked' = FALSE /\ n' = n /\ n \in 0..MaxWork
  BY DEF Reconnect, Standing, Kinds
<1>1. {durable, owed, doubt}' \subseteq SUBSET Work
  BY <1>0, ToldKind DEF Reconnect, Kinds, Servers
<1>2. CASE /\ up' = TRUE /\ srv' = IF script.mode = "perScript" THEN Fresh ELSE NoTx
           /\ obj' = [obj EXCEPT !.fin = script.mode # "perScript"]
           /\ script' = Reopened /\ UNCHANGED unit
  <2>1. script' \in Scripts /\ script'.mode = script.mode /\ script'.at = script.at
    BY <1>0, <1>2, Next1Kind
  <2>2. /\ obj' \in [fin : BOOLEAN, depth : Int] /\ obj'.depth = obj.depth
        /\ obj'.fin = (script.mode # "perScript")
    BY <1>0, <1>2, ObjKind
  <2>3. srv' \in Servers /\ (srv'.open <=> script.mode = "perScript") /\ (~srv'.open => srv' = NoTx)
    BY <1>2, NoTxKind
  <2>4. logs' \in Logs(DOMAIN scope) /\ (script.mode # "perScript" => obj.fin)
    BY <1>0, ToldKind DEF Standing, Phases
  <2> QED
    BY <1>0, <1>1, <1>2, <2>1, <2>2, <2>3, <2>4, StandsByParts
<1>3. CASE /\ up' = FALSE /\ srv' = NoTx /\ obj' = [obj EXCEPT !.fin = TRUE]
           /\ IF script.cont THEN script' = Next1 /\ UNCHANGED unit ELSE script' = NoScript /\ unit' = "idle"
  BY <1>0, <1>1, <1>3, LosesStands
<1> QED
  BY <1>2, <1>3 DEF Reconnect

\* A statement within the bound.
LEMMA OwnKinds ==
    ASSUME Kinds, n < MaxWork
    PROVE  n + 1 \in Work /\ n + 1 \in 0..MaxWork
BY WorkAssumption DEF Kinds, Work

\* A statement in a transaction of its own finds none open.
LEMMA InOwnStands ==
    ASSUME Standing, NEW mode \in {"perStatement", "none"}, InOwn(mode)
    PROVE  Standing'
<1>0. /\ Kinds /\ Open /\ script.mode = mode /\ n + 1 \in Work /\ n' = n + 1 /\ n' \in 0..MaxWork
      /\ UNCHANGED <<doubt, up>> /\ unit \in {"script", "migrate"} /\ obj.fin
  BY OwnKinds DEF InOwn, In, Standing, Phases, Kinds
<1>1. srv = NoTx
  BY <1>0 DEF Open, Works
<1>2. CASE /\ durable' = durable \cup {n + 1} /\ owed' = owed \cup {n + 1}
           /\ script' = Next1
           /\ UNCHANGED <<unit, obj, scope, logs, srv, leaked>>
  <2>1. {durable, owed, doubt}' \subseteq SUBSET Work
    BY <1>0, <1>2 DEF Kinds
  <2>2. script' \in Scripts /\ script'.mode = script.mode /\ script'.at = script.at
    BY <1>0, <1>2, Next1Kind
  <2> QED
    BY <1>0, <1>2, <2>1, <2>2, StandsByParts DEF Standing, Kinds, Open, Works
<1>3. CASE /\ mode \in Refuses
           /\ leaked' = (leaked \/ ~RollsBack(mode))
           /\ IF mode = "none" /\ script.cont
              THEN script' = Next1 /\ UNCHANGED <<unit, obj, scope, logs, mig>>
              ELSE Over
           /\ UNCHANGED <<durable, owed, srv>>
  <2>1. leaked' \in BOOLEAN /\ {durable, owed, doubt}' \subseteq SUBSET Work
    BY <1>0, <1>3 DEF Kinds
  <2>2. Next1 \in Scripts /\ Next1.mode = script.mode /\ Next1.at = script.at
    BY <1>0, Next1Kind
  <2>3. CASE mode = "none" /\ script.cont
    BY <1>0, <1>3, <2>1, <2>2, <2>3, StandsByParts DEF Standing, Kinds, Open, Works
  <2>4. CASE ~(mode = "none" /\ script.cont)
    BY <1>0, <1>1, <1>3, <2>1, <2>4, OverStands DEF Kinds
  <2> QED
    BY <2>3, <2>4
<1> QED
  BY <1>2, <1>3 DEF InOwn

\* Nor does one whose commit breaks the connection.
LEMMA OwnBreaksStands ==
    ASSUME Standing, NEW mode \in {"perStatement", "none"}, OwnBreaks(mode)
    PROVE  Standing'
<1>0. /\ Kinds /\ Open /\ script.mode = mode /\ n + 1 \in Work /\ n' = n + 1 /\ n' \in 0..MaxWork
      /\ up' = FALSE /\ leaked' = FALSE /\ unit \in {"script", "migrate"} /\ obj.fin
      /\ UNCHANGED <<owed, srv>>
  BY OwnKinds DEF OwnBreaks, In, Standing, Phases, Kinds
<1>1. srv = NoTx
  BY <1>0 DEF Open, Works
<1>2. {durable, owed, doubt}' \subseteq SUBSET Work
  BY <1>0 DEF OwnBreaks, Kinds
<1>3. Next1 \in Scripts /\ Next1.mode = script.mode /\ Next1.at = script.at
  BY <1>0, Next1Kind
<1>4. CASE mode = "none" /\ script.cont
  BY <1>0, <1>1, <1>2, <1>3, <1>4, NoTxKind, StandsByParts DEF OwnBreaks, Standing, Kinds
<1>5. CASE ~(mode = "none" /\ script.cont)
  BY <1>0, <1>1, <1>2, <1>5, OverStands DEF OwnBreaks, Kinds
<1> QED
  BY <1>4, <1>5

\* The end of a script leaves nothing of its own.
LEMMA EndScriptStands ==
    ASSUME Standing, EndScript
    PROVE  Standing'
<1>0. /\ Kinds /\ Open /\ Phases /\ up \in BOOLEAN /\ leaked \in BOOLEAN /\ n \in 0..MaxWork
      /\ script.mode # "no" /\ unit # "migrate"
  BY DEF EndScript, Standing, Kinds
<1>1. CASE script.mode = "callers"
  BY <1>1, NoScriptKind DEF EndScript, Same, Standing, Kinds, Phases, Open, Works, data
<1>2. CASE script.mode = "perScript" /\ ~obj.fin
  <2>1. Ends("perScript") /\ Over
    BY <1>2 DEF EndScript
  <2>2. /\ {durable, owed, doubt}' \subseteq SUBSET Work
        /\ up' \in BOOLEAN /\ leaked' \in BOOLEAN /\ n' = n
        /\ srv' \in {NoTx, srv} /\ (srv' # NoTx => ~up)
    BY <1>0, <2>1, EndsKind DEF RollsBack
  <2>3. srv' = NoTx
    BY <1>0, <2>2 DEF Open, Works
  <2> QED
    BY <1>0, <2>1, <2>2, <2>3, OverStands
<1>3. CASE script.mode # "callers" /\ ~(script.mode = "perScript" /\ ~obj.fin)
  <2>1. Same /\ Over
    BY <1>3 DEF EndScript
  <2>2. obj.fin
    BY <1>0, <1>3 DEF Phases, Kinds
  <2>3. srv = NoTx
    BY <1>0, <2>2 DEF Open, Works
  <2> QED
    BY <1>0, <2>1, <2>3, DataKinds, OverStands
<1> QED
  BY <1>1, <1>2, <1>3

\* The migrator works between transactions.
LEMMA MigratorStands ==
    ASSUME Standing, StartFile \/ Record \/ RecordFails
    PROVE  Standing'
<1>0. Kinds /\ Phases /\ Open
  BY DEF Standing
<1>1. CASE StartFile
  <2>1. script' \in Scripts /\ script'.mode = "perStatement"
    <3>1. "perStatement" \in AllModes /\ FileLen \in Int
      BY WorkAssumption DEF AllModes
    <3> QED
      BY <1>1, <3>1, NoScriptKind DEF StartFile, Scripts
  <2>2. /\ UNCHANGED <<obj, scope, logs>> /\ UNCHANGED <<srv, durable, owed, doubt, up, leaked, n>>
        /\ unit' = "migrate" /\ unit \in {"idle", "migrate"} /\ script.mode = "no"
    BY <1>1 DEF StartFile, data
  <2>3. Kinds'
    BY <1>0, <2>1, <2>2 DEF Kinds
  <2>4. Phases'
    BY <1>0, <2>1, <2>2 DEF Phases
  <2>5. Open'
    BY <1>0, <2>2 DEF Open, Works
  <2> QED
    BY <2>3, <2>4, <2>5 DEF Standing
<1>2. CASE Record
  <2>2. /\ UNCHANGED <<obj, scope, logs>> /\ UNCHANGED <<srv, durable, owed, doubt, up, leaked, n>>
        /\ unit' \in {"idle", "migrate"} /\ unit = "migrate" /\ script' = NoScript
        /\ script.mode = "perStatement"
    BY <1>2 DEF Record, FileDone, data
  <2>3. Kinds'
    BY <1>0, <2>2, NoScriptKind DEF Kinds
  <2>4. Phases'
    BY <1>0, <2>2, NoScriptKind DEF Phases
  <2>5. Open'
    BY <1>0, <2>2 DEF Open, Works
  <2> QED
    BY <2>3, <2>4, <2>5 DEF Standing
<1>3. CASE RecordFails
  <2>1. /\ Over /\ Same /\ obj.fin /\ up \in BOOLEAN /\ leaked \in BOOLEAN /\ n \in 0..MaxWork
    BY <1>0, <1>3 DEF RecordFails, FileDone, Phases, Kinds
  <2>2. srv = NoTx
    BY <1>0, <2>1 DEF Open, Works
  <2> QED
    BY <1>0, <2>1, <2>2, DataKinds, OverStands
<1> QED
  BY <1>1, <1>2, <1>3

\* A connection that breaks takes the transaction with it.
LEMMA BreakStands ==
    ASSUME Standing, Break
    PROVE  Standing'
<1>1. Kinds /\ Emptied \in Logs(DOMAIN scope)
  BY ToldKind DEF Standing
<1>2. /\ {durable, owed, doubt}' \subseteq SUBSET Work
      /\ srv' = NoTx /\ up' = FALSE /\ leaked' = FALSE /\ n' = n
  BY <1>1, DataKinds DEF Break
<1> QED
  BY <1>1, <1>2, NoTxKind, StandsByParts DEF Break, Standing, Kinds

\* A program that reconnects has none.
LEMMA ReconnectsStands ==
    ASSUME Standing, Reconnects
    PROVE  Standing'
BY DEF Standing, Kinds, Phases, Open, Works, Reconnects, prog

\* A scope opens in a transaction that is open.
LEMMA OpenScopeStands ==
    ASSUME Standing, NEW s \in {0} \cup Slots, OpenScope(s)
    PROVE  Standing'
<1>0. /\ Kinds /\ unit = "tx" /\ script.mode = "no" /\ Works /\ srv.open /\ Name \in Int
      /\ s \in {0} \cup DOMAIN scope
  BY DEF OpenScope, Running, Standing, Kinds, Open, Name, Logs
<1>1. PICK c \in Slots \ DOMAIN scope :
        /\ scope' = With(scope, c, [name |-> Name, parent |-> s, lost |-> FALSE])
        /\ logs' = With(logs, c, {})
  BY DEF OpenScope
<1>2. scope' \in Scopes(DOMAIN scope') /\ DOMAIN scope' = DOMAIN scope \cup {c}
  BY <1>0, <1>1 DEF Kinds, Scopes, With
<1>3. logs' \in Logs(DOMAIN scope')
  BY <1>0, <1>1, <1>2 DEF Kinds, Logs, With
<1>4. srv' \in Servers /\ srv'.open
  BY <1>0, SaveKind DEF OpenScope
<1>5. obj' \in [fin : BOOLEAN, depth : Int] /\ obj'.fin = obj.fin
  BY <1>0 DEF OpenScope, Kinds
<1>6. UNCHANGED <<unit, script>> /\ UNCHANGED <<durable, owed, doubt, up, leaked, n>>
  BY DEF OpenScope
<1>7. Kinds'
  BY <1>0, <1>2, <1>3, <1>4, <1>5, <1>6 DEF Kinds
<1>8. Phases'
  BY <1>0, <1>6 DEF Phases
<1>9. Open'
  BY <1>0, <1>4, <1>5, <1>6 DEF Open, Works
<1> QED
  BY <1>7, <1>8, <1>9 DEF Standing

\* A SAVEPOINT that is refused leaves the transaction open and the scopes where they are.
LEMMA SavepointRefusedStands ==
    ASSUME Standing, NEW s \in {0} \cup Slots, SavepointRefused(s)
    PROVE  Standing'
<1>0. /\ Kinds /\ unit = "tx" /\ script.mode = "no" /\ Works /\ srv.open /\ Name \in Int /\ Saved(Name)
      /\ srv' = RollbackTo(Name)
  BY DEF SavepointRefused, Running, Standing, Kinds, Open, Name
<1>1. srv' \in Servers /\ srv'.open
  BY <1>0, RollbackToKind
<1>2. /\ DOMAIN scope' = DOMAIN scope /\ scope' \in Scopes(DOMAIN scope)
      /\ \A c \in DOMAIN scope : scope'[c].name = scope[c].name /\ scope'[c].parent = scope[c].parent
  <2> DEFINE gone(c) == \A k \in DOMAIN srv'.saves : srv'.saves[k].name # scope[c].name
  <2>1. scope' = [c \in DOMAIN scope |-> [scope[c] EXCEPT !.lost = gone(c)]] /\ \A c : gone(c) \in BOOLEAN
    BY DEF SavepointRefused
  <2> HIDE DEF gone
  <2> QED
    BY <1>0, <2>1 DEF Kinds, Scopes
<1>3. UNCHANGED <<unit, obj, logs, script, durable, owed, doubt, up, leaked, n>>
  BY DEF SavepointRefused
<1>4. Kinds'
  BY <1>0, <1>1, <1>2, <1>3 DEF Kinds
<1>5. Phases' /\ Open'
  BY <1>0, <1>1, <1>2, <1>3 DEF Standing, Phases, Open, Works
<1> QED
  BY <1>4, <1>5 DEF Standing

\* A scope that closes: the server keeps its transaction, or has none.
LEMMA ClosesStands ==
    ASSUME Standing, NEW c \in DOMAIN scope, Closes(c), unit = "tx", script.mode = "no",
           logs' \in Logs(DOMAIN scope \ {c}),
           srv' \in Servers, srv'.open = srv.open, srv.open \/ srv' = srv
    PROVE  Standing'
<1>0. Kinds /\ Open
  BY DEF Standing
<1>1. scope' \in Scopes(DOMAIN scope') /\ DOMAIN scope' = DOMAIN scope \ {c}
  BY <1>0 DEF Closes, Kinds, Scopes, Without
<1>2. obj' \in [fin : BOOLEAN, depth : Int] /\ obj'.fin = obj.fin
  BY <1>0 DEF Closes, Kinds
<1>3. UNCHANGED <<unit, script>> /\ UNCHANGED <<durable, owed, doubt, up, leaked, n>>
  BY DEF Closes
<1>4. Kinds'
  BY <1>0, <1>1, <1>2, <1>3 DEF Kinds
<1>5. Phases'
  BY <1>3 DEF Phases
<1>6. Open'
  BY <1>0, <1>2, <1>3 DEF Open, Works
<1> QED
  BY <1>4, <1>5, <1>6 DEF Standing

\* What closing a scope leaves of the logs.
LEMMA ClosingKinds ==
    ASSUME Standing, NEW c \in {0} \cup Slots, c # 0, Running(c)
    PROVE  /\ c \in DOMAIN scope /\ scope[c].name \in Int /\ unit = "tx" /\ script.mode = "no"
           /\ Without(logs, c) \in Logs(DOMAIN scope \ {c})
           /\ [Without(logs, c) EXCEPT ![scope[c].parent] = @ \cup logs[c]] \in Logs(DOMAIN scope \ {c})
<1>1. c \in DOMAIN scope /\ unit = "tx" /\ script.mode = "no"
  BY DEF Running, Standing, Kinds, Logs
<1>2. scope[c].name \in Int /\ logs[c] \in SUBSET Work
  BY <1>1 DEF Standing, Kinds, Logs, Scopes
<1>3. Without(logs, c) \in Logs(DOMAIN scope \ {c})
  BY <1>1 DEF Standing, Kinds, Logs, Without
<1> DEFINE W == Without(logs, c)
<1>4. [W EXCEPT ![scope[c].parent] = @ \cup logs[c]] \in Logs(DOMAIN scope \ {c})
  <2>1. W \in Logs(DOMAIN scope \ {c})
    BY <1>3
  <2> HIDE DEF W
  <2> QED
    BY <1>2, <2>1 DEF Logs
<1> QED
  BY <1>1, <1>2, <1>3, <1>4

\* A scope that returns, and one that throws, leave the transaction open.
LEMMA ReturnScopeStands ==
    ASSUME Standing, NEW c \in {0} \cup Slots, ReturnScope(c)
    PROVE  Standing'
<1>1. /\ Kinds /\ Open /\ Running(c) /\ c # 0 /\ Works /\ srv.open /\ Saved(scope[c].name)
      /\ srv' = Release(scope[c].name)
  BY DEF ReturnScope, Standing, Open
<1>2. c \in DOMAIN scope /\ scope[c].name \in Int /\ unit = "tx" /\ script.mode = "no"
      /\ logs' \in Logs(DOMAIN scope \ {c})
  BY <1>1, ClosingKinds DEF ReturnScope
<1>3. srv' \in Servers /\ srv'.open = srv.open
  BY <1>1, <1>2, ReleaseKind
<1> QED
  BY <1>1, <1>2, <1>3, ClosesStands DEF ReturnScope

\* One that throws on a connection that is gone leaves it gone.
LEMMA ThrowScopeStands ==
    ASSUME Standing, NEW c \in {0} \cup Slots, ThrowScope(c)
    PROVE  Standing'
<1>1. /\ Kinds /\ Open /\ Running(c) /\ c # 0
      /\ srv' = srv \/ (Undoes(c) /\ srv' = RollbackTo(scope[c].name))
  BY DEF ThrowScope, Standing
<1>2. c \in DOMAIN scope /\ scope[c].name \in Int /\ unit = "tx" /\ script.mode = "no"
      /\ logs' \in Logs(DOMAIN scope \ {c})
  BY <1>1, ClosingKinds DEF ThrowScope
<1>3. /\ srv' \in Servers /\ srv'.open = srv.open
      /\ srv.open \/ srv' = srv
  <2>1. CASE Undoes(c) /\ srv' = RollbackTo(scope[c].name)
    <3>1. srv.open /\ Saved(scope[c].name)
      BY <1>1, <2>1 DEF Undoes, Open
    <3> QED
      BY <1>1, <1>2, <2>1, <3>1, RollbackToKind
  <2>2. CASE srv' = srv
    BY <1>1, <2>2 DEF Kinds
  <2> QED
    BY <1>1, <2>1, <2>2
<1> QED
  BY <1>2, <1>3, ClosesStands DEF ThrowScope

\* Every step keeps what stands.
LEMMA StandingStep == Standing /\ [Next]_vars => Standing'
<1> SUFFICES ASSUME Standing, [Next]_vars
             PROVE  Standing'
  OBVIOUS
<1>1. CASE OfTransaction
  <2>1. ASSUME NEW s \in {0} \cup Slots,
               \/ Statement(s) \/ OpenScope(s) \/ SavepointRefused(s) \/ ReturnScope(s) \/ ThrowScope(s)
               \/ Finish(s) \/ Restart(s) \/ StartOnCallers(s)
        PROVE  Standing'
    BY <2>1, StatementStands, OpenScopeStands, SavepointRefusedStands, ReturnScopeStands, ThrowScopeStands,
       FinishStands, RestartStands, StartOnCallersStands
  <2> QED
    BY <1>1, <2>1, BeginTxStands, EndTxStands DEF OfTransaction
<1>2. CASE OfScript
  <2>1. CASE InOwn("perStatement") \/ InOwn("none")
    BY <2>1, InOwnStands
  <2>2. CASE OwnBreaks("perStatement") \/ OwnBreaks("none")
    BY <2>2, OwnBreaksStands
  <2>3. CASE StartScript \/ StatementFails \/ Rejected \/ OnCallers \/ InScript \/ Checkpoint
    BY <2>3, StartScriptStands, StatementFailsStands, OnCallersStands, InScriptStands, CheckpointStands
  <2>4. CASE CheckpointBreaks \/ SetAutoDdl \/ AutoDdl \/ SetTransaction \/ Reconnect \/ EndScript
    BY <2>4, CheckpointBreaksStands, SetAutoDdlStands, AutoDdlStands, CheckpointStands, ReconnectStands,
       EndScriptStands
  <2> QED
    BY <1>2, <2>1, <2>2, <2>3, <2>4 DEF OfScript
<1>3. CASE OfMigrator
  BY <1>3, MigratorStands DEF OfMigrator
<1>4. CASE Break
  BY <1>4, BreakStands
<1>5. CASE Reconnects
  BY <1>5, ReconnectsStands
<1>6. CASE UNCHANGED vars
  BY <1>6 DEF vars, prog, data, Standing, Kinds, Phases, Open, Works
<1> QED
  BY <1>1, <1>2, <1>3, <1>4, <1>5, <1>6 DEF Next

\* What stands, stands in every reachable state.
LEMMA Stands == Spec => []Standing
<1>1. Init => Standing
  BY StandingInit
<1>2. Standing /\ [Next]_vars => Standing'
  BY StandingStep
<1> QED
  BY <1>1, <1>2, PTL DEF Spec

-----------------------------------------------------------------------------
(* What holds whatever the caller does.                                    *)

\* Where refused commits are rolled back, no step leaks a transaction.
LEMMA NoLeakStep ==
    ASSUME "perStatement" \notin Refuses, Standing, ~leaked, [Next]_vars
    PROVE  ~leaked'
<1>0. Kinds
  BY DEF Standing
<1>1. CASE OfTransaction
  <2>1. CASE EndTx
    <3>1. Ends("tx") => (leaked' => leaked)
      BY <1>0, EndsKind DEF RollsBack
    <3> QED
      BY <2>1, <3>1 DEF EndTx, Same, data, Rollback
  <2> QED
    BY <1>1, <2>1 DEF OfTransaction, BeginTx, Statement, Works1, OpenScope, SavepointRefused, ReturnScope, ThrowScope, Closes,
       Finish, Restart, StartOnCallers, Commit, Rollback, Breaks, data
<1>2. CASE OfScript
  <2>1. CASE EndScript
    <3>1. Ends("perScript") => (leaked' => leaked)
      BY <1>0, EndsKind DEF RollsBack
    <3> QED
      BY <2>1, <3>1 DEF EndScript, Same, data
  <2>2. CASE \E mode \in {"perStatement", "none"} : InOwn(mode) \/ OwnBreaks(mode)
    BY <2>2 DEF InOwn, OwnBreaks, RollsBack
  <2>3. CASE StatementFails \/ Rejected
    BY <2>3 DEF StatementFails, Rejected, Fails, Throws, Same, data, Rollback
  <2> QED
    BY <1>2, <2>1, <2>2, <2>3 DEF OfScript, StartScript, OnCallers, InScript, Works1, Checkpoint, CheckpointBreaks,
       SetAutoDdl, AutoDdl, SetTransaction, Reconnect, Commit, Rollback, Breaks, data
<1>3. CASE OfMigrator
  BY <1>3 DEF OfMigrator, StartFile, Record, RecordFails, Same, data
<1>4. CASE Break \/ Reconnects \/ UNCHANGED vars
  BY <1>4 DEF Break, Breaks, Reconnects, vars, data
<1> QED
  BY <1>1, <1>2, <1>3, <1>4 DEF Next

\* Once a transaction() or a script has ended, whatever the caller did, no transaction
\* of its is left open at the server (the run's NoneLeft), provided the server accepts
\* the commits of perStatement, which executeScript() does not roll back.
THEOREM NoneLeftOpen ==
    ASSUME "perStatement" \notin Refuses
    PROVE  Spec => []NoneLeft
<1>1. Init => ~leaked
  BY DEF Init
<1>2. Standing /\ ~leaked /\ [Next]_vars => ~leaked'
  BY NoLeakStep
<1>3. Standing /\ ~leaked => NoneLeft
  BY DEF Standing, Phases, Open, Works, NoneLeft
<1> QED
  BY <1>1, <1>2, <1>3, Stands, PTL DEF Spec

\* A perScript script that is clean has nothing in its transaction.
CleanEmpty == script.mode = "perScript" /\ Clean => srv.work = {}

\* Every step keeps it: what does work makes the script dirty, what makes it clean
\* begins a transaction.
LEMMA CleanStep ==
    ASSUME Standing, CleanEmpty, [Next]_vars
    PROVE  CleanEmpty'
<1>0. Kinds /\ Phases /\ NoScript.mode = "no"
  BY NoScriptKind DEF Standing
<1>1. CASE OfTransaction
  <2>1. CASE BeginTx \/ EndTx
    BY <1>0, <2>1, OverKind DEF BeginTx, EndTx, CleanEmpty, Phases
  <2>2. ASSUME NEW s \in {0} \cup Slots,
               \/ Statement(s) \/ OpenScope(s) \/ SavepointRefused(s) \/ ReturnScope(s) \/ ThrowScope(s)
               \/ Finish(s) \/ Restart(s)
        PROVE  CleanEmpty'
    <3>1. script.mode = "no" /\ script' = script
      BY <2>2 DEF Statement, OpenScope, SavepointRefused, ReturnScope, ThrowScope, Closes, Finish, Restart, Running
    <3> QED
      BY <3>1 DEF CleanEmpty
  <2>3. ASSUME NEW s \in {0} \cup Slots, StartOnCallers(s)
        PROVE  CleanEmpty'
    BY <2>3 DEF StartOnCallers, CleanEmpty, NoScript
  <2> QED
    BY <1>1, <2>1, <2>2, <2>3 DEF OfTransaction
<1>2. CASE OfScript
  <2>1. CASE StartScript
    <3>1. srv'.work = {}
      BY <2>1, NoTxKind DEF StartScript
    <3> QED
      BY <3>1 DEF CleanEmpty
  <2>2. CASE StatementFails \/ Rejected
    <3>1. ASSUME NEW s, s \in {[Next1 EXCEPT !.dirty = TRUE], Next1}, script' = s, Same
          PROVE  CleanEmpty'
      BY <1>0, <3>1 DEF CleanEmpty, Clean, Next1, Same, data, Kinds, Scripts
    <3>2. Throws => CleanEmpty'
      BY <1>0, OverKind DEF Throws, CleanEmpty
    <3> QED
      BY <2>2, <3>1, <3>2 DEF StatementFails, Rejected, Fails
  <2>3. CASE OnCallers
    BY <1>0, <2>3, Next1Kind DEF OnCallers, In, CleanEmpty
  <2>4. CASE InScript
    <3>1. script'.dirty
      BY <1>0, <2>4 DEF InScript, Next1, Kinds, Scripts
    <3> QED
      BY <3>1 DEF CleanEmpty, Clean
  <2>5. CASE Checkpoint \/ SetTransaction
    <3>1. srv' = Fresh
      BY <2>5 DEF Checkpoint, SetTransaction, Commit, Rollback
    <3> QED
      BY <3>1, NoTxKind DEF CleanEmpty
  <2>6. CASE CheckpointBreaks \/ Reconnect
    <3>1. srv' \in {Fresh, NoTx}
      BY <2>6 DEF CheckpointBreaks, Reconnect, Breaks
    <3> QED
      BY <3>1, NoTxKind DEF CleanEmpty
  <2>7. CASE SetAutoDdl
    <3>1. script'.mode = script.mode /\ script'.dirty = script.dirty /\ srv' = srv
      BY <1>0, <2>7 DEF SetAutoDdl, Next1, Kinds, Scripts, data
    <3> QED
      BY <3>1 DEF CleanEmpty, Clean
  <2>8. CASE AutoDdl
    <3>1. srv' \in {Fresh, NoTx}
      BY <2>8 DEF AutoDdl
    <3> QED
      BY <3>1, NoTxKind DEF CleanEmpty
  <2>9. CASE \E mode \in {"perStatement", "none"} : InOwn(mode) \/ OwnBreaks(mode)
    <3>1. script'.mode # "perScript"
      BY <1>0, <2>9, Next1Kind, OverKind DEF InOwn, OwnBreaks, In
    <3> QED
      BY <3>1 DEF CleanEmpty
  <2>10. CASE EndScript
    <3>1. script'.mode = "no"
      BY <1>0, <2>10, OverKind DEF EndScript
    <3> QED
      BY <3>1 DEF CleanEmpty
  <2> QED
    BY <1>2, <2>1, <2>2, <2>3, <2>4, <2>5, <2>6, <2>7, <2>8, <2>9, <2>10 DEF OfScript
<1>3. CASE OfMigrator
  <2>1. script'.mode # "perScript"
    <3>1. StartFile => script'.mode = "perStatement"
      BY NoScriptKind DEF StartFile, Scripts
    <3> QED
      BY <1>0, <1>3, <3>1, OverKind DEF OfMigrator, Record, RecordFails
  <2> QED
    BY <2>1 DEF CleanEmpty
<1>4. CASE Break
  BY <1>4, NoTxKind DEF Break, Breaks, CleanEmpty
<1>5. CASE Reconnects \/ UNCHANGED vars
  BY <1>5 DEF Reconnects, vars, prog, data, CleanEmpty, Clean
<1> QED
  BY <1>1, <1>2, <1>3, <1>4, <1>5 DEF Next

\* SET TRANSACTION in a script commits no work (the run's NothingByTheWay): it is
\* carried out only while the script has none.
THEOREM SetTransactionKeepsNothing == Spec => NothingByTheWay
<1>1. Init => CleanEmpty
  BY NoScriptKind DEF Init, CleanEmpty
<1>2. Standing /\ CleanEmpty /\ [Next]_vars => CleanEmpty'
  BY CleanStep
<1>3. CleanEmpty => [SetTransaction => durable' = durable]_vars
  <2>1. ASSUME CleanEmpty, SetTransaction
        PROVE  durable' = durable
    <3>1. srv.work = {} /\ durable' = durable \cup srv.work
      BY <2>1 DEF CleanEmpty, SetTransaction, In, Commit
    <3> QED
      BY <3>1
  <2> QED
    BY <2>1
<1> QED
  BY <1>1, <1>2, <1>3, Stands, PTL DEF Spec, NothingByTheWay

\* The migrator: a file's statements stand one by one, an error ends its script, and
\* the files before it are recorded.
Records == UNION {[D -> Int] : D \in SUBSET Files}
Migrators == [file : Int, done : Int, recorded : Records]
Migrated ==
    /\ mig \in Migrators
    /\ WholeFiles
    /\ unit = "migrate" => ~script.cont
    /\ unit = "migrate" /\ script.mode = "perStatement" =>
        /\ mig.file \in Files /\ mig.done + script.left = FileLen
        /\ \A g \in Files : g < mig.file => g \in DOMAIN mig.recorded

\* The first state of the migrator.
LEMMA MigratedInit == Init => Migrated
<1>1. NoScopes \in [{} -> Int] /\ DOMAIN NoScopes = {}
  BY DEF NoScopes
<1>2. NoScopes \in Records
  BY <1>1 DEF Records
<1> QED
  BY <1>1, <1>2 DEF Init, Migrated, Migrators, WholeFiles

\* Most steps leave the migrator alone.
LEMMA MigratedStays ==
    ASSUME Migrated, mig' = mig, \/ unit' # "migrate"
                                 \/ unit' = unit /\ script' = script
                                 \/ unit' = unit /\ script'.cont = script.cont /\ script'.mode # "perStatement"
    PROVE  Migrated'
BY DEF Migrated, WholeFiles

\* The first file that is due has every earlier one recorded.
LEMMA StartFileMigrated ==
    ASSUME Standing, Migrated, StartFile
    PROVE  Migrated'
<1>1. PICK f \in Due : (\A g \in Due : f <= g) /\ mig' = [mig EXCEPT !.file = f, !.done = 0]
  BY DEF StartFile
<1>2. f \in Files /\ Files \subseteq Nat /\ FileLen \in Nat
  BY WorkAssumption DEF Due
<1>3. mig' \in Migrators /\ mig'.file = f /\ mig'.done = 0 /\ mig'.recorded = mig.recorded
  <2>1. mig \in [file : Int, done : Int, recorded : Records] /\ f \in Int
    BY <1>2 DEF Migrated, Migrators
  <2>2. mig' = [file |-> f, done |-> 0, recorded |-> mig.recorded]
    BY <1>1, <2>1
  <2>3. mig' \in [file : Int, done : Int, recorded : Records]
    BY <2>1, <2>2
  <2>4. mig'.file = f /\ mig'.done = 0 /\ mig'.recorded = mig.recorded
    BY <2>1, <2>2
  <2> QED
    BY <2>3, <2>4 DEF Migrators
<1>4. script' = [NoScript EXCEPT !.mode = "perStatement", !.left = FileLen]
  BY DEF StartFile
<1>5. ~script'.cont /\ script'.left = FileLen
  BY <1>4 DEF NoScript
<1>6. \A g \in Files : g < f => g \in DOMAIN mig.recorded
  BY <1>1, <1>2 DEF Due
<1>7. WholeFiles'
  BY <1>3 DEF Migrated, WholeFiles
<1>8. /\ mig'.file \in Files /\ mig'.done + script'.left = FileLen
      /\ \A g \in Files : g < mig'.file => g \in DOMAIN mig'.recorded
  BY <1>2, <1>3, <1>5, <1>6
<1> QED
  BY <1>3, <1>5, <1>7, <1>8 DEF Migrated

\* A file is recorded when none of its statements is left.
LEMMA RecordMigrated ==
    ASSUME Standing, Migrated, Record
    PROVE  Migrated'
<1>1. /\ unit = "migrate" /\ script.mode = "perStatement" /\ script.left = 0 /\ script' = NoScript
      /\ mig' = [mig EXCEPT !.recorded = With(@, mig.file, mig.done)]
  BY DEF Record, FileDone
<1>2. /\ mig.file \in Files /\ mig.done = FileLen /\ mig.done \in Int
      /\ \A g \in Files : g < mig.file => g \in DOMAIN mig.recorded
  BY <1>1, WorkAssumption DEF Migrated, Migrators
<1> DEFINE R == With(mig.recorded, mig.file, mig.done)
<1>3. PICK D \in SUBSET Files : mig.recorded \in [D -> Int]
  BY DEF Migrated, Migrators, Records
<1>4. /\ R \in [D \cup {mig.file} -> Int] /\ DOMAIN R = D \cup {mig.file}
      /\ \A f \in DOMAIN R : R[f] = IF f = mig.file THEN mig.done ELSE mig.recorded[f]
  BY <1>2, <1>3 DEF With
<1>5. R \in Records
  BY <1>2, <1>4 DEF Records
<1>6. mig' \in Migrators /\ mig'.recorded = R
  <2> HIDE DEF R
  <2> QED
    BY <1>1, <1>5 DEF R, Migrated, Migrators
<1>7. \A f \in DOMAIN R : R[f] = FileLen /\ \A g \in Files : g < f => g \in DOMAIN R
  <2> HIDE DEF R
  <2> QED
    BY <1>2, <1>3, <1>4 DEF Migrated, WholeFiles
<1>8. script'.mode = "no" /\ ~script'.cont
  BY <1>1 DEF NoScript
<1> QED
  BY <1>6, <1>7, <1>8 DEF Migrated, WholeFiles

\* A file's statement that stands is counted.
LEMMA InOwnMigrated ==
    ASSUME Standing, Migrated, NEW mode \in {"perStatement", "none"}, InOwn(mode)
    PROVE  Migrated'
<1>0. Kinds /\ unit \in {"script", "migrate"} /\ script.mode = mode
  BY DEF InOwn, In, Standing, Phases, Kinds
<1>1. CASE Over
  BY <1>1, MigratedStays DEF Over
<1>2. CASE unit = "script" /\ unit' = unit /\ ~Over
  <2>1. mig' = [mig EXCEPT !.done = IF unit = "migrate" THEN @ + 1 ELSE @] \/ mig' = mig
    BY <1>2 DEF InOwn
  <2>2. mig' = mig
    BY <1>2, <2>1 DEF Migrated, Migrators
  <2> QED
    BY <1>2, <2>2, MigratedStays
<1>3. CASE unit = "migrate" /\ ~Over
  <2>1. mode = "perStatement" /\ script' = Next1 /\ unit' = unit
        /\ mig' = [mig EXCEPT !.done = IF unit = "migrate" THEN @ + 1 ELSE @]
    BY <1>0, <1>3 DEF InOwn, Standing, Phases
  <2>2. script'.left = script.left - 1 /\ script'.cont = script.cont /\ script'.mode = script.mode /\ script.left \in Int
    BY <1>0, <2>1 DEF Next1, Kinds, Scripts
  <2>3. mig' \in Migrators /\ mig'.file = mig.file /\ mig'.done = mig.done + 1 /\ mig'.recorded = mig.recorded
        /\ mig.done \in Int
    BY <1>3, <2>1 DEF Migrated, Migrators
  <2> QED
    BY <1>0, <1>3, <2>1, <2>2, <2>3, WorkAssumption DEF Migrated, WholeFiles
<1> QED
  BY <1>0, <1>1, <1>2, <1>3 DEF InOwn

\* Every step keeps the migrator right.
LEMMA MigratedStep ==
    ASSUME Standing, Migrated, [Next]_vars
    PROVE  Migrated'
<1>0. Kinds /\ Phases /\ NoScript.mode = "no"
  BY NoScriptKind DEF Standing
<1>1. CASE OfTransaction
  <2>1. unit' # "migrate" /\ mig' = mig
    BY <1>0, <1>1, OverKind DEF OfTransaction, BeginTx, EndTx, Statement, OpenScope, SavepointRefused, ReturnScope, ThrowScope, Closes,
       Finish, Restart, StartOnCallers, Running, Over
  <2> QED
    BY <2>1, MigratedStays
<1>2. CASE OfScript
  <2>1. CASE InOwn("perStatement") \/ InOwn("none")
    BY <2>1, InOwnMigrated
  <2>2. CASE StatementFails \/ Rejected
    <3>1. CASE script.cont
      <4>1. mig' = mig /\ unit' = unit /\ unit # "migrate"
        BY <2>2, <3>1 DEF StatementFails, Rejected, Fails, Migrated
      <4> QED
        BY <4>1, MigratedStays
    <3>2. CASE ~script.cont
      <4>1. Throws
        BY <2>2, <3>2 DEF StatementFails, Rejected, Fails
      <4>2. mig' = mig /\ unit' # "migrate"
        BY <1>0, <4>1, OverKind DEF Throws, Over, Phases
      <4> QED
        BY <4>2, MigratedStays
    <3> QED
      BY <3>1, <3>2
  <2>3. CASE OwnBreaks("perStatement") \/ OwnBreaks("none")
    <3>1. mig' = mig /\ unit' # "migrate"
      BY <1>0, <2>3, OverKind DEF OwnBreaks, Over, In, Phases
    <3> QED
      BY <3>1, MigratedStays
  <2>4. CASE StartScript \/ OnCallers \/ InScript \/ Checkpoint \/ CheckpointBreaks \/ SetAutoDdl
    <3>1. mig' = mig /\ unit' # "migrate"
      BY <1>0, <2>4 DEF StartScript, OnCallers, InScript, Checkpoint, CheckpointBreaks, SetAutoDdl, In, Phases
    <3> QED
      BY <3>1, MigratedStays
  <2>5. CASE AutoDdl \/ SetTransaction \/ Reconnect \/ EndScript
    <3>1. mig' = mig /\ unit' # "migrate"
      BY <1>0, <2>5 DEF AutoDdl, SetTransaction, Reconnect, EndScript, Over, In, Phases
    <3> QED
      BY <3>1, MigratedStays
  <2> QED
    BY <1>2, <2>1, <2>2, <2>3, <2>4, <2>5 DEF OfScript
<1>3. CASE OfMigrator
  <2>1. CASE RecordFails
    BY <2>1, MigratedStays DEF RecordFails, Over
  <2> QED
    BY <1>3, <2>1, StartFileMigrated, RecordMigrated DEF OfMigrator
<1>4. CASE Break \/ Reconnects \/ UNCHANGED vars
  <2>1. mig' = mig /\ unit' = unit /\ script' = script
    BY <1>4 DEF Break, Reconnects, vars, prog
  <2> QED
    BY <2>1, MigratedStays
<1> QED
  BY <1>1, <1>2, <1>3, <1>4 DEF Next

\* A migration is recorded only when all its statements stand, and in order (the run's
\* WholeFiles), whatever fails and wherever the migrator is broken off.
THEOREM FilesWhole == Spec => []WholeFiles
<1>1. Init => Migrated
  BY MigratedInit
<1>2. Standing /\ Migrated /\ [Next]_vars => Migrated'
  BY MigratedStep
<1>3. Migrated => WholeFiles
  BY DEF Migrated
<1> QED
  BY <1>1, <1>2, <1>3, Stands, PTL DEF Spec

-----------------------------------------------------------------------------
(* Scopes that do not overlap.                                             *)

\* The place of a scope in the stack: 0 for the unit.
Level(s) == IF s = 0 THEN 0 ELSE scope[s].name

\* The scopes are a stack, one per level, each opened in the one below; a script on the
\* caller's transaction runs in the topmost.
Nesting ==
    /\ obj.depth = Cardinality(DOMAIN scope)
    /\ \A c \in DOMAIN scope :
        /\ scope[c].name \in 1..obj.depth /\ scope[c].parent \in {0} \cup DOMAIN scope
        /\ Level(scope[c].parent) = scope[c].name - 1
    /\ \A c, d \in DOMAIN scope : scope[c].name = scope[d].name => c = d
    /\ \A k \in 1..obj.depth : \E c \in DOMAIN scope : scope[c].name = k
    /\ script.mode = "callers" => Level(script.at) = obj.depth

\* What the program was told of up to level k.
Below(x, k) == \E s \in DOMAIN logs : Level(s) < k /\ x \in logs[s]

\* The savepoints, those in use and those that scopes which threw have left, in the order
\* in which they were set: each has a name of its own and the work done till then.
Line ==
    /\ \A i, j \in DOMAIN srv.saves : srv.saves[i].name = srv.saves[j].name => i = j
    /\ \A i \in DOMAIN srv.saves : srv.saves[i].work \subseteq srv.work
    /\ \A i, j \in DOMAIN srv.saves : i < j => srv.saves[i].work \subseteq srv.saves[j].work

\* A savepoint that bears the name of a scope has the work of the levels below it, and
\* the scopes have set theirs in the order of their levels.
Held ==
    /\ \A c \in DOMAIN scope : scope[c].lost <=> ~Saved(scope[c].name)
    /\ \A c \in DOMAIN scope, i \in DOMAIN srv.saves : srv.saves[i].name = scope[c].name =>
            \A x \in Work \ amiss : x \in srv.saves[i].work <=> Below(x, scope[c].name)
    /\ \A c, e \in DOMAIN scope, i, j \in DOMAIN srv.saves :
            srv.saves[i].name = scope[c].name /\ srv.saves[j].name = scope[e].name
                /\ scope[c].name < scope[e].name => i < j

Saves == srv.open => Line /\ Held

\* The server's work is what the program was told of, but for what is amiss; without a
\* transaction it was told of none.
Agrees ==
    /\ \A x \in Work \ amiss : x \in srv.work <=> \E s \in DOMAIN logs : x \in logs[s]
    /\ ~srv.open => \A s \in DOMAIN logs : logs[s] = {}

Nested == Nesting /\ Saves /\ Agrees

\* spDepth is the number of open scopes.
LEMMA Depth ==
    ASSUME Standing, Nesting
    PROVE  /\ IsFiniteSet(DOMAIN scope) /\ obj.depth \in Nat /\ obj.depth \in 0..Cardinality(Slots)
           /\ DOMAIN logs = {0} \cup DOMAIN scope /\ 0 \notin DOMAIN scope
<1>1. DOMAIN scope \subseteq Slots /\ IsFiniteSet(Slots) /\ 0 \notin Slots
  BY WorkAssumption DEF Standing, Kinds
<1>2. IsFiniteSet(DOMAIN scope) /\ Cardinality(DOMAIN scope) <= Cardinality(Slots)
  BY <1>1, FS_Subset
<1>3. Cardinality(DOMAIN scope) \in Nat /\ Cardinality(Slots) \in Nat
  BY <1>1, <1>2, FS_CardinalityType
<1> QED
  BY <1>1, <1>2, <1>3 DEF Nesting, Standing, Kinds, Logs

\* Levels tell scopes apart.
LEMMA Levels ==
    ASSUME Standing, Nesting
    PROVE  /\ \A s \in DOMAIN logs : Level(s) \in 0..obj.depth
           /\ \A s, t \in DOMAIN logs : Level(s) = Level(t) => s = t
BY Depth DEF Nesting, Level

\* Without overlap the code that runs is that of the topmost scope.
LEMMA TopRuns ==
    ASSUME Standing, Nesting, Habits = {}, NEW s, Running(s)
    PROVE  s \in DOMAIN logs /\ Level(s) = obj.depth
<1>1. s \in DOMAIN logs /\ \A c \in DOMAIN scope : scope[c].parent # s
  BY DEF Running
<1>2. Level(s) \in 0..obj.depth /\ obj.depth \in Nat
  BY <1>1, Levels, Depth
<1>3. SUFFICES ASSUME Level(s) # obj.depth PROVE FALSE
  BY <1>1
<1>4. Level(s) + 1 \in 1..obj.depth
  BY <1>2, <1>3
<1>5. PICK c \in DOMAIN scope : scope[c].name = Level(s) + 1
  BY <1>4 DEF Nesting
<1>6. scope[c].parent \in DOMAIN logs /\ Level(scope[c].parent) = Level(s)
  BY <1>2, <1>5, Depth DEF Nesting
<1> QED
  BY <1>1, <1>5, <1>6, Levels

\* The two accounts of the transaction are the same set, but for what is amiss.
LEMMA ToldIs == Standing /\ Agrees => srv.work \ amiss = Told \ amiss
<1> SUFFICES ASSUME Standing, Agrees, NEW x, x \notin amiss
             PROVE  x \in srv.work <=> x \in Told
  OBVIOUS
<1>1. srv.work \subseteq Work /\ \A s \in DOMAIN logs : logs[s] \subseteq Work
  BY DEF Standing, Kinds, Servers, Logs
<1> QED
  BY <1>1 DEF Agrees, Told

\* The first state: no scope, no savepoint, no work.
LEMMA NestedInit == Init => Nested
<1>1. Init => Nesting
  BY FirstScopes, NoScriptKind, FS_EmptySet DEF Init, Nesting
<1>2. Init => Saves /\ Agrees
  BY NoTxKind DEF Init, Saves, Agrees, Root
<1> QED
  BY <1>1, <1>2 DEF Nested

\* Without scopes there is nothing to nest.
LEMMA NestingFlat ==
    ASSUME DOMAIN scope' = {}, obj'.depth = 0, script'.mode # "callers"
    PROVE  Nesting'
BY FS_EmptySet DEF Nesting

\* The stack stays while no scope opens or closes.
LEMMA NestingStays ==
    ASSUME Nesting, scope' = scope, obj'.depth = obj.depth,
           script'.mode = "callers" => script.mode = "callers" /\ script'.at = script.at
    PROVE  Nesting'
BY DEF Nesting, Level

\* Nothing that counts changes.
LEMMA NestedStays ==
    ASSUME Nested, scope' = scope, obj'.depth = obj.depth, logs' = logs, srv' = srv, amiss' = amiss,
           script'.mode = "callers" => script.mode = "callers" /\ script'.at = script.at
    PROVE  Nested'
<1>1. Nesting'
  BY NestingStays DEF Nested
<1>2. Saves' /\ Agrees'
  BY DEF Nested, Saves, Line, Held, Saved, Agrees, Below, Level
<1> QED
  BY <1>1, <1>2 DEF Nested

\* A transaction that is gone or new.
LEMMA NestedEmptied ==
    ASSUME Nested, \A s \in DOMAIN logs' : logs'[s] = {}, srv'.work = {},
           srv' \in {NoTx, Fresh}, srv'.open => obj'.depth = 0,
           \/ DOMAIN scope' = {} /\ obj'.depth = 0 /\ script'.mode # "callers"
           \/ /\ scope' = scope /\ obj'.depth = obj.depth
              /\ script'.mode = "callers" => script.mode = "callers" /\ script'.at = script.at
    PROVE  Nested'
<1>1. Nesting'
  BY NestingFlat, NestingStays DEF Nested
<1>2. Saves'
  <2> SUFFICES ASSUME srv'.open PROVE (Line /\ Held)'
    BY DEF Saves
  <2>1. srv'.saves = <<>>
    BY NoTxKind
  <2>2. DOMAIN scope' = {}
    <3>1. (\A e \in DOMAIN scope : scope[e].name \in 1..obj.depth)'
      BY <1>1 DEF Nesting
    <3>2. 1..obj'.depth = {}
      OBVIOUS
    <3> QED
      BY <3>1, <3>2
  <2> QED
    BY <2>1, <2>2 DEF Line, Held
<1>3. Agrees'
  BY DEF Agrees
<1> QED
  BY <1>1, <1>2, <1>3 DEF Nested

\* A statement in the topmost scope.
LEMMA NestedWorks ==
    ASSUME Standing, Nested, NEW t \in DOMAIN logs, Works1(t), Level(t) = obj.depth, srv.open,
           scope' = scope, obj' = obj,
           script'.mode = "callers" => script.mode = "callers" /\ script'.at = script.at
    PROVE  Nested'
<1>1. Nesting'
  BY NestingStays DEF Nested
<1>2. /\ srv'.open = srv.open /\ srv'.saves = srv.saves /\ srv'.work = srv.work \cup {n + 1}
      /\ DOMAIN logs' = DOMAIN logs /\ amiss' = amiss
      /\ \A s \in DOMAIN logs : logs'[s] = IF s = t THEN logs[s] \cup {n + 1} ELSE logs[s]
  BY DEF Works1, Standing, Kinds, Servers, Logs
<1>3. Agrees'
  BY <1>2 DEF Nested, Agrees
<1>4. obj.depth \in Nat /\ \A s \in DOMAIN logs : Level(s)' = Level(s) /\ Level(s) \in 0..obj.depth
  BY Depth, Levels DEF Nested, Level
<1>5. \A k \in 1..obj.depth : \A x : Below(x, k)' <=> Below(x, k)
  BY <1>2, <1>4 DEF Below
<1>6. Line' /\ Line
  BY <1>2 DEF Nested, Saves, Line
<1>7. \A c \in DOMAIN scope : scope[c].name \in 1..obj.depth
  BY DEF Nested, Nesting
<1>8. Held'
  BY <1>2, <1>5, <1>7 DEF Nested, Saves, Held, Saved
<1> QED
  BY <1>1, <1>3, <1>6, <1>8 DEF Nested, Saves

\* Where a name is, if it is anywhere.
LEMMA SavedAt ==
    ASSUME Standing, NEW name, Saved(name)
    PROVE  /\ At(name) \in Nat /\ At(name) >= 1 /\ At(name) <= Len(srv.saves)
           /\ At(name) \in DOMAIN srv.saves /\ srv.saves[At(name)].name = name
           /\ DOMAIN srv.saves = 1..Len(srv.saves) /\ Len(srv.saves) \in Nat
<1>1. DOMAIN srv.saves = 1..Len(srv.saves) /\ Len(srv.saves) \in Nat
  BY LenProperties DEF Standing, Kinds, Servers
<1>2. At(name) \in DOMAIN srv.saves /\ srv.saves[At(name)].name = name
  BY DEF Saved, At
<1> QED
  BY <1>1, <1>2

\* The first k savepoints.
LEMMA PrefixOfSaves ==
    ASSUME Standing, NEW k \in Nat, k <= Len(srv.saves)
    PROVE  /\ DOMAIN SubSeq(srv.saves, 1, k) = 1..k /\ 1..k \subseteq DOMAIN srv.saves
           /\ \A j \in 1..k : SubSeq(srv.saves, 1, k)[j] = srv.saves[j]
<1>1. srv.saves \in Seq(Savepoints) /\ DOMAIN srv.saves = 1..Len(srv.saves) /\ Len(srv.saves) \in Nat
  BY LenProperties DEF Standing, Kinds, Servers
<1>2. \A j \in 1..k : srv.saves[j] \in Savepoints
  BY <1>1, ElementOfSeq
<1>3. SubSeq(srv.saves, 1, k) \in Seq(Savepoints) /\ Len(SubSeq(srv.saves, 1, k)) = k
  BY <1>2, SubSeqProperties
<1>4. \A j \in 1..k : SubSeq(srv.saves, 1, k)[j] = srv.saves[j]
  BY <1>2, SubSeqProperties
<1> QED
  BY <1>1, <1>3, <1>4, LenProperties

\* T is what is left of the savepoints, in order, and one of the given name on top.
OnTop(T, name, m, g) ==
    /\ DOMAIN T = 1..(m + 1) /\ T[m + 1] = [name |-> name, work |-> srv.work]
    /\ \A j \in 1..m : T[j] = srv.saves[g[j]] /\ T[j].name # name
    /\ \A i, j \in 1..m : i < j <=> g[i] < g[j]
    /\ \A i \in DOMAIN srv.saves : srv.saves[i].name # name => \E j \in 1..m : g[j] = i

\* SAVEPOINT: the savepoints of other names stay, in their order, and the new one is last.
LEMMA SaveLast ==
    ASSUME Standing, Line, NEW name \in Int, NEW T, T = Save(name).saves
    PROVE  \E m \in Nat : \E g \in [1..m -> DOMAIN srv.saves] : OnTop(T, name, m, g)
<1> DEFINE others == IF Saved(name) THEN RemoveAt(srv.saves, At(name)) ELSE srv.saves
           new == [name |-> name, work |-> srv.work]
           L == Len(srv.saves)
           a == At(name)
<1>1. srv \in Servers /\ srv.saves \in Seq(Savepoints) /\ DOMAIN srv.saves = 1..L /\ L \in Nat
  BY LenProperties DEF Standing, Kinds, Servers
<1>2. new \in Savepoints
  BY <1>1 DEF Servers, Savepoints
<1>3. T = Append(others, new)
  <2>1. Save(name) = [srv EXCEPT !.saves = Append(others, new)]
    BY DEF Save
  <2> HIDE DEF others, new
  <2> QED
    BY <1>1, <2>1 DEF Servers
<1>4. ASSUME others \in Seq(Savepoints)
      PROVE  /\ DOMAIN T = 1..(Len(others) + 1) /\ T[Len(others) + 1] = new
             /\ \A j \in 1..Len(others) : T[j] = others[j]
  <2> HIDE DEF others, new
  <2>1. /\ T \in Seq(Savepoints) /\ Len(T) = Len(others) + 1
        /\ \A j \in 1..Len(others) : T[j] = others[j]
        /\ T[Len(others) + 1] = new
    BY <1>2, <1>3, <1>4, AppendProperties
  <2> QED
    BY <2>1, LenProperties
<1>5. CASE ~Saved(name)
  <2>0. PICK m \in Nat : m = L
    BY <1>1
  <2>1. others = srv.saves
    BY <1>5
  <2>2. \A j \in 1..L : srv.saves[j].name # name
    BY <1>1, <1>5 DEF Saved
  <2> DEFINE g == [j \in 1..m |-> j]
  <2>3. g \in [1..m -> DOMAIN srv.saves] /\ \A j \in 1..m : g[j] = j
    BY <1>1, <2>0
  <2> HIDE DEF others, new, g
  <2>4. DOMAIN T = 1..(m + 1) /\ T[m + 1] = new /\ \A j \in 1..m : T[j] = srv.saves[g[j]] /\ T[j].name # name
    BY <1>1, <1>4, <2>0, <2>1, <2>2, <2>3
  <2>5. \A i, j \in 1..m : i < j <=> g[i] < g[j]
    BY <2>3
  <2>6. \A i \in DOMAIN srv.saves : \E j \in 1..m : g[j] = i
    BY <1>1, <2>0, <2>3
  <2> HIDE DEF L
  <2>7. OnTop(T, name, m, g)
    BY <2>4, <2>5, <2>6 DEF OnTop, new
  <2> QED
    BY <2>3, <2>7
<1>6. CASE Saved(name)
  <2>1. a \in Nat /\ a >= 1 /\ a <= L /\ srv.saves[a].name = name
    BY <1>6, SavedAt
  <2>2. PICK m \in Nat : L = m + 1
    <3>1. L - 1 \in Nat /\ L = (L - 1) + 1
      BY <1>1, <2>1
    <3> QED
      BY <3>1
  <2> DEFINE left == SubSeq(srv.saves, 1, a - 1)
             right == SubSeq(srv.saves, a + 1, L)
  <2>3. others = left \o right
    BY <1>6 DEF RemoveAt
  <2>4. left \in Seq(Savepoints) /\ Len(left) = a - 1 /\ \A j \in 1..(a - 1) : left[j] = srv.saves[j]
    <3>1. \A i \in 1..(a - 1) : srv.saves[i] \in Savepoints
      BY <1>1, <2>1, ElementOfSeq
    <3>2. left \in Seq(Savepoints) /\ Len(left) = (IF 1 <= a - 1 THEN (a - 1) - 1 + 1 ELSE 0)
          /\ \A i \in 1..((a - 1) - 1 + 1) : left[i] = srv.saves[1 + i - 1]
      BY <2>1, <3>1, SubSeqProperties
    <3>3. Len(left) = a - 1
      BY <2>1, <3>2
    <3>4. ASSUME NEW j \in 1..(a - 1) PROVE left[j] = srv.saves[j]
      <4>1. j \in 1..((a - 1) - 1 + 1) /\ 1 + j - 1 = j
        BY <2>1
      <4> HIDE DEF left
      <4> QED
        BY <3>2, <4>1
    <3> QED
      BY <3>2, <3>3, <3>4
  <2>5. right \in Seq(Savepoints) /\ Len(right) = L - a /\ \A j \in 1..(L - a) : right[j] = srv.saves[a + j]
    <3>1. \A i \in (a + 1)..L : srv.saves[i] \in Savepoints
      BY <1>1, <2>1, ElementOfSeq
    <3>2. right \in Seq(Savepoints) /\ Len(right) = (IF a + 1 <= L THEN L - (a + 1) + 1 ELSE 0)
          /\ \A i \in 1..(L - (a + 1) + 1) : right[i] = srv.saves[(a + 1) + i - 1]
      BY <1>1, <2>1, <3>1, SubSeqProperties
    <3>3. Len(right) = L - a
      BY <1>1, <2>1, <3>2
    <3>4. ASSUME NEW j \in 1..(L - a) PROVE right[j] = srv.saves[a + j]
      <4>1. j \in 1..(L - (a + 1) + 1) /\ (a + 1) + j - 1 = a + j
        BY <1>1, <2>1
      <4> HIDE DEF right
      <4> QED
        BY <3>2, <4>1
    <3> QED
      BY <3>2, <3>3, <3>4
  <2> DEFINE g == [j \in 1..m |-> IF j < a THEN j ELSE j + 1]
  <2>6. others \in Seq(Savepoints) /\ Len(others) = m
    <3> HIDE DEF left, right, others
    <3>1. others \in Seq(Savepoints) /\ Len(others) = Len(left) + Len(right)
      BY <2>3, <2>4, <2>5, ConcatProperties
    <3>2. Len(left) = a - 1 /\ Len(right) = L - a
      BY <2>4, <2>5
    <3> HIDE DEF a, L
    <3> QED
      BY <1>1, <2>1, <2>2, <3>1, <3>2
  <2>7. g \in [1..m -> DOMAIN srv.saves] /\ \A j \in 1..m : g[j] = (IF j < a THEN j ELSE j + 1) /\ g[j] # a
    <3> HIDE DEF a, L
    <3> QED
      BY <1>1, <2>1, <2>2
  <2>8. \A j \in 1..m : others[j] = srv.saves[g[j]]
    <3> SUFFICES ASSUME NEW j \in 1..m PROVE others[j] = srv.saves[g[j]]
      OBVIOUS
    <3>1. g[j] = IF j < a THEN j ELSE j + 1
      BY <2>7
    <3> HIDE DEF left, right, others, g
    <3>2. others[j] = IF j <= a - 1 THEN left[j] ELSE right[j - (a - 1)]
      <4>1. j \in 1..(Len(left) + Len(right))
        <5> HIDE DEF a, L
        <5> QED
          BY <1>1, <2>1, <2>2, <2>4, <2>5
      <4> QED
        BY <2>3, <2>4, <2>5, <4>1, ConcatProperties
    <3>3. CASE j < a
      <4>1. j <= a - 1 /\ j \in 1..(a - 1)
        BY <2>1, <3>3
      <4> QED
        BY <2>4, <3>1, <3>2, <3>3, <4>1
    <3>4. CASE ~(j < a)
      <4>1. ~(j <= a - 1) /\ j - (a - 1) \in 1..(L - a) /\ a + (j - (a - 1)) = j + 1
        <5> HIDE DEF a, L
        <5> QED
          BY <1>1, <2>1, <2>2, <3>4
      <4> QED
        BY <2>5, <3>1, <3>2, <3>4, <4>1
    <3> QED
      BY <3>3, <3>4
  <2>9. \A i \in DOMAIN srv.saves : srv.saves[i].name = name => i = a
    BY <1>1, <2>1 DEF Line
  <2> HIDE DEF others, new, g, left, right, a, L
  <2>10. \A i, j \in 1..m : i < j <=> g[i] < g[j]
    BY <2>1, <2>7
  <2>11. \A i \in DOMAIN srv.saves : srv.saves[i].name # name => \E j \in 1..m : g[j] = i
    <3> SUFFICES ASSUME NEW i \in 1..L, i # a PROVE \E j \in 1..m : g[j] = i
      BY <1>1, <2>1
    <3>1. CASE i < a
      <4>1. i \in 1..m /\ g[i] = i
        BY <1>1, <2>1, <2>2, <2>7, <3>1
      <4> QED
        BY <4>1
    <3>2. CASE ~(i < a)
      <4>1. i - 1 \in 1..m /\ ~(i - 1 < a) /\ (i - 1) + 1 = i
        BY <1>1, <2>1, <2>2, <3>2
      <4>2. g[i - 1] = i
        BY <2>7, <4>1
      <4> QED
        BY <4>1, <4>2
    <3> QED
      BY <3>1, <3>2
  <2>12. DOMAIN T = 1..(m + 1) /\ T[m + 1] = new /\ \A j \in 1..m : T[j] = srv.saves[g[j]]
    BY <1>4, <2>6, <2>8
  <2>13. \A j \in 1..m : T[j].name # name
    BY <2>7, <2>9, <2>12
  <2>14. OnTop(T, name, m, g)
    BY <2>10, <2>11, <2>12, <2>13 DEF OnTop, new
  <2> QED
    BY <2>2, <2>7, <2>14
<1> QED
  BY <1>5, <1>6

\* A scope that opens is the new top, and its savepoint holds the work of all below.
LEMMA OpenScopeNested ==
    ASSUME Standing, Nested, Habits = {}, NEW s, OpenScope(s)
    PROVE  Nested'
<1> DEFINE d == obj.depth
<1>1. PICK c \in Slots \ DOMAIN scope :
        /\ scope' = With(scope, c, [name |-> Name, parent |-> s, lost |-> FALSE])
        /\ logs' = With(logs, c, {})
  BY DEF OpenScope
<1>2. /\ obj'.depth = d + 1 /\ Name = d + 1 /\ srv' = Save(d + 1) /\ srv.open /\ script' = script
      /\ script.mode = "no" /\ amiss' = amiss
  BY DEF OpenScope, Running, Name, Standing, Kinds, Open
<1>3. d \in Nat /\ IsFiniteSet(DOMAIN scope) /\ DOMAIN logs = {0} \cup DOMAIN scope /\ 0 \notin DOMAIN scope
  BY Depth DEF Nested
<1>4. s \in DOMAIN logs /\ Level(s) = d
  BY TopRuns DEF OpenScope, Nested
<1>5. c # 0 /\ c \notin DOMAIN scope
  BY <1>1, WorkAssumption
<1>6. /\ DOMAIN scope' = DOMAIN scope \cup {c} /\ scope'[c] = [name |-> d + 1, parent |-> s, lost |-> FALSE]
      /\ \A t \in DOMAIN scope : scope'[t] = scope[t]
      /\ DOMAIN logs' = DOMAIN logs \cup {c} /\ logs'[c] = {}
      /\ \A t \in DOMAIN logs : logs'[t] = logs[t]
  BY <1>1, <1>2, <1>3, <1>5 DEF With
<1>7. Level(c)' = d + 1 /\ \A t \in DOMAIN logs : Level(t)' = Level(t) /\ Level(t) \in 0..d
  <2>1. \A t \in DOMAIN logs : Level(t) \in 0..d
    BY Levels DEF Nested
  <2> QED
    BY <1>3, <1>5, <1>6, <2>1 DEF Level
<1>8. Nesting'
  <2>1. obj'.depth = Cardinality(DOMAIN scope')
    <3>1. Cardinality(DOMAIN scope \cup {c}) = Cardinality(DOMAIN scope) + 1
      BY <1>3, <1>5, FS_AddElement
    <3> QED
      BY <1>2, <1>6, <3>1 DEF Nested, Nesting
  <2>2. ASSUME NEW e \in DOMAIN scope'
        PROVE  /\ scope'[e].name \in 1..obj'.depth /\ scope'[e].parent \in {0} \cup DOMAIN scope'
               /\ Level(scope[e].parent)' = scope'[e].name - 1
    <3>1. CASE e = c
      <4>1. scope'[e].name = d + 1 /\ scope'[e].parent = s /\ s \in DOMAIN logs
        BY <1>4, <1>6, <3>1
      <4>2. Level(s)' = d
        BY <1>4, <1>7
      <4>3. Level(scope[e].parent)' = d
        BY <4>1, <4>2 DEF Level
      <4> QED
        BY <1>2, <1>3, <1>6, <4>1, <4>3
    <3>2. CASE e # c
      <4>1. e \in DOMAIN scope /\ scope'[e] = scope[e]
        BY <1>6, <3>2
      <4>2. /\ scope[e].name \in 1..d /\ scope[e].parent \in DOMAIN logs
            /\ Level(scope[e].parent) = scope[e].name - 1
        BY <1>3, <4>1 DEF Nested, Nesting
      <4>3. Level(scope[e].parent)' = Level(scope[e].parent)
        <5>1. scope'[e].parent = scope[e].parent
          BY <4>1
        <5> QED
          BY <1>7, <4>2, <5>1 DEF Level
      <4> QED
        BY <1>2, <1>3, <1>6, <4>1, <4>2, <4>3
    <3> QED
      BY <3>1, <3>2
  <2>3. \A e, f \in DOMAIN scope' : scope'[e].name = scope'[f].name => e = f
    <3>1. scope'[c].name = d + 1
      BY <1>6
    <3>2. \A e \in DOMAIN scope : scope'[e].name = scope[e].name /\ scope[e].name \in 1..d
      BY <1>6 DEF Nested, Nesting
    <3>3. \A e, f \in DOMAIN scope : scope[e].name = scope[f].name => e = f
      BY DEF Nested, Nesting
    <3> QED
      BY <1>3, <1>6, <3>1, <3>2, <3>3
  <2>4. \A k \in 1..obj'.depth : \E e \in DOMAIN scope' : scope'[e].name = k
    <3>1. \A k \in 1..d : \E e \in DOMAIN scope : scope[e].name = k
      BY DEF Nested, Nesting
    <3> QED
      BY <1>2, <1>3, <1>6, <3>1
  <2> QED
    BY <1>2, <2>1, <2>2, <2>3, <2>4 DEF Nesting
<1>9. Save(d + 1).work = srv.work /\ Save(d + 1).open = srv.open
  BY <1>3, SaveKind DEF Standing
<1>10. Agrees'
  BY <1>2, <1>6, <1>9 DEF Nested, Agrees
<1>11. Line' /\ Held'
  <2> DEFINE T == srv'.saves
  <2>1. PICK m \in Nat : \E g \in [1..m -> DOMAIN srv.saves] : OnTop(T, d + 1, m, g)
    <3>1. Line /\ d + 1 \in Int /\ T = Save(d + 1).saves
      BY <1>2, <1>3 DEF Nested, Saves
    <3> HIDE DEF T, d
    <3> QED
      BY <3>1, SaveLast
  <2>2. PICK g \in [1..m -> DOMAIN srv.saves] :
             /\ DOMAIN T = 1..(m + 1) /\ T[m + 1] = [name |-> d + 1, work |-> srv.work]
             /\ \A j \in 1..m : T[j] = srv.saves[g[j]] /\ T[j].name # d + 1
             /\ \A i, j \in 1..m : i < j <=> g[i] < g[j]
             /\ \A i \in DOMAIN srv.saves : srv.saves[i].name # d + 1 => \E j \in 1..m : g[j] = i
    BY <2>1 DEF OnTop
  <2>3. DOMAIN srv.saves \subseteq Nat /\ \A j \in 1..m : g[j] \in DOMAIN srv.saves
    BY <2>2, LenProperties DEF Standing, Kinds, Servers
  <2>4. \A i \in DOMAIN T : i = m + 1 \/ i \in 1..m
    BY <2>2
  <2>5. srv'.work = srv.work /\ Line /\ Held /\ Agrees
    BY <1>2, <1>9 DEF Nested, Saves
  <2>6. m + 1 \in DOMAIN T /\ 1..m \subseteq DOMAIN T /\ \A i \in 1..m : i < m + 1 /\ ~(m + 1 < i)
    BY <2>2
  <2>7. T[m + 1].name = d + 1 /\ T[m + 1].work = srv.work
    BY <2>2
  <2>8. Line'
    <3>1. ASSUME NEW i \in DOMAIN T, NEW j \in DOMAIN T, T[i].name = T[j].name PROVE i = j
      <4>1. CASE i \in 1..m /\ j \in 1..m
        <5>1. g[i] = g[j]
          BY <2>2, <2>3, <2>5, <3>1, <4>1 DEF Line
        <5>2. g[i] \in Nat /\ ~(i < j) /\ ~(j < i)
          BY <2>2, <2>3, <4>1, <5>1
        <5> QED
          BY <4>1, <5>2
      <4> QED
        BY <2>2, <2>4, <2>7, <3>1, <4>1
    <3>2. ASSUME NEW i \in DOMAIN T PROVE T[i].work \subseteq srv'.work
      <4>1. i \in 1..m => T[i].work = srv.saves[g[i]].work /\ srv.saves[g[i]].work \subseteq srv.work
        BY <2>2, <2>3, <2>5 DEF Line
      <4> QED
        BY <2>4, <2>5, <2>7, <4>1
    <3>3. ASSUME NEW i \in DOMAIN T, NEW j \in DOMAIN T, i < j PROVE T[i].work \subseteq T[j].work
      <4>1. i \in 1..m
        BY <2>4, <2>6, <3>3
      <4>2. CASE j = m + 1
        BY <2>5, <2>7, <3>2, <4>2
      <4>3. CASE j \in 1..m
        <5>1. g[i] < g[j] /\ T[i].work = srv.saves[g[i]].work /\ T[j].work = srv.saves[g[j]].work
          BY <2>2, <3>3, <4>1, <4>3
        <5> QED
          BY <2>3, <2>5, <4>1, <4>3, <5>1 DEF Line
      <4> QED
        BY <2>4, <4>2, <4>3
    <3> QED
      BY <3>1, <3>2, <3>3 DEF Line
  <2>9. ASSUME NEW e \in DOMAIN scope', NEW x
        PROVE  Below(x, scope[e].name)' <=> \E t \in DOMAIN logs : Level(t) < scope'[e].name /\ x \in logs[t]
    BY <1>6, <1>7 DEF Below
  <2>10. \A e \in DOMAIN scope : /\ scope[e].name \in 1..d /\ scope[e].name # d + 1
                                 /\ scope'[e] = scope[e] /\ e # c
    BY <1>3, <1>5, <1>6 DEF Nested, Nesting
  <2>11. \A e \in DOMAIN scope' : e = c \/ e \in DOMAIN scope
    BY <1>6
  <2>12. scope'[c].name = d + 1 /\ scope'[c].lost = FALSE
    BY <1>6
  <2>13. ASSUME NEW e \in DOMAIN scope' PROVE scope'[e].lost <=> ~\E k \in DOMAIN T : T[k].name = scope'[e].name
    <3>1. CASE e = c
      BY <2>6, <2>7, <2>12, <3>1
    <3>2. CASE e \in DOMAIN scope
      <4>1. scope[e].lost <=> ~\E k \in DOMAIN srv.saves : srv.saves[k].name = scope[e].name
        BY <2>5, <3>2 DEF Held, Saved
      <4>2. ASSUME NEW k \in DOMAIN srv.saves, srv.saves[k].name = scope[e].name
            PROVE  \E j \in DOMAIN T : T[j].name = scope[e].name
        <5>1. PICK j \in 1..m : g[j] = k
          BY <2>2, <2>10, <3>2, <4>2
        <5> QED
          BY <2>2, <2>6, <4>2, <5>1
      <4>3. ASSUME NEW j \in DOMAIN T, T[j].name = scope[e].name
            PROVE  \E k \in DOMAIN srv.saves : srv.saves[k].name = scope[e].name
        <5>1. j \in 1..m
          BY <2>4, <2>7, <2>10, <3>2, <4>3
        <5> QED
          BY <2>2, <2>3, <4>3, <5>1
      <4> QED
        BY <2>10, <3>2, <4>1, <4>2, <4>3
    <3> QED
      BY <2>11, <3>1, <3>2
  <2>14. ASSUME NEW e \in DOMAIN scope', NEW j \in DOMAIN T, T[j].name = scope'[e].name, NEW x \in Work \ amiss
         PROVE  x \in T[j].work <=> Below(x, scope[e].name)'
    <3>1. CASE e = c
      <4>1. j = m + 1
        BY <2>2, <2>4, <2>12, <2>14, <3>1
      <4>2. x \in srv.work <=> \E t \in DOMAIN logs : Level(t) < d + 1 /\ x \in logs[t]
        BY <1>3, <1>7, <2>5 DEF Agrees
      <4>3. Below(x, scope[e].name)' <=> \E t \in DOMAIN logs : Level(t) < d + 1 /\ x \in logs[t]
        BY <2>9, <2>12, <3>1
      <4> QED
        BY <2>7, <4>1, <4>2, <4>3
    <3>2. CASE e \in DOMAIN scope
      <4>1. j \in 1..m /\ scope[e].name \in 1..(d + 1)
        BY <1>3, <2>4, <2>7, <2>10, <2>14, <3>2
      <4>2. srv.saves[g[j]].name = scope[e].name /\ T[j].work = srv.saves[g[j]].work /\ g[j] \in DOMAIN srv.saves
        BY <2>2, <2>3, <2>10, <2>14, <3>2, <4>1
      <4>3. x \in srv.saves[g[j]].work <=> Below(x, scope[e].name)
        BY <2>5, <3>2, <4>2 DEF Held
      <4>4. Below(x, scope[e].name) <=> Below(x, scope[e].name)'
        BY <2>9, <2>10, <3>2 DEF Below
      <4> QED
        BY <4>2, <4>3, <4>4
    <3> QED
      BY <2>11, <3>1, <3>2
  <2>15. ASSUME NEW e \in DOMAIN scope', NEW f \in DOMAIN scope', NEW i \in DOMAIN T, NEW j \in DOMAIN T,
                T[i].name = scope'[e].name, T[j].name = scope'[f].name, scope'[e].name < scope'[f].name
         PROVE  i < j
    <3>1. e \in DOMAIN scope /\ scope'[e] = scope[e] /\ scope[e].name \in 1..d
      <4>1. ~(d + 1 < d + 1) /\ \A k \in 1..d : ~(d + 1 < k)
        BY <1>3
      <4> QED
        BY <2>10, <2>11, <2>12, <2>15, <4>1
    <3>2. i \in 1..m
      BY <2>4, <2>7, <2>10, <2>15, <3>1
    <3>3. CASE f = c
      BY <2>2, <2>4, <2>6, <2>12, <2>15, <3>2, <3>3
    <3>4. CASE f \in DOMAIN scope
      <4>1. j \in 1..m /\ scope'[f] = scope[f]
        BY <2>4, <2>7, <2>10, <2>15, <3>4
      <4>2. srv.saves[g[i]].name = scope[e].name /\ srv.saves[g[j]].name = scope[f].name
        BY <2>2, <2>15, <3>1, <3>2, <4>1
      <4>3. g[i] < g[j]
        BY <2>3, <2>5, <2>15, <3>1, <3>2, <3>4, <4>1, <4>2 DEF Held
      <4> QED
        BY <2>2, <3>2, <4>1, <4>3
    <3> QED
      BY <2>11, <3>3, <3>4
  <2> HIDE DEF T
  <2>16. T = srv'.saves
    BY DEF T
  <2>17. Held'
    BY <1>2, <2>13, <2>14, <2>15, <2>16 DEF Held, Saved
  <2> QED
    BY <2>8, <2>17
<1> QED
  BY <1>8, <1>10, <1>11 DEF Nested, Saves

\* The scope that closes is the topmost.
LEMMA TopCloses ==
    ASSUME Standing, Nested, Habits = {}, NEW c, c # 0, Running(c), Closes(c)
    PROVE  /\ obj.depth \in Nat /\ obj.depth >= 1 /\ obj'.depth = obj.depth - 1
           /\ c \in DOMAIN scope /\ scope[c].name = obj.depth
           /\ DOMAIN logs = {0} \cup DOMAIN scope
           /\ scope[c].parent \in DOMAIN logs \ {c} /\ Level(scope[c].parent) = obj.depth - 1
           /\ \A t \in DOMAIN logs \ {c} : Level(t)' = Level(t) /\ Level(t) \in 0..(obj.depth - 1)
           /\ Nesting'
<1> DEFINE d == obj.depth
<1>1. d \in Nat /\ IsFiniteSet(DOMAIN scope) /\ DOMAIN logs = {0} \cup DOMAIN scope /\ 0 \notin DOMAIN scope
  BY Depth DEF Nested
<1>2. c \in DOMAIN logs /\ Level(c) = d
  BY TopRuns DEF Nested
<1>3. c \in DOMAIN scope /\ scope[c].name = d
  BY <1>1, <1>2 DEF Level
<1>4. d >= 1 /\ scope[c].parent \in DOMAIN logs /\ Level(scope[c].parent) = d - 1
  BY <1>1, <1>3 DEF Nested, Nesting
<1>5. scope[c].parent # c
  BY <1>1, <1>2, <1>4
<1>6. /\ DOMAIN scope' = DOMAIN scope \ {c} /\ \A t \in DOMAIN scope' : scope'[t] = scope[t]
      /\ script' = script /\ script.mode = "no"
  BY DEF Closes, Without, Running
<1>7. obj'.depth = d - 1
  BY DEF Closes, Standing, Kinds
<1>8. \A t \in DOMAIN logs \ {c} : Level(t)' = Level(t) /\ Level(t) \in 0..(d - 1)
  <2>1. \A t \in DOMAIN logs : Level(t) \in 0..d /\ (Level(t) = Level(c) => t = c)
    BY <1>2, Levels DEF Nested
  <2>2. \A t \in DOMAIN logs \ {c} : Level(t)' = Level(t)
    BY <1>1, <1>6 DEF Level
  <2> QED
    BY <1>1, <1>2, <2>1, <2>2
<1>9. Nesting'
  <2>1. obj'.depth = Cardinality(DOMAIN scope')
    <3>1. Cardinality(DOMAIN scope \ {c}) = Cardinality(DOMAIN scope) - 1
      BY <1>1, <1>3, FS_RemoveElement
    <3> QED
      BY <1>6, <1>7, <3>1 DEF Nested, Nesting
  <2>2. ASSUME NEW e \in DOMAIN scope'
        PROVE  /\ scope'[e].name \in 1..obj'.depth /\ scope'[e].parent \in {0} \cup DOMAIN scope'
               /\ Level(scope[e].parent)' = scope'[e].name - 1
    <3>1. e \in DOMAIN scope /\ e # c /\ scope'[e] = scope[e]
      BY <1>6
    <3>2. /\ scope[e].name \in 1..d /\ scope[e].parent \in DOMAIN logs
          /\ Level(scope[e].parent) = scope[e].name - 1
      BY <1>1, <3>1 DEF Nested, Nesting
    <3>3. scope[e].name # d
      BY <1>3, <3>1 DEF Nested, Nesting
    <3>4. scope[e].parent # c
      BY <1>1, <1>2, <3>2
    <3>5. Level(scope[e].parent)' = Level(scope[e].parent)
      <4>1. scope'[e].parent = scope[e].parent
        BY <3>1
      <4> QED
        BY <1>8, <3>2, <3>4, <4>1 DEF Level
    <3> QED
      BY <1>1, <1>6, <1>7, <3>1, <3>2, <3>3, <3>4, <3>5
  <2>3. \A e, f \in DOMAIN scope' : scope'[e].name = scope'[f].name => e = f
    BY <1>6 DEF Nested, Nesting
  <2>4. \A k \in 1..obj'.depth : \E e \in DOMAIN scope' : scope'[e].name = k
    <3> SUFFICES ASSUME NEW k \in 1..(d - 1)
                 PROVE  \E e \in DOMAIN scope' : scope'[e].name = k
      BY <1>7
    <3>1. PICK e \in DOMAIN scope : scope[e].name = k
      BY <1>1 DEF Nested, Nesting
    <3>2. e # c
      BY <1>1, <1>3, <3>1
    <3> QED
      BY <1>6, <3>1, <3>2
  <2> QED
    BY <1>6, <2>1, <2>2, <2>3, <2>4 DEF Nesting
<1> QED
  BY <1>1, <1>3, <1>4, <1>5, <1>7, <1>8, <1>9

\* A server whose savepoints are the first k it had.
LEMMA CutLine ==
    ASSUME Line, NEW k \in Nat, DOMAIN srv'.saves = 1..k, 1..k \subseteq DOMAIN srv.saves,
           \A j \in 1..k : srv'.saves[j] = srv.saves[j],
           \A j \in 1..k : srv.saves[j].work \subseteq srv'.work
    PROVE  Line'
BY DEF Line

\* The scopes that are left, whose levels have told of what they had told of.
LEMMA CutHeld ==
    ASSUME Held, NEW k \in Nat, DOMAIN srv'.saves = 1..k, 1..k \subseteq DOMAIN srv.saves,
           \A j \in 1..k : srv'.saves[j] = srv.saves[j],
           DOMAIN scope' \subseteq DOMAIN scope, amiss \subseteq amiss',
           \A e \in DOMAIN scope' : /\ scope'[e].name = scope[e].name
                                    /\ scope'[e].lost <=> ~\E j \in 1..k : srv.saves[j].name = scope[e].name
                                    /\ \A x \in Work : Below(x, scope[e].name)' <=> Below(x, scope[e].name)
    PROVE  Held'
<1>1. \A e \in DOMAIN scope' : scope'[e].lost <=> ~Saved(scope[e].name)'
  BY DEF Saved
<1>2. ASSUME NEW e \in DOMAIN scope', NEW i \in DOMAIN srv'.saves, srv'.saves[i].name = scope'[e].name,
             NEW x \in Work \ amiss'
      PROVE  x \in srv'.saves[i].work <=> Below(x, scope[e].name)'
  <2>1. srv.saves[i].name = scope[e].name /\ srv'.saves[i].work = srv.saves[i].work /\ i \in DOMAIN srv.saves
    BY <1>2
  <2>2. x \in srv.saves[i].work <=> Below(x, scope[e].name)
    BY <1>2, <2>1 DEF Held
  <2> QED
    BY <1>2, <2>1, <2>2
<1>3. ASSUME NEW e \in DOMAIN scope', NEW f \in DOMAIN scope', NEW i \in DOMAIN srv'.saves, NEW j \in DOMAIN srv'.saves,
             srv'.saves[i].name = scope'[e].name, srv'.saves[j].name = scope'[f].name, scope'[e].name < scope'[f].name
      PROVE  i < j
  <2>1. /\ srv.saves[i].name = scope[e].name /\ srv.saves[j].name = scope[f].name /\ scope[e].name < scope[f].name
        /\ i \in DOMAIN srv.saves /\ j \in DOMAIN srv.saves
    BY <1>3
  <2> QED
    BY <2>1 DEF Held
<1> QED
  BY <1>1, <1>2, <1>3 DEF Held

\* What the levels below one that stays have told of, after the top has closed.
LEMMA BelowStays ==
    ASSUME Standing, Nested, Habits = {}, NEW c, c # 0, Running(c), Closes(c),
           DOMAIN logs' = DOMAIN logs \ {c},
           \A t \in DOMAIN logs' : Level(t) < obj.depth - 1 => logs'[t] = logs[t]
    PROVE  /\ DOMAIN scope' \subseteq DOMAIN scope
           /\ \A e \in DOMAIN scope' : /\ scope'[e] = scope[e]
                                       /\ scope[e].name \in 1..(obj.depth - 1)
                                       /\ \A x \in Work : Below(x, scope[e].name)' <=> Below(x, scope[e].name)
<1> DEFINE d == obj.depth
<1>1. /\ d \in Nat /\ d >= 1 /\ c \in DOMAIN scope /\ scope[c].name = d
      /\ \A t \in DOMAIN logs \ {c} : Level(t)' = Level(t) /\ Level(t) \in 0..(d - 1)
      /\ Nesting' /\ obj'.depth = d - 1
  BY TopCloses
<1>2. DOMAIN scope' = DOMAIN scope \ {c} /\ \A e \in DOMAIN scope' : scope'[e] = scope[e]
  BY DEF Closes, Without
<1>3. \A e \in DOMAIN scope' : scope[e].name \in 1..(d - 1)
  BY <1>1, <1>2 DEF Nesting
<1>4. Level(c) = d /\ d \notin 0..(d - 1)
  BY <1>1 DEF Level
<1>5. ASSUME NEW e \in DOMAIN scope', NEW x \in Work
      PROVE  Below(x, scope[e].name)' <=> Below(x, scope[e].name)
  <2> DEFINE m == scope[e].name
  <2>1. m \in 1..(d - 1) /\ scope'[e] = scope[e]
    BY <1>2, <1>3
  <2>2. \A t \in DOMAIN logs : Level(t) < m => t # c
    BY <1>1, <1>4, <2>1
  <2>3. \A t \in DOMAIN logs \ {c} : Level(t) < m => Level(t) < d - 1
    BY <1>1, <2>1
  <2>4. (\E t \in DOMAIN logs' : Level(t)' < m /\ x \in logs'[t]) <=> \E t \in DOMAIN logs : Level(t) < m /\ x \in logs[t]
    <3> HIDE DEF m
    <3> QED
      BY <1>1, <2>2, <2>3
  <2> QED
    BY <2>1, <2>4 DEF Below
<1> QED
  BY <1>2, <1>3, <1>5

\* Where the savepoints of the scopes that stay are: before that of the top.
LEMMA BeforeTop ==
    ASSUME Standing, Nested, srv.open, NEW c \in DOMAIN scope, scope[c].name = obj.depth, Saved(scope[c].name),
           NEW e \in DOMAIN scope, scope[e].name \in 1..(obj.depth - 1)
    PROVE  scope[e].lost <=> ~\E j \in 1..(At(scope[c].name) - 1) : srv.saves[j].name = scope[e].name
<1> DEFINE a == At(scope[c].name)
<1>1. /\ a \in Nat /\ a >= 1 /\ a \in DOMAIN srv.saves /\ srv.saves[a].name = scope[c].name
      /\ DOMAIN srv.saves = 1..Len(srv.saves) /\ Len(srv.saves) \in Nat
  BY SavedAt
<1>2. scope[e].name < scope[c].name
  BY Depth DEF Nested
<1>3. Held
  BY DEF Nested, Saves
<1> HIDE DEF a
<1>4. \A j \in DOMAIN srv.saves : srv.saves[j].name = scope[e].name => j < a
  BY <1>1, <1>2, <1>3 DEF Held
<1>5. (\E j \in 1..(a - 1) : srv.saves[j].name = scope[e].name) <=> Saved(scope[e].name)
  <2>1. \A j \in DOMAIN srv.saves : j < a <=> j \in 1..(a - 1)
    BY <1>1
  <2>2. 1..(a - 1) \subseteq DOMAIN srv.saves
    BY <1>1
  <2> QED
    BY <1>4, <2>1, <2>2 DEF Saved
<1> QED
  BY <1>3, <1>5 DEF Held, a

\* A scope that returns hands what it may count on to the one it was opened in.
LEMMA ReturnScopeNested ==
    ASSUME Standing, Nested, Habits = {}, NEW c, ReturnScope(c)
    PROVE  Nested'
<1> DEFINE d == obj.depth
           p == scope[c].parent
<1>0. /\ c # 0 /\ Running(c) /\ Closes(c) /\ Saved(scope[c].name) /\ srv' = Release(scope[c].name)
      /\ logs' = [Without(logs, c) EXCEPT ![p] = @ \cup logs[c]] /\ amiss' = amiss /\ srv.open
  BY DEF ReturnScope, Standing, Open
<1>1. /\ d \in Nat /\ d >= 1 /\ c \in DOMAIN scope /\ scope[c].name = d /\ DOMAIN logs = {0} \cup DOMAIN scope
      /\ p \in DOMAIN logs \ {c} /\ Level(p) = d - 1
      /\ Nesting'
  BY <1>0, TopCloses
<1>2. /\ DOMAIN logs' = DOMAIN logs \ {c} /\ logs'[p] = logs[p] \cup logs[c]
      /\ \A t \in DOMAIN logs' : t # p => logs'[t] = logs[t]
  BY <1>0, <1>1 DEF Without
<1>3. \A t \in DOMAIN logs' : Level(t) < d - 1 => logs'[t] = logs[t]
  BY <1>1, <1>2
<1>4. /\ DOMAIN scope' \subseteq DOMAIN scope
      /\ \A e \in DOMAIN scope' : /\ scope'[e] = scope[e] /\ scope[e].name \in 1..(d - 1)
                                  /\ \A x \in Work : Below(x, scope[e].name)' <=> Below(x, scope[e].name)
  BY <1>0, <1>2, <1>3, BelowStays
<1>5. /\ At(d) \in Nat /\ At(d) >= 1 /\ At(d) <= Len(srv.saves) /\ Len(srv.saves) \in Nat
  BY <1>0, <1>1, SavedAt
<1>6. PICK k \in Nat : k = At(d) - 1 /\ k <= Len(srv.saves)
  BY <1>5
<1>7. srv'.work = srv.work /\ srv'.saves = SubSeq(srv.saves, 1, k) /\ srv'.open = srv.open
  BY <1>0, <1>1, <1>6 DEF Release, Standing, Kinds, Servers
<1>8. DOMAIN srv'.saves = 1..k /\ 1..k \subseteq DOMAIN srv.saves /\ \A j \in 1..k : srv'.saves[j] = srv.saves[j]
  BY <1>6, <1>7, PrefixOfSaves
<1>9. Line /\ Held
  BY <1>0 DEF Nested, Saves
<1>10. Line'
  <2>1. \A j \in 1..k : srv.saves[j].work \subseteq srv'.work
    BY <1>7, <1>8, <1>9 DEF Line
  <2> QED
    BY <1>8, <1>9, <2>1, CutLine
<1>11. Held'
  <2>1. ASSUME NEW e \in DOMAIN scope'
        PROVE  scope'[e].lost <=> ~\E j \in 1..k : srv.saves[j].name = scope[e].name
    BY <1>0, <1>1, <1>4, <1>6, BeforeTop
  <2> QED
    BY <1>0, <1>4, <1>8, <1>9, <2>1, CutHeld
<1>12. Agrees'
  <2>1. \A x : (\E t \in DOMAIN logs' : x \in logs'[t]) <=> \E t \in DOMAIN logs : x \in logs[t]
    BY <1>1, <1>2
  <2> QED
    BY <1>0, <1>7, <2>1 DEF Nested, Agrees
<1> QED
  BY <1>1, <1>10, <1>11, <1>12 DEF Nested, Saves

\* A scope that throws takes what it had told of with it: the work is undone, or amiss.
LEMMA ThrowScopeNested ==
    ASSUME Standing, Nested, Habits = {}, NEW c, ThrowScope(c)
    PROVE  Nested'
<1> DEFINE d == obj.depth
<1>0. c # 0 /\ Running(c) /\ Closes(c) /\ logs' = Without(logs, c) /\ amiss \subseteq amiss'
  BY DEF ThrowScope
<1>1. /\ d \in Nat /\ d >= 1 /\ c \in DOMAIN scope /\ scope[c].name = d /\ DOMAIN logs = {0} \cup DOMAIN scope
      /\ \A t \in DOMAIN logs \ {c} : Level(t) \in 0..(d - 1)
      /\ Nesting'
  BY <1>0, TopCloses
<1>2. DOMAIN logs' = DOMAIN logs \ {c} /\ \A t \in DOMAIN logs' : logs'[t] = logs[t]
  BY <1>0 DEF Without
<1>3. /\ DOMAIN scope' \subseteq DOMAIN scope
      /\ \A e \in DOMAIN scope' : /\ scope'[e] = scope[e] /\ scope[e].name \in 1..(d - 1)
                                  /\ \A x \in Work : Below(x, scope[e].name)' <=> Below(x, scope[e].name)
  BY <1>0, <1>2, BelowStays
<1>4. CASE srv.open /\ Undoes(c) /\ srv' = RollbackTo(d) /\ ~scope[c].lost /\ amiss' = amiss
  <2>0. Saved(d)
    BY <1>1, <1>4 DEF Undoes
  <2>1. /\ At(d) \in Nat /\ At(d) >= 1 /\ At(d) <= Len(srv.saves) /\ srv.saves[At(d)].name = d
        /\ DOMAIN srv.saves = 1..Len(srv.saves) /\ Len(srv.saves) \in Nat
    BY <2>0, SavedAt
  <2>2. PICK k \in Nat : k = At(d) /\ k <= Len(srv.saves) /\ k >= 1
    BY <2>1
  <2>3. srv'.work = srv.saves[k].work /\ srv'.saves = SubSeq(srv.saves, 1, k) /\ srv'.open = srv.open
    BY <1>4, <2>2 DEF RollbackTo, Standing, Kinds, Servers
  <2>4. DOMAIN srv'.saves = 1..k /\ 1..k \subseteq DOMAIN srv.saves /\ \A j \in 1..k : srv'.saves[j] = srv.saves[j]
    BY <2>2, <2>3, PrefixOfSaves
  <2>5. Line /\ Held
    BY <1>4 DEF Nested, Saves
  <2>6. k \in 1..k /\ k \in DOMAIN srv.saves /\ srv.saves[k].name = d
    BY <2>1, <2>2
  <2>7. Line'
    <3>1. \A j \in 1..k : j = k \/ j < k
      BY <2>2
    <3>2. \A j \in 1..k : srv.saves[j].work \subseteq srv'.work
      BY <2>3, <2>4, <2>5, <2>6, <3>1 DEF Line
    <3> QED
      BY <2>4, <2>5, <3>2, CutLine
  <2>8. Held'
    <3>1. ASSUME NEW e \in DOMAIN scope'
          PROVE  scope'[e].lost <=> ~\E j \in 1..k : srv.saves[j].name = scope[e].name
      <4>1. scope[e].lost <=> ~\E j \in 1..(k - 1) : srv.saves[j].name = scope[e].name
        BY <1>1, <1>3, <1>4, <2>0, <2>2, BeforeTop
      <4>2. srv.saves[k].name # scope[e].name
        BY <1>1, <1>3, <2>6
      <4>3. \A j \in 1..k : j = k \/ j \in 1..(k - 1)
        BY <2>2
      <4>4. 1..(k - 1) \subseteq 1..k
        BY <2>2
      <4> QED
        BY <1>3, <4>1, <4>2, <4>3, <4>4
    <3> QED
      BY <1>0, <1>3, <2>4, <2>5, <3>1, CutHeld
  <2>9. Agrees'
    <3>1. \A x \in Work \ amiss : x \in srv.saves[k].work <=> Below(x, d)
      BY <1>1, <2>5, <2>6 DEF Held
    <3>2. Level(c) = d /\ ~(d < d) /\ \A t \in DOMAIN logs \ {c} : Level(t) < d
      <4>1. Level(c) = d
        BY <1>0, <1>1 DEF Level
      <4> QED
        BY <1>1, <4>1
    <3>3. \A x : Below(x, d) <=> \E t \in DOMAIN logs' : x \in logs'[t]
      BY <1>1, <1>2, <3>2 DEF Below
    <3> QED
      BY <1>4, <2>3, <3>1, <3>3 DEF Agrees
  <2> QED
    BY <1>1, <2>7, <2>8, <2>9 DEF Nested, Saves
<1>5. CASE srv' = srv /\ (srv.open => logs[c] \subseteq amiss')
  <2>1. Agrees'
    <3>1. ~srv.open => \A t \in DOMAIN logs : logs[t] = {}
      BY DEF Nested, Agrees
    <3>2. ASSUME NEW x \in Work \ amiss'
          PROVE  x \in srv.work <=> \E t \in DOMAIN logs' : x \in logs'[t]
      <4>1. x \in srv.work <=> \E t \in DOMAIN logs : x \in logs[t]
        BY <1>0, <3>2 DEF Nested, Agrees
      <4>2. x \notin logs[c]
        BY <1>1, <1>5, <3>1, <3>2
      <4> QED
        BY <1>1, <1>2, <4>1, <4>2
    <3> QED
      BY <1>2, <1>5, <3>1, <3>2 DEF Agrees
  <2>2. Saves'
    <3> SUFFICES ASSUME srv.open PROVE Line' /\ Held'
      BY <1>5 DEF Saves
    <3>1. Line /\ Held
      BY DEF Nested, Saves
    <3>2. PICK k \in Nat : DOMAIN srv.saves = 1..k
      BY LenProperties DEF Standing, Kinds, Servers
    <3>3. \A e \in DOMAIN scope' : scope'[e].lost <=> ~\E j \in 1..k : srv.saves[j].name = scope[e].name
      BY <1>3, <3>1, <3>2 DEF Held, Saved
    <3>4. Held'
      BY <1>0, <1>3, <1>5, <3>1, <3>2, <3>3, CutHeld
    <3>5. Line'
      BY <1>5, <3>1 DEF Line
    <3> QED
      BY <3>4, <3>5
  <2> QED
    BY <1>1, <2>1, <2>2 DEF Nested
<1>6. (scope[c].lost <=> ~Saved(scope[c].name)) \/ ~srv.open
  BY <1>1 DEF Nested, Saves, Held
<1>7. srv.open <=> Works
  BY DEF Standing, Open
<1> QED
  BY <1>1, <1>4, <1>5, <1>6, <1>7 DEF ThrowScope, Undoes

\* A refused SAVEPOINT: what it undoes is amiss, and so are the savepoints set since.
LEMMA SavepointRefusedNested ==
    ASSUME Standing, Nested, NEW s, SavepointRefused(s)
    PROVE  Nested'
<1> DEFINE name == Name
<1>0. /\ Saved(name) /\ srv' = RollbackTo(name) /\ srv.open /\ amiss' = amiss \cup (srv.work \ srv'.work)
      /\ obj' = obj /\ logs' = logs /\ script' = script
  BY DEF SavepointRefused, Standing, Open
<1>1. /\ At(name) \in Nat /\ At(name) >= 1 /\ At(name) <= Len(srv.saves) /\ srv.saves[At(name)].name = name
      /\ DOMAIN srv.saves = 1..Len(srv.saves) /\ Len(srv.saves) \in Nat
  BY <1>0, SavedAt
<1>2. PICK k \in Nat : k = At(name) /\ k <= Len(srv.saves) /\ k >= 1
  BY <1>1
<1>3. srv'.work = srv.saves[k].work /\ srv'.saves = SubSeq(srv.saves, 1, k) /\ srv'.open = srv.open
  BY <1>0, <1>2 DEF RollbackTo, Standing, Kinds, Servers
<1>4. DOMAIN srv'.saves = 1..k /\ 1..k \subseteq DOMAIN srv.saves /\ \A j \in 1..k : srv'.saves[j] = srv.saves[j]
  BY <1>2, <1>3, PrefixOfSaves
<1>5. Line /\ Held /\ k \in 1..k
  BY <1>0, <1>2 DEF Nested, Saves
<1>6. /\ DOMAIN scope' = DOMAIN scope
      /\ \A e \in DOMAIN scope : /\ scope'[e].name = scope[e].name /\ scope'[e].parent = scope[e].parent
                                 /\ scope'[e].lost <=> ~\E j \in 1..k : srv.saves[j].name = scope[e].name
  <2> DEFINE gone(e) == \A j \in DOMAIN srv'.saves : srv'.saves[j].name # scope[e].name
  <2>1. scope' = [e \in DOMAIN scope |-> [scope[e] EXCEPT !.lost = gone(e)]] /\ \A e : gone(e) \in BOOLEAN
    BY DEF SavepointRefused
  <2>2. \A e : gone(e) <=> ~\E j \in 1..k : srv.saves[j].name = scope[e].name
    BY <1>4
  <2>3. scope \in Scopes(DOMAIN scope)
    BY DEF Standing, Kinds
  <2> HIDE DEF gone
  <2> QED
    BY <2>1, <2>2, <2>3 DEF Scopes
<1>7. \A t : t \in {0} \cup DOMAIN scope => Level(t)' = Level(t)
  BY <1>6 DEF Level
<1>8. DOMAIN logs = {0} \cup DOMAIN scope
  BY DEF Standing, Kinds, Logs
<1>9. Nesting'
  <2>1. ASSUME NEW e \in DOMAIN scope'
        PROVE  /\ scope'[e].name \in 1..obj'.depth /\ scope'[e].parent \in {0} \cup DOMAIN scope'
               /\ Level(scope[e].parent)' = scope'[e].name - 1
    <3>1. scope[e].name \in 1..obj.depth /\ scope[e].parent \in {0} \cup DOMAIN scope
          /\ Level(scope[e].parent) = scope[e].name - 1 /\ e \in DOMAIN scope
      BY <1>6 DEF Nested, Nesting
    <3>2. scope'[e].parent = scope[e].parent /\ scope'[e].name = scope[e].name
      BY <1>6, <3>1
    <3>3. Level(scope[e].parent)' = Level(scope[e].parent)
      BY <1>6, <3>1, <3>2 DEF Level
    <3> QED
      BY <1>0, <1>6, <3>1, <3>2, <3>3
  <2>2. obj'.depth = Cardinality(DOMAIN scope') /\ \A k1 \in 1..obj'.depth : \E e \in DOMAIN scope' : scope'[e].name = k1
    BY <1>0, <1>6 DEF Nested, Nesting
  <2>3. \A e, f \in DOMAIN scope' : scope'[e].name = scope'[f].name => e = f
    BY <1>6 DEF Nested, Nesting
  <2>4. script'.mode # "callers"
    BY <1>0 DEF SavepointRefused, Running
  <2> QED
    BY <2>1, <2>2, <2>3, <2>4 DEF Nesting
<1>10. Line'
  <2>1. \A j \in 1..k : j = k \/ j < k
    BY <1>2
  <2>2. \A j \in 1..k : srv.saves[j].work \subseteq srv'.work
    BY <1>3, <1>4, <1>5, <2>1 DEF Line
  <2> QED
    BY <1>4, <1>5, <2>2, CutLine
<1>11. Held'
  <2>1. ASSUME NEW e \in DOMAIN scope', NEW x \in Work PROVE Below(x, scope[e].name)' <=> Below(x, scope[e].name)
    <3>1. scope'[e].name = scope[e].name
      BY <1>6
    <3> QED
      BY <1>0, <1>7, <1>8, <3>1 DEF Below
  <2> QED
    BY <1>0, <1>4, <1>5, <1>6, <2>1, CutHeld
<1>12. Agrees'
  <2>1. srv'.work \subseteq srv.work
    BY <1>3, <1>4, <1>5 DEF Line
  <2>2. \A x \in Work \ amiss' : x \in srv'.work <=> x \in srv.work
    BY <1>0, <2>1
  <2> QED
    BY <1>0, <1>3, <2>2 DEF Nested, Agrees
<1> QED
  BY <1>9, <1>10, <1>11, <1>12 DEF Nested, Saves

\* Between transactions there is none, and nothing to tell of.
LEMMA IdleHasNone ==
    ASSUME Standing, Nested, unit # "tx", script.mode # "perScript"
    PROVE  srv = NoTx /\ srv.work = {} /\ \A s \in DOMAIN logs : logs[s] = {}
<1>1. srv = NoTx /\ srv.work = {}
  BY NoTxKind DEF Standing, Phases, Open, Works
<1> QED
  BY <1>1, NoTxKind DEF Nested, Agrees

\* A unit other than a transaction() has no scopes.
LEMMA FlatEmptied ==
    ASSUME Nested, Standing', unit' # "tx", \A s \in DOMAIN logs' : logs'[s] = {},
           srv' \in {NoTx, Fresh}
    PROVE  Nested'
<1>1. DOMAIN scope' = {} /\ obj'.depth = 0 /\ script'.mode # "callers"
  BY DEF Standing, Phases, Kinds
<1>2. srv'.work = {}
  BY NoTxKind
<1> QED
  BY <1>1, <1>2, NestedEmptied

\* A unit that is over.
LEMMA OverNested ==
    ASSUME Nested, Standing', Over
    PROVE  Nested'
<1>1. unit' = "idle" /\ script'.mode = "no" /\ logs' = Root
  BY OverKind DEF Over
<1>2. srv' = NoTx
  BY <1>1 DEF Standing, Phases, Open, Works
<1> QED
  BY <1>1, <1>2, FlatEmptied DEF Root

\* Steps on the transaction() unit that leave the scopes alone.
LEMMA TxNested ==
    ASSUME Standing, Standing', Nested, Habits = {}, NEW s \in {0} \cup Slots,
           Statement(s) \/ Finish(s) \/ Restart(s) \/ StartOnCallers(s)
    PROVE  Nested'
<1>0. Running(s) /\ Nesting /\ script.mode = "no" /\ unit = "tx"
  BY DEF Statement, Finish, Restart, StartOnCallers, Running, Nested
<1>1. s \in DOMAIN logs /\ Level(s) = obj.depth
  BY <1>0, TopRuns
<1>2. CASE Statement(s)
  <2>1. /\ Works1(s) /\ srv.open /\ scope' = scope /\ obj' = obj /\ script' = script
    BY <1>2 DEF Statement, Standing, Open
  <2> QED
    BY <1>0, <1>1, <2>1, NestedWorks
<1>3. CASE Finish(s)
  <2>1. srv' = NoTx /\ logs' = Emptied /\ scope' = scope /\ obj'.depth = obj.depth /\ script' = script
    <3>1. obj'.depth = obj.depth
      BY <1>3, ObjKind DEF Finish, Standing
    <3> QED
      BY <1>3, <3>1 DEF Finish, Commit, Rollback, Breaks
  <2> QED
    BY <1>0, <2>1, NoTxKind, NestedEmptied DEF Emptied
<1>4. CASE Restart(s)
  <2>1. s = 0 /\ srv' = Fresh /\ logs' = Emptied /\ scope' = scope /\ obj'.depth = 0 /\ script' = script
    BY <1>4 DEF Restart, Commit, Rollback
  <2>2. obj.depth = 0
    BY <1>1, <2>1 DEF Level
  <2> QED
    BY <1>0, <2>1, <2>2, NoTxKind, NestedEmptied DEF Emptied
<1>5. CASE StartOnCallers(s)
  <2>1. script'.at = s
    BY <1>5, NoScriptKind DEF StartOnCallers, NoScript
  <2>2. UNCHANGED <<unit, obj, scope, logs>> /\ srv' = srv /\ amiss' = amiss
    BY <1>5 DEF StartOnCallers, data
  <2>3. Nesting'
    BY <1>0, <1>1, <2>1, <2>2 DEF Nesting, Level
  <2>4. Saves' /\ Agrees'
    BY <2>2 DEF Nested, Saves, Line, Held, Saved, Agrees, Below, Level
  <2> QED
    BY <2>3, <2>4 DEF Nested
<1> QED
  BY <1>2, <1>3, <1>4, <1>5

\* The steps of transaction().
LEMMA TransactionNested ==
    ASSUME Standing, Standing', Nested, Habits = {}, OfTransaction
    PROVE  Nested'
<1>1. CASE BeginTx
  <2>1. /\ srv' = Fresh /\ logs' = logs /\ scope' = scope /\ obj'.depth = 0 /\ script' = script
        /\ unit = "idle"
    BY <1>1 DEF BeginTx
  <2>2. script.mode = "no" /\ obj.depth = 0 /\ \A s \in DOMAIN logs : logs[s] = {}
    BY <2>1, IdleHasNone DEF Standing, Phases
  <2> QED
    BY <2>1, <2>2, NoTxKind, NestedEmptied
<1>2. CASE EndTx
  BY <1>2, OverNested DEF EndTx
<1>3. ASSUME NEW s \in {0} \cup Slots,
             \/ Statement(s) \/ OpenScope(s) \/ SavepointRefused(s) \/ ReturnScope(s) \/ ThrowScope(s)
             \/ Finish(s) \/ Restart(s) \/ StartOnCallers(s)
      PROVE  Nested'
  BY <1>3, TxNested, OpenScopeNested, SavepointRefusedNested, ReturnScopeNested, ThrowScopeNested
<1> QED
  BY <1>1, <1>2, <1>3 DEF OfTransaction

\* An error in a script.
LEMMA FailsNested ==
    ASSUME Standing, Standing', Nested, NEW s \in Scripts, s.mode = script.mode, s.at = script.at, Fails(s)
    PROVE  Nested'
<1>1. CASE script.cont
  BY <1>1, NestedStays DEF Fails, Same, data
<1>2. CASE ~script.cont /\ script.mode = "callers"
  BY <1>2, NestedStays, NoScriptKind DEF Fails, Throws, Same, data
<1>3. CASE ~script.cont /\ script.mode # "callers"
  BY <1>3, OverNested DEF Fails, Throws
<1> QED
  BY <1>1, <1>2, <1>3

\* The steps of scripts.
LEMMA ScriptNested ==
    ASSUME Standing, Standing', Nested, Habits = {}, OfScript
    PROVE  Nested'
<1>0. Kinds /\ Phases /\ Nesting
  BY DEF Standing, Nested
<1>1. CASE StartScript
  <2>1. unit = "idle" /\ unit' = "script" /\ srv' \in {NoTx, Fresh} /\ logs' = logs
    BY <1>1 DEF StartScript
  <2>2. \A s \in DOMAIN logs : logs[s] = {}
    BY <2>1, IdleHasNone DEF Standing, Phases
  <2> QED
    BY <2>1, <2>2, FlatEmptied
<1>2. CASE StatementFails \/ Rejected
  <2>1. [Next1 EXCEPT !.dirty = TRUE] \in Scripts /\ [Next1 EXCEPT !.dirty = TRUE].mode = script.mode
        /\ [Next1 EXCEPT !.dirty = TRUE].at = script.at
    BY <1>0, Next1Kind
  <2>2. Next1 \in Scripts /\ Next1.mode = script.mode /\ Next1.at = script.at
    BY <1>0, Next1Kind
  <2> QED
    BY <1>2, <2>1, <2>2, FailsNested DEF StatementFails, Rejected
<1>3. CASE OnCallers
  <2>1. script.at \in DOMAIN logs /\ Level(script.at) = obj.depth
    BY <1>0, <1>3, Depth DEF OnCallers, In, Phases, Nesting
  <2>2. script'.at = script.at /\ script.mode = "callers"
    BY <1>0, <1>3, Next1Kind DEF OnCallers, In
  <2>3. srv.open
    BY <1>3 DEF OnCallers, Standing, Open
  <2> QED
    BY <1>3, <2>1, <2>2, <2>3, NestedWorks DEF OnCallers
<1>4. CASE InScript
  <2>1. 0 \in DOMAIN logs /\ Level(0) = obj.depth
    BY <1>0, <1>4, Depth DEF InScript, In, Phases, Level
  <2>2. script'.mode # "callers"
    BY <1>0, <1>4, Next1Kind DEF InScript, In
  <2>3. srv.open
    BY <1>4 DEF InScript, Standing, Open
  <2> QED
    BY <1>4, <2>1, <2>2, <2>3, NestedWorks DEF InScript
<1>5. CASE Checkpoint \/ SetTransaction \/ CheckpointBreaks \/ Reconnect
  <2>1. srv' \in {NoTx, Fresh} /\ logs' = Emptied
    BY <1>5 DEF Checkpoint, SetTransaction, CheckpointBreaks, Reconnect, Commit, Rollback, Breaks
  <2>2. unit' # "tx"
    BY <1>0, <1>5 DEF Checkpoint, SetTransaction, CheckpointBreaks, Reconnect, In, Phases
  <2> QED
    BY <2>1, <2>2, FlatEmptied DEF Emptied
<1>6. CASE SetAutoDdl
  <2>1. script'.mode # "callers"
    BY <1>0, <1>6, Next1Kind DEF SetAutoDdl, In
  <2> QED
    BY <1>6, <2>1, NestedStays DEF SetAutoDdl, data
<1>7. CASE AutoDdl
  <2>1. CASE Over
    BY <2>1, OverNested
  <2>2. CASE srv' = Fresh /\ logs' = Emptied /\ unit' = unit
    <3>1. unit' # "tx"
      BY <1>0, <1>7, <2>2 DEF AutoDdl, In, Phases
    <3> QED
      BY <2>2, <3>1, FlatEmptied DEF Emptied
  <2> QED
    BY <1>7, <2>1, <2>2 DEF AutoDdl
<1>8. ASSUME NEW mode \in {"perStatement", "none"}, InOwn(mode) \/ OwnBreaks(mode)
      PROVE  Nested'
  <2>1. CASE Over
    BY <2>1, OverNested
  <2>2. CASE ~Over
    <3>1. UNCHANGED <<unit, obj, scope, logs, srv, amiss>> /\ script' = Next1 /\ script.mode # "callers"
      BY <1>8, <2>2 DEF InOwn, OwnBreaks, In
    <3> QED
      BY <1>0, <3>1, NestedStays, Next1Kind
  <2> QED
    BY <2>1, <2>2
<1>9. CASE EndScript
  <2>1. CASE script.mode = "callers"
    BY <1>9, <2>1, NoScriptKind, NestedStays DEF EndScript, Same, data
  <2>2. CASE script.mode # "callers"
    BY <1>9, <2>2, OverNested DEF EndScript
  <2> QED
    BY <2>1, <2>2
<1> QED
  BY <1>1, <1>2, <1>3, <1>4, <1>5, <1>6, <1>7, <1>8, <1>9 DEF OfScript

\* Every step keeps the stack and what it says of the work.
LEMMA NestedStep ==
    ASSUME Standing, Nested, Habits = {}, [Next]_vars
    PROVE  Nested'
<1>0. Standing'
  BY StandingStep
<1>1. CASE OfTransaction
  BY <1>0, <1>1, TransactionNested
<1>2. CASE OfScript
  BY <1>0, <1>2, ScriptNested
<1>3. CASE OfMigrator
  <2>1. CASE RecordFails
    BY <1>0, <2>1, OverNested DEF RecordFails
  <2>2. CASE StartFile \/ Record
    <3>1. UNCHANGED <<obj, scope, logs, srv, amiss>> /\ unit' # "tx"
      BY <2>2 DEF StartFile, Record, data
    <3>2. script'.mode # "callers"
      BY <1>0, <3>1 DEF Standing, Phases, Kinds
    <3> QED
      BY <3>1, <3>2, NestedStays
  <2> QED
    BY <1>3, <2>1, <2>2 DEF OfMigrator
<1>4. CASE Break
  <2>1. srv' = NoTx /\ logs' = Emptied /\ UNCHANGED <<obj, scope, script>>
    BY <1>4 DEF Break, Breaks
  <2> QED
    BY <2>1, NoTxKind, NestedEmptied DEF Emptied
<1>5. CASE Reconnects \/ UNCHANGED vars
  <2>1. UNCHANGED <<obj, scope, logs, srv, amiss, script>>
    BY <1>5 DEF Reconnects, vars, prog, data
  <2> QED
    BY <2>1, NestedStays
<1> QED
  BY <1>1, <1>2, <1>3, <1>4, <1>5 DEF Next

\* The stack, in every reachable state.
LEMMA StackKept ==
    ASSUME Habits = {}
    PROVE  Spec => [](Standing /\ Nested)
<1>1. Init => Standing /\ Nested
  BY StandingInit, NestedInit
<1>2. Standing /\ Nested /\ [Next]_vars => (Standing /\ Nested)'
  BY StandingStep, NestedStep
<1> QED
  BY <1>1, <1>2, PTL DEF Spec

\* Scopes of a transaction undo what is theirs (the run's ScopesRight): each has its own
\* savepoint, and the transaction holds what succeeded and nothing of what threw.
THEOREM ScopesHold ==
    ASSUME Habits = {}
    PROVE  Spec => []ScopesRight
<1>1. Standing /\ Nested => ScopesRight
  <2> SUFFICES ASSUME Standing, Nested PROVE ScopesRight
    OBVIOUS
  <2>0. /\ IsFiniteSet(DOMAIN scope) /\ obj.depth \in Nat /\ obj.depth \in 0..Cardinality(Slots)
        /\ DOMAIN logs = {0} \cup DOMAIN scope
    BY Depth DEF Nested
  <2>1. TypeOK
    BY <2>0 DEF TypeOK, Standing, Kinds, Scripts, Work
  <2>2. WorkAsTold
    BY ToldIs DEF WorkAsTold, Nested
  <2>3. Names = 1..obj.depth
    <3>1. \A name \in Names : name \in 1..obj.depth
      BY DEF Names, Nested, Nesting
    <3>2. \A k \in 1..obj.depth : k \in Names
      BY DEF Names, Nested, Nesting
    <3> QED
      BY <3>1, <3>2
  <2>4. Cardinality(Names) = Cardinality(DOMAIN scope)
    <3>1. Cardinality(1..obj.depth) = obj.depth
      BY <2>0, FS_Interval
    <3> QED
      BY <2>3, <3>1 DEF Nested, Nesting
  <2>5. Works => \A c \in DOMAIN scope : ~scope[c].lost => Saved(scope[c].name)
    BY DEF Standing, Open, Nested, Saves, Held
  <2> QED
    BY <2>1, <2>2, <2>4, <2>5 DEF ScopesRight, ScopesSaved
<1> QED
  BY <1>1, StackKept, PTL

\* What is committed is what was told, at every step.
LEMMA KeptStep ==
    ASSUME Standing, Nested, KeptAsTold, [Next]_vars
    PROVE  KeptAsTold'
<1>0. Kinds /\ srv.work \ amiss = Told \ amiss
  BY ToldIs DEF Standing, Nested
<1>1. \A next : Commit(next) \/ Rollback(next) => KeptAsTold'
  BY <1>0 DEF Commit, Rollback, KeptAsTold
<1>2. \A landed : Breaks(landed) => KeptAsTold'
  BY <1>0 DEF Breaks, KeptAsTold
<1>3. Same => KeptAsTold'
  BY DEF Same, data, KeptAsTold
<1>4. \A mode : Ends(mode) => KeptAsTold'
  <2>1. SUFFICES ASSUME NEW mode, Ends(mode) PROVE KeptAsTold'
    OBVIOUS
  <2>2. CASE Commit(NoTx)
    BY <1>1, <2>2
  <2>3. CASE UNCHANGED <<durable, owed, doubt, amiss>>
    BY <2>3 DEF KeptAsTold
  <2> QED
    BY <1>2, <1>3, <2>1, <2>2, <2>3 DEF Ends
<1>5. UNCHANGED <<durable, owed, doubt>> /\ amiss \subseteq amiss' => KeptAsTold'
  BY DEF KeptAsTold
<1>6. CASE OfTransaction
  <2>1. ASSUME NEW s, SavepointRefused(s) \/ ReturnScope(s) \/ ThrowScope(s) PROVE KeptAsTold'
    <3>1. UNCHANGED <<durable, owed, doubt>> /\ amiss \subseteq amiss'
      BY <2>1 DEF SavepointRefused, ReturnScope, ThrowScope, Closes
    <3> QED
      BY <1>5, <3>1
  <2>2. ASSUME NEW s, Statement(s) \/ OpenScope(s) \/ Finish(s) \/ Restart(s) \/ StartOnCallers(s) PROVE KeptAsTold'
    BY <1>1, <1>2, <1>5, <2>2 DEF Statement, Works1, OpenScope, Finish, Restart, StartOnCallers, data
  <2>3. CASE BeginTx \/ EndTx
    BY <1>1, <1>3, <1>4, <1>5, <2>3 DEF BeginTx, EndTx
  <2> QED
    BY <1>6, <2>1, <2>2, <2>3 DEF OfTransaction
<1>7. CASE OfScript
  <2>1. CASE StatementFails \/ Rejected
    BY <1>1, <1>3, <2>1 DEF StatementFails, Rejected, Fails, Throws
  <2>2. ASSUME NEW mode \in {"perStatement", "none"}, InOwn(mode) \/ OwnBreaks(mode)
        PROVE  KeptAsTold'
    BY <2>2 DEF InOwn, OwnBreaks, KeptAsTold
  <2>3. CASE CheckpointBreaks
    BY <1>0, <1>2, <2>3 DEF CheckpointBreaks, KeptAsTold
  <2>4. CASE AutoDdl \/ Reconnect
    BY <1>0, <2>4 DEF AutoDdl, Reconnect, KeptAsTold
  <2>5. CASE EndScript
    BY <1>3, <1>4, <2>5 DEF EndScript
  <2>6. CASE StartScript \/ OnCallers \/ InScript \/ SetAutoDdl
    BY <1>5, <2>6 DEF StartScript, OnCallers, InScript, Works1, SetAutoDdl, data
  <2>7. CASE Checkpoint \/ SetTransaction
    BY <1>1, <2>7 DEF Checkpoint, SetTransaction
  <2> QED
    BY <1>7, <2>1, <2>2, <2>3, <2>4, <2>5, <2>6, <2>7 DEF OfScript
<1>8. CASE OfMigrator
  BY <1>3, <1>5, <1>8 DEF OfMigrator, StartFile, Record, RecordFails, data
<1>9. CASE Break \/ Reconnects \/ UNCHANGED vars
  BY <1>2, <1>5, <1>9 DEF Break, Reconnects, vars, data
<1> QED
  BY <1>6, <1>7, <1>8, <1>9 DEF Next

\* What the database keeps is what the program was told it keeps (the run's KeptAsTold),
\* but for commits whose answer was lost.
THEOREM Kept ==
    ASSUME Habits = {}
    PROVE  Spec => []KeptAsTold
<1>1. Init => KeptAsTold
  BY DEF Init, KeptAsTold
<1>2. Standing /\ Nested /\ KeptAsTold /\ [Next]_vars => KeptAsTold'
  BY KeptStep
<1> QED
  BY <1>1, <1>2, StackKept, PTL DEF Spec
=============================================================================
