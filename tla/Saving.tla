------------------------------- MODULE Saving -------------------------------
(***************************************************************************)
(* Characters and houses in the database (database.cpp, iologindata.cpp,   *)
(* iomapserialize.cpp).                                                    *)
(*                                                                         *)
(* The game thread saves a record with several statements in a             *)
(* transaction: the row is updated, the other tables are emptied and       *)
(* filled.  The database thread sends its queries over the same            *)
(* connection; databaseLock, held from BEGIN to COMMIT, keeps the two      *)
(* apart, except that BEGIN is sent before the lock is taken.  Statements  *)
(* fail, the server crashes between any two of them, and the connection    *)
(* gets lost: MYSQL_OPT_RECONNECT and the loop in executeQuery then send   *)
(* the next statement on a new connection, where no transaction is open.   *)
(*                                                                         *)
(* What MySQL does (transactions, autocommit, rollback of a connection     *)
(* that ended) is external.  A record is in a number of versions; a table  *)
(* is the sequence of the versions whose rows are in it, as none of the    *)
(* tables of items has a unique key.  Left out: a BEGIN that fails for     *)
(* another reason than the connection, and characters that are not to be   *)
(* saved (the column `save`).                                              *)
(***************************************************************************)
EXTENDS Integers, Sequences, FiniteSets

CONSTANTS
  Characters, Houses,   \* the records; a house record is the lists of all houses
  Queries,              \* the queries given to the database thread
  MaxVersion,           \* bound: how often a record changes
  MaxLost,              \* bound: how often the connection is lost
  Nothing

Records == Characters \union Houses
Tables == {"row", "rest"}
Databases == [rows : [Records -> [Tables -> Seq(Int)]], log : SUBSET Queries]

ASSUME SavingAssumption ==
  /\ MaxVersion \in Nat /\ MaxLost \in Nat
  /\ Characters \intersect Houses = {}
  /\ Nothing \notin Records \union Int /\ Nothing # "game" /\ Nothing \notin Databases

VARIABLES
  mem,      \* the record in memory: its version, or Nothing
  store,    \* the database: tables of each record, and the queries executed
  work,     \* the connection: what the open transaction would commit, or Nothing
  lock,     \* who holds databaseLock across statements: "game" or Nothing
  save,     \* the game thread: the record it saves, at which statement
  asked,    \* DatabaseTasks: queries not executed yet
  told,     \* history: the version of the last save that returned true
  done,     \* history: queries the database thread has executed, and those
            \* that came between BEGIN and the lock
  torn      \* history: records saved across a lost connection, or without a
            \* statement that failed

savingVars == <<mem, store, work, lock, save, asked, told, done, torn>>

\* The statements of IOLoginData::savePlayer and IOMapSerialize::saveHouseInfo
\* (checked: a failure ends the save).
Do(verb, table, checked) == [verb |-> verb, table |-> table, checked |-> checked]
CharacterScript ==
  <<Do("update", "row", TRUE), Do("delete", "rest", TRUE), Do("insert", "rest", TRUE)>>
HousesScript ==
  <<Do("delete", "rest", TRUE), Do("update", "row", FALSE), Do("insert", "rest", TRUE)>>
Script(r) == IF r \in Characters THEN CharacterScript ELSE HousesScript

NoSave == [of |-> Nothing, at |-> 0, tries |-> 0, leaves |-> FALSE]
AtBegin == -1
AtLock == 0

SavingInit ==
  /\ mem = [r \in Records |-> Nothing]
  /\ store = [rows |-> [r \in Records |-> [t \in Tables |-> <<0>>]], log |-> {}]
  /\ work = Nothing /\ lock = Nothing /\ save = NoSave
  /\ asked = {} /\ told = [r \in Records |-> 0]
  /\ done = [all |-> {}, slipped |-> {}]
  /\ torn = [lost |-> {}, skipped |-> {}, times |-> 0]

-----------------------------------------------------------------------------
(* The connection *)

Applied(rows, v, do) ==
  [rows EXCEPT ![do.table] =
    IF do.verb = "update" THEN <<v>> ELSE IF do.verb = "delete" THEN << >> ELSE Append(@, v)]

\* A statement about record r, in the open transaction or at once.
Execute(r, do) ==
  IF work # Nothing
  THEN work' = [work EXCEPT !.rows[r] = Applied(@, mem[r], do)] /\ UNCHANGED store
  ELSE store' = [store EXCEPT !.rows[r] = Applied(@, mem[r], do)] /\ UNCHANGED work

\* (Mutant: the statements are executed one by one, without a transaction.)
Begun_Autocommit == UNCHANGED work

\* BEGIN.
Begun == work' = store

-----------------------------------------------------------------------------
(* The game thread *)

LoadPlayer(r) ==
  /\ save = NoSave /\ mem[r] = Nothing
  /\ mem' = [mem EXCEPT ![r] = store.rows[r]["row"][1]]
  /\ UNCHANGED <<store, work, lock, save, asked, told, done, torn>>

Play(r) ==
  /\ save = NoSave /\ mem[r] # Nothing /\ mem[r] < MaxVersion
  /\ mem' = [mem EXCEPT ![r] = @ + 1]
  /\ UNCHANGED <<store, work, lock, save, asked, told, done, torn>>

\* savePlayer by a trade, a market purchase or Game::saveGameState, once; with
\* three tries by Map::save and by Player::onRemoveCreature, who then leaves.
StartSave(r, leaves) ==
  /\ save = NoSave /\ mem[r] # Nothing /\ (leaves => r \in Characters)
  /\ save' = [of |-> r, at |-> AtBegin, leaves |-> leaves,
              tries |-> IF leaves \/ r \in Houses THEN 3 ELSE 1]
  /\ UNCHANGED <<mem, store, work, lock, asked, told, done, torn>>

\* Database::beginTransaction, up to the lock.
Begin ==
  /\ save.of # Nothing /\ save.at = AtBegin
  /\ Begun
  /\ save' = [save EXCEPT !.at = AtLock]
  /\ UNCHANGED <<mem, store, lock, asked, told, done, torn>>

\* (Mutant: the lock is only held within a statement.)
Locked_Briefly == UNCHANGED lock

Locked == lock' = "game"

TakeLock ==
  /\ save.of # Nothing /\ save.at = AtLock
  /\ Locked
  /\ save' = [save EXCEPT !.at = 1]
  /\ UNCHANGED <<mem, store, work, asked, told, done, torn>>

\* The end of a save, by savePlayer's callers.
Ended(ok) ==
  IF ~ok /\ save.tries > 1
  THEN save' = [save EXCEPT !.at = AtBegin, !.tries = @ - 1] /\ UNCHANGED mem
  ELSE /\ save' = NoSave
       /\ mem' = [mem EXCEPT ![save.of] = IF save.leaves THEN Nothing ELSE @]

Statements == Len(Script(save.of))
AtStatement == save.of # Nothing /\ save.at \in 1..Statements

Statement ==
  /\ AtStatement
  /\ Execute(save.of, Script(save.of)[save.at])
  /\ save' = [save EXCEPT !.at = @ + 1]
  /\ UNCHANGED <<mem, lock, asked, told, done, torn>>

\* A statement fails: the transaction is rolled back when it goes out of scope
\* (~DBTransaction), except that nobody looks at some results.
StatementFails ==
  /\ AtStatement
  /\ IF Script(save.of)[save.at].checked
     THEN work' = Nothing /\ lock' = Nothing /\ Ended(FALSE) /\ UNCHANGED torn
     ELSE /\ save' = [save EXCEPT !.at = @ + 1]
          /\ torn' = [torn EXCEPT !.skipped = @ \union {save.of}]
          /\ UNCHANGED <<mem, work, lock>>
  /\ UNCHANGED <<store, asked, told, done>>

\* Database::commit, which succeeds on a connection without a transaction too.
Commit ==
  /\ save.of # Nothing /\ save.at = Statements + 1
  /\ store' = IF work # Nothing THEN work ELSE store
  /\ told' = [told EXCEPT ![save.of] = mem[save.of]]
  /\ work' = Nothing /\ lock' = Nothing /\ Ended(TRUE)
  /\ UNCHANGED <<asked, done, torn>>

CommitFails ==
  /\ save.of # Nothing /\ save.at = Statements + 1
  /\ work' = Nothing /\ lock' = Nothing /\ Ended(FALSE)
  /\ UNCHANGED <<store, asked, told, done, torn>>

-----------------------------------------------------------------------------
(* The database thread, and what can go wrong *)

Ask(q) ==
  /\ save = NoSave /\ q \notin asked \union done.all
  /\ asked' = asked \union {q}
  /\ UNCHANGED <<mem, store, work, lock, save, told, done, torn>>

\* DatabaseTasks::runTask: executeQuery takes the lock for itself.
RunQuery(q) ==
  /\ q \in asked /\ lock = Nothing
  /\ asked' = asked \ {q}
  /\ IF work # Nothing
     THEN work' = [work EXCEPT !.log = @ \union {q}] /\ UNCHANGED store
     ELSE store' = [store EXCEPT !.log = @ \union {q}] /\ UNCHANGED work
  /\ done' = [all |-> done.all \union {q},
              slipped |-> IF work # Nothing /\ save.at = AtLock
                          THEN done.slipped \union {q} ELSE done.slipped]
  /\ UNCHANGED <<mem, lock, save, told, torn>>

\* The database ends the connection and rolls back its transaction.
LoseConnection ==
  /\ torn.times < MaxLost
  /\ work' = Nothing
  /\ torn' = [torn EXCEPT !.times = @ + 1,
                          !.lost = IF work # Nothing THEN @ \union {save.of} ELSE @]
  /\ UNCHANGED <<mem, store, lock, save, asked, told, done>>

\* The server crashes and is started again.
Crash ==
  /\ mem' = [r \in Records |-> Nothing]
  /\ work' = Nothing /\ lock' = Nothing /\ save' = NoSave /\ asked' = {}
  /\ UNCHANGED <<store, told, done, torn>>

SavingNext ==
  \/ \E r \in Records : LoadPlayer(r) \/ Play(r) \/ \E leaves \in BOOLEAN : StartSave(r, leaves)
  \/ Begin \/ TakeLock \/ Statement \/ StatementFails \/ Commit \/ CommitFails
  \/ \E q \in Queries : Ask(q) \/ RunQuery(q)
  \/ LoseConnection \/ Crash

SavingSpec == SavingInit /\ [][SavingNext]_savingVars

-----------------------------------------------------------------------------
(* Properties *)

IsWhole(rows, v) == \A t \in Tables : rows[t] = <<v>>

\* Whatever fails, and whenever the server crashes, the database holds of each
\* record one state saved as a whole: that of the last save that returned true
\* (so a crash takes the time since then and nothing else).  Unless a failure
\* was ignored or the connection was lost in the middle.
SavedWhole ==
  \A r \in Records \ (torn.lost \union torn.skipped) : IsWhole(store.rows[r], told[r])

\* A query the database thread has executed stays executed, whatever becomes
\* of the saves of the other thread; only one that came between BEGIN and the
\* lock may be undone with the transaction.  And when no record is saved, no
\* transaction is open and the lock is free, so the next query gets through.
QueriesKept ==
  /\ done.all \ done.slipped \subseteq store.log
  /\ save = NoSave => work = Nothing /\ lock = Nothing
=============================================================================
