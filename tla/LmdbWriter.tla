------------------------------ MODULE LmdbWriter ------------------------------
(***************************************************************************)
(* handlerlmdb: put_db() stores each message of the bus in an LMDB file in a  *)
(* transaction of its own and, when the map is full, opens the environment    *)
(* with twice the size, closes it and opens it anew (processMapFull()).        *)
(*                                                                          *)
(* LMDB itself is external: a file holds one message per key; `filesize' is    *)
(* the capacity written in it, `mapsize' that of the open environment.  LMDB   *)
(* writes a larger size with the next commit that changes something, so the    *)
(* doubled size is lost again when processMapFull() closes the environment.    *)
(* Handles are valid, freed or null; to pass a freed or null one is undefined: *)
(* the program may crash or go on.                                            *)
(***************************************************************************)
EXTENDS Integers, FiniteSets

CONSTANTS
    Keys,         \* what getKey() yields
    NoKey,        \* ... for a message without identifier and index
    Ids,          \* contents of messages
    None,         \* nothing stored
    InitialSize,  \* capacity of the map of a new file, in messages
    Tightness,    \* may mdb_txn_commit() return MDB_MAP_FULL when the last room is used?
    MaxFaults     \* bound: failures of LMDB other than MDB_MAP_FULL, and kills

ASSUME KeysAssumption == NoKey \notin Keys /\ IsFiniteSet(Keys)
ASSUME IdsAssumption == None \notin Ids
ASSUME SizeAssumption == InitialSize \in Nat \ {0}
ASSUME TightnessAssumption == Tightness \subseteq BOOLEAN
ASSUME LmdbBounds == MaxFaults \in Nat

VARIABLES
    tight,     \* a member of Tightness, chosen once
    pc,
    env,       \* env.env: "null", "open", "closed"
    txn,       \* env.txn: "none", "live", "freed"
    disk,      \* key -> the message stored, or None
    mapsize,   \* capacity of the open environment
    filesize,  \* capacity that is written in the file
    key, id,   \* the message at hand
    phase,     \* which call reported MDB_MAP_FULL: "put" or "commit"
    r,         \* the local variable r: 0 or 1 (an error)
    result,    \* what put_db() returned last: 0 or 1
    acked,     \* key -> the last message for which put_db() returned 0
    faults

vars == <<tight, pc, env, txn, disk, mapsize, filesize, key, id, phase, r, result, acked, faults>>
store == <<disk, filesize>>
message == <<key, id>>

Used == Cardinality({k \in Keys : disk[k] # None})

\* How many messages the file holds once this one is in it.
Need == IF disk[key] = None THEN Used + 1 ELSE Used

\* mdb_put() finds room; to replace a message in a full map may fail as well.
PutFits == Need <= mapsize
PutFull == Used >= mapsize

Init ==
    /\ tight \in Tightness
    /\ pc = "start"
    /\ env = "null" /\ txn = "none"
    /\ disk = [k \in Keys |-> None]
    /\ mapsize = InitialSize /\ filesize = InitialSize
    /\ key = NoKey /\ id \in Ids
    /\ phase = "put" /\ r = 0 /\ result = 0
    /\ acked = [k \in Keys |-> None]
    /\ faults = 0

Fault == faults < MaxFaults /\ faults' = faults + 1

\* put_db() returns v; a message for which it returns 0 counts as stored.
Return(v) ==
    /\ result' = v
    /\ acked' = IF v = 0 /\ key \in Keys THEN [acked EXCEPT ![key] = id] ELSE acked
    /\ pc' = "idle"

-----------------------------------------------------------------------------
(* run()                                                                    *)

open_lmdb ==
    /\ pc = "start"
    /\ env' = "open" /\ txn' = "freed"
    /\ mapsize' = filesize
    /\ pc' = "idle"
    /\ UNCHANGED <<store, message, phase, r, result, acked, faults>>

\* run() returns ERRCODE_LMDB_OPEN; the runner tries again.
OpenFails ==
    /\ pc = "start"
    /\ Fault
    /\ UNCHANGED <<pc, env, txn, store, mapsize, message, phase, r, result, acked>>

\* A message that can be decoded; put_db() returns at once if it has no key.
PutDb(k, i) ==
    /\ pc = "idle"
    /\ key' = k /\ id' = i
    /\ \/ k = NoKey /\ result' = 0 /\ UNCHANGED pc
       \/ k # NoKey /\ pc' = "begin" /\ UNCHANGED result
    /\ UNCHANGED <<env, txn, store, mapsize, phase, r, acked, faults>>

\* After SIGINT: close_lmdb().
Stop ==
    /\ pc = "idle"
    /\ env = "open" /\ env' = "closed" /\ pc' = "stopped"
    /\ UNCHANGED <<txn, store, mapsize, message, phase, r, result, acked, faults>>

\* The process is killed, or close_lmdb() meets a null environment.
Kill ==
    /\ pc \notin {"start", "stopped"}
    /\ \/ Fault
       \/ pc \in {"crashed", "hung"} /\ UNCHANGED faults
       \/ pc = "idle" /\ env # "open" /\ UNCHANGED faults
    /\ pc' = "stopped" /\ env' = "null" /\ txn' = "none"
    /\ UNCHANGED <<store, mapsize, message, phase, r, result, acked>>

\* The loader starts the program again.
Restart ==
    /\ pc = "stopped"
    /\ pc' = "start"
    /\ UNCHANGED <<env, txn, store, mapsize, message, phase, r, result, acked, faults>>

-----------------------------------------------------------------------------
(* put_db()                                                                 *)

\* mdb_txn_begin() waits for the write transaction that is open: its own.
Begin ==
    /\ pc = "begin"
    /\ \/ env # "open" /\ pc' = "crashed" /\ UNCHANGED txn
       \/ env = "open" /\ txn = "live" /\ pc' = "hung" /\ UNCHANGED txn
       \/ env = "open" /\ txn # "live" /\ txn' = "live" /\ pc' = "put"
    /\ UNCHANGED <<env, store, mapsize, message, phase, r, result, acked, faults>>

BeginFails ==
    /\ pc = "begin" /\ env = "open" /\ txn # "live"
    /\ Fault
    /\ Return(1)
    /\ UNCHANGED <<env, txn, store, mapsize, message, phase, r>>

Put ==
    /\ pc = "put"
    /\ \/ PutFits /\ pc' = "commit"
       \/ PutFull /\ pc' = "full"
    /\ phase' = "put"
    /\ UNCHANGED <<env, txn, store, mapsize, message, r, result, acked, faults>>

PutFails ==
    /\ pc = "put"
    /\ Fault
    /\ phase' = "put"
    /\ r' = 1
    /\ pc' = "full_returned"
    /\ UNCHANGED <<env, txn, store, mapsize, message, result, acked>>

\* Wrong on purpose: the second mdb_put() fails and nothing is aborted.
AfterFull_Leaves ==
    /\ pc = "full_returned" /\ phase = "put" /\ r = 0 /\ txn = "live"
    /\ \/ PutFits /\ pc' = "commit" /\ UNCHANGED <<result, acked>>
       \/ PutFull /\ Return(1)
    /\ UNCHANGED <<env, txn, store, mapsize, message, phase, r, faults>>

\* processMapFull() returned 0: mdb_put() once more; if that fails, abort.
AfterFull ==
    /\ pc = "full_returned" /\ phase = "put" /\ r = 0 /\ txn = "live"
    /\ \/ PutFits /\ pc' = "commit" /\ UNCHANGED <<txn, result, acked>>
       \/ PutFull /\ txn' = "freed" /\ Return(1)
    /\ UNCHANGED <<env, store, mapsize, message, phase, r, faults>>

\* It returned 0 without a transaction: mdb_put() gets a freed one.
AfterFullNoTxn ==
    /\ pc = "full_returned" /\ phase = "put" /\ r = 0 /\ txn # "live"
    /\ \/ pc' = "crashed" /\ UNCHANGED <<result, acked>>
       \/ Return(1)
    /\ UNCHANGED <<env, txn, store, mapsize, message, phase, r, faults>>

\* Wrong on purpose: the transaction of processMapFull() stays open after the
\* message has been refused.
AbortPut_Leaves ==
    /\ pc = "full_returned" /\ phase = "put" /\ r # 0
    /\ Return(1)
    /\ UNCHANGED <<env, txn, store, mapsize, message, phase, r, faults>>

\* mdb_put() or processMapFull() failed: the transaction is aborted, also if
\* processMapFull() has done so before.
AbortPut ==
    /\ pc = "full_returned" /\ phase = "put" /\ r # 0
    /\ txn' = "freed"
    /\ \/ txn # "live" /\ pc' = "crashed" /\ UNCHANGED <<result, acked>>
       \/ Return(1)
    /\ UNCHANGED <<env, store, mapsize, message, phase, r, faults>>

\* Wrong on purpose: a failed commit is taken for a good one.
CommitFails_Ignored ==
    /\ pc = "commit"
    /\ Fault
    /\ txn' = "freed"
    /\ Return(0)
    /\ UNCHANGED <<env, store, mapsize, message, phase, r>>

Commit ==
    /\ pc = "commit"
    /\ disk' = [disk EXCEPT ![key] = id]
    /\ filesize' = mapsize
    /\ txn' = "freed"
    /\ Return(0)
    /\ UNCHANGED <<env, mapsize, message, phase, r, faults>>

CommitFull ==
    /\ pc = "commit"
    /\ tight /\ Need = mapsize
    /\ txn' = "freed"
    /\ phase' = "commit"
    /\ pc' = "full"
    /\ UNCHANGED <<env, store, mapsize, message, r, result, acked, faults>>

CommitFails ==
    /\ pc = "commit"
    /\ Fault
    /\ txn' = "freed"
    /\ Return(1)
    /\ UNCHANGED <<env, store, mapsize, message, phase, r>>

\* processMapFull() was called for the commit: what it returned is returned.
AfterCommitFull ==
    /\ pc = "full_returned" /\ phase = "commit"
    /\ Return(r)
    /\ UNCHANGED <<env, txn, store, mapsize, message, phase, r, faults>>

-----------------------------------------------------------------------------
(* processMapFull()                                                         *)

FullAbort ==
    /\ pc = "full"
    /\ txn' = "freed"
    /\ \/ pc' = "info"
       \/ txn # "live" /\ pc' = "crashed"
    /\ UNCHANGED <<env, store, mapsize, message, phase, r, result, acked, faults>>

\* mdb_env_info() fails.
InfoFails ==
    /\ pc = "info"
    /\ Fault
    /\ r' = 1
    /\ pc' = "full_returned"
    /\ UNCHANGED <<env, txn, store, mapsize, message, phase, result, acked>>

CloseOld ==
    /\ pc = "info"
    /\ env' = "closed"
    /\ pc' = "create"
    /\ UNCHANGED <<txn, store, mapsize, message, phase, r, result, acked, faults>>

CreateFails ==
    /\ pc = "create"
    /\ Fault
    /\ env' = "null" /\ r' = 1
    /\ pc' = "full_returned"
    /\ UNCHANGED <<txn, store, mapsize, message, phase, result, acked>>

\* An environment with twice the size is opened and closed again; nothing is
\* committed, so the file keeps the size it has.
Grow ==
    /\ pc = "create"
    /\ mapsize' = 2 * mapsize
    /\ r' = 0
    /\ pc' = "reopen"
    /\ UNCHANGED <<env, txn, store, message, phase, result, acked, faults>>

\* mdb_env_set_mapsize() or this mdb_env_open() fails.
GrowFails ==
    /\ pc = "create"
    /\ Fault
    /\ r' \in {0, 1}
    /\ pc' = "reopen"
    /\ UNCHANGED <<env, txn, store, mapsize, message, phase, result, acked>>

Reopen ==
    /\ pc = "reopen"
    /\ env' = "open" /\ mapsize' = filesize
    /\ pc' = "begin_again"
    /\ UNCHANGED <<txn, store, message, phase, r, result, acked, faults>>

\* open_lmdb() fails; r is still that of the mdb_env_open() before.  If its last
\* call failed the environment is not set to NULL.
ReopenFails ==
    /\ pc = "reopen"
    /\ Fault
    /\ \/ env' = "null" /\ UNCHANGED mapsize
       \/ env' = "open" /\ mapsize' = filesize
    /\ pc' = "full_returned"
    /\ UNCHANGED <<txn, store, message, phase, r, result, acked>>

BeginAgain ==
    /\ pc = "begin_again"
    /\ txn' = "live" /\ r' = 0
    /\ pc' = "full_returned"
    /\ UNCHANGED <<env, store, mapsize, message, phase, result, acked, faults>>

BeginAgainFails ==
    /\ pc = "begin_again"
    /\ Fault
    /\ r' = 1
    /\ pc' = "full_returned"
    /\ UNCHANGED <<env, txn, store, mapsize, message, phase, result, acked>>

-----------------------------------------------------------------------------

PutDbStep == Begin \/ BeginFails \/ Put \/ PutFails \/ AfterFull \/ AfterFullNoTxn \/ AbortPut
                \/ Commit \/ CommitFull \/ CommitFails \/ AfterCommitFull

MapFullStep == FullAbort \/ InfoFails \/ CloseOld \/ CreateFails \/ Grow \/ GrowFails \/ Reopen
                \/ ReopenFails \/ BeginAgain \/ BeginAgainFails

Next ==
    /\ \/ open_lmdb \/ OpenFails \/ Stop \/ Kill \/ Restart
       \/ \E k \in Keys \cup {NoKey}, i \in Ids : PutDb(k, i)
       \/ PutDbStep \/ MapFullStep
    /\ UNCHANGED tight

Spec == Init /\ [][Next]_vars

\* A call of put_db() is always carried on.
FairSpec == Spec /\ WF_vars((PutDbStep \/ MapFullStep) /\ UNCHANGED tight)

-----------------------------------------------------------------------------

Stored == \A k \in Keys : acked[k] # None => disk[k] = acked[k]

(***************************************************************************)
(* The file holds, under each key, the last message for which put_db()        *)
(* returned 0, across full maps, failures, kills and restarts, if no commit   *)
(* reports a full map.  (lmdbwriter.cpp 173-233)                              *)
(***************************************************************************)
StoredIfSuccess == ~tight => Stored

(***************************************************************************)
(* The comment of put_db(): "@brief Store input packet to the LMDB ... @return *)
(* 0 - success", whatever LMDB reports.                                      *)
(***************************************************************************)
SuccessMeansStored == Stored

(***************************************************************************)
(* While LMDB itself does not fail, a full map harms no message but those      *)
(* that find it full: put_db() refuses a message only when every room is taken *)
(* (the map never grows), the file holds exactly the messages for which it has *)
(* returned 0, the messages of before and the ones that replace them included, *)
(* and through any number of closed and opened environments the program        *)
(* neither crashes nor waits for itself.  (lmdbwriter.cpp 116-162, 196-216)    *)
(***************************************************************************)
FullMapOnlyRefuses ==
    faults = 0 /\ ~tight =>
        /\ pc \notin {"crashed", "hung"}
        /\ disk = acked
        /\ result = 1 => Used = InitialSize

(***************************************************************************)
(* put_db() comes to an end or the program crashes, whatever fails in between, *)
(* but in one case: when a commit has reported a full map, the next call waits *)
(* for ever for the transaction that processMapFull() has begun and nobody has *)
(* ended.                                                                   *)
(***************************************************************************)
PutDbEnds ==
    pc = "begin" ~> \/ pc \in {"idle", "crashed", "stopped"}
                    \/ pc = "hung" /\ phase = "commit"
=============================================================================
