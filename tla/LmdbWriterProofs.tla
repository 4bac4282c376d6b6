--------------------------- MODULE LmdbWriterProofs ---------------------------
(***************************************************************************)
(* Proof that put_db() stores what it reports as stored, for every set of     *)
(* keys, any size of the map and any number of failures and kills, provided    *)
(* that no commit reports a full map; and that without failures of LMDB a full *)
(* map only makes it refuse messages.                                        *)
(***************************************************************************)
EXTENDS LmdbWriter, FiniteSetTheorems, TLAPS

\* The part of the type invariant that the argument needs; the sizes of the
\* map play no role.
Typed ==
    /\ disk \in [Keys -> Ids \cup {None}]
    /\ acked \in [Keys -> Ids \cup {None}]
    /\ id \in Ids
    /\ pc \in {"begin", "put", "commit", "full", "info", "create", "reopen", "begin_again",
               "full_returned"} => key \in Keys

\* Only mdb_put() reports a full map.
PutPhase == pc \in {"full", "info", "create", "reopen", "begin_again", "full_returned"} => phase = "put"

Sound == Typed /\ PutPhase /\ Stored

\* All this is claimed only while commits do not report a full map.
IInv == ~tight => Sound

USE KeysAssumption, IdsAssumption

LEMMA InitIInv == Init => IInv
  BY DEF Init, IInv, Sound, Typed, PutPhase, Stored

\* put_db() may return 0 where the message is in the file.
LEMMA ReturnStored ==
    ASSUME Sound, key \in Keys, disk' = [disk EXCEPT ![key] = id], Return(0)
    PROVE  Stored' /\ acked' \in [Keys -> Ids \cup {None}] /\ disk' \in [Keys -> Ids \cup {None}]
  <1>1. acked' = [acked EXCEPT ![key] = id]
    BY DEF Return
  <1> QED BY <1>1 DEF Sound, Typed, Stored

\* An error changes neither the file nor what counts as stored.
LEMMA ReturnError ==
    ASSUME Return(1)
    PROVE  acked' = acked /\ pc' = "idle"
  BY DEF Return

LEMMA StepIInv == IInv /\ [Next]_vars => IInv'
  <1> SUFFICES ASSUME ~tight, Sound, [Next]_vars PROVE Sound'
    BY DEF IInv, Next, vars
  <1>1. ASSUME UNCHANGED <<disk, acked>>, Typed', PutPhase' PROVE Sound'
    BY <1>1 DEF Sound, Stored
  <1> USE DEF store, message
  <1>2. CASE open_lmdb \/ OpenFails \/ Stop \/ Kill \/ Restart
    <2>1. UNCHANGED <<disk, acked, id>> /\ (pc' \in {"idle", "stopped", "start"} \/ (pc' = pc /\ UNCHANGED <<key, phase>>))
      BY <1>2 DEF open_lmdb, OpenFails, Stop, Kill, Restart
    <2>2. Typed' /\ PutPhase'
      BY <2>1 DEF Sound, Typed, PutPhase
    <2> QED BY <1>1, <2>1, <2>2
  <1>3. ASSUME NEW k \in Keys \cup {NoKey}, NEW i \in Ids, PutDb(k, i) PROVE Sound'
    <2>1. Typed' /\ PutPhase' /\ UNCHANGED <<disk, acked>>
      BY <1>3 DEF PutDb, Sound, Typed, PutPhase
    <2> QED BY <1>1, <2>1
  <1>4. CASE Begin \/ Put \/ PutFails
    <2>1. UNCHANGED <<disk, acked, id, key>> /\ pc \in {"begin", "put"}
          /\ (pc' \in {"full", "full_returned"} => phase' = "put")
          /\ pc' \in {"crashed", "hung", "put", "commit", "full", "full_returned"}
      BY <1>4 DEF Begin, Put, PutFails
    <2>2. Typed' /\ PutPhase'
      BY <2>1 DEF Sound, Typed, PutPhase
    <2> QED BY <1>1, <2>1, <2>2
  <1>5. CASE BeginFails \/ CommitFails
    <2>1. UNCHANGED <<disk, acked, id, key>> /\ pc' = "idle"
      BY <1>5, ReturnError DEF BeginFails, CommitFails
    <2>2. Typed' /\ PutPhase'
      BY <2>1 DEF Sound, Typed, PutPhase
    <2> QED BY <1>1, <2>1, <2>2
  <1>6. CASE AfterFull \/ AfterFullNoTxn \/ AbortPut
    <2>1. UNCHANGED <<disk, acked, id, key>> /\ pc = "full_returned" /\ pc' \in {"idle", "commit", "crashed"}
      BY <1>6, ReturnError DEF AfterFull, AfterFullNoTxn, AbortPut
    <2>2. Typed' /\ PutPhase'
      BY <2>1 DEF Sound, Typed, PutPhase
    <2> QED BY <1>1, <2>1, <2>2
  <1>7. CASE Commit
    <2>1. key \in Keys /\ disk' = [disk EXCEPT ![key] = id] /\ Return(0) /\ UNCHANGED <<id, key>>
      BY <1>7 DEF Commit, Sound, Typed
    <2>2. pc' = "idle"
      BY <2>1 DEF Return
    <2> QED BY <2>1, <2>2, ReturnStored DEF Sound, Typed, PutPhase
  <1>8. CASE CommitFull
    BY <1>8 DEF CommitFull
  <1>9. CASE AfterCommitFull
    BY <1>9 DEF AfterCommitFull, Sound, PutPhase
  <1>10. CASE MapFullStep
    <2>1. /\ UNCHANGED <<disk, acked, id, key, phase>>
          /\ pc \in {"full", "info", "create", "reopen", "begin_again"}
      BY <1>10 DEF MapFullStep, FullAbort, InfoFails, CloseOld, CreateFails, Grow, GrowFails,
         Reopen, ReopenFails, BeginAgain, BeginAgainFails
    <2>2. Typed' /\ PutPhase'
      BY <2>1 DEF Sound, Typed, PutPhase
    <2> QED BY <1>1, <2>1, <2>2
  <1>11. CASE UNCHANGED vars
    BY <1>11 DEF vars, Sound, Typed, PutPhase, Stored
  <1> QED
    BY <1>2, <1>3, <1>4, <1>5, <1>6, <1>7, <1>8, <1>9, <1>10, <1>11 DEF Next, PutDbStep

(***************************************************************************)
(* put_db() returns 0 only for messages that are in the file, and they stay  *)
(* there until a later message with the same key: for every sequence of full *)
(* maps, LMDB failures, kills and restarts in which no commit reports a full *)
(* map.                                                                     *)
(***************************************************************************)
THEOREM SuccessIsStored == Spec => []StoredIfSuccess
  <1>1. IInv => StoredIfSuccess
    BY DEF IInv, Sound, StoredIfSuccess
  <1> QED BY InitIInv, StepIInv, <1>1, PTL DEF Spec

-----------------------------------------------------------------------------
(***************************************************************************)
(* Full maps.  As long as LMDB itself has not failed, the map has the size of  *)
(* the file but between the two openings of processMapFull(), the file holds   *)
(* what put_db() has reported as stored and no more than the map has room for, *)
(* and each place of put_db() and processMapFull() finds the environment, the  *)
(* transaction and the result that it needs.                                 *)
(***************************************************************************)
Sizes ==
    /\ filesize = InitialSize
    /\ pc # "reopen" => mapsize = InitialSize
    /\ Used <= InitialSize

Room == pc = "commit" => Need <= InitialSize

Refused == result = 1 => Used = InitialSize

Handles ==
    /\ pc \in {"start", "idle", "begin", "put", "commit", "full", "info", "create", "reopen",
               "begin_again", "full_returned", "stopped"}
    /\ pc \in {"idle", "begin", "put", "commit", "full", "info", "begin_again", "full_returned"} => env = "open"
    /\ pc \in {"idle", "begin", "info", "create", "reopen", "begin_again"} => txn # "live"
    /\ pc \in {"put", "commit", "full", "full_returned"} => txn = "live"
    /\ pc = "full_returned" => r = 0

Mended == Sizes /\ Room /\ Refused /\ Handles /\ disk = acked

Undisturbed == faults = 0 /\ ~tight

GInv == faults \in Nat /\ (Undisturbed => Sound /\ Mended)

LEMMA UsedNat ==
    ASSUME Sound
    PROVE  /\ IsFiniteSet({k \in Keys : disk[k] # None})
           /\ Used \in Nat
           /\ Need \in Nat /\ Need <= Used + 1
  <1>1. IsFiniteSet({k \in Keys : disk[k] # None})
    BY FS_Subset
  <1>2. Used \in Nat
    BY <1>1, FS_CardinalityType DEF Used
  <1> QED BY <1>1, <1>2 DEF Need

\* What Need promises for a commit.
LEMMA UsedAfterCommit ==
    ASSUME Sound, key \in Keys, disk' = [disk EXCEPT ![key] = id]
    PROVE  Used' = Need
  <1> DEFINE S == {k \in Keys : disk[k] # None}
  <1>1. disk \in [Keys -> Ids \cup {None}] /\ id \in Ids /\ id # None
    BY DEF Sound, Typed
  <1>2. {k \in Keys : disk'[k] # None} = S \cup {key}
    BY <1>1
  <1>3. IsFiniteSet(S) /\ Cardinality(S) = Used
    BY UsedNat DEF Used
  <1>4. CASE disk[key] = None
    <2>1. key \notin S
      BY <1>4
    <2>2. Cardinality(S \cup {key}) = Cardinality(S) + 1
      BY <1>3, <2>1, FS_AddElement
    <2> QED BY <1>2, <1>3, <1>4, <2>2 DEF Used, Need
  <1>5. CASE disk[key] # None
    <2>1. S \cup {key} = S
      BY <1>5
    <2> QED BY <1>2, <1>3, <1>5, <2>1 DEF Used, Need
  <1> QED BY <1>4, <1>5

LEMMA InitGInv == Init => GInv
  <1> SUFFICES ASSUME Init PROVE GInv
    OBVIOUS
  <1>1. Undisturbed => Sound
    BY InitIInv DEF IInv, Undisturbed
  <1>2. {k \in Keys : disk[k] # None} = {}
    BY DEF Init
  <1>3. Used = 0
    BY <1>2, FS_EmptySet DEF Used
  <1>4. Mended
    BY <1>3, SizeAssumption DEF Init, Mended, Sizes, Room, Refused, Handles
  <1> QED BY <1>1, <1>4 DEF GInv, Init

\* A step that leaves the file and what is reported alone.
LEMMA FileKept ==
    ASSUME Mended, UNCHANGED <<disk, acked, filesize>>
    PROVE  /\ disk' = acked' /\ Used' = Used
           /\ result' = result => Refused'
           /\ (pc' # "reopen" => mapsize' = InitialSize) => Sizes'
           /\ UNCHANGED key => Need' = Need
  BY DEF Mended, Sizes, Refused, Used, Need

LEMMA StepMended ==
    ASSUME Undisturbed, Sound, Mended, faults' = 0, [Next]_vars
    PROVE  Mended'
  <1> USE DEF store, message
  <1>0. /\ Used \in Nat /\ Need \in Nat /\ Need <= Used + 1 /\ faults = 0 /\ ~tight
        /\ Used <= InitialSize /\ InitialSize \in Nat /\ filesize = InitialSize
        /\ ~Fault
    BY UsedNat, SizeAssumption DEF Undisturbed, Mended, Sizes, Fault
  <1>1. CASE open_lmdb
    <2>1. Sizes' /\ Refused' /\ disk' = acked'
      BY <1>0, <1>1, FileKept DEF open_lmdb
    <2> QED BY <1>1, <2>1 DEF open_lmdb, Mended, Room, Handles
  <1>2. CASE Stop \/ Restart
    <2>1. Sizes' /\ Refused' /\ disk' = acked'
      BY <1>2, FileKept DEF Stop, Restart, Mended, Sizes
    <2> QED BY <1>2, <2>1 DEF Stop, Restart, Mended, Room, Handles
  <1>3. CASE OpenFails \/ BeginFails \/ PutFails \/ CommitFails \/ InfoFails \/ CreateFails \/ GrowFails
             \/ ReopenFails \/ BeginAgainFails
    BY <1>0, <1>3 DEF OpenFails, BeginFails, PutFails, CommitFails, InfoFails, CreateFails, GrowFails,
       ReopenFails, BeginAgainFails
  <1>4. CASE Kill
    BY <1>0, <1>4 DEF Kill, Mended, Handles
  <1>5. ASSUME NEW k \in Keys \cup {NoKey}, NEW j \in Ids, PutDb(k, j) PROVE Mended'
    <2>1. /\ Sizes' /\ disk' = acked' /\ Refused'
      <3>1. UNCHANGED <<disk, acked, filesize, mapsize>> /\ pc = "idle" /\ (result' = result \/ result' = 0)
        BY <1>5 DEF PutDb
      <3>2. Sizes' /\ disk' = acked' /\ (result' = result => Refused')
        BY <3>1, FileKept DEF Mended, Sizes
      <3> QED BY <3>1, <3>2 DEF Refused
    <2> QED BY <1>5, <2>1 DEF PutDb, Mended, Room, Handles
  <1>6. CASE Begin
    <2>1. Sizes' /\ Refused' /\ disk' = acked'
      BY <1>6, FileKept DEF Begin, Mended, Sizes
    <2> QED BY <1>6, <2>1 DEF Begin, Mended, Room, Handles
  <1>7. CASE Put
    <2>1. Sizes' /\ Refused' /\ disk' = acked' /\ Need' = Need
      BY <1>7, FileKept DEF Put, Mended, Sizes
    <2>2. Room'
      BY <1>7, <2>1 DEF Put, PutFits, Room, Mended, Sizes
    <2> QED BY <1>7, <2>1, <2>2 DEF Put, Mended, Handles
  <1>8. CASE AfterFull
    <2>1. mapsize = InitialSize /\ UNCHANGED <<disk, filesize, mapsize, key, env>> /\ pc = "full_returned"
      BY <1>8 DEF AfterFull, Mended, Sizes
    <2>2. CASE PutFits /\ pc' = "commit" /\ UNCHANGED <<txn, result, acked>>
      <3>1. Sizes' /\ Refused' /\ disk' = acked' /\ Need' = Need
        BY <2>1, <2>2, FileKept
      <3>2. Room'
        BY <2>1, <2>2, <3>1 DEF PutFits, Room
      <3> QED BY <1>8, <2>1, <2>2, <3>1, <3>2 DEF Mended, Handles
    <2>3. CASE PutFull /\ txn' = "freed" /\ Return(1)
      <3>1. acked' = acked /\ pc' = "idle" /\ result' = 1
        BY <2>3, ReturnError DEF Return
      <3>2. Sizes' /\ disk' = acked' /\ Used' = Used
        BY <2>1, <3>1, FileKept
      <3>3. Used = InitialSize
        BY <1>0, <2>1, <2>3 DEF PutFull
      <3> QED BY <1>8, <2>1, <2>3, <3>1, <3>2, <3>3 DEF Mended, Handles, Room, Refused
    <2> QED BY <1>8, <2>2, <2>3 DEF AfterFull
  <1>9. CASE AfterFullNoTxn \/ AbortPut
    BY <1>9 DEF AfterFullNoTxn, AbortPut, Mended, Handles
  <1>10. CASE Commit
    <2>1. key \in Keys /\ Need <= InitialSize /\ mapsize = InitialSize
      BY <1>10 DEF Commit, Sound, Typed, Mended, Room, Sizes
    <2>2. Used' = Need
      BY <1>10, <2>1, UsedAfterCommit DEF Commit
    <2>3. result' = 0 /\ pc' = "idle" /\ acked' = [acked EXCEPT ![key] = id]
      BY <1>10, <2>1 DEF Commit, Return
    <2>4. Sizes' /\ disk' = acked'
      BY <1>10, <2>1, <2>2, <2>3 DEF Commit, Mended, Sizes
    <2> QED BY <1>10, <2>3, <2>4 DEF Commit, Mended, Room, Refused, Handles
  <1>11. CASE CommitFull \/ AfterCommitFull
    BY <1>0, <1>11 DEF CommitFull, AfterCommitFull, Sound, PutPhase
  <1>12. CASE FullAbort \/ CloseOld
    <2>1. Sizes' /\ Refused' /\ disk' = acked' /\ pc' \in {"info", "create"}
      BY <1>12, FileKept DEF FullAbort, CloseOld, Mended, Handles, Sizes
    <2> QED BY <1>12, <2>1 DEF FullAbort, CloseOld, Mended, Room, Handles
  <1>13. CASE Grow \/ Reopen
    <2>1. Sizes' /\ Refused' /\ disk' = acked'
      BY <1>0, <1>13, FileKept DEF Grow, Reopen, Mended, Sizes
    <2> QED BY <1>13, <2>1 DEF Grow, Reopen, Mended, Room, Handles
  <1>14. CASE BeginAgain
    <2>1. Sizes' /\ Refused' /\ disk' = acked'
      BY <1>14, FileKept DEF BeginAgain, Mended, Sizes
    <2> QED BY <1>14, <2>1 DEF BeginAgain, Mended, Room, Handles
  <1>15. CASE UNCHANGED vars
    <2>1. Sizes' /\ Refused' /\ disk' = acked' /\ Need' = Need
      BY <1>15, FileKept DEF vars, Mended, Sizes
    <2> QED BY <1>15, <2>1 DEF vars, Mended, Room, Handles
  <1> QED
    BY <1>1, <1>2, <1>3, <1>4, <1>5, <1>6, <1>7, <1>8, <1>9, <1>10, <1>11, <1>12, <1>13, <1>14, <1>15
       DEF Next, PutDbStep, MapFullStep

\* Failures are counted and never forgotten.
LEMMA FaultsGrow ==
    ASSUME faults \in Nat, [Next]_vars
    PROVE  faults' \in Nat /\ faults' >= faults /\ tight' = tight
  <1>1. faults' = faults \/ faults' = faults + 1
    BY DEF Next, vars, PutDbStep, MapFullStep, open_lmdb, OpenFails, Stop, Kill, Restart, PutDb, Begin,
       BeginFails, Put, PutFails, AfterFull, AfterFullNoTxn, AbortPut, Commit, CommitFull, CommitFails,
       AfterCommitFull, FullAbort, InfoFails, CloseOld, CreateFails, Grow, GrowFails, Reopen, ReopenFails,
       BeginAgain, BeginAgainFails, Fault
  <1>2. tight' = tight
    BY DEF Next, vars
  <1> QED BY <1>1, <1>2

LEMMA StepGInv == GInv /\ [Next]_vars => GInv'
  <1> SUFFICES ASSUME GInv, [Next]_vars PROVE GInv'
    OBVIOUS
  <1>1. faults' \in Nat /\ faults' >= faults /\ tight' = tight /\ faults \in Nat
    BY FaultsGrow DEF GInv
  <1>2. ASSUME Undisturbed' PROVE Sound' /\ Mended'
    <2>1. Undisturbed /\ faults' = 0
      BY <1>1, <1>2 DEF Undisturbed
    <2>2. Sound /\ Mended
      BY <2>1 DEF GInv
    <2>3. Sound'
      BY <1>2, <2>2, StepIInv DEF IInv, Undisturbed
    <2> QED BY <2>1, <2>2, <2>3, StepMended
  <1> QED BY <1>1, <1>2 DEF GInv

(***************************************************************************)
(* For any number of keys and any size of the map: as long as LMDB itself      *)
(* does not fail, a full map makes put_db() refuse messages and nothing else:  *)
(* the file holds exactly what is reported as stored, a refusal means that     *)
(* every room is taken, and however often processMapFull() closes and opens    *)
(* the environment the program neither crashes nor waits for itself.           *)
(***************************************************************************)
THEOREM FullMapHarmsNobody == Spec => []FullMapOnlyRefuses
  <1>1. GInv => FullMapOnlyRefuses
    BY DEF GInv, Undisturbed, Mended, Refused, Handles, FullMapOnlyRefuses
  <1> QED BY InitGInv, StepGInv, <1>1, PTL DEF Spec
=============================================================================
