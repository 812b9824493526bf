------------------------------ MODULE MosStore ------------------------------
(***************************************************************************)
(* The optimistic, versioned collection store behind every MOS service     *)
(* (mos/storage/sqliteStore.js).  Several Node processes -- the API server *)
(* and the ops command-line tools -- open the same SQLite file.  Each       *)
(* process runs one synchronous service call at a time: it reads a          *)
(* collection, computes the next one from what it read, writes it, and, if  *)
(* the audit event that must accompany the write fails, writes the old      *)
(* value back.  Calls of different processes interleave between any two     *)
(* SQLite statements.                                                       *)
(*                                                                          *)
(* A collection is a JSON map; the model keeps the set of its entries.      *)
(***************************************************************************)
EXTENDS Integers

CONSTANTS Process,      \* processes that hold a MosSqliteStore
          Key,          \* collection keys
          Entry,        \* entries of a collection
          NonAudited,   \* keys whose versions are not archived
          Unread,       \* "this process has not read the key"
          MaxVersion    \* bound: versions a collection may reach

ASSUME NonAuditedAssumption == NonAudited \subseteq Key
ASSUME MaxVersionAssumption == MaxVersion \in Nat
ASSUME UnreadAssumption == Unread \notin Nat

VARIABLES row,          \* mos_collections: payload, version (0: no row), checksum
          history,      \* mos_collection_history: version -> archived payload
          observed,     \* observedVersions of each process
          call          \* the synchronous service call each process is in

vars == <<row, history, observed, call>>

----------------------------------------------------------------------------
Payload == SUBSET Entry
Fallback == {}                 \* the fallback every map collection is read with
Version == 0..MaxVersion

Row == [payload : Payload, version : Version, intact : BOOLEAN]

(* at: where the call stands.  basis: the collection the call works from.   *)
(* next: what it wrote, once it wrote.                                      *)
Idle == [at |-> "idle"]
Call ==
    {Idle}
    \cup [at : {"missing"}, key : Key]
    \cup [at : {"read"}, key : Key, basis : Payload]
    \cup [at : {"written"}, key : Key, basis : Payload, next : Payload]

Present(k) == row[k].version > 0

----------------------------------------------------------------------------
(* write(): one BEGIN IMMEDIATE ... COMMIT transaction.                      *)

(* Mutant of WriteAllowed: any version that was read will do.                *)
WriteAnyVersion(p, k) ==
    row[k].intact /\ (observed[p][k] = Unread => ~Present(k))

(* The checks that must all pass before the row may be replaced.             *)
WriteAllowed(p, k) ==
    /\ row[k].intact
    /\ observed[p][k] = Unread => ~Present(k)
    /\ observed[p][k] # Unread => observed[p][k] = row[k].version

(* Mutant of KeepRow: the version is counted up although nothing is written. *)
KeepRowCountsUp(p, k, payload) ==
    /\ Present(k) /\ payload = row[k].payload
    /\ observed' = [observed EXCEPT ![p][k] = row[k].version + 1]
    /\ UNCHANGED <<row, history>>

(* Same checksum as the stored row: commit, advance nothing.                 *)
KeepRow(p, k, payload) ==
    /\ Present(k) /\ payload = row[k].payload
    /\ observed' = [observed EXCEPT ![p][k] = row[k].version]
    /\ UNCHANGED <<row, history>>

(* Mutants of Archive: the old payload is filed under the new version; only  *)
(* the latest superseded version is kept.                                    *)
ArchiveUnderNewVersion(k) ==
    IF Present(k) /\ k \notin NonAudited
    THEN history' = [history EXCEPT ![k] =
                        [v \in DOMAIN @ \cup {row[k].version + 1} |->
                            IF v = row[k].version + 1 THEN row[k].payload ELSE @[v]]]
    ELSE UNCHANGED history
ArchiveLatestOnly(k) ==
    IF Present(k) /\ k \notin NonAudited
    THEN history' = [history EXCEPT ![k] = [v \in {row[k].version} |-> row[k].payload]]
    ELSE UNCHANGED history

(* INSERT OR IGNORE: an archived version is never replaced.                  *)
Archive(k) ==
    IF Present(k) /\ k \notin NonAudited /\ row[k].version \notin DOMAIN history[k]
    THEN history' = [history EXCEPT ![k] =
                        [v \in DOMAIN @ \cup {row[k].version} |->
                            IF v = row[k].version THEN row[k].payload ELSE @[v]]]
    ELSE UNCHANGED history

ReplaceRow(p, k, payload) ==
    /\ ~(Present(k) /\ payload = row[k].payload)
    /\ row[k].version < MaxVersion
    /\ row' = [row EXCEPT ![k] = [payload |-> payload,
                                  version |-> row[k].version + 1,
                                  intact |-> TRUE]]
    /\ Archive(k)
    /\ observed' = [observed EXCEPT ![p][k] = row[k].version + 1]

CommitWrite(p, k, payload) ==
    /\ WriteAllowed(p, k)
    /\ KeepRow(p, k, payload) \/ ReplaceRow(p, k, payload)

----------------------------------------------------------------------------
(* read(): a row that is there is checked and its version remembered.        *)
ReadPresent(p, k) ==
    /\ call[p].at = "idle"
    /\ Present(k) /\ row[k].intact
    /\ observed' = [observed EXCEPT ![p][k] = row[k].version]
    /\ call' = [call EXCEPT ![p] = [at |-> "read", key |-> k, basis |-> row[k].payload]]
    /\ UNCHANGED <<row, history>>

(* read() of a key without a row: version 0 is remembered and the fallback   *)
(* is then written, in a transaction of its own.                             *)
ReadMissing(p, k) ==
    /\ call[p].at = "idle"
    /\ ~Present(k)
    /\ observed' = [observed EXCEPT ![p][k] = 0]
    /\ call' = [call EXCEPT ![p] = [at |-> "missing", key |-> k]]
    /\ UNCHANGED <<row, history>>

WriteFallback(p) ==
    /\ call[p].at = "missing"
    /\ CommitWrite(p, call[p].key, Fallback)
    /\ call' = [call EXCEPT ![p] = [at |-> "read", key |-> call[p].key, basis |-> Fallback]]

(* The service adds, replaces or removes one entry of what it read.          *)
WriteNext(p, e) ==
    /\ call[p].at = "read"
    /\ \E next \in {call[p].basis \cup {e}, call[p].basis \ {e}} :
          /\ CommitWrite(p, call[p].key, next)
          /\ call' = [call EXCEPT ![p] =
                         [at |-> "written", key |-> call[p].key,
                          basis |-> call[p].basis, next |-> next]]

(* Mutant of RollBack: the old value is put back without comparing versions. *)
RollBackUnchecked(p) ==
    /\ call[p].at = "written"
    /\ LET k == call[p].key IN
       KeepRow(p, k, call[p].basis) \/ ReplaceRow(p, k, call[p].basis)
    /\ call' = [call EXCEPT ![p] = Idle]

(* The audit event could not be appended: the service writes back what it    *)
(* had read.                                                                 *)
RollBack(p) ==
    /\ call[p].at = "written"
    /\ CommitWrite(p, call[p].key, call[p].basis)
    /\ call' = [call EXCEPT ![p] = Idle]

(* Any write of the call is refused: the transaction rolls back and the      *)
(* error leaves the call.                                                    *)
Conflict(p) ==
    /\ call[p].at \in {"missing", "read", "written"}
    /\ ~WriteAllowed(p, call[p].key)
    /\ call' = [call EXCEPT ![p] = Idle]
    /\ UNCHANGED <<row, history, observed>>

(* The call ends: a read that decides not to write, a write whose event was  *)
(* appended, or SQLite stayed busy beyond its timeout and the error leaves.  *)
Return(p) ==
    /\ call[p].at \in {"missing", "read", "written"}
    /\ call' = [call EXCEPT ![p] = Idle]
    /\ UNCHANGED <<row, history, observed>>

(* The process dies; observedVersions lives in its memory only.              *)
Restart(p) ==
    /\ call' = [call EXCEPT ![p] = Idle]
    /\ observed' = [observed EXCEPT ![p] = [k \in Key |-> Unread]]
    /\ UNCHANGED <<row, history>>

(* External: the stored payload no longer matches its checksum.              *)
Corrupt(k) ==
    /\ Present(k) /\ row[k].intact
    /\ row' = [row EXCEPT ![k].intact = FALSE]
    /\ UNCHANGED <<history, observed, call>>

----------------------------------------------------------------------------
Init ==
    /\ row = [k \in Key |-> [payload |-> {}, version |-> 0, intact |-> TRUE]]
    /\ history = [k \in Key |-> [v \in {} |-> {}]]
    /\ observed = [p \in Process |-> [k \in Key |-> Unread]]
    /\ call = [p \in Process |-> Idle]

ProcessStep(p) ==
    \/ \E k \in Key : ReadPresent(p, k) \/ ReadMissing(p, k)
    \/ WriteFallback(p)
    \/ \E e \in Entry : WriteNext(p, e)
    \/ RollBack(p)
    \/ Conflict(p)
    \/ Return(p)
    \/ Restart(p)

Next ==
    \/ \E p \in Process : ProcessStep(p)
    \/ \E k \in Key : Corrupt(k)

Spec == Init /\ [][Next]_vars

----------------------------------------------------------------------------
(* Every row, archived version, remembered version and call is well formed.  *)
TypeOK ==
    /\ row \in [Key -> Row]
    /\ DOMAIN history = Key
    /\ \A k \in Key : /\ DOMAIN history[k] \subseteq Version
                     /\ history[k] \in [DOMAIN history[k] -> Payload]
    /\ observed \in [Process -> [Key -> Version \cup {Unread}]]
    /\ call \in [Process -> Call]

(* A service call that is still allowed to write works from the collection   *)
(* as it stands, and one allowed to roll back would undo its own write and   *)
(* nothing else: no other process has written in between.  This is what      *)
(* makes the version comparison in write() sufficient.                       *)
FreshBasis ==
    \A p \in Process :
        LET c == call[p] IN
        /\ c.at = "read" /\ WriteAllowed(p, c.key) => c.basis = row[c.key].payload
        /\ c.at = "written" /\ WriteAllowed(p, c.key) => c.next = row[c.key].payload

(* The archive of an audited collection has exactly the superseded versions: *)
(* no gap, and never the current one.                                        *)
HistoryComplete ==
    \A k \in Key :
        DOMAIN history[k] =
            IF k \in NonAudited THEN {} ELSE 1..(row[k].version - 1)

(* An archived version is never rewritten or dropped, and what is archived   *)
(* under a version is the payload that version had in mos_collections.       *)
HistoryFaithful ==
    [][\A k \in Key :
         /\ \A v \in DOMAIN history[k] :
               v \in DOMAIN history'[k] /\ history'[k][v] = history[k][v]
         /\ \A v \in DOMAIN history'[k] \ DOMAIN history[k] :
               v = row[k].version /\ history'[k][v] = row[k].payload
      ]_vars

(* The store implements the abstract collections: every committed write adds *)
(* or removes one entry of the collection as it stands.  A lost update would *)
(* be a step that silently removes another process's entry.                  *)
Collections == INSTANCE MosCollections
                 WITH collection <- [k \in Key |-> row[k].payload]
ImplementsCollections == Collections!Spec
=============================================================================
