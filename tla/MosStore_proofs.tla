--------------------------- MODULE MosStore_proofs ---------------------------
(***************************************************************************)
(* Theorems about the versioned store, for any set of processes, keys and  *)
(* entries and any bound on versions.                                       *)
(***************************************************************************)
EXTENDS MosStore, TLAPS

(* A process remembers versions that exist or existed, never a future one.  *)
ObservedBehind ==
    \A p \in Process, k \in Key :
        observed[p][k] # Unread => observed[p][k] <= row[k].version

(* A key without a row is an empty collection.                              *)
AbsentEmpty == \A k \in Key : ~Present(k) => row[k].payload = {}

(* A call past its read has its key in observedVersions, and if that version *)
(* is still the current one, what the call holds is the current collection.  *)
CallFresh(p) ==
    LET c == call[p] IN
    /\ c.at = "missing" => observed[p][c.key] = 0
    /\ c.at = "read" =>
          /\ observed[p][c.key] # Unread
          /\ observed[p][c.key] = row[c.key].version => c.basis = row[c.key].payload
    /\ c.at = "written" =>
          /\ observed[p][c.key] # Unread
          /\ observed[p][c.key] = row[c.key].version => c.next = row[c.key].payload
          /\ \E e \in Entry : c.next \in {c.basis \cup {e}, c.basis \ {e}}

(* The inductive invariant.                                                  *)
IInv ==
    /\ TypeOK
    /\ ObservedBehind
    /\ AbsentEmpty
    /\ HistoryComplete
    /\ \A p \in Process : CallFresh(p)

-----------------------------------------------------------------------------
(* The shape of a call at each point, which the record sets of Call say.     *)
LEMMA CallShape ==
    ASSUME NEW c \in Call
    PROVE  /\ c.at \in {"idle", "missing", "read", "written"}
           /\ c.at # "idle" => c.key \in Key
           /\ c.at \in {"read", "written"} => c.basis \in Payload
           /\ c.at = "written" => c.next \in Payload
  BY DEF Call, Idle

(* The empty function's domain, and what Archive makes of a history.         *)
LEMMA ArchiveKeepsType ==
    ASSUME TypeOK, NEW k \in Key, HistoryComplete,
           row[k].version < MaxVersion, Archive(k)
    PROVE  /\ DOMAIN history' = Key
           /\ \A j \in Key : /\ DOMAIN history'[j] \subseteq Version
                            /\ history'[j] \in [DOMAIN history'[j] -> Payload]
           /\ \A j \in Key \ {k} : history'[j] = history[j]
           /\ DOMAIN history'[k] = IF k \in NonAudited THEN {} ELSE 1..row[k].version
  <1> USE MaxVersionAssumption DEF TypeOK, Row, Version
  <1>0. row[k].version \in Nat /\ row[k].payload \in Payload
    OBVIOUS
  <1>1. CASE Present(k) /\ k \notin NonAudited /\ row[k].version \notin DOMAIN history[k]
    <2> DEFINE h == [v \in DOMAIN history[k] \cup {row[k].version} |->
                        IF v = row[k].version THEN row[k].payload ELSE history[k][v]]
    <2>1. history' = [history EXCEPT ![k] = h]
      BY <1>1 DEF Archive
    <2>2. history'[k] = h /\ DOMAIN history' = Key
      BY <2>1
    <2>3. \A j \in Key \ {k} : history'[j] = history[j]
      BY <2>1
    <2>4. DOMAIN h = DOMAIN history[k] \cup {row[k].version}
      OBVIOUS
    <2>5. h \in [DOMAIN h -> Payload] /\ DOMAIN h \subseteq Version
      <3>1. \A v \in DOMAIN history[k] : history[k][v] \in Payload
        OBVIOUS
      <3>2. row[k].version \in Version
        BY <1>0
      <3>3. QED
        BY <3>1, <3>2, <1>0
    <2>6. DOMAIN h = 1..row[k].version
      <3>1. DOMAIN history[k] = 1..(row[k].version - 1)
        BY <1>1 DEF HistoryComplete
      <3>2. QED
        BY <3>1, <2>4, <1>1, <1>0 DEF Present
    <2>7. QED
      BY <2>2, <2>3, <2>5, <2>6, <1>1
  <1>2. CASE ~(Present(k) /\ k \notin NonAudited /\ row[k].version \notin DOMAIN history[k])
    <2>1. history' = history
      BY <1>2 DEF Archive
    <2>2. DOMAIN history[k] = IF k \in NonAudited THEN {} ELSE 1..row[k].version
      BY <1>2, <1>0 DEF HistoryComplete, Present
    <2>3. QED
      BY <2>1, <2>2
  <1>3. QED
    BY <1>1, <1>2

(* What a committed write does to the store, whichever call makes it.        *)
LEMMA CommitWriteEffect ==
    ASSUME IInv, NEW p \in Process, NEW k \in Key, NEW w \in Payload,
           CommitWrite(p, k, w)
    PROVE  /\ row' \in [Key -> Row]
           /\ DOMAIN history' = Key
           /\ \A j \in Key : /\ DOMAIN history'[j] \subseteq Version
                            /\ history'[j] \in [DOMAIN history'[j] -> Payload]
           /\ observed' \in [Process -> [Key -> Version \cup {Unread}]]
           /\ \A j \in Key \ {k} : row'[j] = row[j]
           /\ row'[k].payload = w
           /\ row'[k].version > 0
           /\ row'[k].version >= row[k].version
           /\ row'[k].version = row[k].version => row'[k] = row[k]
           /\ observed'[p][k] = row'[k].version
           /\ \A q \in Process, j \in Key :
                 (q # p \/ j # k) => observed'[q][j] = observed[q][j]
           /\ HistoryComplete'
  <1> USE MaxVersionAssumption DEF IInv, TypeOK, Row, Version
  <1>0. row[k].version \in Nat
    OBVIOUS
  <1>1. CASE KeepRow(p, k, w)
    BY <1>0, <1>1 DEF KeepRow, HistoryComplete, Present
  <1>2. CASE ReplaceRow(p, k, w)
    <2> DEFINE r == [payload |-> w, version |-> row[k].version + 1, intact |-> TRUE]
    <2>1. /\ row[k].version < MaxVersion
          /\ row' = [row EXCEPT ![k] = r]
          /\ observed' = [observed EXCEPT ![p][k] = row[k].version + 1]
          /\ Archive(k)
      BY <1>2 DEF ReplaceRow
    <2>2. row' \in [Key -> Row] /\ row'[k] = r /\ \A j \in Key \ {k} : row'[j] = row[j]
      BY <2>1, <1>0
    <2>3. /\ observed' \in [Process -> [Key -> Version \cup {Unread}]]
          /\ observed'[p][k] = row[k].version + 1
          /\ \A q \in Process, j \in Key :
                (q # p \/ j # k) => observed'[q][j] = observed[q][j]
      BY <2>1, <1>0
    <2>4. /\ DOMAIN history' = Key
          /\ \A j \in Key : /\ DOMAIN history'[j] \subseteq Version
                           /\ history'[j] \in [DOMAIN history'[j] -> Payload]
          /\ \A j \in Key \ {k} : history'[j] = history[j]
          /\ DOMAIN history'[k] = IF k \in NonAudited THEN {} ELSE 1..row[k].version
      BY <2>1, ArchiveKeepsType
    <2>5. HistoryComplete'
      <3> SUFFICES ASSUME NEW j \in Key
                   PROVE  DOMAIN history'[j] =
                             IF j \in NonAudited THEN {} ELSE 1..(row'[j].version - 1)
        BY DEF HistoryComplete
      <3>1. CASE j = k
        <4>1. row'[k].version - 1 = row[k].version
          BY <2>2, <1>0
        <4>2. QED
          BY <4>1, <2>4, <3>1
      <3>2. CASE j # k
        BY <3>2, <2>2, <2>4 DEF HistoryComplete
      <3>3. QED
        BY <3>1, <3>2
    <2>6. QED
      BY <2>2, <2>3, <2>4, <2>5, <1>0
  <1>3. QED
    BY <1>1, <1>2 DEF CommitWrite

-----------------------------------------------------------------------------
LEMMA InitIInv == Init => IInv
  BY MaxVersionAssumption
     DEF Init, IInv, TypeOK, Row, Payload, Version, Call, Idle, ObservedBehind,
         AbsentEmpty, Present, HistoryComplete, CallFresh

(* A step that commits a write and moves its own call to a fresh one keeps   *)
(* the invariant: calls of other processes hold an older version.            *)
LEMMA CommitKeepsIInv ==
    ASSUME IInv, NEW p \in Process, NEW k \in Key, NEW w \in Payload, NEW c \in Call,
           CommitWrite(p, k, w),
           call' = [call EXCEPT ![p] = c],
           \/ c.at = "idle"
           \/ c.at = "read" /\ c.key = k /\ c.basis = w
           \/ /\ c.at = "written" /\ c.key = k /\ c.next = w
              /\ \E e \in Entry : c.next \in {c.basis \cup {e}, c.basis \ {e}}
    PROVE  IInv'
  <1> USE MaxVersionAssumption, UnreadAssumption
  <1>1. /\ row' \in [Key -> Row]
        /\ DOMAIN history' = Key
        /\ \A j \in Key : /\ DOMAIN history'[j] \subseteq Version
                         /\ history'[j] \in [DOMAIN history'[j] -> Payload]
        /\ observed' \in [Process -> [Key -> Version \cup {Unread}]]
        /\ \A j \in Key \ {k} : row'[j] = row[j]
        /\ row'[k].payload = w
        /\ row'[k].version > 0
        /\ row'[k].version >= row[k].version
        /\ row'[k].version = row[k].version => row'[k] = row[k]
        /\ observed'[p][k] = row'[k].version
        /\ \A q \in Process, j \in Key :
              (q # p \/ j # k) => observed'[q][j] = observed[q][j]
        /\ HistoryComplete'
    BY CommitWriteEffect
  <1>2. call' \in [Process -> Call] /\ call'[p] = c
        /\ \A q \in Process \ {p} : call'[q] = call[q]
    BY DEF IInv, TypeOK
  <1>3. TypeOK'
    BY <1>1, <1>2 DEF TypeOK
  <1>4. \A j \in Key : row[j].version \in Nat /\ row'[j].version \in Nat
    BY <1>1 DEF IInv, TypeOK, Row, Version
  <1>5. \A q \in Process, j \in Key :
            observed[q][j] # Unread => observed[q][j] \in Nat
    BY DEF IInv, TypeOK, Version
  <1>6. ObservedBehind'
    <2> SUFFICES ASSUME NEW q \in Process, NEW j \in Key, observed'[q][j] # Unread
                 PROVE  observed'[q][j] <= row'[j].version
      BY DEF ObservedBehind
    <2>1. CASE q = p /\ j = k
      BY <2>1, <1>1, <1>4
    <2>2. CASE q # p \/ j # k
      <3>1. observed'[q][j] = observed[q][j] /\ observed[q][j] <= row[j].version
        BY <2>2, <1>1 DEF IInv, ObservedBehind
      <3>2. row'[j].version >= row[j].version
        BY <1>1, <1>4
      <3>3. QED
        BY <3>1, <3>2, <1>4, <1>5
    <2>3. QED
      BY <2>1, <2>2
  <1>7. AbsentEmpty'
    BY <1>1, <1>4 DEF IInv, AbsentEmpty, Present
  <1>8. ASSUME NEW q \in Process
        PROVE  CallFresh(q)'
    <2>1. CASE q = p
      <3>1. observed'[p][k] # Unread
        BY <1>1, <1>4
      <3>2. QED
        BY <2>1, <3>1, <1>1, <1>2 DEF CallFresh
    <2>2. CASE q # p
      <3>1. CallFresh(q) /\ call'[q] = call[q] /\ call[q] \in Call
        BY <2>2, <1>2 DEF IInv, TypeOK
      <3>2. CASE call[q].at = "idle"
        BY <3>1, <3>2 DEF CallFresh
      <3>3. CASE call[q].at # "idle"
        <4>1. call[q].key \in Key
          BY <3>1, <3>3, CallShape
        <4>2. observed'[q][call[q].key] = observed[q][call[q].key]
          BY <4>1, <2>2, <1>1
        <4>3. observed[q][call[q].key] # Unread
                  => observed[q][call[q].key] <= row[call[q].key].version
          BY <4>1 DEF IInv, ObservedBehind
        <4>4. /\ row'[call[q].key].version >= row[call[q].key].version
              /\ row'[call[q].key].version = row[call[q].key].version
                    => row'[call[q].key] = row[call[q].key]
          BY <4>1, <1>1, <1>4
        <4>5. observed'[q][call[q].key] = row'[call[q].key].version
                 => row'[call[q].key] = row[call[q].key]
                    /\ observed[q][call[q].key] = row[call[q].key].version
          BY <4>1, <4>2, <4>3, <4>4, <1>4, <1>5
        <4>6. QED
          BY <3>1, <4>2, <4>5 DEF CallFresh
      <3>4. QED
        BY <3>2, <3>3
    <2>3. QED
      BY <2>1, <2>2
  <1>9. QED
    BY <1>1, <1>3, <1>6, <1>7, <1>8 DEF IInv

(* A step that writes nothing and only ends calls or forgets keys.           *)
LEMMA QuietKeepsIInv ==
    ASSUME IInv, NEW p \in Process, NEW c \in Call, NEW o \in [Key -> Version \cup {Unread}],
           UNCHANGED <<row, history>>,
           observed' = [observed EXCEPT ![p] = o],
           call' = [call EXCEPT ![p] = c],
           \A k \in Key : o[k] \in {observed[p][k], row[k].version, Unread},
           \/ c.at = "idle"
           \/ c.at = "missing" /\ o[c.key] = 0
           \/ c.at = "read" /\ o[c.key] = row[c.key].version /\ c.basis = row[c.key].payload
    PROVE  IInv'
  <1> USE MaxVersionAssumption, UnreadAssumption
  <1>1. TypeOK'
    BY DEF IInv, TypeOK
  <1>2. \A j \in Key : row[j].version \in Nat
    BY DEF IInv, TypeOK, Row, Version
  <1>3. /\ observed'[p] = o /\ call'[p] = c
        /\ \A q \in Process \ {p} : observed'[q] = observed[q] /\ call'[q] = call[q]
    BY DEF IInv, TypeOK
  <1>4. ObservedBehind'
    BY <1>2, <1>3 DEF IInv, ObservedBehind
  <1>5. AbsentEmpty' /\ HistoryComplete'
    BY DEF IInv, AbsentEmpty, HistoryComplete, Present
  <1>6. ASSUME NEW q \in Process
        PROVE  CallFresh(q)'
    <2>1. CASE q = p
      <3>1. c.at # "idle" => c.key \in Key
        BY CallShape
      <3>2. c.at = "read" => o[c.key] # Unread
        BY <3>1, <1>2
      <3>3. QED
        BY <2>1, <3>1, <3>2, <1>3 DEF CallFresh
    <2>2. CASE q # p
      BY <2>2, <1>3 DEF IInv, CallFresh
    <2>3. QED
      BY <2>1, <2>2
  <1>7. QED
    BY <1>1, <1>4, <1>5, <1>6 DEF IInv

-----------------------------------------------------------------------------
LEMMA NextIInv == IInv /\ [Next]_vars => IInv'
  <1> SUFFICES ASSUME IInv, [Next]_vars
               PROVE  IInv'
    OBVIOUS
  <1> USE MaxVersionAssumption, UnreadAssumption
  <1>0. /\ \A p \in Process : /\ observed[p] \in [Key -> Version \cup {Unread}]
                             /\ observed = [observed EXCEPT ![p] = observed[p]]
                             /\ call[p] \in Call
        /\ \A k \in Key : row[k].version \in Version /\ row[k].payload \in Payload
    BY DEF IInv, TypeOK, Row
  <1>1. ASSUME NEW p \in Process, NEW k \in Key, ReadPresent(p, k)
        PROVE  IInv'
    <2> DEFINE o == [observed[p] EXCEPT ![k] = row[k].version]
               c == [at |-> "read", key |-> k, basis |-> row[k].payload]
    <2>1. o \in [Key -> Version \cup {Unread}] /\ c \in Call
      BY <1>0 DEF Call
    <2>2. /\ UNCHANGED <<row, history>>
          /\ observed' = [observed EXCEPT ![p] = o]
          /\ call' = [call EXCEPT ![p] = c]
      BY <1>1 DEF ReadPresent
    <2>3. /\ \A j \in Key : o[j] \in {observed[p][j], row[j].version, Unread}
          /\ c.at = "read" /\ o[c.key] = row[c.key].version /\ c.basis = row[c.key].payload
      BY <1>0
    <2>4. QED
      BY <2>1, <2>2, <2>3, QuietKeepsIInv
  <1>2. ASSUME NEW p \in Process, NEW k \in Key, ReadMissing(p, k)
        PROVE  IInv'
    <2> DEFINE o == [observed[p] EXCEPT ![k] = 0]
               c == [at |-> "missing", key |-> k]
    <2>1. row[k].version = 0
      BY <1>0, <1>2 DEF ReadMissing, Present, Version
    <2>2. o \in [Key -> Version \cup {Unread}] /\ c \in Call
      BY <1>0 DEF Call, Version
    <2>3. /\ UNCHANGED <<row, history>>
          /\ observed' = [observed EXCEPT ![p] = o]
          /\ call' = [call EXCEPT ![p] = c]
      BY <1>2 DEF ReadMissing
    <2>4. /\ \A j \in Key : o[j] \in {observed[p][j], row[j].version, Unread}
          /\ c.at = "missing" /\ o[c.key] = 0
      BY <1>0, <2>1
    <2>5. QED
      BY <2>2, <2>3, <2>4, QuietKeepsIInv
  <1>3. ASSUME NEW p \in Process, WriteFallback(p)
        PROVE  IInv'
    <2> DEFINE c == [at |-> "read", key |-> call[p].key, basis |-> Fallback]
    <2>1. call[p].key \in Key
      BY <1>0, <1>3, CallShape DEF WriteFallback
    <2>2. c \in Call /\ Fallback \in Payload
      BY <2>1 DEF Call, Fallback, Payload
    <2>3. CommitWrite(p, call[p].key, Fallback) /\ call' = [call EXCEPT ![p] = c]
      BY <1>3 DEF WriteFallback
    <2>4. c.at = "read" /\ c.key = call[p].key /\ c.basis = Fallback
      OBVIOUS
    <2>5. QED
      BY <2>1, <2>2, <2>3, <2>4, CommitKeepsIInv
  <1>4. ASSUME NEW p \in Process, NEW e \in Entry, WriteNext(p, e)
        PROVE  IInv'
    <2>1. call[p].key \in Key /\ call[p].basis \in Payload
      BY <1>0, <1>4, CallShape DEF WriteNext
    <2>2. PICK next \in {call[p].basis \cup {e}, call[p].basis \ {e}} :
            /\ CommitWrite(p, call[p].key, next)
            /\ call' = [call EXCEPT ![p] = [at |-> "written", key |-> call[p].key,
                                            basis |-> call[p].basis, next |-> next]]
      BY <1>4 DEF WriteNext
    <2> DEFINE c == [at |-> "written", key |-> call[p].key,
                     basis |-> call[p].basis, next |-> next]
    <2>3. next \in Payload
      BY <2>1 DEF Payload
    <2>4. c \in Call
      BY <2>1, <2>3 DEF Call
    <2>5. /\ c.at = "written" /\ c.key = call[p].key /\ c.next = next
          /\ \E f \in Entry : c.next \in {c.basis \cup {f}, c.basis \ {f}}
      OBVIOUS
    <2>6. CommitWrite(p, call[p].key, next) /\ call' = [call EXCEPT ![p] = c]
      BY <2>2
    <2>7. QED
      BY <2>1, <2>3, <2>4, <2>5, <2>6, CommitKeepsIInv
  <1>5. ASSUME NEW p \in Process, RollBack(p)
        PROVE  IInv'
    <2>1. call[p].key \in Key /\ call[p].basis \in Payload
      BY <1>0, <1>5, CallShape DEF RollBack
    <2>2. CommitWrite(p, call[p].key, call[p].basis) /\ call' = [call EXCEPT ![p] = Idle]
      BY <1>5 DEF RollBack
    <2>3. Idle \in Call /\ Idle.at = "idle"
      BY DEF Call, Idle
    <2>4. QED
      BY <2>1, <2>2, <2>3, CommitKeepsIInv
  <1>6. ASSUME NEW p \in Process, Conflict(p) \/ Return(p)
        PROVE  IInv'
    <2>1. /\ UNCHANGED <<row, history>>
          /\ observed' = [observed EXCEPT ![p] = observed[p]]
          /\ call' = [call EXCEPT ![p] = Idle]
      BY <1>0, <1>6 DEF Conflict, Return
    <2>2. Idle \in Call /\ Idle.at = "idle"
      BY DEF Call, Idle
    <2>3. QED
      BY <1>0, <2>1, <2>2, QuietKeepsIInv
  <1>7. ASSUME NEW p \in Process, Restart(p)
        PROVE  IInv'
    <2> DEFINE o == [k \in Key |-> Unread]
    <2>1. /\ UNCHANGED <<row, history>>
          /\ observed' = [observed EXCEPT ![p] = o]
          /\ call' = [call EXCEPT ![p] = Idle]
      BY <1>7 DEF Restart
    <2>2. Idle \in Call /\ Idle.at = "idle"
      BY DEF Call, Idle
    <2>3. o \in [Key -> Version \cup {Unread}]
      OBVIOUS
    <2>4. QED
      BY <2>1, <2>2, <2>3, QuietKeepsIInv
  <1>8. ASSUME NEW k \in Key, Corrupt(k)
        PROVE  IInv'
    <2>1. /\ row' \in [Key -> Row]
          /\ \A j \in Key : /\ row'[j].version = row[j].version
                           /\ row'[j].payload = row[j].payload
          /\ UNCHANGED <<history, observed, call>>
      BY <1>8 DEF Corrupt, IInv, TypeOK, Row
    <2>2. TypeOK'
      BY <2>1 DEF IInv, TypeOK
    <2>3. ObservedBehind' /\ AbsentEmpty' /\ HistoryComplete'
      BY <2>1 DEF IInv, ObservedBehind, AbsentEmpty, Present, HistoryComplete
    <2>4. ASSUME NEW p \in Process
          PROVE  CallFresh(p)'
      <3>1. call[p].at # "idle" => call[p].key \in Key
        BY <1>0, CallShape
      <3>2. QED
        BY <2>1, <3>1 DEF IInv, CallFresh
    <2>5. QED
      BY <2>2, <2>3, <2>4 DEF IInv
  <1>9. CASE UNCHANGED vars
    BY <1>9 DEF vars, IInv, TypeOK, ObservedBehind, AbsentEmpty, Present,
                HistoryComplete, CallFresh
  <1>10. QED
    BY <1>1, <1>2, <1>3, <1>4, <1>5, <1>6, <1>7, <1>8, <1>9 DEF Next, ProcessStep

LEMMA SpecIInv == Spec => []IInv
  BY InitIInv, NextIInv, PTL DEF Spec

-----------------------------------------------------------------------------
(* The rows, the archive, the remembered versions and the calls keep their   *)
(* types whatever the interleaving of processes.                             *)
THEOREM TypeCorrect == Spec => []TypeOK
  <1>1. IInv => TypeOK
    BY DEF IInv
  <1>2. QED
    BY <1>1, SpecIInv, PTL

(* The version comparison of write() is enough: whoever may write or roll    *)
(* back works from the collection as it stands.                              *)
THEOREM BasisIsFresh == Spec => []FreshBasis
  <1>1. IInv => FreshBasis
    BY DEF IInv, FreshBasis, CallFresh, WriteAllowed
  <1>2. QED
    BY <1>1, SpecIInv, PTL

(* The archive of an audited collection has no gap.                          *)
THEOREM ArchiveComplete == Spec => []HistoryComplete
  <1>1. IInv => HistoryComplete
    BY DEF IInv
  <1>2. QED
    BY <1>1, SpecIInv, PTL

-----------------------------------------------------------------------------
(* A committed write leaves the archive as it was, or adds the superseded    *)
(* version of the written key.                                               *)
LEMMA CommitExtendsHistory ==
    ASSUME IInv, NEW p, NEW k \in Key, NEW w, CommitWrite(p, k, w), NEW j \in Key
    PROVE  /\ \A v \in DOMAIN history[j] :
                 v \in DOMAIN history'[j] /\ history'[j][v] = history[j][v]
           /\ \A v \in DOMAIN history'[j] \ DOMAIN history[j] :
                 v = row[j].version /\ history'[j][v] = row[j].payload
  <1>1. CASE history' = history
    BY <1>1
  <1>2. CASE history' # history
    <2> DEFINE h == [v \in DOMAIN history[k] \cup {row[k].version} |->
                        IF v = row[k].version THEN row[k].payload ELSE history[k][v]]
    <2>1. history' = [history EXCEPT ![k] = h] /\ row[k].version \notin DOMAIN history[k]
      BY <1>2 DEF CommitWrite, KeepRow, ReplaceRow, Archive
    <2>2. history'[k] = h /\ (j # k => history'[j] = history[j])
      BY <2>1 DEF IInv, TypeOK
    <2>3. QED
      BY <2>1, <2>2
  <1>3. QED
    BY <1>1, <1>2

(* The archive only grows, and only with the payload a version really had.   *)
THEOREM ArchiveFaithful == Spec => HistoryFaithful
  <1>1. ASSUME IInv, [Next]_vars, NEW j \in Key
        PROVE  /\ \A v \in DOMAIN history[j] :
                     v \in DOMAIN history'[j] /\ history'[j][v] = history[j][v]
               /\ \A v \in DOMAIN history'[j] \ DOMAIN history[j] :
                     v = row[j].version /\ history'[j][v] = row[j].payload
    <2>1. CASE history' = history
      BY <2>1
    <2>2. CASE history' # history
      <3>1. PICK p \in Process :
              WriteFallback(p) \/ (\E e \in Entry : WriteNext(p, e)) \/ RollBack(p)
        BY <1>1, <2>2 DEF Next, ProcessStep, vars, ReadPresent, ReadMissing, Conflict,
                          Return, Restart, Corrupt
      <3>2. call[p].at # "idle" /\ call[p] \in Call
        BY <1>1, <3>1 DEF WriteFallback, WriteNext, RollBack, IInv, TypeOK
      <3>3. call[p].key \in Key
        BY <3>2, CallShape
      <3>4. \E w : CommitWrite(p, call[p].key, w)
        BY <3>1 DEF WriteFallback, WriteNext, RollBack
      <3>5. QED
        BY <1>1, <3>3, <3>4, CommitExtendsHistory
    <2>3. QED
      BY <2>1, <2>2
  <1>2. IInv /\ [Next]_vars =>
          [\A k \in Key :
             /\ \A v \in DOMAIN history[k] :
                   v \in DOMAIN history'[k] /\ history'[k][v] = history[k][v]
             /\ \A v \in DOMAIN history'[k] \ DOMAIN history[k] :
                   v = row[k].version /\ history'[k][v] = row[k].payload]_vars
    BY <1>1
  <1>3. QED
    BY <1>2, SpecIInv, PTL DEF Spec, HistoryFaithful

-----------------------------------------------------------------------------
(* The entries of every collection, as the abstract module sees them.        *)
Contents == [k \in Key |-> row[k].payload]

(* A commit of one entry more or less than the row holds is one abstract     *)
(* command.                                                                  *)
LEMMA CommitIsOneCommand ==
    ASSUME IInv, NEW p \in Process, NEW k \in Key, NEW w \in Payload, CommitWrite(p, k, w),
           w = row[k].payload \/ \E e \in Entry : w \in {row[k].payload \cup {e}, row[k].payload \ {e}}
    PROVE  Collections!Next \/ Contents' = Contents
  <1>1. /\ \A j \in Key \ {k} : row'[j] = row[j]
        /\ row'[k].payload = w
    BY CommitWriteEffect
  <1>2. Contents' = [Contents EXCEPT ![k] = w]
    BY <1>1 DEF Contents
  <1>3. Contents[k] = row[k].payload
    BY DEF Contents
  <1>4. CASE w = row[k].payload
    BY <1>2, <1>3, <1>4 DEF Contents
  <1>5. CASE \E e \in Entry : w \in {row[k].payload \cup {e}, row[k].payload \ {e}}
    <2>1. PICK e \in Entry : w \in {Contents[k] \cup {e}, Contents[k] \ {e}}
      BY <1>5, <1>3
    <2>2. Collections!PutEntry(k, e) \/ Collections!DropEntry(k, e)
      BY <1>2, <2>1 DEF Collections!PutEntry, Collections!DropEntry, Contents
    <2>3. QED
      BY <2>2 DEF Collections!Next
  <1>6. QED
    BY <1>4, <1>5

(* The store implements the abstract collections: no update of any process   *)
(* is ever lost, and a roll-back takes back its own entry only.              *)
THEOREM StoreImplementsCollections == Spec => ImplementsCollections
  <1>1. Init => Collections!Init
    BY DEF Init, Collections!Init
  <1>2. ASSUME IInv, [Next]_vars
        PROVE  Collections!Next \/ Contents' = Contents
    <2>0. ASSUME NEW p \in Process, call[p].at # "idle"
          PROVE  call[p].key \in Key
      BY <1>2, <2>0, CallShape DEF IInv, TypeOK
    <2>1. CASE \A k \in Key : row'[k].payload = row[k].payload
      BY <2>1 DEF Contents
    <2>2. CASE ~ \A k \in Key : row'[k].payload = row[k].payload
      <3>1. PICK p \in Process :
              WriteFallback(p) \/ (\E e \in Entry : WriteNext(p, e)) \/ RollBack(p)
        <4>1. row' # row
          BY <2>2
        <4>2. ~ \E k \in Key : Corrupt(k)
          <5>1. SUFFICES ASSUME NEW k \in Key, Corrupt(k)
                         PROVE  \A j \in Key : row'[j].payload = row[j].payload
            BY <2>2
          <5>2. QED
            BY <5>1, <1>2 DEF Corrupt, IInv, TypeOK, Row
        <4>3. QED
          BY <1>2, <4>1, <4>2 DEF Next, ProcessStep, vars, ReadPresent, ReadMissing,
                                  Conflict, Return, Restart
      <3> DEFINE k == call[p].key
      <3>2. /\ k \in Key /\ call[p] \in Call /\ CallFresh(p)
            /\ row[k].payload \in Payload /\ row[k].version \in Nat
        <4>1. call[p].at # "idle"
          BY <3>1 DEF WriteFallback, WriteNext, RollBack
        <4>2. k \in Key /\ call[p] \in Call /\ CallFresh(p)
          BY <1>2, <4>1, <2>0 DEF IInv, TypeOK
        <4>3. row[k] \in Row
          BY <1>2, <4>2 DEF IInv, TypeOK
        <4>4. QED
          BY <4>2, <4>3, MaxVersionAssumption DEF Row, Version
      <3>3. CASE WriteFallback(p)
        <4>1. CommitWrite(p, k, {}) /\ observed[p][k] = 0 /\ {} \in Payload
          BY <3>2, <3>3 DEF WriteFallback, Fallback, CallFresh, Payload
        <4>2. row[k].version = 0
          BY <4>1, UnreadAssumption DEF CommitWrite, WriteAllowed
        <4>3. row[k].payload = {}
          BY <1>2, <3>2, <4>2 DEF IInv, AbsentEmpty, Present
        <4>4. QED
          BY <1>2, <3>2, <4>1, <4>3, CommitIsOneCommand
      <3>4. ASSUME NEW e \in Entry, WriteNext(p, e)
            PROVE  Collections!Next \/ Contents' = Contents
        <4>1. PICK w \in {call[p].basis \cup {e}, call[p].basis \ {e}} : CommitWrite(p, k, w)
          BY <3>4 DEF WriteNext
        <4>2. call[p].basis = row[k].payload
          BY <3>2, <3>4, <4>1 DEF WriteNext, CommitWrite, WriteAllowed, CallFresh
        <4>3. w \in Payload
          BY <3>2, <4>1, <4>2 DEF Payload
        <4>4. QED
          BY <1>2, <3>2, <4>1, <4>2, <4>3, CommitIsOneCommand
      <3>5. CASE RollBack(p)
        <4>1. CommitWrite(p, k, call[p].basis)
          BY <3>5 DEF RollBack
        <4>2. call[p].next = row[k].payload
          BY <3>2, <3>5, <4>1 DEF RollBack, CommitWrite, WriteAllowed, CallFresh
        <4>3. PICK e \in Entry :
                row[k].payload \in {call[p].basis \cup {e}, call[p].basis \ {e}}
          BY <3>2, <3>5, <4>2 DEF RollBack, CallFresh
        <4>4. \/ call[p].basis = row[k].payload
              \/ call[p].basis \in {row[k].payload \cup {e}, row[k].payload \ {e}}
          BY <4>3
        <4>5. call[p].basis \in Payload
          BY <3>2, <3>5, CallShape DEF RollBack
        <4>6. QED
          BY <1>2, <3>2, <4>1, <4>4, <4>5, CommitIsOneCommand
      <3>6. QED
        BY <3>1, <3>3, <3>4, <3>5
    <2>3. QED
      BY <2>1, <2>2
  <1>3. IInv /\ [Next]_vars => [Collections!Next]_([k \in Key |-> row[k].payload])
    BY <1>2 DEF Contents
  <1>4. QED
    BY <1>1, <1>3, SpecIInv, PTL DEF Spec, ImplementsCollections, Collections!Spec
=============================================================================
