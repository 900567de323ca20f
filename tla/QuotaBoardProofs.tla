-------------------------- MODULE QuotaBoardProofs --------------------------
(***************************************************************************)
(* Proofs about QuotaBoard, for any requests, accounts, sessions and       *)
(* workers, and any number of failing file operations and crashes.         *)
(***************************************************************************)
EXTENDS QuotaBoard, SubsequencesProofs, SequenceTheorems

-----------------------------------------------------------------------------
(***************************************************************************)
(* The database and what an update makes of it.                            *)
(***************************************************************************)
\* The updates handlers and workers ask for.
CallUpdates ==
    [request : Requests, worker : {0}, op : {"add"}, account : AccountIds, key : Keys,
     room : Rooms]
        \cup [request : Requests, worker : {0}, op : {"remove"}, account : AccountIds]
        \cup [request : Requests, worker : {0}, op : {"issue"}, session : Sessions,
              account : AccountIds]
        \cup [request : Requests, worker : {0}, op : {"event"}, account : AccountIds]
SyncUpdates ==
    [request : Requests, worker : 1..Workers, op : {"sync"}, account : AccountIds, room : Rooms]
FlagUpdates ==
    [request : Requests, worker : 1..Workers, op : {"flag"}, account : AccountIds]
UpdateRows == CallUpdates \cup SyncUpdates \cup FlagUpdates

\* At most one lease of a session is active, position by position.
OneActive(leases) ==
    \A i, j \in 1..Len(leases) :
        /\ leases[i].active /\ leases[j].active
        /\ leases[i].session = leases[j].session
        => i = j

\* A history is a sequence of rooms, neither empty nor longer than the cap.
LEMMA HistoryType ==
    ASSUME NEW h
    PROVE  h \in Histories <=> h \in Seq(Rooms) /\ Len(h) \in 1..HistoryCap
  <1>1. HistoryCap \in Nat
    BY QuotaBoardAssumption
  <1>2. ASSUME h \in Histories PROVE h \in Seq(Rooms) /\ Len(h) \in 1..HistoryCap
    <2>1. PICK n \in 1..HistoryCap : h \in [1..n -> Rooms]
      BY <1>2 DEF Histories
    <2> QED BY <1>1, <2>1
  <1>3. ASSUME h \in Seq(Rooms), Len(h) \in 1..HistoryCap PROVE h \in Histories
    <2>1. h \in [1..Len(h) -> Rooms]
      BY <1>3
    <2> QED BY <1>3, <2>1 DEF Histories
  <1> QED BY <1>2, <1>3

\* t is the end of s that follows the first k elements.
EndOf(s, t, k) == \A i \in 1..Len(t) : k + i \in 1..Len(s) /\ t[i] = s[k + i]

\* slice(-n) keeps the end of a sequence.
LEMMA SuffixOf ==
    ASSUME NEW S, NEW s \in Seq(S), NEW n \in Nat \ {0}
    PROVE  /\ Suffix(s, n) \in Seq(S) /\ Len(Suffix(s, n)) <= n
           /\ s # <<>> => Len(Suffix(s, n)) >= 1
           /\ \E k \in Nat : EndOf(s, Suffix(s, n), k)
  <1>1. CASE Len(s) <= n
    <2>1. Suffix(s, n) = s
      BY <1>1 DEF Suffix
    <2>2. EndOf(s, s, 0)
      BY DEF EndOf
    <2> QED BY <1>1, <2>1, <2>2
  <1>2. CASE ~(Len(s) <= n)
    <2> DEFINE k == Len(s) - n
    <2>1. Len(s) \in Nat /\ k \in Nat /\ Suffix(s, n) = SubSeq(s, k + 1, Len(s))
      BY <1>2 DEF Suffix
    <2>2. /\ SubSeq(s, k + 1, Len(s)) \in Seq(S)
          /\ Len(SubSeq(s, k + 1, Len(s))) = Len(s) - k
          /\ \A i \in 1..Len(s) - k : SubSeq(s, k + 1, Len(s))[i] = s[k + i]
      BY <2>1
    <2>3. \A i \in 1..Len(s) - k : k + i \in 1..Len(s)
      BY <2>1
    <2>4. Len(s) - k = n
      BY <2>1
    <2> HIDE DEF k
    <2>5. Suffix(s, n) \in Seq(S) /\ Len(Suffix(s, n)) = n
      BY <2>1, <2>2, <2>4
    <2>6. EndOf(s, Suffix(s, n), k)
      BY <2>1, <2>2, <2>3, <2>4, <2>5 DEF EndOf
    <2> QED BY <2>1, <2>5, <2>6
  <1> QED BY <1>1, <1>2

\* Position by position and session by session are the same.
LEMMA ActiveLeasesOf ==
    ASSUME NEW db \in Databases
    PROVE  AtMostOneActive(db) <=> OneActive(db.leases)
  <1>1. /\ db.leases \in Seq(LeaseRows) /\ Len(db.leases) \in Nat
        /\ \A i \in 1..Len(db.leases) : db.leases[i] \in LeaseRows
    BY DEF Databases
  <1>2. ASSUME NEW s \in Sessions
        PROVE  IsFiniteSet(ActiveLeases(db, s))
    <2>1. IsFiniteSet(1..Len(db.leases))
      BY <1>1, FS_Interval
    <2> QED BY <2>1, FS_Subset DEF ActiveLeases
  <1>3. ASSUME AtMostOneActive(db), NEW i \in 1..Len(db.leases), NEW j \in 1..Len(db.leases),
               db.leases[i].active, db.leases[j].active,
               db.leases[i].session = db.leases[j].session, i # j
        PROVE  FALSE
    <2>1. PICK s \in Sessions : s = db.leases[i].session
      BY <1>1 DEF LeaseRows
    <2>2. {i, j} \in SUBSET ActiveLeases(db, s)
      BY <1>3, <2>1 DEF ActiveLeases
    <2>3. Cardinality({i, j}) = 2
      <3>1. IsFiniteSet({i}) /\ Cardinality({i}) = 1
        BY FS_Singleton
      <3>2. Cardinality({i} \cup {j}) = Cardinality({i}) + 1
        BY <1>3, <3>1, FS_AddElement
      <3>3. {i} \cup {j} = {i, j}
        OBVIOUS
      <3> QED BY <3>1, <3>2, <3>3
    <2>4. Cardinality({i, j}) <= Cardinality(ActiveLeases(db, s))
      BY <1>2, <2>2, FS_Subset
    <2>5. Cardinality(ActiveLeases(db, s)) <= 1
      BY <1>3 DEF AtMostOneActive
    <2>6. Cardinality(ActiveLeases(db, s)) \in Nat
      BY <1>2, FS_CardinalityType
    <2> QED BY <2>3, <2>4, <2>5, <2>6
  <1>4. ASSUME OneActive(db.leases), NEW s \in Sessions
        PROVE  Cardinality(ActiveLeases(db, s)) <= 1
    <2>1. CASE ActiveLeases(db, s) = {}
      BY <2>1, FS_EmptySet
    <2>2. ASSUME NEW i \in ActiveLeases(db, s) PROVE Cardinality(ActiveLeases(db, s)) = 1
      <3>1. ActiveLeases(db, s) = {i}
        BY <1>4 DEF OneActive, ActiveLeases
      <3> QED BY <3>1, FS_Singleton
    <2>3. PICK n \in {0, 1} : n = Cardinality(ActiveLeases(db, s))
      <3>1. Cardinality(ActiveLeases(db, s)) = 0 \/ Cardinality(ActiveLeases(db, s)) = 1
        BY <2>1, <2>2, FS_EmptySet
      <3> QED BY <3>1
    <2> QED BY <2>3
  <1> QED BY <1>3, <1>4 DEF OneActive, AtMostOneActive

\* Rows that are taken out, and rows that slice() cuts off, leave one active lease.
LEMMA FewerLeases ==
    ASSUME NEW rows \in Seq(LeaseRows), OneActive(rows)
    PROVE  /\ \A P \in SUBSET (1..Len(rows)) :
                 PickAt(rows, P) \in Seq(LeaseRows) /\ OneActive(PickAt(rows, P))
           /\ \A n \in Nat \ {0} : OneActive(Suffix(rows, n))
  <1>1. ASSUME NEW P \in SUBSET (1..Len(rows))
        PROVE  PickAt(rows, P) \in Seq(LeaseRows) /\ OneActive(PickAt(rows, P))
    <2> DEFINE t == PickAt(rows, P)
               C == Cardinality(P)
    <2>1. t \in Seq(LeaseRows) /\ Len(t) = C /\ C \in Nat
      BY PickAtPositions
    <2>2. PICK at : Picks(rows, P, at)
      BY PickAtPositions
    <2>3. /\ \A m \in 1..C : at[m] \in 1..Len(rows) /\ t[m] = rows[at[m]]
          /\ \A l, m \in 1..C : l < m => at[l] < at[m]
      BY <2>2 DEF Picks
    <2> HIDE DEF t, C
    <2>4. ASSUME NEW l \in 1..C, NEW m \in 1..C, t[l].active, t[m].active,
                 t[l].session = t[m].session, l # m
          PROVE  FALSE
      <3>1. at[l] = at[m]
        BY <2>3, <2>4 DEF OneActive
      <3>2. at[l] \in Int /\ at[m] \in Int /\ l \in Int /\ m \in Int
        BY <2>3
      <3>3. l < m \/ m < l
        BY <2>4, <3>2
      <3> QED BY <2>3, <3>1, <3>2, <3>3
    <2> QED BY <2>1, <2>4 DEF OneActive, t
  <1>2. ASSUME NEW n \in Nat \ {0} PROVE OneActive(Suffix(rows, n))
    <2> DEFINE t == Suffix(rows, n)
    <2>1. PICK k \in Nat : EndOf(rows, t, k)
      BY SuffixOf
    <2>2. Len(t) \in Nat
      BY SuffixOf
    <2> HIDE DEF t
    <2>3. ASSUME NEW i \in 1..Len(t), NEW j \in 1..Len(t), t[i].active, t[j].active,
                 t[i].session = t[j].session
          PROVE  i = j
      <3>1. k + i = k + j
        BY <2>1, <2>3 DEF EndOf, OneActive
      <3> QED BY <2>2, <3>1
    <2> QED BY <2>3 DEF OneActive, t
  <1> QED BY <1>1, <1>2

\* Every active lease of the session is rotated before the new one is added.
LEMMA RotationKeeps ==
    ASSUME NEW leases \in Seq(LeaseRows), OneActive(leases), NEW u,
           u.session \in Sessions, u.account \in AccountIds,
           NEW rows,
           rows = Append(Rotated(u, leases),
                         [session |-> u.session, account |-> u.account, active |-> TRUE])
    PROVE  rows \in Seq(LeaseRows) /\ OneActive(rows) /\ Len(rows) = Len(leases) + 1
  <1> DEFINE n == Len(leases)
             turned == Rotated(u, leases)
  <1>1. n \in Nat /\ \A i \in 1..n : leases[i] \in LeaseRows
    OBVIOUS
  <1>2. ASSUME NEW i \in 1..n
        PROVE  /\ turned[i] \in LeaseRows /\ turned[i].session = leases[i].session
               /\ turned[i].active => leases[i].active /\ leases[i].session # u.session
    <2>1. CASE leases[i].session = u.session
      <3>1. turned[i] = [leases[i] EXCEPT !.active = FALSE]
        BY <2>1 DEF Rotated
      <3> QED BY <1>1, <3>1 DEF LeaseRows
    <2>2. CASE leases[i].session # u.session
      <3>1. turned[i] = leases[i]
        BY <2>2 DEF Rotated
      <3> QED BY <1>1, <2>2, <3>1
    <2> QED BY <2>1, <2>2
  <1>3. turned \in Seq(LeaseRows) /\ Len(turned) = n
    <2>1. turned = [i \in 1..n |-> turned[i]]
      BY DEF Rotated
    <2> QED BY <1>1, <1>2, <2>1
  <1> DEFINE lease == [session |-> u.session, account |-> u.account, active |-> TRUE]
  <1>4. lease \in LeaseRows /\ lease.session = u.session
    BY DEF LeaseRows
  <1> HIDE DEF turned, lease
  <1>5. rows = Append(turned, lease)
    BY DEF turned, lease
  <1>6. /\ rows \in Seq(LeaseRows) /\ Len(rows) = n + 1 /\ rows[n + 1] = lease
        /\ \A i \in 1..n : rows[i] = turned[i]
    BY ONLY <1>3, <1>4, <1>5, AppendProperties
  <1>7. ASSUME NEW i \in 1..n + 1, NEW j \in 1..n + 1, rows[i].active, rows[j].active,
               rows[i].session = rows[j].session
        PROVE  i = j
    <2>1. CASE i \in 1..n /\ j \in 1..n
      BY <1>2, <1>6, <1>7, <2>1 DEF OneActive
    <2>2. CASE i = n + 1 /\ j \in 1..n
      BY <1>2, <1>4, <1>6, <1>7, <2>2
    <2>3. CASE i \in 1..n /\ j = n + 1
      BY <1>2, <1>4, <1>6, <1>7, <2>3
    <2> QED BY <1>1, <2>1, <2>2, <2>3
  <1> QED BY <1>6, <1>7 DEF OneActive

-----------------------------------------------------------------------------
\* Functions over some of the accounts.
LEMMA Extended ==
    ASSUME NEW R, NEW f \in UNION {[D -> R] : D \in SUBSET AccountIds}, NEW a \in AccountIds,
           NEW g, DOMAIN g = DOMAIN f \cup {a}, g = [x \in DOMAIN g |-> g[x]],
           \A x \in DOMAIN g : g[x] \in R
    PROVE  g \in UNION {[D -> R] : D \in SUBSET AccountIds}
  <1>1. DOMAIN f \in SUBSET AccountIds
    OBVIOUS
  <1>2. DOMAIN g \in SUBSET AccountIds
    BY <1>1
  <1>3. g \in [DOMAIN g -> R]
    OBVIOUS
  <1> QED BY <1>2, <1>3

\* What an update must keep for the file to stay a sound database.
Sound(db) == db \in Databases /\ OneActive(db.leases) /\ SameAccounts(db)

\* The parts of a database.
LEMMA DatabaseParts ==
    ASSUME NEW db \in Databases
    PROVE  /\ DOMAIN db.accounts \subseteq AccountIds /\ DOMAIN db.snapshots \subseteq AccountIds
           /\ db.accounts \in [DOMAIN db.accounts -> AccountRows]
           /\ db.snapshots \in [DOMAIN db.snapshots -> Histories]
           /\ db.leases \in Seq(LeaseRows) /\ Len(db.leases) <= LeaseCap
           /\ db.telemetry \in Seq(EventRows) /\ Len(db.telemetry) <= EventCap
           /\ db.accounts \in UNION {[D -> AccountRows] : D \in SUBSET AccountIds}
           /\ db.snapshots \in UNION {[D -> Histories] : D \in SUBSET AccountIds}
           /\ db = [accounts |-> db.accounts, snapshots |-> db.snapshots,
                    leases |-> db.leases, telemetry |-> db.telemetry]
  <1>1. /\ db.accounts \in UNION {[D -> AccountRows] : D \in SUBSET AccountIds}
        /\ db.snapshots \in UNION {[D -> Histories] : D \in SUBSET AccountIds}
        /\ db.leases \in Seq(LeaseRows) /\ Len(db.leases) <= LeaseCap
        /\ db.telemetry \in Seq(EventRows) /\ Len(db.telemetry) <= EventCap
    BY DEF Databases
  <1>2. DOMAIN db.accounts \subseteq AccountIds /\ db.accounts \in [DOMAIN db.accounts -> AccountRows]
    BY <1>1
  <1>3. /\ DOMAIN db.snapshots \subseteq AccountIds
        /\ db.snapshots \in [DOMAIN db.snapshots -> Histories]
    BY <1>1
  <1>4. db = [accounts |-> db.accounts, snapshots |-> db.snapshots,
              leases |-> db.leases, telemetry |-> db.telemetry]
    BY DEF Databases
  <1> QED BY <1>1, <1>2, <1>3, <1>4

\* A database put together from its parts.
LEMMA DatabaseOf ==
    ASSUME NEW accounts \in UNION {[D -> AccountRows] : D \in SUBSET AccountIds},
           NEW snapshots \in UNION {[D -> Histories] : D \in SUBSET AccountIds},
           NEW leases \in Seq(LeaseRows), Len(leases) <= LeaseCap,
           NEW telemetry \in Seq(EventRows), Len(telemetry) <= EventCap,
           NEW db, db = [accounts |-> accounts, snapshots |-> snapshots,
                         leases |-> leases, telemetry |-> telemetry]
    PROVE  /\ db \in Databases
           /\ db.accounts = accounts /\ db.snapshots = snapshots
           /\ db.leases = leases /\ db.telemetry = telemetry
  BY DEF Databases

\* A database of which the accounts and the snapshots are replaced.
LEMMA BothReplaced ==
    ASSUME NEW db \in Databases, NEW accounts, NEW snapshots
    PROVE  [db EXCEPT !.accounts = accounts, !.snapshots = snapshots]
              = [accounts |-> accounts, snapshots |-> snapshots,
                 leases |-> db.leases, telemetry |-> db.telemetry]
  <1>1. db = [accounts |-> db.accounts, snapshots |-> db.snapshots,
              leases |-> db.leases, telemetry |-> db.telemetry]
    BY DatabaseParts
  <1>2. [db EXCEPT !.accounts = accounts]
           = [accounts |-> accounts, snapshots |-> db.snapshots,
              leases |-> db.leases, telemetry |-> db.telemetry]
    BY <1>1
  <1> DEFINE first == [db EXCEPT !.accounts = accounts]
  <1>3. [first EXCEPT !.snapshots = snapshots]
           = [accounts |-> accounts, snapshots |-> snapshots,
              leases |-> db.leases, telemetry |-> db.telemetry]
    <2>1. first = [accounts |-> accounts, snapshots |-> db.snapshots,
                   leases |-> db.leases, telemetry |-> db.telemetry]
      BY <1>2
    <2> HIDE DEF first
    <2> QED BY ONLY <2>1
  <1> QED BY <1>3

\* An account is added with its first snapshot.
LEMMA AddSound ==
    ASSUME NEW db, Sound(db), NEW u, u.account \in AccountIds, u.key \in Keys, u.room \in Rooms
    PROVE  Sound(AddAccount(u, db))
  <1> DEFINE accounts == [a \in DOMAIN db.accounts \cup {u.account} |->
                             IF a = u.account THEN [key |-> u.key, healthy |-> TRUE]
                             ELSE db.accounts[a]]
             snapshots == [a \in DOMAIN db.snapshots \cup {u.account} |->
                             IF a = u.account THEN <<u.room>> ELSE db.snapshots[a]]
             new == AddAccount(u, db)
  <1>1. db \in Databases /\ OneActive(db.leases) /\ DOMAIN db.snapshots = DOMAIN db.accounts
    BY DEF Sound, SameAccounts
  <1>2. new = [accounts |-> accounts, snapshots |-> snapshots,
               leases |-> db.leases, telemetry |-> db.telemetry]
    <2>1. new = [db EXCEPT !.accounts = accounts, !.snapshots = snapshots]
      BY DEF AddAccount
    <2> HIDE DEF new, accounts, snapshots
    <2> QED BY <1>1, <2>1, BothReplaced
  <1>3. <<u.room>> \in Histories
    <2>1. <<u.room>> \in Seq(Rooms) /\ Len(<<u.room>>) = 1 /\ HistoryCap \in Nat \ {0}
      BY QuotaBoardAssumption
    <2>2. Len(<<u.room>>) \in 1..HistoryCap
      BY <2>1
    <2> QED BY <2>1, <2>2, HistoryType
  <1>4. accounts \in UNION {[D -> AccountRows] : D \in SUBSET AccountIds}
    <2>1. \A a \in DOMAIN accounts : accounts[a] \in AccountRows
      BY <1>1, DatabaseParts DEF AccountRows
    <2>2. DOMAIN accounts = DOMAIN db.accounts \cup {u.account}
          /\ accounts = [a \in DOMAIN accounts |-> accounts[a]]
      OBVIOUS
    <2> HIDE DEF accounts
    <2> QED BY <1>1, <2>1, <2>2, DatabaseParts, Extended
  <1>5. snapshots \in UNION {[D -> Histories] : D \in SUBSET AccountIds}
    <2>1. \A a \in DOMAIN snapshots : snapshots[a] \in Histories
      BY <1>1, <1>3, DatabaseParts
    <2>2. DOMAIN snapshots = DOMAIN db.snapshots \cup {u.account}
          /\ snapshots = [a \in DOMAIN snapshots |-> snapshots[a]]
      OBVIOUS
    <2> HIDE DEF snapshots
    <2> QED BY <1>1, <2>1, <2>2, DatabaseParts, Extended
  <1>6. DOMAIN snapshots = DOMAIN accounts
    BY <1>1
  <1> HIDE DEF accounts, snapshots, new
  <1>7. /\ new \in Databases /\ new.accounts = accounts /\ new.snapshots = snapshots
        /\ new.leases = db.leases
    BY <1>1, <1>2, <1>4, <1>5, DatabaseParts, DatabaseOf
  <1> QED BY <1>1, <1>6, <1>7 DEF Sound, SameAccounts, new

\* A snapshot is added for an account that is there, the oldest one cut off.
LEMMA SyncSound ==
    ASSUME NEW db, Sound(db), NEW u, u.account \in DOMAIN db.accounts, u.room \in Rooms
    PROVE  Sound(SyncAccount(u, db))
  <1> DEFINE accounts == [db.accounts EXCEPT ![u.account].healthy = TRUE]
             latest == Suffix(Append(History(db, u.account), u.room), HistoryCap)
             snapshots == [a \in DOMAIN db.snapshots \cup {u.account} |->
                             IF a = u.account THEN latest ELSE db.snapshots[a]]
             new == SyncAccount(u, db)
  <1>1. /\ db \in Databases /\ OneActive(db.leases) /\ DOMAIN db.snapshots = DOMAIN db.accounts
        /\ u.account \in AccountIds
    BY DatabaseParts DEF Sound, SameAccounts
  <1>2. new = [accounts |-> accounts, snapshots |-> snapshots,
               leases |-> db.leases, telemetry |-> db.telemetry]
    <2>1. new = [db EXCEPT !.accounts = accounts, !.snapshots = snapshots]
      BY DEF SyncAccount
    <2> HIDE DEF new, accounts, snapshots
    <2> QED BY <1>1, <2>1, BothReplaced
  <1>3. latest \in Histories
    <2> DEFINE history == History(db, u.account)
               longer == Append(history, u.room)
    <2>1. history \in Seq(Rooms)
      BY <1>1, DatabaseParts, HistoryType DEF History
    <2> HIDE DEF history
    <2>2. longer \in Seq(Rooms) /\ longer # <<>>
      BY <2>1, AppendProperties
    <2> HIDE DEF longer
    <2>3. HistoryCap \in Nat \ {0}
      BY QuotaBoardAssumption
    <2>4. /\ Suffix(longer, HistoryCap) \in Seq(Rooms)
          /\ Len(Suffix(longer, HistoryCap)) <= HistoryCap
          /\ Len(Suffix(longer, HistoryCap)) >= 1
      BY <2>2, <2>3, SuffixOf
    <2>5. Len(Suffix(longer, HistoryCap)) \in 1..HistoryCap
      BY <2>3, <2>4
    <2> QED BY <2>4, <2>5, HistoryType DEF longer, history
  <1> HIDE DEF latest
  <1>4. accounts \in UNION {[D -> AccountRows] : D \in SUBSET AccountIds}
    <2>1. accounts \in [DOMAIN db.accounts -> AccountRows]
      <3>1. db.accounts \in [DOMAIN db.accounts -> AccountRows]
        BY <1>1, DatabaseParts
      <3>2. [db.accounts[u.account] EXCEPT !.healthy = TRUE] \in AccountRows
        BY <3>1 DEF AccountRows
      <3> QED BY <3>1, <3>2
    <2> QED BY <1>1, <2>1, DatabaseParts
  <1>5. snapshots \in UNION {[D -> Histories] : D \in SUBSET AccountIds}
    <2>1. \A a \in DOMAIN snapshots : snapshots[a] \in Histories
      BY <1>1, <1>3, DatabaseParts
    <2>2. DOMAIN snapshots = DOMAIN db.snapshots \cup {u.account}
          /\ snapshots = [a \in DOMAIN snapshots |-> snapshots[a]]
      OBVIOUS
    <2> HIDE DEF snapshots
    <2> QED BY <1>1, <2>1, <2>2, DatabaseParts, Extended
  <1>6. DOMAIN snapshots = DOMAIN accounts
    BY <1>1
  <1> HIDE DEF accounts, snapshots, new
  <1>7. /\ new \in Databases /\ new.accounts = accounts /\ new.snapshots = snapshots
        /\ new.leases = db.leases
    <2>1. /\ db.leases \in Seq(LeaseRows) /\ Len(db.leases) <= LeaseCap
          /\ db.telemetry \in Seq(EventRows) /\ Len(db.telemetry) <= EventCap
      BY <1>1, DatabaseParts
    <2> QED BY ONLY <1>2, <1>4, <1>5, <2>1, DatabaseOf
  <1> QED BY <1>1, <1>6, <1>7 DEF Sound, SameAccounts, new

\* An account that is there is marked.
LEMMA FlagSound ==
    ASSUME NEW db, Sound(db), NEW u, u.account \in DOMAIN db.accounts
    PROVE  Sound(FlagAccount(u, db))
  <1> DEFINE accounts == [db.accounts EXCEPT ![u.account].healthy = FALSE]
             new == FlagAccount(u, db)
  <1>1. db \in Databases /\ OneActive(db.leases) /\ DOMAIN db.snapshots = DOMAIN db.accounts
    BY DEF Sound, SameAccounts
  <1>2. new = [accounts |-> accounts, snapshots |-> db.snapshots,
               leases |-> db.leases, telemetry |-> db.telemetry]
    <2>1. new = [db EXCEPT !.accounts = accounts]
      BY DEF FlagAccount
    <2> HIDE DEF new, accounts
    <2> QED BY <1>1, <2>1, DatabaseParts
  <1>3. accounts \in [DOMAIN db.accounts -> AccountRows]
    <2>1. db.accounts \in [DOMAIN db.accounts -> AccountRows]
      BY <1>1, DatabaseParts
    <2>2. [db.accounts[u.account] EXCEPT !.healthy = FALSE] \in AccountRows
      BY <2>1 DEF AccountRows
    <2> QED BY <2>1, <2>2
  <1>4. accounts \in UNION {[D -> AccountRows] : D \in SUBSET AccountIds}
    BY <1>1, <1>3, DatabaseParts
  <1>5. DOMAIN db.snapshots = DOMAIN accounts
    BY <1>1
  <1> HIDE DEF accounts, new
  <1>6. /\ new \in Databases /\ new.accounts = accounts /\ new.snapshots = db.snapshots
        /\ new.leases = db.leases
    BY <1>1, <1>2, <1>4, DatabaseParts, DatabaseOf
  <1> QED BY <1>1, <1>5, <1>6 DEF Sound, SameAccounts, new

\* An account leaves with its snapshots, leases and events.
LEMMA RemoveSound ==
    ASSUME NEW db, Sound(db), NEW u
    PROVE  Sound(RemoveAccount(u, db))
  <1> DEFINE accounts == [a \in DOMAIN db.accounts \ {u.account} |-> db.accounts[a]]
             snapshots == [a \in DOMAIN db.snapshots \ {u.account} |-> db.snapshots[a]]
             P == {i \in 1..Len(db.leases) : db.leases[i].account # u.account}
             Q == {i \in 1..Len(db.telemetry) : db.telemetry[i].account # u.account}
             new == RemoveAccount(u, db)
  <1>1. db \in Databases /\ OneActive(db.leases) /\ DOMAIN db.snapshots = DOMAIN db.accounts
    BY DEF Sound, SameAccounts
  <1>2. new = [accounts |-> accounts, snapshots |-> snapshots,
               leases |-> PickAt(db.leases, P), telemetry |-> PickAt(db.telemetry, Q)]
    BY DEF RemoveAccount
  <1>3. accounts \in UNION {[D -> AccountRows] : D \in SUBSET AccountIds}
    <2>1. accounts \in [DOMAIN accounts -> AccountRows] /\ DOMAIN accounts \in SUBSET AccountIds
      BY <1>1, DatabaseParts
    <2> QED BY <2>1
  <1>4. snapshots \in UNION {[D -> Histories] : D \in SUBSET AccountIds}
    <2>1. snapshots \in [DOMAIN snapshots -> Histories] /\ DOMAIN snapshots \in SUBSET AccountIds
      BY <1>1, DatabaseParts
    <2> QED BY <2>1
  <1>5. DOMAIN snapshots = DOMAIN accounts
    BY <1>1
  <1>6. P \in SUBSET (1..Len(db.leases)) /\ Q \in SUBSET (1..Len(db.telemetry))
    OBVIOUS
  <1> HIDE DEF accounts, snapshots, new, P, Q
  <1>7. ASSUME NEW S, NEW t \in Seq(S), NEW R \in SUBSET (1..Len(t))
        PROVE  PickAt(t, R) \in Seq(S) /\ Len(PickAt(t, R)) <= Len(t)
    <2>1. IsFiniteSet(1..Len(t)) /\ Cardinality(1..Len(t)) = Len(t)
      <3>1. /\ IsFiniteSet(1..Len(t))
            /\ Cardinality(1..Len(t)) = IF 1 > Len(t) THEN 0 ELSE Len(t) - 1 + 1
        BY FS_Interval
      <3> QED BY <3>1
    <2>2. Cardinality(R) <= Cardinality(1..Len(t))
      BY <2>1, FS_Subset
    <2> QED BY <2>1, <2>2, PickAtPositions
  <1>8. /\ PickAt(db.leases, P) \in Seq(LeaseRows) /\ OneActive(PickAt(db.leases, P))
        /\ Len(PickAt(db.leases, P)) <= LeaseCap
    <2>1. /\ PickAt(db.leases, P) \in Seq(LeaseRows) /\ OneActive(PickAt(db.leases, P))
          /\ Len(PickAt(db.leases, P)) <= Len(db.leases) /\ Len(db.leases) <= LeaseCap
      BY <1>1, <1>6, <1>7, DatabaseParts, FewerLeases
    <2> DEFINE t == PickAt(db.leases, P)
    <2> HIDE DEF t
    <2>2. Len(t) \in Nat /\ Len(db.leases) \in Nat /\ LeaseCap \in Nat
      <3>1. db.leases \in Seq(LeaseRows) /\ t \in Seq(LeaseRows)
        BY <1>1, <2>1, DatabaseParts DEF t
      <3> QED BY <3>1, QuotaBoardAssumption
    <2>3. Len(t) <= Len(db.leases) /\ Len(db.leases) <= LeaseCap
      BY <2>1 DEF t
    <2>4. Len(t) <= LeaseCap
      BY ONLY <2>2, <2>3
    <2> QED BY <2>1, <2>4 DEF t
  <1>9. PickAt(db.telemetry, Q) \in Seq(EventRows) /\ Len(PickAt(db.telemetry, Q)) <= EventCap
    <2>1. /\ PickAt(db.telemetry, Q) \in Seq(EventRows)
          /\ Len(PickAt(db.telemetry, Q)) <= Len(db.telemetry) /\ Len(db.telemetry) <= EventCap
      BY <1>1, <1>6, <1>7, DatabaseParts
    <2> DEFINE t == PickAt(db.telemetry, Q)
    <2> HIDE DEF t
    <2>2. Len(t) \in Nat /\ Len(db.telemetry) \in Nat /\ EventCap \in Nat
      <3>1. db.telemetry \in Seq(EventRows) /\ t \in Seq(EventRows)
        BY <1>1, <2>1, DatabaseParts DEF t
      <3> QED BY <3>1, QuotaBoardAssumption
    <2>3. Len(t) <= Len(db.telemetry) /\ Len(db.telemetry) <= EventCap
      BY <2>1 DEF t
    <2>4. Len(t) <= EventCap
      BY ONLY <2>2, <2>3
    <2> QED BY <2>1, <2>4 DEF t
  <1>10. /\ new \in Databases /\ new.accounts = accounts /\ new.snapshots = snapshots
         /\ new.leases = PickAt(db.leases, P)
    BY <1>2, <1>3, <1>4, <1>8, <1>9, DatabaseOf, SMTT(30)
  <1> QED BY <1>5, <1>8, <1>10 DEF Sound, SameAccounts, new

\* A lease replaces the active one of its session.
LEMMA IssueSound ==
    ASSUME NEW db, Sound(db), NEW u, u.session \in Sessions, u.account \in AccountIds,
           NEW old
    PROVE  Sound(IssueLease(u, db, old))
  <1> DEFINE rows == Append(Rotated(u, db.leases),
                            [session |-> u.session, account |-> u.account, active |-> TRUE])
             kept == PickAt(rows, (1..Len(rows)) \ old)
             leases == Suffix(kept, LeaseCap)
             new == IssueLease(u, db, old)
  <1>1. db \in Databases /\ OneActive(db.leases) /\ DOMAIN db.snapshots = DOMAIN db.accounts
    BY DEF Sound, SameAccounts
  <1>2. new = [accounts |-> db.accounts, snapshots |-> db.snapshots,
               leases |-> leases, telemetry |-> db.telemetry]
    BY <1>1, DatabaseParts DEF IssueLease
  <1>3. rows \in Seq(LeaseRows) /\ OneActive(rows)
    BY <1>1, DatabaseParts, RotationKeeps
  <1> HIDE DEF rows
  <1>4. kept \in Seq(LeaseRows) /\ OneActive(kept)
    <2>1. (1..Len(rows)) \ old \in SUBSET (1..Len(rows))
      OBVIOUS
    <2> QED BY <1>3, <2>1, FewerLeases
  <1> HIDE DEF kept
  <1>5. leases \in Seq(LeaseRows) /\ OneActive(leases) /\ Len(leases) <= LeaseCap
    <2>1. LeaseCap \in Nat \ {0}
      BY QuotaBoardAssumption
    <2> QED BY <1>4, <2>1, FewerLeases, SuffixOf
  <1> HIDE DEF leases, new
  <1>6. /\ new \in Databases /\ new.accounts = db.accounts /\ new.snapshots = db.snapshots
        /\ new.leases = leases
    <2>1. /\ db.accounts \in UNION {[D -> AccountRows] : D \in SUBSET AccountIds}
          /\ db.snapshots \in UNION {[D -> Histories] : D \in SUBSET AccountIds}
          /\ db.telemetry \in Seq(EventRows) /\ Len(db.telemetry) <= EventCap
      BY <1>1, DatabaseParts
    <2>2. leases \in Seq(LeaseRows) /\ Len(leases) <= LeaseCap
      BY <1>5
    <2>3. PICK a, s, t : a = db.accounts /\ s = db.snapshots /\ t = db.telemetry
      OBVIOUS
    <2>4. new = [accounts |-> a, snapshots |-> s, leases |-> leases, telemetry |-> t]
      BY <1>2, <2>3
    <2>5. /\ a \in UNION {[D -> AccountRows] : D \in SUBSET AccountIds}
          /\ s \in UNION {[D -> Histories] : D \in SUBSET AccountIds}
          /\ t \in Seq(EventRows) /\ Len(t) <= EventCap
      BY <2>1, <2>3
    <2>6. new \in Databases
      BY ONLY <2>2, <2>4, <2>5 DEF Databases
    <2>7. new.accounts = a /\ new.snapshots = s /\ new.leases = leases
      BY ONLY <2>4
    <2> QED BY <2>3, <2>6, <2>7
  <1> QED BY <1>1, <1>5, <1>6 DEF Sound, SameAccounts, new

\* An event is added, the oldest one cut off.
LEMMA EventSound ==
    ASSUME NEW db, Sound(db), NEW u, u.account \in AccountIds
    PROVE  Sound(AddEvent(u, db))
  <1> DEFINE longer == Append(db.telemetry, [account |-> u.account])
             telemetry == Suffix(longer, EventCap)
             new == AddEvent(u, db)
  <1>1. db \in Databases /\ OneActive(db.leases) /\ DOMAIN db.snapshots = DOMAIN db.accounts
    BY DEF Sound, SameAccounts
  <1>2. new = [accounts |-> db.accounts, snapshots |-> db.snapshots,
               leases |-> db.leases, telemetry |-> telemetry]
    BY <1>1, DatabaseParts DEF AddEvent
  <1>3. longer \in Seq(EventRows)
    BY <1>1, DatabaseParts, AppendProperties DEF EventRows
  <1> HIDE DEF longer
  <1>4. telemetry \in Seq(EventRows) /\ Len(telemetry) <= EventCap
    <2>1. EventCap \in Nat \ {0}
      BY QuotaBoardAssumption
    <2> QED BY <1>3, <2>1, SuffixOf
  <1> HIDE DEF telemetry, new
  <1>5. /\ new \in Databases /\ new.accounts = db.accounts /\ new.snapshots = db.snapshots
        /\ new.leases = db.leases
    <2>1. /\ db.accounts \in UNION {[D -> AccountRows] : D \in SUBSET AccountIds}
          /\ db.snapshots \in UNION {[D -> Histories] : D \in SUBSET AccountIds}
          /\ db.leases \in Seq(LeaseRows) /\ Len(db.leases) <= LeaseCap
      BY <1>1, DatabaseParts
    <2> QED BY ONLY <1>2, <1>4, <2>1 DEF Databases
  <1> QED BY <1>1, <1>5 DEF Sound, SameAccounts, new

\* Whatever a task asks for, what it makes of a sound database is one.
LEMMA EffectSound ==
    ASSUME NEW db, Sound(db), NEW u \in UpdateRows, NEW new \in Effect(u, db)
    PROVE  Sound(new)
  <1>1. CASE u.op = "add"
    <2>1. u.account \in AccountIds /\ u.key \in Keys /\ u.room \in Rooms
      BY <1>1 DEF UpdateRows, CallUpdates, SyncUpdates, FlagUpdates
    <2> QED BY <1>1, <2>1, AddSound DEF Effect
  <1>2. CASE u.op = "sync"
    <2>1. u.room \in Rooms
      BY <1>2 DEF UpdateRows, CallUpdates, SyncUpdates, FlagUpdates
    <2> QED BY <1>2, <2>1, SyncSound DEF Effect, HasAccount
  <1>3. CASE u.op = "flag"
    BY <1>3, FlagSound DEF Effect, HasAccount
  <1>4. CASE u.op = "remove"
    BY <1>4, RemoveSound DEF Effect
  <1>5. CASE u.op = "issue"
    <2>1. u.session \in Sessions /\ u.account \in AccountIds
      BY <1>5 DEF UpdateRows, CallUpdates, SyncUpdates, FlagUpdates
    <2> QED BY <1>5, <2>1, IssueSound DEF Effect
  <1>6. CASE u.op = "event"
    <2>1. u.account \in AccountIds
      BY <1>6 DEF UpdateRows, CallUpdates, SyncUpdates, FlagUpdates
    <2> QED BY <1>6, <2>1, EventSound DEF Effect
  <1>7. u.op \in {"add", "sync", "flag", "remove", "issue", "event"}
    BY DEF UpdateRows, CallUpdates, SyncUpdates, FlagUpdates
  <1> QED BY <1>1, <1>2, <1>3, <1>4, <1>5, <1>6, <1>7

-----------------------------------------------------------------------------
(***************************************************************************)
(* The inductive invariant, in layers.                                     *)
(***************************************************************************)
\* Layer 1: types.  A call's row says what its phase allows.
Settlements == {"none", "ok", "conflict", "upstream_error", "no_headroom", "not_found", "store_error"}
CallRows ==
    [phase : {"idle"}, kind : {"none"}, task : {None}, answer : {"none"}]
        \cup [phase : {"fetching"}, kind : {"create"}, task : [key : Keys], answer : {"none"}]
        \cup [phase : {"storing"}, kind : Kinds, task : CallUpdates, answer : {"none"}]
        \cup [phase : {"refreshing"}, kind : Kinds, task : {None}, answer : {"none"}]
        \cup [phase : {"done"}, kind : Kinds, task : CallUpdates \cup {None}, answer : Settlements]
        \cup [phase : {"lost"}, kind : Kinds, task : CallUpdates \cup [key : Keys] \cup {None},
              answer : {"none"}]
WalkRows == [ids : Seq(AccountIds), cursor : Nat, completed : Nat, failed : Nat,
             refreshed : [AccountIds -> Nat], missed : [AccountIds -> Nat]]

\* A walk that begins is a walk.
LEMMA WalkOfRow == ASSUME NEW ids \in Seq(AccountIds) PROVE WalkOf(ids) \in WalkRows
  <1>1. [a \in AccountIds |-> 0] \in [AccountIds -> Nat]
    OBVIOUS
  <1> QED BY <1>1 DEF WalkOf, WalkRows

RunnerRows ==
    [account : {"none"}, phase : {"off"}]
        \cup [account : AccountIds, phase : {"reading", "fetching", "storing", "flagging"}]
TaskRows == [update : UpdateRows, draft : Databases \cup {None}]

Typed ==
    /\ tasks \in Seq(TaskRows)
    /\ call \in [Requests -> CallRows]
    /\ walk \in [Requests -> WalkRows]
    /\ runner \in [Requests -> [1..Workers -> RunnerRows]]
    /\ applied \in SUBSET UpdateRows
    /\ faults \in Nat /\ crashes \in Nat /\ faults + crashes <= MaxFaults
    /\ \A r \in Requests : call[r].phase = "fetching" => "create" \in KindsOf[r]

\* The file is sound, and a draft is an effect on the file as it still is: only the
\* first task of the queue reads it, and nothing else writes it.
DraftsCurrent ==
    \A i \in 1..Len(tasks) :
        tasks[i].draft # None => i = 1 /\ tasks[i].draft \in Effect(tasks[i].update, file)

\* Layer 2: the queue holds the update of every call and worker that waits for the
\* store, once, and nothing else.
Owned(u) ==
    IF u.worker = 0
    THEN call[u.request].phase = "storing" /\ call[u.request].task = u
    ELSE runner[u.request][u.worker] =
            [account |-> u.account, phase |-> IF u.op = "sync" THEN "storing" ELSE "flagging"]

QueueOwned == \A u \in QueuedUpdates : Owned(u)

Distinct(queue) ==
    \A i, j \in 1..Len(queue) :
        /\ queue[i].update.request = queue[j].update.request
        /\ queue[i].update.worker = queue[j].update.worker
        => i = j
QueueDistinct == Distinct(tasks)

QueueComplete ==
    \A r \in Requests :
        /\ call[r].phase = "storing" =>
              call[r].task \in QueuedUpdates /\ call[r].task.request = r
        /\ \A w \in 1..Workers :
              runner[r][w].phase \in {"storing", "flagging"} =>
                  \E u \in QueuedUpdates : u.request = r /\ u.worker = w

\* Layer 3: a walk hands each of its accounts to one worker, and a call has the walk its
\* phase allows.
Working(run) == {w \in 1..Workers : run[w].phase # "off"}

RefreshedIn(wk) == {a \in AccountIds : wk.refreshed[a] > 0}

\* An account has been refreshed or missed, once, when the cursor is past it and no worker
\* has it any more.
VisitsSound(wk, run) ==
    /\ \A a \in AccountIds : wk.refreshed[a] + wk.missed[a] =
          IF /\ \E k \in 1..wk.cursor : wk.ids[k] = a
             /\ \A w \in Working(run) : run[w].account # a
          THEN 1 ELSE 0
    /\ wk.completed = Cardinality(RefreshedIn(wk))

WalkSound(wk, run) ==
    /\ \A i, j \in 1..Len(wk.ids) : wk.ids[i] = wk.ids[j] => i = j
    /\ wk.cursor <= Len(wk.ids)
    /\ wk.completed + wk.failed + Cardinality(Working(run)) = wk.cursor
    /\ \A w \in Working(run) : \E k \in 1..wk.cursor : wk.ids[k] = run[w].account
    /\ \A v, w \in Working(run) : run[v].account = run[w].account => v = w
    /\ VisitsSound(wk, run)

WalkFits(c, wk) ==
    /\ c.phase \in {"idle", "fetching", "storing"} => wk = WalkOf(<<>>)
    /\ c.phase = "done" /\ c.kind \in {"refresh", "refreshAll"} => WalkEnded(wk)

\* Layer 4: what was applied will not be asked for again, and what was answered "ok" was
\* applied.
Spent(u, c, wk, run) ==
    IF u.worker = 0
    THEN c.phase \in {"done", "lost"}
    ELSE /\ c.phase \notin {"idle", "fetching", "storing"}
         /\ wk.ids # <<>> => \E k \in 1..wk.cursor : wk.ids[k] = u.account
         /\ \A w \in Working(run) :
               run[w].account = u.account => u.op = "sync" /\ run[w].phase = "flagging"

AllSpent(r, c, wk, run, done) == \A u \in done : u.request = r => Spent(u, c, wk, run)

AnswerTrue(c, done) == c.answer = "ok" /\ c.task # None => c.task \in done

\* Layer 5: what a walk counts as refreshed was stored, and little else.
StoredBy(r, done) == {u \in done : u.request = r /\ u.op = "sync"}

StoredTrue(r, wk, done) ==
    \A a \in RefreshedIn(wk) : \E u \in StoredBy(r, done) : u.account = a

CountsTrue(r, c, wk, done, n) ==
    /\ StoredTrue(r, wk, done)
    /\ IsFiniteSet(StoredBy(r, done))
    /\ c.phase \in {"refreshing", "done"} /\ c.kind = "refreshAll" =>
          Cardinality(StoredBy(r, done)) \in wk.completed .. wk.completed + n
    /\ c.phase \in {"idle", "fetching", "storing"} => StoredBy(r, done) = {}

\* The three layers, for a request in whatever state it is: its call c, its walk wk, its
\* workers run, the updates done and the number n of failures.
Fine(r, c, wk, run, done, n) ==
    /\ WalkSound(wk, run) /\ WalkFits(c, wk)
    /\ AllSpent(r, c, wk, run, done) /\ AnswerTrue(c, done)
    /\ CountsTrue(r, c, wk, done, n)

RequestsFine == \A r \in Requests : Fine(r, call[r], walk[r], runner[r], applied, faults)

-----------------------------------------------------------------------------
(***************************************************************************)
(* The kinds of steps: what the actions of the handlers, the workers and   *)
(* the store come down to.                                                 *)
(***************************************************************************)
\* A call without a walk is answered, waits for the API, or waits for the store.
Answered(r) ==
    \E c \in CallRows :
        /\ call[r].phase \in {"idle", "fetching"} /\ c.phase = "done" /\ c.task = None
        /\ call' = [call EXCEPT ![r] = c]
        /\ UNCHANGED <<fixed, tasks, walk, runner>>
Fetches(r) ==
    \E c \in CallRows :
        /\ call[r].phase = "idle" /\ c.phase = "fetching" /\ "create" \in KindsOf[r]
        /\ call' = [call EXCEPT ![r] = c]
        /\ UNCHANGED <<fixed, tasks, walk, runner>>
Asks(r) ==
    \E c \in CallRows :
        /\ call[r].phase \in {"idle", "fetching"} /\ c.phase = "storing" /\ c.task.request = r
        /\ call' = [call EXCEPT ![r] = c]
        /\ tasks' = Append(tasks, Queued(c.task))
        /\ UNCHANGED <<fixed, walk, runner>>

\* A walk starts, or has ended and is answered.
Walks(r) ==
    \E c \in CallRows, ids \in Seq(AccountIds) :
        /\ call[r].phase = "idle" /\ c.phase = "refreshing"
        /\ \A i, j \in 1..Len(ids) : ids[i] = ids[j] => i = j
        /\ call' = [call EXCEPT ![r] = c]
        /\ walk' = [walk EXCEPT ![r] = WalkOf(ids)]
        /\ UNCHANGED <<fixed, tasks, runner>>
Walked(r) ==
    \E c \in CallRows :
        /\ call[r].phase = "refreshing" /\ WalkEnded(walk[r])
        /\ c.phase = "done" /\ c.task = None /\ c.kind = call[r].kind
        /\ call' = [call EXCEPT ![r] = c]
        /\ UNCHANGED <<fixed, tasks, walk, runner>>

\* A worker goes on to the API, gives up, or waits for the store.
ReadsOn(r, w) ==
    /\ runner[r][w].phase = "reading"
    /\ runner' = [runner EXCEPT ![r][w].phase = "fetching"]
    /\ UNCHANGED <<fixed, tasks, call, walk>>
GivesUp(r, w) ==
    /\ runner[r][w].phase = "reading"
    /\ Counted(r, w, FALSE)
    /\ UNCHANGED <<fixed, tasks, call>>
Stores(r, w) ==
    \E u \in SyncUpdates \cup FlagUpdates :
        /\ u.request = r /\ u.worker = w /\ u.account = runner[r][w].account
        /\ runner[r][w].phase = "fetching"
        /\ tasks' = Append(tasks, Queued(u))
        /\ runner' = [runner EXCEPT ![r][w].phase = IF u.op = "sync" THEN "storing" ELSE "flagging"]
        /\ UNCHANGED <<fixed, call, walk>>

\* The first task has ended, with or without its draft in the file.
Left == UNCHANGED <<file, applied>>
Written ==
    /\ tasks[1].draft # None /\ file' = tasks[1].draft
    /\ applied' = applied \cup {tasks[1].update}
Charged == faults' = faults + 1 /\ faults + crashes < MaxFaults

Retries ==
    LET u == tasks[1].update IN
    /\ tasks # <<>> /\ u \in SyncUpdates
    /\ tasks' = Append(Tail(tasks), Queued(Flag(u.request, u.worker)))
    /\ runner' = [runner EXCEPT ![u.request][u.worker].phase = "flagging"]
    /\ \/ Left /\ (UNCHANGED faults \/ Charged)
       \/ Written /\ Charged
    /\ UNCHANGED <<call, walk, crashes>>
WorkerDone ==
    LET u == tasks[1].update IN
    /\ tasks # <<>> /\ u \in SyncUpdates \cup FlagUpdates
    /\ tasks' = Tail(tasks)
    /\ Counted(u.request, u.worker, u.op = "sync")
    /\ (Left /\ u.op = "flag") \/ Written
    /\ UNCHANGED faults \/ Charged
    /\ UNCHANGED <<call, crashes>>
Replied ==
    LET u == tasks[1].update IN
    /\ tasks # <<>> /\ u \in CallUpdates
    /\ tasks' = Tail(tasks)
    /\ \E c \in CallRows :
          /\ c.phase = "done" /\ c.task = u /\ c.kind = call[u.request].kind
          /\ c.answer = "ok" => Written
          /\ call' = [call EXCEPT ![u.request] = c]
    /\ \/ UNCHANGED walk
       \/ /\ call[u.request].kind = "usage"
          /\ walk' = [walk EXCEPT ![u.request] = WalkOf(<<u.account>>)]
    /\ Left \/ Written
    /\ UNCHANGED faults \/ Charged
    /\ UNCHANGED <<runner, crashes>>

StepKind ==
    \/ \E r \in Requests :
          \/ Answered(r) \/ Fetches(r) \/ Asks(r) \/ Walks(r) \/ Walked(r)
          \/ \E w \in 1..Workers : WorkerTakes(r, w) \/ ReadsOn(r, w) \/ GivesUp(r, w) \/ Stores(r, w)
    \/ (tasks # <<>> /\ TaskStarts(1)) \/ Retries \/ WorkerDone \/ Replied
    \/ Crash

\* A row of a call has one of six shapes, told apart by its phase.
LEMMA CallRowShapes ==
    ASSUME NEW c \in CallRows
    PROVE  /\ c.phase \in {"idle", "fetching", "storing", "refreshing", "done", "lost"}
           /\ c.phase # "done" => c.answer = "none"
           /\ c.phase = "fetching" => c.task \in [key : Keys]
           /\ c.phase = "storing" => c.task \in CallUpdates /\ c.kind \in Kinds
           /\ c.phase = "refreshing" => c.task = None /\ c.kind \in Kinds
  BY DEF CallRows

\* Answers to a call.
LEMMA AnswerKind ==
    ASSUME NEW r \in Requests, call[r].phase \in {"idle", "fetching"}, NEW k \in Kinds,
           NEW a \in Settlements, Answers(r, k, a), UNCHANGED <<fixed, walk, runner>>
    PROVE  Answered(r)
  <1> DEFINE c == [phase |-> "done", kind |-> k, task |-> None, answer |-> a]
  <1>1. c \in CallRows /\ c.phase = "done" /\ c.task = None
    BY DEF CallRows
  <1>2. call' = [call EXCEPT ![r] = c] /\ UNCHANGED tasks
    BY DEF Answers, Becomes
  <1> HIDE DEF c
  <1> QED BY <1>1, <1>2 DEF Answered

\* Updates a call asks for.
LEMMA UpdateKind ==
    ASSUME NEW r \in Requests, call[r].phase \in {"idle", "fetching"}, NEW k \in Kinds,
           NEW u \in CallUpdates, u.request = r, Updates(r, k, u), UNCHANGED <<fixed, walk, runner>>
    PROVE  Asks(r)
  <1> DEFINE c == [phase |-> "storing", kind |-> k, task |-> u, answer |-> "none"]
  <1>1. c \in CallRows /\ c.phase = "storing" /\ c.task = u
    BY DEF CallRows
  <1>2. call' = [call EXCEPT ![r] = c] /\ tasks' = Append(tasks, Queued(c.task))
    BY DEF Updates, Becomes
  <1> HIDE DEF c
  <1> QED BY <1>1, <1>2 DEF Asks

\* The updates of calls and of workers are told apart by the worker.
LEMMA UpdateShapes ==
    ASSUME NEW u \in UpdateRows
    PROVE  /\ u.request \in Requests /\ u.account \in AccountIds /\ u.worker \in 0..Workers
           /\ u.worker = 0 <=> u \in CallUpdates
           /\ u.worker \in 1..Workers <=> u \in SyncUpdates \cup FlagUpdates
           /\ u.op = "sync" <=> u \in SyncUpdates
           /\ u.op = "flag" <=> u \in FlagUpdates
  <1>1. Workers \in Nat \ {0}
    BY QuotaBoardAssumption
  <1>2. CASE u \in CallUpdates
    <2>1. /\ u.request \in Requests /\ u.account \in AccountIds /\ u.worker = 0
          /\ u.op \in {"add", "remove", "issue", "event"}
      BY <1>2 DEF CallUpdates
    <2>2. u \notin SyncUpdates /\ u \notin FlagUpdates
      BY <1>1, <2>1 DEF SyncUpdates, FlagUpdates
    <2> QED BY <1>1, <1>2, <2>1, <2>2
  <1>3. CASE u \in SyncUpdates
    <2>1. /\ u.request \in Requests /\ u.account \in AccountIds /\ u.worker \in 1..Workers
          /\ u.op = "sync"
      BY <1>3 DEF SyncUpdates
    <2>2. u \notin CallUpdates /\ u \notin FlagUpdates
      BY <1>1, <2>1 DEF CallUpdates, FlagUpdates
    <2> QED BY <1>1, <1>3, <2>1, <2>2
  <1>4. CASE u \in FlagUpdates
    <2>1. /\ u.request \in Requests /\ u.account \in AccountIds /\ u.worker \in 1..Workers
          /\ u.op = "flag"
      BY <1>4 DEF FlagUpdates
    <2>2. u \notin CallUpdates /\ u \notin SyncUpdates
      BY <1>1, <2>1 DEF CallUpdates, SyncUpdates
    <2> QED BY <1>1, <1>4, <2>1, <2>2
  <1> QED BY <1>2, <1>3, <1>4 DEF UpdateRows

\* POST /api/accounts, the API's answer to it, and the other handlers that update the file
\* or answer.
LEMMA HandlerKinds ==
    ASSUME Typed, file \in Databases, NEW r \in Requests,
           \/ CreateArrives(r) \/ CreateFetched(r) \/ DeleteArrives(r) \/ LeaseArrives(r)
           \/ UsageArrives(r) \/ TelemetryArrives(r)
    PROVE  Answered(r) \/ Fetches(r) \/ Asks(r)
  <1>1. /\ KindsOf[r] \subseteq Kinds
        /\ call[r] \in CallRows
        /\ call[r].phase = "fetching" => "create" \in KindsOf[r] /\ call[r].task \in [key : Keys]
    BY QuotaBoardAssumption, CallRowShapes DEF Typed
  <1>2. CASE CreateArrives(r)
    <2>1. "create" \in KindsOf[r] /\ call[r].phase = "idle" /\ UNCHANGED <<fixed, walk, runner>>
      BY <1>2 DEF CreateArrives, Arrives
    <2>2. PICK key \in Keys :
             \/ Connected(key) /\ Answers(r, "create", "conflict")
             \/ /\ ~Connected(key)
                /\ Becomes(r, "create", "fetching", [key |-> key], "none")
                /\ UNCHANGED tasks
      BY <1>2 DEF CreateArrives
    <2>3. CASE Answers(r, "create", "conflict")
      BY <2>1, <2>3, AnswerKind DEF Kinds, Settlements
    <2>4. CASE Becomes(r, "create", "fetching", [key |-> key], "none") /\ UNCHANGED tasks
      <3> DEFINE c == [phase |-> "fetching", kind |-> "create", task |-> [key |-> key],
                       answer |-> "none"]
      <3>1. c \in CallRows /\ c.phase = "fetching"
        BY DEF CallRows
      <3>2. call' = [call EXCEPT ![r] = c]
        BY <2>4 DEF Becomes
      <3> HIDE DEF c
      <3> QED BY <2>1, <2>4, <3>1, <3>2 DEF Fetches
    <2> QED BY <2>2, <2>3, <2>4
  <1>3. CASE CreateFetched(r)
    <2>1. /\ call[r].phase = "fetching" /\ UNCHANGED <<fixed, walk, runner>>
          /\ "create" \in Kinds
      BY <1>3 DEF CreateFetched, Kinds
    <2>2. CASE Answers(r, "create", "upstream_error")
      BY <2>1, <2>2, AnswerKind DEF Settlements
    <2>3. ASSUME NEW room \in Rooms,
                 Updates(r, "create", [request |-> r, worker |-> 0, op |-> "add",
                                       account |-> NewIdOf[r], key |-> call[r].task.key,
                                       room |-> room])
          PROVE  Asks(r)
      <3> DEFINE u == [request |-> r, worker |-> 0, op |-> "add", account |-> NewIdOf[r],
                       key |-> call[r].task.key, room |-> room]
      <3>1. NewIdOf[r] \in AccountIds /\ call[r].task.key \in Keys
        BY <1>1, <2>1, QuotaBoardAssumption
      <3>2. u \in CallUpdates /\ u.request = r
        BY <3>1 DEF CallUpdates
      <3>3. Updates(r, "create", u)
        BY <2>3
      <3> HIDE DEF u
      <3> QED BY <2>1, <3>2, <3>3, UpdateKind
    <2> QED BY <1>3, <2>2, <2>3 DEF CreateFetched
  <1>4. CASE DeleteArrives(r)
    <2>1. /\ call[r].phase = "idle" /\ UNCHANGED <<fixed, walk, runner>> /\ "delete" \in Kinds
      BY <1>4 DEF DeleteArrives, Arrives, Kinds
    <2>2. PICK a \in AccountIds :
             Updates(r, "delete", [request |-> r, worker |-> 0, op |-> "remove", account |-> a])
      BY <1>4 DEF DeleteArrives
    <2>3. [request |-> r, worker |-> 0, op |-> "remove", account |-> a] \in CallUpdates
      BY DEF CallUpdates
    <2> QED BY <2>1, <2>2, <2>3, UpdateKind
  <1>5. CASE LeaseArrives(r)
    <2>1. /\ UNCHANGED <<fixed, walk, runner>> /\ "lease" \in Kinds /\ "rotate" \in Kinds
          /\ {"ok", "not_found", "no_headroom"} \subseteq Settlements
      BY <1>5 DEF LeaseArrives, Kinds, Settlements
    <2>2. ASSUME NEW s \in Sessions, NEW k \in {"lease", "rotate"}, NEW excluded,
                 Arrives(r, k), Lease(r, k, s, excluded)
          PROVE  Answered(r) \/ Asks(r)
      <3>1. call[r].phase = "idle"
        BY <2>2 DEF Arrives
      <3>2. CASE Answers(r, k, "no_headroom")
        BY <2>1, <3>1, <3>2, AnswerKind
      <3>3. ASSUME NEW a \in Ranked(file, excluded),
                   Updates(r, k, [request |-> r, worker |-> 0, op |-> "issue", session |-> s,
                                  account |-> a])
            PROVE  Asks(r)
        <4>1. a \in AccountIds
          BY DatabaseParts DEF Ranked
        <4>2. [request |-> r, worker |-> 0, op |-> "issue", session |-> s, account |-> a]
                 \in CallUpdates
          BY <4>1 DEF CallUpdates
        <4> QED BY <2>1, <3>1, <3>3, <4>2, UpdateKind
      <3> QED BY <2>2, <3>2, <3>3 DEF Lease
    <2>3. ASSUME NEW a \in {"ok", "not_found"}, Arrives(r, "lease"), Answers(r, "lease", a)
          PROVE  Answered(r)
      BY <2>1, <2>3, AnswerKind DEF Arrives
    <2> QED BY <1>5, <2>2, <2>3 DEF LeaseArrives
  <1>6. CASE UsageArrives(r)
    <2>1. /\ call[r].phase = "idle" /\ UNCHANGED <<fixed, walk, runner>> /\ "usage" \in Kinds
          /\ "not_found" \in Settlements
      BY <1>6 DEF UsageArrives, Arrives, Kinds, Settlements
    <2>2. CASE Answers(r, "usage", "not_found")
      BY <2>1, <2>2, AnswerKind
    <2>3. ASSUME NEW i \in 1..Len(file.leases),
                 Updates(r, "usage", [request |-> r, worker |-> 0, op |-> "event",
                                      account |-> file.leases[i].account])
          PROVE  Asks(r)
      <3>1. file.leases[i].account \in AccountIds
        <4>1. file.leases[i] \in LeaseRows
          BY DatabaseParts
        <4> QED BY <4>1 DEF LeaseRows
      <3>2. [request |-> r, worker |-> 0, op |-> "event", account |-> file.leases[i].account]
               \in CallUpdates
        BY <3>1 DEF CallUpdates
      <3> QED BY <2>1, <2>3, <3>2, UpdateKind
    <2> QED BY <1>6, <2>2, <2>3 DEF UsageArrives
  <1>7. CASE TelemetryArrives(r)
    <2>1. /\ call[r].phase = "idle" /\ UNCHANGED <<fixed, walk, runner>> /\ "telemetry" \in Kinds
          /\ "not_found" \in Settlements
      BY <1>7 DEF TelemetryArrives, Arrives, Kinds, Settlements
    <2>2. CASE Answers(r, "telemetry", "not_found")
      BY <2>1, <2>2, AnswerKind
    <2>3. ASSUME NEW a \in AccountIds,
                 Updates(r, "telemetry", [request |-> r, worker |-> 0, op |-> "event",
                                          account |-> a])
          PROVE  Asks(r)
      <3>1. [request |-> r, worker |-> 0, op |-> "event", account |-> a] \in CallUpdates
        BY DEF CallUpdates
      <3> QED BY <2>1, <2>3, <3>1, UpdateKind
    <2> QED BY <1>7, <2>2, <2>3 DEF TelemetryArrives
  <1> QED BY <1>2, <1>3, <1>4, <1>5, <1>6, <1>7

\* The handlers and workers of the refreshes.
LEMMA RefreshKinds ==
    ASSUME Typed, file \in Databases, NEW r \in Requests,
           \/ RefreshArrives(r) \/ RefreshAllArrives(r) \/ RefreshAnswers(r)
           \/ \E w \in 1..Workers : WorkerReads(r, w) \/ WorkerFetched(r, w)
    PROVE  \/ Walks(r) \/ Walked(r)
           \/ \E w \in 1..Workers : ReadsOn(r, w) \/ GivesUp(r, w) \/ Stores(r, w)
  <1>1. ASSUME NEW k \in {"refresh", "refreshAll"}, NEW ids \in Seq(AccountIds),
               \A i, j \in 1..Len(ids) : ids[i] = ids[j] => i = j,
               call[r].phase = "idle", walk' = [walk EXCEPT ![r] = WalkOf(ids)],
               Becomes(r, k, "refreshing", None, "none"), UNCHANGED <<fixed, tasks, runner>>
        PROVE  Walks(r)
    <2> DEFINE c == [phase |-> "refreshing", kind |-> k, task |-> None, answer |-> "none"]
    <2>1. c \in CallRows /\ c.phase = "refreshing"
      BY DEF CallRows, Kinds
    <2>2. call' = [call EXCEPT ![r] = c]
      BY <1>1 DEF Becomes
    <2> HIDE DEF c
    <2> QED BY <1>1, <2>1, <2>2 DEF Walks
  <1>2. CASE RefreshArrives(r)
    <2>1. PICK a \in AccountIds : walk' = [walk EXCEPT ![r] = WalkOf(<<a>>)]
      BY <1>2 DEF RefreshArrives
    <2>2. <<a>> \in Seq(AccountIds) /\ \A i, j \in 1..Len(<<a>>) : <<a>>[i] = <<a>>[j] => i = j
      OBVIOUS
    <2> QED BY <1>1, <1>2, <2>1, <2>2 DEF RefreshArrives, Arrives
  <1>3. CASE RefreshAllArrives(r)
    <2> DEFINE n == Cardinality(DOMAIN file.accounts)
    <2>1. PICK ids \in [1..n -> DOMAIN file.accounts] :
             /\ \A i, j \in DOMAIN ids : ids[i] = ids[j] => i = j
             /\ walk' = [walk EXCEPT ![r] = WalkOf(ids)]
      BY <1>3 DEF RefreshAllArrives
    <2>2. n \in Nat /\ DOMAIN file.accounts \subseteq AccountIds
      BY DatabaseParts, QuotaBoardAssumption, FS_Subset, FS_CardinalityType
    <2> HIDE DEF n
    <2>3. ids \in Seq(AccountIds) /\ DOMAIN ids = 1..Len(ids)
      BY <2>1, <2>2
    <2> QED BY <1>1, <1>3, <2>1, <2>3 DEF RefreshAllArrives, Arrives
  <1>4. CASE RefreshAnswers(r)
    <2> DEFINE a == IF call[r].kind = "refresh" /\ walk[r].failed > 0 THEN "upstream_error" ELSE "ok"
               c == [phase |-> "done", kind |-> call[r].kind, task |-> None, answer |-> a]
    <2>1. /\ call[r].phase = "refreshing" /\ WalkEnded(walk[r])
          /\ UNCHANGED <<fixed, tasks, walk, runner>> /\ call' = [call EXCEPT ![r] = c]
      BY <1>4 DEF RefreshAnswers, Answers, Becomes
    <2>2. call[r].kind \in Kinds
      BY <2>1, CallRowShapes DEF Typed
    <2>3. c \in CallRows /\ c.phase = "done" /\ c.task = None /\ c.kind = call[r].kind
      BY <2>2 DEF CallRows, Settlements
    <2> HIDE DEF c
    <2> QED BY <2>1, <2>3 DEF Walked
  <1>5. ASSUME NEW w \in 1..Workers, WorkerReads(r, w) PROVE ReadsOn(r, w) \/ GivesUp(r, w)
    BY <1>5 DEF WorkerReads, ReadsOn, GivesUp
  <1>6. ASSUME NEW w \in 1..Workers, WorkerFetched(r, w) PROVE Stores(r, w)
    <2>1. runner[r][w] \in RunnerRows /\ runner[r][w].phase = "fetching"
      BY <1>6 DEF WorkerFetched, Typed
    <2>2. runner[r][w].account \in AccountIds
      BY <2>1 DEF RunnerRows
    <2>3. ASSUME NEW room \in Rooms,
                 tasks' = Append(tasks, Queued([request |-> r, worker |-> w, op |-> "sync",
                                                account |-> runner[r][w].account, room |-> room])),
                 runner' = [runner EXCEPT ![r][w].phase = "storing"]
          PROVE  Stores(r, w)
      <3> DEFINE u == [request |-> r, worker |-> w, op |-> "sync",
                       account |-> runner[r][w].account, room |-> room]
      <3>1. /\ u \in SyncUpdates /\ u.request = r /\ u.worker = w /\ u.op = "sync"
            /\ u.account = runner[r][w].account
        BY <2>2 DEF SyncUpdates
      <3>2. tasks' = Append(tasks, Queued(u))
        BY <2>3
      <3> HIDE DEF u
      <3> QED BY <1>6, <2>1, <2>3, <3>1, <3>2 DEF Stores, WorkerFetched
    <2>4. ASSUME tasks' = Append(tasks, Queued(Flag(r, w))),
                 runner' = [runner EXCEPT ![r][w].phase = "flagging"]
          PROVE  Stores(r, w)
      <3>1. /\ Flag(r, w) \in FlagUpdates /\ Flag(r, w).request = r /\ Flag(r, w).worker = w
            /\ Flag(r, w).op = "flag" /\ Flag(r, w).account = runner[r][w].account
        BY <2>2 DEF FlagUpdates, Flag
      <3> QED BY <1>6, <2>1, <2>4, <3>1 DEF Stores, WorkerFetched
    <2> QED BY <1>6, <2>3, <2>4 DEF WorkerFetched
  <1> QED BY <1>2, <1>3, <1>4, <1>5, <1>6

\* The queue without its first task.
LEMMA QueueTail ==
    ASSUME Typed, tasks # <<>>
    PROVE  /\ tasks[1] \in TaskRows /\ tasks[1].update \in UpdateRows /\ 1 \in 1..Len(tasks)
           /\ Without(1) = Tail(tasks) /\ Tail(tasks) \in Seq(TaskRows)
           /\ Len(Tail(tasks)) = Len(tasks) - 1 /\ Len(tasks) \in Nat
           /\ \A i \in 1..Len(tasks) - 1 : Tail(tasks)[i] = tasks[i + 1]
  <1>1. tasks \in Seq(TaskRows) /\ Len(tasks) \in Nat \ {0}
    BY DEF Typed
  <1>2. tasks[1] \in TaskRows /\ 1 \in 1..Len(tasks)
    BY <1>1
  <1>3. /\ Tail(tasks) \in Seq(TaskRows) /\ Len(Tail(tasks)) = Len(tasks) - 1
        /\ \A i \in 1..Len(tasks) - 1 : Tail(tasks)[i] = tasks[i + 1]
    BY <1>1
  <1>4. Without(1) = Tail(tasks)
    <2> DEFINE front == SubSeq(tasks, 1, 0)
               back == SubSeq(tasks, 2, Len(tasks))
    <2>1. front \in Seq(TaskRows) /\ Len(front) = 0
      BY <1>1
    <2>2. /\ back \in Seq(TaskRows) /\ Len(back) = Len(tasks) - 1
          /\ \A i \in 1..Len(tasks) - 1 : back[i] = tasks[i + 1]
      <3>1. 2 \in Int /\ Len(tasks) \in Int /\ \A i \in 2..Len(tasks) : tasks[i] \in TaskRows
        BY <1>1
      <3>2. /\ back \in Seq(TaskRows) /\ Len(back) = IF 2 <= Len(tasks) THEN Len(tasks) - 2 + 1 ELSE 0
            /\ \A i \in 1..Len(tasks) - 2 + 1 : back[i] = tasks[2 + i - 1]
        BY <3>1, SubSeqProperties
      <3> HIDE DEF back
      <3>3. (IF 2 <= Len(tasks) THEN Len(tasks) - 2 + 1 ELSE 0) = Len(tasks) - 1
        <4>1. PICK n \in Nat \ {0} : n = Len(tasks)
          BY <1>1
        <4>2. (IF 2 <= n THEN n - 2 + 1 ELSE 0) = n - 1
          OBVIOUS
        <4> QED BY ONLY <4>1, <4>2
      <3>4. \A i \in 1..Len(tasks) - 1 : i \in 1..Len(tasks) - 2 + 1 /\ 2 + i - 1 = i + 1
        BY <1>1
      <3>5. \A i \in 1..Len(tasks) - 1 : back[i] = tasks[i + 1]
        BY ONLY <3>2, <3>4
      <3> QED BY <3>2, <3>3, <3>5
    <2>3. Without(1) = front \o back
      BY DEF Without
    <2> HIDE DEF front, back
    <2>4. front \o back \in Seq(TaskRows) /\ Len(front \o back) = Len(tasks) - 1
          /\ \A i \in 1..Len(tasks) - 1 : (front \o back)[i] = tasks[i + 1]
      BY <1>1, <2>1, <2>2, SMTT(30)
    <2> QED BY <1>3, <2>3, <2>4
  <1> QED BY <1>1, <1>2, <1>3, <1>4 DEF TaskRows

\* The first task settles.
LEMMA SettledKinds ==
    ASSUME Typed, QueueOwned, tasks # <<>>, NEW ok \in BOOLEAN, NEW db, Settled(1, ok, db),
           UNCHANGED crashes, UNCHANGED faults \/ Charged, Left \/ Written,
           ok => Written, ~ok => Charged \/ Left
    PROVE  Retries \/ WorkerDone \/ Replied
  <1> DEFINE u == tasks[1].update
             r == u.request
  <1>1. /\ u \in UpdateRows /\ r \in Requests /\ u.worker \in 0..Workers
        /\ u.worker = 0 <=> u \in CallUpdates
        /\ u.worker \in 1..Workers <=> u \in SyncUpdates \cup FlagUpdates
        /\ u.op = "sync" <=> u \in SyncUpdates
        /\ u.op = "flag" <=> u \in FlagUpdates
        /\ Without(1) = Tail(tasks) /\ Workers \in Nat
    BY QueueTail, UpdateShapes, QuotaBoardAssumption
  <1>2. CASE /\ u.worker # 0 /\ u.op = "sync" /\ ~ok
             /\ tasks' = Append(Without(1), Queued(Flag(r, u.worker)))
             /\ runner' = [runner EXCEPT ![r][u.worker].phase = "flagging"]
             /\ UNCHANGED <<call, walk>>
    <2> HIDE DEF r, u
    <2>1. (Left /\ (UNCHANGED faults \/ Charged)) \/ (Written /\ Charged)
      BY <1>2
    <2> QED BY <1>1, <1>2, <2>1 DEF Retries, r, u
  <1>3. CASE /\ u.worker # 0 /\ ~(u.op = "sync" /\ ~ok)
             /\ tasks' = Without(1)
             /\ Counted(r, u.worker, u.op = "sync")
             /\ UNCHANGED call
    <2>1. (Left /\ u.op = "flag") \/ Written
      BY <1>1, <1>3
    <2>2. u \in SyncUpdates \cup FlagUpdates
      BY <1>1, <1>3
    <2> QED BY <1>1, <1>3, <2>1, <2>2, SMTT(30) DEF WorkerDone
  <1>4. CASE /\ u.worker = 0
             /\ tasks' = Without(1)
             /\ Becomes(r, call[r].kind, "done", u,
                        IF ~ok THEN "store_error"
                        ELSE IF u.op = "issue" /\ ~HasAccount(db, u.account) THEN "not_found"
                        ELSE "ok")
             /\ walk' = [walk EXCEPT ![r] = IF ok /\ call[r].kind = "usage"
                                            THEN WalkOf(<<u.account>>) ELSE @]
             /\ UNCHANGED runner
    <2> DEFINE a == IF ~ok THEN "store_error"
                    ELSE IF u.op = "issue" /\ ~HasAccount(db, u.account) THEN "not_found"
                    ELSE "ok"
               c == [phase |-> "done", kind |-> call[r].kind, task |-> u, answer |-> a]
    <2>1. u \in CallUpdates
      BY <1>1, <1>4
    <2>2. call[r].kind \in Kinds
      <3>1. call[r].phase = "storing"
        BY <1>4, QueueTail DEF QueueOwned, QueuedUpdates, Owned
      <3> QED BY <1>1, <3>1, CallRowShapes DEF Typed
    <2>3. c \in CallRows /\ c.phase = "done" /\ c.task = u /\ c.kind = call[r].kind
          /\ (c.answer = "ok" => ok)
      BY <2>1, <2>2 DEF CallRows, Settlements
    <2>4. call' = [call EXCEPT ![r] = c]
      BY <1>4 DEF Becomes
    <2>5. \/ UNCHANGED walk
          \/ call[r].kind = "usage" /\ walk' = [walk EXCEPT ![r] = WalkOf(<<u.account>>)]
      BY <1>1, <1>4 DEF Typed
    <2> HIDE DEF c, r, u
    <2> QED BY <1>1, <1>4, <2>1, <2>3, <2>4, <2>5 DEF Replied, r, u
  <1> QED BY <1>2, <1>3, <1>4 DEF Settled

\* Every step is of one of the kinds.
LEMMA StepKinds ==
    ASSUME Typed, QueueOwned, file \in Databases, BoardNext
    PROVE  StepKind
  <1>1. ASSUME NEW r \in Requests,
               \/ CreateArrives(r) \/ CreateFetched(r) \/ DeleteArrives(r) \/ LeaseArrives(r)
               \/ UsageArrives(r) \/ TelemetryArrives(r)
        PROVE  StepKind
    <2>1. Answered(r) \/ Fetches(r) \/ Asks(r)
      BY <1>1, HandlerKinds
    <2> QED BY <2>1 DEF StepKind
  <1>2. ASSUME NEW r \in Requests,
               \/ RefreshArrives(r) \/ RefreshAllArrives(r) \/ RefreshAnswers(r)
               \/ \E w \in 1..Workers : WorkerReads(r, w) \/ WorkerFetched(r, w)
        PROVE  StepKind
    <2>1. \/ Walks(r) \/ Walked(r)
          \/ \E w \in 1..Workers : ReadsOn(r, w) \/ GivesUp(r, w) \/ Stores(r, w)
      BY <1>2, RefreshKinds
    <2> QED BY <2>1 DEF StepKind
  <1>3. ASSUME NEW r \in Requests, NEW w \in 1..Workers, WorkerTakes(r, w) PROVE StepKind
    BY <1>3 DEF StepKind
  <1>4. ASSUME NEW i \in 1..Len(tasks), Turn(i) PROVE i = 1 /\ tasks # <<>>
    BY <1>4 DEF Turn, Typed
  <1>5. ASSUME NEW i \in 1..Len(tasks), TaskStarts(i) PROVE StepKind
    <2>1. i = 1 /\ tasks # <<>>
      BY <1>4, <1>5 DEF TaskStarts
    <2> QED BY <1>5, <2>1 DEF StepKind
  <1>6. ASSUME NEW i \in 1..Len(tasks), TaskThrows(i) PROVE StepKind
    <2>1. i = 1 /\ tasks # <<>>
      BY <1>4, <1>6 DEF TaskThrows
    <2>2. PICK db : db = file
      OBVIOUS
    <2>3. Settled(1, FALSE, db) /\ UNCHANGED fixed
      BY <1>6, <2>1, <2>2 DEF TaskThrows
    <2>4. Left /\ UNCHANGED faults /\ UNCHANGED crashes
      BY <2>3 DEF fixed, Left
    <2>5. Retries \/ WorkerDone \/ Replied
      BY <2>1, <2>3, <2>4, SettledKinds
    <2> QED BY <2>5 DEF StepKind
  <1>7. ASSUME NEW i \in 1..Len(tasks), TaskCommits(i) PROVE StepKind
    <2>1. i = 1 /\ tasks # <<>>
      BY <1>4, <1>7 DEF TaskCommits
    <2>2. PICK db : db = file'
      OBVIOUS
    <2>3. Settled(1, TRUE, db) /\ Written /\ UNCHANGED <<faults, crashes>>
      BY <1>7, <2>1, <2>2 DEF TaskCommits, Written
    <2>4. Retries \/ WorkerDone \/ Replied
      BY <2>1, <2>3, SettledKinds
    <2> QED BY <2>4 DEF StepKind
  <1>8. ASSUME NEW i \in 1..Len(tasks), TaskFails(i) PROVE StepKind
    <2>1. i = 1 /\ tasks # <<>>
      BY <1>4, <1>8 DEF TaskFails
    <2>2. PICK db : db = file
      OBVIOUS
    <2>3. Settled(1, FALSE, db) /\ Charged /\ (Left \/ Written) /\ UNCHANGED crashes
      BY <1>8, <2>1, <2>2 DEF TaskFails, Written, Left, Charged
    <2>4. Retries \/ WorkerDone \/ Replied
      BY <2>1, <2>3, SettledKinds
    <2> QED BY <2>4 DEF StepKind
  <1>9. CASE Crash
    BY <1>9 DEF StepKind
  <1> QED BY <1>1, <1>2, <1>3, <1>5, <1>6, <1>7, <1>8, <1>9 DEF BoardNext

-----------------------------------------------------------------------------
(***************************************************************************)
(* Layers 1 and 2: the queue.                                              *)
(***************************************************************************)
QueueInv ==
    /\ Typed /\ Sound(file) /\ DraftsCurrent
    /\ QueueOwned /\ QueueDistinct /\ QueueComplete

\* The server starts with a sound file and an empty queue.
LEMMA QueueInit == BoardInit => QueueInv
  <1> SUFFICES ASSUME BoardInit PROVE QueueInv
    OBVIOUS
  <1>1. file \in Databases /\ AtMostOneActive(file) /\ SameAccounts(file)
    BY QuotaBoardAssumption DEF BoardInit
  <1>2. Sound(file)
    BY <1>1, ActiveLeasesOf DEF Sound
  <1>3. tasks = <<>> /\ Len(tasks) = 0
    BY DEF BoardInit
  <1>4. Typed
    <2>1. tasks \in Seq(TaskRows) /\ applied \in SUBSET UpdateRows
      BY DEF BoardInit
    <2>2. call \in [Requests -> CallRows]
          /\ \A r \in Requests : call[r].phase = "idle"
      BY DEF BoardInit, CallRows
    <2>3. walk \in [Requests -> WalkRows]
      <3>1. WalkOf(<<>>) \in WalkRows
        <4>1. <<>> \in Seq(AccountIds)
          OBVIOUS
        <4> QED BY <4>1, WalkOfRow
      <3> QED BY <3>1 DEF BoardInit
    <2>4. runner \in [Requests -> [1..Workers -> RunnerRows]]
      BY DEF BoardInit, RunnerRows
    <2>5. faults \in Nat /\ crashes \in Nat /\ faults + crashes <= MaxFaults
      BY QuotaBoardAssumption DEF BoardInit
    <2> QED BY <2>1, <2>2, <2>3, <2>4, <2>5 DEF Typed
  <1>5. DraftsCurrent /\ QueueOwned /\ QueueDistinct
    BY <1>3 DEF DraftsCurrent, QueueOwned, QueuedUpdates, QueueDistinct, Distinct
  <1>6. QueueComplete
    BY DEF QueueComplete, BoardInit
  <1> QED BY <1>2, <1>4, <1>5, <1>6 DEF QueueInv

\* Who waits for the store: the call itself (worker 0) or one of its workers.
Waits(r, w) ==
    IF w = 0 THEN call[r].phase = "storing" ELSE runner[r][w].phase \in {"storing", "flagging"}

\* Nobody but the call or worker in question moves.
Elsewhere(r, w) ==
    \A q \in Requests :
        /\ q # r \/ w # 0 => call'[q] = call[q]
        /\ \A v \in 1..Workers : q # r \/ v # w => runner'[q][v] = runner[q][v]

Of(u, r, w) == u.request = r /\ u.worker = w

\* Who owns an update waits for the store.
LEMMA OwnersWait ==
    ASSUME NEW u, Owned(u)
    PROVE  Waits(u.request, u.worker)
  BY DEF Owned, Waits

\* The queue follows the one call or worker that moves.
LEMMA QueueFollows ==
    ASSUME Typed, QueueOwned, QueueComplete, NEW r \in Requests, NEW w \in 0..Workers,
           Elsewhere(r, w),
           \A u \in QueuedUpdates' : u \in UpdateRows,
           \A u \in UpdateRows : ~Of(u, r, w) => (u \in QueuedUpdates' <=> u \in QueuedUpdates),
           \A u \in QueuedUpdates' : Of(u, r, w) => Owned(u)',
           Waits(r, w)' => \E u \in QueuedUpdates' : Of(u, r, w)
    PROVE  QueueOwned' /\ QueueComplete'
  <1>1. \A u \in QueuedUpdates : u \in UpdateRows
    <2>1. ASSUME NEW i \in 1..Len(tasks) PROVE tasks[i].update \in UpdateRows
      <3>1. tasks[i] \in TaskRows
        BY DEF Typed
      <3> QED BY <3>1 DEF TaskRows
    <2> QED BY <2>1 DEF QueuedUpdates
  <1>2. ASSUME NEW u \in QueuedUpdates' PROVE Owned(u)'
    <2>1. CASE ~Of(u, r, w)
      <3>1. Owned(u) /\ u.request \in Requests /\ u.worker \in 0..Workers
        BY <1>2, <2>1, UpdateShapes DEF QueueOwned
      <3>2. u.worker = 0 \/ u.worker \in 1..Workers
        BY <3>1, QuotaBoardAssumption
      <3> QED BY <2>1, <3>1, <3>2 DEF Owned, Elsewhere, Of
    <2> QED BY <2>1
  <1>3. ASSUME NEW q \in Requests, call'[q].phase = "storing"
        PROVE  call'[q].task \in QueuedUpdates' /\ call'[q].task.request = q
    <2>1. CASE q # r \/ w # 0
      <3>1. call'[q] = call[q]
        BY <2>1 DEF Elsewhere
      <3>2. call[q].task \in QueuedUpdates /\ call[q].task.request = q /\ call[q].task.worker = 0
        <4>1. call[q].phase = "storing" /\ call[q] \in CallRows
          BY <1>3, <3>1 DEF Typed
        <4>2. call[q].task \in CallUpdates
          BY <4>1, CallRowShapes
        <4> QED BY <4>1, <4>2 DEF QueueComplete, CallUpdates
      <3> QED BY <1>1, <2>1, <3>1, <3>2 DEF Of
    <2>2. CASE q = r /\ w = 0
      <3>1. PICK u \in QueuedUpdates' : Of(u, r, 0)
        BY <1>3, <2>2 DEF Waits
      <3> QED BY <2>2, <3>1 DEF Owned, Of
    <2> QED BY <2>1, <2>2
  <1>4. ASSUME NEW q \in Requests, NEW v \in 1..Workers,
               runner'[q][v].phase \in {"storing", "flagging"}
        PROVE  \E u \in QueuedUpdates' : u.request = q /\ u.worker = v
    <2>1. CASE q # r \/ v # w
      <3>1. PICK u \in QueuedUpdates : u.request = q /\ u.worker = v
        BY <1>4, <2>1 DEF Elsewhere, QueueComplete
      <3> QED BY <1>1, <2>1, <3>1 DEF Of
    <2>2. CASE q = r /\ v = w
      BY <1>4, <2>2, QuotaBoardAssumption DEF Waits, Of
    <2> QED BY <2>1, <2>2
  <1> QED BY <1>2, <1>3, <1>4 DEF QueueOwned, QueueComplete

-----------------------------------------------------------------------------
UpdatesOf(queue) == {queue[i].update : i \in 1..Len(queue)}

\* A queue without its first task.
LEMMA FirstTaken ==
    ASSUME NEW queue \in Seq(TaskRows), queue # <<>>, Distinct(queue)
    PROVE  /\ Tail(queue) \in Seq(TaskRows) /\ Distinct(Tail(queue))
           /\ \A u \in UpdatesOf(Tail(queue)) :
                 ~Of(u, queue[1].update.request, queue[1].update.worker)
           /\ \A u : u \in UpdatesOf(queue) <=> u = queue[1].update \/ u \in UpdatesOf(Tail(queue))
           /\ \A i \in 1..Len(Tail(queue)) : i + 1 \in 1..Len(queue) /\ Tail(queue)[i] = queue[i + 1]
  <1> DEFINE n == Len(queue)
             rest == Tail(queue)
  <1>1. n \in Nat \ {0} /\ 1 \in 1..n
    OBVIOUS
  <1>2. /\ rest \in Seq(TaskRows) /\ Len(rest) = n - 1
        /\ \A i \in 1..n - 1 : rest[i] = queue[i + 1]
    OBVIOUS
  <1>3. \A i \in 1..n - 1 : i + 1 \in 1..n /\ i + 1 # 1
    BY <1>1
  <1>4. \A i \in 1..n : i = 1 \/ (i - 1 \in 1..n - 1 /\ (i - 1) + 1 = i)
    BY <1>1
  <1> HIDE DEF n, rest
  <1>5. ASSUME NEW i \in 1..n - 1, NEW j \in 1..n - 1,
               rest[i].update.request = rest[j].update.request,
               rest[i].update.worker = rest[j].update.worker
        PROVE  i = j
    <2>1. i + 1 = j + 1
      BY <1>2, <1>3, <1>5 DEF Distinct, n
    <2> QED BY <1>1, <2>1
  <1>6. ASSUME NEW u \in UpdatesOf(rest)
        PROVE  ~Of(u, queue[1].update.request, queue[1].update.worker)
    <2>1. PICK i \in 1..n - 1 : u = queue[i + 1].update
      BY <1>2 DEF UpdatesOf
    <2> QED BY <1>1, <1>3, <2>1 DEF Distinct, Of, n
  <1>7. ASSUME NEW u PROVE u \in UpdatesOf(queue) <=> u = queue[1].update \/ u \in UpdatesOf(rest)
    <2>1. ASSUME u \in UpdatesOf(queue), u # queue[1].update PROVE u \in UpdatesOf(rest)
      <3>1. PICK i \in 1..n : u = queue[i].update
        BY <2>1 DEF UpdatesOf, n
      <3>2. i - 1 \in 1..n - 1 /\ rest[i - 1] = queue[i]
        BY <1>2, <1>4, <2>1, <3>1
      <3> QED BY <1>2, <3>1, <3>2 DEF UpdatesOf
    <2>2. queue[1].update \in UpdatesOf(queue)
      BY <1>1 DEF UpdatesOf, n
    <2>3. ASSUME u \in UpdatesOf(rest) PROVE u \in UpdatesOf(queue)
      <3>1. PICK i \in 1..n - 1 : u = queue[i + 1].update
        BY <1>2, <2>3 DEF UpdatesOf
      <3> QED BY <1>3, <3>1 DEF UpdatesOf, n
    <2> QED BY <2>1, <2>2, <2>3
  <1> QED BY <1>2, <1>3, <1>5, <1>6, <1>7 DEF Distinct, n, rest

\* A queue with one task more, of a caller that has none in it.
LEMMA TaskAdded ==
    ASSUME NEW queue \in Seq(TaskRows), Distinct(queue), NEW u \in UpdateRows,
           \A v \in UpdatesOf(queue) : ~Of(v, u.request, u.worker)
    PROVE  /\ Append(queue, Queued(u)) \in Seq(TaskRows) /\ Distinct(Append(queue, Queued(u)))
           /\ \A v : v \in UpdatesOf(Append(queue, Queued(u))) <=> v = u \/ v \in UpdatesOf(queue)
           /\ \A i \in 1..Len(Append(queue, Queued(u))) :
                 \/ Append(queue, Queued(u))[i].draft = None
                 \/ i \in 1..Len(queue) /\ Append(queue, Queued(u))[i] = queue[i]
  <1> DEFINE n == Len(queue)
             longer == Append(queue, Queued(u))
  <1>1. n \in Nat
    OBVIOUS
  <1>2. Queued(u) \in TaskRows /\ Queued(u).update = u /\ Queued(u).draft = None
    BY DEF Queued, TaskRows
  <1>3. /\ longer \in Seq(TaskRows) /\ Len(longer) = n + 1 /\ longer[n + 1] = Queued(u)
        /\ \A i \in 1..n : longer[i] = queue[i]
    BY <1>2, AppendProperties
  <1>4. 1..n + 1 = 1..n \cup {n + 1}
    BY <1>1
  <1> HIDE DEF n, longer
  <1>5. ASSUME NEW i \in 1..n + 1, NEW j \in 1..n + 1,
               longer[i].update.request = longer[j].update.request,
               longer[i].update.worker = longer[j].update.worker
        PROVE  i = j
    <2>1. CASE i \in 1..n /\ j \in 1..n
      BY <1>3, <1>5, <2>1 DEF Distinct, n
    <2>2. CASE i = n + 1 /\ j \in 1..n
      BY <1>2, <1>3, <1>5, <2>2 DEF UpdatesOf, Of, n
    <2>3. CASE i \in 1..n /\ j = n + 1
      BY <1>2, <1>3, <1>5, <2>3 DEF UpdatesOf, Of, n
    <2> QED BY <1>4, <2>1, <2>2, <2>3
  <1>6. ASSUME NEW v PROVE v \in UpdatesOf(longer) <=> v = u \/ v \in UpdatesOf(queue)
    <2>1. ASSUME v \in UpdatesOf(longer) PROVE v = u \/ v \in UpdatesOf(queue)
      <3>1. PICK i \in 1..n + 1 : v = longer[i].update
        BY <1>3, <2>1 DEF UpdatesOf
      <3> QED BY <1>2, <1>3, <1>4, <3>1 DEF UpdatesOf, n
    <2>2. u \in UpdatesOf(longer)
      BY <1>2, <1>3, <1>4 DEF UpdatesOf
    <2>3. ASSUME v \in UpdatesOf(queue) PROVE v \in UpdatesOf(longer)
      <3>1. PICK i \in 1..n : v = queue[i].update
        BY <2>3 DEF UpdatesOf, n
      <3>2. i \in 1..Len(longer) /\ longer[i] = queue[i]
        BY <1>3, <1>4
      <3> QED BY <3>1, <3>2 DEF UpdatesOf
    <2> QED BY <2>1, <2>2, <2>3
  <1>7. \A i \in 1..Len(longer) : longer[i].draft = None \/ (i \in 1..n /\ longer[i] = queue[i])
    BY <1>2, <1>3, <1>4
  <1>8. Distinct(longer)
    BY <1>3, <1>5 DEF Distinct
  <1> QED BY <1>3, <1>6, <1>7, <1>8 DEF longer, n

-----------------------------------------------------------------------------
\* The file is sound before and after an update.
LEMMA FileKept ==
    ASSUME QueueInv, Left \/ (tasks # <<>> /\ Written)
    PROVE  Sound(file')
  <1>1. CASE Left
    BY <1>1 DEF Left, QueueInv
  <1>2. CASE tasks # <<>> /\ Written
    <2>1. tasks[1].update \in UpdateRows /\ 1 \in 1..Len(tasks)
      BY <1>2, QueueTail DEF QueueInv
    <2>2. tasks[1].draft \in Effect(tasks[1].update, file) /\ file' = tasks[1].draft
      BY <1>2, <2>1 DEF QueueInv, DraftsCurrent, Written
    <2>3. PICK new : new = file'
      OBVIOUS
    <2> QED BY <2>1, <2>2, <2>3, EffectSound DEF QueueInv
  <1> QED BY <1>1, <1>2

\* A caller that does not wait for the store moves on.
LEMMA QuietQueue ==
    ASSUME QueueInv, Typed', NEW r \in Requests, NEW w \in 0..Workers, Elsewhere(r, w),
           ~Waits(r, w), ~Waits(r, w)', UNCHANGED <<file, tasks>>
    PROVE  QueueInv'
  <1>1. QueuedUpdates' = QueuedUpdates
    BY DEF QueuedUpdates
  <1>2. \A u \in QueuedUpdates : ~Of(u, r, w)
    BY OwnersWait DEF QueueInv, QueueOwned, Of
  <1>3. \A u \in QueuedUpdates : u \in UpdateRows
    <2>1. ASSUME NEW i \in 1..Len(tasks) PROVE tasks[i].update \in UpdateRows
      <3>1. tasks[i] \in TaskRows
        BY DEF Typed, QueueInv
      <3> QED BY <3>1 DEF TaskRows
    <2> QED BY <2>1 DEF QueuedUpdates
  <1>4. QueueOwned' /\ QueueComplete'
    BY <1>1, <1>2, <1>3, QueueFollows DEF QueueInv
  <1>5. Sound(file)' /\ DraftsCurrent' /\ QueueDistinct'
    BY DEF QueueInv, DraftsCurrent, QueueDistinct, Sound
  <1> QED BY <1>4, <1>5 DEF QueueInv

\* A caller that did not wait for the store puts its update at the end of the queue.
LEMMA AskingQueue ==
    ASSUME QueueInv, Typed', NEW r \in Requests, NEW w \in 0..Workers, Elsewhere(r, w),
           ~Waits(r, w), NEW u \in UpdateRows, Of(u, r, w), Owned(u)',
           tasks' = Append(tasks, Queued(u)), UNCHANGED file
    PROVE  QueueInv'
  <1>1. QueuedUpdates = UpdatesOf(tasks) /\ QueuedUpdates' = UpdatesOf(tasks')
    BY DEF QueuedUpdates, UpdatesOf
  <1>2. \A v \in UpdatesOf(tasks) : ~Of(v, r, w)
    BY <1>1, OwnersWait DEF QueueInv, QueueOwned, Of
  <1>3. /\ tasks' \in Seq(TaskRows) /\ Distinct(tasks')
        /\ \A v : v \in UpdatesOf(tasks') <=> v = u \/ v \in UpdatesOf(tasks)
        /\ \A i \in 1..Len(tasks') :
              tasks'[i].draft = None \/ (i \in 1..Len(tasks) /\ tasks'[i] = tasks[i])
    <2>1. tasks \in Seq(TaskRows) /\ Distinct(tasks)
      BY DEF QueueInv, Typed, QueueDistinct
    <2>2. \A v \in UpdatesOf(tasks) : ~Of(v, u.request, u.worker)
      BY <1>2 DEF Of
    <2> QED BY <2>1, <2>2, TaskAdded
  <1>4. \A v \in UpdatesOf(tasks') : v \in UpdateRows
    <2>1. ASSUME NEW i \in 1..Len(tasks') PROVE tasks'[i].update \in UpdateRows
      <3>1. tasks'[i] \in TaskRows
        BY <1>3
      <3> QED BY <3>1 DEF TaskRows
    <2> QED BY <2>1 DEF UpdatesOf
  <1>5. QueueOwned' /\ QueueComplete'
    <2>1. \A v \in QueuedUpdates' : Of(v, r, w) => Owned(v)'
      BY <1>1, <1>2, <1>3
    <2>2. \A v \in UpdateRows : ~Of(v, r, w) => (v \in QueuedUpdates' <=> v \in QueuedUpdates)
      BY <1>1, <1>3
    <2>3. \E v \in QueuedUpdates' : Of(v, r, w)
      BY <1>1, <1>3
    <2> QED BY <1>1, <1>4, <2>1, <2>2, <2>3, QueueFollows DEF QueueInv
  <1>6. DraftsCurrent'
    BY <1>3 DEF QueueInv, DraftsCurrent
  <1>7. Sound(file)' /\ QueueDistinct'
    BY <1>3 DEF QueueInv, QueueDistinct, Sound
  <1> QED BY <1>5, <1>6, <1>7 DEF QueueInv

\* The first task has settled: the queue behind it has no draft yet.
LEMMA Settling ==
    ASSUME QueueInv, tasks # <<>>
    PROVE  LET rest == Tail(tasks)
               head == tasks[1].update IN
           /\ rest \in Seq(TaskRows) /\ Distinct(rest)
           /\ \A u \in UpdatesOf(rest) : ~Of(u, head.request, head.worker)
           /\ \A u : u \in QueuedUpdates <=> u = head \/ u \in UpdatesOf(rest)
           /\ \A i \in 1..Len(rest) : rest[i].draft = None
  <1>1. tasks \in Seq(TaskRows) /\ Distinct(tasks) /\ QueuedUpdates = UpdatesOf(tasks)
    BY DEF QueueInv, Typed, QueueDistinct, QueuedUpdates, UpdatesOf
  <1>2. ASSUME NEW i \in 1..Len(Tail(tasks)) PROVE Tail(tasks)[i].draft = None
    <2>1. i + 1 \in 1..Len(tasks) /\ Tail(tasks)[i] = tasks[i + 1]
      BY <1>1, FirstTaken
    <2>2. i + 1 # 1
      BY <1>1
    <2> QED BY <2>1, <2>2 DEF QueueInv, DraftsCurrent
  <1> QED BY <1>1, <1>2, FirstTaken

\* The first task is over, and its caller no longer waits for the store.
LEMMA EndingQueue ==
    ASSUME QueueInv, Typed', tasks # <<>>, NEW r \in Requests, NEW w \in 0..Workers,
           Elsewhere(r, w), Of(tasks[1].update, r, w), ~Waits(r, w)', tasks' = Tail(tasks),
           Left \/ Written
    PROVE  QueueInv'
  <1>1. /\ tasks' \in Seq(TaskRows) /\ Distinct(tasks')
        /\ \A u \in UpdatesOf(tasks') : ~Of(u, r, w)
        /\ \A u : u \in QueuedUpdates <=> u = tasks[1].update \/ u \in UpdatesOf(tasks')
        /\ \A i \in 1..Len(tasks') : tasks'[i].draft = None
    BY Settling DEF Of
  <1>2. QueuedUpdates' = UpdatesOf(tasks')
    BY DEF QueuedUpdates, UpdatesOf
  <1>3. \A u \in UpdatesOf(tasks') : u \in UpdateRows
    <2>1. ASSUME NEW i \in 1..Len(tasks') PROVE tasks'[i].update \in UpdateRows
      <3>1. tasks'[i] \in TaskRows
        BY <1>1
      <3> QED BY <3>1 DEF TaskRows
    <2> QED BY <2>1 DEF UpdatesOf
  <1>4. QueueOwned' /\ QueueComplete'
    BY <1>1, <1>2, <1>3, QueueFollows DEF QueueInv
  <1>5. DraftsCurrent' /\ QueueDistinct'
    BY <1>1 DEF DraftsCurrent, QueueDistinct
  <1>6. Sound(file)'
    BY FileKept
  <1> QED BY <1>4, <1>5, <1>6 DEF QueueInv

\* The first task is over, and its caller waits for another one.
LEMMA RetryingQueue ==
    ASSUME QueueInv, Typed', tasks # <<>>, NEW r \in Requests, NEW w \in 0..Workers,
           Elsewhere(r, w), Of(tasks[1].update, r, w), NEW u \in UpdateRows, Of(u, r, w),
           Owned(u)', tasks' = Append(Tail(tasks), Queued(u)), Left \/ Written
    PROVE  QueueInv'
  <1> DEFINE rest == Tail(tasks)
  <1>1. /\ rest \in Seq(TaskRows) /\ Distinct(rest)
        /\ \A v \in UpdatesOf(rest) : ~Of(v, r, w)
        /\ \A v : v \in QueuedUpdates <=> v = tasks[1].update \/ v \in UpdatesOf(rest)
        /\ \A i \in 1..Len(rest) : rest[i].draft = None
    BY Settling DEF Of
  <1> HIDE DEF rest
  <1>2. /\ tasks' \in Seq(TaskRows) /\ Distinct(tasks')
        /\ \A v : v \in UpdatesOf(tasks') <=> v = u \/ v \in UpdatesOf(rest)
        /\ \A i \in 1..Len(tasks') :
              tasks'[i].draft = None \/ (i \in 1..Len(rest) /\ tasks'[i] = rest[i])
    <2>1. \A v \in UpdatesOf(rest) : ~Of(v, u.request, u.worker)
      BY <1>1 DEF Of
    <2>2. tasks' = Append(rest, Queued(u))
      BY DEF rest
    <2>3. /\ Append(rest, Queued(u)) \in Seq(TaskRows) /\ Distinct(Append(rest, Queued(u)))
          /\ \A v : v \in UpdatesOf(Append(rest, Queued(u))) <=> v = u \/ v \in UpdatesOf(rest)
          /\ \A i \in 1..Len(Append(rest, Queued(u))) :
                \/ Append(rest, Queued(u))[i].draft = None
                \/ i \in 1..Len(rest) /\ Append(rest, Queued(u))[i] = rest[i]
      <3>1. rest \in Seq(TaskRows) /\ Distinct(rest) /\ u \in UpdateRows
        BY <1>1
      <3> QED BY ONLY <3>1, <2>1, TaskAdded
    <2> QED BY ONLY <2>2, <2>3
  <1>3. QueuedUpdates' = UpdatesOf(tasks')
    BY DEF QueuedUpdates, UpdatesOf
  <1>4. \A v \in UpdatesOf(tasks') : v \in UpdateRows
    <2>1. ASSUME NEW i \in 1..Len(tasks') PROVE tasks'[i].update \in UpdateRows
      <3>1. tasks'[i] \in TaskRows
        BY <1>2
      <3> QED BY <3>1 DEF TaskRows
    <2> QED BY <2>1 DEF UpdatesOf
  <1>5. QueueOwned' /\ QueueComplete'
    <2>1. \A v \in QueuedUpdates' : Of(v, r, w) => Owned(v)'
      BY <1>1, <1>2, <1>3
    <2>2. \A v \in UpdateRows : ~Of(v, r, w) => (v \in QueuedUpdates' <=> v \in QueuedUpdates)
      BY <1>1, <1>2, <1>3
    <2>3. \E v \in QueuedUpdates' : Of(v, r, w)
      BY <1>2, <1>3
    <2> QED BY <1>3, <1>4, <2>1, <2>2, <2>3, QueueFollows DEF QueueInv
  <1>6. DraftsCurrent' /\ QueueDistinct'
    BY <1>1, <1>2 DEF DraftsCurrent, QueueDistinct
  <1>7. Sound(file)'
    BY FileKept
  <1> QED BY <1>5, <1>6, <1>7 DEF QueueInv

-----------------------------------------------------------------------------
\* One call moves.
LEMMA CallMoves ==
    ASSUME Typed, NEW r \in Requests, NEW c \in CallRows, call' = [call EXCEPT ![r] = c],
           c.phase = "fetching" => "create" \in KindsOf[r]
    PROVE  /\ call' \in [Requests -> CallRows] /\ call'[r] = c
           /\ \A q \in Requests : q # r => call'[q] = call[q]
           /\ \A q \in Requests : call'[q].phase = "fetching" => "create" \in KindsOf[q]
  BY DEF Typed

\* One worker, one walk, changes, and is then x.
Put(r, w, x) == runner' = [runner EXCEPT ![r][w] = x]
WorkerIs(r, w, x) ==
    /\ runner' \in [Requests -> [1..Workers -> RunnerRows]] /\ runner'[r][w] = x
    /\ \A q \in Requests, v \in 1..Workers : q # r \/ v # w => runner'[q][v] = runner[q][v]
    /\ \A q \in Requests : q # r => runner'[q] = runner[q]
WalkIs(r, x) ==
    /\ walk' \in [Requests -> WalkRows] /\ walk'[r] = x
    /\ \A q \in Requests : q # r => walk'[q] = walk[q]

\* A walk whose next account was taken, and one that lost or refreshed an account.
Onward(wk) == [ids |-> wk.ids, cursor |-> wk.cursor + 1,
               completed |-> wk.completed, failed |-> wk.failed,
               refreshed |-> wk.refreshed, missed |-> wk.missed]
OneMore(f, a) == [f EXCEPT ![a] = @ + 1]
AfterOne(wk, a, ok) ==
    [ids |-> wk.ids, cursor |-> wk.cursor,
     completed |-> IF ok THEN wk.completed + 1 ELSE wk.completed,
     failed |-> IF ok THEN wk.failed ELSE wk.failed + 1,
     refreshed |-> IF ok THEN OneMore(wk.refreshed, a) ELSE wk.refreshed,
     missed |-> IF ok THEN wk.missed ELSE OneMore(wk.missed, a)]

\* The walk of WorkerTakes.
LEMMA OnwardRow ==
    ASSUME NEW wk \in WalkRows
    PROVE  Onward(wk) \in WalkRows /\ [wk EXCEPT !.cursor = @ + 1] = Onward(wk)
  <1>1. wk = [ids |-> wk.ids, cursor |-> wk.cursor, completed |-> wk.completed,
              failed |-> wk.failed, refreshed |-> wk.refreshed, missed |-> wk.missed]
    BY DEF WalkRows
  <1>2. wk.cursor + 1 \in Nat
    BY DEF WalkRows
  <1>3. Onward(wk) \in WalkRows
    BY <1>2 DEF Onward, WalkRows
  <1> QED BY <1>1, <1>3 DEF Onward

\* The walk of Counted.
LEMMA EndedRow ==
    ASSUME NEW wk \in WalkRows, NEW a \in AccountIds, NEW ok \in BOOLEAN
    PROVE  Ended(wk, a, ok) = AfterOne(wk, a, ok) /\ AfterOne(wk, a, ok) \in WalkRows
  <1>1. wk = [ids |-> wk.ids, cursor |-> wk.cursor, completed |-> wk.completed,
              failed |-> wk.failed, refreshed |-> wk.refreshed, missed |-> wk.missed]
    BY DEF WalkRows
  <1>2. /\ wk.completed \in Nat /\ wk.failed \in Nat /\ wk.cursor \in Nat
        /\ wk.ids \in Seq(AccountIds)
        /\ wk.refreshed \in [AccountIds -> Nat] /\ wk.missed \in [AccountIds -> Nat]
    BY DEF WalkRows
  <1>3. /\ OneMore(wk.refreshed, a) \in [AccountIds -> Nat]
        /\ OneMore(wk.missed, a) \in [AccountIds -> Nat]
    BY <1>2 DEF OneMore
  <1>4. AfterOne(wk, a, ok) \in WalkRows
    BY <1>2, <1>3 DEF AfterOne, WalkRows
  <1>5. Ended(wk, a, ok) = AfterOne(wk, a, ok)
    <2>1. CASE ok
      <3>1. Ended(wk, a, ok) =
               [wk EXCEPT !.completed = wk.completed + 1, !.refreshed = OneMore(wk.refreshed, a)]
        BY <1>1, <2>1 DEF Ended, OneMore
      <3> QED BY <1>1, <2>1, <3>1 DEF AfterOne
    <2>2. CASE ~ok
      <3>1. Ended(wk, a, ok) =
               [wk EXCEPT !.failed = wk.failed + 1, !.missed = OneMore(wk.missed, a)]
        BY <1>1, <2>2 DEF Ended, OneMore
      <3> QED BY <1>1, <2>2, <3>1 DEF AfterOne
    <2> QED BY <2>1, <2>2
  <1> QED BY <1>4, <1>5

\* One worker moves.
LEMMA WorkerMoves ==
    ASSUME Typed, NEW r \in Requests, NEW w \in 1..Workers, NEW x \in RunnerRows,
           Put(r, w, x)
    PROVE  WorkerIs(r, w, x)
  <1>1. runner[r] \in [1..Workers -> RunnerRows]
    BY DEF Typed
  <1>2. [runner[r] EXCEPT ![w] = x] \in [1..Workers -> RunnerRows]
    BY <1>1
  <1>3. runner' = [runner EXCEPT ![r] = [runner[r] EXCEPT ![w] = x]]
    BY DEF Put
  <1> QED BY <1>1, <1>2, <1>3 DEF Typed, WorkerIs

\* A worker goes from one phase to another with its account.
LEMMA WorkerTurns ==
    ASSUME Typed, NEW r \in Requests, NEW w \in 1..Workers,
           NEW p \in {"reading", "fetching", "storing", "flagging"},
           runner[r][w].phase # "off", runner' = [runner EXCEPT ![r][w].phase = p]
    PROVE  /\ runner[r][w].account \in AccountIds
           /\ WorkerIs(r, w, [account |-> runner[r][w].account, phase |-> p])
  <1> DEFINE x == [account |-> runner[r][w].account, phase |-> p]
  <1>1. runner[r][w] \in RunnerRows
    BY DEF Typed
  <1>2. runner[r][w].account \in AccountIds /\ x = [runner[r][w] EXCEPT !.phase = p]
    BY <1>1 DEF RunnerRows
  <1>3. x \in RunnerRows
    BY <1>2 DEF RunnerRows
  <1>4. Put(r, w, x)
    BY <1>2 DEF Put
  <1> HIDE DEF x
  <1>5. WorkerIs(r, w, x)
    BY <1>3, <1>4, WorkerMoves
  <1> QED BY <1>2, <1>5 DEF x

\* A refresh is over: its worker is off, and counted.
LEMMA WorkerCounted ==
    ASSUME Typed, NEW r \in Requests, NEW w \in 1..Workers, NEW ok \in BOOLEAN, Counted(r, w, ok),
           runner[r][w].phase # "off"
    PROVE  /\ WorkerIs(r, w, [account |-> "none", phase |-> "off"])
           /\ WalkIs(r, AfterOne(walk[r], runner[r][w].account, ok))
  <1>1. [account |-> "none", phase |-> "off"] \in RunnerRows
    BY DEF RunnerRows
  <1>2. Put(r, w, [account |-> "none", phase |-> "off"])
    BY DEF Counted, Put
  <1>3. walk[r] \in WalkRows /\ walk \in [Requests -> WalkRows] /\ runner[r][w].account \in AccountIds
    BY DEF Typed, RunnerRows
  <1>4. /\ Ended(walk[r], runner[r][w].account, ok) = AfterOne(walk[r], runner[r][w].account, ok)
        /\ AfterOne(walk[r], runner[r][w].account, ok) \in WalkRows
    BY <1>3, EndedRow
  <1>5. walk' = [walk EXCEPT ![r] = AfterOne(walk[r], runner[r][w].account, ok)]
    BY <1>4 DEF Counted
  <1>6. WalkIs(r, AfterOne(walk[r], runner[r][w].account, ok))
    BY <1>3, <1>4, <1>5 DEF WalkIs
  <1> QED BY <1>1, <1>2, <1>6, WorkerMoves

\* A worker takes the next account.
LEMMA WorkerTook ==
    ASSUME Typed, NEW r \in Requests, NEW w \in 1..Workers, WorkerTakes(r, w)
    PROVE  /\ walk[r].cursor + 1 \in 1..Len(walk[r].ids)
           /\ walk[r].ids[walk[r].cursor + 1] \in AccountIds
           /\ WorkerIs(r, w, [account |-> walk[r].ids[walk[r].cursor + 1], phase |-> "reading"])
           /\ WalkIs(r, Onward(walk[r]))
  <1>1. /\ walk[r] \in WalkRows /\ walk[r].cursor \in Nat /\ walk[r].ids \in Seq(AccountIds)
        /\ walk \in [Requests -> WalkRows] /\ walk[r].cursor < Len(walk[r].ids)
    BY DEF Typed, WalkRows, WorkerTakes
  <1>2. walk[r].cursor + 1 \in 1..Len(walk[r].ids)
    BY <1>1
  <1> DEFINE a == walk[r].ids[walk[r].cursor + 1]
             x == [account |-> a, phase |-> "reading"]
  <1>3. a \in AccountIds
    BY <1>1, <1>2
  <1>4. x \in RunnerRows /\ Put(r, w, x)
    <2>1. x \in RunnerRows
      BY <1>3 DEF RunnerRows
    <2>2. Put(r, w, x)
      BY DEF Put, WorkerTakes
    <2> QED BY <2>1, <2>2
  <1>5. Onward(walk[r]) \in WalkRows /\ [walk[r] EXCEPT !.cursor = @ + 1] = Onward(walk[r])
    BY <1>1, OnwardRow
  <1>6. walk' = [walk EXCEPT ![r] = Onward(walk[r])]
    BY <1>5 DEF WorkerTakes
  <1> HIDE DEF a, x
  <1>7. WalkIs(r, Onward(walk[r]))
    BY <1>1, <1>5, <1>6 DEF WalkIs
  <1> QED BY <1>2, <1>3, <1>4, <1>7, WorkerMoves DEF a, x

\* The types after a step, part by part.
LEMMA TypedAgain ==
    ASSUME Typed, tasks' \in Seq(TaskRows), call' \in [Requests -> CallRows],
           walk' \in [Requests -> WalkRows], runner' \in [Requests -> [1..Workers -> RunnerRows]],
           \A r \in Requests : call'[r].phase = "fetching" => "create" \in KindsOf[r],
           Left \/ (tasks # <<>> /\ Written), UNCHANGED faults \/ Charged, UNCHANGED crashes
    PROVE  Typed'
  <1>1. applied' \in SUBSET UpdateRows
    <2>1. CASE Left
      BY <2>1 DEF Left, Typed
    <2>2. CASE tasks # <<>> /\ Written
      BY <2>2, QueueTail DEF Written, Typed
    <2> QED BY <2>1, <2>2
  <1>2. faults' \in Nat /\ crashes' \in Nat /\ faults' + crashes' <= MaxFaults
    <2>1. faults \in Nat /\ crashes \in Nat /\ MaxFaults \in Nat /\ faults + crashes <= MaxFaults
      BY QuotaBoardAssumption DEF Typed
    <2> QED BY <2>1 DEF Charged
  <1> QED BY <1>1, <1>2 DEF Typed

\* The types, and the queue, when a call without a walk moves, or a walk starts or ends.
LEMMA CallKeepsQueue ==
    ASSUME QueueInv, NEW r \in Requests,
           Answered(r) \/ Fetches(r) \/ Asks(r) \/ Walks(r) \/ Walked(r)
    PROVE  QueueInv'
  <1>0. Typed /\ tasks \in Seq(TaskRows) /\ walk \in [Requests -> WalkRows]
        /\ runner \in [Requests -> [1..Workers -> RunnerRows]] /\ 0 \in 0..Workers
    BY QuotaBoardAssumption DEF QueueInv, Typed
  <1>1. ASSUME NEW c \in CallRows, call' = [call EXCEPT ![r] = c],
               c.phase = "fetching" => "create" \in KindsOf[r],
               walk' \in [Requests -> WalkRows], UNCHANGED <<fixed, runner>>,
               tasks' \in Seq(TaskRows)
        PROVE  Typed' /\ Elsewhere(r, 0) /\ call'[r] = c
    <2>1. /\ call' \in [Requests -> CallRows] /\ call'[r] = c
          /\ \A q \in Requests : q # r => call'[q] = call[q]
          /\ \A q \in Requests : call'[q].phase = "fetching" => "create" \in KindsOf[q]
      BY <1>0, <1>1, CallMoves
    <2>2. Left /\ UNCHANGED faults /\ UNCHANGED crashes
      BY <1>1 DEF fixed, Left
    <2>3. runner' \in [Requests -> [1..Workers -> RunnerRows]]
      BY <1>0, <1>1
    <2>4. Typed'
      BY <1>0, <1>1, <2>1, <2>2, <2>3, TypedAgain
    <2> QED BY <1>1, <2>1, <2>4 DEF Elsewhere
  <1>2. ASSUME NEW c \in CallRows, call' = [call EXCEPT ![r] = c], call[r].phase # "storing",
               c.phase # "storing", c.phase = "fetching" => "create" \in KindsOf[r],
               walk' \in [Requests -> WalkRows], UNCHANGED <<fixed, runner, tasks>>
        PROVE  QueueInv'
    <2>1. Typed' /\ Elsewhere(r, 0) /\ call'[r] = c
      BY <1>0, <1>1, <1>2
    <2>2. ~Waits(r, 0) /\ ~Waits(r, 0)'
      BY <1>2, <2>1 DEF Waits
    <2>3. UNCHANGED <<file, tasks>>
      BY <1>2 DEF fixed
    <2> QED BY <1>0, <2>1, <2>2, <2>3, QuietQueue
  <1>3. CASE Answered(r)
    <2>1. PICK c \in CallRows :
             /\ call[r].phase \in {"idle", "fetching"} /\ c.phase = "done"
             /\ call' = [call EXCEPT ![r] = c] /\ UNCHANGED <<fixed, tasks, walk, runner>>
      BY <1>3 DEF Answered
    <2> QED BY <1>0, <1>2, <2>1
  <1>4. CASE Fetches(r)
    <2>1. PICK c \in CallRows :
             /\ call[r].phase = "idle" /\ c.phase = "fetching" /\ "create" \in KindsOf[r]
             /\ call' = [call EXCEPT ![r] = c] /\ UNCHANGED <<fixed, tasks, walk, runner>>
      BY <1>4 DEF Fetches
    <2> QED BY <1>0, <1>2, <2>1
  <1>5. CASE Walks(r)
    <2>1. PICK c \in CallRows, ids \in Seq(AccountIds) :
             /\ call[r].phase = "idle" /\ c.phase = "refreshing"
             /\ call' = [call EXCEPT ![r] = c] /\ walk' = [walk EXCEPT ![r] = WalkOf(ids)]
             /\ UNCHANGED <<fixed, tasks, runner>>
      BY <1>5 DEF Walks
    <2>2. WalkOf(ids) \in WalkRows
      BY WalkOfRow
    <2>3. walk' \in [Requests -> WalkRows]
      BY <1>0, <2>1, <2>2
    <2> QED BY <1>2, <2>1, <2>3
  <1>6. CASE Walked(r)
    <2>1. PICK c \in CallRows :
             /\ call[r].phase = "refreshing" /\ c.phase = "done"
             /\ call' = [call EXCEPT ![r] = c] /\ UNCHANGED <<fixed, tasks, walk, runner>>
      BY <1>6 DEF Walked
    <2> QED BY <1>0, <1>2, <2>1
  <1>7. CASE Asks(r)
    <2>1. PICK c \in CallRows :
             /\ call[r].phase \in {"idle", "fetching"} /\ c.phase = "storing" /\ c.task.request = r
             /\ call' = [call EXCEPT ![r] = c] /\ tasks' = Append(tasks, Queued(c.task))
             /\ UNCHANGED <<fixed, walk, runner>>
      BY <1>7 DEF Asks
    <2>2. PICK u \in CallUpdates : u = c.task
      BY <2>1, CallRowShapes
    <2>3. u \in UpdateRows /\ u.worker = 0 /\ Of(u, r, 0)
      BY <2>1, <2>2 DEF UpdateRows, CallUpdates, Of
    <2>4. tasks' \in Seq(TaskRows)
      <3>1. Queued(u) \in TaskRows
        BY <2>3 DEF Queued, TaskRows
      <3> QED BY <1>0, <2>1, <2>2, <3>1, AppendProperties
    <2>5. Typed' /\ Elsewhere(r, 0) /\ call'[r] = c
      BY <1>0, <1>1, <2>1, <2>4
    <2>6. ~Waits(r, 0) /\ Owned(u)' /\ UNCHANGED file
      BY <2>1, <2>2, <2>3, <2>5 DEF Waits, Owned, fixed
    <2> QED BY <1>0, <2>1, <2>2, <2>3, <2>5, <2>6, AskingQueue
  <1> QED BY <1>3, <1>4, <1>5, <1>6, <1>7

\* The types, and the queue, when a worker takes an account, reads on, gives up or asks
\* the store.
LEMMA WorkerKeepsQueue ==
    ASSUME QueueInv, NEW r \in Requests, NEW w \in 1..Workers,
           WorkerTakes(r, w) \/ ReadsOn(r, w) \/ GivesUp(r, w) \/ Stores(r, w)
    PROVE  QueueInv'
  <1>0. Typed /\ tasks \in Seq(TaskRows) /\ walk \in [Requests -> WalkRows]
        /\ call \in [Requests -> CallRows] /\ w \in 0..Workers /\ w # 0
        /\ \A q \in Requests : call[q].phase = "fetching" => "create" \in KindsOf[q]
    BY QuotaBoardAssumption DEF QueueInv, Typed
  <1>1. ASSUME NEW x, WorkerIs(r, w, x), walk' \in [Requests -> WalkRows],
               UNCHANGED <<fixed, call>>, tasks' \in Seq(TaskRows)
        PROVE  Typed' /\ Elsewhere(r, w)
    <2>1. Left /\ UNCHANGED faults /\ UNCHANGED crashes
      BY <1>1 DEF fixed, Left
    <2>2. call' \in [Requests -> CallRows]
          /\ \A q \in Requests : call'[q].phase = "fetching" => "create" \in KindsOf[q]
      BY <1>0, <1>1
    <2>3. Typed'
      BY <1>0, <1>1, <2>1, <2>2, TypedAgain DEF WorkerIs
    <2>4. Elsewhere(r, w)
      BY <1>0, <1>1 DEF Elsewhere, WorkerIs
    <2> QED BY <2>3, <2>4
  <1>2. CASE WorkerTakes(r, w)
    <2> DEFINE x == [account |-> walk[r].ids[walk[r].cursor + 1], phase |-> "reading"]
    <2>1. WorkerIs(r, w, x) /\ walk' \in [Requests -> WalkRows]
      BY <1>0, <1>2, WorkerTook DEF WalkIs
    <2>2. UNCHANGED <<fixed, tasks, call>> /\ runner[r][w].phase = "off" /\ x.phase = "reading"
      BY <1>2 DEF WorkerTakes
    <2> HIDE DEF x
    <2>3. Typed' /\ Elsewhere(r, w)
      BY <1>0, <1>1, <2>1, <2>2
    <2>4. ~Waits(r, w) /\ ~Waits(r, w)' /\ UNCHANGED <<file, tasks>>
      BY <1>0, <2>1, <2>2 DEF Waits, fixed, WorkerIs
    <2> QED BY <1>0, <2>3, <2>4, QuietQueue
  <1>3. CASE ReadsOn(r, w)
    <2>1. /\ runner[r][w].phase = "reading" /\ runner' = [runner EXCEPT ![r][w].phase = "fetching"]
          /\ UNCHANGED <<fixed, tasks, call, walk>>
      BY <1>3 DEF ReadsOn
    <2>2. WorkerIs(r, w, [account |-> runner[r][w].account, phase |-> "fetching"])
      BY <1>0, <2>1, WorkerTurns
    <2>3. Typed' /\ Elsewhere(r, w)
      BY <1>0, <1>1, <2>1, <2>2
    <2>4. ~Waits(r, w) /\ ~Waits(r, w)' /\ UNCHANGED <<file, tasks>>
      BY <1>0, <2>1, <2>2 DEF Waits, fixed, WorkerIs
    <2> QED BY <1>0, <2>3, <2>4, QuietQueue
  <1>4. CASE GivesUp(r, w)
    <2>1. runner[r][w].phase = "reading" /\ Counted(r, w, FALSE) /\ UNCHANGED <<fixed, tasks, call>>
      BY <1>4 DEF GivesUp
    <2>2. WorkerIs(r, w, [account |-> "none", phase |-> "off"]) /\ walk' \in [Requests -> WalkRows]
      BY <1>0, <2>1, WorkerCounted DEF WalkIs
    <2>3. Typed' /\ Elsewhere(r, w)
      BY <1>0, <1>1, <2>1, <2>2
    <2>4. ~Waits(r, w) /\ ~Waits(r, w)' /\ UNCHANGED <<file, tasks>>
      BY <1>0, <2>1, <2>2 DEF Waits, fixed, WorkerIs
    <2> QED BY <1>0, <2>3, <2>4, QuietQueue
  <1>5. CASE Stores(r, w)
    <2>1. PICK u \in SyncUpdates \cup FlagUpdates :
             /\ u.request = r /\ u.worker = w /\ u.account = runner[r][w].account
             /\ runner[r][w].phase = "fetching" /\ tasks' = Append(tasks, Queued(u))
             /\ runner' = [runner EXCEPT ![r][w].phase = IF u.op = "sync" THEN "storing" ELSE "flagging"]
             /\ UNCHANGED <<fixed, call, walk>>
      BY <1>5 DEF Stores
    <2>2. PICK p \in {"storing", "flagging"} : p = IF u.op = "sync" THEN "storing" ELSE "flagging"
      OBVIOUS
    <2>3. WorkerIs(r, w, [account |-> u.account, phase |-> p])
      <3>1. runner' = [runner EXCEPT ![r][w].phase = p] /\ runner[r][w].phase # "off"
        BY <2>1, <2>2
      <3>2. p \in {"reading", "fetching", "storing", "flagging"}
        OBVIOUS
      <3>3. WorkerIs(r, w, [account |-> runner[r][w].account, phase |-> p])
        BY <1>0, <3>1, <3>2, WorkerTurns
      <3> QED BY <2>1, <3>3
    <2>4. u \in UpdateRows /\ Of(u, r, w)
      BY <2>1 DEF UpdateRows, Of
    <2>5. tasks' \in Seq(TaskRows)
      <3>1. Queued(u) \in TaskRows
        BY <2>4 DEF Queued, TaskRows
      <3> QED BY <1>0, <2>1, <3>1, AppendProperties
    <2>6. Typed' /\ Elsewhere(r, w)
      BY <1>0, <1>1, <2>1, <2>3, <2>5
    <2>7. ~Waits(r, w) /\ Owned(u)' /\ UNCHANGED file
      BY <1>0, <2>1, <2>2, <2>3 DEF Waits, Owned, fixed, WorkerIs
    <2> QED BY <1>0, <2>1, <2>4, <2>6, <2>7, AskingQueue
  <1> QED BY <1>2, <1>3, <1>4, <1>5

\* The worker whose task is the first of the queue waits for it.
LEMMA HeadOwned ==
    ASSUME QueueInv, tasks # <<>>
    PROVE  LET u == tasks[1].update IN
           /\ u \in UpdateRows /\ u.request \in Requests /\ u.worker \in 0..Workers
           /\ u.account \in AccountIds /\ u \in QueuedUpdates /\ Owned(u)
           /\ u \in CallUpdates => u.worker = 0
           /\ u \in SyncUpdates \cup FlagUpdates => u.worker \in 1..Workers /\ u.worker # 0
  <1>1. tasks[1].update \in UpdateRows /\ 1 \in 1..Len(tasks)
    BY QueueTail DEF QueueInv
  <1>2. tasks[1].update \in QueuedUpdates
    BY <1>1 DEF QueuedUpdates
  <1> QED BY <1>1, <1>2, UpdateShapes, QuotaBoardAssumption DEF QueueInv, QueueOwned

\* The types, and the queue, when the first task settles.
LEMMA SettlingKeepsQueue ==
    ASSUME QueueInv, Retries \/ WorkerDone \/ Replied
    PROVE  QueueInv'
  <1>a. PICK u, r, w : u = tasks[1].update /\ r = u.request /\ w = u.worker
    OBVIOUS
  <1>0. /\ Typed /\ tasks \in Seq(TaskRows) /\ walk \in [Requests -> WalkRows]
        /\ call \in [Requests -> CallRows] /\ runner \in [Requests -> [1..Workers -> RunnerRows]]
        /\ \A q \in Requests : call[q].phase = "fetching" => "create" \in KindsOf[q]
    BY DEF QueueInv, Typed
  <1>1. tasks # <<>>
    BY DEF Retries, WorkerDone, Replied
  <1>2. /\ u \in UpdateRows /\ r \in Requests /\ w \in 0..Workers /\ u.account \in AccountIds
        /\ Owned(u) /\ Of(u, r, w)
        /\ u \in CallUpdates => w = 0
        /\ u \in SyncUpdates \cup FlagUpdates => w \in 1..Workers /\ w # 0
    BY <1>a, <1>1, HeadOwned, SMTT(30) DEF Of
  <1>3. Tail(tasks) \in Seq(TaskRows)
    BY <1>0, <1>1, QueueTail
  <1>4. CASE Retries
    <2>a. PICK flag : flag = Flag(r, w)
      OBVIOUS
    <2>1. /\ u \in SyncUpdates /\ tasks' = Append(Tail(tasks), Queued(flag))
          /\ runner' = [runner EXCEPT ![r][w].phase = "flagging"]
          /\ (Left \/ Written) /\ (UNCHANGED faults \/ Charged) /\ UNCHANGED <<call, walk, crashes>>
      BY <1>a, <2>a, <1>4, SMTT(30) DEF Retries
    <2>2. w \in 1..Workers /\ w # 0 /\ runner[r][w] = [account |-> u.account, phase |-> "storing"]
      <3>1. u.op = "sync"
        BY <1>2, <2>1, UpdateShapes
      <3> QED BY <1>a, <1>2, <2>1, <3>1 DEF Owned
    <2>3. /\ flag \in FlagUpdates /\ flag.request = r /\ flag.worker = w /\ flag.op = "flag"
          /\ flag.account = u.account
      BY <1>a, <2>a, <1>2, <2>2 DEF Flag, FlagUpdates, Owned
    <2>4. flag \in UpdateRows /\ Of(flag, r, w)
      BY <2>3 DEF UpdateRows, Of
    <2>5. WorkerIs(r, w, [account |-> u.account, phase |-> "flagging"])
      <3>1. runner[r][w].phase # "off" /\ runner[r][w].account = u.account
        BY <2>2
      <3>2. WorkerIs(r, w, [account |-> runner[r][w].account, phase |-> "flagging"])
        BY <1>0, <1>2, <2>1, <2>2, <3>1, WorkerTurns
      <3> QED BY <3>1, <3>2
    <2>6. tasks' \in Seq(TaskRows)
      <3>1. Queued(flag) \in TaskRows
        BY <2>4 DEF Queued, TaskRows
      <3> QED BY <1>3, <2>1, <3>1, AppendProperties
    <2>7. Typed'
      <3>1. call' \in [Requests -> CallRows] /\ walk' \in [Requests -> WalkRows]
            /\ \A q \in Requests : call'[q].phase = "fetching" => "create" \in KindsOf[q]
        BY <1>0, <2>1
      <3> QED BY <1>0, <1>1, <2>1, <2>5, <2>6, <3>1, TypedAgain DEF WorkerIs
    <2>8. Elsewhere(r, w) /\ Owned(flag)'
      BY <2>1, <2>2, <2>3, <2>5 DEF Elsewhere, WorkerIs, Owned
    <2>9. Of(tasks[1].update, r, w)
      BY <1>a, <1>2
    <2> QED BY <1>1, <1>2, <2>1, <2>4, <2>7, <2>8, <2>9, RetryingQueue
  <1>5. CASE WorkerDone
    <2>1. /\ u \in SyncUpdates \cup FlagUpdates /\ tasks' = Tail(tasks)
          /\ Counted(r, w, u.op = "sync")
          /\ (Left \/ Written) /\ (UNCHANGED faults \/ Charged) /\ UNCHANGED <<call, crashes>>
      BY <1>a, <1>5 DEF WorkerDone
    <2>2. w \in 1..Workers /\ w # 0 /\ runner[r][w].phase # "off"
      BY <1>a, <1>2, <2>1 DEF Owned
    <2>3. PICK ok \in BOOLEAN : ok = (u.op = "sync")
      OBVIOUS
    <2>4. Of(tasks[1].update, r, w)
      BY <1>a, <1>2
    <2>5. WorkerIs(r, w, [account |-> "none", phase |-> "off"]) /\ walk' \in [Requests -> WalkRows]
      <3>1. Counted(r, w, ok)
        BY <2>1, <2>3
      <3> QED BY <1>0, <1>2, <2>2, <3>1, WorkerCounted DEF WalkIs
    <2>6. Typed'
      <3>1. call' \in [Requests -> CallRows] /\ tasks' \in Seq(TaskRows)
            /\ \A q \in Requests : call'[q].phase = "fetching" => "create" \in KindsOf[q]
        BY <1>0, <1>3, <2>1
      <3> QED BY <1>0, <1>1, <2>1, <2>5, <3>1, TypedAgain DEF WorkerIs
    <2>7. Elsewhere(r, w) /\ ~Waits(r, w)'
      BY <2>1, <2>2, <2>5 DEF Elsewhere, WorkerIs, Waits
    <2> QED BY <1>1, <1>2, <2>1, <2>4, <2>6, <2>7, EndingQueue
  <1>6. CASE Replied
    <2>1. /\ u \in CallUpdates /\ tasks' = Tail(tasks)
          /\ (Left \/ Written) /\ (UNCHANGED faults \/ Charged) /\ UNCHANGED <<runner, crashes>>
          /\ \/ UNCHANGED walk
             \/ walk' = [walk EXCEPT ![r] = WalkOf(<<u.account>>)]
      BY <1>a, <1>6 DEF Replied
    <2>2. PICK c \in CallRows : c.phase = "done" /\ call' = [call EXCEPT ![r] = c]
      BY <1>a, <1>6 DEF Replied
    <2>3. w = 0 /\ Of(tasks[1].update, r, w)
      BY <1>a, <1>2, <2>1
    <2>4. walk' \in [Requests -> WalkRows]
      <3>1. WalkOf(<<u.account>>) \in WalkRows
        <4>1. <<u.account>> \in Seq(AccountIds)
          BY <1>2
        <4> QED BY <4>1, WalkOfRow
      <3> QED BY <1>0, <2>1, <3>1
    <2>5. /\ call' \in [Requests -> CallRows] /\ call'[r] = c
          /\ \A q \in Requests : q # r => call'[q] = call[q]
          /\ \A q \in Requests : call'[q].phase = "fetching" => "create" \in KindsOf[q]
      BY <1>0, <1>2, <2>2, CallMoves
    <2>6. Typed'
      BY <1>0, <1>1, <1>3, <2>1, <2>4, <2>5, TypedAgain
    <2>7. Elsewhere(r, w) /\ ~Waits(r, w)'
      BY <2>1, <2>2, <2>3, <2>5 DEF Elsewhere, Waits
    <2> QED BY <1>1, <1>2, <2>1, <2>3, <2>6, <2>7, EndingQueue
  <1> QED BY <1>4, <1>5, <1>6

\* The types, and the queue, when the first task reads the file.
LEMMA StartKeepsQueue ==
    ASSUME QueueInv, tasks # <<>>, TaskStarts(1)
    PROVE  QueueInv'
  <1>1. PICK db \in Effect(tasks[1].update, file) : tasks' = [tasks EXCEPT ![1].draft = db]
    BY DEF TaskStarts
  <1>2. UNCHANGED <<fixed, call, walk, runner>>
    BY DEF TaskStarts
  <1>3. tasks \in Seq(TaskRows) /\ tasks[1] \in TaskRows /\ 1 \in 1..Len(tasks) /\ Len(tasks) \in Nat
    BY QueueTail DEF QueueInv, Typed
  <1>4. db \in Databases
    BY <1>3, EffectSound DEF QueueInv, Sound, TaskRows
  <1> DEFINE first == [tasks[1] EXCEPT !.draft = db]
  <1>5. first \in TaskRows /\ first.update = tasks[1].update /\ first.draft = db
    BY <1>3, <1>4 DEF TaskRows
  <1>6. tasks' = [tasks EXCEPT ![1] = first]
    BY <1>1
  <1> HIDE DEF first
  <1>7. /\ tasks' \in Seq(TaskRows) /\ Len(tasks') = Len(tasks) /\ tasks'[1] = first
        /\ \A i \in 1..Len(tasks) : i # 1 => tasks'[i] = tasks[i]
    BY <1>3, <1>5, <1>6
  <1>8. \A i \in 1..Len(tasks) : tasks'[i].update = tasks[i].update
    BY <1>5, <1>7
  <1>9. QueuedUpdates' = QueuedUpdates
    BY <1>7, <1>8 DEF QueuedUpdates
  <1>10. DraftsCurrent'
    <2>1. file' = file
      BY <1>2 DEF fixed
    <2>2. ASSUME NEW i \in 1..Len(tasks'), tasks'[i].draft # None
          PROVE  i = 1 /\ tasks'[i].draft \in Effect(tasks'[i].update, file')
      <3>1. CASE i = 1
        BY <1>1, <1>5, <1>7, <2>1, <3>1
      <3>2. CASE i # 1
        BY <1>7, <2>2, <3>2 DEF QueueInv, DraftsCurrent
      <3> QED BY <3>1, <3>2
    <2> QED BY <2>2 DEF DraftsCurrent
  <1>11. QueueDistinct'
    BY <1>7, <1>8 DEF QueueInv, QueueDistinct, Distinct
  <1>12. QueueOwned' /\ QueueComplete'
    BY <1>2, <1>9 DEF QueueInv, QueueOwned, QueueComplete, Owned
  <1>13. Typed' /\ Sound(file)'
    BY <1>2, <1>7 DEF QueueInv, Typed, Sound, fixed
  <1> QED BY <1>10, <1>11, <1>12, <1>13 DEF QueueInv

\* A crash empties the queue, and nobody waits for it any longer.
LEMMA CrashKeepsQueue ==
    ASSUME QueueInv, Crash
    PROVE  QueueInv'
  <1>1. tasks' = <<>> /\ Len(tasks') = 0 /\ file' = file /\ applied' = applied /\ faults' = faults
    BY DEF Crash
  <1>2. ASSUME NEW r \in Requests
        PROVE  /\ call'[r] \in CallRows /\ call'[r].phase \in {"idle", "done", "lost"}
               /\ walk'[r] \in WalkRows
               /\ \A w \in 1..Workers :
                     runner'[r][w] \in RunnerRows /\ runner'[r][w].phase = "off"
    <2>1. call[r] \in CallRows /\ walk[r] \in WalkRows
      BY DEF QueueInv, Typed
    <2>a. call' = [q \in Requests |-> IF call[q].phase \in {"idle", "done"} THEN call[q]
                                      ELSE [call[q] EXCEPT !.phase = "lost"]]
      BY DEF Crash
    <2>2. ASSUME call[r].phase \in {"idle", "done"}
          PROVE  call'[r] \in CallRows /\ call'[r].phase \in {"idle", "done", "lost"}
      BY <2>a, <2>1, <2>2
    <2>3. ASSUME call[r].phase \notin {"idle", "done"}
          PROVE  call'[r] \in CallRows /\ call'[r].phase \in {"idle", "done", "lost"}
      <3>1. call'[r] = [call[r] EXCEPT !.phase = "lost"]
        BY <2>a, <2>3
      <3>2. PICK c \in CallRows :
               c = call[r] /\ c.phase \in {"fetching", "storing", "refreshing", "lost"}
        BY <2>1, <2>3, CallRowShapes
      <3>3. /\ c.kind \in Kinds /\ c.answer = "none"
            /\ c.task \in CallUpdates \cup [key : Keys] \cup {None}
            /\ [c EXCEPT !.phase = "lost"]
                  = [phase |-> "lost", kind |-> c.kind, task |-> c.task, answer |-> c.answer]
        <4>1. CASE c.phase = "fetching"
          BY <3>2, <4>1 DEF CallRows, Kinds
        <4>2. CASE c.phase = "storing"
          BY <3>2, <4>2 DEF CallRows
        <4>3. CASE c.phase = "refreshing"
          BY <3>2, <4>3 DEF CallRows
        <4>4. CASE c.phase = "lost"
          BY <3>2, <4>4 DEF CallRows
        <4> QED BY <3>2, <4>1, <4>2, <4>3, <4>4
      <3>4. [phase |-> "lost", kind |-> c.kind, task |-> c.task, answer |-> c.answer] \in CallRows
        BY <3>3 DEF CallRows
      <3> QED BY <3>1, <3>2, <3>3, <3>4
    <2>4. walk'[r] \in WalkRows
      BY <2>1 DEF Crash, WalkOf, WalkRows
    <2>5. \A w \in 1..Workers : runner'[r][w] \in RunnerRows /\ runner'[r][w].phase = "off"
      BY DEF Crash, RunnerRows
    <2>6. call'[r] \in CallRows /\ call'[r].phase \in {"idle", "done", "lost"}
      BY <2>2, <2>3
    <2> QED BY <2>4, <2>5, <2>6
  <1>3. Typed'
    <2>1. call' \in [Requests -> CallRows] /\ walk' \in [Requests -> WalkRows]
      BY <1>2 DEF Crash
    <2>2. runner' \in [Requests -> [1..Workers -> RunnerRows]]
      BY DEF Crash, RunnerRows
    <2>3. faults' \in Nat /\ crashes' \in Nat /\ faults' + crashes' <= MaxFaults
      <3>1. faults \in Nat /\ crashes \in Nat /\ MaxFaults \in Nat /\ faults + crashes < MaxFaults
            /\ crashes' = crashes + 1
        BY QuotaBoardAssumption DEF QueueInv, Typed, Crash
      <3> QED BY <1>1, <3>1
    <2>4. tasks' \in Seq(TaskRows) /\ applied' \in SUBSET UpdateRows
      BY <1>1 DEF QueueInv, Typed
    <2> QED BY <1>2, <2>1, <2>2, <2>3, <2>4 DEF Typed
  <1>4. DraftsCurrent' /\ QueueOwned' /\ QueueDistinct'
    BY <1>1 DEF DraftsCurrent, QueueOwned, QueuedUpdates, QueueDistinct, Distinct
  <1>5. QueueComplete'
    BY <1>2 DEF QueueComplete
  <1>6. Sound(file)'
    BY <1>1 DEF QueueInv, Sound
  <1> QED BY <1>3, <1>4, <1>5, <1>6 DEF QueueInv

\* Every step keeps the types and the queue.
LEMMA QueueNext == QueueInv /\ [BoardNext]_boardVars => QueueInv'
  <1> SUFFICES ASSUME QueueInv, [BoardNext]_boardVars PROVE QueueInv'
    OBVIOUS
  <1>1. CASE UNCHANGED boardVars
    <2>1. UNCHANGED boardVars
      BY <1>1
    <2>2. Typed' /\ Sound(file)'
      BY <2>1 DEF boardVars, QueueInv, Typed, Sound
    <2>3. DraftsCurrent' /\ QueueDistinct'
      BY <2>1 DEF boardVars, QueueInv, DraftsCurrent, QueueDistinct
    <2>4. QueueOwned' /\ QueueComplete'
      BY <2>1 DEF boardVars, QueueInv, QueueOwned, QueueComplete, QueuedUpdates, Owned
    <2> QED BY <2>2, <2>3, <2>4 DEF QueueInv
  <1>2. CASE BoardNext
    <2>1. StepKind
      BY <1>2, StepKinds DEF QueueInv, Sound
    <2> QED BY <2>1, CallKeepsQueue, WorkerKeepsQueue, SettlingKeepsQueue, StartKeepsQueue,
               CrashKeepsQueue DEF StepKind
  <1> QED BY <1>1, <1>2

\* The queue's invariant holds in every reachable state.
LEMMA QueueAlways == BoardSpec => []QueueInv
  BY QueueInit, QueueNext, PTL DEF BoardSpec

\* "The server rotates": at most one lease of a session is active, however the handlers'
\* reads and updates, failures and crashes interleave.
THEOREM OneLeaseActive == BoardSpec => []OneActiveLease
  <1>1. QueueInv => OneActiveLease
    BY ActiveLeasesOf DEF QueueInv, Sound, OneActiveLease
  <1> QED BY <1>1, QueueAlways, PTL

\* No snapshots outlive their account, and no account is without them.
THEOREM SnapshotsStay == BoardSpec => []SnapshotsOfAccounts
  <1>1. QueueInv => SnapshotsOfAccounts
    BY DEF QueueInv, Sound, SnapshotsOfAccounts
  <1> QED BY <1>1, QueueAlways, PTL

-----------------------------------------------------------------------------
(***************************************************************************)
(* Layers 3 to 5: the requests, one at a time.                             *)
(***************************************************************************)
\* The refreshes in flight are those between the counters and the cursor.
LEMMA WalkBounds ==
    ASSUME NEW wk \in WalkRows, NEW run, WalkSound(wk, run)
    PROVE  /\ IsFiniteSet(Working(run)) /\ Cardinality(Working(run)) \in Nat
           /\ wk.completed + wk.failed <= wk.cursor /\ wk.cursor <= Len(wk.ids)
           /\ WalkEnded(wk) => Working(run) = {} /\ wk.cursor = Len(wk.ids)
           /\ wk = WalkOf(<<>>) => Working(run) = {}
  <1>1. IsFiniteSet(Working(run)) /\ Cardinality(Working(run)) \in Nat
    <2>1. Workers \in Int /\ 1 \in Int
      BY QuotaBoardAssumption
    <2>2. IsFiniteSet(1..Workers)
      BY <2>1, FS_Interval
    <2>3. Working(run) \in SUBSET (1..Workers)
      BY DEF Working
    <2> QED BY <2>2, <2>3, FS_Subset, FS_CardinalityType
  <1>2. /\ wk.completed \in Nat /\ wk.failed \in Nat /\ wk.cursor \in Nat /\ Len(wk.ids) \in Nat
        /\ wk.cursor <= Len(wk.ids)
        /\ wk.completed + wk.failed + Cardinality(Working(run)) = wk.cursor
    BY DEF WalkSound, WalkRows
  <1>3. WalkEnded(wk) => Cardinality(Working(run)) = 0 /\ wk.cursor = Len(wk.ids)
    BY <1>1, <1>2 DEF WalkEnded
  <1>4. wk = WalkOf(<<>>) => Cardinality(Working(run)) = 0
    <2>1. wk = WalkOf(<<>>) => Len(wk.ids) = 0
      BY DEF WalkOf
    <2> QED BY <1>1, <1>2, <2>1
  <1>5. Cardinality(Working(run)) = 0 => Working(run) = {}
    BY <1>1, FS_EmptySet
  <1>6. wk.completed + wk.failed <= wk.cursor
    BY <1>1, <1>2
  <1> QED BY <1>1, <1>2, <1>3, <1>4, <1>5, <1>6

\* A worker takes the next account, goes on with it, and is done with it.
OneMoves(run, run2, w, x) ==
    /\ run2 \in [1..Workers -> RunnerRows] /\ run2[w] = x
    /\ \A v \in 1..Workers : v # w => run2[v] = run[v]
Took(wk, wk2, run, run2, w) ==
    /\ OneMoves(run, run2, w, [account |-> wk.ids[wk.cursor + 1], phase |-> "reading"])
    /\ wk2 = Onward(wk)
Turned(run, run2, w, p) == OneMoves(run, run2, w, [account |-> run[w].account, phase |-> p])
IsOver(wk, wk2, run, run2, w, ok) ==
    /\ OneMoves(run, run2, w, [account |-> "none", phase |-> "off"])
    /\ wk2 = AfterOne(wk, run[w].account, ok)

\* A walk that has not begun.
LEMMA WalkBegins ==
    ASSUME NEW ids \in Seq(AccountIds), \A i, j \in 1..Len(ids) : ids[i] = ids[j] => i = j,
           NEW run, Working(run) = {}
    PROVE  WalkOf(ids) \in WalkRows /\ WalkSound(WalkOf(ids), run)
  <1>1. WalkOf(ids) \in WalkRows
    BY WalkOfRow
  <1>2. Cardinality(Working(run)) = 0
    BY FS_EmptySet
  <1>3. VisitsSound(WalkOf(ids), run)
    <2>1. RefreshedIn(WalkOf(ids)) = {}
      BY DEF RefreshedIn, WalkOf
    <2>2. WalkOf(ids).completed = 0 /\ Cardinality({}) = 0
      BY FS_EmptySet DEF WalkOf
    <2>3. \A a \in AccountIds : WalkOf(ids).refreshed[a] + WalkOf(ids).missed[a] = 0
      BY DEF WalkOf
    <2>4. \A k \in 1..WalkOf(ids).cursor : FALSE
      BY DEF WalkOf
    <2> QED BY <2>1, <2>2, <2>3, <2>4 DEF VisitsSound
  <1> QED BY <1>1, <1>2, <1>3 DEF WalkSound, WalkOf

\* A walk that has not begun has refreshed nobody.
LEMMA NothingRefreshed == \A ids : RefreshedIn(WalkOf(ids)) = {}
  BY DEF RefreshedIn, WalkOf

\* A worker takes the next account: nobody else has it.
LEMMA WalkGoesOn ==
    ASSUME NEW wk \in WalkRows, NEW run \in [1..Workers -> RunnerRows], WalkSound(wk, run),
           NEW w \in 1..Workers, run[w].phase = "off", wk.cursor < Len(wk.ids),
           NEW run2, NEW wk2, Took(wk, wk2, run, run2, w)
    PROVE  /\ WalkSound(wk2, run2) /\ Working(run2) = Working(run) \cup {w}
           /\ \A v \in Working(run) : run[v].account # run2[w].account
           /\ \A k \in 1..wk.cursor : wk.ids[k] # run2[w].account
  <1>0. /\ run2 \in [1..Workers -> RunnerRows]
        /\ run2[w] = [account |-> wk.ids[wk.cursor + 1], phase |-> "reading"]
        /\ \A v \in 1..Workers : v # w => run2[v] = run[v]
        /\ wk2.ids = wk.ids /\ wk2.cursor = wk.cursor + 1 /\ wk2.completed = wk.completed
        /\ wk2.failed = wk.failed /\ wk2.refreshed = wk.refreshed /\ wk2.missed = wk.missed
    BY DEF Took, OneMoves, Onward
  <1>1. /\ wk.completed \in Nat /\ wk.failed \in Nat /\ wk.cursor \in Nat /\ Len(wk.ids) \in Nat
        /\ wk.cursor + 1 \in 1..Len(wk.ids)
    BY <1>0 DEF WalkRows
  <1>2. Working(run2) = Working(run) \cup {w} /\ w \notin Working(run)
    BY <1>0 DEF Working
  <1>3. \A k \in 1..wk.cursor : wk.ids[k] # run2[w].account /\ k \in 1..wk.cursor + 1
    <2>1. \A k \in 1..wk.cursor : k \in 1..Len(wk.ids) /\ k # wk.cursor + 1
      BY <1>0, <1>1
    <2>2. run2[w].account = wk.ids[wk.cursor + 1]
      BY <1>0
    <2> QED BY <1>0, <1>1, <2>1, <2>2 DEF WalkSound
  <1>4. \A v \in Working(run) : run[v].account # run2[w].account /\ run2[v] = run[v]
    <2>1. \A v \in Working(run) : \E k \in 1..wk.cursor : wk.ids[k] = run[v].account
      BY <1>0 DEF WalkSound
    <2> QED BY <1>0, <1>2, <1>3, <2>1 DEF Working
  <1>5. wk2.completed + wk2.failed + Cardinality(Working(run2)) = wk2.cursor
    <2>1. IsFiniteSet(Working(run)) /\ Cardinality(Working(run)) \in Nat
      BY <1>0, WalkBounds
    <2>2. Cardinality(Working(run2)) = Cardinality(Working(run)) + 1
      BY <1>0, <1>2, <2>1, FS_AddElement
    <2>3. wk.completed + wk.failed + Cardinality(Working(run)) = wk.cursor
      BY <1>0 DEF WalkSound
    <2>4. wk2.completed = wk.completed /\ wk2.failed = wk.failed /\ wk2.cursor = wk.cursor + 1
      BY <1>0
    <2> QED BY ONLY <1>1, <2>1, <2>2, <2>3, <2>4
  <1>6. \A v \in Working(run2) : \E k \in 1..wk2.cursor : wk2.ids[k] = run2[v].account
    <2>1. ASSUME NEW v \in Working(run) PROVE \E k \in 1..wk2.cursor : wk2.ids[k] = run2[v].account
      <3>1. PICK k \in 1..wk.cursor : wk.ids[k] = run[v].account
        BY <1>0 DEF WalkSound
      <3> QED BY <1>0, <1>3, <1>4, <3>1
    <2>2. wk.cursor + 1 \in 1..wk2.cursor /\ wk2.ids[wk.cursor + 1] = run2[w].account
      BY <1>0, <1>1
    <2> QED BY <1>0, <1>2, <2>1, <2>2
  <1>7. \A u, v \in Working(run2) : run2[u].account = run2[v].account => u = v
    BY <1>0, <1>2, <1>4 DEF WalkSound
  <1>8. wk2.cursor <= Len(wk2.ids) /\ wk2.ids = wk.ids
    BY <1>0, <1>1
  <1>9. VisitsSound(wk2, run2)
    <2>1. RefreshedIn(wk2) = RefreshedIn(wk) /\ VisitsSound(wk, run)
      BY <1>0 DEF RefreshedIn, WalkSound
    <2>2. ASSUME NEW a \in AccountIds
          PROVE  wk2.refreshed[a] + wk2.missed[a] =
                    IF /\ \E k \in 1..wk2.cursor : wk2.ids[k] = a
                       /\ \A v \in Working(run2) : run2[v].account # a
                    THEN 1 ELSE 0
      <3>1. wk.refreshed[a] + wk.missed[a] =
               IF /\ \E k \in 1..wk.cursor : wk.ids[k] = a
                  /\ \A v \in Working(run) : run[v].account # a
               THEN 1 ELSE 0
        BY <2>1 DEF VisitsSound
      <3>2. CASE a = run2[w].account
        BY <1>0, <1>2, <1>3, <3>1, <3>2
      <3>3. CASE a # run2[w].account
        <4>1. (\E k \in 1..wk2.cursor : wk2.ids[k] = a) <=> (\E k \in 1..wk.cursor : wk.ids[k] = a)
          <5>1. 1..wk2.cursor = (1..wk.cursor) \cup {wk.cursor + 1}
            BY <1>0, <1>1
          <5> QED BY <1>0, <3>3, <5>1
        <4>2. (\A v \in Working(run2) : run2[v].account # a)
                 <=> (\A v \in Working(run) : run[v].account # a)
          BY <1>2, <1>4, <3>3
        <4> QED BY <1>0, <3>1, <4>1, <4>2
      <3> QED BY <3>2, <3>3
    <2> QED BY <1>0, <2>1, <2>2 DEF VisitsSound
  <1> QED BY <1>0, <1>2, <1>3, <1>4, <1>5, <1>6, <1>7, <1>8, <1>9 DEF WalkSound

\* A worker goes on with its account.
LEMMA WalkTurns ==
    ASSUME NEW wk, NEW run \in [1..Workers -> RunnerRows], WalkSound(wk, run),
           NEW w \in Working(run), NEW p \in {"fetching", "storing", "flagging"},
           NEW run2, Turned(run, run2, w, p)
    PROVE  WalkSound(wk, run2) /\ Working(run2) = Working(run)
  <1>0. /\ run2 \in [1..Workers -> RunnerRows]
        /\ run2[w] = [account |-> run[w].account, phase |-> p]
        /\ \A v \in 1..Workers : v # w => run2[v] = run[v]
    BY DEF Turned, OneMoves
  <1>1. Working(run2) = Working(run)
    BY <1>0 DEF Working
  <1>2. \A v \in Working(run) : run2[v].account = run[v].account
    BY <1>0 DEF Working
  <1>3. VisitsSound(wk, run2)
    BY <1>0, <1>1, <1>2 DEF WalkSound, VisitsSound
  <1> QED BY <1>0, <1>1, <1>2, <1>3 DEF WalkSound

\* A refresh is over.
LEMMA WalkCounts ==
    ASSUME NEW wk \in WalkRows, NEW run \in [1..Workers -> RunnerRows], WalkSound(wk, run),
           NEW w \in Working(run), NEW ok \in BOOLEAN,
           NEW run2, NEW wk2, IsOver(wk, wk2, run, run2, w, ok)
    PROVE  WalkSound(wk2, run2) /\ Working(run2) = Working(run) \ {w}
  <1>0. /\ run2 \in [1..Workers -> RunnerRows] /\ run2[w] = [account |-> "none", phase |-> "off"]
        /\ \A v \in 1..Workers : v # w => run2[v] = run[v]
        /\ wk2.ids = wk.ids /\ wk2.cursor = wk.cursor
        /\ wk2.completed = (IF ok THEN wk.completed + 1 ELSE wk.completed)
        /\ wk2.failed = (IF ok THEN wk.failed ELSE wk.failed + 1)
        /\ wk2.refreshed = (IF ok THEN OneMore(wk.refreshed, run[w].account) ELSE wk.refreshed)
        /\ wk2.missed = (IF ok THEN wk.missed ELSE OneMore(wk.missed, run[w].account))
    BY DEF IsOver, OneMoves, AfterOne
  <1>1. wk.completed \in Nat /\ wk.failed \in Nat /\ wk.cursor \in Nat
    BY <1>0 DEF WalkRows
  <1>2. Working(run2) = Working(run) \ {w} /\ \A v \in Working(run2) : run2[v] = run[v]
    BY <1>0 DEF Working
  <1>3. wk2.completed + wk2.failed + Cardinality(Working(run2)) = wk2.cursor
    <2>1. IsFiniteSet(Working(run)) /\ Cardinality(Working(run)) \in Nat
      BY <1>0, WalkBounds
    <2>2. Cardinality(Working(run2)) = Cardinality(Working(run)) - 1
      BY <1>0, <1>2, <2>1, FS_RemoveElement
    <2>3. wk.completed + wk.failed + Cardinality(Working(run)) = wk.cursor
      BY <1>0 DEF WalkSound
    <2>4. wk2.completed + wk2.failed = wk.completed + wk.failed + 1 /\ wk2.cursor = wk.cursor
      BY <1>0, <1>1
    <2>5. wk2.completed + wk2.failed \in Nat
      BY <1>0, <1>1, <2>4
    <2> QED BY <1>0, <1>1, <2>1, <2>2, <2>3, <2>4, <2>5
  <1>4. wk2.ids = wk.ids /\ wk2.cursor = wk.cursor
    BY <1>0
  <1>5. VisitsSound(wk2, run2)
    <2>0. /\ wk.refreshed \in [AccountIds -> Nat] /\ wk.missed \in [AccountIds -> Nat]
          /\ run[w].account \in AccountIds /\ VisitsSound(wk, run) /\ IsFiniteSet(AccountIds)
      BY <1>0, QuotaBoardAssumption DEF WalkRows, RunnerRows, Working, WalkSound
    <2>1. wk.refreshed[run[w].account] = 0 /\ wk.missed[run[w].account] = 0
      <3>1. wk.refreshed[run[w].account] + wk.missed[run[w].account] = 0
        BY <2>0 DEF VisitsSound
      <3> QED BY <2>0, <3>1
    <2>2. ASSUME NEW a \in AccountIds
          PROVE  wk2.refreshed[a] + wk2.missed[a] =
                    IF /\ \E k \in 1..wk2.cursor : wk2.ids[k] = a
                       /\ \A v \in Working(run2) : run2[v].account # a
                    THEN 1 ELSE 0
      <3>1. CASE a = run[w].account
        <4>1. wk2.refreshed[a] + wk2.missed[a] = 1
          BY <1>0, <2>0, <2>1, <3>1 DEF OneMore
        <4>2. \E k \in 1..wk2.cursor : wk2.ids[k] = a
          BY <1>0, <3>1 DEF WalkSound
        <4>3. \A v \in Working(run2) : run2[v].account # a
          BY <1>0, <1>2, <3>1 DEF WalkSound
        <4> QED BY <4>1, <4>2, <4>3
      <3>2. CASE a # run[w].account
        <4>1. wk2.refreshed[a] = wk.refreshed[a] /\ wk2.missed[a] = wk.missed[a]
          BY <1>0, <2>0, <3>2 DEF OneMore
        <4>2. wk.refreshed[a] + wk.missed[a] =
                 IF /\ \E k \in 1..wk.cursor : wk.ids[k] = a
                    /\ \A v \in Working(run) : run[v].account # a
                 THEN 1 ELSE 0
          BY <2>0 DEF VisitsSound
        <4>3. (\A v \in Working(run2) : run2[v].account # a)
                 <=> (\A v \in Working(run) : run[v].account # a)
          BY <1>2, <3>2
        <4> QED BY <1>4, <4>1, <4>2, <4>3
      <3> QED BY <3>1, <3>2
    <2>3. wk2.completed = Cardinality(RefreshedIn(wk2))
      <3>1. wk.completed = Cardinality(RefreshedIn(wk)) /\ IsFiniteSet(RefreshedIn(wk))
        <4>1. RefreshedIn(wk) \in SUBSET AccountIds
          BY DEF RefreshedIn
        <4> QED BY <2>0, <4>1, FS_Subset DEF VisitsSound
      <3>2. CASE ok
        <4>1. wk2.refreshed = OneMore(wk.refreshed, run[w].account) /\ wk2.completed = wk.completed + 1
          BY <1>0, <3>2
        <4>2. RefreshedIn(wk2) = RefreshedIn(wk) \cup {run[w].account}
          BY <2>0, <2>1, <4>1 DEF RefreshedIn, OneMore
        <4>3. run[w].account \notin RefreshedIn(wk)
          BY <2>1 DEF RefreshedIn
        <4> QED BY <1>1, <3>1, <4>1, <4>2, <4>3, FS_AddElement
      <3>3. CASE ~ok
        <4>1. wk2.refreshed = wk.refreshed /\ wk2.completed = wk.completed
          BY <1>0, <3>3
        <4> QED BY <3>1, <4>1 DEF RefreshedIn
      <3> QED BY <3>2, <3>3
    <2> QED BY <2>2, <2>3 DEF VisitsSound
  <1> QED BY <1>0, <1>2, <1>3, <1>4, <1>5 DEF WalkSound

\* Before a call has a walk, nothing it asked for has been applied.
LEMMA BeforeWalk ==
    ASSUME NEW r, NEW c, NEW wk \in WalkRows, NEW run, NEW done \in SUBSET UpdateRows, NEW n \in Nat,
           Fine(r, c, wk, run, done, n), c.phase \in {"idle", "fetching", "storing"}
    PROVE  /\ wk = WalkOf(<<>>) /\ Working(run) = {} /\ WalkEnded(wk)
           /\ \A u \in done : u.request # r
  <1>1. wk = WalkOf(<<>>) /\ Working(run) = {}
    BY WalkBounds DEF Fine, WalkFits
  <1>2. WalkEnded(wk)
    BY <1>1 DEF WalkEnded, WalkOf
  <1>3. \A u \in done : u.request # r
    BY DEF Fine, AllSpent, Spent
  <1> QED BY <1>1, <1>2, <1>3

-----------------------------------------------------------------------------
\* What a step of one request leaves true of the others.
LEMMA OthersFine ==
    ASSUME NEW r \in Requests, NEW c, NEW wk \in WalkRows, NEW run, NEW done, NEW n \in Nat,
           Fine(r, c, wk, run, done, n),
           NEW done2, done \subseteq done2, \A u \in done2 : u.request = r => u \in done,
           NEW n2 \in Nat, n <= n2
    PROVE  Fine(r, c, wk, run, done2, n2)
  <1>1. AllSpent(r, c, wk, run, done2) /\ AnswerTrue(c, done2)
    BY DEF Fine, AllSpent, AnswerTrue
  <1>2. StoredBy(r, done2) = StoredBy(r, done)
    BY DEF StoredBy
  <1>3. wk.completed .. wk.completed + n \subseteq wk.completed .. wk.completed + n2
    BY DEF WalkRows
  <1> QED BY <1>1, <1>2, <1>3 DEF Fine, CountsTrue, StoredTrue

\* Fine before a walk, and after it was given up: the call has no walk to account for.
LEMMA CallFine ==
    ASSUME NEW r \in Requests, NEW c \in CallRows, NEW wk \in WalkRows, NEW run,
           NEW done \in SUBSET UpdateRows, NEW n \in Nat, Fine(r, c, wk, run, done, n),
           c.phase \in {"idle", "fetching"}, NEW c2 \in CallRows,
           c2.phase \in {"fetching", "storing"} \/ (c2.phase = "done" /\ c2.task = None)
    PROVE  Fine(r, c2, wk, run, done, n)
  <1>0. c.phase \in {"idle", "fetching", "storing"} /\ WalkSound(wk, run)
    BY DEF Fine
  <1>1. /\ wk = WalkOf(<<>>) /\ Working(run) = {} /\ WalkEnded(wk)
        /\ \A u \in done : u.request # r
    BY <1>0, BeforeWalk
  <1>2. WalkFits(c2, wk)
    BY <1>1 DEF WalkFits
  <1>3. AllSpent(r, c2, wk, run, done)
    BY <1>1 DEF AllSpent
  <1>4. AnswerTrue(c2, done)
    BY CallRowShapes DEF AnswerTrue
  <1>5. StoredBy(r, done) = {}
    BY <1>1 DEF StoredBy
  <1>6. CountsTrue(r, c2, wk, done, n)
    <2>1. Cardinality({}) \in 0 .. 0 + n /\ IsFiniteSet({}) /\ wk.completed = 0
      BY <1>1, FS_EmptySet DEF WalkOf
    <2>2. StoredTrue(r, wk, done)
      BY <1>1, NothingRefreshed DEF StoredTrue
    <2> QED BY <1>5, <2>1, <2>2 DEF CountsTrue
  <1> QED BY <1>0, <1>2, <1>3, <1>4, <1>6 DEF Fine

\* A walk starts.
LEMMA StartFine ==
    ASSUME NEW r \in Requests, NEW c \in CallRows, NEW wk \in WalkRows, NEW run,
           NEW done \in SUBSET UpdateRows, NEW n \in Nat, Fine(r, c, wk, run, done, n),
           c.phase = "idle", NEW c2 \in CallRows, c2.phase = "refreshing",
           NEW ids \in Seq(AccountIds), \A i, j \in 1..Len(ids) : ids[i] = ids[j] => i = j
    PROVE  Fine(r, c2, WalkOf(ids), run, done, n)
  <1>1. Working(run) = {} /\ \A u \in done : u.request # r
    BY BeforeWalk
  <1>2. WalkSound(WalkOf(ids), run) /\ WalkFits(c2, WalkOf(ids))
    BY <1>1, WalkBegins DEF WalkFits
  <1>3. AllSpent(r, c2, WalkOf(ids), run, done)
    BY <1>1 DEF AllSpent
  <1>4. AnswerTrue(c2, done)
    BY CallRowShapes DEF AnswerTrue
  <1>5. StoredBy(r, done) = {}
    BY <1>1 DEF StoredBy
  <1>6. CountsTrue(r, c2, WalkOf(ids), done, n)
    <2>1. Cardinality({}) \in 0 .. 0 + n /\ IsFiniteSet({}) /\ WalkOf(ids).completed = 0
      BY FS_EmptySet DEF WalkOf
    <2>2. StoredTrue(r, WalkOf(ids), done)
      BY NothingRefreshed DEF StoredTrue
    <2> QED BY <1>5, <2>1, <2>2 DEF CountsTrue
  <1> QED BY <1>2, <1>3, <1>4, <1>6 DEF Fine

\* A walk has ended and is answered.
LEMMA EndFine ==
    ASSUME NEW r \in Requests, NEW c \in CallRows, NEW wk \in WalkRows, NEW run,
           NEW done \in SUBSET UpdateRows, NEW n \in Nat, Fine(r, c, wk, run, done, n),
           c.phase = "refreshing", WalkEnded(wk),
           NEW c2 \in CallRows, c2.phase = "done", c2.task = None, c2.kind = c.kind
    PROVE  Fine(r, c2, wk, run, done, n)
  <1>1. WalkSound(wk, run) /\ WalkFits(c2, wk)
    BY DEF Fine, WalkFits
  <1>2. AllSpent(r, c2, wk, run, done)
    BY DEF Fine, AllSpent, Spent
  <1>3. AnswerTrue(c2, done)
    BY DEF AnswerTrue
  <1>4. CountsTrue(r, c2, wk, done, n)
    BY DEF Fine, CountsTrue
  <1> QED BY <1>1, <1>2, <1>3, <1>4 DEF Fine

\* The update of a call has settled.
Replies(u, c, c2, wk, wk2, done, done2) ==
    /\ c2.phase = "done" /\ c2.task = u /\ c2.kind = c.kind
    /\ done2 = done \/ done2 = done \cup {u}
    /\ c2.answer = "ok" => u \in done2
    /\ wk2 = wk \/ (c.kind = "usage" /\ wk2 = WalkOf(<<u.account>>))

\* A call that is answered is fine.
LEMMA ReplyFine ==
    ASSUME NEW r \in Requests, NEW c \in CallRows, NEW wk \in WalkRows, NEW run,
           NEW done \in SUBSET UpdateRows, NEW n \in Nat, Fine(r, c, wk, run, done, n),
           c.phase = "storing", NEW u \in CallUpdates, u.request = r,
           NEW c2 \in CallRows, NEW wk2, NEW done2, Replies(u, c, c2, wk, wk2, done, done2),
           NEW n2 \in Nat
    PROVE  Fine(r, c2, wk2, run, done2, n2)
  <1>0. /\ c2.phase = "done" /\ c2.task = u /\ c2.kind = c.kind
        /\ done2 = done \/ done2 = done \cup {u}
        /\ c2.answer = "ok" => u \in done2
        /\ wk2 = wk \/ (c.kind = "usage" /\ wk2 = WalkOf(<<u.account>>))
    BY DEF Replies
  <1>1. /\ wk = WalkOf(<<>>) /\ Working(run) = {} /\ WalkEnded(wk) /\ WalkSound(wk, run)
        /\ \A v \in done : v.request # r
    BY BeforeWalk DEF Fine
  <1>2. u.worker = 0 /\ u.account \in AccountIds /\ u.op # "sync"
    <2>1. u \in UpdateRows
      BY DEF UpdateRows
    <2> QED BY <1>0, <2>1 DEF CallUpdates
  <1>3. WalkSound(wk2, run) /\ WalkFits(c2, wk2) /\ wk2.completed = 0
    <2>1. CASE wk2 = wk
      BY <1>0, <1>1, <2>1 DEF WalkFits, WalkOf
    <2>2. CASE c.kind = "usage" /\ wk2 = WalkOf(<<u.account>>)
      <3>1. <<u.account>> \in Seq(AccountIds)
            /\ \A i, j \in 1..Len(<<u.account>>) : <<u.account>>[i] = <<u.account>>[j] => i = j
        BY <1>0, <1>2
      <3>2. WalkSound(WalkOf(<<u.account>>), run)
        BY <1>0, <1>1, <3>1, WalkBegins
      <3> QED BY <1>0, <2>2, <3>2 DEF WalkFits, WalkOf
    <2> QED BY <1>0, <2>1, <2>2
  <1>4. AllSpent(r, c2, wk2, run, done2)
    BY <1>0, <1>1, <1>2 DEF AllSpent, Spent
  <1>5. AnswerTrue(c2, done2)
    BY <1>0 DEF AnswerTrue
  <1>6. StoredBy(r, done2) = {}
    BY <1>0, <1>1, <1>2 DEF StoredBy
  <1>7. CountsTrue(r, c2, wk2, done2, n2)
    <2>1. Cardinality({}) \in 0 .. 0 + n2 /\ IsFiniteSet({})
      BY FS_EmptySet
    <2>2. StoredTrue(r, wk2, done2)
      BY <1>0, <1>1, NothingRefreshed DEF StoredTrue
    <2> QED BY <1>0, <1>3, <1>6, <2>1, <2>2 DEF CountsTrue
  <1> QED BY <1>0, <1>3, <1>4, <1>5, <1>7 DEF Fine

\* A request whose workers are busy is past the phases without a walk.
LEMMA Underway ==
    ASSUME NEW r, NEW c, NEW wk \in WalkRows, NEW run, NEW done \in SUBSET UpdateRows, NEW n \in Nat,
           Fine(r, c, wk, run, done, n),
           Working(run) # {} \/ wk.cursor < Len(wk.ids)
    PROVE  /\ c.phase \notin {"idle", "fetching", "storing"}
           /\ wk.ids # <<>> /\ ~WalkEnded(wk)
  <1>1. /\ wk.cursor \in Nat /\ Len(wk.ids) \in Nat /\ wk.cursor <= Len(wk.ids)
        /\ wk.completed \in Nat /\ wk.failed \in Nat
        /\ wk.completed + wk.failed <= wk.cursor
        /\ WalkEnded(wk) => Working(run) = {} /\ wk.cursor = Len(wk.ids)
        /\ WalkSound(wk, run)
    <2>1. WalkSound(wk, run)
      BY DEF Fine
    <2>2. /\ wk.cursor \in Nat /\ Len(wk.ids) \in Nat
          /\ wk.completed \in Nat /\ wk.failed \in Nat
      BY DEF WalkRows
    <2> QED BY <2>1, <2>2, WalkBounds
  <1>2. ~WalkEnded(wk)
    BY <1>1
  <1>3. wk.ids # <<>>
    <2>1. ASSUME wk.ids = <<>> PROVE FALSE
      <3>1. Len(wk.ids) = 0
        BY <2>1
      <3>2. wk.completed + wk.failed = 0
        BY <1>1, <3>1
      <3> QED BY <1>2, <3>1, <3>2 DEF WalkEnded
    <2> QED BY <2>1
  <1>4. c.phase \notin {"idle", "fetching", "storing"}
    BY <1>3 DEF Fine, WalkFits, WalkOf
  <1> QED BY <1>2, <1>3, <1>4

\* A worker takes an account no update was applied for.
LEMMA TakeFine ==
    ASSUME NEW r \in Requests, NEW c \in CallRows, NEW wk \in WalkRows,
           NEW run \in [1..Workers -> RunnerRows],
           NEW done \in SUBSET UpdateRows, NEW n \in Nat, Fine(r, c, wk, run, done, n),
           NEW w \in 1..Workers, run[w].phase = "off", wk.cursor < Len(wk.ids),
           NEW run2, NEW wk2, Took(wk, wk2, run, run2, w)
    PROVE  Fine(r, c, wk2, run2, done, n)
  <1>0. /\ run2 \in [1..Workers -> RunnerRows]
        /\ run2[w] = [account |-> wk.ids[wk.cursor + 1], phase |-> "reading"]
        /\ \A v \in 1..Workers : v # w => run2[v] = run[v]
        /\ wk2.ids = wk.ids /\ wk2.cursor = wk.cursor + 1 /\ wk2.completed = wk.completed
        /\ wk2.failed = wk.failed /\ wk2.refreshed = wk.refreshed /\ wk2.missed = wk.missed
    BY DEF Took, OneMoves, Onward
  <1>1. WalkSound(wk, run) /\ AllSpent(r, c, wk, run, done) /\ AnswerTrue(c, done)
        /\ CountsTrue(r, c, wk, done, n) /\ WalkFits(c, wk)
    BY <1>0 DEF Fine
  <1>2. /\ WalkSound(wk2, run2) /\ Working(run2) = Working(run) \cup {w}
        /\ \A v \in Working(run) : run[v].account # run2[w].account
        /\ \A k \in 1..wk.cursor : wk.ids[k] # run2[w].account
    BY <1>1, WalkGoesOn
  <1>3. c.phase \notin {"idle", "fetching", "storing"} /\ wk.ids # <<>> /\ ~WalkEnded(wk)
    BY <1>0, Underway
  <1>4. WalkFits(c, wk2)
    BY <1>0, <1>1, <1>3 DEF WalkFits
  <1>5. ASSUME NEW u \in done, u.request = r PROVE Spent(u, c, wk2, run2)
    <2>1. Spent(u, c, wk, run)
      BY <1>0, <1>1, <1>5 DEF AllSpent
    <2>2. CASE u.worker = 0
      BY <1>0, <2>1, <2>2 DEF Spent
    <2>3. CASE u.worker # 0
      <3>1. PICK k \in 1..wk.cursor : wk.ids[k] = u.account
        BY <1>0, <1>3, <2>1, <2>3 DEF Spent
      <3>2. k \in 1..wk2.cursor /\ wk2.ids[k] = u.account
        BY <1>0, <3>1 DEF WalkRows
      <3>3. run2[w].account # u.account
        BY <1>0, <1>2, <3>1
      <3>4. \A v \in Working(run2) : run2[v].account = u.account =>
               u.op = "sync" /\ run2[v].phase = "flagging"
        <4>1. \A v \in Working(run) : v # w /\ run2[v] = run[v]
          BY <1>0 DEF Working
        <4> QED BY <1>0, <1>2, <2>1, <2>3, <3>3, <4>1 DEF Spent
      <3> QED BY <1>0, <1>3, <2>3, <3>2, <3>4 DEF Spent
    <2> QED BY <1>0, <2>2, <2>3
  <1>6. CountsTrue(r, c, wk2, done, n)
    BY <1>0, <1>1 DEF CountsTrue, StoredTrue, RefreshedIn
  <1> QED BY <1>0, <1>1, <1>2, <1>4, <1>5, <1>6 DEF Fine, AllSpent

\* A worker goes on: from the file to the API, from the API to the store, and to the store
\* again, whether or not its snapshot got into the file.
LEMMA TurnFine ==
    ASSUME NEW r \in Requests, NEW c \in CallRows, NEW wk \in WalkRows,
           NEW run \in [1..Workers -> RunnerRows],
           NEW done \in SUBSET UpdateRows, NEW n \in Nat, Fine(r, c, wk, run, done, n),
           NEW w \in Working(run), run[w].phase # "flagging",
           NEW p \in {"fetching", "storing", "flagging"},
           NEW run2, Turned(run, run2, w, p),
           NEW done2, NEW n2 \in Nat, n <= n2,
           \/ done2 = done
           \/ /\ p = "flagging" /\ n2 = n + 1
              /\ \E u \in SyncUpdates : /\ u.request = r /\ u.account = run[w].account
                                        /\ done2 = done \cup {u}
    PROVE  Fine(r, c, wk, run2, done2, n2)
  <1>0. /\ run2 \in [1..Workers -> RunnerRows]
        /\ run2[w] = [account |-> run[w].account, phase |-> p]
        /\ \A v \in 1..Workers : v # w => run2[v] = run[v]
    BY DEF Turned, OneMoves
  <1>1. WalkSound(wk, run) /\ AllSpent(r, c, wk, run, done) /\ AnswerTrue(c, done)
        /\ CountsTrue(r, c, wk, done, n) /\ WalkFits(c, wk)
    BY <1>0 DEF Fine
  <1>a. \* An update whose account a worker has was not applied yet, unless it tries again.
        \A x \in Working(run), v \in done :
           v.request = r /\ v.worker # 0 /\ v.account = run[x].account =>
              v.op = "sync" /\ run[x].phase = "flagging"
    BY <1>1 DEF AllSpent, Spent
  <1>2. WalkSound(wk, run2) /\ Working(run2) = Working(run)
    BY <1>1, WalkTurns
  <1>3. c.phase \notin {"idle", "fetching", "storing"} /\ wk.ids # <<>>
    BY <1>0, Underway
  <1>4. \A v \in Working(run) : /\ v # w => run2[v] = run[v] /\ run[v].account # run[w].account
                                /\ v \in 1..Workers
    BY <1>0, <1>1 DEF Working, WalkSound
  <1>5. ASSUME NEW u \in done, u.request = r PROVE Spent(u, c, wk, run2)
    <2>1. Spent(u, c, wk, run)
      BY <1>0, <1>1, <1>5 DEF AllSpent
    <2>2. CASE u.worker = 0
      BY <1>0, <2>1, <2>2 DEF Spent
    <2>3. CASE u.worker # 0
      <3>1. u.account # run[w].account
        BY <1>0, <1>5, <2>3, <1>a
      <3>2. \A v \in Working(run2) : run2[v].account = u.account =>
               u.op = "sync" /\ run2[v].phase = "flagging"
        BY <1>0, <1>2, <1>4, <2>1, <2>3, <3>1 DEF Spent
      <3> QED BY <1>0, <2>1, <2>3, <3>2 DEF Spent
    <2> QED BY <1>0, <2>2, <2>3
  <1>6. ASSUME NEW u \in SyncUpdates, u.request = r, u.account = run[w].account, p = "flagging"
        PROVE  Spent(u, c, wk, run2)
    <2>1. u.worker # 0 /\ u.op = "sync"
      BY <1>0, QuotaBoardAssumption DEF SyncUpdates
    <2>2. \E k \in 1..wk.cursor : wk.ids[k] = u.account
      BY <1>0, <1>1, <1>6 DEF WalkSound
    <2>3. \A v \in Working(run2) : run2[v].account = u.account => run2[v].phase = "flagging"
      BY <1>0, <1>2, <1>4, <1>6
    <2> QED BY <1>0, <1>3, <2>1, <2>2, <2>3 DEF Spent
  <1>7. AllSpent(r, c, wk, run2, done2)
    BY <1>0, <1>5, <1>6 DEF AllSpent
  <1>8. AnswerTrue(c, done2)
    BY <1>0, <1>1 DEF AnswerTrue
  <1>9. CountsTrue(r, c, wk, done2, n2)
    <2>1. /\ IsFiniteSet(StoredBy(r, done)) /\ Cardinality(StoredBy(r, done)) \in Nat
          /\ wk.completed \in Nat
      BY <1>0, <1>1, FS_CardinalityType DEF CountsTrue, WalkRows
    <2>a. StoredTrue(r, wk, done2)
      BY <1>0, <1>1 DEF CountsTrue, StoredTrue, StoredBy
    <2>2. CASE done2 = done
      BY <1>0, <1>1, <2>1, <2>2 DEF CountsTrue
    <2>3. ASSUME NEW u \in SyncUpdates, u.request = r, u.account = run[w].account,
                 done2 = done \cup {u}, n2 = n + 1
          PROVE  CountsTrue(r, c, wk, done2, n2)
      <3>1. u \notin done
        <4>1. u.worker # 0
          BY <1>0, QuotaBoardAssumption DEF SyncUpdates
        <4> QED BY <1>0, <2>3, <4>1, <1>a
      <3>2. u.op = "sync"
        BY <1>0 DEF SyncUpdates
      <3>3. StoredBy(r, done2) = StoredBy(r, done) \cup {u} /\ u \notin StoredBy(r, done)
        BY <1>0, <2>3, <3>1, <3>2 DEF StoredBy
      <3>4. /\ IsFiniteSet(StoredBy(r, done2))
            /\ Cardinality(StoredBy(r, done2)) = Cardinality(StoredBy(r, done)) + 1
        BY <1>0, <2>1, <3>3, FS_AddElement
      <3>5. ASSUME c.phase \in {"refreshing", "done"}, c.kind = "refreshAll"
            PROVE  Cardinality(StoredBy(r, done2)) \in wk.completed .. wk.completed + n2
        <4>1. Cardinality(StoredBy(r, done)) \in wk.completed .. wk.completed + n
          BY <1>0, <1>1, <3>5 DEF CountsTrue
        <4> QED BY <1>0, <2>1, <2>3, <3>4, <4>1
      <3> QED BY <1>0, <1>3, <2>a, <3>4, <3>5 DEF CountsTrue
    <2> QED BY <1>0, <2>2, <2>3
  <1> QED BY <1>0, <1>1, <1>2, <1>7, <1>8, <1>9 DEF Fine

\* A refresh is over: without an update, or with the one that was asked for.
Concludes(r, x, ok, done, done2) ==
    \/ done2 = done /\ ~ok
    \/ \E u \in SyncUpdates \cup FlagUpdates :
          /\ u.request = r /\ u.account = x.account /\ ok = (u.op = "sync")
          /\ ok => x.phase = "storing"
          /\ done2 = done \cup {u}

\* A request is fine when one of its refreshes was counted.
LEMMA CountFine ==
    ASSUME NEW r \in Requests, NEW c \in CallRows, NEW wk \in WalkRows,
           NEW run \in [1..Workers -> RunnerRows],
           NEW done \in SUBSET UpdateRows, NEW n \in Nat, Fine(r, c, wk, run, done, n),
           NEW w \in Working(run), NEW ok \in BOOLEAN,
           NEW run2, NEW wk2, IsOver(wk, wk2, run, run2, w, ok),
           NEW done2, NEW n2 \in Nat, n <= n2,
           Concludes(r, run[w], ok, done, done2)
    PROVE  Fine(r, c, wk2, run2, done2, n2)
  <1>0. /\ run2 \in [1..Workers -> RunnerRows] /\ run2[w] = [account |-> "none", phase |-> "off"]
        /\ \A v \in 1..Workers : v # w => run2[v] = run[v]
        /\ wk2.ids = wk.ids /\ wk2.cursor = wk.cursor
        /\ wk2.completed = (IF ok THEN wk.completed + 1 ELSE wk.completed)
        /\ wk2.failed = (IF ok THEN wk.failed ELSE wk.failed + 1)
        /\ wk2.refreshed = (IF ok THEN OneMore(wk.refreshed, run[w].account) ELSE wk.refreshed)
        /\ wk2.missed = (IF ok THEN wk.missed ELSE OneMore(wk.missed, run[w].account))
    BY DEF IsOver, OneMoves, AfterOne
  <1>1. WalkSound(wk, run) /\ AllSpent(r, c, wk, run, done) /\ AnswerTrue(c, done)
        /\ CountsTrue(r, c, wk, done, n) /\ WalkFits(c, wk)
    BY <1>0 DEF Fine
  <1>a. \* An update whose account a worker has was not applied yet, unless it tries again.
        \A x \in Working(run), v \in done :
           v.request = r /\ v.worker # 0 /\ v.account = run[x].account =>
              v.op = "sync" /\ run[x].phase = "flagging"
    BY <1>1 DEF AllSpent, Spent
  <1>2. WalkSound(wk2, run2) /\ Working(run2) = Working(run) \ {w}
    BY <1>1, WalkCounts
  <1>3. c.phase \notin {"idle", "fetching", "storing"} /\ wk.ids # <<>> /\ ~WalkEnded(wk)
    BY <1>0, Underway
  <1>4. WalkFits(c, wk2)
    BY <1>0, <1>1, <1>3 DEF WalkFits
  <1>5. \A v \in Working(run2) : /\ run2[v] = run[v] /\ run[v].account # run[w].account
                                 /\ v \in Working(run)
    BY <1>0, <1>1, <1>2 DEF Working, WalkSound
  <1>6. ASSUME NEW u \in done, u.request = r PROVE Spent(u, c, wk2, run2)
    <2>1. Spent(u, c, wk, run)
      BY <1>0, <1>1, <1>6 DEF AllSpent
    <2>2. wk2.ids = wk.ids /\ wk2.cursor = wk.cursor
      BY <1>0
    <2> QED BY <1>0, <1>5, <2>1, <2>2 DEF Spent
  <1>7. ASSUME NEW u \in SyncUpdates \cup FlagUpdates, u.request = r, u.account = run[w].account
        PROVE  Spent(u, c, wk2, run2)
    <2>1. u.worker # 0
      BY <1>0, QuotaBoardAssumption DEF SyncUpdates, FlagUpdates
    <2>2. \E k \in 1..wk2.cursor : wk2.ids[k] = u.account
      BY <1>0, <1>1, <1>7 DEF WalkSound
    <2> QED BY <1>0, <1>3, <1>5, <1>7, <2>1, <2>2 DEF Spent
  <1>8. AllSpent(r, c, wk2, run2, done2)
    BY <1>0, <1>6, <1>7 DEF AllSpent, Concludes
  <1>9. AnswerTrue(c, done2)
    BY <1>0, <1>1 DEF AnswerTrue, Concludes
  <1>10. CountsTrue(r, c, wk2, done2, n2)
    <2>1. /\ IsFiniteSet(StoredBy(r, done)) /\ Cardinality(StoredBy(r, done)) \in Nat
          /\ wk.completed \in Nat
      BY <1>0, <1>1, FS_CardinalityType DEF CountsTrue, WalkRows
    <2>2. ASSUME StoredBy(r, done2) = StoredBy(r, done), ~ok
          PROVE  CountsTrue(r, c, wk2, done2, n2)
      <3>1. wk2.completed = wk.completed /\ wk2.refreshed = wk.refreshed
        BY <1>0, <2>1, <2>2
      <3>2. StoredTrue(r, wk2, done2)
        BY <1>1, <2>2, <3>1 DEF CountsTrue, StoredTrue, RefreshedIn
      <3> QED BY <1>0, <1>1, <1>3, <2>1, <2>2, <3>1, <3>2 DEF CountsTrue
    <2>3. CASE done2 = done /\ ~ok
      BY <1>0, <2>2, <2>3
    <2>4. ASSUME NEW u \in SyncUpdates \cup FlagUpdates, u.request = r, u.account = run[w].account,
                 ok = (u.op = "sync"), ok => run[w].phase = "storing", done2 = done \cup {u}
          PROVE  CountsTrue(r, c, wk2, done2, n2)
      <3>1. CASE ~ok
        <4>1. StoredBy(r, done2) = StoredBy(r, done)
          BY <1>0, <2>4, <3>1 DEF StoredBy
        <4> QED BY <1>0, <2>2, <3>1, <4>1
      <3>2. CASE ok
        <4>1. u \notin done
          <5>1. u.worker # 0 /\ run[w].phase # "flagging"
            BY <1>0, <2>4, <3>2, QuotaBoardAssumption DEF SyncUpdates, FlagUpdates
          <5> QED BY <1>0, <2>4, <5>1, <1>a
        <4>2. StoredBy(r, done2) = StoredBy(r, done) \cup {u} /\ u \notin StoredBy(r, done)
          BY <1>0, <2>4, <3>2, <4>1 DEF StoredBy
        <4>3. /\ IsFiniteSet(StoredBy(r, done2))
              /\ Cardinality(StoredBy(r, done2)) = Cardinality(StoredBy(r, done)) + 1
          BY <1>0, <2>1, <4>2, FS_AddElement
        <4>4. wk2.completed = wk.completed + 1
          BY <1>0, <2>1, <3>2
        <4>5. ASSUME c.phase \in {"refreshing", "done"}, c.kind = "refreshAll"
              PROVE  Cardinality(StoredBy(r, done2)) \in wk2.completed .. wk2.completed + n2
          <5>1. Cardinality(StoredBy(r, done)) \in wk.completed .. wk.completed + n
            BY <1>0, <1>1, <4>5 DEF CountsTrue
          <5> QED BY <1>0, <2>1, <4>3, <4>4, <5>1
        <4>6. StoredTrue(r, wk2, done2)
          <5>1. wk2.refreshed = OneMore(wk.refreshed, run[w].account) /\ StoredTrue(r, wk, done)
            BY <1>0, <1>1, <3>2 DEF CountsTrue
          <5>2. \A a \in RefreshedIn(wk2) : a \in RefreshedIn(wk) \/ a = run[w].account
            BY <5>1 DEF RefreshedIn, OneMore, WalkRows
          <5> QED BY <2>4, <4>2, <5>1, <5>2 DEF StoredTrue
        <4> QED BY <1>0, <1>3, <4>3, <4>5, <4>6 DEF CountsTrue
      <3> QED BY <1>0, <3>1, <3>2
    <2> QED BY <1>0, <2>3, <2>4 DEF Concludes
  <1> QED BY <1>0, <1>2, <1>4, <1>8, <1>9, <1>10 DEF Fine

\* A crash: the call is lost unless it was answered or had not come, its workers are gone,
\* and so is its walk unless it had ended.
LEMMA CrashFine ==
    ASSUME NEW r \in Requests, NEW c \in CallRows, NEW wk \in WalkRows,
           NEW run \in [1..Workers -> RunnerRows],
           NEW done \in SUBSET UpdateRows, NEW n \in Nat, Fine(r, c, wk, run, done, n),
           NEW c2, c2 = IF c.phase \in {"idle", "done"} THEN c ELSE [c EXCEPT !.phase = "lost"],
           NEW wk2, wk2 = IF WalkEnded(wk) THEN wk ELSE WalkOf(<<>>),
           NEW run2, Working(run2) = {}
    PROVE  Fine(r, c2, wk2, run2, done, n)
  <1>1. WalkSound(wk, run) /\ AllSpent(r, c, wk, run, done) /\ AnswerTrue(c, done)
        /\ CountsTrue(r, c, wk, done, n) /\ WalkFits(c, wk)
    BY DEF Fine
  <1>2. WalkSound(wk2, run2)
    <2>1. CASE WalkEnded(wk)
      <3>1. Working(run) = {}
        BY <1>1, <2>1, WalkBounds
      <3>2. VisitsSound(wk, run2)
        BY <1>1, <3>1 DEF WalkSound, VisitsSound
      <3> QED BY <1>1, <2>1, <3>1, <3>2 DEF WalkSound
    <2>2. CASE ~WalkEnded(wk)
      <3>1. <<>> \in Seq(AccountIds) /\ \A i, j \in 1..Len(<<>>) : <<>>[i] = <<>>[j] => i = j
        OBVIOUS
      <3> QED BY <2>2, <3>1, WalkBegins
    <2> QED BY <2>1, <2>2
  <1>3. /\ c.phase \in {"idle", "done"} => c2 = c
        /\ c.phase \notin {"idle", "done"} => c2.phase = "lost" /\ c2.answer = "none"
    BY CallRowShapes DEF CallRows
  <1>4. WalkFits(c2, wk2)
    <2>1. CASE c.phase = "idle"
      BY <1>1, <1>3, <2>1 DEF WalkFits, WalkOf, WalkEnded
    <2>2. CASE c.phase = "done"
      BY <1>1, <1>3, <2>2 DEF WalkFits
    <2>3. CASE c.phase \notin {"idle", "done"}
      BY <1>3, <2>3 DEF WalkFits
    <2> QED BY <2>1, <2>2, <2>3
  <1>5. ASSUME NEW u \in done, u.request = r PROVE Spent(u, c2, wk2, run2)
    <2>1. Spent(u, c, wk, run)
      BY <1>1, <1>5 DEF AllSpent
    <2>2. WalkOf(<<>>).ids = <<>>
      BY DEF WalkOf
    <2> QED BY <1>3, <2>1, <2>2 DEF Spent
  <1>6. AnswerTrue(c2, done)
    BY <1>1, <1>3 DEF AnswerTrue
  <1>7. CountsTrue(r, c2, wk2, done, n)
    <2>0. StoredTrue(r, wk2, done)
      <3>1. StoredTrue(r, wk, done) /\ StoredTrue(r, WalkOf(<<>>), done)
        BY <1>1, NothingRefreshed DEF CountsTrue, StoredTrue
      <3> QED BY <3>1
    <2>1. CASE c.phase = "idle"
      BY <1>1, <1>3, <2>0, <2>1 DEF CountsTrue
    <2>2. CASE c.phase = "done"
      BY <1>1, <1>3, <2>0, <2>2 DEF CountsTrue, WalkFits
    <2>3. CASE c.phase \notin {"idle", "done"}
      BY <1>1, <1>3, <2>0, <2>3 DEF CountsTrue
    <2> QED BY <2>1, <2>2, <2>3
  <1> QED BY <1>2, <1>4, <1>5, <1>6, <1>7 DEF Fine, AllSpent

-----------------------------------------------------------------------------
\* A step moves one request only.
Others(r) ==
    /\ \A q \in Requests : q # r =>
          call'[q] = call[q] /\ walk'[q] = walk[q] /\ runner'[q] = runner[q]
    /\ applied \subseteq applied' /\ \A u \in applied' : u.request # r => u \in applied

\* When it is fine after the step, all of them are.
LEMMA OneRequestMoves ==
    ASSUME Typed, RequestsFine, NEW r \in Requests, Others(r), faults' \in Nat, faults <= faults',
           Fine(r, call'[r], walk'[r], runner'[r], applied', faults')
    PROVE  RequestsFine'
  <1>1. ASSUME NEW q \in Requests, q # r
        PROVE  Fine(q, call'[q], walk'[q], runner'[q], applied', faults')
    <2>1. PICK c, wk, run : c = call[q] /\ wk = walk[q] /\ run = runner[q]
      OBVIOUS
    <2>2. call'[q] = c /\ walk'[q] = wk /\ runner'[q] = run
      BY <1>1, <2>1 DEF Others
    <2>3. wk \in WalkRows /\ faults \in Nat /\ Fine(q, c, wk, run, applied, faults)
      BY <2>1 DEF Typed, RequestsFine
    <2>4. PICK done, done2, n, n2 : done = applied /\ done2 = applied' /\ n = faults /\ n2 = faults'
      OBVIOUS
    <2>5. done \subseteq done2 /\ \A u \in done2 : u.request = q => u \in done
      BY <1>1, <2>4 DEF Others
    <2>6. Fine(q, c, wk, run, done2, n2)
      BY <2>3, <2>4, <2>5, OthersFine
    <2> QED BY <2>2, <2>4, <2>6
  <1> QED BY <1>1 DEF RequestsFine

\* The row of a request before a step, typed and fine.
LEMMA RequestRow ==
    ASSUME Typed, RequestsFine, NEW r \in Requests
    PROVE  /\ call[r] \in CallRows /\ walk[r] \in WalkRows
           /\ runner[r] \in [1..Workers -> RunnerRows]
           /\ applied \in SUBSET UpdateRows /\ faults \in Nat
           /\ Fine(r, call[r], walk[r], runner[r], applied, faults)
           /\ call \in [Requests -> CallRows] /\ walk \in [Requests -> WalkRows]
  BY DEF Typed, RequestsFine

\* The requests are fine when a call moves and no update settles.
LEMMA CallKeepsFine ==
    ASSUME Typed, RequestsFine, NEW r \in Requests,
           Answered(r) \/ Fetches(r) \/ Asks(r) \/ Walks(r) \/ Walked(r)
    PROVE  RequestsFine'
  <1>0. PICK c, wk, run, done, n : /\ c = call[r] /\ wk = walk[r] /\ run = runner[r]
                                   /\ done = applied /\ n = faults
    OBVIOUS
  <1>1. /\ c \in CallRows /\ wk \in WalkRows /\ done \in SUBSET UpdateRows /\ n \in Nat
        /\ Fine(r, c, wk, run, done, n)
        /\ call \in [Requests -> CallRows] /\ walk \in [Requests -> WalkRows]
    BY <1>0, RequestRow
  <1>2. ASSUME NEW c2 \in CallRows, call' = [call EXCEPT ![r] = c2],
               NEW wk2 \in WalkRows, walk' = [walk EXCEPT ![r] = wk2],
               UNCHANGED <<fixed, runner>>, Fine(r, c2, wk2, run, done, n)
        PROVE  RequestsFine'
    <2>1. /\ call'[r] = c2 /\ walk'[r] = wk2 /\ runner'[r] = run /\ applied' = done /\ faults' = n
          /\ Others(r)
      BY <1>0, <1>1, <1>2 DEF Others, fixed
    <2>2. Fine(r, call'[r], walk'[r], runner'[r], applied', faults')
      BY <1>2, <2>1
    <2>3. faults' \in Nat /\ faults <= faults'
      BY <1>0, <1>1, <2>1
    <2> QED BY <2>1, <2>2, <2>3, OneRequestMoves
  <1>3. walk = [walk EXCEPT ![r] = wk]
    BY <1>0, <1>1
  <1>4. CASE Answered(r) \/ Fetches(r) \/ Asks(r)
    <2>1. PICK c2 \in CallRows :
             /\ c.phase \in {"idle", "fetching"}
             /\ c2.phase \in {"fetching", "storing"} \/ (c2.phase = "done" /\ c2.task = None)
             /\ call' = [call EXCEPT ![r] = c2] /\ UNCHANGED <<fixed, walk, runner>>
      <3>1. CASE Answered(r)
        BY <1>0, <3>1 DEF Answered
      <3>2. CASE Fetches(r)
        BY <1>0, <3>2 DEF Fetches
      <3>3. CASE Asks(r)
        BY <1>0, <3>3 DEF Asks
      <3> QED BY <1>4, <3>1, <3>2, <3>3
    <2>2. Fine(r, c2, wk, run, done, n)
      BY <1>1, <2>1, CallFine
    <2> QED BY <1>1, <1>2, <1>3, <2>1, <2>2
  <1>5. CASE Walks(r)
    <2>1. PICK c2 \in CallRows, ids \in Seq(AccountIds) :
             /\ c.phase = "idle" /\ c2.phase = "refreshing"
             /\ \A i, j \in 1..Len(ids) : ids[i] = ids[j] => i = j
             /\ call' = [call EXCEPT ![r] = c2] /\ walk' = [walk EXCEPT ![r] = WalkOf(ids)]
             /\ UNCHANGED <<fixed, runner>>
      BY <1>0, <1>5 DEF Walks
    <2>2. Fine(r, c2, WalkOf(ids), run, done, n)
      BY <1>1, <2>1, StartFine
    <2>3. WalkOf(ids) \in WalkRows
      BY WalkOfRow
    <2> QED BY <1>2, <2>1, <2>2, <2>3
  <1>6. CASE Walked(r)
    <2>1. PICK c2 \in CallRows :
             /\ c.phase = "refreshing" /\ WalkEnded(wk) /\ c2.phase = "done" /\ c2.task = None
             /\ c2.kind = c.kind
             /\ call' = [call EXCEPT ![r] = c2] /\ UNCHANGED <<fixed, walk, runner>>
      BY <1>0, <1>6 DEF Walked
    <2>2. Fine(r, c2, wk, run, done, n)
      BY <1>1, <2>1, EndFine
    <2> QED BY <1>1, <1>2, <1>3, <2>1, <2>2
  <1> QED BY <1>4, <1>5, <1>6

\* What moves among the workers of the request.
LEMMA OneWorker ==
    ASSUME NEW r \in Requests, NEW w \in 1..Workers, NEW x, WorkerIs(r, w, x)
    PROVE  /\ OneMoves(runner[r], runner'[r], w, x)
           /\ \A q \in Requests : q # r => runner'[q] = runner[q]
  BY DEF WorkerIs, OneMoves

\* The requests are fine when a worker takes an account, reads on, gives up or asks the
\* store.
LEMMA WorkerKeepsFine ==
    ASSUME Typed, RequestsFine, NEW r \in Requests, NEW w \in 1..Workers,
           WorkerTakes(r, w) \/ ReadsOn(r, w) \/ GivesUp(r, w) \/ Stores(r, w)
    PROVE  RequestsFine'
  <1>0. PICK c, wk, run, done, n : /\ c = call[r] /\ wk = walk[r] /\ run = runner[r]
                                   /\ done = applied /\ n = faults
    OBVIOUS
  <1>1. /\ c \in CallRows /\ wk \in WalkRows /\ run \in [1..Workers -> RunnerRows]
        /\ done \in SUBSET UpdateRows /\ n \in Nat /\ Fine(r, c, wk, run, done, n)
    BY <1>0, RequestRow
  <1>2. ASSUME UNCHANGED <<fixed, call>>,
               \A q \in Requests : q # r => walk'[q] = walk[q] /\ runner'[q] = runner[q],
               Fine(r, c, walk'[r], runner'[r], done, n)
        PROVE  RequestsFine'
    <2>1. call'[r] = c /\ applied' = done /\ faults' = n /\ Others(r)
      BY <1>0, <1>2 DEF Others, fixed
    <2>2. Fine(r, call'[r], walk'[r], runner'[r], applied', faults')
      BY <1>2, <2>1
    <2>3. faults' \in Nat /\ faults <= faults'
      BY <1>0, <1>1, <2>1
    <2> QED BY <2>1, <2>2, <2>3, OneRequestMoves
  <1>3. CASE WorkerTakes(r, w)
    <2>1. /\ run[w].phase = "off" /\ wk.cursor < Len(wk.ids) /\ UNCHANGED <<fixed, call>>
      BY <1>0, <1>3 DEF WorkerTakes
    <2>2. PICK x, wk2, run2 : /\ x = [account |-> wk.ids[wk.cursor + 1], phase |-> "reading"]
                              /\ wk2 = walk'[r] /\ run2 = runner'[r]
      OBVIOUS
    <2>3. /\ WorkerIs(r, w, x)
          /\ WalkIs(r, Onward(wk))
      BY <1>0, <1>3, <2>2, WorkerTook
    <2>4. OneMoves(run, run2, w, x) /\ \A q \in Requests : q # r => runner'[q] = runner[q]
      BY <1>0, <2>2, <2>3, OneWorker
    <2>5. Took(wk, wk2, run, run2, w)
      BY <2>2, <2>3, <2>4 DEF Took, WalkIs
    <2>6. Fine(r, c, wk2, run2, done, n)
      BY <1>1, <2>1, <2>5, TakeFine
    <2> QED BY <1>2, <2>1, <2>2, <2>3, <2>4, <2>6 DEF WalkIs
  <1>4. ASSUME NEW p \in {"fetching", "storing", "flagging"},
               run[w].phase \in {"reading", "fetching"},
               runner' = [runner EXCEPT ![r][w].phase = p], UNCHANGED <<fixed, call, walk>>
        PROVE  RequestsFine'
    <2>1. PICK x, run2 : x = [account |-> run[w].account, phase |-> p] /\ run2 = runner'[r]
      OBVIOUS
    <2>2. WorkerIs(r, w, x)
      <3>1. p \in {"reading", "fetching", "storing", "flagging"} /\ runner[r][w].phase # "off"
        BY <1>0, <1>4
      <3>2. WorkerIs(r, w, [account |-> runner[r][w].account, phase |-> p])
        BY <1>4, <3>1, WorkerTurns
      <3> QED BY <1>0, <2>1, <3>2
    <2>3. OneMoves(run, run2, w, x) /\ \A q \in Requests : q # r => runner'[q] = runner[q]
      BY <1>0, <2>1, <2>2, OneWorker
    <2>4. Turned(run, run2, w, p)
      BY <2>1, <2>3 DEF Turned
    <2>5. w \in Working(run) /\ run[w].phase # "flagging"
      BY <1>4 DEF Working
    <2>6. Fine(r, c, wk, run2, done, n)
      <3>1. n <= n
        BY <1>1
      <3> QED BY <1>1, <2>4, <2>5, <3>1, TurnFine
    <2> QED BY <1>0, <1>2, <1>4, <2>1, <2>3, <2>6
  <1>5. CASE ReadsOn(r, w)
    BY <1>0, <1>4, <1>5 DEF ReadsOn
  <1>6. CASE Stores(r, w)
    <2>1. PICK u \in SyncUpdates \cup FlagUpdates :
             /\ runner[r][w].phase = "fetching"
             /\ runner' = [runner EXCEPT ![r][w].phase = IF u.op = "sync" THEN "storing" ELSE "flagging"]
             /\ UNCHANGED <<fixed, call, walk>>
      BY <1>6 DEF Stores
    <2>2. PICK p \in {"fetching", "storing", "flagging"} :
             p = IF u.op = "sync" THEN "storing" ELSE "flagging"
      OBVIOUS
    <2>3. runner' = [runner EXCEPT ![r][w].phase = p] /\ run[w].phase \in {"reading", "fetching"}
      BY <1>0, <2>1, <2>2
    <2> QED BY <1>4, <2>1, <2>3
  <1>7. CASE GivesUp(r, w)
    <2>1. run[w].phase = "reading" /\ Counted(r, w, FALSE) /\ UNCHANGED <<fixed, call>>
      BY <1>0, <1>7 DEF GivesUp
    <2>2. PICK x, wk2, run2 : /\ x = [account |-> "none", phase |-> "off"]
                              /\ wk2 = walk'[r] /\ run2 = runner'[r]
      OBVIOUS
    <2>3. /\ WorkerIs(r, w, x)
          /\ WalkIs(r, AfterOne(wk, run[w].account, FALSE))
      BY <1>0, <2>1, <2>2, WorkerCounted
    <2>4. OneMoves(run, run2, w, x) /\ \A q \in Requests : q # r => runner'[q] = runner[q]
      BY <1>0, <2>2, <2>3, OneWorker
    <2>5. IsOver(wk, wk2, run, run2, w, FALSE)
      BY <2>2, <2>3, <2>4 DEF IsOver, WalkIs
    <2>6. w \in Working(run)
      BY <2>1 DEF Working
    <2>7. Fine(r, c, wk2, run2, done, n)
      <3>1. n <= n /\ FALSE \in BOOLEAN
        BY <1>1
      <3>2. Concludes(r, run[w], FALSE, done, done)
        BY DEF Concludes
      <3> QED BY <1>1, <2>5, <2>6, <3>1, <3>2, CountFine
    <2> QED BY <1>2, <2>1, <2>2, <2>3, <2>4, <2>7 DEF WalkIs
  <1> QED BY <1>3, <1>5, <1>6, <1>7

\* The requests are fine when the first task settles.
LEMMA SettlingKeepsFine ==
    ASSUME QueueInv, RequestsFine, Retries \/ WorkerDone \/ Replied
    PROVE  RequestsFine'
  <1>a. PICK u, r, w : u = tasks[1].update /\ r = u.request /\ w = u.worker
    OBVIOUS
  <1>b. tasks # <<>> /\ Typed
    BY DEF Retries, WorkerDone, Replied, QueueInv
  <1>c. /\ u \in UpdateRows /\ r \in Requests /\ u.account \in AccountIds /\ Owned(u)
        /\ u \in CallUpdates => w = 0
        /\ u \in SyncUpdates \cup FlagUpdates => w \in 1..Workers /\ w # 0
        /\ u.op = "sync" <=> u \in SyncUpdates
    BY <1>a, <1>b, HeadOwned, UpdateShapes
  <1>0. PICK c, wk, run, done, n, done2, n2 :
            /\ c = call[r] /\ wk = walk[r] /\ run = runner[r]
            /\ done = applied /\ n = faults /\ done2 = applied' /\ n2 = faults'
    OBVIOUS
  <1>1. /\ c \in CallRows /\ wk \in WalkRows /\ run \in [1..Workers -> RunnerRows]
        /\ done \in SUBSET UpdateRows /\ n \in Nat /\ Fine(r, c, wk, run, done, n)
        /\ call \in [Requests -> CallRows] /\ walk \in [Requests -> WalkRows]
    BY <1>0, <1>b, <1>c, RequestRow
  <1>2. /\ n2 \in Nat /\ n <= n2
        /\ Left => done2 = done
        /\ Written => done2 = done \cup {u}
        /\ Charged => n2 = n + 1
        /\ Left \/ Written
        /\ UNCHANGED faults \/ Charged
    <2>1. (Left \/ Written) /\ (UNCHANGED faults \/ Charged)
      BY DEF Retries, WorkerDone, Replied
    <2> QED BY <1>0, <1>1, <1>a, <2>1, SMTT(30) DEF Left, Written, Charged
  <1>3. ASSUME \A q \in Requests : q # r =>
                  call'[q] = call[q] /\ walk'[q] = walk[q] /\ runner'[q] = runner[q],
               Fine(r, call'[r], walk'[r], runner'[r], done2, n2)
        PROVE  RequestsFine'
    <2>1. Others(r)
      BY <1>0, <1>2, <1>3, <1>a DEF Others
    <2>2. faults' \in Nat /\ faults <= faults'
      BY <1>0, <1>2
    <2> QED BY <1>0, <1>3, <1>b, <1>c, <2>1, <2>2, OneRequestMoves
  <1>4. CASE Retries
    <2>1. /\ u \in SyncUpdates /\ runner' = [runner EXCEPT ![r][w].phase = "flagging"]
          /\ Left \/ (Written /\ Charged)
          /\ UNCHANGED <<call, walk>>
      BY <1>a, <1>4 DEF Retries
    <2>2. w \in 1..Workers /\ w # 0 /\ run[w] = [account |-> u.account, phase |-> "storing"]
      BY <1>0, <1>a, <1>c, <2>1 DEF Owned
    <2>3. PICK x, run2 : x = [account |-> run[w].account, phase |-> "flagging"] /\ run2 = runner'[r]
      OBVIOUS
    <2>4. WorkerIs(r, w, x)
      <3>1. runner[r][w].phase # "off"
        BY <1>0, <2>2
      <3>2. WorkerIs(r, w, [account |-> runner[r][w].account, phase |-> "flagging"])
        BY <1>b, <1>c, <2>1, <2>2, <3>1, WorkerTurns
      <3> QED BY <1>0, <2>3, <3>2
    <2>5. OneMoves(run, run2, w, x) /\ \A q \in Requests : q # r => runner'[q] = runner[q]
      BY <1>0, <1>c, <2>2, <2>3, <2>4, OneWorker
    <2>6. Turned(run, run2, w, "flagging")
      BY <2>3, <2>5 DEF Turned
    <2>7. w \in Working(run) /\ run[w].phase # "flagging" /\ run[w].account = u.account
      BY <2>2 DEF Working
    <2>8. \/ done2 = done
          \/ /\ n2 = n + 1
             /\ \E v \in SyncUpdates : /\ v.request = r /\ v.account = run[w].account
                                       /\ done2 = done \cup {v}
      BY <1>2, <1>a, <2>1, <2>7
    <2>9. Fine(r, c, wk, run2, done2, n2)
      BY <1>1, <1>2, <1>c, <2>6, <2>7, <2>8, TurnFine
    <2> QED BY <1>0, <1>3, <2>1, <2>3, <2>5, <2>9
  <1>5. CASE WorkerDone
    <2>1. /\ u \in SyncUpdates \cup FlagUpdates /\ Counted(r, w, u.op = "sync")
          /\ (Left /\ u.op = "flag") \/ Written
          /\ UNCHANGED call
      BY <1>a, <1>5 DEF WorkerDone
    <2>2. /\ w \in 1..Workers /\ w # 0 /\ run[w].account = u.account /\ run[w].phase # "off"
          /\ u.op = "sync" => run[w].phase = "storing"
      BY <1>0, <1>a, <1>c, <2>1 DEF Owned
    <2>3. PICK ok \in BOOLEAN : ok = (u.op = "sync")
      OBVIOUS
    <2>4. PICK x, wk2, run2 : /\ x = [account |-> "none", phase |-> "off"]
                              /\ wk2 = walk'[r] /\ run2 = runner'[r]
      OBVIOUS
    <2>5. /\ WorkerIs(r, w, x)
          /\ WalkIs(r, AfterOne(wk, run[w].account, ok))
      <3>1. Counted(r, w, ok)
        BY <2>1, <2>3
      <3> QED BY <1>0, <1>b, <1>c, <2>2, <2>4, <3>1, WorkerCounted
    <2>6. OneMoves(run, run2, w, x) /\ \A q \in Requests : q # r => runner'[q] = runner[q]
      BY <1>0, <1>c, <2>2, <2>4, <2>5, OneWorker
    <2>7. IsOver(wk, wk2, run, run2, w, ok)
      BY <2>4, <2>5, <2>6 DEF IsOver, WalkIs
    <2>8. w \in Working(run)
      BY <2>2 DEF Working
    <2>9. Concludes(r, run[w], ok, done, done2)
      <3>1. CASE Left /\ u.op = "flag"
        BY <1>2, <2>3, <3>1 DEF Concludes
      <3>2. CASE Written
        BY <1>2, <1>a, <2>1, <2>2, <2>3, <3>2 DEF Concludes
      <3> QED BY <2>1, <3>1, <3>2
    <2>10. Fine(r, c, wk2, run2, done2, n2)
      <3>1. n <= n2 /\ n2 \in Nat
        BY <1>2
      <3>2. CASE ok = TRUE
        <4>1. IsOver(wk, wk2, run, run2, w, TRUE) /\ Concludes(r, run[w], TRUE, done, done2)
          BY <2>7, <2>9, <3>2
        <4> QED BY <1>1, <1>c, <2>8, <3>1, <4>1, CountFine
      <3>3. CASE ok = FALSE
        <4>1. IsOver(wk, wk2, run, run2, w, FALSE) /\ Concludes(r, run[w], FALSE, done, done2)
          BY <2>7, <2>9, <3>3
        <4> QED BY <1>1, <1>c, <2>8, <3>1, <4>1, CountFine
      <3> QED BY <3>2, <3>3
    <2> QED BY <1>0, <1>3, <2>1, <2>4, <2>5, <2>6, <2>10, SMTT(30) DEF WalkIs
  <1>6. CASE Replied
    <2>1. /\ u \in CallUpdates /\ UNCHANGED runner
          /\ \/ UNCHANGED walk
             \/ c.kind = "usage" /\ walk' = [walk EXCEPT ![r] = WalkOf(<<u.account>>)]
      BY <1>0, <1>a, <1>6 DEF Replied
    <2>2. PICK c2 \in CallRows : /\ c2.phase = "done" /\ c2.task = u /\ c2.kind = c.kind
                                 /\ c2.answer = "ok" => Written
                                 /\ call' = [call EXCEPT ![r] = c2]
      BY <1>0, <1>a, <1>6 DEF Replied
    <2>3. c.phase = "storing"
      BY <1>0, <1>a, <1>c, <2>1 DEF Owned
    <2>4. PICK wk2 : wk2 = walk'[r]
      OBVIOUS
    <2>5. /\ wk2 = wk \/ (c.kind = "usage" /\ wk2 = WalkOf(<<u.account>>))
          /\ \A q \in Requests : q # r => walk'[q] = walk[q]
      BY <1>0, <1>1, <1>c, <2>1, <2>4
    <2>6. done2 = done \/ done2 = done \cup {u}
      BY <1>2
    <2>7. c2.answer = "ok" => u \in done2
      BY <1>2, <2>2
    <2>8. Fine(r, c2, wk2, run, done2, n2)
      <3>1. Replies(u, c, c2, wk, wk2, done, done2)
        BY <2>2, <2>5, <2>6, <2>7 DEF Replies
      <3>2. u \in CallUpdates /\ u.request = r
        BY <1>a, <2>1
      <3> QED BY <1>1, <1>2, <1>c, <2>3, <3>1, <3>2, ReplyFine
    <2>9. call'[r] = c2 /\ \A q \in Requests : q # r => call'[q] = call[q]
      BY <1>1, <1>c, <2>2
    <2>10. runner'[r] = run /\ \A q \in Requests : runner'[q] = runner[q]
      BY <1>0, <2>1
    <2> QED BY <1>3, <2>4, <2>5, <2>8, <2>9, <2>10
  <1> QED BY <1>4, <1>5, <1>6

\* The requests are fine after a crash.
LEMMA CrashKeepsFine ==
    ASSUME Typed, RequestsFine, Crash
    PROVE  RequestsFine'
  <1>1. ASSUME NEW r \in Requests
        PROVE  Fine(r, call'[r], walk'[r], runner'[r], applied', faults')
    <2>0. PICK c, wk, run, done, n, c2, wk2, run2 :
             /\ c = call[r] /\ wk = walk[r] /\ run = runner[r] /\ done = applied /\ n = faults
             /\ c2 = call'[r] /\ wk2 = walk'[r] /\ run2 = runner'[r]
      OBVIOUS
    <2>1. /\ c \in CallRows /\ wk \in WalkRows /\ run \in [1..Workers -> RunnerRows]
          /\ done \in SUBSET UpdateRows /\ n \in Nat /\ Fine(r, c, wk, run, done, n)
      BY <2>0, RequestRow
    <2>2. c2 = IF c.phase \in {"idle", "done"} THEN c ELSE [c EXCEPT !.phase = "lost"]
      BY <2>0 DEF Crash
    <2>3. wk2 = IF WalkEnded(wk) THEN wk ELSE WalkOf(<<>>)
      BY <2>0 DEF Crash
    <2>4. Working(run2) = {}
      BY <2>0 DEF Crash, Working
    <2>5. applied' = done /\ faults' = n
      BY <2>0 DEF Crash
    <2>6. Fine(r, c2, wk2, run2, done, n)
      BY <2>1, <2>2, <2>3, <2>4, CrashFine
    <2> QED BY <2>0, <2>5, <2>6
  <1> QED BY <1>1 DEF RequestsFine

-----------------------------------------------------------------------------
(***************************************************************************)
(* The invariant, and what follows from it.                                *)
(***************************************************************************)
BoardInv == QueueInv /\ RequestsFine

\* No request has asked for anything yet.
LEMMA FineInit == BoardInit => RequestsFine
  <1> SUFFICES ASSUME BoardInit, NEW r \in Requests
               PROVE  Fine(r, call[r], walk[r], runner[r], applied, faults)
    BY DEF RequestsFine
  <1>1. /\ call[r].phase = "idle" /\ call[r].answer = "none" /\ walk[r] = WalkOf(<<>>)
        /\ applied = {} /\ faults = 0 /\ Working(runner[r]) = {}
    BY DEF BoardInit, WalkOf, Working
  <1>2. WalkSound(walk[r], runner[r])
    <2>1. <<>> \in Seq(AccountIds) /\ \A i, j \in 1..Len(<<>>) : <<>>[i] = <<>>[j] => i = j
      OBVIOUS
    <2>2. WalkSound(WalkOf(<<>>), runner[r])
      BY <1>1, <2>1, WalkBegins
    <2> QED BY <1>1, <2>2
  <1>3. WalkFits(call[r], walk[r])
    BY <1>1 DEF WalkFits
  <1>4. AllSpent(r, call[r], walk[r], runner[r], applied) /\ AnswerTrue(call[r], applied)
    BY <1>1 DEF AllSpent, AnswerTrue
  <1>5. CountsTrue(r, call[r], walk[r], applied, faults)
    <2>1. StoredBy(r, applied) = {}
      BY <1>1 DEF StoredBy
    <2>2. StoredTrue(r, walk[r], applied)
      BY <1>1, NothingRefreshed DEF StoredTrue
    <2> QED BY <1>1, <2>1, <2>2, FS_EmptySet DEF CountsTrue
  <1> QED BY <1>2, <1>3, <1>4, <1>5 DEF Fine

\* Every step keeps the requests fine.
LEMMA FineNext == QueueInv /\ RequestsFine /\ [BoardNext]_boardVars => RequestsFine'
  <1> SUFFICES ASSUME QueueInv, RequestsFine, [BoardNext]_boardVars PROVE RequestsFine'
    OBVIOUS
  <1>1. CASE UNCHANGED boardVars
    BY <1>1 DEF boardVars, RequestsFine
  <1>2. CASE BoardNext
    <2>1. StepKind /\ Typed
      BY <1>2, StepKinds DEF QueueInv, Sound
    <2>2. ASSUME TaskStarts(1) PROVE RequestsFine'
      BY <2>2 DEF TaskStarts, fixed, RequestsFine
    <2> QED BY <2>1, <2>2, CallKeepsFine, WorkerKeepsFine, SettlingKeepsFine, CrashKeepsFine
            DEF StepKind
  <1> QED BY <1>1, <1>2

\* The invariant holds in every reachable state.
LEMMA BoardAlways == BoardSpec => []BoardInv
  <1>1. BoardInit => BoardInv
    BY QueueInit, FineInit DEF BoardInv
  <1>2. BoardInv /\ [BoardNext]_boardVars => BoardInv'
    BY QueueNext, FineNext DEF BoardInv
  <1> QED BY <1>1, <1>2, PTL DEF BoardSpec

\* What is left of a finite set without some of its elements.
LEMMA Remaining ==
    ASSUME NEW S, IsFiniteSet(S), NEW T, T \subseteq S
    PROVE  Cardinality(S \ T) = Cardinality(S) - Cardinality(T)
  <1>1. Cardinality(S \ T) = Cardinality(S) - Cardinality(S \cap T)
    BY FS_Difference
  <1>2. S \cap T = T
    OBVIOUS
  <1> QED BY <1>1, <1>2

\* When a walk has ended, each of its accounts was refreshed or missed once, and none of
\* the others was.
LEMMA WalkOver ==
    ASSUME NEW wk \in WalkRows, NEW run, WalkSound(wk, run), WalkEnded(wk),
           NEW ids, ids = {wk.ids[k] : k \in 1..Len(wk.ids)}
    PROVE  /\ \A a \in AccountIds : wk.refreshed[a] + wk.missed[a] = IF a \in ids THEN 1 ELSE 0
           /\ wk.completed = Cardinality(RefreshedIn(wk))
           /\ wk.failed = Cardinality(ids \ RefreshedIn(wk))
           /\ IsFiniteSet(RefreshedIn(wk))
  <1>1. /\ Working(run) = {} /\ wk.cursor = Len(wk.ids) /\ VisitsSound(wk, run)
        /\ wk.refreshed \in [AccountIds -> Nat] /\ wk.missed \in [AccountIds -> Nat]
        /\ wk.completed \in Nat /\ wk.failed \in Nat /\ Len(wk.ids) \in Nat
        /\ wk.ids \in [1..Len(wk.ids) -> AccountIds]
    <2>1. Working(run) = {} /\ wk.cursor = Len(wk.ids)
      BY WalkBounds
    <2>2. VisitsSound(wk, run)
      BY DEF WalkSound
    <2>3. /\ wk.refreshed \in [AccountIds -> Nat] /\ wk.missed \in [AccountIds -> Nat]
          /\ wk.completed \in Nat /\ wk.failed \in Nat /\ wk.ids \in Seq(AccountIds)
      BY DEF WalkRows
    <2>4. Len(wk.ids) \in Nat /\ wk.ids \in [1..Len(wk.ids) -> AccountIds]
      BY <2>3, LenProperties
    <2> QED BY <2>1, <2>2, <2>3, <2>4
  <1>2. \A a \in AccountIds : wk.refreshed[a] + wk.missed[a] = IF a \in ids THEN 1 ELSE 0
    BY <1>1 DEF VisitsSound
  <1>3. wk.completed = Cardinality(RefreshedIn(wk))
    BY <1>1 DEF VisitsSound
  <1>4. RefreshedIn(wk) \subseteq ids
    BY <1>1, <1>2 DEF RefreshedIn
  <1>5. IsFiniteSet(ids) /\ Cardinality(ids) = Len(wk.ids)
    <2>1. wk.ids \in Bijection(1..Len(wk.ids), ids)
      BY <1>1 DEF WalkSound, Bijection, Injection, Surjection, IsInjective
    <2>2. IsFiniteSet(1..Len(wk.ids)) /\ Cardinality(1..Len(wk.ids)) = Len(wk.ids)
      <3>1. 1 \in Int /\ Len(wk.ids) \in Int
        BY <1>1
      <3>2. /\ IsFiniteSet(1..Len(wk.ids))
            /\ Cardinality(1..Len(wk.ids)) = IF 1 > Len(wk.ids) THEN 0 ELSE Len(wk.ids) - 1 + 1
        BY <3>1, FS_Interval
      <3> QED BY <1>1, <3>2
    <2>3. ExistsBijection(1..Len(wk.ids), ids)
      BY <2>1 DEF ExistsBijection
    <2> QED BY <2>2, <2>3, FS_Bijection
  <1>6. IsFiniteSet(RefreshedIn(wk))
    BY <1>4, <1>5, FS_Subset
  <1>7. Cardinality(ids \ RefreshedIn(wk)) = Len(wk.ids) - wk.completed
    <2>1. Cardinality(ids \ RefreshedIn(wk)) = Cardinality(ids) - Cardinality(RefreshedIn(wk))
      BY <1>4, <1>5, Remaining
    <2> QED BY <1>3, <1>5, <2>1
  <1>8. wk.failed = Cardinality(ids \ RefreshedIn(wk))
    BY <1>1, <1>7 DEF WalkEnded
  <1> QED BY <1>2, <1>3, <1>6, <1>8

\* The accounts of so many updates are not more than the updates.
LEMMA AccountsOf ==
    ASSUME NEW U, IsFiniteSet(U), NEW S, S = {u.account : u \in U}
    PROVE  IsFiniteSet(S) /\ Cardinality(S) \in Nat /\ Cardinality(S) <= Cardinality(U)
  <1> DEFINE f == [u \in U |-> u.account]
  <1>1. f \in Surjection(U, S)
    BY DEF Surjection
  <1> HIDE DEF f
  <1> QED BY <1>1, FS_Surjection, FS_CardinalityType

\* "per-account failure isolation": a finished refresh of all accounts refreshed or missed
\* each of them once and no other; it reports as refreshed the accounts whose refresh
\* resolved, all of them stored, and as failed the rest, of which no more are stored than
\* file operations failed.
THEOREM RefreshesAccounted == BoardSpec => []RefreshAllAccounted
  <1>1. BoardInv => RefreshAllAccounted
    <2> SUFFICES ASSUME BoardInv, NEW r \in Requests,
                        call[r].kind = "refreshAll", call[r].phase = "done",
                        NEW ids, ids = {walk[r].ids[k] : k \in 1..Len(walk[r].ids)},
                        NEW stored, stored = {u.account : u \in StoredBy(r, applied)}
                 PROVE  /\ \A a \in AccountIds :
                              walk[r].refreshed[a] + walk[r].missed[a] = IF a \in ids THEN 1 ELSE 0
                        /\ walk[r].completed = Cardinality(RefreshedIn(walk[r]))
                        /\ walk[r].failed = Cardinality(ids \ RefreshedIn(walk[r]))
                        /\ RefreshedIn(walk[r]) \subseteq stored
                        /\ Cardinality(stored \ RefreshedIn(walk[r])) <= faults
      BY DEF RefreshAllAccounted, StoredBy, RefreshedIn
    <2>1. /\ Fine(r, call[r], walk[r], runner[r], applied, faults)
          /\ walk[r] \in WalkRows /\ faults \in Nat
      BY DEF BoardInv, RequestsFine, QueueInv, Typed
    <2>2. WalkSound(walk[r], runner[r]) /\ WalkEnded(walk[r])
      BY <2>1 DEF Fine, WalkFits
    <2>3. /\ \A a \in AccountIds :
                walk[r].refreshed[a] + walk[r].missed[a] = IF a \in ids THEN 1 ELSE 0
          /\ walk[r].completed = Cardinality(RefreshedIn(walk[r]))
          /\ walk[r].failed = Cardinality(ids \ RefreshedIn(walk[r]))
          /\ IsFiniteSet(RefreshedIn(walk[r]))
      BY <2>1, <2>2, WalkOver
    <2>4. /\ StoredTrue(r, walk[r], applied) /\ IsFiniteSet(StoredBy(r, applied))
          /\ Cardinality(StoredBy(r, applied))
                \in walk[r].completed .. walk[r].completed + faults
      BY <2>1 DEF Fine, CountsTrue
    <2>5. RefreshedIn(walk[r]) \subseteq stored
      BY <2>4 DEF StoredTrue
    <2>6. Cardinality(stored \ RefreshedIn(walk[r])) <= faults
      <3>1. /\ IsFiniteSet(stored) /\ Cardinality(stored) \in Nat
            /\ Cardinality(stored) <= Cardinality(StoredBy(r, applied))
        BY <2>4, AccountsOf
      <3>2. Cardinality(stored \ RefreshedIn(walk[r]))
               = Cardinality(stored) - Cardinality(RefreshedIn(walk[r]))
        BY <2>5, <3>1, Remaining
      <3>3. Cardinality(stored \ RefreshedIn(walk[r])) = Cardinality(stored) - walk[r].completed
        BY <2>3, <3>2
      <3>4. walk[r].completed \in Nat
        BY <2>1 DEF WalkRows
      <3> QED BY <2>1, <2>4, <3>1, <3>3, <3>4
    <2> QED BY <2>3, <2>5, <2>6
  <1> QED BY <1>1, BoardAlways, PTL

\* Types; a task that runs is the first of the queue; a call or a worker that waits for the
\* store has its update there, and the queue holds no other.
THEOREM TypesOfTheBoard == BoardSpec => []BoardTypeOK
  <1>1. BoardInv => BoardTypeOK
    <2> SUFFICES ASSUME BoardInv PROVE BoardTypeOK
      OBVIOUS
    <2>1. /\ Typed /\ file \in Databases /\ QueueOwned /\ QueueComplete
          /\ \A i \in 1..Len(tasks) : tasks[i].draft # None => i = 1
          /\ faults \in Nat /\ crashes \in Nat /\ faults + crashes <= MaxFaults
      BY DEF BoardInv, QueueInv, Sound, DraftsCurrent, Typed
    <2>2. ASSUME NEW r \in Requests
          PROVE  /\ call[r].phase \in {"idle", "fetching", "storing", "refreshing", "done", "lost"}
                 /\ call[r].phase = "storing" => call[r].task \in QueuedUpdates
      BY <2>1, CallRowShapes DEF Typed, QueueComplete
    <2>3. ASSUME NEW r \in Requests PROVE walk[r].cursor \in 0..Len(walk[r].ids)
      <3>1. walk[r] \in WalkRows /\ Fine(r, call[r], walk[r], runner[r], applied, faults)
        BY <2>1 DEF BoardInv, RequestsFine, Typed
      <3> QED BY <3>1 DEF Fine, WalkSound, WalkRows
    <2>4. ASSUME NEW r \in Requests, NEW w \in 1..Workers,
                 NEW u \in QueuedUpdates, u.request = r, u.worker = w
          PROVE  runner[r][w].phase \in {"storing", "flagging"}
      <3>1. Owned(u) /\ u.worker # 0
        BY <2>1, <2>4, QuotaBoardAssumption DEF QueueOwned
      <3> QED BY <2>4, <3>1 DEF Owned
    <2>5. ASSUME NEW r \in Requests, NEW w \in 1..Workers,
                 runner[r][w].phase \in {"storing", "flagging"}
          PROVE  \E u \in QueuedUpdates : u.request = r /\ u.worker = w
      BY <2>1, <2>5 DEF QueueComplete
    <2> QED BY <2>1, <2>2, <2>3, <2>4, <2>5 DEF BoardTypeOK
  <1> QED BY <1>1, BoardAlways, PTL

-----------------------------------------------------------------------------
(***************************************************************************)
(* The file as an atomic store.                                            *)
(***************************************************************************)
\* What the first task of the queue asks for was not applied before.
LEMMA HeadNew ==
    ASSUME BoardInv, tasks # <<>>
    PROVE  tasks[1].update \notin applied
  <1>1. PICK u : u = tasks[1].update
    OBVIOUS
  <1>2. u.request \in Requests /\ u.worker \in 0..Workers /\ Owned(u) /\ u.account \in AccountIds
    BY <1>1, HeadOwned DEF BoardInv
  <1>3. ASSUME u \in applied PROVE FALSE
    <2>1. Spent(u, call[u.request], walk[u.request], runner[u.request])
      BY <1>2, <1>3 DEF BoardInv, RequestsFine, Fine, AllSpent
    <2>2. CASE u.worker = 0
      BY <2>1, <2>2, <1>2 DEF Owned, Spent
    <2>3. CASE u.worker # 0
      <3>1. /\ runner[u.request][u.worker].account = u.account
            /\ runner[u.request][u.worker].phase = IF u.op = "sync" THEN "storing" ELSE "flagging"
            /\ u.worker \in 1..Workers
        BY <1>2, <2>3, QuotaBoardAssumption DEF Owned
      <3>2. u.worker \in Working(runner[u.request])
        BY <3>1 DEF Working
      <3> QED BY <2>1, <2>3, <3>1, <3>2 DEF Spent
    <2> QED BY <2>2, <2>3
  <1> QED BY <1>1, <1>3

\* A step leaves the file alone, or the first task's effect on it replaces it.
LEMMA FileSteps ==
    ASSUME BoardInv, StepKind
    PROVE  \/ UNCHANGED <<file, applied>>
           \/ /\ tasks[1].update \notin applied
              /\ file' \in Effect(tasks[1].update, file)
              /\ applied' = applied \cup {tasks[1].update}
  <1>1. UNCHANGED <<file, applied>> \/ (tasks # <<>> /\ Written)
    <2>1. ASSUME NEW r \in Requests,
                 \/ Answered(r) \/ Fetches(r) \/ Asks(r) \/ Walks(r) \/ Walked(r)
                 \/ \E w \in 1..Workers :
                       WorkerTakes(r, w) \/ ReadsOn(r, w) \/ GivesUp(r, w) \/ Stores(r, w)
          PROVE  UNCHANGED <<file, applied>>
      BY <2>1 DEF Answered, Fetches, Asks, Walks, Walked, WorkerTakes, ReadsOn, GivesUp, Stores, fixed
    <2>2. ASSUME TaskStarts(1) \/ Crash PROVE UNCHANGED <<file, applied>>
      BY <2>2 DEF TaskStarts, Crash, fixed
    <2>3. ASSUME Retries \/ WorkerDone \/ Replied PROVE tasks # <<>> /\ (Left \/ Written)
      BY <2>3 DEF Retries, WorkerDone, Replied
    <2> QED BY <2>1, <2>2, <2>3 DEF StepKind, Left
  <1>2. ASSUME tasks # <<>>, Written
        PROVE  /\ tasks[1].update \notin applied
               /\ file' \in Effect(tasks[1].update, file)
               /\ applied' = applied \cup {tasks[1].update}
    <2>1. 1 \in 1..Len(tasks)
      BY <1>2, QueueTail DEF BoardInv, QueueInv
    <2>2. tasks[1].draft \in Effect(tasks[1].update, file)
      BY <1>2, <2>1 DEF BoardInv, QueueInv, DraftsCurrent, Written
    <2> QED BY <1>2, <2>2, HeadNew DEF Written
  <1> QED BY <1>1, <1>2

\* Nothing changes for a call that was answered.
LEMMA AnswersStay ==
    ASSUME BoardInv, StepKind, NEW q \in Requests, call[q].phase = "done"
    PROVE  call'[q] = call[q]
  <1>0. call \in [Requests -> CallRows]
    BY DEF BoardInv, QueueInv, Typed
  <1>1. ASSUME NEW r \in Requests, call[r].phase # "done", NEW c, call' = [call EXCEPT ![r] = c]
        PROVE  call'[q] = call[q]
    BY <1>0, <1>1
  <1>2. ASSUME NEW r \in Requests, Answered(r) \/ Fetches(r) \/ Asks(r)
        PROVE  call'[q] = call[q]
    <2>1. PICK c \in CallRows :
             call[r].phase \in {"idle", "fetching"} /\ call' = [call EXCEPT ![r] = c]
      BY <1>2 DEF Answered, Fetches, Asks
    <2> QED BY <1>1, <2>1
  <1>3. ASSUME NEW r \in Requests, Walks(r) \/ Walked(r) PROVE call'[q] = call[q]
    <2>1. PICK c \in CallRows :
             call[r].phase \in {"idle", "refreshing"} /\ call' = [call EXCEPT ![r] = c]
      BY <1>3 DEF Walks, Walked
    <2> QED BY <1>1, <2>1
  <1>4. ASSUME NEW r \in Requests, NEW w \in 1..Workers,
               WorkerTakes(r, w) \/ ReadsOn(r, w) \/ GivesUp(r, w) \/ Stores(r, w)
        PROVE  call'[q] = call[q]
    BY <1>4 DEF WorkerTakes, ReadsOn, GivesUp, Stores
  <1>5. ASSUME TaskStarts(1) \/ Retries \/ WorkerDone PROVE call'[q] = call[q]
    BY <1>5 DEF TaskStarts, Retries, WorkerDone
  <1>6. ASSUME Replied PROVE call'[q] = call[q]
    <2>1. PICK u : u = tasks[1].update
      OBVIOUS
    <2>2. tasks # <<>> /\ u \in CallUpdates
      BY <1>6, <2>1 DEF Replied
    <2>3. u.request \in Requests /\ call[u.request].phase = "storing"
      BY <2>1, <2>2, HeadOwned DEF BoardInv, Owned
    <2>4. PICK c \in CallRows : call' = [call EXCEPT ![u.request] = c]
      BY <1>6, <2>1 DEF Replied
    <2> QED BY <1>1, <2>3, <2>4
  <1>7. ASSUME Crash PROVE call'[q] = call[q]
    BY <1>7 DEF Crash
  <1> QED BY <1>2, <1>3, <1>4, <1>5, <1>6, <1>7 DEF StepKind

\* What was acknowledged stays so, and was stored.
LEMMA AcknowledgedStored ==
    ASSUME BoardInv, BoardInv', StepKind \/ UNCHANGED boardVars
    PROVE  Acknowledged \subseteq Acknowledged' /\ Acknowledged' \subseteq applied'
  <1>1. ASSUME NEW r \in Requests, call[r].answer = "ok" PROVE call'[r] = call[r]
    <2>1. call[r].phase = "done"
      BY <1>1, CallRowShapes DEF BoardInv, QueueInv, Typed
    <2> QED BY <2>1, AnswersStay DEF boardVars
  <1>2. Acknowledged \subseteq Acknowledged'
    BY <1>1 DEF Acknowledged
  <1>3. ASSUME NEW r \in Requests, call'[r].answer = "ok", call'[r].task # None
        PROVE  call'[r].task \in applied'
    BY <1>3 DEF BoardInv, RequestsFine, Fine, AnswerTrue
  <1>4. Acknowledged' \subseteq applied'
    BY <1>3 DEF Acknowledged
  <1> QED BY <1>2, <1>4

\* "Data writes are serialized, atomic": the board implements the atomic store, whatever
\* overlaps, fails or crashes.
THEOREM BoardIsAtomicStore == BoardSpec => StoreIsAtomic
  <1>1. BoardInit => Store!Init
    <2>1. ASSUME BoardInit PROVE applied = {} /\ Acknowledged = {}
      BY <2>1 DEF BoardInit, Acknowledged
    <2> QED BY <2>1 DEF Store!Init
  <1>2. BoardInv /\ BoardInv' /\ [BoardNext]_boardVars
           => [Store!Next]_<<file, applied, Acknowledged>>
    <2> SUFFICES ASSUME BoardInv, BoardInv', [BoardNext]_boardVars
                 PROVE  Store!Next
      OBVIOUS
    <2>1. StepKind \/ UNCHANGED boardVars
      BY StepKinds DEF BoardInv, QueueInv, Sound
    <2>2. Acknowledged \subseteq Acknowledged' /\ Acknowledged' \subseteq applied'
      BY <2>1, AcknowledgedStored
    <2>3. UNCHANGED <<file, applied>> \/ \E u \in applied' : Store!Apply(u)
      <3>1. CASE UNCHANGED boardVars
        BY <3>1 DEF boardVars
      <3>2. CASE StepKind
        BY <3>2, FileSteps DEF Store!Apply
      <3> QED BY <2>1, <3>1, <3>2
    <2> QED BY <2>2, <2>3 DEF Store!Next
  <1> QED BY <1>1, <1>2, BoardAlways, PTL
          DEF BoardSpec, StoreIsAtomic, Store!Spec
=============================================================================
