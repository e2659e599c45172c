------------------------- MODULE RequestPathProofs -------------------------
(***************************************************************************)
(* Proofs about RequestPath and the functions under it, for every request, *)
(* outcome, configuration file and limit: what the calls of the table do   *)
(* to its entries, its order and its bytes, and from there that the table  *)
(* stays within its bounds, keeps its work in progress and its answers.    *)
(***************************************************************************)
EXTENDS RequestPath, FiniteSetTheorems, SequenceTheorems, WellFoundedInduction, TLAPS

---------------------------------------------------------------------------
(* Keeping part of a sequence.                                             *)

(* The ranks of some positions of a sequence number them from 1 in order.  *)
LEMMA RankNumbers ==
    ASSUME NEW n \in Nat, NEW P \in SUBSET (1 .. n)
    PROVE  /\ IsFiniteSet(P) /\ Cardinality(P) \in Nat
           /\ \A i \in P : Rank(P, i) \in 1 .. Cardinality(P)
           /\ \A i, j \in P : i < j => Rank(P, i) < Rank(P, j)
           /\ \A r \in 1 .. Cardinality(P) : \E i \in P : Rank(P, i) = r
<1>1. IsFiniteSet(P) /\ Cardinality(P) \in Nat
  <2>1. IsFiniteSet(1 .. n)
    BY FS_Interval
  <2>2. IsFiniteSet(P)
    BY <2>1, FS_Subset
  <2> QED
    BY <2>2, FS_CardinalityType
<1>2. \A i \in P : \E B : Rank(P, i) = Cardinality(B) /\ B = {j \in P : j <= i}
  BY DEF Rank
<1>3. ASSUME NEW i \in P
      PROVE  Rank(P, i) \in 1 .. Cardinality(P)
  <2>1. PICK B : Rank(P, i) = Cardinality(B) /\ B = {j \in P : j <= i}
    BY <1>2
  <2>2. B \in SUBSET P /\ i \in B
    BY <2>1
  <2>3. Cardinality(B) \in Nat /\ Cardinality(B) <= Cardinality(P) /\ IsFiniteSet(B)
    BY <1>1, <2>2, FS_Subset, FS_CardinalityType
  <2>4. Cardinality(B) # 0
    BY <2>2, <2>3, FS_EmptySet
  <2> QED
    BY <1>1, <2>1, <2>3, <2>4
<1>4. ASSUME NEW i \in P, NEW j \in P, i < j
      PROVE  Rank(P, i) < Rank(P, j)
  <2>1. PICK A : Rank(P, i) = Cardinality(A) /\ A = {x \in P : x <= i}
    BY <1>2
  <2>2. PICK B : Rank(P, j) = Cardinality(B) /\ B = {x \in P : x <= j}
    BY <1>2
  <2>3. /\ \A x : x \in A <=> x \in P /\ x <= i
        /\ \A x : x \in B <=> x \in P /\ x <= j
    BY <2>1, <2>2
  <2>4. A \in SUBSET B /\ j \in B /\ j \notin A /\ B \in SUBSET P
    <3>1. \A x \in P : x \in Nat
      OBVIOUS
    <3>2. \A x \in P : x <= i => x <= j
      BY <1>4, <3>1
    <3>3. j \in B /\ j \notin A
      BY <1>4, <2>3, <3>1
    <3> QED
      BY <2>3, <3>2, <3>3
  <2>5. IsFiniteSet(B)
    BY <1>1, <2>4, FS_Subset
  <2>6. Cardinality(A) <= Cardinality(B) /\ Cardinality(A) # Cardinality(B)
    BY <2>4, <2>5, FS_Subset
  <2> QED
    BY <1>3, <2>1, <2>2, <2>6
<1>5. ASSUME NEW r \in 1 .. Cardinality(P)
      PROVE  \E i \in P : Rank(P, i) = r
  <2> DEFINE N == 1 .. Cardinality(P)
             f == [i \in P |-> Rank(P, i)]
  <2>1. f \in [P -> N]
    BY <1>3
  <2>2. \A i, j \in P : f[i] = f[j] => i = j
    BY <1>3, <1>4
  <2>3. f \in Injection(P, N)
    BY <2>1, <2>2 DEF Injection, IsInjective
  <2>4. IsFiniteSet(N) /\ Cardinality(N) = Cardinality(P)
    BY <1>1, FS_Interval
  <2>5. f \in Surjection(P, N)
    BY <2>3, <2>4, FS_Injection
  <2> QED
    BY <2>5 DEF Surjection
<1> QED
  BY <1>1, <1>3, <1>4, <1>5

(* Keep returns the elements at the positions, each once, in order.        *)
LEMMA KeepIs ==
    ASSUME NEW S, NEW s \in Seq(S), NEW P \in SUBSET DOMAIN s
    PROVE  /\ Keep(s, P) \in Seq(S) /\ DOMAIN Keep(s, P) = 1 .. Cardinality(P)
           /\ \A i \in P : /\ Rank(P, i) \in DOMAIN Keep(s, P)
                           /\ Keep(s, P)[Rank(P, i)] = s[i]
           /\ \A r \in DOMAIN Keep(s, P) : \E i \in P : Rank(P, i) = r /\ Keep(s, P)[r] = s[i]
           /\ \A i, j \in P : i < j <=> Rank(P, i) < Rank(P, j)
<1> DEFINE n == Cardinality(P)
           At(r) == CHOOSE i \in P : Rank(P, i) = r
<1>1. P \in SUBSET (1 .. Len(s)) /\ Len(s) \in Nat
  OBVIOUS
<1>2. /\ n \in Nat
      /\ \A i \in P : Rank(P, i) \in 1 .. n
      /\ \A i, j \in P : i < j => Rank(P, i) < Rank(P, j)
      /\ \A r \in 1 .. n : \E i \in P : Rank(P, i) = r
  BY <1>1, RankNumbers
<1>3. \A r \in 1 .. n : At(r) \in P /\ Rank(P, At(r)) = r
  BY <1>2
<1>4. \A i, j \in P : i < j <=> Rank(P, i) < Rank(P, j)
  BY <1>1, <1>2
<1>5. \A i \in P : At(Rank(P, i)) = i
  BY <1>1, <1>2, <1>3, <1>4
<1>6. /\ DOMAIN Keep(s, P) = 1 .. n /\ \A r \in 1 .. n : Keep(s, P)[r] = s[At(r)]
  BY DEF Keep
<1> HIDE DEF n, At
<1>7. Keep(s, P) \in [1 .. n -> S]
  <2>1. \A r \in 1 .. n : s[At(r)] \in S
    BY <1>1, <1>3
  <2>2. Keep(s, P) = [r \in 1 .. n |-> s[At(r)]]
    BY DEF Keep, n, At
  <2> QED
    BY <2>1, <2>2
<1>8. Keep(s, P) \in Seq(S)
  BY <1>2, <1>7
<1> QED
  BY <1>2, <1>3, <1>4, <1>5, <1>6, <1>8 DEF n

---------------------------------------------------------------------------
(* The calls of the table, field by field.                                 *)

IsTable(T) ==
    \E entries, order, bytes, last :
        T = [entries |-> entries, order |-> order, bytes |-> bytes, last |-> last]

IsEntry(entry) ==
    \E fingerprint, seq, state :
        entry = [fingerprint |-> fingerprint, seq |-> seq, state |-> state]

(* The entries of U, other than those of some keys, are entries of T.      *)
Inherits(T, U, keys) ==
    \A j \in Present(U) : j \notin keys => j \in Present(T) /\ U.entries[j] = T.entries[j]

(* A step from T to U evicts completed entries only.                       *)
KeepsReserved(T, U) == \A j \in Present(T) : ~Completed(T, j) => j \in Present(U)

(* What n evictions take.                                                  *)
Positions(T, excluded, n) == First(Evictable(T, excluded), n)
Gone(T, excluded, n) == {T.order[i].key : i \in Positions(T, excluded, n)}

(* E is T after n evictions.                                               *)
AfterEviction(T, E, excluded, n) ==
    /\ Present(E) = Present(T) \ Gone(T, excluded, n)
    /\ E.order = Keep(T.order, DOMAIN T.order \ Positions(T, excluded, n))
    /\ E.bytes = T.bytes - BytesOf(T, Gone(T, excluded, n))
    /\ E.last = T.last
    /\ \A j \in Gone(T, excluded, n) : Completed(T, j) /\ j \notin excluded

(* Eviction takes completed entries other than the excluded one, and       *)
(* leaves the others as they are (evict_oldest_completed).                 *)
LEMMA EvictionIs ==
    ASSUME NEW T, IsTable(T), NEW excluded, NEW n
    PROVE  /\ AfterEviction(T, EvictOldest(T, excluded, n), excluded, n)
           /\ IsTable(EvictOldest(T, excluded, n))
           /\ Inherits(T, EvictOldest(T, excluded, n), {})
           /\ KeepsReserved(T, EvictOldest(T, excluded, n))
<1> DEFINE positions == First(Evictable(T, excluded), n)
           gone == {T.order[i].key : i \in positions}
           entries == Restrict(T.entries, Present(T) \ gone)
           order == Keep(T.order, DOMAIN T.order \ positions)
           bytes == T.bytes - BytesOf(T, gone)
           E == EvictOldest(T, excluded, n)
<1>1. E = [T EXCEPT !.entries = entries, !.order = order, !.bytes = bytes]
  BY DEF EvictOldest, Evict
<1>2. DOMAIN entries = Present(T) \ gone /\ \A k \in DOMAIN entries : entries[k] = T.entries[k]
  BY DEF Restrict
<1>3. \A j \in gone : Completed(T, j) /\ j \notin excluded
  BY DEF First, Evictable
<1>4. positions = Positions(T, excluded, n) /\ gone = Gone(T, excluded, n)
  BY DEF Positions, Gone
<1> HIDE DEF positions, gone, entries, order, bytes, E
<1>5. /\ E = [entries |-> entries, order |-> order, bytes |-> bytes, last |-> T.last]
      /\ IsTable(E)
  BY <1>1 DEF IsTable
<1>6. order = Keep(T.order, DOMAIN T.order \ positions) /\ bytes = T.bytes - BytesOf(T, gone)
  BY DEF order, bytes
<1>7. AfterEviction(T, E, excluded, n)
  BY <1>2, <1>3, <1>4, <1>5, <1>6 DEF AfterEviction, Present
<1>8. Inherits(T, E, {}) /\ KeepsReserved(T, E)
  BY <1>2, <1>3, <1>5 DEF Present, Inherits, KeepsReserved
<1> QED
  BY <1>5, <1>7, <1>8 DEF E

LEMMA EntryIs ==
    ASSUME NEW f, NEW q, NEW state,
           NEW entry, entry = [fingerprint |-> f, seq |-> q, state |-> state]
    PROVE  IsEntry(entry) /\ entry.state = state /\ entry.seq = q /\ entry.fingerprint = f
BY DEF IsEntry

(* What begin evicts first.                                                *)
Surplus(T) == Cardinality(Present(T)) - config.max_entries + 1
Cleared(T) == EvictOldest(T, {}, Surplus(T))

(* U is T after a reservation.                                             *)
AfterReservation(T, U, k) ==
    /\ Present(U) = Present(Cleared(T)) \cup {k}
    /\ U.order = Append(Cleared(T).order, [seq |-> T.last + 1, key |-> k])
    /\ U.bytes = Cleared(T).bytes
    /\ U.last = T.last + 1
    /\ Inherits(Cleared(T), U, {k})

(* begin adds one entry, without an outcome (begin).                       *)
LEMMA ReservationIs ==
    ASSUME NEW T, IsTable(T), NEW k, NEW f
    PROVE  /\ AfterReservation(T, Reserve(T, k, f), k)
           /\ IsTable(Reserve(T, k, f)) /\ k \in Present(Reserve(T, k, f))
           /\ Reserve(T, k, f).entries[k] =
                  [fingerprint |-> f, seq |-> T.last + 1, state |-> InFlight]
           /\ Inherits(T, Reserve(T, k, f), {k}) /\ KeepsReserved(T, Reserve(T, k, f))
<1> DEFINE E == Cleared(T)
           U == Reserve(T, k, f)
<1>1. /\ AfterEviction(T, E, {}, Surplus(T))
      /\ IsTable(E) /\ Inherits(T, E, {}) /\ KeepsReserved(T, E)
  BY EvictionIs DEF Cleared
<1> DEFINE entry == [fingerprint |-> f, seq |-> T.last + 1, state |-> InFlight]
           entries == [j \in Present(E) \cup {k} |-> IF j = k THEN entry ELSE E.entries[j]]
           order == Append(E.order, [seq |-> T.last + 1, key |-> k])
<1>2. U = [E EXCEPT !.entries = entries, !.order = order, !.last = @ + 1]
  BY DEF Reserve, Cleared, Surplus
<1> HIDE DEF E, U
<1>3. /\ DOMAIN entries = Present(E) \cup {k} /\ entries[k] = entry
      /\ \A j \in Present(E) \ {k} : entries[j] = E.entries[j]
  OBVIOUS
<1>4. order = Append(E.order, [seq |-> T.last + 1, key |-> k])
  OBVIOUS
<1> HIDE DEF entry, entries, order
<1>5. E.last = T.last
  BY <1>1 DEF AfterEviction
<1>6. /\ U = [entries |-> entries, order |-> order, bytes |-> E.bytes, last |-> T.last + 1]
      /\ IsTable(U)
  BY <1>1, <1>2, <1>5 DEF IsTable
<1>7. Inherits(E, U, {k}) /\ Inherits(T, U, {k}) /\ KeepsReserved(T, U)
  BY <1>1, <1>3, <1>6 DEF Inherits, KeepsReserved, Present
<1>8. Present(U) = Present(E) \cup {k} /\ U.entries[k] = entry
  BY <1>3, <1>6 DEF Present
<1>9. AfterReservation(T, U, k)
  BY <1>4, <1>6, <1>7, <1>8 DEF AfterReservation, E
<1> QED
  BY <1>6, <1>7, <1>8, <1>9 DEF U, entry

(* How many entries complete evicts.                                       *)
Rounds(T, k, outcome) ==
    Min({n \in 0 .. Cardinality(Evictable(T, {k})) :
            EvictOldest(T, {k}, n).bytes + Size[outcome] <= config.max_total})
MadeRoom(T, k, outcome) == EvictOldest(T, {k}, Rounds(T, k, outcome))

(* U is T after the storage of an outcome.                                 *)
AfterStorage(T, U, k, outcome) ==
    /\ Present(U) = Present(MadeRoom(T, k, outcome))
    /\ U.order = MadeRoom(T, k, outcome).order
    /\ U.bytes = MadeRoom(T, k, outcome).bytes + Size[outcome]
    /\ U.last = T.last
    /\ Inherits(MadeRoom(T, k, outcome), U, {k})

(* complete changes one entry, which it does not evict (complete).         *)
LEMMA StorageIs ==
    ASSUME NEW T, IsTable(T), NEW k \in Present(T), NEW outcome,
           IsEntry(T.entries[k])
    PROVE  /\ AfterStorage(T, Store(T, k, outcome), k, outcome)
           /\ IsTable(Store(T, k, outcome)) /\ k \in Present(Store(T, k, outcome))
           /\ Store(T, k, outcome).entries[k] =
                  [fingerprint |-> T.entries[k].fingerprint,
                   seq |-> T.entries[k].seq, state |-> outcome]
           /\ Inherits(T, Store(T, k, outcome), {k}) /\ KeepsReserved(T, Store(T, k, outcome))
<1> DEFINE E == MadeRoom(T, k, outcome)
           n == Rounds(T, k, outcome)
           U == Store(T, k, outcome)
<1>1. /\ AfterEviction(T, E, {k}, n)
      /\ IsTable(E) /\ Inherits(T, E, {}) /\ KeepsReserved(T, E)
  BY EvictionIs DEF MadeRoom
<1>2. U = [E EXCEPT !.entries[k].state = outcome, !.bytes = @ + Size[outcome]]
  BY DEF Store, Rounds, MadeRoom
<1> HIDE DEF E, n, U
<1>3. k \in Present(E) /\ E.last = T.last
  BY <1>1 DEF AfterEviction
<1> DEFINE entries == [E.entries EXCEPT ![k].state = outcome]
           bytes == E.bytes + Size[outcome]
<1>4. U = [E EXCEPT !.entries = entries, !.bytes = bytes]
  BY <1>1, <1>2 DEF IsTable
<1>5. /\ DOMAIN entries = Present(E)
      /\ \A j \in Present(E) \ {k} : entries[j] = E.entries[j]
      /\ entries[k] = [T.entries[k] EXCEPT !.state = outcome]
  BY <1>1, <1>3 DEF Present, Inherits
<1>6. bytes = E.bytes + Size[outcome]
  OBVIOUS
<1> HIDE DEF entries, bytes
<1>7. /\ U = [entries |-> entries, order |-> E.order, bytes |-> bytes, last |-> E.last]
      /\ IsTable(U)
  BY <1>1, <1>4 DEF IsTable
<1>8. U.entries[k] = [fingerprint |-> T.entries[k].fingerprint,
                      seq |-> T.entries[k].seq, state |-> outcome]
  BY <1>5, <1>7 DEF IsEntry
<1>9. Inherits(E, U, {k}) /\ Inherits(T, U, {k}) /\ KeepsReserved(T, U)
  BY <1>1, <1>5, <1>7 DEF Inherits, KeepsReserved, Present
<1>10. Present(U) = Present(E)
  BY <1>5, <1>7 DEF Present
<1>11. AfterStorage(T, U, k, outcome)
  BY <1>3, <1>6, <1>7, <1>9, <1>10 DEF AfterStorage, E
<1> QED
  BY <1>3, <1>7, <1>8, <1>9, <1>10, <1>11 DEF U

(* abort removes one entry and touches no other (abort).                   *)
LEMMA AbortIs ==
    ASSUME IsTable(table), NEW k, NEW f, Abort(k, f)
    PROVE  /\ IsTable(table')
           /\ Present(table') = Present(table) \ {k}
           /\ table'.order = Keep(table.order, {i \in DOMAIN table.order :
                                table.order[i] # [seq |-> table.entries[k].seq, key |-> k]})
           /\ table'.bytes = table.bytes /\ table'.last = table.last
           /\ Inherits(table, table', {})
<1> DEFINE entries == Restrict(table.entries, Present(table) \ {k})
           order == Keep(table.order, {i \in DOMAIN table.order :
                              table.order[i] # [seq |-> table.entries[k].seq, key |-> k]})
<1>1. table' = [table EXCEPT !.entries = entries, !.order = order]
  BY DEF Abort
<1>2. /\ DOMAIN entries = Present(table) \ {k}
      /\ \A j \in DOMAIN entries : entries[j] = table.entries[j]
  BY DEF Restrict
<1>3. order = Keep(table.order, {i \in DOMAIN table.order :
                              table.order[i] # [seq |-> table.entries[k].seq, key |-> k]})
  OBVIOUS
<1> HIDE DEF entries, order
<1>4. /\ table' = [entries |-> entries, order |-> order, bytes |-> table.bytes,
                   last |-> table.last]
      /\ IsTable(table')
  BY <1>1 DEF IsTable
<1> QED
  BY <1>2, <1>3, <1>4 DEF Inherits, Present

(* Recovery reserves and stores, or reserves, or does nothing              *)
(* (restore_completed).                                                    *)
LEMMA RestorationIs ==
    ASSUME NEW T, IsTable(T), NEW r, NEW R, R = Reserve(T, r.key, r.fingerprint)
    PROVE  IF ~Admits(T, r.key) THEN Restore(T, r) = T
           ELSE /\ IsTable(R) /\ r.key \in Present(R) /\ IsEntry(R.entries[r.key])
                /\ R.entries[r.key].state = InFlight
                /\ Restore(T, r) = IF Size[r.outcome] <= config.max_outcome
                                   THEN Store(R, r.key, r.outcome) ELSE R
<1>1. /\ IsTable(R) /\ r.key \in Present(R)
      /\ R.entries[r.key] = [fingerprint |-> r.fingerprint, seq |-> T.last + 1,
                             state |-> InFlight]
  BY ReservationIs, ZenonT(60)
<1>2. IsEntry(R.entries[r.key]) /\ R.entries[r.key].state = InFlight
  BY <1>1, EntryIs
<1> QED
  BY <1>1, <1>2 DEF Restore

---------------------------------------------------------------------------
(* The order of the table and its entries are two views of one table.      *)

Queued == [seq : Nat, key : Keys]

(* OrderMatchesEntries of any table, with the types it needs.              *)
OrderSound(T) ==
    /\ T.order \in Seq(Queued) /\ T.last \in Nat
    /\ \A i \in DOMAIN T.order :
          /\ T.order[i].key \in Present(T)
          /\ T.order[i].seq = T.entries[T.order[i].key].seq
          /\ T.order[i].seq <= T.last
    /\ \A k \in Present(T) : \E i \in DOMAIN T.order : T.order[i].key = k
    /\ \A i, j \in DOMAIN T.order : i < j => T.order[i].seq < T.order[j].seq

(* A sound order has naturals for positions and sequences.                 *)
LEMMA OrderIs ==
    ASSUME NEW T, OrderSound(T)
    PROVE  /\ DOMAIN T.order = 1 .. Len(T.order) /\ Len(T.order) \in Nat
           /\ \A i \in DOMAIN T.order :
                 i \in Nat /\ T.order[i] \in Queued /\ T.order[i].seq \in Nat
<1>1. T.order \in Seq(Queued)
  BY DEF OrderSound
<1>2. /\ DOMAIN T.order = 1 .. Len(T.order) /\ Len(T.order) \in Nat
      /\ \A i \in DOMAIN T.order : i \in Nat /\ T.order[i] \in Queued
  BY <1>1
<1> QED
  BY <1>2 DEF Queued

(* No key is queued twice.                                                 *)
LEMMA QueuedOnce ==
    ASSUME NEW T, OrderSound(T), NEW i \in DOMAIN T.order, NEW j \in DOMAIN T.order,
           T.order[i].key = T.order[j].key
    PROVE  i = j
<1>1. i \in Nat /\ j \in Nat /\ T.order[i].seq \in Nat /\ T.order[i].seq = T.order[j].seq
  BY OrderIs DEF OrderSound
<1> QED
  BY <1>1 DEF OrderSound

(* Leaving out some positions with their entries keeps the order sound     *)
(* (VecDeque::remove with HashMap::remove).                                *)
LEMMA KeepSound ==
    ASSUME NEW T, OrderSound(T), NEW U, Inherits(T, U, {}), U.last = T.last,
           NEW P \in SUBSET DOMAIN T.order, U.order = Keep(T.order, P),
           \A k : k \in Present(U) <=> \E i \in P : T.order[i].key = k
    PROVE  OrderSound(U)
<1>1. T.order \in Seq(Queued) /\ T.last \in Nat
  BY DEF OrderSound
<1>2. /\ U.order \in Seq(Queued)
      /\ \A i \in P : Rank(P, i) \in DOMAIN U.order /\ U.order[Rank(P, i)] = T.order[i]
      /\ \A r \in DOMAIN U.order : \E i \in P : Rank(P, i) = r /\ U.order[r] = T.order[i]
      /\ \A i, j \in P : i < j <=> Rank(P, i) < Rank(P, j)
  BY <1>1, KeepIs
<1>3. ASSUME NEW r \in DOMAIN U.order
      PROVE  /\ U.order[r].key \in Present(U)
             /\ U.order[r].seq = U.entries[U.order[r].key].seq
             /\ U.order[r].seq <= U.last
  <2>1. PICK i \in P : U.order[r] = T.order[i]
    BY <1>2
  <2>2. U.order[r].key \in Present(U)
    BY <2>1
  <2> QED
    BY <2>1, <2>2 DEF OrderSound, Inherits
<1>4. ASSUME NEW r \in DOMAIN U.order, NEW q \in DOMAIN U.order, r < q
      PROVE  U.order[r].seq < U.order[q].seq
  <2>1. PICK i \in P : Rank(P, i) = r /\ U.order[r] = T.order[i]
    BY <1>2
  <2>2. PICK j \in P : Rank(P, j) = q /\ U.order[q] = T.order[j]
    BY <1>2
  <2>3. i < j
    BY <1>2, <1>4, <2>1, <2>2
  <2> QED
    BY <2>1, <2>2, <2>3 DEF OrderSound
<1>5. ASSUME NEW k \in Present(U)
      PROVE  \E r \in DOMAIN U.order : U.order[r].key = k
  <2>1. PICK i \in P : T.order[i].key = k
    OBVIOUS
  <2> QED
    BY <1>2, <2>1
<1> QED
  BY <1>1, <1>2, <1>3, <1>4, <1>5 DEF OrderSound

(* What eviction takes is queued, and everything in front of it that it    *)
(* may take goes too.                                                      *)
LEMMA PositionsAre ==
    ASSUME NEW T, OrderSound(T), NEW excluded, NEW n \in Int
    PROVE  /\ Positions(T, excluded, n) \subseteq Evictable(T, excluded)
           /\ Evictable(T, excluded) \in SUBSET DOMAIN T.order
           /\ IsFiniteSet(Evictable(T, excluded))
           /\ Cardinality(Evictable(T, excluded)) \in Nat
           /\ \A i \in Positions(T, excluded, n) : \A j \in Evictable(T, excluded) :
                 j < i => j \in Positions(T, excluded, n)
<1> DEFINE P == Evictable(T, excluded)
<1>1. P \in SUBSET (1 .. Len(T.order)) /\ Len(T.order) \in Nat /\ P \in SUBSET DOMAIN T.order
  BY OrderIs DEF Evictable
<1> HIDE DEF P
<1>2. /\ IsFiniteSet(P) /\ Cardinality(P) \in Nat
      /\ \A i \in P : Rank(P, i) \in 1 .. Cardinality(P)
      /\ \A i, j \in P : i < j => Rank(P, i) < Rank(P, j)
  BY <1>1, RankNumbers
<1>3. Positions(T, excluded, n) = {i \in P : Rank(P, i) <= n}
  BY DEF Positions, First, P
<1>4. \A i \in Positions(T, excluded, n) : \A j \in P : j < i => Rank(P, j) <= n
  BY <1>2, <1>3
<1> QED
  BY <1>1, <1>2, <1>3, <1>4 DEF P

(* Evicting keeps the order sound (evict_oldest_completed).                *)
LEMMA EvictKeepsOrder ==
    ASSUME NEW T, IsTable(T), OrderSound(T), NEW excluded, NEW n \in Int
    PROVE  OrderSound(EvictOldest(T, excluded, n))
<1> DEFINE E == EvictOldest(T, excluded, n)
           P == DOMAIN T.order \ Positions(T, excluded, n)
<1>1. AfterEviction(T, E, excluded, n) /\ Inherits(T, E, {})
  BY EvictionIs
<1> HIDE DEF E
<1>2. /\ Present(E) = Present(T) \ Gone(T, excluded, n)
      /\ E.order = Keep(T.order, P) /\ E.last = T.last
  BY <1>1 DEF AfterEviction
<1>3. /\ \A k \in Present(T) : \E i \in DOMAIN T.order : T.order[i].key = k
      /\ \A i \in DOMAIN T.order : T.order[i].key \in Present(T)
  BY DEF OrderSound
<1>4. Positions(T, excluded, n) \subseteq DOMAIN T.order
  BY PositionsAre
<1>5. ASSUME NEW k \in Present(E)
      PROVE  \E i \in P : T.order[i].key = k
  BY <1>2, <1>3 DEF Gone
<1>6. ASSUME NEW i \in P
      PROVE  T.order[i].key \in Present(E)
  BY <1>2, <1>3, <1>4, QueuedOnce DEF Gone
<1>7. P \in SUBSET DOMAIN T.order
  OBVIOUS
<1> HIDE DEF P
<1>8. OrderSound(E)
  BY <1>1, <1>2, <1>5, <1>6, <1>7, KeepSound
<1> QED
  BY <1>8 DEF E

(* Reserving queues the new key under the next sequence (begin).           *)
LEMMA ReserveKeepsOrder ==
    ASSUME NEW T, IsTable(T), OrderSound(T), NEW k \in Keys, k \notin Present(T), NEW f,
           Surplus(T) \in Int
    PROVE  OrderSound(Reserve(T, k, f))
<1> DEFINE E == Cleared(T)
           U == Reserve(T, k, f)
           o == [seq |-> T.last + 1, key |-> k]
<1>a. /\ AfterReservation(T, U, k)
      /\ U.entries[k] = [fingerprint |-> f, seq |-> T.last + 1, state |-> InFlight]
  BY ReservationIs
<1>b. AfterEviction(T, E, {}, Surplus(T)) /\ OrderSound(E)
  BY EvictKeepsOrder, EvictionIs DEF Cleared
<1> HIDE DEF E, U
<1>1. /\ Present(U) = Present(E) \cup {k}
      /\ U.order = Append(E.order, o)
      /\ U.last = T.last + 1
      /\ Inherits(E, U, {k})
  BY <1>a DEF AfterReservation, E
<1>2. OrderSound(E) /\ E.last = T.last /\ k \notin Present(E)
  BY <1>b DEF AfterEviction
<1>3. T.last \in Nat /\ o \in Queued /\ U.entries[k].seq = T.last + 1
  BY <1>a, EntryIs DEF OrderSound, Queued
<1>4. o.seq = T.last + 1 /\ o.key = k
  OBVIOUS
<1> HIDE DEF o
<1>5. /\ E.order \in Seq(Queued) /\ Len(E.order) \in Nat
      /\ DOMAIN E.order = 1 .. Len(E.order)
  BY <1>2, OrderIs DEF OrderSound
<1>6. /\ U.order \in Seq(Queued)
      /\ DOMAIN U.order = 1 .. Len(E.order) + 1
      /\ U.order[Len(E.order) + 1] = o
      /\ \A i \in DOMAIN E.order : U.order[i] = E.order[i]
  BY <1>1, <1>3, <1>5
<1>7. \A i \in DOMAIN U.order : i \in DOMAIN E.order \/ i = Len(E.order) + 1
  BY <1>5, <1>6
<1>8. ASSUME NEW i \in DOMAIN U.order
      PROVE  /\ U.order[i].key \in Present(U)
             /\ U.order[i].seq = U.entries[U.order[i].key].seq
             /\ U.order[i].seq <= U.last
  <2>1. CASE i \in DOMAIN E.order
    <3>1. /\ E.order[i].key \in Present(E)
          /\ E.order[i].seq = E.entries[E.order[i].key].seq
          /\ E.order[i].seq <= T.last /\ E.order[i].seq \in Nat
      BY <1>2, <2>1, OrderIs DEF OrderSound
    <3> QED
      BY <1>1, <1>2, <1>3, <1>6, <2>1, <3>1, SMTT(30) DEF Inherits
  <2>2. CASE i = Len(E.order) + 1
    BY <1>1, <1>3, <1>4, <1>6, <2>2
  <2> QED
    BY <1>7, <2>1, <2>2
<1>9. ASSUME NEW j \in Present(U)
      PROVE  \E i \in DOMAIN U.order : U.order[i].key = j
  <2>1. CASE j = k
    BY <1>4, <1>5, <1>6, <2>1
  <2>2. CASE j \in Present(E)
    <3>1. PICK i \in DOMAIN E.order : E.order[i].key = j
      BY <1>2, <2>2 DEF OrderSound
    <3> QED
      BY <1>5, <1>6, <3>1
  <2> QED
    BY <1>1, <2>1, <2>2
<1>10. ASSUME NEW i \in DOMAIN U.order, NEW j \in DOMAIN U.order, i < j
       PROVE  U.order[i].seq < U.order[j].seq
  <2>1. i \in DOMAIN E.order
    BY <1>5, <1>6, <1>10
  <2>2. E.order[i].seq <= T.last /\ E.order[i].seq \in Nat
    BY <1>2, <2>1, OrderIs DEF OrderSound
  <2>3. U.order[i] = E.order[i]
    BY <1>6, <2>1
  <2>4. CASE j \in DOMAIN E.order
    <3>1. E.order[i].seq < E.order[j].seq
      BY <1>2, <1>10, <2>1, <2>4 DEF OrderSound
    <3>2. U.order[j] = E.order[j]
      BY <1>6, <2>4
    <3> QED
      BY <2>3, <3>1, <3>2
  <2>5. CASE j = Len(E.order) + 1
    <3>1. U.order[j] = o
      BY <1>6, <2>5
    <3> QED
      BY <1>3, <1>4, <2>2, <2>3, <3>1
  <2> QED
    BY <1>7, <2>4, <2>5
<1>11. U.order \in Seq(Queued) /\ U.last \in Nat
  BY <1>1, <1>3, <1>6
<1>12. OrderSound(U)
  BY <1>8, <1>9, <1>10, <1>11, Zenon DEF OrderSound
<1> QED
  BY <1>12 DEF U

(* Storing leaves the remaining order and its sequences alone (complete).  *)
LEMMA StoreKeepsOrder ==
    ASSUME NEW T, IsTable(T), OrderSound(T), NEW k \in Present(T), IsEntry(T.entries[k]),
           NEW outcome, Rounds(T, k, outcome) \in Int
    PROVE  OrderSound(Store(T, k, outcome))
<1> DEFINE E == MadeRoom(T, k, outcome)
           U == Store(T, k, outcome)
<1>1. /\ Present(U) = Present(E) /\ U.order = E.order /\ U.last = T.last
      /\ Inherits(E, U, {k}) /\ k \in Present(U)
      /\ U.entries[k] = [fingerprint |-> T.entries[k].fingerprint,
                         seq |-> T.entries[k].seq, state |-> outcome]
  BY StorageIs DEF AfterStorage
<1>2. OrderSound(E) /\ E.last = T.last /\ Inherits(T, E, {})
  BY EvictKeepsOrder, EvictionIs, ZenonT(60) DEF MadeRoom, AfterEviction
<1> HIDE DEF E, U
<1>3. U.entries[k].seq = T.entries[k].seq
  BY <1>1, EntryIs
<1>4. \A j \in Present(U) : U.entries[j].seq = E.entries[j].seq
  BY <1>1, <1>2, <1>3 DEF Inherits
<1>5. OrderSound(U)
  BY <1>1, <1>2, <1>4, SMTT(30) DEF OrderSound
<1> QED
  BY <1>5 DEF U

(* An abort takes its key out of the order (abort).                        *)
LEMMA AbortLeavesOrder ==
    ASSUME IsTable(table), OrderSound(table), NEW k, NEW f, Abort(k, f)
    PROVE  OrderSound(table')
<1> DEFINE P == {i \in DOMAIN table.order :
                    table.order[i] # [seq |-> table.entries[k].seq, key |-> k]}
<1>1. /\ Present(table') = Present(table) \ {k}
      /\ table'.order = Keep(table.order, P) /\ table'.last = table.last
      /\ Inherits(table, table', {})
  BY AbortIs
<1>2. \A i \in DOMAIN table.order : i \in P <=> table.order[i].key # k
  <2> SUFFICES ASSUME NEW i \in DOMAIN table.order
               PROVE  i \in P <=> table.order[i].key # k
    OBVIOUS
  <2>1. /\ table.order[i] \in Queued
        /\ table.order[i].seq = table.entries[table.order[i].key].seq
    BY OrderIs DEF OrderSound
  <2> QED
    BY <2>1 DEF Queued
<1>3. P \in SUBSET DOMAIN table.order
  OBVIOUS
<1> HIDE DEF P
<1>4. ASSUME NEW j \in Present(table')
      PROVE  \E i \in P : table.order[i].key = j
  <2>1. PICK i \in DOMAIN table.order : table.order[i].key = j
    BY <1>1 DEF OrderSound
  <2> QED
    BY <1>1, <1>2, <2>1
<1>5. ASSUME NEW i \in P
      PROVE  table.order[i].key \in Present(table')
  BY <1>1, <1>2, <1>3 DEF OrderSound
<1> QED
  BY <1>1, <1>3, <1>4, <1>5, KeepSound

---------------------------------------------------------------------------
(* What an entry may hold, through every call.                             *)

SoundEntry(entry, limit) ==
    /\ IsEntry(entry)
    /\ entry.state # InFlight => entry.state \in Outcomes /\ Size[entry.state] <= limit

SoundEntries(T, limit) == \A k \in Present(T) : SoundEntry(T.entries[k], limit)

(* A call that leaves all but one entry alone is judged by that entry.     *)
LEMMA InheritsSound ==
    ASSUME NEW T, NEW U, NEW limit, SoundEntries(T, limit),
           NEW k, Inherits(T, U, {k}), k \in Present(U) => SoundEntry(U.entries[k], limit)
    PROVE  SoundEntries(U, limit)
BY DEF Inherits, SoundEntries

(* A reservation has no outcome yet (begin).                               *)
LEMMA ReserveKeepsSound ==
    ASSUME NEW T, IsTable(T), NEW limit, SoundEntries(T, limit), NEW k, NEW f
    PROVE  IsTable(Reserve(T, k, f)) /\ SoundEntries(Reserve(T, k, f), limit)
<1> DEFINE U == Reserve(T, k, f)
<1>1. /\ IsTable(U) /\ Inherits(T, U, {k})
      /\ U.entries[k] = [fingerprint |-> f, seq |-> T.last + 1, state |-> InFlight]
  BY ReservationIs
<1> HIDE DEF U
<1>2. SoundEntry(U.entries[k], limit)
  BY <1>1, EntryIs DEF SoundEntry
<1> QED
  BY <1>1, <1>2, InheritsSound DEF U

(* Storing an outcome within the limit keeps every outcome within it       *)
(* (complete).                                                             *)
LEMMA StoreKeepsSound ==
    ASSUME NEW T, IsTable(T), NEW limit, SoundEntries(T, limit), NEW k \in Present(T),
           NEW outcome \in Outcomes, Size[outcome] <= limit
    PROVE  IsTable(Store(T, k, outcome)) /\ SoundEntries(Store(T, k, outcome), limit)
<1> DEFINE U == Store(T, k, outcome)
<1>1. IsEntry(T.entries[k])
  BY DEF SoundEntries, SoundEntry
<1>2. /\ IsTable(U) /\ Inherits(T, U, {k})
      /\ U.entries[k] = [fingerprint |-> T.entries[k].fingerprint,
                         seq |-> T.entries[k].seq, state |-> outcome]
  BY <1>1, StorageIs
<1> HIDE DEF U
<1>3. SoundEntry(U.entries[k], limit)
  BY <1>2, EntryIs DEF SoundEntry
<1> QED
  BY <1>2, <1>3, InheritsSound DEF U

(* Recovery checks a logged outcome against the limit in force before it   *)
(* stores it (restore_completed).                                          *)
LEMMA RestoreKeepsSound ==
    ASSUME NEW T, IsTable(T), SoundEntries(T, config.max_outcome),
           NEW r, r.outcome \in Outcomes
    PROVE  IsTable(Restore(T, r)) /\ SoundEntries(Restore(T, r), config.max_outcome)
<1> DEFINE R == Reserve(T, r.key, r.fingerprint)
           U == Restore(T, r)
<1>1. CASE ~Admits(T, r.key)
  BY <1>1, RestorationIs
<1>2. CASE Admits(T, r.key)
  <2>1. /\ IsTable(R) /\ r.key \in Present(R)
        /\ U = IF Size[r.outcome] <= config.max_outcome THEN Store(R, r.key, r.outcome) ELSE R
    BY <1>2, RestorationIs
  <2>2. SoundEntries(R, config.max_outcome)
    BY ReserveKeepsSound
  <2> HIDE DEF R, U
  <2> QED
    BY <2>1, <2>2, StoreKeepsSound DEF U
<1> QED
  BY <1>1, <1>2

(* An abort leaves what it does not remove (abort).                        *)
LEMMA AbortKeepsSound ==
    ASSUME IsTable(table), NEW limit, SoundEntries(table, limit), NEW k, NEW f, Abort(k, f)
    PROVE  IsTable(table') /\ SoundEntries(table', limit)
BY AbortIs DEF SoundEntries, Inherits

(* What recovery changes: the record's key, if it admits it.               *)
LEMMA RestoreInherits ==
    ASSUME NEW T, IsTable(T), NEW r
    PROVE  /\ Inherits(T, Restore(T, r), {r.key}) /\ KeepsReserved(T, Restore(T, r))
           /\ IF Admits(T, r.key)
              THEN /\ r.key \in Present(Restore(T, r))
                   /\ Restore(T, r).entries[r.key].state =
                        IF Size[r.outcome] <= config.max_outcome THEN r.outcome ELSE InFlight
              ELSE Restore(T, r) = T
<1> DEFINE R == Reserve(T, r.key, r.fingerprint)
           U == Restore(T, r)
<1>1. CASE ~Admits(T, r.key)
  BY <1>1, RestorationIs DEF Inherits, KeepsReserved
<1>2. CASE Admits(T, r.key)
  <2>1. /\ IsTable(R) /\ r.key \in Present(R) /\ IsEntry(R.entries[r.key])
        /\ R.entries[r.key].state = InFlight
        /\ U = IF Size[r.outcome] <= config.max_outcome THEN Store(R, r.key, r.outcome) ELSE R
    BY <1>2, RestorationIs
  <2>2. Inherits(T, R, {r.key}) /\ KeepsReserved(T, R)
    BY ReservationIs
  <2>3. r.key \notin Present(T)
    BY <1>2 DEF Admits
  <2> HIDE DEF R, U
  <2>4. CASE ~(Size[r.outcome] <= config.max_outcome)
    BY <1>2, <2>1, <2>2, <2>4 DEF U
  <2>5. CASE Size[r.outcome] <= config.max_outcome
    <3>1. U = Store(R, r.key, r.outcome)
      BY <2>1, <2>5
    <3>2. /\ r.key \in Present(U)
          /\ Inherits(R, U, {r.key}) /\ KeepsReserved(R, U)
          /\ U.entries[r.key] = [fingerprint |-> R.entries[r.key].fingerprint,
                                seq |-> R.entries[r.key].seq, state |-> r.outcome]
      BY <2>1, <3>1, StorageIs
    <3>3. U.entries[r.key].state = r.outcome
      BY <3>2, EntryIs
    <3>4. Inherits(T, U, {r.key}) /\ KeepsReserved(T, U)
      BY <2>1, <2>2, <2>3, <3>2 DEF Inherits, KeepsReserved, Completed
    <3> QED
      BY <1>2, <2>5, <3>2, <3>3, <3>4 DEF U
  <2> QED
    BY <2>4, <2>5
<1> QED
  BY <1>1, <1>2

---------------------------------------------------------------------------
(* The byte counter and the bounds.                                        *)

(* A set of naturals that is not empty has a least member.                 *)
LEMMA LeastExists ==
    ASSUME NEW S \in SUBSET Nat, S # {}
    PROVE  \E x \in S : \A y \in S : x <= y
<1> DEFINE Less == {pair \in Nat \X Nat : pair[1] < pair[2]}
<1>1. IsWellFoundedOn(Less, Nat)
  <2>1. OpToRel(<, Nat) = Less
    BY DEF OpToRel
  <2> QED
    BY <2>1, NatLessThanWellFounded
<1>2. PICK x \in S : \A y \in S : ~(<<y, x>> \in Less)
  <2> HIDE DEF Less
  <2> QED
    BY <1>1, WFMin
<1>3. \A y \in S : x <= y
  <2> SUFFICES ASSUME NEW y \in S, ~(x <= y) PROVE FALSE
    OBVIOUS
  <2>1. <<y, x>> \in Nat \X Nat /\ <<y, x>>[1] < <<y, x>>[2]
    OBVIOUS
  <2> QED
    BY <1>2, <2>1
<1> QED
  BY <1>3

LEMMA LeastMember ==
    ASSUME NEW S \in SUBSET Nat, S # {}
    PROVE  Min(S) \in S
BY LeastExists DEF Min

(* The bytes of sound entries can be counted.                              *)
LEMMA BytesFinite ==
    ASSUME NEW T, NEW limit \in Nat, SoundEntries(T, limit), NEW A, IsFiniteSet(A)
    PROVE  IsFiniteSet(OutcomeBytes(T, A)) /\ BytesOf(T, A) \in Nat
<1>1. IsFiniteSet(1 .. limit)
  BY FS_Interval
<1>2. IsFiniteSet(A \X (1 .. limit))
  BY <1>1, FS_Product
<1>3. ASSUME NEW k \in A, Completed(T, k)
      PROVE  {k} \X (1 .. Size[T.entries[k].state]) \subseteq A \X (1 .. limit)
  <2>1. /\ T.entries[k].state \in Outcomes /\ Size[T.entries[k].state] <= limit
        /\ Size[T.entries[k].state] \in Nat
    BY <1>3, SizeAssumption DEF SoundEntries, SoundEntry, Completed
  <2> QED
    BY <2>1
<1>4. OutcomeBytes(T, A) \in SUBSET (A \X (1 .. limit))
  BY <1>3 DEF OutcomeBytes
<1>5. IsFiniteSet(OutcomeBytes(T, A))
  BY <1>2, <1>4, FS_Subset
<1> QED
  BY <1>5, FS_CardinalityType DEF BytesOf

(* The bytes of two disjoint sets of keys add up.                          *)
LEMMA BytesSplit ==
    ASSUME NEW T, NEW limit \in Nat, SoundEntries(T, limit),
           NEW A, NEW B, IsFiniteSet(A), IsFiniteSet(B), A \cap B = {}
    PROVE  BytesOf(T, A \cup B) = BytesOf(T, A) + BytesOf(T, B)
<1> DEFINE X == OutcomeBytes(T, A)
           Y == OutcomeBytes(T, B)
<1>1. OutcomeBytes(T, A \cup B) = X \cup Y
  BY DEF OutcomeBytes
<1>3. \A x \in X : x \notin Y
  BY DEF OutcomeBytes
<1>4. /\ IsFiniteSet(X) /\ IsFiniteSet(Y)
      /\ Cardinality(X) \in Nat /\ Cardinality(Y) \in Nat
  BY BytesFinite DEF BytesOf
<1> HIDE DEF X, Y
<1>5. X \cap Y = {}
  BY <1>3
<1>6. Cardinality(X \cap Y) = 0
  BY <1>5, FS_EmptySet
<1>7. Cardinality(X \cup Y) = Cardinality(X) + Cardinality(Y) - Cardinality(X \cap Y)
  BY <1>4, FS_Union
<1>8. Cardinality(X \cup Y) = Cardinality(X) + Cardinality(Y)
  BY <1>4, <1>6, <1>7
<1> QED
  BY <1>1, <1>8 DEF BytesOf, X, Y

(* Entries with the same outcomes have the same bytes.                     *)
LEMMA BytesSame ==
    ASSUME NEW T, NEW U, NEW A,
           \A k \in A : k \in Present(T) /\ k \in Present(U) /\ U.entries[k] = T.entries[k]
    PROVE  BytesOf(T, A) = BytesOf(U, A)
<1>1. \A k \in A : Completed(T, k) <=> Completed(U, k)
  BY DEF Completed
<1>2. OutcomeBytes(T, A) = OutcomeBytes(U, A)
  BY <1>1 DEF OutcomeBytes
<1> QED
  BY <1>2 DEF BytesOf

(* Reservations have no bytes.                                             *)
LEMMA BytesNone ==
    ASSUME NEW T, NEW A, \A k \in A : ~Completed(T, k)
    PROVE  BytesOf(T, A) = 0
<1>1. OutcomeBytes(T, A) = {}
  BY DEF OutcomeBytes
<1> QED
  BY <1>1, FS_EmptySet DEF BytesOf

(* A completed entry has the bytes of its outcome.                         *)
LEMMA BytesOne ==
    ASSUME NEW T, NEW k, Completed(T, k), NEW n \in Nat, Size[T.entries[k].state] = n
    PROVE  BytesOf(T, {k}) = n
<1>1. OutcomeBytes(T, {k}) = {k} \X (1 .. n)
  BY DEF OutcomeBytes
<1>2. IsFiniteSet({k}) /\ Cardinality({k}) = 1
  BY FS_Singleton
<1>3. IsFiniteSet(1 .. n) /\ Cardinality(1 .. n) = IF 1 > n THEN 0 ELSE n - 1 + 1
  BY FS_Interval
<1>4. Cardinality({k} \X (1 .. n)) = Cardinality({k}) * Cardinality(1 .. n)
  BY <1>2, <1>3, FS_Product
<1>5. Cardinality(1 .. n) = n
  BY <1>3
<1>6. Cardinality({k} \X (1 .. n)) = 1 * n
  BY <1>2, <1>4, <1>5
<1> QED
  BY <1>1, <1>6 DEF BytesOf

(* The limits of an accepted configuration, as the table has them.         *)
ConfigSound ==
    /\ config.max_entries \in Nat \ {0} /\ config.max_total \in Nat
    /\ config.max_outcome \in Nat /\ config.max_outcome <= config.max_total

(* WithinBounds of any table, and its entries can be counted.              *)
Bounded(T) ==
    /\ IsFiniteSet(Present(T)) /\ Cardinality(Present(T)) <= config.max_entries
    /\ T.bytes = BytesOf(T, Present(T)) /\ T.bytes <= config.max_total
    /\ T.last <= MaxSequence

(* Everything a call of the table may rely on.                             *)
SoundTable(T) ==
    IsTable(T) /\ SoundEntries(T, config.max_outcome) /\ OrderSound(T) /\ Bounded(T)

(* Evicting gives back exactly the bytes of what it takes, and no more     *)
(* (evict_oldest_completed).                                               *)
LEMMA EvictKeepsBytes ==
    ASSUME ConfigSound, NEW T, SoundTable(T), NEW excluded, NEW n \in Int,
           NEW E, E = EvictOldest(T, excluded, n)
    PROVE  /\ SoundEntries(E, config.max_outcome) /\ OrderSound(E) /\ IsTable(E)
           /\ Present(E) \in SUBSET Present(T) /\ IsFiniteSet(Present(E))
           /\ E.bytes = BytesOf(E, Present(E)) /\ E.bytes \in Nat
           /\ E.bytes <= T.bytes /\ T.bytes \in Nat /\ E.last = T.last
           /\ Inherits(T, E, {}) /\ KeepsReserved(T, E)
<1> DEFINE gone == Gone(T, excluded, n)
           A == Present(T)
           B == Present(E)
<1>1. /\ AfterEviction(T, E, excluded, n) /\ IsTable(E) /\ Inherits(T, E, {})
      /\ KeepsReserved(T, E)
  BY EvictionIs DEF SoundTable
<1>2. /\ B = A \ gone /\ E.bytes = T.bytes - BytesOf(T, gone) /\ E.last = T.last
      /\ \A j \in gone : Completed(T, j)
  BY <1>1 DEF AfterEviction
<1>3. SoundEntries(E, config.max_outcome)
  BY <1>1 DEF SoundTable, SoundEntries, Inherits
<1>4. OrderSound(E)
  BY EvictKeepsOrder DEF SoundTable
<1>5. gone \in SUBSET A /\ B \in SUBSET A /\ A = B \cup gone /\ B \cap gone = {}
  BY <1>2 DEF Completed
<1>6. /\ IsFiniteSet(A) /\ T.bytes = BytesOf(T, A)
      /\ SoundEntries(T, config.max_outcome) /\ config.max_outcome \in Nat
  BY DEF SoundTable, Bounded, ConfigSound
<1>7. \A k \in B : k \in Present(T) /\ k \in Present(E) /\ T.entries[k] = E.entries[k]
  BY <1>1 DEF Inherits
<1> HIDE DEF gone, A, B
<1>8. IsFiniteSet(B) /\ IsFiniteSet(gone)
  BY <1>5, <1>6, FS_Subset
<1>9. BytesOf(T, A) = BytesOf(T, B) + BytesOf(T, gone)
  BY <1>5, <1>6, <1>8, BytesSplit
<1>10. BytesOf(T, A) \in Nat /\ BytesOf(T, B) \in Nat /\ BytesOf(T, gone) \in Nat
  BY <1>6, <1>8, BytesFinite
<1>11. BytesOf(T, B) = BytesOf(E, B)
  BY <1>7, BytesSame
<1>12. E.bytes = BytesOf(E, B) /\ E.bytes \in Nat /\ E.bytes <= T.bytes /\ T.bytes \in Nat
  BY <1>2, <1>6, <1>9, <1>10, <1>11
<1> QED
  BY <1>1, <1>2, <1>3, <1>4, <1>5, <1>8, <1>12 DEF A, B

(* Fewer entries count for less.                                           *)
LEMMA FewerEntries ==
    ASSUME ConfigSound, NEW T, SoundTable(T), NEW B \in SUBSET Present(T)
    PROVE  /\ IsFiniteSet(B) /\ Cardinality(B) \in Nat
           /\ Cardinality(B) <= Cardinality(Present(T))
           /\ Cardinality(Present(T)) \in Nat
           /\ Cardinality(B) <= config.max_entries
<1>1. IsFiniteSet(Present(T)) /\ Cardinality(Present(T)) <= config.max_entries
  BY DEF SoundTable, Bounded
<1>2. IsFiniteSet(B) /\ Cardinality(B) <= Cardinality(Present(T))
  BY <1>1, FS_Subset
<1>3. Cardinality(B) \in Nat /\ Cardinality(Present(T)) \in Nat /\ config.max_entries \in Nat
  BY <1>1, <1>2, FS_CardinalityType DEF ConfigSound
<1> QED
  BY <1>1, <1>2, <1>3

(* begin has a slot for the entry it admits (begin).                       *)
LEMMA SlotFreed ==
    ASSUME ConfigSound, NEW T, SoundTable(T), NEW k, Admits(T, k)
    PROVE  /\ Surplus(T) \in Int
           /\ Cardinality(Present(Cleared(T))) + 1 <= config.max_entries
<1> DEFINE E == Cleared(T)
           P == Evictable(T, {})
           size == Cardinality(Present(T))
<1>1. /\ size \in Nat /\ size <= config.max_entries /\ config.max_entries \in Nat
      /\ Surplus(T) = size - config.max_entries + 1 /\ Surplus(T) \in Int
  BY FewerEntries DEF ConfigSound, Surplus
<1>2. AfterEviction(T, E, {}, Surplus(T))
  BY EvictionIs DEF Cleared, SoundTable
<1>3. Present(E) = Present(T) \ Gone(T, {}, Surplus(T))
  BY <1>2 DEF AfterEviction
<1> HIDE DEF E
<1>4. CASE size < config.max_entries
  <2>1. Cardinality(Present(E)) <= size /\ Cardinality(Present(E)) \in Nat
    BY <1>3, FewerEntries
  <2> QED
    BY <1>1, <1>4, <2>1 DEF E
<1>5. CASE size = config.max_entries
  <2>1. Surplus(T) = 1 /\ P # {}
    BY <1>1, <1>5 DEF Admits
  <2>2. P \in SUBSET (1 .. Len(T.order)) /\ Len(T.order) \in Nat
    BY OrderIs DEF Evictable, SoundTable
  <2>3. /\ IsFiniteSet(P) /\ Cardinality(P) \in Nat
        /\ \A r \in 1 .. Cardinality(P) : \E i \in P : Rank(P, i) = r
    BY <2>2, RankNumbers
  <2>4. Cardinality(P) # 0
    BY <2>1, <2>3, FS_EmptySet
  <2>5. PICK i \in P : Rank(P, i) = 1
    BY <2>3, <2>4
  <2>6. i \in Positions(T, {}, Surplus(T))
    BY <2>1, <2>5 DEF Positions, First
  <2>7. T.order[i].key \in Present(T) /\ T.order[i].key \notin Present(E)
    BY <1>3, <2>5, <2>6 DEF Gone, Evictable, Completed
  <2> DEFINE rest == Present(T) \ {T.order[i].key}
  <2>8. IsFiniteSet(Present(T))
    BY DEF SoundTable, Bounded
  <2>9. Cardinality(rest) = size - 1 /\ IsFiniteSet(rest)
    BY <2>7, <2>8, FS_RemoveElement
  <2>10. Present(E) \in SUBSET rest
    BY <1>3, <2>7
  <2> HIDE DEF rest
  <2>11. Cardinality(Present(E)) <= Cardinality(rest)
    BY <2>9, <2>10, FS_Subset
  <2>12. Cardinality(Present(E)) \in Nat
    BY <1>3, FewerEntries
  <2> QED
    BY <1>1, <1>5, <2>9, <2>11, <2>12 DEF E
<1> QED
  BY <1>1, <1>4, <1>5

(* A reservation adds an entry and no bytes, within the bounds (begin).    *)
LEMMA ReserveKeepsBounds ==
    ASSUME ConfigSound, NEW T, SoundTable(T), NEW k \in Keys, Admits(T, k), NEW f
    PROVE  SoundTable(Reserve(T, k, f))
<1> DEFINE E == Cleared(T)
           U == Reserve(T, k, f)
<1>1. Surplus(T) \in Int /\ Cardinality(Present(E)) + 1 <= config.max_entries
  BY SlotFreed
<1>2. /\ AfterReservation(T, U, k)
      /\ U.entries[k] = [fingerprint |-> f, seq |-> T.last + 1, state |-> InFlight]
  BY ReservationIs DEF SoundTable
<1>3. IsTable(U) /\ SoundEntries(U, config.max_outcome)
  BY ReserveKeepsSound DEF SoundTable
<1>4. OrderSound(U)
  BY <1>1, ReserveKeepsOrder DEF SoundTable, Admits
<1>5. /\ Present(E) \in SUBSET Present(T) /\ IsFiniteSet(Present(E))
      /\ E.bytes = BytesOf(E, Present(E)) /\ E.bytes \in Nat
      /\ E.bytes <= T.bytes /\ T.bytes \in Nat
  BY <1>1, EvictKeepsBytes DEF Cleared
<1>6. k \notin Present(T) /\ T.last < MaxSequence /\ T.last \in Nat
  BY DEF Admits, SoundTable, OrderSound
<1> HIDE DEF U
<1>7. /\ Present(U) = Present(E) \cup {k} /\ U.bytes = E.bytes /\ U.last = T.last + 1
      /\ Inherits(E, U, {k})
  BY <1>2 DEF AfterReservation
<1> HIDE DEF E
<1>8. k \notin Present(E) /\ Cardinality(Present(E)) \in Nat
  BY <1>5, <1>6, FS_CardinalityType
<1>9. /\ IsFiniteSet(Present(U)) /\ IsFiniteSet({k})
      /\ Cardinality(Present(U)) = Cardinality(Present(E)) + 1
  <2>1. /\ IsFiniteSet(Present(U))
        /\ Cardinality(Present(U)) = Cardinality(Present(E)) + 1
    BY <1>5, <1>7, <1>8, FS_AddElement
  <2>2. IsFiniteSet({k})
    BY FS_Singleton
  <2> QED
    BY <2>1, <2>2
<1>10. \A j \in {k} : ~Completed(U, j)
  BY <1>2, EntryIs DEF Completed
<1>11. BytesOf(U, {k}) = 0
  BY <1>10, BytesNone
<1>12. BytesOf(U, Present(E)) = BytesOf(E, Present(E))
  <2>1. \A j \in Present(E) : j \in Present(E) /\ j \in Present(U) /\ U.entries[j] = E.entries[j]
    BY <1>7, <1>8 DEF Inherits
  <2> QED
    BY <2>1, BytesSame
<1>13. BytesOf(U, Present(E) \cup {k}) = BytesOf(U, Present(E)) + BytesOf(U, {k})
  <2>1. Present(E) \cap {k} = {}
    BY <1>8
  <2> QED
    BY <1>3, <1>5, <1>9, <2>1, BytesSplit DEF ConfigSound
<1>14. U.bytes = BytesOf(U, Present(U))
  BY <1>5, <1>7, <1>11, <1>12, <1>13
<1>15. U.bytes <= config.max_total
  BY <1>5, <1>7 DEF SoundTable, Bounded, ConfigSound
<1>16. U.last <= MaxSequence
  BY <1>6, <1>7, SequenceAssumption
<1>17. Bounded(U)
  BY <1>1, <1>9, <1>14, <1>15, <1>16 DEF Bounded
<1> QED
  BY <1>3, <1>4, <1>17 DEF SoundTable, U

(* A valid outcome fits after evictions: without any other outcome it does *)
(* (the expect in complete).                                               *)
LEMMA RoomFound ==
    ASSUME ConfigSound, NEW T, SoundTable(T), NEW k, Reserved(T, k),
           NEW outcome \in Outcomes, Size[outcome] <= config.max_outcome
    PROVE  /\ Rounds(T, k, outcome) \in Nat
           /\ MadeRoom(T, k, outcome).bytes + Size[outcome] <= config.max_total
<1> DEFINE P == Evictable(T, {k})
           n == Cardinality(P)
           E == EvictOldest(T, {k}, n)
           Fit == {m \in 0 .. n :
                     EvictOldest(T, {k}, m).bytes + Size[outcome] <= config.max_total}
<1>1. P \in SUBSET (1 .. Len(T.order)) /\ Len(T.order) \in Nat
  BY OrderIs DEF Evictable, SoundTable
<1>2. n \in Nat /\ \A i \in P : Rank(P, i) \in 1 .. n
  BY <1>1, RankNumbers
<1>3. Positions(T, {k}, n) = P
  BY <1>2 DEF Positions, First
<1>4. AfterEviction(T, E, {k}, n) /\ Inherits(T, E, {})
  BY EvictionIs DEF SoundTable
<1>5. E.bytes = BytesOf(E, Present(E))
  BY <1>2, EvictKeepsBytes
<1> HIDE DEF E
<1>6. ASSUME NEW j \in Present(E), Completed(E, j)
      PROVE  FALSE
  <2>1. j \in Present(T) /\ Completed(T, j) /\ j # k
    BY <1>4, <1>6 DEF Inherits, Completed, Reserved
  <2>2. PICK i \in DOMAIN T.order : T.order[i].key = j
    BY <2>1 DEF SoundTable, OrderSound
  <2>3. i \in P
    BY <2>1, <2>2 DEF Evictable
  <2>4. j \in Gone(T, {k}, n)
    BY <1>3, <2>2, <2>3 DEF Gone
  <2> QED
    BY <1>4, <2>4 DEF AfterEviction
<1>7. E.bytes = 0
  BY <1>5, <1>6, BytesNone
<1>8. E.bytes + Size[outcome] <= config.max_total
  BY <1>7, SizeAssumption DEF ConfigSound
<1>9. n \in Fit
  BY <1>2, <1>8 DEF E
<1>10. Fit \in SUBSET Nat /\ Fit # {}
  BY <1>9
<1>11. Rounds(T, k, outcome) = Min(Fit)
  BY DEF Rounds
<1>12. \A m \in Fit : /\ m \in Nat
                      /\ EvictOldest(T, {k}, m).bytes + Size[outcome] <= config.max_total
  OBVIOUS
<1> HIDE DEF Fit
<1>13. Rounds(T, k, outcome) \in Fit
  BY <1>10, <1>11, LeastMember
<1> QED
  BY <1>12, <1>13 DEF MadeRoom

(* Storing adds the outcome's bytes, within the bounds (complete).         *)
LEMMA StoreKeepsBounds ==
    ASSUME ConfigSound, NEW T, SoundTable(T), NEW k, Reserved(T, k),
           NEW outcome \in Outcomes, Size[outcome] <= config.max_outcome
    PROVE  SoundTable(Store(T, k, outcome))
<1> DEFINE E == MadeRoom(T, k, outcome)
           U == Store(T, k, outcome)
           n == Rounds(T, k, outcome)
<1>1. n \in Int /\ E.bytes + Size[outcome] <= config.max_total
  BY RoomFound
<1>2. k \in Present(T) /\ IsEntry(T.entries[k]) /\ T.entries[k].state = InFlight
  BY DEF Reserved, SoundTable, SoundEntries, SoundEntry
<1>3. /\ AfterStorage(T, U, k, outcome) /\ k \in Present(U)
      /\ U.entries[k] = [fingerprint |-> T.entries[k].fingerprint,
                         seq |-> T.entries[k].seq, state |-> outcome]
  BY <1>2, StorageIs, ZenonT(60) DEF SoundTable
<1>4. IsTable(U) /\ SoundEntries(U, config.max_outcome)
  BY <1>2, StoreKeepsSound DEF SoundTable
<1>5. OrderSound(U)
  BY <1>1, <1>2, StoreKeepsOrder DEF SoundTable
<1>6. /\ Present(E) \in SUBSET Present(T) /\ IsFiniteSet(Present(E))
      /\ SoundEntries(E, config.max_outcome)
      /\ E.bytes = BytesOf(E, Present(E)) /\ E.bytes \in Nat /\ Inherits(T, E, {})
  BY <1>1, EvictKeepsBytes DEF MadeRoom
<1> HIDE DEF U
<1>7. /\ Present(U) = Present(E) /\ U.bytes = E.bytes + Size[outcome] /\ U.last = T.last
      /\ Inherits(E, U, {k})
  BY <1>3 DEF AfterStorage
<1> HIDE DEF E
<1> DEFINE rest == Present(E) \ {k}
<1>8. /\ IsFiniteSet(rest) /\ IsFiniteSet({k}) /\ rest \cap {k} = {}
      /\ Present(E) = rest \cup {k}
  <2>1. IsFiniteSet(rest)
    BY <1>6, FS_RemoveElement
  <2>2. IsFiniteSet({k})
    BY FS_Singleton
  <2> QED
    BY <1>3, <1>7, <2>1, <2>2
<1>9. /\ \A j \in rest : j \in Present(E) /\ j \in Present(U) /\ U.entries[j] = E.entries[j]
      /\ \A j \in {k} : ~Completed(E, j)
  BY <1>2, <1>3, <1>6, <1>7 DEF Inherits, Completed
<1> HIDE DEF rest
<1>10. /\ BytesOf(E, rest \cup {k}) = BytesOf(E, rest) + BytesOf(E, {k})
       /\ BytesOf(U, rest \cup {k}) = BytesOf(U, rest) + BytesOf(U, {k})
  BY <1>4, <1>6, <1>8, BytesSplit DEF ConfigSound
<1>11. BytesOf(E, rest) = BytesOf(U, rest)
  BY <1>9, BytesSame
<1>12. BytesOf(E, {k}) = 0
  BY <1>9, BytesNone
<1>13. BytesOf(U, {k}) = Size[outcome]
  <2>1. U.entries[k].state = outcome /\ Size[outcome] \in Nat
    BY <1>3, EntryIs, SizeAssumption
  <2>2. Completed(U, k)
    BY <1>3, <2>1, InFlightAssumption DEF Completed
  <2> QED
    BY <2>1, <2>2, BytesOne
<1>14. BytesOf(E, rest) \in Nat
  BY <1>6, <1>8, BytesFinite DEF ConfigSound
<1>15. U.bytes = BytesOf(U, Present(U))
  BY <1>6, <1>7, <1>8, <1>10, <1>11, <1>12, <1>13, <1>14
<1>16. Cardinality(Present(U)) <= config.max_entries
  BY <1>6, <1>7, FewerEntries
<1>17. U.bytes <= config.max_total /\ U.last <= MaxSequence
  BY <1>1, <1>7 DEF E, SoundTable, Bounded
<1>18. Bounded(U)
  BY <1>6, <1>7, <1>15, <1>16, <1>17 DEF Bounded
<1> QED
  BY <1>4, <1>5, <1>18 DEF SoundTable, U

(* An abort takes one entry, which has no bytes (abort).                   *)
LEMMA AbortKeepsBounds ==
    ASSUME ConfigSound, SoundTable(table), NEW k, NEW f, Abort(k, f)
    PROVE  /\ IsTable(table') /\ SoundEntries(table', config.max_outcome)
           /\ OrderSound(table') /\ Bounded(table')
<1> DEFINE rest == Present(table) \ {k}
<1>1. /\ Present(table') = rest
      /\ table'.bytes = table.bytes /\ table'.last = table.last
      /\ Inherits(table, table', {})
  BY AbortIs DEF SoundTable
<1>2. k \in Present(table) /\ ~Completed(table, k)
  BY DEF Abort, Matches, Reserved, Completed
<1>3. IsTable(table') /\ SoundEntries(table', config.max_outcome) /\ OrderSound(table')
  BY AbortKeepsSound, AbortLeavesOrder DEF SoundTable
<1>4. /\ IsFiniteSet(Present(table)) /\ table.bytes = BytesOf(table, Present(table))
      /\ SoundEntries(table, config.max_outcome)
      /\ table.bytes <= config.max_total /\ table.last <= MaxSequence
  BY DEF SoundTable, Bounded
<1>5. /\ IsFiniteSet(rest) /\ IsFiniteSet({k}) /\ rest \cap {k} = {}
      /\ Present(table) = rest \cup {k} /\ rest \in SUBSET Present(table)
  BY <1>2, <1>4, FS_RemoveElement, FS_Singleton
<1>6. \A j \in rest : j \in Present(table) /\ j \in Present(table')
                      /\ table'.entries[j] = table.entries[j]
  BY <1>1 DEF Inherits
<1> HIDE DEF rest
<1>7. BytesOf(table, rest \cup {k}) = BytesOf(table, rest) + BytesOf(table, {k})
  BY <1>4, <1>5, BytesSplit DEF ConfigSound
<1>8. BytesOf(table, rest) = BytesOf(table', rest)
  BY <1>6, BytesSame
<1>9. BytesOf(table, {k}) = 0
  BY <1>2, BytesNone
<1>10. BytesOf(table, rest) \in Nat
  BY <1>4, <1>5, BytesFinite DEF ConfigSound
<1>11. table'.bytes = BytesOf(table', Present(table'))
  BY <1>1, <1>4, <1>5, <1>7, <1>8, <1>9, <1>10
<1>12. Cardinality(rest) <= config.max_entries
  BY <1>5, FewerEntries
<1>13. Bounded(table')
  BY <1>1, <1>4, <1>5, <1>11, <1>12 DEF Bounded
<1> QED
  BY <1>3, <1>13

(* Recovery does what begin and complete do (restore_completed).           *)
LEMMA RestoreKeepsBounds ==
    ASSUME ConfigSound, NEW T, SoundTable(T), NEW r, r.key \in Keys, r.outcome \in Outcomes
    PROVE  SoundTable(Restore(T, r))
<1> DEFINE R == Reserve(T, r.key, r.fingerprint)
           U == Restore(T, r)
<1>1. CASE ~Admits(T, r.key)
  BY <1>1, RestorationIs DEF SoundTable
<1>2. CASE Admits(T, r.key)
  <2>1. /\ r.key \in Present(R) /\ R.entries[r.key].state = InFlight
        /\ U = IF Size[r.outcome] <= config.max_outcome THEN Store(R, r.key, r.outcome) ELSE R
    BY <1>2, RestorationIs DEF SoundTable
  <2>2. SoundTable(R)
    BY <1>2, ReserveKeepsBounds
  <2> HIDE DEF R, U
  <2>3. Reserved(R, r.key)
    BY <2>1 DEF Reserved
  <2> QED
    BY <2>1, <2>2, <2>3, StoreKeepsBounds DEF U
<1> QED
  BY <1>1, <1>2

(* A new table is sound under every configuration (DedupTable::new).       *)
LEMMA EmptyIsBounded ==
    ASSUME ConfigSound
    PROVE  OrderSound(Empty) /\ Bounded(Empty)
<1>1. /\ Empty.order = << >> /\ Empty.last = 0 /\ Empty.bytes = 0 /\ Present(Empty) = {}
  BY DEF Empty, Present
<1>2. << >> \in Seq(Queued) /\ DOMAIN << >> = {}
  OBVIOUS
<1>3. OrderSound(Empty)
  BY <1>1, <1>2 DEF OrderSound
<1>4. BytesOf(Empty, {}) = 0
  BY BytesNone
<1>5. IsFiniteSet({}) /\ Cardinality({}) = 0
  BY FS_EmptySet
<1> QED
  BY <1>1, <1>3, <1>4, <1>5, SequenceAssumption DEF Bounded, ConfigSound

---------------------------------------------------------------------------
(* What an accepted configuration guarantees: the faults of every part are *)
(* empty, so the comparisons across parts were made and hold, and an       *)
(* outcome fits into a message and a message into a record                 *)
(* (NodeConfig::try_from).                                                 *)
LEMMA LimitsNest ==
    ASSUME NEW raw, Accepted(raw)
    PROVE  /\ raw.dedup.max_outcome \in Nat
           /\ raw.transport.max_message \in Nat
           /\ raw.wal.max_record \in Nat
           /\ raw.dedup.max_entries \in Nat \ {0} /\ raw.dedup.max_total \in Nat
           /\ raw.dedup.max_outcome <= raw.dedup.max_total
           /\ raw.dedup.max_outcome <= raw.transport.max_message
           /\ raw.transport.max_message + FrameOverhead <= raw.wal.max_record
<1>1. PICK members \in Deserialized(raw.members) : Faults(raw, members) = {}
  BY DEF Accepted
<1>2. /\ WalFaults(raw.wal) = {}
      /\ TransportFaults(raw.transport) = {}
      /\ DedupFaults(raw.dedup) = {}
      /\ LimitFaults(raw) = {}
  BY <1>1 DEF Faults, Prefixed
<1>3. raw.wal.max_record \in MinRecord .. MaxRecord
  BY <1>2 DEF WalFaults, InRange, Unless
<1>4. raw.transport.max_message \in 1 .. MaxMessage
  BY <1>2 DEF TransportFaults, InRange, Unless
<1>5. /\ raw.dedup.max_outcome \in 1 .. MaxTotal
      /\ raw.dedup.max_entries \in 1 .. MaxU32
      /\ raw.dedup.max_total \in MinTotal .. MaxTotal
      /\ raw.dedup.max_outcome <= raw.dedup.max_total
  BY <1>2 DEF DedupFaults, InRange, Unless
<1>6. /\ raw.transport.max_message + FrameOverhead <= raw.wal.max_record
      /\ raw.dedup.max_outcome <= raw.transport.max_message
  BY <1>2 DEF LimitFaults, Unless
<1> QED
  BY <1>3, <1>4, <1>5, <1>6, RangesAssumption

(* A retry keeps the key and the fingerprint of its request, and the       *)
(* service passes both on (retry, into_core).                              *)
LEMMA ArrivalsKnown ==
    ASSUME NEW e \in Arrivals
    PROVE  Key(e) \in Keys /\ Fingerprint(e) \in Fingerprints
<1>1. PICK x \in Requests \cup UNION {Retry(y) : y \in Requests} :
         e \in Delivered(x, limits.max_message)
  BY DEF Arrivals
<1>2. PICK y \in Requests : x = y \/ x \in Retry(y)
  OBVIOUS
<1>3. y \in EnvelopeType /\ Key(y) \in Keys /\ Fingerprint(y) \in Fingerprints
  BY RequestsAssumption
<1>4. SameContents(x, y)
  BY <1>2, <1>3 DEF EnvelopeType, Retry, SameContents
<1>5. e = FieldsOf(FromCore(x))
  BY <1>1 DEF Delivered, IntoCore, TryFromVersion, NewV1
<1>6. SameContents(e, x)
  BY <1>5 DEF FieldsOf, FromCore, SameContents
<1>7. Key(e) = Key(y) /\ Fingerprint(e) = Fingerprint(y)
  BY <1>4, <1>6 DEF SameContents, Key, Fingerprint
<1> QED
  BY <1>3, <1>7

(* Byte strings in a row can be grouped either way.                         *)
LEMMA Regroup ==
    ASSUME NEW p \in Bytes, NEW q \in Bytes, NEW r \in Bytes
    PROVE  (p \o q) \o r = p \o (q \o r)
<1>1. p \in Seq(Nat) /\ q \in Seq(Nat) /\ r \in Seq(Nat)
  BY DEF Bytes
<1>2. \A t, u, v \in Seq(Nat) : (t \o u) \o v = t \o (u \o v)
  BY ConcatAssociative, SMTT(30)
<1> QED
  BY <1>1, <1>2, Zenon

(* Two byte strings in a row are one.                                      *)
LEMMA Joined ==
    ASSUME NEW p \in Bytes, NEW q \in Bytes
    PROVE  p \o q \in Bytes
BY ConcatProperties, Zenon DEF Bytes

(* What is hashed of a field is a byte string.                             *)
LEMMA FieldIs ==
    ASSUME NEW x \in Bytes
    PROVE  Field(x) \in Bytes
<1>1. <<Len(x)>> \in Bytes
  BY DEF Bytes
<1> QED
  BY <1>1, Joined, Zenon DEF Field

(* A byte string has its first element back.                               *)
LEMMA Heads ==
    ASSUME NEW n \in Nat, NEW m \in Nat, NEW p \in Bytes, NEW q \in Bytes, <<n>> \o p = <<m>> \o q
    PROVE  n = m
<1>1. <<n>> \in Bytes /\ <<m>> \in Bytes
  BY DEF Bytes
<1>2. /\ \A i \in 1 .. Len(<<n>>) + Len(p) : (<<n>> \o p)[i] = IF i <= Len(<<n>>) THEN <<n>>[i] ELSE p[i - Len(<<n>>)]
      /\ \A i \in 1 .. Len(<<m>>) + Len(q) : (<<m>> \o q)[i] = IF i <= Len(<<m>>) THEN <<m>>[i] ELSE q[i - Len(<<m>>)]
  BY <1>1, ConcatProperties, Zenon DEF Bytes
<1>3. Len(<<n>>) = 1 /\ Len(<<m>>) = 1 /\ <<n>>[1] = n /\ <<m>>[1] = m /\ Len(p) \in Nat /\ Len(q) \in Nat
  BY DEF Bytes
<1>4. (<<n>> \o p)[1] = n /\ (<<m>> \o q)[1] = m
  BY <1>2, <1>3
<1> QED
  BY <1>4

(* A byte string has a beginning of known length back.                     *)
LEMMA SameLength ==
    ASSUME NEW x \in Bytes, NEW y \in Bytes, NEW r \in Bytes, NEW s \in Bytes,
           Len(x) = Len(y), x \o r = y \o s
    PROVE  x = y
<1>1. /\ \A i \in 1 .. Len(x) + Len(r) : (x \o r)[i] = IF i <= Len(x) THEN x[i] ELSE r[i - Len(x)]
      /\ \A i \in 1 .. Len(y) + Len(s) : (y \o s)[i] = IF i <= Len(y) THEN y[i] ELSE s[i - Len(y)]
  BY ConcatProperties, Zenon DEF Bytes
<1>2. Len(x) \in Nat /\ Len(r) \in Nat /\ Len(s) \in Nat
  BY DEF Bytes
<1>3. ASSUME NEW i \in 1 .. Len(x)
      PROVE  x[i] = y[i]
  <2>1. (x \o r)[i] = x[i] /\ (y \o s)[i] = y[i]
    BY <1>1, <1>2, <1>3
  <2> QED
    BY <2>1
<1>4. x \in Seq(Nat) /\ y \in Seq(Nat)
  BY DEF Bytes
<1> QED
  BY <1>3, <1>4, SeqEqual, Zenon

(* A field, and what follows it.                                           *)
FieldThen(x, r) == Field(x) \o r

(* A byte string that begins with a field has it back, and what follows.   *)
LEMMA Peel ==
    ASSUME NEW x \in Bytes, NEW y \in Bytes, NEW r \in Bytes, NEW s \in Bytes,
           FieldThen(x, r) = FieldThen(y, s)
    PROVE  x = y /\ r = s
<1>1. <<Len(x)>> \in Bytes /\ <<Len(y)>> \in Bytes /\ Len(x) \in Nat /\ Len(y) \in Nat
  BY DEF Bytes
<1>2. x \o r \in Bytes /\ y \o s \in Bytes
  BY Joined, Zenon
<1>3. <<Len(x)>> \o (x \o r) = <<Len(y)>> \o (y \o s)
  <2>1. FieldThen(x, r) = (<<Len(x)>> \o x) \o r /\ FieldThen(y, s) = (<<Len(y)>> \o y) \o s
    BY Zenon DEF FieldThen, Field
  <2>2. (<<Len(x)>> \o x) \o r = <<Len(x)>> \o (x \o r)
    BY <1>1, Regroup, ZenonT(60)
  <2>3. (<<Len(y)>> \o y) \o s = <<Len(y)>> \o (y \o s)
    BY <1>1, Regroup, ZenonT(60)
  <2> QED
    BY <2>1, <2>2, <2>3, Zenon
<1>4. Len(x) = Len(y)
  BY <1>1, <1>2, <1>3, Heads, Zenon
<1>5. \A t, u, v \in Seq(Nat) : t \o u = t \o v => u = v
  BY ConcatSimplifications, Zenon
<1>6. x \o r = y \o s
  <2>1. <<Len(x)>> \o (x \o r) = <<Len(x)>> \o (y \o s)
    BY <1>3, <1>4, Zenon
  <2>2. <<Len(x)>> \in Seq(Nat) /\ x \o r \in Seq(Nat) /\ y \o s \in Seq(Nat)
    BY <1>1, <1>2, Zenon DEF Bytes
  <2> QED
    BY <1>5, <2>1, <2>2, Zenon
<1>7. x = y
  BY <1>4, <1>6, SameLength, Zenon
<1>8. r = s
  BY <1>5, <1>6, <1>7, Zenon DEF Bytes
<1> QED
  BY <1>7, <1>8

(* A part moves from what precedes to what follows.                        *)
LEMMA Shift ==
    ASSUME NEW h \in Bytes, NEW a \in Bytes, NEW t \in Bytes, NEW g, NEW u, g = h \o a, u = a \o t
    PROVE  g \o t = h \o u
BY Regroup, Zenon

(* Nine parts in a row, and the first of them followed by the rest.        *)
Row(x1, x2, x3, x4, x5, x6, x7, x8, x9) ==
    x1 \o x2 \o x3 \o x4 \o x5 \o x6 \o x7 \o x8 \o x9

Nested(x1, x2, x3, x4, x5, x6, x7, x8, x9) ==
    x1 \o (x2 \o (x3 \o (x4 \o (x5 \o (x6 \o (x7 \o (x8 \o x9)))))))

(* Both are the same.                                                      *)
LEMMA NineGrouped ==
    ASSUME NEW x1, NEW x2, NEW x3, NEW x4, NEW x5, NEW x6, NEW x7, NEW x8, NEW x9,
           {x1, x2, x3, x4, x5, x6, x7, x8, x9} \subseteq Bytes
    PROVE  Row(x1, x2, x3, x4, x5, x6, x7, x8, x9) = Nested(x1, x2, x3, x4, x5, x6, x7, x8, x9)
<1> DEFINE h2 == x1 \o x2
           h3 == h2 \o x3
           h4 == h3 \o x4
           h5 == h4 \o x5
           h6 == h5 \o x6
           h7 == h6 \o x7
           t8 == x8 \o x9
           t7 == x7 \o t8
           t6 == x6 \o t7
           t5 == x5 \o t6
           t4 == x4 \o t5
           t3 == x3 \o t4
<1>0. /\ x1 \in Bytes /\ x2 \in Bytes /\ x3 \in Bytes /\ x4 \in Bytes /\ x5 \in Bytes
      /\ x6 \in Bytes /\ x7 \in Bytes /\ x8 \in Bytes /\ x9 \in Bytes
  OBVIOUS
<1>1. h2 \in Bytes
  BY <1>0, Joined, Zenon
<1>2. h3 \in Bytes
  BY <1>0, <1>1, Joined, Zenon
<1>3. h4 \in Bytes
  BY <1>0, <1>2, Joined, Zenon
<1>4. h5 \in Bytes
  BY <1>0, <1>3, Joined, Zenon
<1>5. h6 \in Bytes
  BY <1>0, <1>4, Joined, Zenon
<1>6. h7 \in Bytes
  BY <1>0, <1>5, Joined, Zenon
<1>7. t8 \in Bytes
  BY <1>0, Joined, Zenon
<1>8. t7 \in Bytes
  BY <1>0, <1>7, Joined, Zenon
<1>9. t6 \in Bytes
  BY <1>0, <1>8, Joined, Zenon
<1>10. t5 \in Bytes
  BY <1>0, <1>9, Joined, Zenon
<1>11. t4 \in Bytes
  BY <1>0, <1>10, Joined, Zenon
<1>12. t3 \in Bytes
  BY <1>0, <1>11, Joined, Zenon
<1> HIDE DEF h2, h3, h4, h5, h6, h7, t8, t7, t6, t5, t4, t3
<1>13. (h7 \o x8) \o x9 = h7 \o t8
  <2>1. t8 = x8 \o x9
    BY DEF t8
  <2> QED
    BY <1>0, <1>6, <2>1, Shift, SMT
<1>14. h7 \o t8 = h6 \o t7
  <2>1. h7 = h6 \o x7 /\ t7 = x7 \o t8
    BY DEF h7, t7
  <2> QED
    BY <1>0, <1>5, <1>7, <2>1, Shift, SMT
<1>15. h6 \o t7 = h5 \o t6
  <2>1. h6 = h5 \o x6 /\ t6 = x6 \o t7
    BY DEF h6, t6
  <2> QED
    BY <1>0, <1>4, <1>8, <2>1, Shift, SMT
<1>16. h5 \o t6 = h4 \o t5
  <2>1. h5 = h4 \o x5 /\ t5 = x5 \o t6
    BY DEF h5, t5
  <2> QED
    BY <1>0, <1>3, <1>9, <2>1, Shift, SMT
<1>17. h4 \o t5 = h3 \o t4
  <2>1. h4 = h3 \o x4 /\ t4 = x4 \o t5
    BY DEF h4, t4
  <2> QED
    BY <1>0, <1>2, <1>10, <2>1, Shift, SMT
<1>18. h3 \o t4 = h2 \o t3
  <2>1. h3 = h2 \o x3 /\ t3 = x3 \o t4
    BY DEF h3, t3
  <2> QED
    BY <1>0, <1>1, <1>11, <2>1, Shift, SMT
<1>19. h2 \o t3 = x1 \o (x2 \o t3)
  <2>1. h2 = x1 \o x2
    BY DEF h2
  <2> QED
    BY <1>0, <1>12, <2>1, Shift, SMT
<1>20. (h7 \o x8) \o x9 = x1 \o (x2 \o t3)
  BY <1>13, <1>14, <1>15, <1>16, <1>17, <1>18, <1>19, Zenon
<1> QED
  BY <1>20, Zenon DEF Row, Nested, h2, h3, h4, h5, h6, h7, t8, t7, t6, t5, t4, t3

(* What is hashed can be read back field by field.                         *)
LEMMA NineFields ==
    ASSUME NEW a1, NEW a2, NEW a3, NEW a4, NEW a5, NEW a6, NEW a7, NEW a8, NEW a9,
           NEW b1, NEW b2, NEW b3, NEW b4, NEW b5, NEW b6, NEW b7, NEW b8, NEW b9
    PROVE  (/\ {a1, a2, a3, a4, a5, a6, a7, a8, a9} \subseteq Bytes
            /\ {b1, b2, b3, b4, b5, b6, b7, b8, b9} \subseteq Bytes
            /\ Row(Field(a1), Field(a2), Field(a3), Field(a4), Field(a5),
                   Field(a6), Field(a7), Field(a8), Field(a9))
               = Row(Field(b1), Field(b2), Field(b3), Field(b4), Field(b5),
                     Field(b6), Field(b7), Field(b8), Field(b9)))
           => /\ a1 = b1 /\ a2 = b2 /\ a3 = b3 /\ a4 = b4 /\ a5 = b5
              /\ a6 = b6 /\ a7 = b7 /\ a8 = b8 /\ a9 = b9
<1> DEFINE A9 == FieldThen(a9, << >>)
           B9 == FieldThen(b9, << >>)
           A8 == FieldThen(a8, A9)
           B8 == FieldThen(b8, B9)
           A7 == FieldThen(a7, A8)
           B7 == FieldThen(b7, B8)
           A6 == FieldThen(a6, A7)
           B6 == FieldThen(b6, B7)
           A5 == FieldThen(a5, A6)
           B5 == FieldThen(b5, B6)
           A4 == FieldThen(a4, A5)
           B4 == FieldThen(b4, B5)
           A3 == FieldThen(a3, A4)
           B3 == FieldThen(b3, B4)
           A2 == FieldThen(a2, A3)
           B2 == FieldThen(b2, B3)
<1>1. ASSUME {a1, a2, a3, a4, a5, a6, a7, a8, a9} \subseteq Bytes,
             {b1, b2, b3, b4, b5, b6, b7, b8, b9} \subseteq Bytes,
             Row(Field(a1), Field(a2), Field(a3), Field(a4), Field(a5),
                 Field(a6), Field(a7), Field(a8), Field(a9))
             = Row(Field(b1), Field(b2), Field(b3), Field(b4), Field(b5),
                   Field(b6), Field(b7), Field(b8), Field(b9))
      PROVE  /\ a1 = b1 /\ a2 = b2 /\ a3 = b3 /\ a4 = b4 /\ a5 = b5
             /\ a6 = b6 /\ a7 = b7 /\ a8 = b8 /\ a9 = b9
  <2>1. a1 \in Bytes /\ b1 \in Bytes
    BY <1>1, Zenon
  <2>2. a2 \in Bytes /\ b2 \in Bytes
    BY <1>1, Zenon
  <2>3. a3 \in Bytes /\ b3 \in Bytes
    BY <1>1, Zenon
  <2>4. a4 \in Bytes /\ b4 \in Bytes
    BY <1>1, Zenon
  <2>5. a5 \in Bytes /\ b5 \in Bytes
    BY <1>1, Zenon
  <2>6. a6 \in Bytes /\ b6 \in Bytes
    BY <1>1, Zenon
  <2>7. a7 \in Bytes /\ b7 \in Bytes
    BY <1>1, Zenon
  <2>8. a8 \in Bytes /\ b8 \in Bytes
    BY <1>1, Zenon
  <2>9. a9 \in Bytes /\ b9 \in Bytes
    BY <1>1, Zenon
  <2>10. Field(a1) \in Bytes /\ Field(b1) \in Bytes
    BY <2>1, FieldIs, Zenon
  <2>11. Field(a2) \in Bytes /\ Field(b2) \in Bytes
    BY <2>2, FieldIs, Zenon
  <2>12. Field(a3) \in Bytes /\ Field(b3) \in Bytes
    BY <2>3, FieldIs, Zenon
  <2>13. Field(a4) \in Bytes /\ Field(b4) \in Bytes
    BY <2>4, FieldIs, Zenon
  <2>14. Field(a5) \in Bytes /\ Field(b5) \in Bytes
    BY <2>5, FieldIs, Zenon
  <2>15. Field(a6) \in Bytes /\ Field(b6) \in Bytes
    BY <2>6, FieldIs, Zenon
  <2>16. Field(a7) \in Bytes /\ Field(b7) \in Bytes
    BY <2>7, FieldIs, Zenon
  <2>17. Field(a8) \in Bytes /\ Field(b8) \in Bytes
    BY <2>8, FieldIs, Zenon
  <2>18. Field(a9) \in Bytes /\ Field(b9) \in Bytes
    BY <2>9, FieldIs, Zenon
  <2>19. << >> \in Bytes
    BY SMT DEF Bytes
  <2>20. A9 \in Bytes /\ B9 \in Bytes
    BY <2>19, <2>18, Joined, Zenon DEF FieldThen
  <2>21. A8 \in Bytes /\ B8 \in Bytes
    BY <2>17, <2>20, Joined, Zenon DEF FieldThen
  <2>22. A7 \in Bytes /\ B7 \in Bytes
    BY <2>16, <2>21, Joined, Zenon DEF FieldThen
  <2>23. A6 \in Bytes /\ B6 \in Bytes
    BY <2>15, <2>22, Joined, Zenon DEF FieldThen
  <2>24. A5 \in Bytes /\ B5 \in Bytes
    BY <2>14, <2>23, Joined, Zenon DEF FieldThen
  <2>25. A4 \in Bytes /\ B4 \in Bytes
    BY <2>13, <2>24, Joined, Zenon DEF FieldThen
  <2>26. A3 \in Bytes /\ B3 \in Bytes
    BY <2>12, <2>25, Joined, Zenon DEF FieldThen
  <2>27. A2 \in Bytes /\ B2 \in Bytes
    BY <2>11, <2>26, Joined, Zenon DEF FieldThen
  <2>28. A9 = Field(a9) /\ B9 = Field(b9)
    <3>1. Field(a9) \in Seq(Nat) /\ Field(b9) \in Seq(Nat)
      BY <2>18 DEF Bytes
    <3> QED
      BY <3>1, ConcatEmptySeq, Zenon DEF FieldThen
  <2>29. /\ Field(a1) \in Bytes /\ Field(a2) \in Bytes /\ Field(a3) \in Bytes
        /\ Field(a4) \in Bytes /\ Field(a5) \in Bytes /\ Field(a6) \in Bytes
        /\ Field(a7) \in Bytes /\ Field(a8) \in Bytes /\ Field(a9) \in Bytes
    BY <2>10, <2>11, <2>12, <2>13, <2>14, <2>15, <2>16, <2>17, <2>18, Zenon
  <2>30. /\ Field(b1) \in Bytes /\ Field(b2) \in Bytes /\ Field(b3) \in Bytes
        /\ Field(b4) \in Bytes /\ Field(b5) \in Bytes /\ Field(b6) \in Bytes
        /\ Field(b7) \in Bytes /\ Field(b8) \in Bytes /\ Field(b9) \in Bytes
    BY <2>10, <2>11, <2>12, <2>13, <2>14, <2>15, <2>16, <2>17, <2>18, Zenon
  <2>31. Row(Field(a1), Field(a2), Field(a3), Field(a4), Field(a5),
            Field(a6), Field(a7), Field(a8), Field(a9))
        = Nested(Field(a1), Field(a2), Field(a3), Field(a4), Field(a5),
                 Field(a6), Field(a7), Field(a8), Field(a9))
    BY <2>29, NineGrouped
  <2>32. Row(Field(b1), Field(b2), Field(b3), Field(b4), Field(b5),
            Field(b6), Field(b7), Field(b8), Field(b9))
        = Nested(Field(b1), Field(b2), Field(b3), Field(b4), Field(b5),
                 Field(b6), Field(b7), Field(b8), Field(b9))
    BY <2>30, NineGrouped
  <2>33. FieldThen(a1, A2) = FieldThen(b1, B2)
    BY <1>1, <2>28, <2>31, <2>32, Zenon DEF FieldThen, Nested
  <2> HIDE DEF A2, B2, A3, B3, A4, B4, A5, B5, A6, B6, A7, B7, A8, B8, A9, B9
  <2>34. a1 = b1 /\ A2 = B2
    BY <2>1, <2>27, <2>33, Peel, SMT
  <2>35. a2 = b2 /\ A3 = B3
    <3>1. FieldThen(a2, A3) = FieldThen(b2, B3)
      BY <2>34, Zenon DEF A2, B2
    <3> QED
      BY <2>2, <2>26, <3>1, Peel, SMT
  <2>36. a3 = b3 /\ A4 = B4
    <3>1. FieldThen(a3, A4) = FieldThen(b3, B4)
      BY <2>35, Zenon DEF A3, B3
    <3> QED
      BY <2>3, <2>25, <3>1, Peel, SMT
  <2>37. a4 = b4 /\ A5 = B5
    <3>1. FieldThen(a4, A5) = FieldThen(b4, B5)
      BY <2>36, Zenon DEF A4, B4
    <3> QED
      BY <2>4, <2>24, <3>1, Peel, SMT
  <2>38. a5 = b5 /\ A6 = B6
    <3>1. FieldThen(a5, A6) = FieldThen(b5, B6)
      BY <2>37, Zenon DEF A5, B5
    <3> QED
      BY <2>5, <2>23, <3>1, Peel, SMT
  <2>39. a6 = b6 /\ A7 = B7
    <3>1. FieldThen(a6, A7) = FieldThen(b6, B7)
      BY <2>38, Zenon DEF A6, B6
    <3> QED
      BY <2>6, <2>22, <3>1, Peel, SMT
  <2>40. a7 = b7 /\ A8 = B8
    <3>1. FieldThen(a7, A8) = FieldThen(b7, B8)
      BY <2>39, Zenon DEF A7, B7
    <3> QED
      BY <2>7, <2>21, <3>1, Peel, SMT
  <2>41. a8 = b8 /\ A9 = B9
    <3>1. FieldThen(a8, A9) = FieldThen(b8, B9)
      BY <2>40, Zenon DEF A8, B8
    <3> QED
      BY <2>8, <2>20, <3>1, Peel, SMT
  <2>42. a9 = b9
    <3>1. FieldThen(a9, << >>) = FieldThen(b9, << >>)
      BY <2>41, Zenon DEF A9, B9
    <3> QED
      BY <2>9, <2>19, <3>1, Peel, SMT
  <2> QED
    BY <2>34, <2>35, <2>36, <2>37, <2>38, <2>39, <2>40, <2>41, <2>42, Zenon
<1> QED
  BY <1>1, Zenon

(* The fingerprint tells any two envelopes apart exactly when they differ  *)
(* in more than the attempt: no byte can move from one field to the next   *)
(* unnoticed, and no correlation passes for none (envelope.rs:189-214).    *)
THEOREM FingerprintsAreFaithful ==
    ASSUME NEW envelopes \in SUBSET {e \in EnvelopeType : Correlates(e)}
    PROVE  Separates(envelopes)
<1> DEFINE hashed(e) == IF e.correlation = {} THEN << >> ELSE CHOOSE c \in e.correlation : TRUE
<1>1. ASSUME NEW e \in envelopes
      PROVE  /\ e.cluster \in Bytes /\ e.source \in Bytes /\ e.destination \in Bytes
             /\ e.message \in Bytes /\ e.protocol \in Bytes /\ e.type \in Bytes
             /\ <<e.schema>> \in Bytes /\ e.payload \in Bytes
             /\ e.correlation \in SUBSET Bytes /\ Correlates(e)
  BY DEF EnvelopeType, Bytes
<1>2. ASSUME NEW e \in envelopes
      PROVE  /\ hashed(e) \in Bytes
             /\ e.correlation = IF hashed(e) = << >> THEN {} ELSE {hashed(e)}
  <2>1. CASE e.correlation = {}
    BY <2>1 DEF Bytes
  <2>2. CASE e.correlation # {}
    <3>1. PICK c \in e.correlation : e.correlation = {c} /\ IsOpaque(c)
      BY <1>1, <2>2 DEF Correlates
    <3>2. hashed(e) = c
      BY <2>2, <3>1
    <3>3. c \in Bytes /\ c # << >>
      BY <1>1, <3>1, LengthsAssumption DEF IsOpaque, Bytes
    <3> QED
      BY <3>1, <3>2, <3>3
  <2> QED
    BY <2>1, <2>2
<1>3. \A e : Fingerprint(e) =
         Row(Field(e.cluster), Field(e.source), Field(e.destination), Field(e.message),
             Field(hashed(e)), Field(e.protocol), Field(e.type), Field(<<e.schema>>),
             Field(e.payload))
  BY Zenon DEF Fingerprint, Row
<1> HIDE DEF hashed
<1>4. ASSUME NEW e \in envelopes, NEW f \in envelopes, Fingerprint(e) = Fingerprint(f)
      PROVE  SameContents(e, f)
  <2>1. /\ {e.cluster, e.source, e.destination, e.message, hashed(e), e.protocol,
            e.type, <<e.schema>>, e.payload} \subseteq Bytes
        /\ {f.cluster, f.source, f.destination, f.message, hashed(f), f.protocol,
            f.type, <<f.schema>>, f.payload} \subseteq Bytes
    BY <1>1, <1>2
  <2>2. Row(Field(e.cluster), Field(e.source), Field(e.destination), Field(e.message),
            Field(hashed(e)), Field(e.protocol), Field(e.type), Field(<<e.schema>>),
            Field(e.payload))
        = Row(Field(f.cluster), Field(f.source), Field(f.destination), Field(f.message),
              Field(hashed(f)), Field(f.protocol), Field(f.type), Field(<<f.schema>>),
              Field(f.payload))
    BY <1>3, <1>4
  <2>3. /\ e.cluster = f.cluster /\ e.source = f.source /\ e.destination = f.destination
        /\ e.message = f.message /\ hashed(e) = hashed(f) /\ e.protocol = f.protocol
        /\ e.type = f.type /\ <<e.schema>> = <<f.schema>> /\ e.payload = f.payload
    BY <2>1, <2>2, NineFields
  <2>4. e.schema = f.schema
    BY <2>3
  <2>5. e.correlation = f.correlation
    BY <1>2, <2>3
  <2> QED
    BY <2>3, <2>4, <2>5 DEF SameContents
<1>5. ASSUME NEW e \in envelopes, NEW f \in envelopes, SameContents(e, f)
      PROVE  Fingerprint(e) = Fingerprint(f)
  BY <1>5 DEF SameContents, Fingerprint
<1> QED
  BY <1>4, <1>5 DEF Separates

(* The service boundary is faithful for every wire form and every message  *)
(* limit: what it accepts it sends on unchanged, and the next node accepts *)
(* that as the same envelope (into_core, from_core of iron-grpc).          *)
THEOREM WireFormIsFaithful ==
    ASSUME NEW limit
    PROVE  RoundTrips(WireType, limit)
<1> SUFFICES ASSUME NEW w \in WireType, NEW e \in IntoCore(w, limit)
             PROVE  FromCore(e) = w /\ Delivered(e, limit) = {e}
  BY DEF RoundTrips
<1>1. Converts(w) /\ w.version = V1 /\ e = FieldsOf(w) /\ Len(e.payload) <= limit
  BY DEF IntoCore, TryFromVersion, NewV1
<1>2. FromCore(e) = w
  BY <1>1 DEF WireType, FieldsOf, FromCore
<1>3. Delivered(e, limit) = {e}
  BY <1>1, <1>2 DEF Delivered, IntoCore, TryFromVersion, NewV1
<1> QED
  BY <1>2, <1>3

---------------------------------------------------------------------------
(* The member map's order, and the loop over it.                           *)

(* a comes before b because of their i-th byte, or because a has none.     *)
Precedes(a, b, i) ==
    /\ i \in 1 .. Len(b) /\ i <= Len(a) + 1
    /\ \A j \in 1 .. i - 1 : a[j] = b[j]
    /\ i <= Len(a) => a[i] < b[i]

LEMMA BeforeIs ==
    ASSUME NEW a \in Bytes, NEW b \in Bytes
    PROVE  Before(a, b) <=> \E i \in Nat : Precedes(a, b, i)
<1>1. /\ DOMAIN a = 1 .. Len(a) /\ Len(a) \in Nat /\ DOMAIN b = 1 .. Len(b) /\ Len(b) \in Nat
      /\ \A i \in DOMAIN a : a[i] \in Nat
      /\ \A i \in DOMAIN b : b[i] \in Nat
  BY DEF Bytes
<1>2. ASSUME Len(a) < Len(b), SubSeq(b, 1, Len(a)) = a
      PROVE  Precedes(a, b, Len(a) + 1)
  <2>1. \A j \in 1 .. Len(a) : SubSeq(b, 1, Len(a))[j] = b[j]
    BY <1>1 DEF Bytes
  <2> QED
    BY <1>1, <1>2, <2>1 DEF Precedes
<1>3. ASSUME NEW i \in DOMAIN a \cap DOMAIN b,
             a[i] < b[i], SubSeq(a, 1, i - 1) = SubSeq(b, 1, i - 1)
      PROVE  Precedes(a, b, i)
  <2>1. \A j \in 1 .. i - 1 : SubSeq(a, 1, i - 1)[j] = a[j] /\ SubSeq(b, 1, i - 1)[j] = b[j]
    BY <1>1 DEF Bytes
  <2> QED
    BY <1>1, <1>3, <2>1 DEF Precedes
<1>4. ASSUME NEW i \in Nat, Precedes(a, b, i)
      PROVE  Before(a, b)
  <2>1. CASE i = Len(a) + 1
    <3>1. SubSeq(b, 1, Len(a)) = [j \in 1 .. Len(a) |-> b[j]]
      BY <1>1, <1>4, <2>1 DEF Bytes, Precedes
    <3>2. a = [j \in 1 .. Len(a) |-> a[j]]
      BY <1>1 DEF Bytes
    <3>3. \A j \in 1 .. Len(a) : a[j] = b[j]
      BY <1>1, <1>4, <2>1 DEF Precedes
    <3> QED
      BY <1>1, <1>4, <2>1, <3>1, <3>2, <3>3 DEF Before, Precedes
  <2>2. CASE i <= Len(a)
    <3>1. /\ SubSeq(a, 1, i - 1) = [j \in 1 .. i - 1 |-> a[j]]
          /\ SubSeq(b, 1, i - 1) = [j \in 1 .. i - 1 |-> b[j]]
      BY <1>1, <1>4, <2>2 DEF Bytes, Precedes
    <3>2. SubSeq(a, 1, i - 1) = SubSeq(b, 1, i - 1)
      BY <1>4, <3>1 DEF Precedes
    <3> QED
      BY <1>1, <1>4, <2>2, <3>2 DEF Before, Precedes
  <2> QED
    BY <1>1, <1>4, <2>1, <2>2 DEF Precedes
<1> QED
  BY <1>1, <1>2, <1>3, <1>4 DEF Before

(* Before is a strict total order.                                         *)
LEMMA BeforeIsStrict ==
    ASSUME NEW a \in Bytes
    PROVE  ~Before(a, a)
BY BeforeIs DEF Precedes, Bytes

LEMMA BeforeIsTransitive ==
    ASSUME NEW a \in Bytes, NEW b \in Bytes, NEW c \in Bytes, Before(a, b), Before(b, c)
    PROVE  Before(a, c)
<1>1. PICK i \in Nat : Precedes(a, b, i)
  BY BeforeIs
<1>2. PICK k \in Nat : Precedes(b, c, k)
  BY BeforeIs
<1>3. /\ Len(a) \in Nat /\ Len(b) \in Nat /\ Len(c) \in Nat
      /\ \A j \in 1 .. Len(a) : a[j] \in Nat
      /\ \A j \in 1 .. Len(b) : b[j] \in Nat
      /\ \A j \in 1 .. Len(c) : c[j] \in Nat
  BY DEF Bytes
<1>4. CASE i < k
  BY <1>1, <1>2, <1>3, <1>4, BeforeIs DEF Precedes
<1>5. CASE k < i
  BY <1>1, <1>2, <1>3, <1>5, BeforeIs DEF Precedes
<1>6. CASE k = i
  BY <1>1, <1>2, <1>3, <1>6, BeforeIs DEF Precedes
<1> QED
  BY <1>4, <1>5, <1>6

LEMMA BeforeIsTotal ==
    ASSUME NEW a \in Bytes, NEW b \in Bytes, a # b
    PROVE  Before(a, b) \/ Before(b, a)
<1>1. /\ Len(a) \in Nat /\ Len(b) \in Nat
      /\ \A j \in 1 .. Len(a) : a[j] \in Nat
      /\ \A j \in 1 .. Len(b) : b[j] \in Nat
  BY DEF Bytes
<1> DEFINE Differ == {i \in Nat \ {0} :
                         \/ i = Len(a) + 1 \/ i = Len(b) + 1
                         \/ i <= Len(a) /\ i <= Len(b) /\ a[i] # b[i]}
<1>2. Len(a) + 1 \in Differ
  BY <1>1
<1>3. PICK i \in Differ : \A j \in Differ : i <= j
  <2> HIDE DEF Differ
  <2>1. Differ \in SUBSET Nat
    BY DEF Differ
  <2> QED
    BY <1>2, <2>1, LeastExists
<1>4. /\ i \in Nat \ {0} /\ i <= Len(a) + 1 /\ i <= Len(b) + 1
      /\ \A j \in 1 .. i - 1 : a[j] = b[j]
  BY <1>1, <1>3
<1>5. ~(i = Len(a) + 1 /\ i = Len(b) + 1)
  <2> SUFFICES ASSUME i = Len(a) + 1, i = Len(b) + 1 PROVE FALSE
    OBVIOUS
  <2>1. Len(a) = Len(b) /\ \A j \in 1 .. Len(a) : a[j] = b[j]
    BY <1>1, <1>4
  <2>2. a = [j \in 1 .. Len(a) |-> a[j]] /\ b = [j \in 1 .. Len(b) |-> b[j]]
    BY DEF Bytes
  <2> QED
    BY <2>1, <2>2
<1>6. Precedes(a, b, i) \/ Precedes(b, a, i)
  BY <1>1, <1>3, <1>4, <1>5 DEF Precedes
<1> QED
  BY <1>4, <1>6, BeforeIs

(* A finite set of byte sequences has a last one.                          *)
LEMMA LastExists ==
    ASSUME NEW S \in SUBSET Bytes, IsFiniteSet(S), S # {}
    PROVE  \E m \in S : \A x \in S : x = m \/ Before(x, m)
<1> DEFINE HasLast(T) == \E m \in T : \A x \in T : x = m \/ Before(x, m)
           Sized(n) == {T \in SUBSET Bytes : IsFiniteSet(T) /\ T # {} /\ Cardinality(T) = n}
           Bad == {n \in Nat : \E T \in Sized(n) : ~HasLast(T)}
<1>1. Cardinality(S) \in Nat /\ S \in Sized(Cardinality(S))
  BY FS_CardinalityType
<1>2. Bad = {}
  <2> SUFFICES ASSUME Bad # {} PROVE FALSE
    OBVIOUS
  <2>1. PICK n \in Bad : \A k \in Bad : n <= k
    <3>1. Bad \in SUBSET Nat
      OBVIOUS
    <3> HIDE DEF Bad
    <3> QED
      BY <3>1, LeastExists
  <2>2. PICK T \in Sized(n) : ~HasLast(T)
    OBVIOUS
  <2>3. PICK x \in T : TRUE
    OBVIOUS
  <2> DEFINE U == T \ {x}
  <2>4. IsFiniteSet(U) /\ Cardinality(U) = n - 1 /\ n \in Nat
    BY FS_RemoveElement
  <2>5. Cardinality(U) \in Nat
    BY <2>4, FS_CardinalityType
  <2>6. CASE U = {}
    BY <2>2, <2>3, <2>6
  <2>7. CASE U # {}
    <3>1. U \in Sized(n - 1)
      BY <2>4, <2>7
    <3>2. n - 1 \notin Bad
      BY <2>1, <2>4
    <3>3. HasLast(U)
      BY <2>4, <2>5, <3>1, <3>2
    <3>4. PICK m \in U : \A y \in U : y = m \/ Before(y, m)
      BY <3>3
    <3>5. CASE Before(x, m)
      <4>1. \A y \in T : y = m \/ Before(y, m)
        BY <3>4, <3>5
      <4> QED
        BY <2>2, <4>1
    <3>6. CASE Before(m, x)
      <4>1. \A y \in T : y = x \/ Before(y, x)
        BY <3>4, <3>6, BeforeIsTransitive
      <4> QED
        BY <2>2, <2>3, <4>1
    <3> QED
      BY <2>3, <3>4, <3>5, <3>6, BeforeIsTotal
  <2> QED
    BY <2>6, <2>7
<1> QED
  BY <1>1, <1>2

(* A sequence in strict order.                                             *)
Sorted(s, n) == \A i, j \in 1 .. n : i < j => Before(s[i], s[j])

LEMMA OrderExists ==
    ASSUME NEW S \in SUBSET Bytes, IsFiniteSet(S)
    PROVE  \E s \in [1 .. Cardinality(S) -> S] : Sorted(s, Cardinality(S))
<1> DEFINE HasOrder(T) == \E s \in [1 .. Cardinality(T) -> T] : Sorted(s, Cardinality(T))
           Sized(n) == {T \in SUBSET Bytes : IsFiniteSet(T) /\ Cardinality(T) = n}
           Bad == {n \in Nat : \E T \in Sized(n) : ~HasOrder(T)}
<1>1. Cardinality(S) \in Nat /\ S \in Sized(Cardinality(S))
  BY FS_CardinalityType
<1>2. Bad = {}
  <2> SUFFICES ASSUME Bad # {} PROVE FALSE
    OBVIOUS
  <2>1. PICK n \in Bad : \A k \in Bad : n <= k
    <3>1. Bad \in SUBSET Nat
      OBVIOUS
    <3> HIDE DEF Bad
    <3> QED
      BY <3>1, LeastExists
  <2>2. PICK T \in Sized(n) : ~HasOrder(T)
    OBVIOUS
  <2>3. n \in Nat /\ IsFiniteSet(T) /\ Cardinality(T) = n /\ T \in SUBSET Bytes
    OBVIOUS
  <2>4. CASE T = {}
    <3>1. n = 0
      BY <2>3, <2>4, FS_EmptySet
    <3>2. [i \in 1 .. 0 |-> i] \in [1 .. n -> T] /\ Sorted([i \in 1 .. 0 |-> i], n)
      BY <3>1 DEF Sorted
    <3> QED
      BY <2>2, <2>3, <3>2
  <2>5. CASE T # {}
    <3>1. PICK m \in T : \A x \in T : x = m \/ Before(x, m)
      BY <2>3, <2>5, LastExists
    <3> DEFINE U == T \ {m}
    <3>2. IsFiniteSet(U) /\ Cardinality(U) = n - 1
      BY <2>3, FS_RemoveElement
    <3>3. n - 1 \in Nat
      BY <3>2, FS_CardinalityType
    <3>4. HasOrder(U)
      <4>1. n - 1 \notin Bad
        BY <2>1, <2>3
      <4> QED
        BY <2>3, <3>2, <3>3, <4>1
    <3>5. PICK s \in [1 .. n - 1 -> U] : Sorted(s, n - 1)
      BY <3>2, <3>4
    <3> DEFINE t == [i \in 1 .. n |-> IF i = n THEN m ELSE s[i]]
    <3>6. t \in [1 .. n -> T]
      BY <2>3, <3>1, <3>3
    <3>7. Sorted(t, n)
      <4> SUFFICES ASSUME NEW i \in 1 .. n, NEW j \in 1 .. n, i < j
                   PROVE  Before(t[i], t[j])
        BY DEF Sorted
      <4>1. i \in 1 .. n - 1 /\ t[i] = s[i] /\ s[i] \in U
        BY <2>3
      <4>2. CASE j = n
        BY <3>1, <4>1, <4>2
      <4>3. CASE j # n
        BY <2>3, <3>5, <4>1, <4>3 DEF Sorted
      <4> QED
        BY <4>2, <4>3
    <3> QED
      BY <2>2, <2>3, <3>6, <3>7
  <2> QED
    BY <2>4, <2>5
<1> QED
  BY <1>1, <1>2

(* The map's order visits every name once.                                 *)
LEMMA InOrderIs ==
    ASSUME NEW S \in SUBSET Bytes, IsFiniteSet(S)
    PROVE  /\ Cardinality(S) \in Nat
           /\ InOrder(S) \in [1 .. Cardinality(S) -> S]
           /\ \A i, j \in 1 .. Cardinality(S) : i # j => InOrder(S)[i] # InOrder(S)[j]
           /\ \A x \in S : \E i \in 1 .. Cardinality(S) : InOrder(S)[i] = x
<1> DEFINE n == Cardinality(S)
           s == InOrder(S)
<1>1. n \in Nat
  BY FS_CardinalityType
<1>2. PICK t \in [1 .. n -> S] : Sorted(t, n)
  BY OrderExists
<1>3. \A i, j \in DOMAIN t : i < j => Before(t[i], t[j])
  BY <1>2 DEF Sorted
<1>4. s \in [1 .. n -> S] /\ \A i, j \in DOMAIN s : i < j => Before(s[i], s[j])
  BY <1>2, <1>3 DEF InOrder
<1> HIDE DEF n, s
<1>5. ASSUME NEW i \in 1 .. n, NEW j \in 1 .. n, i # j
      PROVE  s[i] # s[j]
  <2>1. i < j \/ j < i
    BY <1>1, <1>5
  <2>2. Before(s[i], s[j]) \/ Before(s[j], s[i])
    BY <1>4, <2>1
  <2> QED
    BY <1>4, <2>2, BeforeIsStrict
<1>6. s \in Injection(1 .. n, S)
  BY <1>4, <1>5 DEF Injection, IsInjective
<1>7. Cardinality(1 .. n) = Cardinality(S)
  BY <1>1, FS_Interval DEF n
<1>8. s \in Surjection(1 .. n, S)
  BY <1>6, <1>7, FS_Injection
<1> QED
  BY <1>1, <1>4, <1>5, <1>8 DEF Surjection, n, s

Start == [kept |-> {}, seen |-> {}, faults |-> {}]

(* What the loop computes, where it computes anything.                     *)
IsLoop(judged, names, members, n) ==
    judged = [i \in 0 .. n |->
                 IF i = 0 THEN Start ELSE Judge(names, members, judged[i - 1], i)]

(* The loop has a result, whatever the map.                                *)
LEMMA LoopExists ==
    ASSUME NEW names, NEW members, NEW n \in Nat
    PROVE  \E judged : IsLoop(judged, names, members, n)
<1> DEFINE Bad == {k \in Nat : ~ \E judged : IsLoop(judged, names, members, k)}
<1> SUFFICES ASSUME Bad # {} PROVE FALSE
  OBVIOUS
<1>1. PICK k \in Bad : \A j \in Bad : k <= j
  <2>1. Bad \in SUBSET Nat
    OBVIOUS
  <2> HIDE DEF Bad
  <2> QED
    BY <2>1, LeastExists
<1>2. k # 0
  <2>1. IsLoop([i \in 0 .. 0 |-> Start], names, members, 0)
    BY DEF IsLoop
  <2> QED
    BY <1>1, <2>1
<1>3. k - 1 \in Nat /\ k - 1 \notin Bad
  BY <1>1, <1>2
<1>4. PICK judged : IsLoop(judged, names, members, k - 1)
  BY <1>3
<1> DEFINE next == [i \in 0 .. k |->
                       IF i = k THEN Judge(names, members, judged[k - 1], k) ELSE judged[i]]
<1>5. \A i \in 0 .. k : next[i] = IF i = 0 THEN Start ELSE Judge(names, members, next[i - 1], i)
  <2> SUFFICES ASSUME NEW i \in 0 .. k
               PROVE  next[i] = IF i = 0 THEN Start ELSE Judge(names, members, next[i - 1], i)
    OBVIOUS
  <2>1. CASE i = k
    <3>1. next[i - 1] = judged[k - 1] /\ next[i] = Judge(names, members, judged[k - 1], k)
      BY <1>3, <2>1
    <3> QED
      BY <1>2, <2>1, <3>1
  <2>2. CASE i # k
    <3>1. i \in 0 .. k - 1 /\ next[i] = judged[i] /\ (i # 0 => next[i - 1] = judged[i - 1])
      BY <1>3, <2>2
    <3>2. judged[i] = IF i = 0 THEN Start ELSE Judge(names, members, judged[i - 1], i)
      BY <1>4, <3>1 DEF IsLoop
    <3> QED
      BY <3>1, <3>2
  <2> QED
    BY <2>1, <2>2
<1>6. IsLoop(next, names, members, k)
  <2>1. next = [i \in 0 .. k |-> next[i]]
    OBVIOUS
  <2> HIDE DEF next
  <2>2. next = [i \in 0 .. k |-> IF i = 0 THEN Start ELSE Judge(names, members, next[i - 1], i)]
    BY <1>5, <2>1
  <2> QED
    BY <2>2 DEF IsLoop
<1> QED
  BY <1>1, <1>6

LEMMA JudgedIs ==
    ASSUME NEW members, Cardinality(DOMAIN members) \in Nat
    PROVE  IsLoop(Judged(members), InOrder(DOMAIN members), members, Cardinality(DOMAIN members))
<1> DEFINE names == InOrder(DOMAIN members)
           n == Cardinality(DOMAIN members)
<1>1. \E judged : judged = [i \in 0 .. n |->
                       IF i = 0 THEN Start ELSE Judge(names, members, judged[i - 1], i)]
  <2>1. \E judged : IsLoop(judged, names, members, n)
    <3> HIDE DEF names
    <3> QED
      BY LoopExists
  <2> QED
    BY <2>1 DEF IsLoop
<1>2. Judged(members) =
         CHOOSE judged : judged = [i \in 0 .. n |->
             IF i = 0 THEN Start ELSE Judge(names, members, judged[i - 1], i)]
  BY DEF Judged, Start
<1> HIDE DEF names, n
<1>3. Judged(members) = [i \in 0 .. n |->
         IF i = 0 THEN Start ELSE Judge(names, members, Judged(members)[i - 1], i)]
  BY <1>1, <1>2
<1> QED
  BY <1>3 DEF IsLoop, names, n

(* What a round reports, given the canonical texts seen before it.         *)
RoundFaults(names, members, seen, i) ==
    Unless(IsNodeId(names[i]), "members.node_id", i, "invalid_node_id")
        \cup AtEndpoint(members[names[i]], "members.endpoint", i)
        \cup Unless(EndpointFault(members[names[i]]) = {}
                       => members[names[i]].canonical \notin seen,
                    "members.endpoint", i, "duplicate_endpoint")

SoundRounds(names, members, i) ==
    {j \in 1 .. i : EndpointFault(members[names[j]]) = {}}

KeptBy(names, members, i) ==
    {names[j] : j \in {k \in SoundRounds(names, members, i) : IsNodeId(names[k])}}

SeenBy(names, members, i) ==
    {members[names[j]].canonical : j \in SoundRounds(names, members, i)}

FaultsBy(names, members, i) ==
    UNION {RoundFaults(names, members, SeenBy(names, members, j - 1), j) : j \in 1 .. i}

(* What one more round adds.                                               *)
LEMMA OneMoreRound ==
    ASSUME NEW names, NEW members, NEW i \in Nat \ {0}
    PROVE  LET name == names[i]
               url == members[name]
               sound == EndpointFault(url) = {}
           IN  /\ KeptBy(names, members, i) = KeptBy(names, members, i - 1)
                      \cup (IF IsNodeId(name) /\ sound THEN {name} ELSE {})
               /\ SeenBy(names, members, i) = SeenBy(names, members, i - 1)
                      \cup (IF sound THEN {url.canonical} ELSE {})
               /\ FaultsBy(names, members, i) = FaultsBy(names, members, i - 1)
                      \cup RoundFaults(names, members, SeenBy(names, members, i - 1), i)
<1> DEFINE name == names[i]
           url == members[name]
           sound == EndpointFault(url) = {}
<1>1. 1 .. i = (1 .. i - 1) \cup {i}
  OBVIOUS
<1>2. SoundRounds(names, members, i) =
         SoundRounds(names, members, i - 1) \cup (IF sound THEN {i} ELSE {})
  BY <1>1 DEF SoundRounds
<1>3. KeptBy(names, members, i) =
         KeptBy(names, members, i - 1) \cup (IF IsNodeId(name) /\ sound THEN {name} ELSE {})
  BY <1>2 DEF KeptBy
<1>4. SeenBy(names, members, i) =
         SeenBy(names, members, i - 1) \cup (IF sound THEN {url.canonical} ELSE {})
  BY <1>2 DEF SeenBy
<1>5. FaultsBy(names, members, i) = FaultsBy(names, members, i - 1)
         \cup RoundFaults(names, members, SeenBy(names, members, i - 1), i)
  BY <1>1 DEF FaultsBy
<1> QED
  BY <1>3, <1>4, <1>5

(* The loop's invariant: after i rounds it has kept, seen and reported     *)
(* what the first i members call for.                                      *)
LEMMA LoopInvariant ==
    ASSUME NEW names, NEW members, NEW n \in Nat, NEW judged,
           IsLoop(judged, names, members, n)
    PROVE  \A i \in 0 .. n :
               judged[i] = [kept |-> KeptBy(names, members, i),
                            seen |-> SeenBy(names, members, i),
                            faults |-> FaultsBy(names, members, i)]
<1> DEFINE Right(i) == judged[i] = [kept |-> KeptBy(names, members, i),
                                    seen |-> SeenBy(names, members, i),
                                    faults |-> FaultsBy(names, members, i)]
           Bad == {i \in 0 .. n : ~Right(i)}
<1> SUFFICES ASSUME Bad # {} PROVE FALSE
  OBVIOUS
<1>1. PICK i \in Bad : \A j \in Bad : i <= j
  <2>1. Bad \in SUBSET Nat
    OBVIOUS
  <2> HIDE DEF Bad
  <2> QED
    BY <2>1, LeastExists
<1>2. CASE i = 0
  <2>1. judged[0] = Start
    BY DEF IsLoop
  <2>2. SoundRounds(names, members, 0) = {} /\ 1 .. 0 = {}
    BY DEF SoundRounds
  <2>3. Right(0)
    BY <2>1, <2>2 DEF Start, KeptBy, SeenBy, FaultsBy
  <2> QED
    BY <1>1, <1>2, <2>3
<1>3. CASE i # 0
  <2>1. i \in Nat \ {0} /\ i - 1 \in 0 .. n /\ Right(i - 1)
    BY <1>1, <1>3
  <2> HIDE DEF Bad
  <2>2. judged[i] = Judge(names, members, judged[i - 1], i)
    BY <1>1, <1>3 DEF IsLoop, Bad
  <2>3. /\ judged[i - 1].kept = KeptBy(names, members, i - 1)
        /\ judged[i - 1].seen = SeenBy(names, members, i - 1)
        /\ judged[i - 1].faults = FaultsBy(names, members, i - 1)
    BY <2>1
  <2> HIDE DEF Right
  <2>4. ASSUME NEW sofar
        PROVE  Judge(names, members, sofar, i) =
          [kept |-> sofar.kept \cup (IF IsNodeId(names[i]) /\ EndpointFault(members[names[i]]) = {}
                                     THEN {names[i]} ELSE {}),
           seen |-> sofar.seen \cup (IF EndpointFault(members[names[i]]) = {}
                                     THEN {members[names[i]].canonical} ELSE {}),
           faults |-> sofar.faults \cup RoundFaults(names, members, sofar.seen, i)]
    <3>1. ASSUME NEW A, NEW B, NEW C, NEW D
          PROVE  A \cup B \cup C \cup D = A \cup (B \cup C \cup D)
      OBVIOUS
    <3> QED
      BY <3>1, Zenon DEF Judge, RoundFaults
  <2>5. judged[i] = [kept |-> KeptBy(names, members, i),
                     seen |-> SeenBy(names, members, i),
                     faults |-> FaultsBy(names, members, i)]
    <3>1. /\ KeptBy(names, members, i) = judged[i - 1].kept
                \cup (IF IsNodeId(names[i]) /\ EndpointFault(members[names[i]]) = {}
                      THEN {names[i]} ELSE {})
          /\ SeenBy(names, members, i) = judged[i - 1].seen
                \cup (IF EndpointFault(members[names[i]]) = {}
                      THEN {members[names[i]].canonical} ELSE {})
          /\ FaultsBy(names, members, i) = judged[i - 1].faults
                \cup RoundFaults(names, members, judged[i - 1].seen, i)
      BY <2>1, <2>3, OneMoreRound
    <3> QED
      BY <2>2, <2>4, <3>1
  <2>6. Right(i)
    BY <2>5 DEF Right
  <2> QED
    BY <1>1, <2>6 DEF Bad
<1> QED
  BY <1>2, <1>3

(* A refused endpoint has a code of its own.                               *)
LEMMA EndpointCodes ==
    ASSUME NEW url, NEW code \in EndpointFault(url)
    PROVE  code # "duplicate_endpoint" /\ code # "missing_local_node"
<1>1. PICK i \in DOMAIN EndpointRules(url) : code = EndpointRules(url)[i][2]
  BY DEF EndpointFault
<1> QED
  BY <1>1 DEF EndpointRules

LEMMA UnlessIs ==
    ASSUME NEW ok, NEW field, NEW index, NEW code
    PROVE  /\ \A f \in Unless(ok, field, index, code) : f.code = code
           /\ Unless(ok, field, index, code) = {} <=> ok
<1>1. Fault(field, index, code).code = code
  BY DEF Fault
<1>2. CASE ok
  <2>1. Unless(ok, field, index, code) = {}
    BY <1>2 DEF Unless
  <2> QED
    BY <1>2, <2>1
<1>3. CASE ~ok
  <2>1. Unless(ok, field, index, code) = {Fault(field, index, code)}
    BY <1>3 DEF Unless
  <2> QED
    BY <1>1, <1>3, <2>1
<1> QED
  BY <1>2, <1>3

LEMMA AtEndpointIs ==
    ASSUME NEW url, NEW field, NEW index
    PROVE  /\ \A f \in AtEndpoint(url, field, index) :
                 f.code # "duplicate_endpoint" /\ f.code # "missing_local_node"
           /\ AtEndpoint(url, field, index) = {} <=> EndpointFault(url) = {}
<1>1. \A code : Fault(field, index, code).code = code
  BY DEF Fault
<1>2. \A f \in AtEndpoint(url, field, index) :
         f.code # "duplicate_endpoint" /\ f.code # "missing_local_node"
  BY <1>1, EndpointCodes DEF AtEndpoint
<1>3. AtEndpoint(url, field, index) = {} <=> EndpointFault(url) = {}
  BY Zenon DEF AtEndpoint
<1> QED
  BY <1>2, <1>3

(* The codes of one round's faults.                                        *)
LEMMA RoundCodes ==
    ASSUME NEW names, NEW members, NEW seen, NEW i
    PROVE  LET faults == RoundFaults(names, members, seen, i)
               sound == EndpointFault(members[names[i]]) = {}
               shared == members[names[i]].canonical \in seen
           IN  /\ \A f \in faults : f.code # "missing_local_node"
               /\ (\E f \in faults : f.code = "duplicate_endpoint") <=> sound /\ shared
               /\ faults = {} <=> IsNodeId(names[i]) /\ sound /\ ~shared
<1> DEFINE url == members[names[i]]
           named == Unless(IsNodeId(names[i]), "members.node_id", i, "invalid_node_id")
           placed == AtEndpoint(url, "members.endpoint", i)
           sound == EndpointFault(url) = {}
           shared == url.canonical \in seen
           once == Unless(sound => ~shared, "members.endpoint", i, "duplicate_endpoint")
<1>1. RoundFaults(names, members, seen, i) = named \cup placed \cup once
  BY DEF RoundFaults
<1>2. /\ \A f \in named : f.code = "invalid_node_id"
      /\ named = {} <=> IsNodeId(names[i])
  BY UnlessIs
<1>3. /\ \A f \in placed : f.code # "duplicate_endpoint" /\ f.code # "missing_local_node"
      /\ placed = {} <=> sound
  BY AtEndpointIs
<1>4. /\ \A f \in once : f.code = "duplicate_endpoint"
      /\ once = {} <=> ~(sound /\ shared)
  <2> DEFINE fault == Fault("members.endpoint", i, "duplicate_endpoint")
  <2>1. fault.code = "duplicate_endpoint"
    BY DEF Fault
  <2> HIDE DEF sound, shared, fault
  <2>2. once = IF sound => ~shared THEN {} ELSE {fault}
    BY DEF Unless, fault
  <2> HIDE DEF once
  <2> QED
    BY <2>1, <2>2
<1> HIDE DEF named, placed, once, sound, shared
<1>5. /\ \A f \in named \cup placed \cup once : f.code # "missing_local_node"
      /\ (\E f \in named \cup placed \cup once : f.code = "duplicate_endpoint") <=> sound /\ shared
      /\ named \cup placed \cup once = {} <=> IsNodeId(names[i]) /\ sound /\ ~shared
  BY <1>2, <1>3, <1>4
<1> QED
  BY <1>1, <1>5 DEF sound, shared, url

(* The one pass over a member map finds exactly what is wrong with it as a *)
(* whole, for every map of any size and every local name                   *)
(* (validate_members, config.rs:684-739).                                  *)
THEOREM MembershipJudgedRight ==
    ASSUME NEW members, DOMAIN members \subseteq Bytes, IsFiniteSet(DOMAIN members), NEW local
    PROVE  JudgedRight(members, local)
<1> DEFINE D == DOMAIN members
           n == Cardinality(D)
           names == InOrder(D)
           Sound(x) == EndpointFault(members[x]) = {}
           Shared == \E x, y \in D :
               x # y /\ Sound(x) /\ Sound(y) /\ members[x].canonical = members[y].canonical
           kept == KeptBy(names, members, n)
           found == FaultsBy(names, members, n)
           last == Unless(IsNodeId(local) => local \in kept, "members", 0, "missing_local_node")
           Missing == IsNodeId(local) /\ ~(local \in D /\ Sound(local))
           Seen(i) == SeenBy(names, members, i - 1)
           Round(i) == RoundFaults(names, members, Seen(i), i)
<1>1. /\ n \in Nat /\ names \in [1 .. n -> D]
      /\ \A i, j \in 1 .. n : i # j => names[i] # names[j]
      /\ \A x \in D : \E i \in 1 .. n : names[i] = x
  BY InOrderIs
<1>2. MemberFaults(members, local) = found \cup last
  <2>1. IsLoop(Judged(members), names, members, n)
    BY <1>1, JudgedIs
  <2>2. Judged(members)[n] = [kept |-> kept, seen |-> SeenBy(names, members, n), faults |-> found]
    <3> HIDE DEF names, n
    <3> QED
      BY <1>1, <2>1, LoopInvariant
  <2> QED
    BY <2>2 DEF MemberFaults
<1> HIDE DEF names, n
<1>3. found = UNION {Round(i) : i \in 1 .. n}
  BY DEF FaultsBy
<1>4. \A x : x \in kept <=> x \in D /\ Sound(x) /\ IsNodeId(x)
  BY <1>1 DEF KeptBy, SoundRounds
<1>5. /\ \A f \in last : f.code = "missing_local_node"
      /\ last = {} <=> ~Missing
  <2> DEFINE fault == Fault("members", 0, "missing_local_node")
  <2>1. fault.code = "missing_local_node"
    BY DEF Fault
  <2> HIDE DEF kept, fault
  <2>2. last = IF IsNodeId(local) => local \in kept THEN {} ELSE {fault}
    BY DEF Unless, fault
  <2> HIDE DEF last
  <2> QED
    BY <1>4, <2>1, <2>2
<1>6. ASSUME NEW i \in 1 .. n
      PROVE  /\ \A f \in Round(i) : f.code # "missing_local_node"
             /\ (\E f \in Round(i) : f.code = "duplicate_endpoint") <=>
                   Sound(names[i]) /\ members[names[i]].canonical \in Seen(i)
             /\ Round(i) = {} <=> /\ IsNodeId(names[i]) /\ Sound(names[i])
                                  /\ members[names[i]].canonical \notin Seen(i)
  BY RoundCodes
<1>7. ASSUME NEW i \in 1 .. n
      PROVE  members[names[i]].canonical \in Seen(i) <=>
                \E j \in 1 .. i - 1 :
                   Sound(names[j]) /\ members[names[j]].canonical = members[names[i]].canonical
  BY DEF SeenBy, SoundRounds
<1>8. Shared <=> \E i \in 1 .. n : Sound(names[i]) /\ members[names[i]].canonical \in Seen(i)
  <2>1. ASSUME NEW i \in 1 .. n, Sound(names[i]), members[names[i]].canonical \in Seen(i)
        PROVE  Shared
    <3>1. PICK j \in 1 .. i - 1 :
             Sound(names[j]) /\ members[names[j]].canonical = members[names[i]].canonical
      BY <1>7, <2>1
    <3>2. j \in 1 .. n /\ i # j
      BY <1>1
    <3> QED
      BY <1>1, <2>1, <3>1, <3>2
  <2>2. ASSUME NEW x \in D, NEW y \in D, x # y, Sound(x), Sound(y),
               members[x].canonical = members[y].canonical
        PROVE  \E i \in 1 .. n : Sound(names[i]) /\ members[names[i]].canonical \in Seen(i)
    <3>1. PICK i \in 1 .. n : names[i] = x
      BY <1>1
    <3>2. PICK j \in 1 .. n : names[j] = y
      BY <1>1
    <3>3. CASE i < j
      <4>1. i \in 1 .. j - 1
        BY <1>1, <3>3
      <4> QED
        BY <1>7, <2>2, <3>1, <3>2, <4>1
    <3>4. CASE j < i
      <4>1. j \in 1 .. i - 1
        BY <1>1, <3>4
      <4> QED
        BY <1>7, <2>2, <3>1, <3>2, <4>1
    <3> QED
      BY <1>1, <2>2, <3>1, <3>2, <3>3, <3>4
  <2> QED
    BY <2>1, <2>2
<1> HIDE DEF kept, found, last, Missing, Shared, Seen, Round
<1>9. (\E f \in found \cup last : f.code = "duplicate_endpoint") <=> Shared
  BY <1>3, <1>5, <1>6, <1>8
<1>10. (\E f \in found \cup last : f.code = "missing_local_node") <=> Missing
  BY <1>3, <1>5, <1>6
<1>11. found \cup last = {} <=>
          ~Shared /\ ~Missing /\ \A x \in D : IsNodeId(x) /\ Sound(x)
  <2>1. found = {} <=> \A i \in 1 .. n : Round(i) = {}
    BY <1>3
  <2>2. (\A x \in D : IsNodeId(x) /\ Sound(x)) <=>
           \A i \in 1 .. n : IsNodeId(names[i]) /\ Sound(names[i])
    BY <1>1
  <2> HIDE DEF Sound
  <2>3. found = {} <=> ~Shared /\ \A x \in D : IsNodeId(x) /\ Sound(x)
    BY <1>6, <1>8, <2>1, <2>2
  <2> QED
    BY <1>5, <2>3
<1> QED
  BY <1>2, <1>9, <1>10, <1>11 DEF JudgedRight, Shared, Missing

(* The three properties of the run, for every sample: the theorems above   *)
(* at the wire forms, envelopes and member maps the run looks at.          *)
THEOREM WireAlwaysRoundTrips == Spec => []WireRoundTrip
<1>1. WireRoundTrip
  <2> SUFFICES ASSUME NEW raw \in Files PROVE RoundTrips(Wires, raw.transport.max_message)
    BY DEF WireRoundTrip
  <2> QED
    BY WireFormIsFaithful, SamplesAssumption DEF RoundTrips
<1> QED
  BY <1>1, PTL

(* A request and its retry have one fingerprint, and two requests with     *)
(* other contents never do (semantic_fingerprint, retry of envelope.rs).   *)
THEOREM FingerprintsAlwaysSeparate == Spec => []FingerprintsSeparate
<1>1. FingerprintsSeparate
  <2>1. Separates(Envelopes)
    BY FingerprintsAreFaithful, SamplesAssumption
  <2>2. ASSUME NEW e \in Envelopes, NEW r \in Retry(e)
        PROVE  Fingerprint(r) = Fingerprint(e) /\ Key(r) = Key(e) /\ SameContents(r, e)
    <3>1. e \in EnvelopeType /\ r = [e EXCEPT !.attempt = @ + 1]
      BY SamplesAssumption DEF Retry
    <3> QED
      BY <3>1 DEF EnvelopeType, Fingerprint, Key, SameContents
  <2> QED
    BY <2>1, <2>2 DEF FingerprintsSeparate
<1> QED
  BY <1>1, PTL

(* Whatever member map a file holds is judged right (validate_members).    *)
THEOREM MembersAlwaysJudgedRight == Spec => []MembersJudgedRight
<1>1. MembersJudgedRight
  BY MembershipJudgedRight, SamplesAssumption DEF MembersJudgedRight
<1> QED
  BY <1>1, PTL

---------------------------------------------------------------------------
(* The inductive invariant of RetainedAlwaysFit.                           *)
RecordType == [key : Keys, fingerprint : Fingerprints, outcome : Outcomes]

Known(e) == Key(e) \in Keys /\ Fingerprint(e) \in Fingerprints

LogTyped ==
    /\ completions \in Seq(RecordType)
    /\ durable \in 0 .. Len(completions)
    /\ pending \in 0 .. Len(completions)
    /\ \A c \in current : Known(c.request) /\ c.outcome \in Outcomes
    /\ \A e \in working : Known(e)

TableSound ==
    /\ IsTable(table) /\ SoundEntries(table, config.max_outcome)
    /\ phase = "down" => table = Empty

LimitsInForce ==
    phase # "down" =>
        /\ config.max_outcome \in Nat /\ limits.max_message \in Nat /\ limits.max_record \in Nat
        /\ config.max_outcome <= limits.max_message
        /\ limits.max_message + FrameOverhead <= limits.max_record

FitInv == LogTyped /\ TableSound /\ LimitsInForce

(* A new table retains nothing (DedupTable::new).                          *)
LEMMA EmptyIsSound == ASSUME NEW limit PROVE IsTable(Empty) /\ SoundEntries(Empty, limit)
<1>1. IsTable(Empty)
  BY DEF Empty, IsTable
<1>2. Present(Empty) = {}
  BY DEF Present, Empty
<1> QED
  BY <1>1, <1>2 DEF SoundEntries

(* The invariant holds before the node starts.                             *)
LEMMA FitStarts == Init => FitInv
BY EmptyIsSound DEF Init, FitInv, LogTyped, TableSound, LimitsInForce

(* A transition on its way to the log leaves the table and the limits      *)
(* alone.                                                                  *)
LEMMA CommitKeepsFit ==
    ASSUME FitInv, NEW c \in current,
           AppendSucceeds(c) \/ AppendRefused(c) \/ AppendFails(c) \/ Reply(c)
    PROVE  FitInv'
<1>1. RecordOf(c) \in RecordType
  BY DEF FitInv, LogTyped, Known, RecordOf, RecordType
<1>2. LogTyped'
  <2>1. CASE AppendSucceeds(c)
    BY <1>1, <2>1 DEF FitInv, LogTyped, AppendSucceeds, Log!Append1, Quiet, Known
  <2>2. CASE AppendRefused(c)
    BY <2>2 DEF FitInv, LogTyped, AppendRefused, Quiet, Known
  <2>3. CASE AppendFails(c)
    BY <1>1, <2>3 DEF FitInv, LogTyped, AppendFails, Quiet, Known
  <2>4. CASE Reply(c)
    BY <2>4 DEF FitInv, LogTyped, Reply, Known
  <2> QED
    BY <2>1, <2>2, <2>3, <2>4
<1>3. UNCHANGED <<table, config, limits>> /\ phase # "down" /\ phase' # "down"
  BY DEF AppendSucceeds, AppendRefused, AppendFails, Reply, Quiet
<1> QED
  BY <1>2, <1>3 DEF FitInv, TableSound, LimitsInForce, IsTable, SoundEntries, Present, IsEntry

(* A flush, or its failure, leaves table and limits alone too.             *)
LEMMA FlushKeepsFit ==
    ASSUME FitInv, FlushSucceeds \/ FlushFails
    PROVE  FitInv'
<1>1. LogTyped'
  BY DEF FitInv, LogTyped, FlushSucceeds, FlushFails, Log!Barrier, Quiet, Known
<1>2. UNCHANGED <<table, config, limits>> /\ phase # "down" /\ phase' # "down"
  BY DEF FlushSucceeds, FlushFails, Quiet
<1> QED
  BY <1>1, <1>2 DEF FitInv, TableSound, LimitsInForce, IsTable, SoundEntries, Present, IsEntry

(* A delivery or an evaluation's end changes the table by one call.        *)
LEMMA DeliveryKeepsFit ==
    ASSUME FitInv, NEW e \in Arrivals, DeliverNew(e) \/ DeliverReplay(e)
    PROVE  FitInv'
<1>1. Known(e)
  BY ArrivalsKnown DEF Known
<1>2. CASE DeliverNew(e)
  <2>1. LogTyped'
    BY <1>1, <1>2 DEF FitInv, LogTyped, DeliverNew, Known
  <2>2. IsTable(table') /\ SoundEntries(table', config.max_outcome)
    BY <1>2, ReserveKeepsSound DEF FitInv, TableSound, DeliverNew, Begin
  <2>3. UNCHANGED <<config, limits, phase>> /\ phase # "down"
    BY <1>2 DEF DeliverNew, Idle
  <2> QED
    BY <2>1, <2>2, <2>3 DEF FitInv, TableSound, LimitsInForce, SoundEntries, Present
<1>3. CASE DeliverReplay(e)
  <2>1. table.entries[Key(e)].state \in Outcomes
    BY <1>3 DEF FitInv, TableSound, SoundEntries, SoundEntry, DeliverReplay, Completed
  <2>2. LogTyped'
    BY <1>1, <1>3, <2>1 DEF FitInv, LogTyped, DeliverReplay, Commit, Known
  <2>3. UNCHANGED <<table, config, limits>> /\ phase # "down" /\ phase' # "down"
    BY <1>3 DEF DeliverReplay, Idle, Commit
  <2> QED
    BY <2>2, <2>3 DEF FitInv, TableSound, LimitsInForce, IsTable, SoundEntries, Present, IsEntry
<1> QED
  BY <1>2, <1>3

(* An outcome is stored only within the limit, and an abort stores none.   *)
LEMMA WorkKeepsFit ==
    ASSUME FitInv, NEW e \in working,
           Fail(e) \/ \E outcome \in Outcomes : Finish(e, outcome)
    PROVE  FitInv'
<1>1. CASE Fail(e)
  <2>1. LogTyped'
    BY <1>1 DEF FitInv, LogTyped, Fail, Known
  <2>2. IsTable(table') /\ SoundEntries(table', config.max_outcome)
    BY <1>1, AbortKeepsSound DEF FitInv, TableSound, Fail
  <2>3. UNCHANGED <<config, limits, phase>> /\ phase # "down"
    BY <1>1 DEF Fail, Idle
  <2> QED
    BY <2>1, <2>2, <2>3 DEF FitInv, TableSound, LimitsInForce, SoundEntries, Present
<1>2. ASSUME NEW outcome \in Outcomes, Finish(e, outcome)
      PROVE  FitInv'
  <2>1. LogTyped'
    BY <1>2 DEF FitInv, LogTyped, Finish, Commit, Known
  <2>2. IsTable(table') /\ SoundEntries(table', config.max_outcome)
    BY <1>2, StoreKeepsSound DEF FitInv, TableSound, Finish, Complete, Matches, Reserved
  <2>3. UNCHANGED <<config, limits>> /\ phase # "down" /\ phase' # "down"
    BY <1>2 DEF Finish, Idle, Commit
  <2> QED
    BY <2>1, <2>2, <2>3 DEF FitInv, TableSound, LimitsInForce, SoundEntries, Present
<1> QED
  BY <1>1, <1>2

(* A start brings limits that nest and an empty table; recovery fills it   *)
(* under those limits.                                                     *)
LEMMA LifeKeepsFit ==
    ASSUME FitInv, Stop \/ RestoreNext \/ \E raw \in Files : Restart(raw)
    PROVE  FitInv'
<1>1. CASE Stop
  <2>1. LogTyped'
    BY <1>1 DEF FitInv, LogTyped, Stop, Log!Lose
  <2>2. table' = Empty /\ phase' = "down"
    BY <1>1 DEF Stop
  <2> QED
    BY <2>1, <2>2, EmptyIsSound DEF FitInv, TableSound, LimitsInForce
<1>2. ASSUME NEW raw \in Files, Restart(raw)
      PROVE  FitInv'
  <2>1. LogTyped'
    BY <1>2 DEF FitInv, LogTyped, Restart, Log!Barrier
  <2>2. table' = Empty /\ phase' # "down"
    BY <1>2 DEF FitInv, TableSound, Restart
  <2>3. LimitsInForce'
    BY <1>2, LimitsNest DEF LimitsInForce, Restart, Adopt
  <2> QED
    BY <2>1, <2>2, <2>3, EmptyIsSound DEF FitInv, TableSound
<1>3. CASE RestoreNext
  <2>1. LogTyped'
    BY <1>3 DEF FitInv, LogTyped, RestoreNext, Known
  <2> DEFINE r == completions[Len(completions) - pending + 1]
  <2>2. r \in RecordType
    BY <1>3 DEF FitInv, LogTyped, RestoreNext
  <2>3. IsTable(table') /\ SoundEntries(table', config.max_outcome)
    BY <1>3, <2>2, RestoreKeepsSound DEF FitInv, TableSound, RestoreNext, RecordType
  <2>4. UNCHANGED <<config, limits, phase>> /\ phase # "down"
    BY <1>3 DEF RestoreNext
  <2> QED
    BY <2>1, <2>3, <2>4 DEF FitInv, TableSound, LimitsInForce, SoundEntries, Present
<1> QED
  BY <1>1, <1>2, <1>3

(* Every step keeps the invariant.                                         *)
LEMMA FitKept == FitInv /\ [Next]_vars => FitInv'
<1> SUFFICES ASSUME FitInv, [Next]_vars PROVE FitInv'
  OBVIOUS
<1>1. CASE UNCHANGED vars
  BY <1>1 DEF vars, FitInv, LogTyped, TableSound, LimitsInForce, IsTable, SoundEntries,
              Present, IsEntry, Known
<1>2. CASE Next
  BY <1>2, CommitKeepsFit, FlushKeepsFit, DeliveryKeepsFit, WorkKeepsFit, LifeKeepsFit DEF Next
<1> QED
  BY <1>1, <1>2

(* Whatever the table retains can be logged and sent back under the        *)
(* configuration in force, for every sequence of configuration files and   *)
(* every log (NodeConfig::try_from, complete, restore_completed).          *)
THEOREM RetainedAlwaysFit == Spec => []RetainedOutcomesFit
<1>1. FitInv => RetainedOutcomesFit
  <2> SUFFICES ASSUME FitInv, NEW k \in Keys, Completed(table, k)
               PROVE  /\ Size[table.entries[k].state] <= limits.max_message
                      /\ Size[table.entries[k].state] + FrameOverhead <= limits.max_record
    BY DEF RetainedOutcomesFit
  <2>1. phase # "down"
    BY DEF FitInv, TableSound, Completed, Present, Empty
  <2>2. /\ table.entries[k].state \in Outcomes
        /\ Size[table.entries[k].state] <= config.max_outcome
    BY DEF FitInv, TableSound, SoundEntries, SoundEntry, Completed
  <2>3. Size[table.entries[k].state] \in Nat
    BY <2>2, SizeAssumption
  <2> QED
    BY <2>1, <2>2, <2>3, RangesAssumption DEF FitInv, LimitsInForce
<1> QED
  BY <1>1, FitStarts, FitKept, PTL DEF Spec

---------------------------------------------------------------------------
(* Nothing is answered before it is durable.                               *)

(* Every response that went out announces an outcome that the durable part *)
(* of the log holds for its request's key, also after every later failure, *)
(* crash and restart.                                                      *)
AnswersAreLogged ==
    \A a \in answers : \E i \in 1 .. durable, c \in a.correlation :
        /\ completions[i].key = <<a.cluster, a.destination, c>>
        /\ completions[i].outcome = a.payload

FromWire(e) == \E w : e = FieldsOf(w)

(* What commit_transition has established for the transition it is in.     *)
CommitLogged ==
    /\ \A e \in working : FromWire(e)
    /\ \A c \in current : FromWire(c.request)
    /\ \A c, d \in current : c = d
    /\ phase = "flush" => \A c \in current :
           Len(completions) > 0 /\ completions[Len(completions)] = RecordOf(c)
    /\ phase = "reply" => \A c \in current :
           \E i \in 1 .. durable : completions[i] = RecordOf(c)

AnswerInv == FitInv /\ CommitLogged /\ AnswersAreLogged

(* Everything that arrives was built from a wire form.                     *)
LEMMA ArrivalsFromWire == ASSUME NEW e \in Arrivals PROVE FromWire(e)
BY DEF Arrivals, Delivered, IntoCore, TryFromVersion, NewV1, FromWire

(* A log that keeps its durable part keeps the evidence of the answers.    *)
LEMMA EvidenceKept ==
    ASSUME FitInv, AnswersAreLogged, answers' \subseteq answers,
           durable' \in Nat, durable' >= durable,
           \A i \in 1 .. durable : completions'[i] = completions[i]
    PROVE  AnswersAreLogged'
<1>1. \A i \in 1 .. durable : i \in 1 .. durable'
  BY DEF FitInv, LogTyped
<1> SUFFICES ASSUME NEW a \in answers'
             PROVE  \E i \in 1 .. durable', c \in a.correlation :
                       /\ completions'[i].key = <<a.cluster, a.destination, c>>
                       /\ completions'[i].outcome = a.payload
  BY DEF AnswersAreLogged
<1>2. PICK i \in 1 .. durable, c \in a.correlation :
         /\ completions[i].key = <<a.cluster, a.destination, c>>
         /\ completions[i].outcome = a.payload
  BY DEF AnswersAreLogged
<1> QED
  BY <1>1, <1>2

(* A record added behind the durable part.                                 *)
LEMMA AppendKeeps ==
    ASSUME FitInv, NEW r \in RecordType
    PROVE  /\ Len(Append(completions, r)) = Len(completions) + 1
           /\ Append(completions, r)[Len(completions) + 1] = r
           /\ \A i \in 1 .. durable : Append(completions, r)[i] = completions[i]
BY DEF FitInv, LogTyped

(* A response to a committed transition announces the logged outcome       *)
(* (response_v1 swaps the routing and correlates the message).             *)
LEMMA ResponseAnnounces ==
    ASSUME NEW q, FromWire(q), NEW type, NEW schema, NEW outcome, NEW limit,
           NEW a \in Response(q, ResponseId, type, schema, outcome, limit)
    PROVE  /\ a.correlation = {q.message} /\ a.payload = outcome
           /\ Key(q) = <<a.cluster, a.destination, q.message>>
<1>1. PICK w : q = FieldsOf(w)
  BY DEF FromWire
<1>2. a = [q EXCEPT !.source = q.destination, !.destination = q.source,
                    !.message = ResponseId, !.correlation = {q.message},
                    !.type = type, !.schema = schema, !.attempt = 0, !.payload = outcome]
  BY DEF Response, NewV1
<1>3. /\ a.correlation = {q.message} /\ a.payload = outcome
      /\ a.cluster = q.cluster /\ a.destination = q.source
  BY <1>1, <1>2 DEF FieldsOf
<1> QED
  BY <1>3 DEF Key

(* The log and the answers through every step of a transition.             *)
LEMMA CommitKeepsAnswers ==
    ASSUME AnswerInv, NEW c \in current,
           AppendSucceeds(c) \/ AppendRefused(c) \/ AppendFails(c) \/ Reply(c)
    PROVE  CommitLogged' /\ AnswersAreLogged'
<1>1. /\ completions \in Seq(RecordType) /\ durable \in 0 .. Len(completions)
      /\ RecordOf(c) \in RecordType /\ Len(completions) \in Nat
  BY DEF AnswerInv, FitInv, LogTyped, Known, RecordOf, RecordType
<1>2. CASE AppendSucceeds(c)
  <2>1. /\ completions' = Append(completions, RecordOf(c))
        /\ durable' \in {durable, Len(completions')} /\ phase' = "flush"
        /\ UNCHANGED <<current, working, answers>>
    BY <1>2 DEF AppendSucceeds, Log!Append1, Quiet
  <2>2. /\ Len(completions') = Len(completions) + 1
        /\ completions'[Len(completions')] = RecordOf(c)
        /\ \A i \in 1 .. durable : completions'[i] = completions[i]
    BY <1>1, <2>1, AppendKeeps DEF AnswerInv
  <2>3. \A d \in current : RecordOf(d)' = RecordOf(d) /\ d = c
    BY DEF AnswerInv, CommitLogged, RecordOf
  <2>4. CommitLogged'
    BY <1>1, <2>1, <2>2, <2>3 DEF AnswerInv, CommitLogged, FromWire
  <2>5. AnswersAreLogged'
    BY <1>1, <2>1, <2>2, EvidenceKept DEF AnswerInv
  <2> QED
    BY <2>4, <2>5
<1>3. CASE AppendRefused(c)
  BY <1>3 DEF AnswerInv, CommitLogged, AnswersAreLogged, FromWire, AppendRefused, Quiet
<1>4. CASE AppendFails(c)
  <2>1. /\ completions' \in {completions, Append(completions, RecordOf(c))}
        /\ phase' = "idle" /\ current' = {} /\ UNCHANGED <<durable, working, answers>>
    BY <1>4 DEF AppendFails, Quiet
  <2>2. \A i \in 1 .. durable : completions'[i] = completions[i]
    BY <1>1, <2>1, AppendKeeps DEF AnswerInv
  <2>3. AnswersAreLogged'
    BY <1>1, <2>1, <2>2, EvidenceKept DEF AnswerInv
  <2> QED
    BY <2>1, <2>3 DEF AnswerInv, CommitLogged, FromWire
<1>5. CASE Reply(c)
  <2>1. PICK i \in 1 .. durable : completions[i] = RecordOf(c)
    BY <1>5 DEF AnswerInv, CommitLogged, Reply
  <2>2. PICK sent \in SUBSET Response(c.request, ResponseId, c.request.type, c.request.schema,
                                     c.outcome, limits.max_message) :
           answers' = IF Key(c.request) \in forgotten THEN answers ELSE answers \cup sent
    BY <1>5 DEF Reply
  <2>3. FromWire(c.request)
    BY DEF AnswerInv, CommitLogged
  <2>4. ASSUME NEW a \in sent
        PROVE  \E j \in 1 .. durable, m \in a.correlation :
                  /\ completions[j].key = <<a.cluster, a.destination, m>>
                  /\ completions[j].outcome = a.payload
    <3> DEFINE q == c.request
    <3>1. a \in Response(q, ResponseId, q.type, q.schema, c.outcome, limits.max_message)
      BY <2>2, <2>4
    <3> HIDE DEF q
    <3>2. /\ a.correlation = {q.message} /\ a.payload = c.outcome
          /\ Key(q) = <<a.cluster, a.destination, q.message>>
      BY <2>3, <3>1, ResponseAnnounces DEF q
    <3>3. completions[i].key = <<a.cluster, a.destination, q.message>>
          /\ completions[i].outcome = a.payload
      BY <2>1, <3>2 DEF RecordOf, q
    <3>4. q.message \in a.correlation
      BY <3>2
    <3> QED
      BY <3>3, <3>4
  <2>5. UNCHANGED <<completions, durable, working>> /\ phase' = "idle" /\ current' = {}
    BY <1>5 DEF Reply
  <2>6. AnswersAreLogged'
    BY <2>2, <2>4, <2>5 DEF AnswerInv, AnswersAreLogged
  <2> QED
    BY <2>5, <2>6 DEF AnswerInv, CommitLogged, FromWire
<1> QED
  BY <1>2, <1>3, <1>4, <1>5

(* The other steps: a flush covers the record, a loss stays behind what is *)
(* durable, and nobody else touches the log.                               *)
LEMMA OthersKeepAnswers ==
    ASSUME AnswerInv, Next, ~ \E c \in current :
              AppendSucceeds(c) \/ AppendRefused(c) \/ AppendFails(c) \/ Reply(c)
    PROVE  CommitLogged' /\ AnswersAreLogged'
<1>1. completions \in Seq(RecordType) /\ durable \in 0 .. Len(completions)
      /\ Len(completions) \in Nat
  BY DEF AnswerInv, FitInv, LogTyped
<1>2. CASE FlushSucceeds
  <2>1. /\ durable' = Len(completions) /\ phase = "flush" /\ phase' = "reply"
        /\ UNCHANGED <<completions, current, working, answers>>
    BY <1>2 DEF FlushSucceeds, Log!Barrier, Quiet
  <2>2. \A d \in current : RecordOf(d)' = RecordOf(d)
    BY DEF RecordOf
  <2>3. CommitLogged'
    BY <1>1, <2>1, <2>2 DEF AnswerInv, CommitLogged, FromWire
  <2> QED
    BY <1>1, <2>1, <2>3, EvidenceKept DEF AnswerInv
<1>3. CASE FlushFails
  BY <1>3 DEF FlushFails, Quiet, AnswerInv, CommitLogged, AnswersAreLogged, FromWire
<1>4. ASSUME NEW e \in Arrivals, DeliverNew(e) \/ DeliverReplay(e)
      PROVE  CommitLogged' /\ AnswersAreLogged'
  <2>1. FromWire(e)
    BY ArrivalsFromWire
  <2>2. /\ UNCHANGED <<completions, durable>> /\ answers' \subseteq answers
        /\ phase' \in {"idle", "append"}
    BY <1>4 DEF DeliverNew, DeliverReplay, Forget, Commit, Idle
  <2>3. CommitLogged'
    BY <1>4, <2>1, <2>2 DEF AnswerInv, CommitLogged, FromWire, DeliverNew, DeliverReplay, Commit
  <2> QED
    BY <1>1, <2>2, <2>3, EvidenceKept DEF AnswerInv
<1>5. ASSUME NEW e \in working, Fail(e) \/ \E o \in Outcomes : Finish(e, o)
      PROVE  CommitLogged' /\ AnswersAreLogged'
  <2>1. /\ UNCHANGED <<completions, durable>> /\ answers' \subseteq answers
        /\ phase' \in {"idle", "append"}
    BY <1>5 DEF Fail, Finish, Forget, Commit, Idle
  <2>2. CommitLogged'
    BY <1>5, <2>1 DEF AnswerInv, CommitLogged, FromWire, Fail, Finish, Commit
  <2> QED
    BY <1>1, <2>1, <2>2, EvidenceKept DEF AnswerInv
<1>6. CASE Stop
  <2>1. PICK k \in durable .. Len(completions) : completions' = SubSeq(completions, 1, k)
    BY <1>6 DEF Stop, Log!Lose
  <2>2. /\ UNCHANGED <<durable, answers>> /\ phase' = "down" /\ current' = {} /\ working' = {}
    BY <1>6 DEF Stop, Log!Lose
  <2>3. \A i \in 1 .. durable : completions'[i] = completions[i]
    BY <1>1, <2>1
  <2>4. CommitLogged'
    BY <2>2 DEF CommitLogged
  <2> QED
    BY <1>1, <2>2, <2>3, <2>4, EvidenceKept DEF AnswerInv
<1>7. CASE RestoreNext
  <2>1. /\ UNCHANGED <<completions, durable, phase, current, working>>
        /\ answers' \subseteq answers /\ phase = "idle"
    BY <1>7 DEF RestoreNext, Forget
  <2>2. CommitLogged'
    BY <2>1 DEF AnswerInv, CommitLogged, FromWire
  <2> QED
    BY <1>1, <2>1, <2>2, EvidenceKept DEF AnswerInv
<1>8. ASSUME NEW raw \in Files, Restart(raw)
      PROVE  CommitLogged' /\ AnswersAreLogged'
  <2>1. /\ durable' = Len(completions) /\ phase' = "idle"
        /\ UNCHANGED <<completions, current, working, answers>>
    BY <1>8 DEF Restart, Log!Barrier
  <2>2. CommitLogged'
    BY <2>1 DEF AnswerInv, CommitLogged, FromWire
  <2> QED
    BY <1>1, <2>1, <2>2, EvidenceKept DEF AnswerInv
<1> QED
  BY <1>2, <1>3, <1>4, <1>5, <1>6, <1>7, <1>8 DEF Next

LEMMA AnswersStart == Init => AnswerInv
BY FitStarts DEF Init, AnswerInv, CommitLogged, AnswersAreLogged

LEMMA AnswersKept == AnswerInv /\ [Next]_vars => AnswerInv'
<1> SUFFICES ASSUME AnswerInv, [Next]_vars PROVE AnswerInv'
  OBVIOUS
<1>1. FitInv'
  BY FitKept DEF AnswerInv
<1>2. CASE UNCHANGED vars
  <2>1. CommitLogged' /\ AnswersAreLogged'
    BY <1>2 DEF vars, AnswerInv, CommitLogged, AnswersAreLogged, FromWire, RecordOf
  <2> QED
    BY <1>1, <2>1 DEF AnswerInv
<1>3. CASE Next
  BY <1>1, <1>3, CommitKeepsAnswers, OthersKeepAnswers DEF AnswerInv
<1> QED
  BY <1>2, <1>3

(* No response goes out before the outcome it announces is durable under   *)
(* its request's key, and none is ever taken back by a crash, for every    *)
(* request, file, failure and restart (commit_transition, recover).        *)
THEOREM AnswersAreDurable == Spec => []AnswersAreLogged
<1>1. AnswerInv => AnswersAreLogged
  BY DEF AnswerInv
<1> QED
  BY <1>1, AnswersStart, AnswersKept, PTL DEF Spec

---------------------------------------------------------------------------
(* The actions that call the table, by what they change in it.             *)

(* A new request: a reservation under its key (DedupTable::begin).         *)
LEMMA DeliverNewIs ==
    ASSUME FitInv, NEW e, DeliverNew(e)
    PROVE  /\ Key(e) \notin Present(table) /\ Key(e) \in Present(table')
           /\ table'.entries[Key(e)].state = InFlight
           /\ table'.entries[Key(e)].fingerprint = Fingerprint(e)
           /\ Inherits(table, table', {Key(e)}) /\ KeepsReserved(table, table')
<1>1. /\ IsTable(table) /\ Key(e) \notin Present(table)
      /\ table' = Reserve(table, Key(e), Fingerprint(e))
  BY DEF FitInv, TableSound, DeliverNew, Begin, Admits
<1>2. table'.entries[Key(e)] = [fingerprint |-> Fingerprint(e), seq |-> table.last + 1,
                                state |-> InFlight]
  BY <1>1, ReservationIs
<1> QED
  BY <1>1, <1>2, ReservationIs

(* An evaluation's end: its outcome under its key (DedupTable::complete).  *)
LEMMA FinishIs ==
    ASSUME FitInv, NEW e, NEW outcome \in Outcomes, Finish(e, outcome)
    PROVE  /\ Reserved(table, Key(e)) /\ Key(e) \in Present(table')
           /\ table'.entries[Key(e)].state = outcome /\ outcome # InFlight
           /\ Inherits(table, table', {Key(e)}) /\ KeepsReserved(table, table')
<1>1. /\ IsTable(table) /\ Reserved(table, Key(e)) /\ Key(e) \in Present(table)
      /\ IsEntry(table.entries[Key(e)])
      /\ table' = Store(table, Key(e), outcome)
  BY DEF FitInv, TableSound, SoundEntries, SoundEntry, Finish, Complete, Matches, Reserved
<1>2. /\ Key(e) \in Present(table')
      /\ table'.entries[Key(e)] = [fingerprint |-> table.entries[Key(e)].fingerprint,
                                   seq |-> table.entries[Key(e)].seq, state |-> outcome]
      /\ Inherits(table, table', {Key(e)}) /\ KeepsReserved(table, table')
  BY <1>1, StorageIs
<1> QED
  BY <1>1, <1>2, InFlightAssumption

(* A failed evaluation: its key is gone (DedupTable::abort).               *)
LEMMA FailIs ==
    ASSUME FitInv, NEW e, Fail(e)
    PROVE  /\ Reserved(table, Key(e)) /\ Present(table') = Present(table) \ {Key(e)}
           /\ Inherits(table, table', {})
BY AbortIs DEF FitInv, TableSound, Fail, Abort, Matches

(* One record of the recovery (restore_completed).                         *)
LEMMA RestoreNextIs ==
    ASSUME FitInv, RestoreNext
    PROVE  LET i == Len(completions) - pending + 1
               r == completions[i]
           IN  /\ i \in DOMAIN completions /\ r \in RecordType
               /\ Inherits(table, table', {r.key}) /\ KeepsReserved(table, table')
               /\ IF Admits(table, r.key)
                  THEN /\ r.key \in Present(table')
                       /\ table'.entries[r.key].state =
                            IF Size[r.outcome] <= config.max_outcome THEN r.outcome ELSE InFlight
                  ELSE table' = table
<1> DEFINE r == completions[Len(completions) - pending + 1]
<1>1. IsTable(table) /\ table' = Restore(table, r)
  BY DEF FitInv, TableSound, RestoreNext
<1>2. Len(completions) - pending + 1 \in DOMAIN completions /\ r \in RecordType
  BY DEF FitInv, LogTyped, RestoreNext
<1> HIDE DEF r
<1>3. /\ Inherits(table, table', {r.key}) /\ KeepsReserved(table, table')
      /\ IF Admits(table, r.key)
         THEN /\ r.key \in Present(table')
              /\ table'.entries[r.key].state =
                   IF Size[r.outcome] <= config.max_outcome THEN r.outcome ELSE InFlight
         ELSE table' = table
  BY <1>1, RestoreInherits
<1> QED
  BY <1>2, <1>3 DEF r

---------------------------------------------------------------------------
(* The table's own invariants, in every state of the node.                 *)

BooksInv == FitInv /\ ConfigSound /\ OrderSound(table) /\ Bounded(table)

LEMMA BooksStart == Init => BooksInv
<1> SUFFICES ASSUME Init PROVE BooksInv
  OBVIOUS
<1>1. PICK raw \in Files : Accepted(raw) /\ config = raw.dedup
  BY DEF Init
<1>2. ConfigSound
  BY <1>1, LimitsNest DEF ConfigSound
<1>3. table = Empty
  BY DEF Init
<1> QED
  BY <1>2, <1>3, FitStarts, EmptyIsBounded DEF BooksInv

(* The table a call leaves is judged under the same configuration.         *)
LEMMA BooksRemain ==
    ASSUME BooksInv, UNCHANGED config, OrderSound(table'), Bounded(table')
    PROVE  ConfigSound' /\ OrderSound(table)' /\ Bounded(table)'
<1>1. ConfigSound'
  BY DEF BooksInv, ConfigSound
<1>2. OrderSound(table)'
  BY DEF OrderSound, Present, Queued
<1>3. Bounded(table)'
  BY DEF Bounded, Present, BytesOf, OutcomeBytes, Completed
<1> QED
  BY <1>1, <1>2, <1>3

(* The calls of the table keep its books.                                  *)
LEMMA CallsKeepBooks ==
    ASSUME BooksInv, NEW e,
           \/ e \in Arrivals /\ DeliverNew(e)
           \/ e \in working /\ (Fail(e) \/ \E outcome \in Outcomes : Finish(e, outcome))
    PROVE  ConfigSound' /\ OrderSound(table)' /\ Bounded(table)'
<1>1. SoundTable(table) /\ ConfigSound
  BY DEF BooksInv, FitInv, TableSound, SoundTable
<1>2. UNCHANGED config
  BY DEF DeliverNew, Fail, Finish
<1>3. OrderSound(table') /\ Bounded(table')
  <2>1. CASE e \in Arrivals /\ DeliverNew(e)
    <3>1. Key(e) \in Keys /\ Admits(table, Key(e))
          /\ table' = Reserve(table, Key(e), Fingerprint(e))
      BY <2>1, ArrivalsKnown DEF DeliverNew, Begin
    <3> QED
      BY <1>1, <3>1, ReserveKeepsBounds DEF SoundTable
  <2>2. CASE Fail(e)
    BY <1>1, <2>2, AbortKeepsBounds DEF Fail
  <2>3. ASSUME NEW outcome \in Outcomes, Finish(e, outcome)
        PROVE  OrderSound(table') /\ Bounded(table')
    <3>1. /\ Reserved(table, Key(e)) /\ Size[outcome] <= config.max_outcome
          /\ table' = Store(table, Key(e), outcome)
      BY <2>3 DEF Finish, Complete, Matches
    <3> QED
      BY <1>1, <3>1, StoreKeepsBounds DEF SoundTable
  <2> QED
    BY <2>1, <2>2, <2>3
<1> QED
  BY <1>2, <1>3, BooksRemain

(* So do recovery, a stop and a start.                                     *)
LEMMA LifeKeepsBooks ==
    ASSUME BooksInv, Stop \/ RestoreNext \/ \E raw \in Files : Restart(raw)
    PROVE  ConfigSound' /\ OrderSound(table)' /\ Bounded(table)'
<1>1. SoundTable(table) /\ ConfigSound
  BY DEF BooksInv, FitInv, TableSound, SoundTable
<1>2. CASE RestoreNext
  <2> DEFINE r == completions[Len(completions) - pending + 1]
  <2>1. r \in RecordType /\ table' = Restore(table, r) /\ UNCHANGED config
    BY <1>2, RestoreNextIs DEF BooksInv, RestoreNext
  <2> HIDE DEF r
  <2>2. r.key \in Keys /\ r.outcome \in Outcomes
    BY <2>1 DEF RecordType
  <2>3. OrderSound(table') /\ Bounded(table')
    BY <1>1, <2>1, <2>2, RestoreKeepsBounds DEF SoundTable
  <2> QED
    BY <2>1, <2>3, BooksRemain
<1>3. CASE Stop
  <2>1. table' = Empty /\ UNCHANGED config
    BY <1>3 DEF Stop
  <2>2. OrderSound(table') /\ Bounded(table')
    BY <1>1, <2>1, EmptyIsBounded
  <2> QED
    BY <2>1, <2>2, BooksRemain
<1>4. ASSUME NEW raw \in Files, Restart(raw)
      PROVE  ConfigSound' /\ OrderSound(table)' /\ Bounded(table)'
  <2>1. table = Empty /\ table' = Empty
    BY <1>4 DEF BooksInv, FitInv, TableSound, Restart
  <2>2. ConfigSound'
    BY <1>4, LimitsNest DEF Restart, Adopt, ConfigSound
  <2>3. OrderSound(table)'
    BY <2>1, <1>1 DEF SoundTable, OrderSound, Present, Queued
  <2>4. Bounded(table)'
    <3>1. Bounded(table)
      BY <1>1 DEF SoundTable
    <3>2. Cardinality(Present(table)) = 0 /\ table.bytes = 0
      BY <2>1, FS_EmptySet DEF Empty, Present
    <3>3. 0 <= config'.max_entries /\ 0 <= config'.max_total
      BY <2>2 DEF ConfigSound
    <3> QED
      BY <2>1, <3>1, <3>2, <3>3 DEF Bounded, Present, BytesOf, OutcomeBytes, Completed
  <2> QED
    BY <2>2, <2>3, <2>4
<1> QED
  BY <1>2, <1>3, <1>4

LEMMA BooksKept == BooksInv /\ [Next]_vars => BooksInv'
<1> SUFFICES ASSUME BooksInv, [Next]_vars PROVE BooksInv'
  OBVIOUS
<1>1. FitInv'
  BY FitKept DEF BooksInv
<1>2. CASE UNCHANGED <<config, table>>
  <2>1. OrderSound(table') /\ Bounded(table')
    BY <1>2 DEF BooksInv
  <2> QED
    BY <1>1, <1>2, <2>1, BooksRemain DEF BooksInv
<1>3. CASE UNCHANGED vars
  BY <1>2, <1>3 DEF vars
<1>4. ASSUME NEW c \in current,
             AppendSucceeds(c) \/ AppendRefused(c) \/ AppendFails(c) \/ Reply(c)
      PROVE  BooksInv'
  BY <1>2, <1>4 DEF AppendSucceeds, AppendRefused, AppendFails, Reply, Quiet
<1>5. CASE FlushSucceeds \/ FlushFails
  BY <1>2, <1>5 DEF FlushSucceeds, FlushFails, Quiet
<1>6. ASSUME NEW e \in Arrivals, DeliverNew(e) \/ DeliverReplay(e)
      PROVE  BooksInv'
  <2>1. CASE DeliverNew(e)
    BY <1>1, <2>1, CallsKeepBooks DEF BooksInv
  <2>2. CASE DeliverReplay(e)
    BY <1>2, <2>2 DEF DeliverReplay
  <2> QED
    BY <1>6, <2>1, <2>2
<1>7. ASSUME NEW e \in working, Fail(e) \/ \E outcome \in Outcomes : Finish(e, outcome)
      PROVE  BooksInv'
  BY <1>1, <1>7, CallsKeepBooks DEF BooksInv
<1>8. CASE Stop \/ RestoreNext \/ \E raw \in Files : Restart(raw)
  BY <1>1, <1>8, LifeKeepsBooks DEF BooksInv
<1> QED
  BY <1>3, <1>4, <1>5, <1>6, <1>7, <1>8 DEF Next

(* insertion_order and entries stay two views of one table, through every  *)
(* reservation, eviction, storage, abort and recovery, for every           *)
(* configuration: the expects of evict_oldest_completed never fail.        *)
THEOREM OrderAlwaysMatches == Spec => []OrderMatchesEntries
<1>1. BooksInv => OrderMatchesEntries
  <2> SUFFICES ASSUME OrderSound(table) PROVE OrderMatchesEntries
    BY DEF BooksInv
  <2>1. {o.key : o \in Range(table.order)} = Present(table)
    BY DEF OrderSound, Range
  <2> QED
    BY <2>1 DEF OrderSound, OrderMatchesEntries
<1> QED
  BY <1>1, BooksStart, BooksKept, PTL DEF Spec

(* The table never passes a bound of the configuration in force, its byte  *)
(* counter is exactly the retained outcomes' bytes, and its sequence never *)
(* passes its width, for every configuration, request and log (begin,      *)
(* complete, evict_oldest_completed, abort, restore_completed).            *)
THEOREM AlwaysWithinBounds == Spec => []WithinBounds
<1>1. BooksInv => WithinBounds
  BY DEF BooksInv, Bounded, WithinBounds
<1> QED
  BY <1>1, BooksStart, BooksKept, PTL DEF Spec

---------------------------------------------------------------------------
(* What a step may take from the table.                                    *)

(* No completed entry of T goes without the older ones.                    *)
OldestFirst(T, U) ==
    \A j, k : /\ Completed(T, k) /\ k \notin Present(U)
              /\ Completed(T, j) /\ T.entries[j].seq < T.entries[k].seq
              => j \notin Present(U)

(* Eviction takes the completed entries from the front of the order        *)
(* (evict_oldest_completed).                                               *)
LEMMA EvictsOldestFirst ==
    ASSUME NEW T, OrderSound(T), NEW excluded, NEW n \in Int,
           NEW k \in Gone(T, excluded, n), NEW j, Completed(T, j), j \notin excluded,
           T.entries[j].seq < T.entries[k].seq
    PROVE  j \in Gone(T, excluded, n)
<1>1. PICK i \in Positions(T, excluded, n) : T.order[i].key = k
  BY DEF Gone
<1>2. PICK m \in DOMAIN T.order : T.order[m].key = j
  BY DEF OrderSound, Completed
<1>3. m \in Evictable(T, excluded) /\ i \in DOMAIN T.order
  BY <1>1, <1>2, PositionsAre DEF Evictable
<1>4. /\ T.order[m].seq < T.order[i].seq /\ m \in Nat /\ i \in Nat
      /\ T.order[m].seq \in Nat /\ T.order[i].seq \in Nat
  BY <1>1, <1>2, <1>3, OrderIs DEF OrderSound
<1>5. i < m => T.order[i].seq < T.order[m].seq
  BY <1>2, <1>3 DEF OrderSound
<1>6. m < i
  BY <1>4, <1>5
<1>7. m \in Positions(T, excluded, n)
  BY <1>1, <1>3, <1>6, PositionsAre
<1> QED
  BY <1>2, <1>7 DEF Gone

LEMMA ReserveOldestFirst ==
    ASSUME ConfigSound, NEW T, SoundTable(T), NEW k, Admits(T, k), NEW f
    PROVE  OldestFirst(T, Reserve(T, k, f))
<1> DEFINE E == Cleared(T)
           U == Reserve(T, k, f)
<1>1. Surplus(T) \in Int
  BY SlotFreed
<1>2. AfterReservation(T, U, k) /\ AfterEviction(T, E, {}, Surplus(T))
  BY ReservationIs, EvictionIs DEF SoundTable, Cleared
<1> HIDE DEF U
<1>3. Present(U) = Present(E) \cup {k}
  BY <1>2 DEF AfterReservation
<1>4. Present(E) = Present(T) \ Gone(T, {}, Surplus(T))
  BY <1>2 DEF AfterEviction
<1>5. k \notin Present(T)
  BY DEF Admits
<1> HIDE DEF E
<1>6. ASSUME NEW j, NEW i, Completed(T, i), i \notin Present(U),
             Completed(T, j), T.entries[j].seq < T.entries[i].seq
      PROVE  j \notin Present(U)
  <2>1. i \in Gone(T, {}, Surplus(T)) /\ j # k
    BY <1>3, <1>4, <1>5, <1>6 DEF Completed
  <2>2. j \in Gone(T, {}, Surplus(T))
    BY <1>1, <1>6, <2>1, EvictsOldestFirst DEF SoundTable
  <2> QED
    BY <1>3, <1>4, <2>1, <2>2
<1>7. OldestFirst(T, U)
  BY <1>6 DEF OldestFirst
<1> QED
  BY <1>7 DEF U

LEMMA StoreOldestFirst ==
    ASSUME ConfigSound, NEW T, SoundTable(T), NEW k, Reserved(T, k),
           NEW outcome \in Outcomes, Size[outcome] <= config.max_outcome
    PROVE  OldestFirst(T, Store(T, k, outcome))
<1> DEFINE E == MadeRoom(T, k, outcome)
           U == Store(T, k, outcome)
           n == Rounds(T, k, outcome)
<1>1. n \in Int
  BY RoomFound
<1>2. k \in Present(T) /\ IsEntry(T.entries[k]) /\ ~Completed(T, k)
  BY DEF Reserved, SoundTable, SoundEntries, SoundEntry, Completed
<1>3. AfterStorage(T, U, k, outcome) /\ AfterEviction(T, E, {k}, n)
  BY <1>2, StorageIs, EvictionIs DEF SoundTable, MadeRoom
<1> HIDE DEF U
<1>4. Present(U) = Present(E)
  BY <1>3 DEF AfterStorage
<1>5. Present(E) = Present(T) \ Gone(T, {k}, n)
  BY <1>3 DEF AfterEviction
<1> HIDE DEF E, n
<1>6. ASSUME NEW j, NEW i, Completed(T, i), i \notin Present(U),
             Completed(T, j), T.entries[j].seq < T.entries[i].seq
      PROVE  j \notin Present(U)
  <2>1. i \in Gone(T, {k}, n) /\ j \notin {k}
    BY <1>2, <1>4, <1>5, <1>6 DEF Completed
  <2>2. j \in Gone(T, {k}, n)
    BY <1>1, <1>6, <2>1, EvictsOldestFirst DEF SoundTable
  <2> QED
    BY <1>4, <1>5, <2>2
<1>7. OldestFirst(T, U)
  BY <1>6 DEF OldestFirst
<1> QED
  BY <1>7 DEF U

(* The steps of a running node that change its table.                      *)
LEMMA RunningSteps ==
    ASSUME Running, Next
    PROVE  \/ \E e \in Arrivals : DeliverNew(e)
           \/ \E e \in working : Fail(e) \/ \E outcome \in Outcomes : Finish(e, outcome)
           \/ UNCHANGED table
BY DEF Next, Running, Idle, DeliverReplay, AppendSucceeds, AppendRefused, AppendFails, Reply,
       FlushSucceeds, FlushFails, Stop, RestoreNext, Restart

(* Work in progress never loses its reservation to the eviction of other   *)
(* entries: a reserved key leaves only on its own, by its abort, for every *)
(* configuration and request (evict_oldest_completed, abort).              *)
THEOREM ReservationsAlwaysKept == Spec => ReservationsAreKept
<1> DEFINE Kept == \A k \in Keys : Reserved(table, k) /\ k \notin Present(table') =>
                      Present(table') = Present(table) \ {k}
<1>1. BooksInv /\ [Next]_vars => [Running => Kept]_vars
  <2> SUFFICES ASSUME FitInv, Next, Running PROVE Kept
    BY DEF BooksInv
  <2>1. ASSUME NEW e \in Arrivals, DeliverNew(e)
        PROVE  Kept
    <3>1. KeepsReserved(table, table')
      BY <2>1, DeliverNewIs
    <3> QED
      BY <3>1 DEF KeepsReserved, Reserved, Completed
  <2>2. ASSUME NEW e \in working, NEW outcome \in Outcomes, Finish(e, outcome)
        PROVE  Kept
    <3>1. KeepsReserved(table, table')
      BY <2>2, FinishIs
    <3> QED
      BY <3>1 DEF KeepsReserved, Reserved, Completed
  <2>3. ASSUME NEW e \in working, Fail(e)
        PROVE  Kept
    <3>1. Present(table') = Present(table) \ {Key(e)}
      BY <2>3, FailIs
    <3> QED
      BY <3>1 DEF Reserved
  <2>4. CASE UNCHANGED table
    BY <2>4 DEF Reserved, Present
  <2> QED
    BY <2>1, <2>2, <2>3, <2>4, RunningSteps
<1> QED
  BY <1>1, BooksStart, BooksKept, PTL DEF Spec, ReservationsAreKept

(* A completed entry never changes, and no completed entry leaves while an *)
(* older completed one stays, for every configuration and request          *)
(* (evict_oldest_completed).                                               *)
THEOREM OldestAlwaysLeavesFirst == Spec => OldestLeavesFirst
<1> DEFINE Leaves ==
        \A k \in Keys : Completed(table, k) =>
            IF k \in Present(table')
            THEN table'.entries[k] = table.entries[k]
            ELSE \A j \in Keys :
                    /\ Completed(table, j)
                    /\ table.entries[j].seq < table.entries[k].seq
                    => j \notin Present(table')
<1>1. BooksInv /\ [Next]_vars => [Running => Leaves]_vars
  <2> SUFFICES ASSUME BooksInv, Next, Running PROVE Leaves
    OBVIOUS
  <2>1. SoundTable(table) /\ ConfigSound /\ FitInv
    BY DEF BooksInv, FitInv, TableSound, SoundTable
  <2>2. ASSUME NEW e, Inherits(table, table', {Key(e)}), ~Completed(table, Key(e)),
               OldestFirst(table, table')
        PROVE  Leaves
    BY <2>2 DEF Inherits, OldestFirst
  <2>3. ASSUME NEW e \in Arrivals, DeliverNew(e)
        PROVE  Leaves
    <3>1. Inherits(table, table', {Key(e)}) /\ ~Completed(table, Key(e))
      BY <2>1, <2>3, DeliverNewIs DEF Completed
    <3>2. OldestFirst(table, table')
      BY <2>1, <2>3, ReserveOldestFirst DEF DeliverNew, Begin
    <3> QED
      BY <2>2, <3>1, <3>2
  <2>4. ASSUME NEW e \in working, NEW outcome \in Outcomes, Finish(e, outcome)
        PROVE  Leaves
    <3>1. Inherits(table, table', {Key(e)}) /\ ~Completed(table, Key(e))
      BY <2>1, <2>4, FinishIs DEF Completed, Reserved
    <3>2. OldestFirst(table, table')
      BY <2>1, <2>4, StoreOldestFirst DEF Finish, Complete, Matches
    <3> QED
      BY <2>2, <3>1, <3>2
  <2>5. ASSUME NEW e \in working, Fail(e)
        PROVE  Leaves
    <3>1. /\ Reserved(table, Key(e)) /\ Present(table') = Present(table) \ {Key(e)}
          /\ Inherits(table, table', {})
      BY <2>1, <2>5, FailIs
    <3> QED
      BY <3>1 DEF Inherits, Completed, Reserved
  <2>6. CASE UNCHANGED table
    BY <2>6 DEF Completed, Present
  <2> QED
    BY <2>3, <2>4, <2>5, <2>6, RunningSteps
<1> QED
  BY <1>1, BooksStart, BooksKept, PTL DEF Spec, OldestLeavesFirst

---------------------------------------------------------------------------
(* An answer is kept.  The table is followed through the log: whatever it  *)
(* holds for a key not forgotten is what the log holds for it, and the     *)
(* answers are in the log (AnswersAreLogged).                              *)

(* An answer's key is forgotten together with the answer.                  *)
AnswersRemembered ==
    \A a \in answers : \E c \in a.correlation :
        a.correlation = {c} /\ <<a.cluster, a.destination, c>> \notin forgotten

(* The log never holds two outcomes of one remembered key: it is written   *)
(* again only from the table.                                              *)
LogAgrees ==
    \A i, j \in DOMAIN completions :
        completions[i].key = completions[j].key /\ completions[i].key \notin forgotten
            => completions[i].outcome = completions[j].outcome

Holds(k, outcome) ==
    k \notin forgotten => Completed(table, k) /\ table.entries[k].state = outcome

StillHolds(k, outcome) ==
    k \notin forgotten' => Completed(table', k) /\ table'.entries[k].state = outcome

(* The records that recovery has reached are in the table, and until it is *)
(* done nothing else is.                                                   *)
LogRestored ==
    /\ phase # "down" =>
           \A i \in 1 .. Len(completions) - pending :
               Holds(completions[i].key, completions[i].outcome)
    /\ pending > 0 =>
           \A k \in Present(table) : Completed(table, k) =>
               \E i \in 1 .. Len(completions) - pending :
                   completions[i].key = k /\ completions[i].outcome = table.entries[k].state

(* What is being committed is in the table already.                        *)
CommitRetained ==
    /\ \A c \in current : Holds(Key(c.request), c.outcome)
    /\ phase \in {"down", "idle"} => current = {}
    /\ phase # "idle" => pending = 0

Retention == AnswersRemembered /\ LogAgrees /\ LogRestored /\ CommitRetained

RetainInv == AnswerInv /\ Retention

(* A call that leaves all but one key alone, with the evicted keys         *)
(* forgotten, keeps what is held for the others, and for a key that had no *)
(* outcome.                                                                *)
LEMMA HoldsKept ==
    ASSUME NEW k, Inherits(table, table', {k}),
           forgotten \subseteq forgotten', Evicted \subseteq forgotten',
           NEW j \in Keys, NEW outcome, Holds(j, outcome), j # k \/ ~Completed(table, j)
    PROVE  StillHolds(j, outcome)
<1> SUFFICES ASSUME j \notin forgotten'
             PROVE  Completed(table', j) /\ table'.entries[j].state = outcome
  BY DEF StillHolds
<1>1. Completed(table, j) /\ table.entries[j].state = outcome /\ j # k
  BY DEF Holds
<1>2. j \in Present(table')
  BY <1>1 DEF Evicted, Present
<1> QED
  BY <1>1, <1>2 DEF Inherits, Completed

(* Forgetting a key takes its answers along.                               *)
LEMMA ForgetKeeps ==
    ASSUME AnswersRemembered, NEW lost, Forget(lost)
    PROVE  AnswersRemembered' /\ forgotten \subseteq forgotten' /\ lost \subseteq forgotten'
<1>1. /\ forgotten' = forgotten \cup lost /\ answers' \subseteq answers
      /\ \A a \in answers' : <<a.cluster, a.destination, a.correlation>> \notin
                      {<<k[1], k[2], {k[3]}>> : k \in lost}
  BY DEF Forget
<1> SUFFICES ASSUME NEW a \in answers'
             PROVE  \E c \in a.correlation :
                       a.correlation = {c} /\ <<a.cluster, a.destination, c>> \notin forgotten'
  BY <1>1 DEF AnswersRemembered
<1>2. PICK c \in a.correlation :
         a.correlation = {c} /\ <<a.cluster, a.destination, c>> \notin forgotten
  BY <1>1 DEF AnswersRemembered
<1> DEFINE k == <<a.cluster, a.destination, c>>
<1>3. k[1] = a.cluster /\ k[2] = a.destination /\ k[3] = c
  OBVIOUS
<1>4. k \notin lost
  <2> SUFFICES ASSUME k \in lost PROVE FALSE
    OBVIOUS
  <2>1. <<k[1], k[2], {k[3]}>> \in {<<x[1], x[2], {x[3]}>> : x \in lost}
    OBVIOUS
  <2> QED
    BY <1>1, <1>2, <1>3, <2>1
<1> QED
  BY <1>1, <1>2, <1>4

(* The log's records are typed.                                            *)
LEMMA LogIs ==
    ASSUME FitInv
    PROVE  /\ DOMAIN completions = 1 .. Len(completions) /\ Len(completions) \in Nat
           /\ \A i \in DOMAIN completions :
                 completions[i] \in RecordType /\ completions[i].key \in Keys
<1>1. completions \in Seq(RecordType)
  BY DEF FitInv, LogTyped
<1>2. /\ DOMAIN completions = 1 .. Len(completions) /\ Len(completions) \in Nat
      /\ \A i \in DOMAIN completions : completions[i] \in RecordType
  BY <1>1
<1> QED
  BY <1>2 DEF RecordType

(* Where the log stays and recovery is over, what it holds stays held.     *)
LEMMA RetentionRemains ==
    ASSUME FitInv, LogAgrees, LogRestored, phase # "down", pending = 0,
           forgotten \subseteq forgotten', UNCHANGED <<completions, pending>>,
           \A j \in Keys : \A outcome : Holds(j, outcome) => StillHolds(j, outcome)
    PROVE  LogAgrees' /\ LogRestored'
<1>1. /\ DOMAIN completions = 1 .. Len(completions) /\ Len(completions) \in Nat
      /\ \A i \in DOMAIN completions : completions[i].key \in Keys
  BY LogIs
<1>2. LogAgrees'
  BY DEF LogAgrees
<1>3. ASSUME NEW i \in 1 .. Len(completions)
      PROVE  StillHolds(completions[i].key, completions[i].outcome)
  <2>1. completions[i].key \in Keys
    BY <1>1
  <2>2. Holds(completions[i].key, completions[i].outcome)
    BY <1>1 DEF LogRestored
  <2> QED
    BY <2>1, <2>2
<1> QED
  BY <1>1, <1>2, <1>3 DEF LogRestored, Holds, StillHolds

(* A request, a retry, the end of an evaluation.                           *)
LEMMA WorkKeepsRetention ==
    ASSUME RetainInv, NEW e,
           \/ e \in Arrivals /\ (DeliverNew(e) \/ DeliverReplay(e))
           \/ e \in working /\ (Fail(e) \/ \E outcome \in Outcomes : Finish(e, outcome))
    PROVE  Retention'
<1>1. Idle /\ phase # "down" /\ pending = 0 /\ UNCHANGED <<completions, pending>> /\ FitInv
  BY DEF DeliverNew, DeliverReplay, Fail, Finish, Idle, RetainInv, AnswerInv
<1>2. CASE DeliverReplay(e)
  <2>1. /\ UNCHANGED <<table, answers, forgotten>> /\ phase' = "append"
        /\ current' = {[request |-> e, outcome |-> table.entries[Key(e)].state]}
        /\ Completed(table, Key(e))
    BY <1>2 DEF DeliverReplay, Commit
  <2>2. CommitRetained'
    BY <1>1, <2>1 DEF CommitRetained, Holds
  <2> QED
    <3>1. AnswersRemembered' /\ LogAgrees'
      BY <1>1, <2>1 DEF RetainInv, Retention, AnswersRemembered, LogAgrees
    <3>2. LogRestored'
      BY <1>1, <2>1 DEF RetainInv, Retention, LogRestored, Holds
    <3> QED
      BY <2>2, <3>1, <3>2 DEF Retention
<1>3. CASE Fail(e)
  <2>1. /\ UNCHANGED <<phase, current, answers, forgotten>>
        /\ Reserved(table, Key(e)) /\ Present(table') = Present(table) \ {Key(e)}
        /\ Inherits(table, table', {})
    BY <1>1, <1>3, FailIs DEF Fail
  <2>2. \A j \in Keys : \A outcome : Holds(j, outcome) => StillHolds(j, outcome)
    BY <2>1 DEF Holds, StillHolds, Inherits, Completed, Reserved
  <2>3. LogAgrees' /\ LogRestored'
    BY <1>1, <2>1, <2>2, RetentionRemains DEF RetainInv, Retention
  <2>4. CommitRetained' /\ AnswersRemembered'
    BY <1>1, <2>1 DEF RetainInv, Retention, CommitRetained, AnswersRemembered, Idle
  <2> QED
    BY <2>3, <2>4 DEF Retention
<1>4. ASSUME DeliverNew(e) \/ \E outcome \in Outcomes : Finish(e, outcome)
      PROVE  /\ AnswersRemembered' /\ LogAgrees' /\ LogRestored'
             /\ UNCHANGED pending
  <2>1. AnswersRemembered' /\ forgotten \subseteq forgotten' /\ Evicted \subseteq forgotten'
    BY <1>4, ForgetKeeps DEF DeliverNew, Finish, RetainInv, Retention
  <2>2. ~Completed(table, Key(e)) /\ Inherits(table, table', {Key(e)})
    BY <1>1, <1>4, DeliverNewIs, FinishIs DEF Completed, Reserved
  <2>3. \A j \in Keys : \A outcome : Holds(j, outcome) => StillHolds(j, outcome)
    BY <2>1, <2>2, HoldsKept
  <2>4. LogAgrees' /\ LogRestored'
    BY <1>1, <2>1, <2>3, RetentionRemains DEF RetainInv, Retention
  <2> QED
    BY <1>1, <2>1, <2>4
<1>5. CASE DeliverNew(e)
  <2>1. UNCHANGED <<phase, current>>
    BY <1>5 DEF DeliverNew
  <2>2. CommitRetained'
    BY <1>1, <2>1 DEF RetainInv, Retention, CommitRetained, Idle
  <2> QED
    BY <1>4, <1>5, <2>2 DEF Retention
<1>6. ASSUME NEW outcome \in Outcomes, Finish(e, outcome)
      PROVE  Retention'
  <2>1. phase' = "append" /\ current' = {[request |-> e, outcome |-> outcome]}
    BY <1>6 DEF Finish, Commit
  <2>2. Completed(table', Key(e)) /\ table'.entries[Key(e)].state = outcome
    BY <1>1, <1>6, FinishIs DEF Completed
  <2>3. CommitRetained'
    BY <1>1, <2>1, <2>2 DEF CommitRetained, Holds
  <2> QED
    BY <1>4, <1>6, <2>3 DEF Retention
<1> QED
  BY <1>2, <1>3, <1>5, <1>6

(* A transition on its way to the log writes what the table holds.         *)
LEMMA CommitKeepsRetention ==
    ASSUME RetainInv, NEW c \in current,
           AppendSucceeds(c) \/ AppendRefused(c) \/ AppendFails(c) \/ Reply(c)
    PROVE  Retention'
<1>1. /\ UNCHANGED <<table, forgotten, pending>> /\ phase # "down" /\ phase' # "down"
      /\ phase # "idle" /\ pending = 0 /\ FitInv
  BY DEF AppendSucceeds, AppendRefused, AppendFails, Reply, Quiet, RetainInv, AnswerInv,
         Retention, CommitRetained
<1>2. /\ completions \in Seq(RecordType) /\ Len(completions) \in Nat
      /\ RecordOf(c) \in RecordType
      /\ RecordOf(c).key = Key(c.request) /\ RecordOf(c).outcome = c.outcome
  BY <1>1 DEF FitInv, LogTyped, Known, RecordOf, RecordType
<1>3. /\ \A i \in 1 .. Len(completions) : Holds(completions[i].key, completions[i].outcome)
      /\ Holds(Key(c.request), c.outcome)
  BY <1>1, <1>2 DEF RetainInv, Retention, LogRestored, CommitRetained
<1>4. ASSUME completions' = Append(completions, RecordOf(c))
      PROVE  LogAgrees' /\ LogRestored'
  <2>1. /\ Len(completions') = Len(completions) + 1
        /\ DOMAIN completions' = 1 .. Len(completions) + 1
        /\ completions'[Len(completions) + 1] = RecordOf(c)
        /\ \A i \in 1 .. Len(completions) : completions'[i] = completions[i]
    BY <1>2, <1>4
  <2>2. \A i \in DOMAIN completions' : Holds(completions'[i].key, completions'[i].outcome)
    BY <1>2, <1>3, <2>1
  <2>3. \A i \in DOMAIN completions' : StillHolds(completions'[i].key, completions'[i].outcome)
    BY <1>1, <2>2 DEF Holds, StillHolds
  <2>4. LogAgrees'
    BY <1>1, <2>2 DEF LogAgrees, Holds
  <2> QED
    BY <1>1, <1>2, <2>1, <2>3, <2>4 DEF LogRestored, Holds, StillHolds
<1>5. ASSUME completions' = completions
      PROVE  LogAgrees' /\ LogRestored'
  BY <1>1, <1>5 DEF RetainInv, Retention, LogAgrees, LogRestored, Holds
<1>6. LogAgrees' /\ LogRestored'
  BY <1>4, <1>5 DEF AppendSucceeds, AppendRefused, AppendFails, Reply, Log!Append1
<1>7. CommitRetained'
  <2>1. UNCHANGED current \/ current' = {}
    BY DEF AppendSucceeds, AppendRefused, AppendFails, Reply
  <2>2. phase' \in {"idle", "flush"} /\ (phase' = "idle" => current' = {})
    BY DEF AppendSucceeds, AppendRefused, AppendFails, Reply
  <2> QED
    BY <1>1, <2>1, <2>2 DEF RetainInv, Retention, CommitRetained, Holds
<1>8. AnswersRemembered'
  <2>1. CASE UNCHANGED answers
    BY <1>1, <2>1 DEF RetainInv, Retention, AnswersRemembered
  <2>2. CASE Reply(c)
    <3>1. PICK sent \in SUBSET Response(c.request, ResponseId, c.request.type, c.request.schema,
                                       c.outcome, limits.max_message) :
             answers' = IF Key(c.request) \in forgotten THEN answers ELSE answers \cup sent
      BY <2>2 DEF Reply
    <3>2. FromWire(c.request)
      BY DEF RetainInv, AnswerInv, CommitLogged
    <3>3. ASSUME NEW a \in sent
          PROVE  /\ a.correlation = {c.request.message}
                 /\ Key(c.request) = <<a.cluster, a.destination, c.request.message>>
      <4> DEFINE q == c.request
      <4>1. a \in Response(q, ResponseId, q.type, q.schema, c.outcome, limits.max_message)
        BY <3>1, <3>3
      <4> HIDE DEF q
      <4>2. a.correlation = {q.message} /\ Key(q) = <<a.cluster, a.destination, q.message>>
        BY <3>2, <4>1, ResponseAnnounces DEF q
      <4> QED
        BY <4>2 DEF q
    <3> QED
      BY <1>1, <3>1, <3>3 DEF RetainInv, Retention, AnswersRemembered
  <2> QED
    BY <2>1, <2>2 DEF AppendSucceeds, AppendRefused, AppendFails, Quiet
<1> QED
  BY <1>6, <1>7, <1>8 DEF Retention

(* One record of the recovery: its outcome is held from here on, unless    *)
(* its key is forgotten now.                                               *)
LEMMA RecoveryKeepsRetention ==
    ASSUME RetainInv, RestoreNext
    PROVE  Retention'
<1> DEFINE n == Len(completions) - pending + 1
           r == completions[n]
<1>1. /\ n \in DOMAIN completions /\ r \in RecordType
      /\ Inherits(table, table', {r.key})
      /\ IF Admits(table, r.key)
         THEN /\ r.key \in Present(table')
              /\ table'.entries[r.key].state =
                   IF Size[r.outcome] <= config.max_outcome THEN r.outcome ELSE InFlight
         ELSE table' = table
  BY RestoreNextIs DEF RetainInv, AnswerInv
<1>2. /\ Len(completions) \in Nat /\ pending \in 1 .. Len(completions)
      /\ \A i \in DOMAIN completions : completions[i].key \in Keys
      /\ DOMAIN completions = 1 .. Len(completions)
  BY LogIs DEF RetainInv, AnswerInv, FitInv, LogTyped, RestoreNext
<1>3. /\ UNCHANGED <<completions, phase, current>> /\ pending' = pending - 1
      /\ phase = "idle"
      /\ Forget(Evicted \cup {k \in {r.key} : ~Completed(table', k)})
  BY DEF RestoreNext
<1>4. /\ AnswersRemembered' /\ forgotten \subseteq forgotten' /\ Evicted \subseteq forgotten'
      /\ r.key \notin forgotten' => Completed(table', r.key)
  <2> DEFINE lost == Evicted \cup {k \in {r.key} : ~Completed(table', k)}
  <2>1. AnswersRemembered' /\ forgotten \subseteq forgotten' /\ lost \subseteq forgotten'
    BY <1>3, ForgetKeeps DEF RetainInv, Retention
  <2> QED
    BY <2>1
<1>5. LogAgrees /\ LogRestored /\ CommitRetained
  BY DEF RetainInv, Retention
<1>6. r.outcome # InFlight
  BY <1>1, InFlightAssumption DEF RecordType
<1>7. /\ n = Len(completions) - pending + 1
      /\ r = completions[n]
      /\ Len(completions) - pending' = n
  BY <1>2, <1>3
<1> HIDE DEF n, r
<1>8. LogAgrees'
  BY <1>3, <1>4, <1>5 DEF LogAgrees
<1>9. ASSUME NEW i \in 1 .. n - 1
      PROVE  StillHolds(completions[i].key, completions[i].outcome)
  <2> DEFINE k == completions[i].key
             o == completions[i].outcome
  <2>1. k \in Keys /\ Holds(k, o)
    BY <1>2, <1>3, <1>5, <1>7 DEF LogRestored
  <2>2. StillHolds(k, o)
    <3>1. CASE k = r.key /\ Completed(table, k)
      <4>1. table' = table
        BY <1>1, <3>1 DEF Admits, Completed
      <4> QED
        BY <1>4, <2>1, <4>1 DEF Holds, StillHolds
    <3>2. CASE k # r.key \/ ~Completed(table, k)
      BY <1>1, <1>4, <2>1, <3>2, HoldsKept
    <3> QED
      BY <3>1, <3>2
  <2> QED
    BY <2>2
<1>10. StillHolds(r.key, r.outcome)
  <2> SUFFICES ASSUME r.key \notin forgotten'
               PROVE  Completed(table', r.key) /\ table'.entries[r.key].state = r.outcome
    BY DEF StillHolds
  <2>1. Completed(table', r.key) /\ r.key \notin forgotten
    BY <1>4
  <2>2. CASE Admits(table, r.key)
    BY <1>1, <2>1, <2>2 DEF Completed
  <2>3. CASE ~Admits(table, r.key)
    <3>1. table' = table /\ r.key \in Present(table) /\ Completed(table, r.key)
      BY <1>1, <2>1, <2>3 DEF Completed
    <3>2. PICK i \in 1 .. Len(completions) - pending :
             completions[i].key = r.key /\ completions[i].outcome = table.entries[r.key].state
      BY <1>2, <1>5, <3>1 DEF LogRestored
    <3>3. i \in DOMAIN completions
      BY <1>2
    <3>4. completions[i].outcome = r.outcome
      BY <1>1, <1>5, <1>7, <2>1, <3>2, <3>3 DEF LogAgrees
    <3> QED
      BY <2>1, <3>1, <3>2, <3>4
  <2> QED
    BY <2>2, <2>3
<1>11. \A i \in 1 .. n : StillHolds(completions[i].key, completions[i].outcome)
  BY <1>1, <1>2, <1>7, <1>9, <1>10
<1>12. ASSUME NEW k \in Present(table'), Completed(table', k)
       PROVE  \E i \in 1 .. n :
                 completions[i].key = k /\ completions[i].outcome = table'.entries[k].state
  <2>1. CASE k = r.key /\ Admits(table, r.key)
    <3>1. table'.entries[k].state = r.outcome
      BY <1>1, <1>12, <2>1 DEF Completed
    <3> QED
      BY <1>1, <1>2, <1>7, <2>1, <3>1
  <2>2. CASE k # r.key \/ ~Admits(table, r.key)
    <3>1. /\ k \in Present(table) /\ Completed(table, k)
          /\ table'.entries[k] = table.entries[k]
      BY <1>1, <1>12, <2>2 DEF Inherits, Completed
    <3>2. PICK i \in 1 .. Len(completions) - pending :
             completions[i].key = k /\ completions[i].outcome = table.entries[k].state
      BY <1>2, <1>5, <3>1 DEF LogRestored
    <3> QED
      BY <1>2, <1>7, <3>1, <3>2
  <2> QED
    BY <2>1, <2>2
<1>13. LogRestored'
  BY <1>3, <1>7, <1>11, <1>12 DEF LogRestored, Holds, StillHolds
<1>14. CommitRetained'
  BY <1>3, <1>5 DEF CommitRetained
<1> QED
  BY <1>4, <1>8, <1>13, <1>14 DEF Retention

(* A flush, a stop and a start.                                            *)
LEMMA LifeKeepsRetention ==
    ASSUME RetainInv,
           FlushSucceeds \/ FlushFails \/ Stop \/ \E raw \in Files : Restart(raw)
    PROVE  Retention'
<1>1. /\ completions \in Seq(RecordType) /\ Len(completions) \in Nat
      /\ durable \in 0 .. Len(completions) /\ FitInv
      /\ AnswersRemembered /\ LogAgrees /\ LogRestored /\ CommitRetained
  BY DEF RetainInv, AnswerInv, Retention, FitInv, LogTyped
<1>2. CASE FlushSucceeds \/ FlushFails
  <2>1. /\ UNCHANGED <<completions, table, answers, forgotten, pending>>
        /\ \/ UNCHANGED current /\ phase' = "reply"
           \/ current' = {} /\ phase' = "idle"
        /\ phase = "flush"
    BY <1>2 DEF FlushSucceeds, FlushFails, Quiet, Log!Barrier
  <2>2. CommitRetained'
    BY <1>1, <2>1 DEF CommitRetained, Holds
  <2> QED
    <3>1. AnswersRemembered' /\ LogAgrees'
      BY <1>1, <2>1 DEF AnswersRemembered, LogAgrees
    <3>2. LogRestored'
      BY <1>1, <2>1 DEF LogRestored, Holds
    <3> QED
      BY <2>2, <3>1, <3>2 DEF Retention
<1>3. CASE Stop
  <2>1. PICK n \in durable .. Len(completions) : completions' = SubSeq(completions, 1, n)
    BY <1>3 DEF Stop, Log!Lose
  <2>2. /\ UNCHANGED <<answers, forgotten>> /\ phase' = "down" /\ current' = {} /\ pending' = 0
    BY <1>3 DEF Stop
  <2>3. \A i \in DOMAIN completions' :
           i \in DOMAIN completions /\ completions'[i] = completions[i]
    BY <1>1, <2>1
  <2>4. LogAgrees'
    BY <1>1, <2>2, <2>3 DEF LogAgrees
  <2>5. AnswersRemembered'
    BY <1>1, <2>2 DEF AnswersRemembered
  <2>6. LogRestored' /\ CommitRetained'
    BY <2>2 DEF LogRestored, CommitRetained
  <2> QED
    BY <2>4, <2>5, <2>6 DEF Retention
<1>4. ASSUME NEW raw \in Files, Restart(raw)
      PROVE  Retention'
  <2>1. /\ UNCHANGED <<completions, answers, forgotten, current, table>>
        /\ phase = "down" /\ phase' = "idle" /\ pending' = Len(completions)
    BY <1>4 DEF Restart, Log!Barrier
  <2>2. Present(table') = {}
    BY <1>1, <2>1 DEF FitInv, TableSound, Empty, Present
  <2>3. LogRestored'
    BY <1>1, <2>1, <2>2 DEF LogRestored
  <2>4. CommitRetained'
    BY <1>1, <2>1 DEF CommitRetained
  <2> QED
    BY <1>1, <2>1, <2>3, <2>4 DEF Retention, AnswersRemembered, LogAgrees
<1> QED
  BY <1>2, <1>3, <1>4

(* The invariant of AnswersAreRetained holds at the start and stays.        *)
LEMMA RetentionStarts == Init => RetainInv
BY AnswersStart DEF Init, RetainInv, Retention, AnswersRemembered, LogAgrees, LogRestored,
       CommitRetained

LEMMA RetentionKept == RetainInv /\ [Next]_vars => RetainInv'
<1> SUFFICES ASSUME RetainInv, [Next]_vars PROVE RetainInv'
  OBVIOUS
<1>1. AnswerInv'
  BY AnswersKept DEF RetainInv
<1>2. CASE UNCHANGED vars
  <2>1. UNCHANGED <<table, completions, pending, phase, current, answers, forgotten>>
    BY <1>2 DEF vars
  <2>2. /\ AnswersRemembered /\ LogAgrees /\ LogRestored /\ CommitRetained
    BY DEF RetainInv, Retention
  <2>3. AnswersRemembered' /\ LogAgrees'
    BY <2>1, <2>2 DEF AnswersRemembered, LogAgrees
  <2>4. CommitRetained'
    BY <2>1, <2>2 DEF CommitRetained, Holds
  <2>5. LogRestored'
    BY <2>1, <2>2 DEF LogRestored, Holds
  <2> QED
    BY <1>1, <2>3, <2>4, <2>5 DEF RetainInv, Retention
<1>3. CASE Next
  BY <1>1, <1>3, WorkKeepsRetention, CommitKeepsRetention, RecoveryKeepsRetention,
     LifeKeepsRetention DEF Next, RetainInv
<1> QED
  BY <1>2, <1>3

(* Once a response went out, the table holds exactly its outcome for its   *)
(* request, across failed appends, copies, retries and restarts, until the *)
(* key is evicted or recovery refuses it, for every request, log, failure  *)
(* and configuration (commit_transition, restore_completed, complete).     *)
THEOREM AnswersAreRetained == Spec => []AnsweredIsRetained
<1>1. RetainInv => AnsweredIsRetained
  <2> SUFFICES ASSUME RetainInv, Idle, NEW a \in answers
               PROVE  \E k \in Present(table), c \in a.correlation :
                         k = <<a.cluster, a.destination, c>> /\ table.entries[k].state = a.payload
    BY DEF AnsweredIsRetained
  <2>1. PICK i \in 1 .. durable, c \in a.correlation :
           /\ completions[i].key = <<a.cluster, a.destination, c>>
           /\ completions[i].outcome = a.payload
    BY DEF RetainInv, AnswerInv, AnswersAreLogged
  <2>2. <<a.cluster, a.destination, c>> \notin forgotten
    BY DEF RetainInv, Retention, AnswersRemembered
  <2>3. Holds(completions[i].key, completions[i].outcome)
    BY DEF RetainInv, AnswerInv, FitInv, LogTyped, Retention, LogRestored, Idle
  <2> QED
    BY <2>1, <2>2, <2>3 DEF Holds, Completed
<1> QED
  BY <1>1, RetentionStarts, RetentionKept, PTL DEF Spec

---------------------------------------------------------------------------
(* The clients see an idempotent service.                                  *)

(* An announcement stands for an answer.                                   *)
LEMMA AnnouncedIs ==
    ASSUME NEW x
    PROVE  x \in Announced <=>
              \E a \in answers : \E c \in a.correlation :
                  x = [key |-> <<a.cluster, a.destination, c>>, outcome |-> a.payload]
BY DEF Announced

(* One outcome per key: the outcome being committed is the one the table   *)
(* holds, the log holds no other, and every answer is in the log.          *)
LEMMA CommitsOneOutcome ==
    ASSUME RetainInv, NEW c \in current, phase # "idle", phase # "down",
           Key(c.request) \notin forgotten,
           NEW x \in Announced, x.key = Key(c.request)
    PROVE  x.outcome = c.outcome
<1>0. PICK a \in answers : \E d \in a.correlation :
         x = [key |-> <<a.cluster, a.destination, d>>, outcome |-> a.payload]
  BY AnnouncedIs
<1>1. PICK d \in a.correlation :
         x = [key |-> <<a.cluster, a.destination, d>>, outcome |-> a.payload]
  BY <1>0
<1>2. PICK i \in 1 .. durable, e \in a.correlation :
         /\ completions[i].key = <<a.cluster, a.destination, e>>
         /\ completions[i].outcome = a.payload
  BY DEF RetainInv, AnswerInv, AnswersAreLogged
<1>3. d = e
  <2>1. PICK b \in a.correlation : a.correlation = {b}
    BY DEF RetainInv, Retention, AnswersRemembered
  <2> QED
    BY <2>1
<1>4. completions[i].key = Key(c.request) /\ completions[i].outcome = x.outcome
  BY <1>1, <1>2, <1>3
<1>5. pending = 0 /\ Holds(Key(c.request), c.outcome)
  BY DEF RetainInv, Retention, CommitRetained
<1>6. Holds(completions[i].key, completions[i].outcome)
  BY <1>5 DEF RetainInv, AnswerInv, FitInv, LogTyped, Retention, LogRestored
<1> QED
  BY <1>4, <1>5, <1>6 DEF Holds

(* A response that goes out is an answer of the service.                   *)
LEMMA ReplyAnswers ==
    ASSUME RetainInv, NEW c \in current, Reply(c)
    PROVE  [Service!Next]_<<Announced, forgotten>>
<1> DEFINE q == c.request
           k == Key(q)
<1>1. PICK sent \in SUBSET Response(q, ResponseId, q.type, q.schema, c.outcome,
                                    limits.max_message) :
         answers' = IF k \in forgotten THEN answers ELSE answers \cup sent
  BY DEF Reply
<1>2. UNCHANGED forgotten /\ phase = "reply" /\ FromWire(q) /\ k \in Keys /\ c.outcome \in Outcomes
  BY DEF Reply, RetainInv, AnswerInv, CommitLogged, FitInv, LogTyped, Known
<1>3. CASE UNCHANGED answers
  BY <1>2, <1>3 DEF Announced
<1>4. ASSUME k \notin forgotten, NEW b \in sent
      PROVE  Service!Answer(k, c.outcome)
  <2>1. ASSUME NEW a \in sent
        PROVE  /\ a.correlation = {q.message} /\ a.payload = c.outcome
               /\ k = <<a.cluster, a.destination, q.message>>
    <3>1. a \in Response(q, ResponseId, q.type, q.schema, c.outcome, limits.max_message)
      BY <1>1, <2>1
    <3> HIDE DEF q
    <3> QED
      BY <1>2, <3>1, ResponseAnnounces DEF k
  <2>2. \A x \in Announced : x.key = k => x.outcome = c.outcome
    BY <1>2, <1>4, CommitsOneOutcome
  <2> HIDE DEF k, q
  <2>3. answers' = answers \cup sent
    BY <1>1, <1>4
  <2>4. ASSUME NEW x
        PROVE  x \in Announced' <=> x \in Announced \/ x = [key |-> k, outcome |-> c.outcome]
    <3>1. x \in Announced' <=>
             \E a \in answers' : \E d \in a.correlation :
                x = [key |-> <<a.cluster, a.destination, d>>, outcome |-> a.payload]
      BY DEF Announced
    <3> QED
      BY <1>4, <2>1, <2>3, <3>1, AnnouncedIs
  <2>5. Announced' = Announced \cup {[key |-> k, outcome |-> c.outcome]}
    BY <2>4
  <2> QED
    BY <1>2, <1>4, <2>2, <2>5 DEF Service!Answer
<1>5. CASE k \in forgotten \/ sent = {}
  BY <1>1, <1>3, <1>5
<1> QED
  BY <1>2, <1>4, <1>5 DEF Service!Next

(* A key that loses its outcome is forgotten by the service.               *)
LEMMA ForgetForgets ==
    ASSUME AnswersRemembered, NEW lost \in SUBSET Keys, Forget(lost)
    PROVE  Service!Next
<1>1. forgotten' = forgotten \cup lost
  BY DEF Forget
<1>2. ASSUME NEW x
      PROVE  x \in Announced' <=> x \in {y \in Announced : y.key \notin lost}
  <2>1. x \in Announced' <=>
           \E a \in answers' : \E c \in a.correlation :
              x = [key |-> <<a.cluster, a.destination, c>>, outcome |-> a.payload]
    BY DEF Announced
  <2>2. ASSUME NEW a \in answers, NEW c \in a.correlation
        PROVE  a \in answers' <=> <<a.cluster, a.destination, c>> \notin lost
    <3>1. a.correlation = {c}
      BY DEF AnswersRemembered
    <3>2. a \in answers' <=>
             ~ \E k \in lost : <<a.cluster, a.destination, {c}>> = <<k[1], k[2], {k[3]}>>
      BY <3>1 DEF Forget
    <3>3. ASSUME NEW k \in lost
          PROVE  <<a.cluster, a.destination, {c}>> = <<k[1], k[2], {k[3]}>>
                    <=> k = <<a.cluster, a.destination, c>>
      <4>1. k = <<k[1], k[2], k[3]>>
        BY KeysAssumption
      <4> QED
        BY <4>1
    <3> QED
      BY <3>2, <3>3
  <2> QED
    BY <2>1, <2>2, AnnouncedIs DEF Forget
<1>3. Announced' = {x \in Announced : x.key \notin lost}
  BY <1>2
<1>4. Service!Forget(lost)
  BY <1>1, <1>3 DEF Service!Forget
<1> QED
  BY <1>4 DEF Service!Next

(* The path implements the idempotent service, for every request, key,     *)
(* configuration, failure and restart: each step answers with the one      *)
(* outcome of the key, forgets keys, or does nothing the clients could     *)
(* tell (DedupTable, commit_transition, restore_completed).                *)
THEOREM ImplementsIdempotentService == Spec => PromiseKept
<1>1. Init => Service!Init
  BY DEF Init, Service!Init, Announced
<1>2. ASSUME RetainInv, [Next]_vars
      PROVE  [Service!Next]_<<Announced, forgotten>>
  <2>1. AnswersRemembered /\ FitInv
    BY <1>2 DEF RetainInv, Retention, AnswerInv
  <2>2. CASE UNCHANGED <<answers, forgotten>>
    BY <2>2 DEF Announced
  <2>3. CASE Forget(Evicted)
    <3>1. Evicted \in SUBSET Keys
      BY DEF Evicted
    <3> QED
      BY <2>1, <2>3, <3>1, ForgetForgets
  <2>4. CASE RestoreNext
    <3> DEFINE r == completions[Len(completions) - pending + 1]
               lost == Evicted \cup {k \in {r.key} : ~Completed(table', k)}
    <3>1. r.key \in Keys
      BY <2>1, <2>4, RestoreNextIs DEF RecordType
    <3>2. lost \in SUBSET Keys /\ Forget(lost)
      BY <2>4, <3>1 DEF RestoreNext, Evicted
    <3> HIDE DEF lost
    <3> QED
      BY <2>1, <3>2, ForgetForgets
  <2>5. ASSUME NEW c \in current, Reply(c)
        PROVE  [Service!Next]_<<Announced, forgotten>>
    BY <1>2, <2>5, ReplyAnswers
  <2>6. CASE UNCHANGED vars
    BY <2>2, <2>6 DEF vars
  <2>7. CASE Next
    <3>1. \/ UNCHANGED <<answers, forgotten>> \/ Forget(Evicted) \/ RestoreNext
          \/ \E c \in current : Reply(c)
      BY <2>7 DEF Next, DeliverNew, DeliverReplay, Fail, Finish, AppendSucceeds, AppendRefused,
             AppendFails, FlushSucceeds, FlushFails, Stop, Restart, Quiet
    <3> QED
      BY <2>2, <2>3, <2>4, <2>5, <3>1
  <2> QED
    BY <1>2, <2>6, <2>7
<1>3. RetainInv /\ [Next]_vars => [Service!Next]_<<Announced, forgotten>>
  BY <1>2
<1> QED
  BY <1>1, <1>3, RetentionStarts, RetentionKept, PTL
  DEF Spec, PromiseKept, Service!Spec, Service!svcVars

---------------------------------------------------------------------------
(* Every reservation has an owner.                                         *)

(* What ReservationsAreOwned asks for one reserved key.                    *)
Owned(k) ==
    \/ \E e \in working : Matches(k, Fingerprint(e)) /\ Key(e) = k
    \/ \E i \in DOMAIN completions :
          completions[i].key = k /\ Size[completions[i].outcome] > config.max_outcome

LogGrows ==
    \A i \in DOMAIN completions :
        i \in DOMAIN completions' /\ completions'[i] = completions[i]

(* A step that reserves no further key, keeps the log and ends the         *)
(* evaluations of one key only keeps the owners of the others.             *)
LEMMA OwnersRemain ==
    ASSUME ReservationsAreOwned, UNCHANGED config, LogGrows, NEW new,
           Inherits(table, table', new),
           NEW k \in Keys, Reserved(table', k), k \notin new,
           \A e \in working : Key(e) = k => e \in working'
    PROVE  Owned(k)'
<1>1. Reserved(table, k) /\ table'.entries[k].fingerprint = table.entries[k].fingerprint
  BY DEF Inherits, Reserved
<1>2. Owned(k)
  BY <1>1 DEF ReservationsAreOwned, Owned
<1>3. ASSUME NEW e \in working, Matches(k, Fingerprint(e)), Key(e) = k
      PROVE  e \in working' /\ Matches(k, Fingerprint(e))'
  BY <1>1, <1>3 DEF Matches
<1>4. CASE \E e \in working : Matches(k, Fingerprint(e)) /\ Key(e) = k
  BY <1>3, <1>4 DEF Owned
<1>5. CASE \E i \in DOMAIN completions :
              completions[i].key = k /\ Size[completions[i].outcome] > config.max_outcome
  BY <1>5 DEF Owned, LogGrows
<1> QED
  BY <1>2, <1>4, <1>5 DEF Owned

(* Committing a transition only adds records.                              *)
LEMMA CommitKeepsOwners ==
    ASSUME FitInv, ReservationsAreOwned,
           \/ \E c \in current :
                 AppendSucceeds(c) \/ AppendRefused(c) \/ AppendFails(c) \/ Reply(c)
           \/ FlushSucceeds \/ FlushFails
    PROVE  ReservationsAreOwned'
<1>1. completions \in Seq(RecordType)
  BY DEF FitInv, LogTyped
<1>2. UNCHANGED <<table, config, working>>
  BY DEF AppendSucceeds, AppendRefused, AppendFails, Reply, FlushSucceeds, FlushFails, Quiet
<1>3. completions' = completions \/ \E c \in current : completions' = Append(completions, RecordOf(c))
  BY DEF AppendSucceeds, AppendRefused, AppendFails, Reply, FlushSucceeds, FlushFails, Quiet,
         Log!Append1, Log!Barrier
<1>4. LogGrows
  <2>1. ASSUME NEW c \in current, completions' = Append(completions, RecordOf(c))
        PROVE  LogGrows
    <3>1. RecordOf(c) \in RecordType
      BY DEF FitInv, LogTyped, Known, RecordOf, RecordType
    <3> QED
      BY <1>1, <2>1, <3>1 DEF LogGrows
  <2> QED
    BY <1>3, <2>1 DEF LogGrows
<1>5. Inherits(table, table', {})
  BY <1>2 DEF Inherits
<1>6. ASSUME NEW k \in Keys, Reserved(table', k)
      PROVE  Owned(k)'
  BY <1>2, <1>4, <1>5, <1>6, OwnersRemain
<1> QED
  BY <1>6 DEF ReservationsAreOwned, Owned

(* A new key is owned by the request that brought it.                      *)
LEMMA DeliveryKeepsOwners ==
    ASSUME FitInv, ReservationsAreOwned, NEW e \in Arrivals, DeliverNew(e) \/ DeliverReplay(e)
    PROVE  ReservationsAreOwned'
<1>1. CASE DeliverNew(e)
  <2>1. /\ Inherits(table, table', {Key(e)})
        /\ table'.entries[Key(e)].fingerprint = Fingerprint(e)
    BY <1>1, DeliverNewIs
  <2>2. UNCHANGED <<config, completions>> /\ LogGrows /\ working' = working \cup {e}
    BY <1>1 DEF DeliverNew, LogGrows
  <2>3. ASSUME NEW k \in Keys, Reserved(table', k)
        PROVE  Owned(k)'
    <3>1. CASE k = Key(e)
      BY <2>1, <2>2, <2>3, <3>1 DEF Owned, Matches
    <3>2. CASE k # Key(e)
      BY <2>1, <2>2, <2>3, <3>2, OwnersRemain
    <3> QED
      BY <3>1, <3>2
  <2> QED
    BY <2>3 DEF ReservationsAreOwned, Owned
<1>2. CASE DeliverReplay(e)
  BY <1>2 DEF DeliverReplay, ReservationsAreOwned, Matches
<1> QED
  BY <1>1, <1>2

(* An evaluation that ends takes its own reservation along.                *)
LEMMA WorkKeepsOwners ==
    ASSUME FitInv, ReservationsAreOwned, NEW e \in working,
           Fail(e) \/ \E outcome \in Outcomes : Finish(e, outcome)
    PROVE  ReservationsAreOwned'
<1>1. Inherits(table, table', {Key(e)}) /\ ~Reserved(table', Key(e))
  <2>1. CASE Fail(e)
    BY <2>1, FailIs DEF Inherits, Reserved
  <2>2. ASSUME NEW outcome \in Outcomes, Finish(e, outcome)
        PROVE  Inherits(table, table', {Key(e)}) /\ ~Reserved(table', Key(e))
    BY <2>2, FinishIs DEF Reserved
  <2> QED
    BY <2>1, <2>2
<1>2. UNCHANGED <<config, completions>> /\ LogGrows /\ working' = working \ {e}
  BY DEF Fail, Finish, LogGrows
<1>3. ASSUME NEW k \in Keys, Reserved(table', k)
      PROVE  Owned(k)'
  BY <1>1, <1>2, <1>3, OwnersRemain
<1> QED
  BY <1>3 DEF ReservationsAreOwned, Owned

(* A stop and a start leave an empty table, and recovery reserves a key    *)
(* for good only when its logged outcome is over the limit.                *)
LEMMA LifeKeepsOwners ==
    ASSUME FitInv, ReservationsAreOwned, Stop \/ RestoreNext \/ \E raw \in Files : Restart(raw)
    PROVE  ReservationsAreOwned'
<1>1. CASE Stop \/ \E raw \in Files : Restart(raw)
  <2>1. table' = Empty
    BY <1>1 DEF Stop, Restart, FitInv, TableSound
  <2> QED
    BY <2>1 DEF ReservationsAreOwned, Reserved, Present, Empty
<1>2. CASE RestoreNext
  <2> DEFINE i == Len(completions) - pending + 1
             r == completions[i]
  <2>1. /\ i \in DOMAIN completions /\ r \in RecordType
        /\ Inherits(table, table', {r.key})
        /\ IF Admits(table, r.key)
           THEN table'.entries[r.key].state =
                    IF Size[r.outcome] <= config.max_outcome THEN r.outcome ELSE InFlight
           ELSE table' = table
    BY <1>2, RestoreNextIs
  <2>2. r.outcome # InFlight /\ Size[r.outcome] \in Nat
    BY <2>1, SizeAssumption, InFlightAssumption DEF RecordType
  <2>3. config.max_outcome \in Nat
    BY <1>2 DEF FitInv, LimitsInForce, RestoreNext
  <2>4. UNCHANGED <<config, completions, working>> /\ LogGrows
    BY <1>2 DEF RestoreNext, LogGrows
  <2> HIDE DEF i, r
  <2>5. ASSUME NEW k \in Keys, Reserved(table', k)
        PROVE  Owned(k)'
    <3>1. CASE k = r.key /\ Admits(table, r.key)
      <4>1. Size[r.outcome] > config.max_outcome
        BY <2>1, <2>2, <2>3, <2>5, <3>1 DEF Reserved
      <4> QED
        BY <2>1, <2>4, <3>1, <4>1 DEF Owned, r
    <3>2. CASE ~Admits(table, r.key)
      <4>1. Inherits(table, table', {})
        BY <2>1, <3>2 DEF Inherits
      <4> QED
        BY <2>4, <2>5, <4>1, OwnersRemain
    <3>3. CASE k # r.key
      BY <2>1, <2>4, <2>5, <3>3, OwnersRemain
    <3> QED
      BY <3>1, <3>2, <3>3
  <2> QED
    BY <2>5 DEF ReservationsAreOwned, Owned
<1> QED
  BY <1>1, <1>2

(* A reservation has an owner, for every request, log and configuration:   *)
(* the request whose evaluation will complete or abort it, or a logged     *)
(* outcome above the limit in force, the one case where nobody will        *)
(* (begin, complete, abort, restore_completed).                            *)
THEOREM ReservationsHaveOwners == Spec => []ReservationsAreOwned
<1> DEFINE OwnedInv == FitInv /\ ReservationsAreOwned
<1>1. Init => OwnedInv
  <2> SUFFICES ASSUME Init PROVE ReservationsAreOwned
    BY FitStarts
  <2> QED
    BY DEF Init, ReservationsAreOwned, Reserved, Present, Empty
<1>2. OwnedInv /\ [Next]_vars => OwnedInv'
  <2> SUFFICES ASSUME OwnedInv, [Next]_vars PROVE ReservationsAreOwned'
    BY FitKept
  <2>1. CASE UNCHANGED vars
    BY <2>1 DEF vars, ReservationsAreOwned, Matches
  <2>2. CASE Next
    BY <2>2, CommitKeepsOwners, DeliveryKeepsOwners, WorkKeepsOwners, LifeKeepsOwners DEF Next
  <2> QED
    BY <2>1, <2>2
<1> QED
  BY <1>1, <1>2, PTL DEF Spec

===========================================================================
