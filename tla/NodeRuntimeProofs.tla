------------------------- MODULE NodeRuntimeProofs -------------------------
(***************************************************************************)
(* Proofs about NodeRuntime for every event set, action count and bound:   *)
(* type correctness, WAL before effects, the order of the effects, and how *)
(* far the state an action reveals can be ahead of the log.                *)
(***************************************************************************)
EXTENDS NodeRuntime, FiniteSetTheorems, TLAPS

(* The strengthening: what the runtime has established at each phase of    *)
(* handle about the record of the current event.                           *)
CurrentIsLast == Len(log) > 0 /\ log[Len(log)] = current

CurrentIsApplied ==
    /\ current \in Recorded
    /\ Len(applied) > 0 /\ applied[Len(applied)] = current
    /\ Len(applied) \notin failed

PhaseInv ==
    /\ phase = "append" => CurrentIsApplied
    /\ phase = "flush" => CurrentIsLast
    /\ phase = "effects" =>
           ActionsOf[current] = 0 \/ (CurrentIsLast /\ durable = Len(log))

EffectsInv == TypeOK /\ PhaseInv /\ EffectsAreLogged

(* What power loss leaves of the log.                                      *)
LEMMA KeptPrefix ==
    ASSUME NEW S, NEW s \in Seq(S), NEW k \in 0 .. Len(s)
    PROVE  /\ SubSeq(s, 1, k) \in Seq(S)
           /\ Len(SubSeq(s, 1, k)) = k
           /\ \A i \in 1 .. k : SubSeq(s, 1, k)[i] = s[i]
  OBVIOUS

(* Appending keeps every record, and the prefixes made of them.            *)
LEMMA AppendedPrefix ==
    ASSUME NEW S, NEW s \in Seq(S), NEW e \in S
    PROVE  /\ Append(s, e) \in Seq(S)
           /\ Len(Append(s, e)) = Len(s) + 1
           /\ Append(s, e)[Len(s) + 1] = e
           /\ \A i \in 1 .. Len(s) : Append(s, e)[i] = s[i]
  OBVIOUS

(* A transition forsaken by handle is one of those applied.                *)
LEMMA ForsakenPosition ==
    ASSUME EffectsInv, phase = "append", Forsake, applied' = applied
    PROVE  failed' \subseteq 1 .. Len(applied')
  <1>1. Len(applied) \in Nat /\ Len(applied) > 0 /\ failed \subseteq 1 .. Len(applied)
    BY DEF EffectsInv, TypeOK, PhaseInv, CurrentIsApplied
  <1>2. failed' = failed \cup {Len(applied)}
    BY DEF Forsake
  <1>3. Len(applied) \in 1 .. Len(applied)
    BY <1>1
  <1> QED BY <1>1, <1>2, <1>3

(* The initial state satisfies the strengthening.                          *)
LEMMA InitEffectsInv == Init => EffectsInv
  <1> SUFFICES ASSUME Init PROVE EffectsInv
    OBVIOUS
  <1>1. << >> \in Seq(Recorded) /\ Len(<< >>) = 0
    OBVIOUS
  <1>2. poisoned \in BOOLEAN
    BY Zenon DEF Init
  <1> QED
    BY <1>1, <1>2 DEF Init, EffectsInv, TypeOK, PhaseInv, EffectsAreLogged, Phases, ExecutedType

(* Every step of the runtime preserves the strengthening.                  *)
LEMMA NextEffectsInv == EffectsInv /\ [Next]_vars => EffectsInv'
  <1> SUFFICES ASSUME EffectsInv, [Next]_vars PROVE EffectsInv'
    OBVIOUS
  <1> USE DEF EffectsInv
  <1>0. ActionsOf \in [Events -> Nat] /\ Recorded \subseteq Events
    BY ActionsAssumption, EventsAssumption
  <1>1. CASE Recover
    <2>1. log' = log /\ durable' = Len(log) /\ applied' = log
      BY <1>1 DEF Recover, Log!Barrier
    <2>b. poisoned' \in BOOLEAN
      BY <1>1, Zenon DEF Recover
    <2>2. TypeOK'
      BY <1>1, <2>1, <2>b DEF Recover, TypeOK, Phases
    <2>3. PhaseInv'
      BY <1>1 DEF Recover, PhaseInv
    <2>4. EffectsAreLogged'
      BY <1>1, <2>1 DEF Recover, TypeOK, EffectsAreLogged
    <2> QED BY <2>2, <2>3, <2>4
  <1>2. ASSUME NEW e \in Events, HandleRecorded(e) PROVE EffectsInv'
    <2>1. TypeOK'
      BY <1>2, AppendedPrefix DEF HandleRecorded, TypeOK, Phases, ExecutedType
    <2>2. /\ Len(applied') = Len(applied) + 1 /\ applied'[Len(applied)+ 1] = e
          /\ Len(applied) \in Nat /\ failed \subseteq 1 .. Len(applied)
      BY <1>2, AppendedPrefix DEF HandleRecorded, TypeOK
    <2>3. PhaseInv'
      BY <1>2, <2>2 DEF HandleRecorded, PhaseInv, CurrentIsApplied
    <2>4. EffectsAreLogged'
      BY <1>2 DEF HandleRecorded, EffectsAreLogged
    <2> QED BY <2>1, <2>3, <2>4
  <1>3. ASSUME NEW e \in Events, HandleUnrecorded(e) PROVE EffectsInv'
    <2>1. TypeOK'
      BY <1>3 DEF HandleUnrecorded, TypeOK, Phases, ExecutedType
    <2>2. PhaseInv'
      BY <1>0, <1>3 DEF HandleUnrecorded, PhaseInv
    <2>3. EffectsAreLogged'
      BY <1>3 DEF HandleUnrecorded, EffectsAreLogged
    <2> QED BY <2>1, <2>2, <2>3
  <1>4. CASE AppendRefused
    <2>1. failed' \subseteq 1 .. Len(applied')
      BY <1>4, ForsakenPosition DEF AppendRefused
    <2>2. TypeOK'
      BY <1>4, <2>1 DEF AppendRefused, Forsake, TypeOK, Phases, ExecutedType
    <2>3. PhaseInv' /\ EffectsAreLogged'
      BY <1>4 DEF AppendRefused, Forsake, PhaseInv, EffectsAreLogged
    <2> QED BY <2>2, <2>3
  <1>5. CASE AppendSucceeds
    <2>0. current \in Recorded /\ log \in Seq(Recorded) /\ durable \in 0 .. Len(log)
      BY <1>5 DEF AppendSucceeds, PhaseInv, CurrentIsApplied, TypeOK
    <2>1. log' = Append(log, current) /\ durable' \in {durable, Len(log')}
      BY <1>5 DEF AppendSucceeds, Log!Append1
    <2>2. /\ log' \in Seq(Recorded) /\ Len(log') = Len(log) + 1
          /\ log'[Len(log')] = current
          /\ \A i \in 1 .. Len(log) : log'[i] = log[i]
      BY <2>0, <2>1, AppendedPrefix
    <2>3. TypeOK'
      BY <1>5, <2>0, <2>1, <2>2 DEF AppendSucceeds, TypeOK, Phases, ExecutedType
    <2>4. PhaseInv'
      BY <1>5, <2>0, <2>2 DEF AppendSucceeds, PhaseInv, CurrentIsLast
    <2>5. EffectsAreLogged'
      BY <1>5, <2>0, <2>1, <2>2 DEF AppendSucceeds, EffectsAreLogged
    <2> QED BY <2>3, <2>4, <2>5
  <1>6. CASE AppendFails
    <2>0. current \in Recorded /\ log \in Seq(Recorded) /\ durable \in 0 .. Len(log)
      BY <1>6 DEF AppendFails, PhaseInv, CurrentIsApplied, TypeOK
    <2>1. log' = log \/ log' = Append(log, current)
      BY <1>6 DEF AppendFails
    <2>2. /\ log' \in Seq(Recorded) /\ Len(log') >= Len(log)
          /\ \A i \in 1 .. Len(log) : log'[i] = log[i]
      BY <2>0, <2>1, AppendedPrefix
    <2>f. failed' \subseteq 1 .. Len(applied')
      BY <1>6, ForsakenPosition DEF AppendFails
    <2>b. poisoned' \in BOOLEAN
      BY <1>6, Zenon DEF AppendFails
    <2>3. TypeOK'
      BY <1>6, <2>0, <2>2, <2>f, <2>b DEF AppendFails, Forsake, TypeOK, Phases, ExecutedType
    <2>4. PhaseInv'
      BY <1>6 DEF AppendFails, Forsake, PhaseInv
    <2>5. EffectsAreLogged'
      BY <1>6, <2>0, <2>2 DEF AppendFails, EffectsAreLogged
    <2> QED BY <2>3, <2>4, <2>5
  <1>7. CASE FlushSucceeds
    <2>1. TypeOK' /\ EffectsAreLogged'
      BY <1>7 DEF FlushSucceeds, Log!Barrier, TypeOK, Phases, ExecutedType, EffectsAreLogged
    <2>2. PhaseInv'
      BY <1>7 DEF FlushSucceeds, Log!Barrier, PhaseInv, CurrentIsLast
    <2> QED BY <2>1, <2>2
  <1>8. CASE FlushFails
    BY <1>8 DEF FlushFails, TypeOK, Phases, ExecutedType, PhaseInv, EffectsAreLogged
  <1>9. CASE RunAction
    <2>1. CurrentIsLast /\ durable = Len(log)
      BY <1>0, <1>9 DEF RunAction, PhaseInv, TypeOK
    <2>2. Ran \in ExecutedType
      <3>1. failed \in SUBSET Nat
        BY DEF TypeOK
      <3> QED BY <3>1 DEF TypeOK, ExecutedType, Ran
    <2>3. executed' = Append(executed, Ran) /\ executed \in Seq(ExecutedType)
      BY <1>9 DEF RunAction, TypeOK
    <2>4. /\ executed' \in Seq(ExecutedType) /\ Len(executed') = Len(executed) + 1
          /\ executed'[Len(executed) + 1] = Ran
          /\ \A i \in 1 .. Len(executed) : executed'[i] = executed[i]
      BY <2>2, <2>3, AppendedPrefix
    <2>5. TypeOK'
      BY <1>9, <2>4 DEF RunAction, TypeOK
    <2>6. PhaseInv'
      BY <1>9 DEF RunAction, PhaseInv, CurrentIsLast
    <2>7. Ran.lsn \in 1 .. durable /\ log[Ran.lsn] = Ran.event
      BY <2>1 DEF CurrentIsLast, TypeOK, Ran
    <2>8. EffectsAreLogged'
      BY <1>9, <2>3, <2>4, <2>7 DEF RunAction, EffectsAreLogged
    <2> QED BY <2>5, <2>6, <2>8
  <1>10. CASE Finish
    BY <1>10 DEF Finish, TypeOK, Phases, ExecutedType, PhaseInv, EffectsAreLogged
  <1>11. CASE Crash
    <2>1. << >> \in Seq(Recorded)
      OBVIOUS
    <2> QED
      BY <1>11, <2>1 DEF Crash, Stop, TypeOK, Phases, ExecutedType, PhaseInv, EffectsAreLogged
  <1>12. CASE PowerLoss
    <2>1. PICK k \in durable .. Len(log) : log' = SubSeq(log, 1, k)
      BY <1>12 DEF PowerLoss, Log!Lose
    <2>2. log \in Seq(Recorded) /\ durable \in 0 .. Len(log) /\ k \in 0 .. Len(log)
      BY DEF TypeOK
    <2>3. /\ log' \in Seq(Recorded) /\ Len(log') = k
          /\ \A i \in 1 .. k : log'[i] = log[i]
      BY <2>1, <2>2, KeptPrefix
    <2>4. << >> \in Seq(Recorded)
      OBVIOUS
    <2>5. durable' = durable /\ executed' = executed /\ phase' = "down"
      BY <1>12 DEF PowerLoss, Stop, Log!Lose
    <2>6. TypeOK'
      BY <1>12, <2>2, <2>3, <2>4, <2>5 DEF PowerLoss, Stop, TypeOK, Phases, ExecutedType
    <2>7. PhaseInv'
      BY <2>5 DEF PhaseInv
    <2>8. EffectsAreLogged'
      BY <2>2, <2>3, <2>5 DEF EffectsAreLogged
    <2> QED BY <2>6, <2>7, <2>8
  <1>13. CASE UNCHANGED vars
    BY <1>13 DEF vars, TypeOK, Phases, ExecutedType, PhaseInv, CurrentIsLast, CurrentIsApplied,
        EffectsAreLogged
  <1> QED
    BY <1>1, <1>2, <1>3, <1>4, <1>5, <1>6, <1>7, <1>8, <1>9, <1>10, <1>11, <1>12, <1>13
    DEF Next

(* WAL before effects: whatever fails or crashes, and in whatever order,   *)
(* every action that ran belongs to a record that is in the durable prefix *)
(* of the log at its LSN.                                                  *)
THEOREM WalBeforeEffects == Spec => [](TypeOK /\ EffectsAreLogged)
  <1>1. EffectsInv => TypeOK /\ EffectsAreLogged
    BY DEF EffectsInv
  <1> QED BY <1>1, InitEffectsInv, NextEffectsInv, PTL DEF Spec

---------------------------------------------------------------------------
(* Where the history of effects stands: behind the last record until its   *)
(* first action runs, then at its last action that ran.                    *)
OrderedSoFar ==
    /\ phase \in {"append", "flush"} => done = 0
    /\ phase = "flush" => \A i \in DOMAIN executed : executed[i].lsn < Len(log)
    /\ phase = "effects" /\ ActionsOf[current] > 0 =>
          IF done = 0 THEN \A i \in DOMAIN executed : executed[i].lsn < Len(log)
          ELSE /\ Len(executed) > 0
               /\ executed[Len(executed)].lsn = Len(log)
               /\ executed[Len(executed)].event = current
               /\ executed[Len(executed)].action = done

OrderInv == EffectsInv /\ OrderedSoFar /\ EffectsInOrder

(* Every step of the runtime keeps the order.                              *)
LEMMA NextOrderInv == OrderInv /\ [Next]_vars => OrderInv'
  <1> SUFFICES ASSUME OrderInv, [Next]_vars PROVE OrderInv'
    OBVIOUS
  <1>0. EffectsInv /\ EffectsInv' /\ done \in Nat /\ durable \in 0 .. Len(log) /\ Len(log) \in Nat
    BY NextEffectsInv DEF OrderInv, EffectsInv, TypeOK
  <1>1. CASE UNCHANGED executed /\ phase' \notin {"append", "flush", "effects"}
    BY <1>0, <1>1 DEF OrderInv, OrderedSoFar, EffectsInOrder
  <1>2. ASSUME NEW e \in Events, HandleRecorded(e) PROVE OrderInv'
    BY <1>0, <1>2 DEF HandleRecorded, OrderInv, OrderedSoFar, EffectsInOrder
  <1>3. ASSUME NEW e \in Events, HandleUnrecorded(e) PROVE OrderInv'
    BY <1>0, <1>3 DEF HandleUnrecorded, OrderInv, OrderedSoFar, EffectsInOrder
  <1>4. CASE AppendSucceeds
    <2>1. UNCHANGED <<executed, done, current>> /\ done = 0 /\ phase' = "flush"
      BY <1>4 DEF AppendSucceeds, OrderInv, OrderedSoFar
    <2>2. Len(log') = Len(log) + 1
      BY <1>0, <1>4, AppendedPrefix
      DEF AppendSucceeds, Log!Append1, EffectsInv, TypeOK, PhaseInv, CurrentIsApplied
    <2>3. \A i \in DOMAIN executed : executed[i].lsn \in 1 .. durable
      BY <1>0 DEF EffectsInv, EffectsAreLogged
    <2>4. OrderedSoFar'
      BY <1>0, <2>1, <2>2, <2>3 DEF OrderedSoFar
    <2> QED BY <1>0, <2>1, <2>4 DEF OrderInv, EffectsInOrder
  <1>5. CASE FlushSucceeds
    <2>1. UNCHANGED <<executed, done, current, log>> /\ done = 0 /\ phase = "flush"
      BY <1>5 DEF FlushSucceeds, Log!Barrier, OrderInv, OrderedSoFar
    <2> QED BY <1>0, <2>1 DEF OrderInv, OrderedSoFar, EffectsInOrder
  <1>6. CASE RunAction
    <2> DEFINE n == Len(executed)
    <2>1. /\ executed' = Append(executed, Ran) /\ done' = done + 1 /\ phase = "effects"
          /\ ActionsOf[current] > 0 /\ UNCHANGED <<log, current, phase>>
      BY <1>0, <1>6, ActionsAssumption DEF RunAction, EffectsInv, TypeOK
    <2>2. executed \in Seq(ExecutedType) /\ executed' \in Seq(ExecutedType)
      BY <1>0 DEF EffectsInv, TypeOK
    <2>3. /\ n \in Nat /\ Len(executed') = n + 1
          /\ executed'[n + 1] = Ran
          /\ \A i \in 1 .. n : executed'[i] = executed[i]
          /\ DOMAIN executed = 1 .. n /\ DOMAIN executed' = 1 .. n + 1
      BY <2>1, <2>2
    <2>4. Ran.lsn = Len(log) /\ Ran.event = current /\ Ran.action = done + 1
      BY DEF Ran
    <2> HIDE DEF n
    <2>5. IF done = 0 THEN \A i \in 1 .. n : executed[i].lsn < Len(log)
          ELSE /\ n > 0 /\ executed[n].lsn = Len(log)
               /\ executed[n].event = current /\ executed[n].action = done
      BY <2>1, <2>3 DEF OrderInv, OrderedSoFar, n
    <2>6. OrderedSoFar'
      BY <1>0, <2>1, <2>3, <2>4 DEF OrderedSoFar
    <2>7. ASSUME NEW i \in 1 .. n + 1
          PROVE  \/ /\ executed'[i].action = 1
                    /\ i > 1 => executed'[i - 1].lsn < executed'[i].lsn
                 \/ /\ i > 1
                    /\ executed'[i - 1].lsn = executed'[i].lsn
                    /\ executed'[i - 1].event = executed'[i].event
                    /\ executed'[i - 1].action = executed'[i].action - 1
      <3>1. CASE i \in 1 .. n
        <4>1. i > 1 => i - 1 \in 1 .. n
          BY <2>3, <3>1
        <4> QED BY <2>3, <3>1, <4>1 DEF OrderInv, EffectsInOrder
      <3>2. CASE i = n + 1
        <4>1. executed'[i] = Ran /\ i - 1 = n
          BY <2>3, <3>2
        <4>2. n > 0 => n \in 1 .. n /\ executed'[n] = executed[n]
          BY <2>3
        <4>3. CASE done = 0
          BY <2>3, <2>4, <2>5, <3>2, <4>1, <4>2, <4>3
        <4>4. CASE done # 0
          BY <1>0, <2>3, <2>4, <2>5, <3>2, <4>1, <4>2, <4>4
        <4> QED BY <4>3, <4>4
      <3> QED BY <2>3, <3>1, <3>2
    <2>8. EffectsInOrder'
      BY <2>3, <2>7 DEF EffectsInOrder
    <2> QED BY <1>0, <2>6, <2>8 DEF OrderInv
  <1>7. CASE UNCHANGED vars
    BY <1>0, <1>7 DEF vars, OrderInv, OrderedSoFar, EffectsInOrder
  <1> QED
    BY <1>1, <1>2, <1>3, <1>4, <1>5, <1>6, <1>7
    DEF Next, Recover, AppendRefused, AppendFails, Forsake, FlushFails, Finish, Crash,
        PowerLoss, Stop

(* Whatever fails, is dropped or restarts between them, the effects of the *)
(* whole run come transition after transition in the order of the log, the *)
(* actions of each from the first and without a gap, so no transition's    *)
(* actions run among another's and none run twice (commit_transition).     *)
THEOREM EffectsRunInOrder == Spec => []EffectsInOrder
  <1>1. Init => OrderInv
    BY InitEffectsInv DEF Init, OrderInv, OrderedSoFar, EffectsInOrder
  <1>2. OrderInv => EffectsInOrder
    BY DEF OrderInv
  <1> QED BY <1>1, <1>2, NextOrderInv, PTL DEF Spec

---------------------------------------------------------------------------
(* Accounted, for a log given as an argument.                              *)
AccountedIn(state, unlogged, lsn, lg) ==
    /\ Cardinality(Kept(state, unlogged)) = lsn
    /\ \A p \in Kept(state, unlogged) : state[p] = lg[Rank(state, unlogged, p)]

(* The places of the kept transitions are those of the log's records.      *)
LEMMA RankBounds ==
    ASSUME NEW S, NEW state \in Seq(S), NEW unlogged, NEW p \in Kept(state, unlogged)
    PROVE  /\ Cardinality(Kept(state, unlogged)) \in Nat
           /\ Rank(state, unlogged, p) \in 1 .. Cardinality(Kept(state, unlogged))
  <1> DEFINE K == Kept(state, unlogged)
             R == {q \in K : q <= p}
  <1>1. IsFiniteSet(1 .. Len(state))
    BY FS_Interval
  <1>2. IsFiniteSet(K)
    BY <1>1, FS_Subset DEF Kept
  <1>3. IsFiniteSet(R) /\ Cardinality(R) <= Cardinality(K)
    BY <1>2, FS_Subset
  <1>4. p \in R
    BY DEF Kept
  <1>5. Cardinality(R) # 0
    BY <1>3, <1>4, FS_EmptySet
  <1>6. Cardinality(R) \in Nat /\ Cardinality(K) \in Nat
    BY <1>2, <1>3, FS_CardinalityType
  <1> QED BY <1>3, <1>5, <1>6 DEF Rank

(* A transition without a record yet leaves the accounts as they were.     *)
LEMMA AccountedUnlogged ==
    ASSUME NEW S, NEW state \in Seq(S), NEW unlogged \in SUBSET (1 .. Len(state)), NEW e \in S,
           NEW lsn, NEW lg, AccountedIn(state, unlogged, lsn, lg)
    PROVE  AccountedIn(Append(state, e), unlogged \cup {Len(state) + 1}, lsn, lg)
  <1> DEFINE t == Append(state, e)
             u == unlogged \cup {Len(state) + 1}
  <1>1. Len(t) = Len(state) + 1 /\ Len(state) \in Nat /\ \A i \in 1 .. Len(state) : t[i] = state[i]
    BY AppendedPrefix
  <1> HIDE DEF t
  <1>2. Kept(t, u) = Kept(state, unlogged)
    BY <1>1 DEF Kept
  <1>3. ASSUME NEW p \in Kept(t, u) PROVE t[p] = lg[Rank(t, u, p)]
    <2>1. p \in 1 .. Len(state) /\ p \in Kept(state, unlogged)
      BY <1>2 DEF Kept
    <2>2. Rank(t, u, p) = Rank(state, unlogged, p)
      BY <1>2 DEF Rank
    <2> QED BY <1>1, <2>1, <2>2 DEF AccountedIn
  <1>4. AccountedIn(t, u, lsn, lg)
    BY <1>2, <1>3 DEF AccountedIn
  <1> QED BY <1>4 DEF t

(* The record of the last transition completes them.                       *)
LEMMA AccountedLogged ==
    ASSUME NEW S, NEW state \in Seq(S), NEW unlogged \in SUBSET (1 .. Len(state)),
           Len(state) > 0, Len(state) \notin unlogged, NEW lg \in Seq(S),
           AccountedIn(state, unlogged \cup {Len(state)}, Len(lg), lg)
    PROVE  AccountedIn(state, unlogged, Len(lg) + 1, Append(lg, state[Len(state)]))
  <1> DEFINE n == Len(state)
             u == unlogged \cup {n}
             K == Kept(state, u)
             L == Append(lg, state[n])
  <1>0. n \in Nat \ {0} /\ Len(lg) \in Nat /\ state[n] \in S
    OBVIOUS
  <1>1. /\ Len(L) = Len(lg) + 1 /\ L[Len(lg) + 1] = state[n]
        /\ \A i \in 1 .. Len(lg) : L[i] = lg[i]
    BY <1>0, AppendedPrefix
  <1> HIDE DEF L
  <1>2. Kept(state, unlogged) = K \cup {n} /\ n \notin K
    BY <1>0 DEF Kept
  <1>3. IsFiniteSet(K)
    <2>1. IsFiniteSet(1 .. n)
      BY FS_Interval
    <2> QED BY <2>1, FS_Subset DEF Kept
  <1>4. Cardinality(K) = Len(lg)
    BY DEF AccountedIn
  <1>5. Cardinality(Kept(state, unlogged)) = Len(lg) + 1
    BY <1>2, <1>3, <1>4, FS_AddElement
  <1>6. ASSUME NEW p \in Kept(state, unlogged) PROVE state[p] = L[Rank(state, unlogged, p)]
    <2>1. CASE p = n
      <3>1. {q \in Kept(state, unlogged) : q <= p} = Kept(state, unlogged)
        BY <1>0, <2>1 DEF Kept
      <3> QED BY <1>1, <1>5, <2>1, <3>1 DEF Rank
    <2>2. CASE p # n
      <3>1. p \in K /\ ~(n <= p)
        BY <1>0, <1>2, <2>2 DEF Kept
      <3>2. {q \in Kept(state, unlogged) : q <= p} = {q \in K : q <= p}
        BY <1>2, <3>1, Zenon
      <3>3. Rank(state, unlogged, p) = Rank(state, u, p)
        BY <3>2 DEF Rank
      <3>4. Rank(state, u, p) \in 1 .. Len(lg)
        BY <1>4, <3>1, RankBounds
      <3>5. state[p] = lg[Rank(state, u, p)]
        BY <3>1 DEF AccountedIn
      <3> QED BY <1>1, <3>3, <3>4, <3>5
    <2> QED BY <2>1, <2>2
  <1>7. AccountedIn(state, unlogged, Len(lg) + 1, L)
    BY <1>5, <1>6 DEF AccountedIn
  <1> QED BY <1>7 DEF L

(* A protocol rebuilt from the log is accounted for.                       *)
LEMMA AccountedRecovered ==
    ASSUME NEW S, NEW lg \in Seq(S) PROVE AccountedIn(lg, {}, Len(lg), lg)
  <1>1. Kept(lg, {}) = 1 .. Len(lg) /\ Len(lg) \in Nat
    BY DEF Kept
  <1>2. Cardinality(1 .. Len(lg)) = Len(lg)
    BY <1>1, FS_Interval
  <1>3. ASSUME NEW p \in 1 .. Len(lg) PROVE Rank(lg, {}, p) = p
    <2>1. {q \in Kept(lg, {}) : q <= p} = 1 .. p
      BY <1>1
    <2>2. Cardinality(1 .. p) = p
      BY FS_Interval
    <2> QED BY <2>1, <2>2 DEF Rank
  <1> QED BY <1>1, <1>2, <1>3 DEF AccountedIn

(* A log that keeps the records up to an action's keeps its accounts.      *)
LEMMA AccountedKept ==
    ASSUME NEW S, NEW state \in Seq(S), NEW unlogged, NEW lsn, NEW lg, NEW lg2,
           AccountedIn(state, unlogged, lsn, lg), \A i \in 1 .. lsn : lg2[i] = lg[i]
    PROVE  AccountedIn(state, unlogged, lsn, lg2)
  <1>1. ASSUME NEW p \in Kept(state, unlogged) PROVE state[p] = lg2[Rank(state, unlogged, p)]
    <2>1. Rank(state, unlogged, p) \in 1 .. lsn
      BY RankBounds DEF AccountedIn
    <2> QED BY <2>1 DEF AccountedIn
  <1> QED BY <1>1 DEF AccountedIn

---------------------------------------------------------------------------
(* The accounts at each phase: exact while the WAL accepts writes, with    *)
(* the transition being logged counted among the unlogged ones.  After a   *)
(* failed append or flush nothing is known of the file's end, and nothing  *)
(* more is revealed before the node is reopened.                           *)
Accounts ==
    /\ phase = "ready" => poisoned \/ AccountedIn(applied, failed, Len(log), log)
    /\ phase = "append" =>
           poisoned \/ AccountedIn(applied, failed \cup {Len(applied)}, Len(log), log)
    /\ phase = "flush" => AccountedIn(applied, failed, Len(log), log)
    /\ phase = "effects" =>
           \/ AccountedIn(applied, failed, Len(log), log)
           \/ poisoned /\ ActionsOf[current] = 0

RevealInv == EffectsInv /\ Accounts /\ RevealedStateIsAccounted

(* A step that keeps the records up to the frontier keeps the accounts of  *)
(* what earlier actions revealed.                                          *)
LEMMA RevealedKept ==
    ASSUME EffectsInv, RevealedStateIsAccounted, executed' = executed,
           \A i \in 1 .. durable : log'[i] = log[i]
    PROVE  RevealedStateIsAccounted'
  <1> SUFFICES ASSUME NEW i \in DOMAIN executed
               PROVE  AccountedIn(executed[i].state, executed[i].unlogged, executed[i].lsn, log')
    BY DEF RevealedStateIsAccounted, Accounted, AccountedIn
  <1>0. executed[i].lsn \in 1 .. durable
    BY DEF EffectsInv, EffectsAreLogged
  <1>1. executed[i].lsn \in 1 .. durable /\ durable \in Nat
    BY <1>0 DEF EffectsInv, TypeOK
  <1>e. executed[i] \in ExecutedType
    BY DEF EffectsInv, TypeOK
  <1>2. executed[i].state \in Seq(Recorded)
    BY <1>e DEF ExecutedType
  <1>3. AccountedIn(executed[i].state, executed[i].unlogged, executed[i].lsn, log)
    BY DEF RevealedStateIsAccounted, Accounted, AccountedIn
  <1>4. \A k \in 1 .. executed[i].lsn : log'[k] = log[k]
    BY <1>1
  <1> QED BY <1>2, <1>3, <1>4, AccountedKept

(* Every step of the runtime keeps the accounts.                           *)
LEMMA NextRevealInv == RevealInv /\ [Next]_vars => RevealInv'
  <1> SUFFICES ASSUME RevealInv, [Next]_vars PROVE RevealInv'
    OBVIOUS
  <1>0. EffectsInv /\ EffectsInv' /\ Accounts /\ RevealedStateIsAccounted
    BY NextEffectsInv DEF RevealInv
  <1>t. /\ log \in Seq(Recorded) /\ log' \in Seq(Recorded) /\ applied \in Seq(Recorded)
        /\ failed \in SUBSET (1 .. Len(applied)) /\ durable \in 0 .. Len(log)
    BY <1>0 DEF EffectsInv, TypeOK
  <1>k. ASSUME UNCHANGED <<log, executed>> PROVE RevealedStateIsAccounted'
    BY <1>0, <1>k, RevealedKept
  <1>1. CASE Recover
    <2>1. UNCHANGED <<log, executed>> /\ applied' = log /\ failed' = {} /\ phase' = "ready"
      BY <1>1 DEF Recover, Log!Barrier
    <2>2. Accounts'
      BY <1>t, <2>1, AccountedRecovered DEF Accounts
    <2> QED BY <1>0, <1>k, <2>1, <2>2 DEF RevealInv
  <1>2. ASSUME NEW e \in Events, HandleRecorded(e) PROVE RevealInv'
    <2>1. /\ UNCHANGED <<log, executed, poisoned, failed>> /\ phase = "ready" /\ phase' = "append"
          /\ applied' = Append(applied, e) /\ e \in Recorded
      BY <1>2 DEF HandleRecorded
    <2>2. Len(applied') = Len(applied) + 1
      BY <1>t, <2>1, AppendedPrefix
    <2>3. poisoned \/ AccountedIn(applied', failed \cup {Len(applied')}, Len(log), log)
      BY <1>0, <1>t, <2>1, <2>2, AccountedUnlogged DEF Accounts
    <2>4. Accounts'
      BY <2>1, <2>3 DEF Accounts
    <2> QED BY <1>0, <1>k, <2>1, <2>4 DEF RevealInv
  <1>3. ASSUME NEW e \in Events, HandleUnrecorded(e) PROVE RevealInv'
    <2>1. ActionsOf[e] \in Nat
      BY ActionsAssumption
    <2>2. /\ UNCHANGED <<log, executed, poisoned, failed, applied>> /\ phase = "ready"
          /\ phase' = IF ActionsOf[e] > 0 THEN "ready" ELSE "effects"
          /\ current' = e
      BY <1>3 DEF HandleUnrecorded
    <2>3. Accounts'
      BY <1>0, <2>1, <2>2 DEF Accounts
    <2> QED BY <1>0, <1>k, <2>2, <2>3 DEF RevealInv
  <1>4. CASE AppendRefused
    <2>1. /\ UNCHANGED <<log, executed, poisoned, applied>> /\ phase = "append" /\ phase' = "ready"
          /\ failed' = failed \cup {Len(applied)}
      BY <1>4 DEF AppendRefused, Forsake
    <2>2. Accounts'
      BY <1>0, <2>1 DEF Accounts
    <2> QED BY <1>0, <1>k, <2>1, <2>2 DEF RevealInv
  <1>5. CASE AppendSucceeds
    <2>1. /\ UNCHANGED <<executed, poisoned, failed, applied>> /\ phase = "append"
          /\ phase' = "flush" /\ ~poisoned /\ log' = Append(log, current)
          /\ current \in Recorded /\ Len(applied) > 0 /\ applied[Len(applied)] = current
          /\ Len(applied) \notin failed
      BY <1>0, <1>5
      DEF AppendSucceeds, Refused, Log!Append1, EffectsInv, PhaseInv, CurrentIsApplied
    <2>2. Len(log') = Len(log) + 1 /\ \A i \in 1 .. durable : log'[i] = log[i]
      BY <1>t, <2>1, AppendedPrefix
    <2>3. AccountedIn(applied, failed \cup {Len(applied)}, Len(log), log)
      BY <1>0, <2>1 DEF Accounts
    <2>4. AccountedIn(applied, failed, Len(log) + 1, Append(log, applied[Len(applied)]))
      BY <1>t, <2>1, <2>3, AccountedLogged
    <2>5. Accounts'
      BY <2>1, <2>2, <2>4 DEF Accounts
    <2> QED BY <1>0, <2>1, <2>2, <2>5, RevealedKept DEF RevealInv
  <1>6. CASE AppendFails
    <2>1. /\ executed' = executed /\ poisoned' /\ phase' = "ready"
          /\ log' \in {log, Append(log, current)} /\ current \in Recorded
      BY <1>0, <1>6 DEF AppendFails, Forsake, EffectsInv, PhaseInv, CurrentIsApplied
    <2>2. \A i \in 1 .. durable : log'[i] = log[i]
      <3>1. CASE log' = log
        BY <3>1
      <3>2. CASE log' = Append(log, current)
        BY <1>t, <2>1, <3>2, AppendedPrefix
      <3>3. QED
        BY <2>1, <3>1, <3>2
    <2>3. Accounts'
      BY <2>1 DEF Accounts
    <2> QED BY <1>0, <2>1, <2>2, <2>3, RevealedKept DEF RevealInv
  <1>7. CASE FlushSucceeds
    <2>1. UNCHANGED <<log, executed, applied, failed>> /\ phase = "flush" /\ phase' = "effects"
      BY <1>7 DEF FlushSucceeds, Log!Barrier
    <2>2. Accounts'
      BY <1>0, <2>1 DEF Accounts
    <2> QED BY <1>0, <1>k, <2>1, <2>2 DEF RevealInv
  <1>8. CASE FlushFails
    <2>1. UNCHANGED <<log, executed>> /\ phase' = "ready" /\ poisoned'
      BY <1>8 DEF FlushFails
    <2>2. Accounts'
      BY <2>1 DEF Accounts
    <2> QED BY <1>0, <1>k, <2>1, <2>2 DEF RevealInv
  <1>9. CASE RunAction
    <2>1. /\ executed' = Append(executed, Ran) /\ phase = "effects" /\ ActionsOf[current] > 0
          /\ UNCHANGED <<log, current, phase, applied, failed, poisoned>>
      BY <1>0, <1>9, ActionsAssumption DEF RunAction, EffectsInv, TypeOK
    <2>2. AccountedIn(applied, failed, Len(log), log)
      BY <1>0, <2>1 DEF Accounts
    <2>3. AccountedIn(Ran.state, Ran.unlogged, Ran.lsn, log)
      BY <2>2 DEF Ran
    <2>4. executed \in Seq(ExecutedType) /\ executed' \in Seq(ExecutedType)
      BY <1>0 DEF EffectsInv, TypeOK
    <2>5. /\ executed'[Len(executed) + 1] = Ran /\ DOMAIN executed = 1 .. Len(executed)
          /\ DOMAIN executed' = 1 .. Len(executed) + 1
          /\ \A i \in 1 .. Len(executed) : executed'[i] = executed[i]
      BY <2>1, <2>4
    <2>6. ASSUME NEW i \in DOMAIN executed'
          PROVE  AccountedIn(executed'[i].state, executed'[i].unlogged, executed'[i].lsn, log)
      <3>1. CASE i = Len(executed) + 1
        BY <2>3, <2>5, <3>1
      <3>2. CASE i \in DOMAIN executed
        BY <1>0, <2>5, <3>2 DEF RevealedStateIsAccounted, Accounted, AccountedIn
      <3> QED BY <2>4, <2>5, <3>1, <3>2
    <2>7. RevealedStateIsAccounted'
      BY <2>1, <2>6 DEF RevealedStateIsAccounted, Accounted, AccountedIn
    <2>8. Accounts'
      BY <1>0, <2>1 DEF Accounts
    <2> QED BY <1>0, <2>7, <2>8 DEF RevealInv
  <1>10. CASE Finish
    <2>1. /\ UNCHANGED <<log, executed, applied, failed, poisoned>>
          /\ phase = "effects" /\ phase' = "ready"
      BY <1>10 DEF Finish
    <2>2. Accounts'
      BY <1>0, <2>1 DEF Accounts
    <2> QED BY <1>0, <1>k, <2>1, <2>2 DEF RevealInv
  <1>11. CASE Crash
    <2>1. UNCHANGED <<log, executed>> /\ phase' = "down"
      BY <1>11 DEF Crash, Stop
    <2>2. Accounts'
      BY <2>1 DEF Accounts
    <2> QED BY <1>0, <1>k, <2>1, <2>2 DEF RevealInv
  <1>12. CASE PowerLoss
    <2>1. PICK k \in durable .. Len(log) : log' = SubSeq(log, 1, k)
      BY <1>12 DEF PowerLoss, Log!Lose
    <2>2. \A i \in 1 .. durable : log'[i] = log[i]
      BY <1>t, <2>1, KeptPrefix
    <2>3. executed' = executed /\ phase' = "down"
      BY <1>12 DEF PowerLoss, Stop
    <2>4. Accounts'
      BY <2>3 DEF Accounts
    <2> QED BY <1>0, <2>2, <2>3, <2>4, RevealedKept DEF RevealInv
  <1>13. CASE UNCHANGED vars
    <2>1. UNCHANGED <<log, executed>>
      BY <1>13 DEF vars
    <2>2. Accounts'
      BY <1>0, <1>13 DEF vars, Accounts
    <2> QED BY <1>0, <1>k, <2>1, <2>2 DEF RevealInv
  <1> QED
    BY <1>1, <1>2, <1>3, <1>4, <1>5, <1>6, <1>7, <1>8, <1>9, <1>10, <1>11, <1>12, <1>13
    DEF Next

(* Whatever the runtime's calls return and wherever it stops, an action    *)
(* reveals the records of the log up to its own and, beyond them, only the *)
(* transitions whose append returned an error since the last recovery,     *)
(* although the protocol is mutated before the append that may fail.       *)
THEOREM RevealedStateStaysAccounted == Spec => []RevealedStateIsAccounted
  <1>1. Init => RevealInv
    BY InitEffectsInv DEF Init, RevealInv, Accounts, RevealedStateIsAccounted
  <1>2. RevealInv => RevealedStateIsAccounted
    BY DEF RevealInv
  <1> QED BY <1>1, <1>2, NextRevealInv, PTL DEF Spec

===========================================================================
