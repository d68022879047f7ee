-------------------------- MODULE ConsoleServerProof --------------------------
(***************************************************************************)
(* The two halves of the console's server, which share no state: which     *)
(* user has which device (Claims), for every number of users, threads and  *)
(* ids, and what the browsers are shown (EventDispatcher), for every       *)
(* number of devices, threads, sessions and tokens.                        *)
(***************************************************************************)
EXTENDS Claims, EventDispatcher, TLAPS

-----------------------------------------------------------------------------
(* Claims.                                                                 *)

Creating(r)  == pc[r] \in {"register", "insert"}
Releasing(r) == pc[r] \in {"delete", "broadcast", "update", "again"}

HasTarget ==
    \A r \in Requests :
        /\ pc[r] \in {"claim", "delete", "broadcast"} => target[r] \in ClaimIds
        /\ pc[r] = "delete" => target[r] \in Simulators
        /\ pc[r] = "idle" => target[r] = NoId

\* A fresh simulator id belongs to the request that drew it, and to no row yet.
FreshIds ==
    \A r \in Requests : Creating(r) =>
        /\ target[r] \in Simulators
        /\ table[target[r]] = NoRow
        /\ minted[target[r]] = UserOf[r]
        /\ \A q \in Requests : target[q] = target[r] => q = r

\* Rows are never deleted, so the simulator that a claim or a release has read
\* still has its row.
KnownRows ==
    \A r \in Requests :
        (pc[r] = "claim" \/ Releasing(r)) /\ target[r] \in Simulators =>
            table[target[r]] # NoRow

\* A claim request that saw a simulator unclaimed saw one that is not in the
\* registry any more, or that one of the exceptions of NoStrandedDevice is about.
Abandoned ==
    \A r \in Requests :
        pc[r] = "claim" /\ target[r] \in registry \ failed =>
            found[r] /\ ~Sequential(minted[target[r]])

NoRowNoDevice ==
    \A s \in Simulators : minted[s] = Nobody => s \notin registry /\ table[s] = NoRow

\* While the only request of a user is a release, the user holds no other row.
OnlyTarget ==
    \A r \in Requests : Sequential(UserOf[r]) =>
        /\ pc[r] \in {"delete", "broadcast", "update"} => RowsOf(UserOf[r]) \subseteq {target[r]}
        /\ pc[r] = "again" => RowsOf(UserOf[r]) = {}

TargetTold ==
    \A r \in Requests : Sequential(UserOf[r]) =>
        (pc[r] = "update" /\ target[r] \in RowsOf(UserOf[r]) => target[r] \in told)

IndInv ==
    /\ TypeOK
    /\ OneClaimPerUser
    /\ DeviceGoneFirst
    /\ NoStrandedDevice
    /\ HasTarget
    /\ FreshIds
    /\ KnownRows
    /\ Abandoned
    /\ NoRowNoDevice
    /\ OnlyTarget
    /\ TargetTold

-----------------------------------------------------------------------------
(* The proof.                                                              *)

\* The state AutoLoadData leaves after the first start satisfies the invariant.
LEMMA InitIndInv == Init => IndInv
  BY UsersAssumption, NullAssumption, IdAssumption, MintAssumption
     DEF Init, IndInv, TypeOK, OneClaimPerUser, DeviceGoneFirst, NoStrandedDevice, HasTarget,
         FreshIds,
         KnownRows, Abandoned, NoRowNoDevice, OnlyTarget, TargetTold, Creating, Releasing,
         RowsOf, Steps, ClaimIds

\* Every step of a request, and a crash, preserves the invariant.
LEMMA NextIndInv == IndInv /\ [Next]_vars => IndInv'
  <1> SUFFICES ASSUME IndInv, [Next]_vars PROVE IndInv'
    OBVIOUS
  <1> USE UsersAssumption, NullAssumption, IdAssumption, MintAssumption
  <1>0. /\ TypeOK /\ OneClaimPerUser /\ DeviceGoneFirst /\ NoStrandedDevice /\ HasTarget /\ FreshIds
        /\ KnownRows /\ Abandoned /\ NoRowNoDevice /\ OnlyTarget /\ TargetTold
    BY DEF IndInv
  <1>1. ASSUME NEW r \in Requests, ClaimRead(r) PROVE IndInv'
    <2>1. TypeOK'
      <3>1. CASE Rollback(r) /\ UNCHANGED <<table, registry, minted, told, failed>>
        BY <1>0, <3>1 DEF TypeOK, Steps, ClaimIds, Rollback, Answer, Goto
      <3>2. ASSUME NEW id \in ClaimIds, Goto(r, "claim", id),
                   found' = [found EXCEPT ![r] = table[id] # NoRow],
                   UNCHANGED <<table, registry, minted, told, failed>>
            PROVE  TypeOK'
        <4>1. found' \in [Requests -> BOOLEAN]
          BY <1>0, <3>2, Zenon DEF TypeOK
        <4>2. QED
          BY <1>0, <3>2, <4>1 DEF TypeOK, Steps, Goto
      <3>3. QED
        BY <1>0, <1>1, <3>1, <3>2 DEF ClaimRead, StoredSimulators, ClaimIds
    <2>2. OneClaimPerUser'
      BY <1>0, <1>1 DEF OneClaimPerUser, ClaimRead, StoredSimulators, Goto, Answer, Rollback,
                        TypeOK, Steps, ClaimIds
    <2>3. DeviceGoneFirst'
      BY <1>0, <1>1 DEF DeviceGoneFirst, ClaimRead, StoredSimulators, Goto, Answer, Rollback,
                        TypeOK, Steps, ClaimIds
    <2>4. NoStrandedDevice'
      BY <1>0, <1>1 DEF NoStrandedDevice, Sequential, ClaimRead, StoredSimulators, Goto,
                        Answer, Rollback, TypeOK, Steps, ClaimIds
    <2>5. HasTarget'
      BY <1>0, <1>1 DEF HasTarget, ClaimRead, StoredSimulators, Goto, Answer, Rollback,
                        TypeOK, Steps, ClaimIds
    <2>6. FreshIds'
      BY <1>0, <1>1 DEF FreshIds, Creating, ClaimRead, StoredSimulators, Goto, Answer,
                        Rollback, TypeOK, Steps, ClaimIds
    <2>7. KnownRows'
      BY <1>0, <1>1 DEF KnownRows, Releasing, ClaimRead, StoredSimulators, Goto, Answer,
                        Rollback, TypeOK, Steps, ClaimIds
    <2>8. Abandoned'
      <3>1. CASE Rollback(r) /\ UNCHANGED <<registry, minted, failed>>
        BY <1>0, <3>1 DEF Abandoned, Sequential, TypeOK, Rollback, Answer, Goto
      <3>2. ASSUME NEW id \in Boards \cup Strays \cup StoredSimulators,
                   table[id] = Nobody \/ table[id] = NoRow,
                   Goto(r, "claim", id),
                   found' = [found EXCEPT ![r] = table[id] # NoRow],
                   UNCHANGED <<registry, minted, failed>>
            PROVE  Abandoned'
        <4>1. ASSUME id \in registry \ failed PROVE table[id] # NoRow /\ ~Sequential(minted[id])
          <5>1. id \in Simulators /\ table[id] = Nobody
            BY <1>0, <3>2, <4>1 DEF TypeOK, StoredSimulators
          <5>2. ~\E q \in Requests : pc[q] = "insert" /\ target[q] = id
            BY <1>0, <5>1 DEF FreshIds, Creating
          <5>3. minted[id] \in Users
            BY <1>0, <4>1, <5>1 DEF NoRowNoDevice, TypeOK
          <5>4. QED
            BY <1>0, <4>1, <5>1, <5>2, <5>3 DEF NoStrandedDevice
        <4>2. ASSUME NEW q \in Requests, pc'[q] = "claim", target'[q] \in registry' \ failed'
              PROVE  found'[q] /\ ~Sequential(minted'[target'[q]])
          <5>1. CASE q = r
            <6>1. target'[q] = id /\ found'[q] = (table[id] # NoRow)
              BY <1>0, <3>2, <5>1, Zenon DEF TypeOK, Goto
            <6>2. QED
              BY <3>2, <4>1, <4>2, <6>1
          <5>2. CASE q # r
            BY <1>0, <3>2, <4>2, <5>2 DEF Abandoned, TypeOK, Goto
          <5>3. QED
            BY <5>1, <5>2
        <4>3. QED
          BY <4>2 DEF Abandoned, Sequential
      <3>3. QED
        BY <1>0, <1>1, <3>1, <3>2 DEF ClaimRead
    <2>9. NoRowNoDevice'
      BY <1>0, <1>1 DEF NoRowNoDevice, ClaimRead, StoredSimulators, Goto, Answer, Rollback,
                        TypeOK, Steps, ClaimIds
    <2>10. OnlyTarget'
      BY <1>0, <1>1 DEF OnlyTarget, Sequential, RowsOf, ClaimRead, StoredSimulators, Goto,
                        Answer, Rollback, TypeOK, Steps, ClaimIds
    <2>11. TargetTold'
      BY <1>0, <1>1 DEF TargetTold, Sequential, RowsOf, ClaimRead, StoredSimulators, Goto,
                        Answer, Rollback, TypeOK, Steps, ClaimIds
    <2>12. QED
      BY <2>1, <2>2, <2>3, <2>4, <2>5, <2>6, <2>7, <2>8, <2>9, <2>10, <2>11 DEF IndInv
  <1>2. ASSUME NEW r \in Requests, ClaimCommit(r) PROVE IndInv'
    <2>1. TypeOK'
      <3>1. target[r] \in ClaimIds /\ UserOf[r] \in Users
        BY <1>0, <1>2 DEF ClaimCommit, HasTarget, ClaimIds
      <3>2. CASE CommitAccepted(r)
        BY <1>0, <1>2, <3>1, <3>2 DEF ClaimCommit, TypeOK, Steps, Answer, Goto
      <3>3. CASE ~CommitAccepted(r)
        BY <1>0, <1>2, <3>1, <3>3 DEF ClaimCommit, HasTarget, TypeOK, Steps, Rollback,
                                Answer, Goto
      <3>4. QED
        BY <3>2, <3>3
    <2>2. OneClaimPerUser'
      BY <1>0, <1>2 DEF OneClaimPerUser, ClaimCommit, CommitAccepted, UniqueIndex, RowsOf,
                        Goto, Answer, Rollback, TypeOK, Steps, ClaimIds
    <2>3. DeviceGoneFirst'
      BY <1>0, <1>2 DEF DeviceGoneFirst, ClaimCommit, CommitAccepted, UniqueIndex, RowsOf,
                        Goto, Answer, Rollback, TypeOK, Steps, ClaimIds
    <2>4. NoStrandedDevice'
      BY <1>0, <1>2 DEF NoStrandedDevice, Sequential, ClaimCommit, CommitAccepted,
                        UniqueIndex, RowsOf, Goto, Answer, Rollback, Abandoned, TypeOK,
                        Steps, ClaimIds
    <2>5. HasTarget'
      BY <1>0, <1>2 DEF HasTarget, ClaimCommit, CommitAccepted, UniqueIndex, RowsOf, Goto,
                        Answer, Rollback, TypeOK, Steps, ClaimIds
    <2>6. FreshIds'
      BY <1>0, <1>2 DEF FreshIds, Creating, ClaimCommit, CommitAccepted, UniqueIndex, RowsOf,
                        Goto, Answer, Rollback, TypeOK, Steps, ClaimIds
    <2>7. KnownRows'
      BY <1>0, <1>2 DEF KnownRows, Releasing, ClaimCommit, CommitAccepted, UniqueIndex,
                        RowsOf, Goto, Answer, Rollback, TypeOK, Steps, ClaimIds
    <2>8. Abandoned'
      BY <1>0, <1>2 DEF Abandoned, Sequential, ClaimCommit, CommitAccepted, UniqueIndex,
                        RowsOf, Goto, Answer, Rollback, TypeOK, Steps, ClaimIds
    <2>9. NoRowNoDevice'
      BY <1>0, <1>2 DEF NoRowNoDevice, ClaimCommit, CommitAccepted, UniqueIndex, RowsOf,
                        Goto, Answer, Rollback, KnownRows, TypeOK, Steps, ClaimIds
    <2>10. OnlyTarget'
      BY <1>0, <1>2 DEF OnlyTarget, Sequential, RowsOf, ClaimCommit, CommitAccepted,
                        UniqueIndex, Goto, Answer, Rollback, TypeOK, Steps, ClaimIds
    <2>11. TargetTold'
      BY <1>0, <1>2 DEF TargetTold, Sequential, RowsOf, ClaimCommit, CommitAccepted,
                        UniqueIndex, Goto, Answer, Rollback, TypeOK, Steps, ClaimIds
    <2>12. QED
      BY <2>1, <2>2, <2>3, <2>4, <2>5, <2>6, <2>7, <2>8, <2>9, <2>10, <2>11 DEF IndInv
  <1>3. ASSUME NEW r \in Requests, SimulatorRead(r) PROVE IndInv'
    <2>1. TypeOK'
      BY <1>0, <1>3 DEF TypeOK, Steps, ClaimIds, SimulatorRead, Minted, Goto
    <2>2. OneClaimPerUser'
      BY <1>0, <1>3 DEF OneClaimPerUser, SimulatorRead, Minted, Goto, TypeOK, Steps, ClaimIds
    <2>3. DeviceGoneFirst'
      BY <1>0, <1>3 DEF DeviceGoneFirst, SimulatorRead, Minted, Goto, TypeOK, Steps, ClaimIds
    <2>4. NoStrandedDevice'
      BY <1>0, <1>3 DEF NoStrandedDevice, Sequential, SimulatorRead, Minted, Goto,
                        NoRowNoDevice, TypeOK, Steps, ClaimIds
    <2>5. HasTarget'
      BY <1>0, <1>3 DEF HasTarget, SimulatorRead, Minted, Goto, TypeOK, Steps, ClaimIds
    <2>6. FreshIds'
      BY <1>0, <1>3 DEF FreshIds, Creating, SimulatorRead, Minted, Goto, NoRowNoDevice,
                        KnownRows, Releasing, HasTarget, TypeOK, Steps, ClaimIds
    <2>7. KnownRows'
      BY <1>0, <1>3 DEF KnownRows, Releasing, SimulatorRead, Minted, Goto, TypeOK, Steps,
                        ClaimIds
    <2>8. Abandoned'
      BY <1>0, <1>3 DEF Abandoned, Sequential, SimulatorRead, Minted, Goto, TypeOK, Steps,
                        ClaimIds
    <2>9. NoRowNoDevice'
      BY <1>0, <1>3 DEF NoRowNoDevice, SimulatorRead, Minted, Goto, TypeOK, Steps, ClaimIds
    <2>10. OnlyTarget'
      BY <1>0, <1>3 DEF OnlyTarget, Sequential, RowsOf, SimulatorRead, Minted, Goto, TypeOK,
                        Steps, ClaimIds
    <2>11. TargetTold'
      BY <1>0, <1>3 DEF TargetTold, Sequential, RowsOf, SimulatorRead, Minted, Goto, TypeOK,
                        Steps, ClaimIds
    <2>12. QED
      BY <2>1, <2>2, <2>3, <2>4, <2>5, <2>6, <2>7, <2>8, <2>9, <2>10, <2>11 DEF IndInv
  <1>4. ASSUME NEW r \in Requests, SimulatorRegister(r) PROVE IndInv'
    <2>1. TypeOK'
      BY <1>0, <1>4 DEF TypeOK, Steps, ClaimIds, SimulatorRegister, Goto, Answer, Rollback,
                        FreshIds, Creating
    <2>2. OneClaimPerUser'
      BY <1>0, <1>4 DEF OneClaimPerUser, SimulatorRegister, Goto, Answer, Rollback, TypeOK,
                        Steps, ClaimIds
    <2>3. DeviceGoneFirst'
      BY <1>0, <1>4 DEF DeviceGoneFirst, SimulatorRegister, Goto, Answer, Rollback, FreshIds,
                        Creating, KnownRows, Releasing, TypeOK, Steps, ClaimIds
    <2>4. NoStrandedDevice'
      BY <1>0, <1>4 DEF NoStrandedDevice, Sequential, SimulatorRegister, Goto, Answer,
                        Rollback, FreshIds, Creating, TypeOK, Steps, ClaimIds
    <2>5. HasTarget'
      BY <1>0, <1>4 DEF HasTarget, SimulatorRegister, Goto, Answer, Rollback, TypeOK, Steps,
                        ClaimIds
    <2>6. FreshIds'
      BY <1>0, <1>4 DEF FreshIds, Creating, SimulatorRegister, Goto, Answer, Rollback,
                        TypeOK, Steps, ClaimIds
    <2>7. KnownRows'
      BY <1>0, <1>4 DEF KnownRows, Releasing, SimulatorRegister, Goto, Answer, Rollback,
                        TypeOK, Steps, ClaimIds
    <2>8. Abandoned'
      BY <1>0, <1>4 DEF Abandoned, Sequential, SimulatorRegister, Goto, Answer, Rollback,
                        FreshIds, Creating, KnownRows, TypeOK, Steps, ClaimIds
    <2>9. NoRowNoDevice'
      BY <1>0, <1>4 DEF NoRowNoDevice, SimulatorRegister, Goto, Answer, Rollback, FreshIds,
                        Creating, TypeOK, Steps, ClaimIds
    <2>10. OnlyTarget'
      BY <1>0, <1>4 DEF OnlyTarget, Sequential, RowsOf, SimulatorRegister, Goto, Answer,
                        Rollback, TypeOK, Steps, ClaimIds
    <2>11. TargetTold'
      BY <1>0, <1>4 DEF TargetTold, Sequential, RowsOf, SimulatorRegister, Goto, Answer,
                        Rollback, TypeOK, Steps, ClaimIds
    <2>12. QED
      BY <2>1, <2>2, <2>3, <2>4, <2>5, <2>6, <2>7, <2>8, <2>9, <2>10, <2>11 DEF IndInv
  <1>5. ASSUME NEW r \in Requests, SimulatorCommit(r) PROVE IndInv'
    <2>1. TypeOK'
      <3>1. target[r] \in ClaimIds /\ UserOf[r] \in Users
        BY <1>0, <1>5 DEF SimulatorCommit, FreshIds, Creating, ClaimIds
      <3>2. CASE CommitAccepted(r)
        BY <1>0, <1>5, <3>1, <3>2 DEF SimulatorCommit, TypeOK, Steps, Answer, Goto
      <3>3. CASE ~CommitAccepted(r)
        BY <1>0, <1>5, <3>1, <3>3 DEF SimulatorCommit, FreshIds, Creating, TypeOK, Steps,
                                Rollback, Answer, Goto
      <3>4. QED
        BY <3>2, <3>3
    <2>2. OneClaimPerUser'
      BY <1>0, <1>5 DEF OneClaimPerUser, SimulatorCommit, CommitAccepted, UniqueIndex,
                        RowsOf, Goto, Answer, Rollback, TypeOK, Steps, ClaimIds
    <2>3. DeviceGoneFirst'
      BY <1>0, <1>5 DEF DeviceGoneFirst, SimulatorCommit, CommitAccepted, UniqueIndex,
                        RowsOf, Goto, Answer, Rollback, TypeOK, Steps, ClaimIds
    <2>4. NoStrandedDevice'
      BY <1>0, <1>5 DEF NoStrandedDevice, Sequential, SimulatorCommit, CommitAccepted,
                        UniqueIndex, RowsOf, Goto, Answer, Rollback, FreshIds, Creating,
                        TypeOK, Steps, ClaimIds
    <2>5. HasTarget'
      BY <1>0, <1>5 DEF HasTarget, SimulatorCommit, CommitAccepted, UniqueIndex, RowsOf,
                        Goto, Answer, Rollback, TypeOK, Steps, ClaimIds
    <2>6. FreshIds'
      BY <1>0, <1>5 DEF FreshIds, Creating, SimulatorCommit, CommitAccepted, UniqueIndex,
                        RowsOf, Goto, Answer, Rollback, TypeOK, Steps, ClaimIds
    <2>7. KnownRows'
      BY <1>0, <1>5 DEF KnownRows, Releasing, SimulatorCommit, CommitAccepted, UniqueIndex,
                        RowsOf, Goto, Answer, Rollback, TypeOK, Steps, ClaimIds
    <2>8. Abandoned'
      BY <1>0, <1>5 DEF Abandoned, Sequential, SimulatorCommit, CommitAccepted, UniqueIndex,
                        RowsOf, Goto, Answer, Rollback, TypeOK, Steps, ClaimIds
    <2>9. NoRowNoDevice'
      BY <1>0, <1>5 DEF NoRowNoDevice, SimulatorCommit, CommitAccepted, UniqueIndex, RowsOf,
                        Goto, Answer, Rollback, FreshIds, Creating, TypeOK, Steps, ClaimIds
    <2>10. OnlyTarget'
      BY <1>0, <1>5 DEF OnlyTarget, Sequential, RowsOf, SimulatorCommit, CommitAccepted,
                        UniqueIndex, Goto, Answer, Rollback, TypeOK, Steps, ClaimIds
    <2>11. TargetTold'
      BY <1>0, <1>5 DEF TargetTold, Sequential, RowsOf, SimulatorCommit, CommitAccepted,
                        UniqueIndex, Goto, Answer, Rollback, TypeOK, Steps, ClaimIds
    <2>12. QED
      BY <2>1, <2>2, <2>3, <2>4, <2>5, <2>6, <2>7, <2>8, <2>9, <2>10, <2>11 DEF IndInv
  <1>6. ASSUME NEW r \in Requests, ReleaseRead(r) PROVE IndInv'
    <2>1. TypeOK'
      BY <1>0, <1>6 DEF TypeOK, Steps, ClaimIds, ReleaseRead, FirstReleaseStep, RowsOf, Goto
    <2>2. OneClaimPerUser'
      BY <1>0, <1>6 DEF OneClaimPerUser, ReleaseRead, FirstReleaseStep, RowsOf, Goto, TypeOK,
                        Steps, ClaimIds
    <2>3. DeviceGoneFirst'
      BY <1>0, <1>6 DEF DeviceGoneFirst, ReleaseRead, FirstReleaseStep, RowsOf, Goto, TypeOK,
                        Steps, ClaimIds
    <2>4. NoStrandedDevice'
      BY <1>0, <1>6 DEF NoStrandedDevice, Sequential, ReleaseRead, FirstReleaseStep, RowsOf,
                        Goto, TypeOK, Steps, ClaimIds
    <2>5. HasTarget'
      BY <1>0, <1>6 DEF HasTarget, ReleaseRead, FirstReleaseStep, RowsOf, Goto, TypeOK,
                        Steps, ClaimIds
    <2>6. FreshIds'
      BY <1>0, <1>6 DEF FreshIds, Creating, ReleaseRead, FirstReleaseStep, RowsOf, Goto,
                        TypeOK, Steps, ClaimIds
    <2>7. KnownRows'
      BY <1>0, <1>6 DEF KnownRows, Releasing, ReleaseRead, FirstReleaseStep, RowsOf, Goto,
                        TypeOK, Steps, ClaimIds
    <2>8. Abandoned'
      BY <1>0, <1>6 DEF Abandoned, Sequential, ReleaseRead, FirstReleaseStep, RowsOf, Goto,
                        TypeOK, Steps, ClaimIds
    <2>9. NoRowNoDevice'
      BY <1>0, <1>6 DEF NoRowNoDevice, ReleaseRead, FirstReleaseStep, RowsOf, Goto, TypeOK,
                        Steps, ClaimIds
    <2>10. OnlyTarget'
      BY <1>0, <1>6 DEF OnlyTarget, Sequential, RowsOf, ReleaseRead, FirstReleaseStep, Goto,
                        OneClaimPerUser, TypeOK, Steps, ClaimIds
    <2>11. TargetTold'
      BY <1>0, <1>6 DEF TargetTold, Sequential, RowsOf, ReleaseRead, FirstReleaseStep, Goto,
                        TypeOK, Steps, ClaimIds
    <2>12. QED
      BY <2>1, <2>2, <2>3, <2>4, <2>5, <2>6, <2>7, <2>8, <2>9, <2>10, <2>11 DEF IndInv
  <1>7. ASSUME NEW r \in Requests, ReleaseDelete(r) PROVE IndInv'
    <2>1. TypeOK'
      BY <1>0, <1>7 DEF TypeOK, Steps, ClaimIds, ReleaseDelete, Goto, Answer, Rollback,
                        HasTarget
    <2>2. OneClaimPerUser'
      BY <1>0, <1>7 DEF OneClaimPerUser, ReleaseDelete, Goto, Answer, Rollback, TypeOK,
                        Steps, ClaimIds
    <2>3. DeviceGoneFirst'
      BY <1>0, <1>7 DEF DeviceGoneFirst, ReleaseDelete, Goto, Answer, Rollback, TypeOK,
                        Steps, ClaimIds
    <2>4. NoStrandedDevice'
      BY <1>0, <1>7 DEF NoStrandedDevice, Sequential, ReleaseDelete, Goto, Answer, Rollback,
                        TypeOK, Steps, ClaimIds
    <2>5. HasTarget'
      BY <1>0, <1>7 DEF HasTarget, ReleaseDelete, Goto, Answer, Rollback, TypeOK, Steps,
                        ClaimIds
    <2>6. FreshIds'
      BY <1>0, <1>7 DEF FreshIds, Creating, ReleaseDelete, Goto, Answer, Rollback, TypeOK,
                        Steps, ClaimIds
    <2>7. KnownRows'
      BY <1>0, <1>7 DEF KnownRows, Releasing, ReleaseDelete, Goto, Answer, Rollback, TypeOK,
                        Steps, ClaimIds
    <2>8. Abandoned'
      BY <1>0, <1>7 DEF Abandoned, Sequential, ReleaseDelete, Goto, Answer, Rollback, TypeOK,
                        Steps, ClaimIds
    <2>9. NoRowNoDevice'
      BY <1>0, <1>7 DEF NoRowNoDevice, ReleaseDelete, Goto, Answer, Rollback, TypeOK, Steps,
                        ClaimIds
    <2>10. OnlyTarget'
      BY <1>0, <1>7 DEF OnlyTarget, Sequential, RowsOf, ReleaseDelete, Goto, Answer,
                        Rollback, TypeOK, Steps, ClaimIds
    <2>11. TargetTold'
      BY <1>0, <1>7 DEF TargetTold, Sequential, RowsOf, ReleaseDelete, Goto, Answer,
                        Rollback, TypeOK, Steps, ClaimIds
    <2>12. QED
      BY <2>1, <2>2, <2>3, <2>4, <2>5, <2>6, <2>7, <2>8, <2>9, <2>10, <2>11 DEF IndInv
  <1>8. ASSUME NEW r \in Requests, ReleaseBroadcast(r) PROVE IndInv'
    <2>1. TypeOK'
      BY <1>0, <1>8 DEF TypeOK, Steps, ClaimIds, ReleaseBroadcast, Goto, HasTarget
    <2>2. OneClaimPerUser'
      BY <1>0, <1>8 DEF OneClaimPerUser, ReleaseBroadcast, Goto, TypeOK, Steps, ClaimIds
    <2>3. DeviceGoneFirst'
      BY <1>0, <1>8 DEF DeviceGoneFirst, ReleaseBroadcast, Goto, TypeOK, Steps, ClaimIds
    <2>4. NoStrandedDevice'
      BY <1>0, <1>8 DEF NoStrandedDevice, Sequential, ReleaseBroadcast, Goto, TypeOK, Steps,
                        ClaimIds
    <2>5. HasTarget'
      BY <1>0, <1>8 DEF HasTarget, ReleaseBroadcast, Goto, TypeOK, Steps, ClaimIds
    <2>6. FreshIds'
      BY <1>0, <1>8 DEF FreshIds, Creating, ReleaseBroadcast, Goto, TypeOK, Steps, ClaimIds
    <2>7. KnownRows'
      BY <1>0, <1>8 DEF KnownRows, Releasing, ReleaseBroadcast, Goto, TypeOK, Steps, ClaimIds
    <2>8. Abandoned'
      BY <1>0, <1>8 DEF Abandoned, Sequential, ReleaseBroadcast, Goto, TypeOK, Steps, ClaimIds
    <2>9. NoRowNoDevice'
      BY <1>0, <1>8 DEF NoRowNoDevice, ReleaseBroadcast, Goto, TypeOK, Steps, ClaimIds
    <2>10. OnlyTarget'
      BY <1>0, <1>8 DEF OnlyTarget, Sequential, RowsOf, ReleaseBroadcast, Goto, TypeOK,
                        Steps, ClaimIds
    <2>11. TargetTold'
      BY <1>0, <1>8 DEF TargetTold, Sequential, RowsOf, ReleaseBroadcast, Goto, TypeOK,
                        Steps, ClaimIds
    <2>12. QED
      BY <2>1, <2>2, <2>3, <2>4, <2>5, <2>6, <2>7, <2>8, <2>9, <2>10, <2>11 DEF IndInv
  <1>9. ASSUME NEW r \in Requests, ReleaseUpdate(r) PROVE IndInv'
    <2>1. TypeOK'
      BY <1>0, <1>9 DEF TypeOK, Steps, ClaimIds, ReleaseUpdate, Cleared, RowsOf, Goto
    <2>2. OneClaimPerUser'
      BY <1>0, <1>9 DEF OneClaimPerUser, ReleaseUpdate, Cleared, RowsOf, Goto, TypeOK, Steps,
                        ClaimIds
    <2>3. DeviceGoneFirst'
      BY <1>0, <1>9 DEF DeviceGoneFirst, ReleaseUpdate, Cleared, RowsOf, Goto, TypeOK, Steps,
                        ClaimIds
    <2>4. NoStrandedDevice'
      BY <1>0, <1>9 DEF NoStrandedDevice, Sequential, ReleaseUpdate, Cleared, RowsOf, Goto,
                        OnlyTarget, DeviceGoneFirst, TypeOK, Steps, ClaimIds
    <2>5. HasTarget'
      BY <1>0, <1>9 DEF HasTarget, ReleaseUpdate, Cleared, RowsOf, Goto, TypeOK, Steps, ClaimIds
    <2>6. FreshIds'
      BY <1>0, <1>9 DEF FreshIds, Creating, ReleaseUpdate, Cleared, RowsOf, Goto, TypeOK,
                        Steps, ClaimIds
    <2>7. KnownRows'
      BY <1>0, <1>9 DEF KnownRows, Releasing, ReleaseUpdate, Cleared, RowsOf, Goto, TypeOK,
                        Steps, ClaimIds
    <2>8. Abandoned'
      BY <1>0, <1>9 DEF Abandoned, Sequential, ReleaseUpdate, Cleared, RowsOf, Goto, TypeOK,
                        Steps, ClaimIds
    <2>9. NoRowNoDevice'
      BY <1>0, <1>9 DEF NoRowNoDevice, ReleaseUpdate, Cleared, RowsOf, Goto, TypeOK, Steps,
                        ClaimIds
    <2>10. OnlyTarget'
      BY <1>0, <1>9 DEF OnlyTarget, Sequential, RowsOf, ReleaseUpdate, Cleared, Goto, TypeOK,
                        Steps, ClaimIds
    <2>11. TargetTold'
      BY <1>0, <1>9 DEF TargetTold, Sequential, RowsOf, ReleaseUpdate, Cleared, Goto, TypeOK,
                        Steps, ClaimIds
    <2>12. QED
      BY <2>1, <2>2, <2>3, <2>4, <2>5, <2>6, <2>7, <2>8, <2>9, <2>10, <2>11 DEF IndInv
  <1>10. ASSUME NEW r \in Requests, ReleaseAgain(r) PROVE IndInv'
    <2>1. TypeOK'
      BY <1>0, <1>10 DEF TypeOK, Steps, ClaimIds, ReleaseAgain, Cleared, RowsOf, Goto, Answer
    <2>2. OneClaimPerUser'
      BY <1>0, <1>10 DEF OneClaimPerUser, ReleaseAgain, Cleared, RowsOf, Goto, Answer,
                         TypeOK, Steps, ClaimIds
    <2>3. DeviceGoneFirst'
      BY <1>0, <1>10 DEF DeviceGoneFirst, ReleaseAgain, Cleared, RowsOf, Goto, Answer,
                         TypeOK, Steps, ClaimIds
    <2>4. NoStrandedDevice'
      BY <1>0, <1>10 DEF NoStrandedDevice, Sequential, ReleaseAgain, Cleared, RowsOf, Goto,
                         Answer, OnlyTarget, TypeOK, Steps, ClaimIds
    <2>5. HasTarget'
      BY <1>0, <1>10 DEF HasTarget, ReleaseAgain, Cleared, RowsOf, Goto, Answer, TypeOK,
                         Steps, ClaimIds
    <2>6. FreshIds'
      BY <1>0, <1>10 DEF FreshIds, Creating, ReleaseAgain, Cleared, RowsOf, Goto, Answer,
                         TypeOK, Steps, ClaimIds
    <2>7. KnownRows'
      BY <1>0, <1>10 DEF KnownRows, Releasing, ReleaseAgain, Cleared, RowsOf, Goto, Answer,
                         TypeOK, Steps, ClaimIds
    <2>8. Abandoned'
      BY <1>0, <1>10 DEF Abandoned, Sequential, ReleaseAgain, Cleared, RowsOf, Goto, Answer,
                         TypeOK, Steps, ClaimIds
    <2>9. NoRowNoDevice'
      BY <1>0, <1>10 DEF NoRowNoDevice, ReleaseAgain, Cleared, RowsOf, Goto, Answer, TypeOK,
                         Steps, ClaimIds
    <2>10. OnlyTarget'
      BY <1>0, <1>10 DEF OnlyTarget, Sequential, RowsOf, ReleaseAgain, Cleared, Goto, Answer,
                         TypeOK, Steps, ClaimIds
    <2>11. TargetTold'
      BY <1>0, <1>10 DEF TargetTold, Sequential, RowsOf, ReleaseAgain, Cleared, Goto, Answer,
                         TypeOK, Steps, ClaimIds
    <2>12. QED
      BY <2>1, <2>2, <2>3, <2>4, <2>5, <2>6, <2>7, <2>8, <2>9, <2>10, <2>11 DEF IndInv
  <1>11. ASSUME Crash PROVE IndInv'
    <2>1. TypeOK'
      BY <1>0, <1>11 DEF TypeOK, Steps, ClaimIds, Crash, InFlightIds, AutoLoaded
    <2>2. OneClaimPerUser'
      BY <1>0, <1>11 DEF OneClaimPerUser, Crash, InFlightIds, AutoLoaded, TypeOK, Steps,
                         ClaimIds
    <2>3. DeviceGoneFirst'
      BY <1>0, <1>11 DEF DeviceGoneFirst, Crash, InFlightIds, AutoLoaded, TypeOK, Steps,
                         ClaimIds
    <2>4. NoStrandedDevice'
      BY <1>0, <1>11 DEF NoStrandedDevice, Sequential, Crash, InFlightIds, AutoLoaded,
                         TypeOK, Steps, ClaimIds
    <2>5. HasTarget'
      BY <1>0, <1>11 DEF HasTarget, Crash, InFlightIds, AutoLoaded, TypeOK, Steps, ClaimIds
    <2>6. FreshIds'
      BY <1>0, <1>11 DEF FreshIds, Creating, Crash, InFlightIds, AutoLoaded, TypeOK, Steps,
                         ClaimIds
    <2>7. KnownRows'
      BY <1>0, <1>11 DEF KnownRows, Releasing, Crash, InFlightIds, AutoLoaded, TypeOK, Steps,
                         ClaimIds
    <2>8. Abandoned'
      BY <1>0, <1>11 DEF Abandoned, Sequential, Crash, InFlightIds, AutoLoaded, TypeOK,
                         Steps, ClaimIds
    <2>9. NoRowNoDevice'
      BY <1>0, <1>11 DEF NoRowNoDevice, Crash, InFlightIds, AutoLoaded, TypeOK, Steps, ClaimIds
    <2>10. OnlyTarget'
      BY <1>0, <1>11 DEF OnlyTarget, Sequential, RowsOf, Crash, InFlightIds, AutoLoaded,
                         TypeOK, Steps, ClaimIds
    <2>11. TargetTold'
      BY <1>0, <1>11 DEF TargetTold, Sequential, RowsOf, Crash, InFlightIds, AutoLoaded,
                         TypeOK, Steps, ClaimIds
    <2>12. QED
      BY <2>1, <2>2, <2>3, <2>4, <2>5, <2>6, <2>7, <2>8, <2>9, <2>10, <2>11 DEF IndInv
  <1>12. CASE UNCHANGED vars
    BY <1>0, <1>12 DEF vars, IndInv, TypeOK, OneClaimPerUser, DeviceGoneFirst,
       NoStrandedDevice, HasTarget, FreshIds, KnownRows, Abandoned, NoRowNoDevice, OnlyTarget, TargetTold,
       Creating, Releasing, RowsOf
  <1>13. QED
    BY <1>1, <1>2, <1>3, <1>4, <1>5, <1>6, <1>7, <1>8, <1>9, <1>10, <1>11, <1>12 DEF Next

\* The invariant holds in every state the console reaches.
THEOREM Inductive == Spec => []IndInv
  BY InitIndInv, NextIndInv, PTL DEF Spec

-----------------------------------------------------------------------------
(* The results.                                                            *)

\* Every variable keeps its type, whatever the numbers of users, threads and ids.
THEOREM TypeCorrect == Spec => []TypeOK
  <1>1. IndInv => TypeOK
    BY DEF IndInv
  <1>2. QED
    BY Inductive, <1>1, PTL

\* No user ever holds two claims: the unique index and the commit that consults it.
THEOREM OneClaim == Spec => []OneClaimPerUser
  <1>1. IndInv => OneClaimPerUser
    BY DEF IndInv
  <1>2. QED
    BY Inductive, <1>1, PTL

\* Processor.releaseDevice frees a simulator's row only once its device is gone.
THEOREM DeviceGone == Spec => []DeviceGoneFirst
  <1>1. IndInv => DeviceGoneFirst
    BY DEF IndInv
  <1>2. QED
    BY Inductive, <1>1, PTL

\* Without failures and overlapping requests, no registry device is left behind.
THEOREM NothingStranded == Spec => []NoStrandedDevice
  <1>1. IndInv => NoStrandedDevice
    BY DEF IndInv
  <1>2. QED
    BY Inductive, <1>1, PTL

\* A claim ends by the user's own release, or by a claim for the same id.
THEOREM Sticks == Spec => ClaimSticks
  <1> DEFINE Lost(i) ==
        \E r \in Requests :
            \/ pc[r] \in {"update", "again"} /\ UserOf[r] = table[i] /\ table'[i] = Nobody
            \/ pc[r] = "claim" /\ target[r] = i /\ table'[i] = UserOf[r]
  <1>1. ASSUME IndInv, Next, NEW i \in ClaimIds, table[i] \in Users, table'[i] # table[i]
        PROVE  Lost(i)
    <2> USE UsersAssumption, NullAssumption
    <2>0. TypeOK /\ FreshIds
      BY <1>1 DEF IndInv
    <2>1. ASSUME NEW r \in Requests, ClaimCommit(r) PROVE Lost(i)
      BY <1>1, <2>0, <2>1 DEF ClaimCommit, TypeOK
    <2>2. ASSUME NEW r \in Requests, SimulatorCommit(r) PROVE Lost(i)
      BY <1>1, <2>0, <2>2 DEF SimulatorCommit, TypeOK, FreshIds, Creating
    <2>3. ASSUME NEW r \in Requests, ReleaseUpdate(r) PROVE Lost(i)
      BY <1>1, <2>0, <2>3 DEF ReleaseUpdate, Cleared, TypeOK
    <2>4. ASSUME NEW r \in Requests, ReleaseAgain(r) PROVE Lost(i)
      BY <1>1, <2>0, <2>4 DEF ReleaseAgain, Cleared, TypeOK
    <2>5. CASE Crash
      BY <1>1, <2>0, <2>5 DEF Crash, AutoLoaded, TypeOK
    <2>6. CASE UNCHANGED table
      BY <1>1, <2>6
    <2>7. QED
      BY <1>1, <2>1, <2>2, <2>3, <2>4, <2>5, <2>6
         DEF Next, ClaimRead, SimulatorRead, SimulatorRegister, ReleaseRead, ReleaseDelete,
             ReleaseBroadcast
  <1>2. IndInv /\ [Next]_vars =>
          [\A i \in ClaimIds : table[i] \in Users /\ table'[i] # table[i] => Lost(i)]_vars
    BY <1>1
  <1>3. QED
    BY Inductive, <1>2, PTL DEF Spec, ClaimSticks

\* The watchers of a device are told before its row becomes free.
THEOREM ToldFirst == Spec => ToldBeforeFreed
  <1> DEFINE Freed(i) == table[i] \in Users /\ Sequential(table[i]) /\ table'[i] = Nobody
  <1>1. ASSUME IndInv, Next, NEW i \in ClaimIds, Freed(i)
        PROVE  i \in told
    <2> USE UsersAssumption, NullAssumption
    <2>0. TypeOK /\ OnlyTarget /\ TargetTold /\ FreshIds
      BY <1>1 DEF IndInv
    <2>1. ASSUME NEW r \in Requests, ClaimCommit(r) PROVE FALSE
      BY <1>1, <2>0, <2>1 DEF ClaimCommit, TypeOK
    <2>2. ASSUME NEW r \in Requests, SimulatorCommit(r) PROVE FALSE
      BY <1>1, <2>0, <2>2 DEF SimulatorCommit, TypeOK
    <2>3. ASSUME NEW r \in Requests, ReleaseUpdate(r) PROVE i \in told
      <3>1. i \in RowsOf(UserOf[r]) /\ pc[r] = "update" /\ Sequential(UserOf[r])
        BY <1>1, <2>0, <2>3 DEF ReleaseUpdate, Cleared, RowsOf, TypeOK
      <3>2. QED
        BY <2>0, <3>1 DEF OnlyTarget, TargetTold
    <2>4. ASSUME NEW r \in Requests, ReleaseAgain(r) PROVE FALSE
      BY <1>1, <2>0, <2>4 DEF ReleaseAgain, Cleared, OnlyTarget, RowsOf, TypeOK
    <2>5. CASE Crash
      BY <1>1, <2>0, <2>5 DEF Crash, AutoLoaded, TypeOK
    <2>6. CASE UNCHANGED table
      BY <1>1, <2>6
    <2>7. QED
      BY <1>1, <2>1, <2>2, <2>3, <2>4, <2>5, <2>6
         DEF Next, ClaimRead, SimulatorRead, SimulatorRegister, ReleaseRead, ReleaseDelete,
             ReleaseBroadcast
  <1>2. IndInv /\ [Next]_vars => [\A i \in ClaimIds : Freed(i) => i \in told]_vars
    BY <1>1
  <1>3. QED
    BY Inductive, <1>2, PTL DEF Spec, ToldBeforeFreed

-----------------------------------------------------------------------------
(* Live events: what an attached session shows, that it never goes back,   *)
(* that a session has one subscription, and that closing it leaves none,   *)
(* each with the exceptions its property names.                            *)
(*                                                                         *)
(* Two arguments, about different variables.  Views: with no two           *)
(* broadcasts overlapping, what is in flight is the latest state, and a    *)
(* view that is not current waits for it.  Subscriptions: whoever finds no *)
(* identity while another token does is a twin, and a subscription that is *)
(* no twin is the one its session knows of.                                *)

SubTypes == Active \cup {"none", "ended", "cancelled"}

Types ==
    /\ version \in [Ids -> Nat]
    /\ sending \in [Broadcasters -> [id : Ids \cup {None}, version : Nat]]
    /\ claim   \in [Sessions -> Ids \cup {None}]
    /\ session \in [Sessions -> {"absent", "open", "closing", "closed"}]
    /\ identity \in [Sessions -> {"none", "valid", "expired"}]
    /\ current \in [Sessions -> Tokens \cup {None}]
    /\ auth    \in [Tokens -> {"unsent", "check", "set", "done"}]
    /\ sub     \in [Tokens -> SubTypes]
    /\ device  \in [Tokens -> Ids \cup {None}]
    /\ view    \in [Tokens -> Nat]
    /\ \A t \in Tokens : sub[t] \in {"read", "attach", "live"} => device[t] \in Ids
    /\ \A b \in Broadcasters : sending[b] # Idle => sending[b].id \in Ids

-----------------------------------------------------------------------------
(* The views.                                                              *)

(* Without an overlap one thread at most has a state of a device to send,  *)
(* the latest one.                                                         *)
Flight ==
    \A b \in Broadcasters :
        sending[b] # Idle =>
            /\ sending[b].version <= version[sending[b].id]
            /\ sending[b].id \notin crossed =>
                  /\ sending[b].version = version[sending[b].id]
                  /\ \A other \in Broadcasters : sending[other].id = sending[b].id => other = b

Current ==
    \A t \in Tokens :
        sub[t] \in {"attach", "live"} =>
            /\ view[t] <= version[device[t]]
            /\ t \notin missed /\ device[t] \notin crossed =>
                  view[t] = version[device[t]] \/ \E b \in Broadcasters : sending[b].id = device[t]

Unread == \A t \in Tokens : sub[t] \in {"none", "claim", "read"} => view[t] = 0

ViewInv == Types /\ Flight /\ Current /\ Unread

-----------------------------------------------------------------------------
(* The subscriptions.                                                      *)

Same(t, u) == t # u /\ SessionOf[t] = SessionOf[u]

(* Tokens that found no identity, before or after they have subscribed.    *)
First(t) == auth[t] = "set" \/ sub[t] # "none"

Twins == \A t, u \in Tokens : Same(t, u) /\ First(t) /\ First(u) => {t, u} \subseteq twin

Known ==
    \A t \in Tokens :
        /\ sub[t] # "none" => identity[SessionOf[t]] # "none" /\ auth[t] = "done"
        /\ sub[t] \in Active /\ session[SessionOf[t]] # "closed" =>
              t \in twin \/ current[SessionOf[t]] = t
        /\ session[SessionOf[t]] = "closed" /\ auth[t] \in {"check", "set"} => t \in late

SubInv == Types /\ Twins /\ Known /\ NothingLeaks

-----------------------------------------------------------------------------
LEMMA InitViews == ASSUME EventsInit PROVE ViewInv
BY NoneAssumption DEF EventsInit, ViewInv, Types, Flight, Current, Unread, Idle, SubTypes

LEMMA InitSubs == ASSUME EventsInit PROVE SubInv
BY NoneAssumption, SessionOfAssumption DEF EventsInit, SubInv, Types, Twins, Known,
                        NothingLeaks, First, Idle, SubTypes, Active

LEMMA StoreKeeps == ASSUME ViewInv, NEW b \in Broadcasters, Store(b) PROVE ViewInv'
<1> USE DEF ViewInv
<1>1. PICK i \in Ids :
        /\ version' = [version EXCEPT ![i] = @ + 1]
        /\ sending' = [sending EXCEPT ![b] = [id |-> i, version |-> version[i] + 1]]
        /\ crossed' = IF InFlight(i) = {} THEN crossed \ {i} ELSE crossed \cup {i}
    BY DEF Store
<1>2. sending[b] = Idle /\ UNCHANGED <<claim, sessionVars, subVars>>
    BY DEF Store
<1>3. i # None
    BY NoneAssumption
<1>4. Types'
    BY <1>1, <1>2, <1>3 DEF Types, sessionVars, subVars, Idle
<1>5. Flight'
    <2> SUFFICES ASSUME NEW a \in Broadcasters, sending'[a] # Idle
                 PROVE  /\ sending'[a].version <= version'[sending'[a].id]
                        /\ sending'[a].id \notin crossed' =>
                              /\ sending'[a].version = version'[sending'[a].id]
                              /\ \A other \in Broadcasters :
                                    sending'[other].id = sending'[a].id => other = a
        BY DEF Flight
    <2>1. CASE a = b
        BY <1>1, <1>3, <2>1 DEF Types, InFlight
    <2>2. CASE a # b /\ sending[a].id = i
        BY <1>1, <2>2 DEF Types, Flight, InFlight
    <2>3. CASE a # b /\ sending[a].id # i
        BY <1>1, <2>3 DEF Types, Flight
    <2> QED
        BY <2>1, <2>2, <2>3
<1>6. Current'
    <2> SUFFICES ASSUME NEW t \in Tokens, sub'[t] \in {"attach", "live"}
                 PROVE  /\ view'[t] <= version'[device'[t]]
                        /\ t \notin missed' /\ device'[t] \notin crossed' =>
                              \/ view'[t] = version'[device'[t]]
                              \/ \E a \in Broadcasters : sending'[a].id = device'[t]
        BY DEF Current
    <2>1. device[t] \in Ids /\ device' = device /\ view' = view /\ sub' = sub /\ missed' = missed
        BY <1>2 DEF Types, subVars
    <2>2. CASE device[t] = i
        BY <1>1, <2>1, <2>2 DEF Types, Current
    <2>3. CASE device[t] # i
        <3>1. \A a \in Broadcasters : sending[a].id = device[t] => sending'[a].id = device[t]
            BY <1>1, <1>2, <2>1, <2>3, NoneAssumption DEF Types, Idle
        <3> QED
            BY <1>1, <2>1, <2>3, <3>1 DEF Types, Current
    <2> QED
        BY <2>2, <2>3
<1>7. Unread'
    BY <1>2 DEF Unread, subVars
<1> QED
    BY <1>4, <1>5, <1>6, <1>7

LEMMA SendKeeps == ASSUME ViewInv, NEW b \in Broadcasters, Send(b) PROVE ViewInv'
<1> USE DEF ViewInv
<1> DEFINE i == sending[b].id
<1>1. /\ sending[b] # Idle /\ sending' = [sending EXCEPT ![b] = Idle]
      /\ view' = [t \in Tokens |-> IF t \in Watchers(i) THEN sending[b].version ELSE view[t]]
      /\ missed' = (missed \ Watchers(i)) \cup {t \in Tokens : sub[t] = "attach" /\ device[t] = i}
      /\ UNCHANGED <<claim, version, crossed, sessionVars, sub, device>>
    BY DEF Send
<1>2. i \in Ids /\ i # None
    BY <1>1, NoneAssumption DEF Types
<1>3. Types'
    BY <1>1 DEF Types, sessionVars, Idle
<1>4. Flight'
    <2> SUFFICES ASSUME NEW a \in Broadcasters, sending'[a] # Idle
                 PROVE  /\ sending'[a].version <= version'[sending'[a].id]
                        /\ sending'[a].id \notin crossed' =>
                              /\ sending'[a].version = version'[sending'[a].id]
                              /\ \A other \in Broadcasters :
                                    sending'[other].id = sending'[a].id => other = a
        BY DEF Flight
    <2>1. sending'[b] = Idle /\ Idle.id = None
        BY <1>1 DEF Types, Idle
    <2>2. a # b /\ sending'[a] = sending[a] /\ sending[a].id \in Ids
        BY <1>1, <2>1 DEF Types
    <2>3. \A other \in Broadcasters :
            sending'[other].id = sending[a].id => sending[other].id = sending[a].id
        BY <1>1, <2>1, <2>2, NoneAssumption DEF Types
    <2> QED
        BY <1>1, <2>2, <2>3 DEF Flight
<1>5. Current'
    <2> SUFFICES ASSUME NEW t \in Tokens, sub'[t] \in {"attach", "live"}
                 PROVE  /\ view'[t] <= version'[device'[t]]
                        /\ t \notin missed' /\ device'[t] \notin crossed' =>
                              \/ view'[t] = version'[device'[t]]
                              \/ \E a \in Broadcasters : sending'[a].id = device'[t]
        BY DEF Current
    <2>1. CASE t \in Watchers(i)
        BY <1>1, <1>2, <2>1 DEF Types, Flight, Watchers
    <2>2. CASE device[t] = i /\ t \notin Watchers(i)
        BY <1>1, <2>2 DEF Types, Current, Watchers
    <2>3. CASE device[t] # i
        <3>1. \A a \in Broadcasters : sending[a].id = device[t] => sending'[a].id = device[t]
            BY <1>1, <2>3 DEF Types
        <3> QED
            BY <1>1, <2>3, <3>1 DEF Types, Current, Watchers
    <2> QED
        BY <2>1, <2>2, <2>3
<1>6. Unread'
    BY <1>1 DEF Unread, Watchers
<1> QED
    BY <1>3, <1>4, <1>5, <1>6

(* No other step touches a state, or a view that is attached.              *)
Elsewhere == UNCHANGED stateVars /\ missed' = missed

LEMMA ReadKeeps == ASSUME ViewInv, NEW t \in Tokens, ReadLatest(t) PROVE ViewInv'
<1> USE DEF ViewInv
<1>1. Types'
    BY DEF ReadLatest, Types, stateVars, sessionVars, SubTypes, Active
<1>2. Flight'
    BY DEF ReadLatest, Flight, stateVars
<1>3. Current'
    BY DEF ReadLatest, Types, Current, stateVars
<1>4. Unread'
    BY DEF ReadLatest, Types, Unread
<1> QED
    BY <1>1, <1>2, <1>3, <1>4

(* A subscription that is made, ends, or goes on with what it has read.    *)
LEMMA MovesKeep ==
    ASSUME ViewInv, Types', Elsewhere, view' = view,
           \A t \in Tokens :
              /\ sub'[t] \in {"attach", "live"} => sub[t] \in {"attach", "live"} /\ device'[t] = device[t]
              /\ sub'[t] \in {"none", "claim", "read"} => sub[t] \in {"none", "claim", "read"}
    PROVE  ViewInv'
BY DEF ViewInv, Types, Flight, Current, Unread, Elsewhere, stateVars

LEMMA TypesKeep ==
    ASSUME Types, EventsNext
    PROVE  Types'
<1>1. ASSUME NEW b \in Broadcasters, Store(b) PROVE Types'
    BY <1>1, NoneAssumption DEF Types, Store, sessionVars, subVars, Idle
<1>2. ASSUME NEW b \in Broadcasters, Send(b) PROVE Types'
    BY <1>2 DEF Types, Send, sessionVars, Idle
<1>3. ASSUME NEW s \in Sessions, Open(s) \/ Expire(s) \/ Tick(s) \/ Reclaim(s) PROVE Types'
    BY <1>3 DEF Types, Open, Expire, Tick, Reclaim, AskToClose, stateVars, sessionVars, subVars
<1>4. ASSUME NEW s \in Sessions, Dispose(s) PROVE Types'
    BY <1>4 DEF Types, Dispose, stateVars, SubTypes, Active
<1>5. ASSUME NEW t \in Tokens, Message(t) \/ Refuse(t) \/ SetIdentity(t) PROVE Types'
    BY <1>5, SessionOfAssumption
    DEF Types, Message, Refuse, SetIdentity, AskToClose, stateVars, subVars
<1>6. ASSUME NEW t \in Tokens, Subscribe(t) PROVE Types'
    BY <1>6, SessionOfAssumption DEF Types, Subscribe, stateVars, SubTypes, Active
<1>7. ASSUME NEW t \in Tokens, ReadClaim(t) PROVE Types'
    BY <1>7, SessionOfAssumption DEF Types, ReadClaim, stateVars, sessionVars, SubTypes, Active
<1>8. ASSUME NEW t \in Tokens, ReadLatest(t) \/ Attach(t) PROVE Types'
    BY <1>8 DEF Types, ReadLatest, Attach, stateVars, sessionVars, SubTypes, Active
<1>9. ASSUME Shutdown PROVE Types'
    BY <1>9 DEF Types, Shutdown, stateVars, sessionVars, SubTypes, Active
<1> QED
    BY <1>1, <1>2, <1>3, <1>4, <1>5, <1>6, <1>7, <1>8, <1>9 DEF EventsNext

LEMMA StepViews == ASSUME ViewInv, SubInv, EventsNext PROVE ViewInv'
<1>1. Types'
    BY TypesKeep DEF ViewInv
<1>2. ASSUME NEW s \in Sessions, Open(s) \/ Expire(s) \/ Tick(s) \/ Reclaim(s) PROVE ViewInv'
    BY <1>1, <1>2, MovesKeep DEF Open, Expire, Tick, Reclaim, Elsewhere, stateVars, subVars
<1>3. ASSUME NEW s \in Sessions, Dispose(s) PROVE ViewInv'
    BY <1>1, <1>3, MovesKeep DEF ViewInv, Types, Dispose, Elsewhere, Active
<1>4. ASSUME NEW t \in Tokens, Message(t) \/ Refuse(t) \/ SetIdentity(t) PROVE ViewInv'
    BY <1>1, <1>4, MovesKeep DEF Message, Refuse, SetIdentity, Elsewhere, subVars
<1>5. ASSUME NEW t \in Tokens, Subscribe(t) PROVE ViewInv'
    <2>1. sub[t] = "none"
        BY <1>5 DEF Subscribe, SubInv, Known
    <2> QED
        BY <1>1, <1>5, <2>1, MovesKeep DEF ViewInv, Types, Subscribe, Elsewhere
<1>6. ASSUME NEW t \in Tokens, ReadClaim(t) PROVE ViewInv'
    BY <1>1, <1>6, MovesKeep DEF ViewInv, Types, ReadClaim, Elsewhere
<1>7. ASSUME NEW t \in Tokens, Attach(t) PROVE ViewInv'
    BY <1>1, <1>7, MovesKeep DEF ViewInv, Types, Attach, Elsewhere
<1>8. ASSUME Shutdown PROVE ViewInv'
    BY <1>1, <1>8, MovesKeep DEF ViewInv, Types, Shutdown, Elsewhere, Active
<1> QED
    BY <1>2, <1>3, <1>4, <1>5, <1>6, <1>7, <1>8, StoreKeeps, SendKeeps, ReadKeeps DEF EventsNext

-----------------------------------------------------------------------------
(* A step that makes no subscription and ends no token's check: it leaves  *)
(* the twins, and what a session knows of.                                 *)
LEMMA SubsUnmoved ==
    ASSUME SubInv, Types', twin' = twin, current' = current, late' = late,
           \A s \in Sessions : identity[s] # "none" => identity'[s] # "none",
           \A s \in Sessions : session'[s] = "closed" <=> session[s] = "closed",
           \A t \in Tokens :
              /\ auth'[t] # auth[t] =>
                    /\ auth[t] \in {"unsent", "check"} /\ auth'[t] \in {"check", "done"}
                    /\ auth[t] = "unsent" => session[SessionOf[t]] # "closed"
              /\ sub'[t] = "none" <=> sub[t] = "none"
              /\ sub'[t] \in Active => sub[t] \in Active
    PROVE  SubInv'
<1> USE SessionOfAssumption
<1>1. \A t \in Tokens : First(t)' => First(t)
    BY DEF First
<1>2. Twins'
    BY <1>1 DEF SubInv, Twins, Same
<1>3. Known'
    BY DEF SubInv, Known
<1>4. NothingLeaks'
    BY DEF SubInv, NothingLeaks
<1> QED
    BY <1>2, <1>3, <1>4 DEF SubInv

LEMMA SetIdentityKeeps ==
    ASSUME SubInv, Types', NEW t \in Tokens, SetIdentity(t)
    PROVE  SubInv'
<1> DEFINE s == SessionOf[t]
<1> USE SessionOfAssumption
<1>1. s \in Sessions
    OBVIOUS
<1>2. CASE identity[s] # "none"
    <2>1. /\ auth[t] = "check" /\ auth' = [auth EXCEPT ![t] = "done"]
          /\ identity' = [identity EXCEPT ![s] = "valid"]
          /\ UNCHANGED <<twin, session, current, late, sub>>
        BY <1>2 DEF SetIdentity, subVars
    <2> QED
        BY <1>1, <2>1, SubsUnmoved DEF SubInv, Types
<1>3. CASE identity[s] = "none"
    <2>1. /\ auth[t] = "check" /\ auth' = [auth EXCEPT ![t] = "set"]
          /\ twin' = IF \E u \in Tokens : SessionOf[u] = s /\ auth[u] = "set"
                     THEN twin \cup {u \in Tokens : SessionOf[u] = s /\ (u = t \/ auth[u] = "set")}
                     ELSE twin
          /\ UNCHANGED <<identity, session, current, late, sub>>
        BY <1>3 DEF SetIdentity, subVars
    <2>2. \A u \in Tokens : SessionOf[u] = s => sub[u] = "none"
        BY <1>3 DEF SubInv, Known
    <2>3. \A u \in Tokens : u # t => (First(u)' <=> First(u))
        BY <2>1 DEF First, SubInv, Types
    <2>4. \A u \in Tokens : Same(t, u) /\ First(u)' => {t, u} \subseteq twin'
        BY <2>1, <2>2, <2>3 DEF Same, First
    <2>5. twin \subseteq twin'
        BY <2>1
    <2>6. Twins'
        BY <2>3, <2>4, <2>5 DEF SubInv, Twins, Same
    <2>7. Known'
        BY <2>1, <2>2, <2>5 DEF SubInv, Known, Types
    <2>8. NothingLeaks'
        BY <2>1, <2>5 DEF SubInv, NothingLeaks
    <2> QED
        BY <2>6, <2>7, <2>8 DEF SubInv
<1> QED
    BY <1>2, <1>3

LEMMA SubscribeKeeps ==
    ASSUME SubInv, Types', NEW t \in Tokens, Subscribe(t)
    PROVE  SubInv'
<1> DEFINE s == SessionOf[t]
<1> USE SessionOfAssumption
<1>1. /\ s \in Sessions /\ auth[t] = "set" /\ sub[t] = "none"
      /\ identity' = [identity EXCEPT ![s] = "valid"]
      /\ current'  = [current EXCEPT ![s] = t]
      /\ auth'     = [auth EXCEPT ![t] = "done"]
      /\ sub'      = [sub EXCEPT ![t] = "claim"]
      /\ UNCHANGED <<twin, session, late>>
    BY DEF Subscribe, SubInv, Known
<1>2. \A u \in Tokens : First(u)' <=> First(u)
    BY <1>1 DEF First, SubInv, Types
<1>3. Twins'
    BY <1>1, <1>2 DEF SubInv, Twins, Same
<1>4. Known'
    <2> SUFFICES ASSUME NEW u \in Tokens
                 PROVE  /\ sub'[u] # "none" => identity'[SessionOf[u]] # "none" /\ auth'[u] = "done"
                        /\ sub'[u] \in Active /\ session'[SessionOf[u]] # "closed" =>
                              u \in twin' \/ current'[SessionOf[u]] = u
                        /\ session'[SessionOf[u]] = "closed" /\ auth'[u] \in {"check", "set"} => u \in late'
        BY DEF Known
    <2>1. CASE u = t
        BY <1>1, <2>1 DEF SubInv, Types
    <2>2. CASE u # t /\ SessionOf[u] = s
        <3>1. sub[u] \in Active => u \in twin
            BY <1>1, <2>2 DEF SubInv, Twins, Same, First, Active
        <3> QED
            BY <1>1, <2>2, <3>1 DEF SubInv, Known, Types
    <2>3. CASE SessionOf[u] # s
        BY <1>1, <2>3 DEF SubInv, Known, Types
    <2> QED
        BY <2>1, <2>2, <2>3
<1>5. NothingLeaks'
    BY <1>1 DEF SubInv, Known, NothingLeaks, Types
<1> QED
    BY <1>3, <1>4, <1>5 DEF SubInv

LEMMA DisposeKeeps ==
    ASSUME SubInv, Types', NEW s \in Sessions, Dispose(s)
    PROVE  SubInv'
<1> USE SessionOfAssumption
<1>1. /\ session[s] # "closed"
      /\ session' = [session EXCEPT ![s] = "closed"]
      /\ late' = late \cup {t \in Tokens : SessionOf[t] = s /\ auth[t] \in {"check", "set"}}
      /\ sub' = [t \in Tokens |-> IF t = current[s] /\ sub[t] \in Active THEN "cancelled" ELSE sub[t]]
      /\ current' = [current EXCEPT ![s] = None]
      /\ UNCHANGED <<twin, auth, identity>>
    BY DEF Dispose
<1>2. \A t \in Tokens : /\ sub'[t] = "none" <=> sub[t] = "none"
                        /\ sub'[t] \in Active => sub[t] \in Active /\ t # current[s]
    BY <1>1 DEF Active
<1>3. \A t \in Tokens : First(t)' <=> First(t)
    BY <1>1, <1>2 DEF First
<1>4. Twins'
    BY <1>1, <1>3 DEF SubInv, Twins, Same
<1>5. Known'
    BY <1>1, <1>2 DEF SubInv, Known, Types
<1>6. NothingLeaks'
    BY <1>1, <1>2 DEF SubInv, Known, NothingLeaks, Types
<1> QED
    BY <1>4, <1>5, <1>6 DEF SubInv

LEMMA StepSubs == ASSUME SubInv, EventsNext PROVE SubInv'
<1> USE SessionOfAssumption
<1>1. Types'
    BY TypesKeep DEF SubInv
<1>2. ASSUME NEW b \in Broadcasters, Store(b) \/ Send(b) PROVE SubInv'
    BY <1>1, <1>2, SubsUnmoved DEF Store, Send, sessionVars, subVars
<1>3. ASSUME NEW s \in Sessions, Open(s) \/ Expire(s) \/ Tick(s) \/ Reclaim(s) PROVE SubInv'
    BY <1>1, <1>3, SubsUnmoved
    DEF SubInv, Types, Open, Expire, Tick, Reclaim, AskToClose, sessionVars, subVars
<1>4. ASSUME NEW t \in Tokens, Message(t) \/ Refuse(t) PROVE SubInv'
    BY <1>1, <1>4, SubsUnmoved DEF SubInv, Types, Message, Refuse, AskToClose, subVars
<1>5. ASSUME NEW t \in Tokens, ReadClaim(t) \/ ReadLatest(t) \/ Attach(t) PROVE SubInv'
    BY <1>1, <1>5, SubsUnmoved
    DEF SubInv, Types, ReadClaim, ReadLatest, Attach, sessionVars, Active
<1>6. ASSUME Shutdown PROVE SubInv'
    BY <1>1, <1>6, SubsUnmoved DEF SubInv, Types, Shutdown, sessionVars, Active
<1> QED
    BY <1>1, <1>2, <1>3, <1>4, <1>5, <1>6, SetIdentityKeeps, SubscribeKeeps, DisposeKeeps DEF
                            EventsNext

-----------------------------------------------------------------------------
(* Both invariants hold in every state.                                    *)
THEOREM EventsInductive == EventsSpec => [](ViewInv /\ SubInv)
<1>1. EventsInit => ViewInv /\ SubInv
    BY InitViews, InitSubs
<1>2. ViewInv /\ SubInv /\ [EventsNext]_eventsVars => (ViewInv /\ SubInv)'
    <2>1. ASSUME ViewInv, SubInv, EventsNext PROVE (ViewInv /\ SubInv)'
        BY <2>1, StepViews, StepSubs
    <2>2. ASSUME ViewInv, SubInv, UNCHANGED eventsVars PROVE (ViewInv /\ SubInv)'
        BY <2>2
        DEF eventsVars, stateVars, sessionVars, subVars, ViewInv, Types, Flight, Current,
            Unread,
            SubInv, Twins, Known, NothingLeaks, First, InFlight
    <2> QED
        BY <2>1, <2>2
<1> QED
    BY <1>1, <1>2, PTL DEF EventsSpec

(* Between broadcasts an attached session shows the latest state of its    *)
(* device, however many threads broadcast and however many sessions watch  *)
(* (EventDispatcher.broadcast and subscribe).                              *)
THEOREM AlwaysInSync == EventsSpec => []InSync
<1>1. ViewInv => InSync
    BY DEF ViewInv, Types, Current, InSync, InFlight
<1> QED
    BY <1>1, EventsInductive, PTL

(* A view never goes back to an older state, unless two broadcasts for its *)
(* device overlap.                                                         *)
THEOREM ViewsAdvance == EventsSpec => NeverBack
<1>1. ASSUME ViewInv, [EventsNext]_eventsVars
      PROVE  [\A t \in Tokens : view'[t] >= view[t] \/ device[t] \in crossed]_eventsVars
    <2> SUFFICES ASSUME NEW t \in Tokens, device[t] \notin crossed
                 PROVE  view'[t] >= view[t]
        OBVIOUS
    <2>1. view[t] \in Nat
        BY <1>1 DEF ViewInv, Types
    <2>2. CASE view' = view
        BY <2>1, <2>2
    <2>3. ASSUME NEW b \in Broadcasters, Send(b) PROVE view'[t] >= view[t]
        <3>1. CASE t \in Watchers(sending[b].id)
            BY <1>1, <2>1, <2>3, <3>1
            DEF ViewInv, Types, Flight, Current, Send, Watchers
        <3>2. CASE t \notin Watchers(sending[b].id)
            BY <2>1, <2>3, <3>2 DEF Send
        <3> QED
            BY <3>1, <3>2
    <2>4. ASSUME NEW u \in Tokens, ReadLatest(u) PROVE view'[t] >= view[t]
        BY <1>1, <2>1, <2>4 DEF ViewInv, Types, Unread, ReadLatest
    <2>5. ASSUME NEW s \in Sessions,
                 Open(s) \/ Dispose(s) \/ Expire(s) \/ Tick(s) \/ Reclaim(s)
          PROVE  view' = view
        BY <2>5 DEF Open, Dispose, Expire, Tick, Reclaim, subVars
    <2>6. ASSUME NEW u \in Tokens,
                 \/ Message(u) \/ Refuse(u) \/ SetIdentity(u) \/ Subscribe(u)
                 \/ ReadClaim(u) \/ Attach(u)
          PROVE  view' = view
        BY <2>6 DEF Message, Refuse, SetIdentity, Subscribe, ReadClaim, Attach, subVars
    <2>7. ASSUME NEW b \in Broadcasters, Store(b) PROVE view' = view
        BY <2>7 DEF Store, subVars
    <2>8. CASE Shutdown
        BY <2>1, <2>8 DEF Shutdown, subVars
    <2>9. CASE UNCHANGED eventsVars
        BY <2>1, <2>9 DEF eventsVars, subVars
    <2> QED
        BY <1>1, <2>2, <2>3, <2>4, <2>5, <2>6, <2>7, <2>8, <2>9 DEF EventsNext
<1> QED
    BY <1>1, EventsInductive, PTL DEF EventsSpec, NeverBack

(* Closing a session leaves no subscription of its running, with the two   *)
(* exceptions named (EventSession.close).                                  *)
THEOREM CloseCancels == EventsSpec => []NothingLeaks
<1>1. SubInv => NothingLeaks
    BY DEF SubInv
<1> QED
    BY <1>1, EventsInductive, PTL

(* A session has one subscription however many tokens it sends, unless two *)
(* were checked at the same time (EventSession.setIdentity).               *)
THEOREM OnlyOneStream == EventsSpec => []OneStream
<1>1. SubInv => OneStream
    BY DEF SubInv, Twins, Same, First, OneStream, Active
<1> QED
    BY <1>1, EventsInductive, PTL
=============================================================================
