------------------------------- MODULE Claims -------------------------------
(***************************************************************************)
(* Device claims of the console: the REST resource (ClaimResource), the    *)
(* transactional processor behind it (Processor), the claims table         *)
(* (DeviceClaimService, Claim) and the device registry of the cloud        *)
(* (Registry, a REST client).                                              *)
(*                                                                         *)
(* A request is a process of its own: it runs on a worker thread, and what *)
(* it reads in one step it uses in a later one.  Hibernate sends the row   *)
(* writes when the transaction commits, so a claim is a read followed by a *)
(* write-and-commit; the bulk UPDATE of a release is the last statement of *)
(* its transaction.  The database runs at its default isolation level,     *)
(* READ COMMITTED, and the entity has no version column.                   *)
(***************************************************************************)
EXTENDS FiniteSets

CONSTANTS
    Users,       \* principals, by name
    Admins,      \* the users that have the role "device-admin"
    Requests,    \* worker threads, each serving one request at a time
    UserOf,      \* the user whose requests a thread serves
    Boards,      \* claim ids of idmap.json
    Strays,      \* ids a user may type that are in no row
    Simulators,  \* ids "simulator-<uuid>", a bound on how many are minted
    Nobody,      \* claimed_by IS NULL
    NoRow,       \* the claims table has no such row
    NoId         \* a request that works on no claim

ClaimIds == Boards \cup Strays \cup Simulators

ASSUME UsersAssumption == Admins \subseteq Users /\ UserOf \in [Requests -> Users]
ASSUME NullAssumption  == Nobody \notin Users /\ NoRow \notin Users /\ Nobody # NoRow
ASSUME IdAssumption    == NoId \notin ClaimIds
ASSUME MintAssumption  == Simulators \cap (Boards \cup Strays) = {}

VARIABLES
    table,      \* the claims table: who has claimed an id
    registry,   \* the simulator devices the device registry holds
    minted,     \* whose request drew a simulator id: a UUID is not drawn twice
    told,       \* ids whose watchers were sent the empty state since the last claim
    failed,     \* simulator ids whose request ended in an error after its HTTP call
    pc,         \* where the request of a thread is
    target,     \* the id it works on
    found       \* whether its read found a row

vars == <<table, registry, minted, told, failed, pc, target, found>>

request == <<pc, target, found>>

Steps   == {"idle", "claim", "register", "insert",
            "delete", "broadcast", "update", "again"}

TypeOK ==
    /\ table    \in [ClaimIds -> Users \cup {Nobody, NoRow}]
    /\ registry \subseteq Simulators
    /\ minted   \in [Simulators -> Users \cup {Nobody}]
    /\ told     \subseteq ClaimIds
    /\ failed   \subseteq Simulators
    /\ pc       \in [Requests -> Steps]
    /\ target   \in [Requests -> ClaimIds \cup {NoId}]
    /\ found    \in [Requests -> BOOLEAN]

\* AutoLoadData has created an unclaimed row for every entry of idmap.json.
Init ==
    /\ table    = [i \in ClaimIds |-> IF i \in Boards THEN Nobody ELSE NoRow]
    /\ registry = {}
    /\ minted   = [s \in Simulators |-> Nobody]
    /\ told     = {}
    /\ failed   = {}
    /\ pc       = [r \in Requests |-> "idle"]
    /\ target   = [r \in Requests |-> NoId]
    /\ found    = [r \in Requests |-> FALSE]

-----------------------------------------------------------------------------
(* What the steps share.                                                   *)

Minted == {s \in Simulators : minted[s] # Nobody}

RowsOf(u) == {i \in ClaimIds : table[i] = u}

\* Mutant: the UPDATE writes an empty name instead of NULL.
ClearedToBlank(u) == [i \in ClaimIds |-> IF table[i] = u THEN NoId ELSE table[i]]

\* The rows with claimed_by = u lose their claim: the bulk UPDATE.
Cleared(u) == [i \in ClaimIds |-> IF table[i] = u THEN Nobody ELSE table[i]]

Goto(r, step, id) ==
    /\ pc'     = [pc     EXCEPT ![r] = step]
    /\ target' = [target EXCEPT ![r] = id]

\* The resource method returns, or an exception leaves it and the transaction
\* is rolled back; what an HTTP call has done to the registry stays done.
Answer(r) ==
    /\ Goto(r, "idle", NoId)
    /\ found'  = [found  EXCEPT ![r] = FALSE]

Rollback(r) == Answer(r)

\* Mutant: the index on claimed_by is not unique.
PlainIndex(id, u) == TRUE

\* The unique index on claimed_by refuses a second row of the same user.
UniqueIndex(id, u) == RowsOf(u) \subseteq {id}

-----------------------------------------------------------------------------
(* PUT /claim: find, check, set, commit.                                   *)

\* Nobody types the uuid of a simulator that no claim has shown yet.
StoredSimulators == {s \in Simulators : table[s] # NoRow}

ClaimRead(r) ==
    /\ pc[r] = "idle"
    /\ \E id \in Boards \cup Strays \cup StoredSimulators :
        \/ /\ \/ table[id] = Nobody
              \/ table[id] = NoRow /\ UserOf[r] \in Admins
           /\ Goto(r, "claim", id)
           /\ found' = [found EXCEPT ![r] = table[id] # NoRow]
        \/ /\ \/ table[id] \in Users
              \/ table[id] = NoRow /\ UserOf[r] \notin Admins
           /\ Rollback(r)
    /\ UNCHANGED <<table, registry, minted, told, failed>>

\* An existing row is updated whatever it holds by now; a new row must not
\* meet one with its key.
CommitAccepted(r) ==
    /\ UniqueIndex(target[r], UserOf[r])
    /\ found[r] \/ table[target[r]] = NoRow

ClaimCommit(r) ==
    /\ pc[r] = "claim"
    /\ \/ /\ CommitAccepted(r)
          /\ table' = [table EXCEPT ![target[r]] = UserOf[r]]
          /\ told'  = told \ {target[r]}
          /\ Answer(r)
       \/ /\ ~CommitAccepted(r)
          /\ Rollback(r)
          /\ UNCHANGED <<table, told>>
    /\ UNCHANGED <<registry, minted, failed>>

-----------------------------------------------------------------------------
(* PUT /claim/simulator: a fresh id, the row, the registry device, commit. *)

SimulatorRead(r) ==
    /\ pc[r] = "idle"
    /\ \E id \in Simulators \ Minted :
        /\ minted' = [minted EXCEPT ![id] = UserOf[r]]
        /\ Goto(r, "register", id)
    /\ UNCHANGED <<table, registry, told, failed, found>>

\* The POST succeeds; fails; or is carried out and its answer is lost.
SimulatorRegister(r) ==
    /\ pc[r] = "register"
    /\ \/ /\ registry' = registry \cup {target[r]}
          /\ Goto(r, "insert", target[r])
          /\ UNCHANGED <<failed, found>>
       \/ /\ registry' \in {registry, registry \cup {target[r]}}
          /\ failed'   = failed \cup {target[r]}
          /\ Rollback(r)
    /\ UNCHANGED <<table, minted, told>>

SimulatorCommit(r) ==
    /\ pc[r] = "insert"
    /\ \/ /\ CommitAccepted(r)
          /\ table' = [table EXCEPT ![target[r]] = UserOf[r]]
          /\ told'  = told \ {target[r]}
          /\ Answer(r)
          /\ UNCHANGED failed
       \/ /\ ~CommitAccepted(r)
          /\ failed' = failed \cup {target[r]}
          /\ Rollback(r)
          /\ UNCHANGED <<table, told>>
    /\ UNCHANGED <<registry, minted>>

-----------------------------------------------------------------------------
(* DELETE /claim: Processor.releaseDevice in one transaction, and then     *)
(* DeviceClaimService.releaseDevice again in another one.                  *)

\* Mutant: only the watchers of simulators are told.
SimulatorsTold(id) == IF id \in Simulators THEN "delete" ELSE "update"

\* Mutant: the registry device of a simulator is not deleted.
NothingToDelete(id) == "broadcast"

\* Simulators have a registry device to delete first.
FirstReleaseStep(id) == IF id \in Simulators THEN "delete" ELSE "broadcast"

ReleaseRead(r) ==
    /\ pc[r] = "idle"
    /\ \/ \E id \in RowsOf(UserOf[r]) :
            Goto(r, FirstReleaseStep(id), id)
       \/ RowsOf(UserOf[r]) = {} /\ Goto(r, "update", NoId)
    /\ UNCHANGED <<table, registry, minted, told, failed, found>>

\* Mutant: every error of the DELETE is ignored, not only 404.
DeleteErrorsIgnored(r) ==
    /\ pc[r] = "delete"
    /\ registry' \in {registry, registry \ {target[r]}}
    /\ Goto(r, "broadcast", target[r])
    /\ UNCHANGED <<table, minted, told, failed, found>>

\* 2xx and 404 go on; anything else is thrown, the DELETE done or not.
ReleaseDelete(r) ==
    /\ pc[r] = "delete"
    /\ \/ /\ registry' = registry \ {target[r]}
          /\ Goto(r, "broadcast", target[r])
          /\ UNCHANGED <<failed, found>>
       \/ /\ registry' \in {registry, registry \ {target[r]}}
          /\ failed'   = failed \cup {target[r]}
          /\ Rollback(r)
    /\ UNCHANGED <<table, minted, told>>

\* The empty state goes out to the watchers before the claim is given up.
ReleaseBroadcast(r) ==
    /\ pc[r] = "broadcast"
    /\ told' = told \cup {target[r]}
    /\ Goto(r, "update", target[r])
    /\ UNCHANGED <<table, registry, minted, failed, found>>

ReleaseUpdate(r) ==
    /\ pc[r] = "update"
    /\ table' = Cleared(UserOf[r])
    /\ Goto(r, "again", target[r])
    /\ UNCHANGED <<registry, minted, told, failed, found>>

ReleaseAgain(r) ==
    /\ pc[r] = "again"
    /\ table' = Cleared(UserOf[r])
    /\ Answer(r)
    /\ UNCHANGED <<registry, minted, told, failed>>

-----------------------------------------------------------------------------
(* The console process is killed and started again: every transaction in   *)
(* flight is rolled back, AutoLoadData finds its rows and leaves them.     *)

InFlightIds == {target[r] : r \in {q \in Requests : pc[q] # "idle"}}

\* Mutant: start-up writes a fresh row over an existing one.
OverwrittenRow(i) == IF i \in Boards THEN Nobody ELSE table[i]

\* createClaim: the row of idmap.json, "ignoring existing entries".
AutoLoaded(i) == IF i \in Boards /\ table[i] = NoRow THEN Nobody ELSE table[i]

Crash ==
    /\ \E r \in Requests : pc[r] # "idle"
    /\ pc'     = [r \in Requests |-> "idle"]
    /\ target' = [r \in Requests |-> NoId]
    /\ failed' = failed \cup (InFlightIds \cap Simulators)
    /\ table'  = [i \in ClaimIds |-> AutoLoaded(i)]
    /\ found'  = [r \in Requests |-> FALSE]
    /\ UNCHANGED <<registry, minted, told>>

Next ==
    \/ \E r \in Requests :
        \/ ClaimRead(r)     \/ ClaimCommit(r)
        \/ SimulatorRead(r) \/ SimulatorRegister(r) \/ SimulatorCommit(r)
        \/ ReleaseRead(r)   \/ ReleaseDelete(r)     \/ ReleaseBroadcast(r)
        \/ ReleaseUpdate(r) \/ ReleaseAgain(r)
    \/ Crash

Spec == Init /\ [][Next]_vars

-----------------------------------------------------------------------------
(* Properties.                                                             *)

\* A user who waits for the answer to one request before sending the next.
Sequential(u) == \A r, q \in Requests : UserOf[r] = u /\ UserOf[q] = u => r = q

\* However requests, crashes and start-ups interleave, no user ever holds two
\* claims: the console shows one device per user (getDeviceClaimFor takes the
\* first row it finds).
OneClaimPerUser ==
    \A i, j \in ClaimIds : table[i] \in Users /\ table[i] = table[j] => i = j

\* A user loses a claim to nothing but a release of their own or a claim request
\* for the same id; never to a restart, to another user's release or to a claim
\* for another id.
ClaimSticks ==
    [][\A i \in ClaimIds : table[i] \in Users /\ table'[i] # table[i] =>
         \E r \in Requests :
            \/ pc[r] \in {"update", "again"} /\ UserOf[r] = table[i] /\ table'[i] = Nobody
            \/ pc[r] = "claim" /\ target[r] = i /\ table'[i] = UserOf[r]]_vars

\* When the claim of a user without overlapping requests becomes free, those who
\* watch the device have been sent the empty state (EventDispatcher.releaseDevice).
ToldBeforeFreed ==
    [][\A i \in ClaimIds :
         table[i] \in Users /\ Sequential(table[i]) /\ table'[i] = Nobody => i \in told]_vars

\* A release gives up the row of a simulator only after its registry device is
\* gone, whatever the registry answered.
DeviceGoneFirst ==
    \A r \in Requests :
        pc[r] \in {"broadcast", "update", "again"} /\ target[r] \in Simulators
            => target[r] \notin registry

\* The registry keeps no device nobody can release: one that was created by a user
\* without overlapping requests, and that no failed request touched, is claimed
\* by its creator or is about to be.
NoStrandedDevice ==
    \A s \in registry \ failed : Sequential(minted[s]) =>
        \/ table[s] = minted[s]
        \/ \E r \in Requests : pc[r] = "insert" /\ target[r] = s

\* What AlreadyClaimedException says ("Device %s is already claimed", a 409): a
\* device that a user has claimed is not handed to another one.
NoTakeover ==
    [][\A i \in ClaimIds :
         table[i] \in Users => table'[i] \in {table[i], Nobody}]_vars
=============================================================================
