------------------------------ MODULE RoleLeases ------------------------------
(***************************************************************************)
(* The registry of role sessions, internal/principal/lease.go: which       *)
(* principal holds which role over which workspace, for how long, and on   *)
(* which task.  Every operation is one critical section of the registry's  *)
(* mutex and begins by expiring the leases whose time is past.             *)
(*                                                                         *)
(* Time is reduced to whether it has passed a lease's ExpiresAt: a lease   *)
(* that is "late" is still Active in the map until the next operation, of  *)
(* whatever caller, finds it so.                                           *)
(***************************************************************************)
EXTENDS FiniteSets, Functions

CONSTANTS Principal, Workspace, Task, NoTask,
          LeaseId    \* identities that may be minted

ASSUME LeaseAssumption == NoTask \notin Task

VARIABLE leases      \* the registry's map

\* The roles that are leasable, and what each one grants.
Role == {"architect", "reviewer"}

SubmitCapability(role) == IF role = "architect" THEN "submit_architecture" ELSE "submit_review"

CapabilitiesFor(role) == {"inspect_task", SubmitCapability(role)}

Unminted == [st |-> "unminted"]

Lease == [st : {"active", "released", "expired"}, who : Principal, ws : Workspace,
          role : Role, task : Task \cup {NoTask}, late : BOOLEAN]

LeaseInit == leases = [l \in LeaseId |-> Unminted]

Active(ls) == {l \in LeaseId : ls[l].st = "active"}

\* expireLocked
Current ==
  [l \in LeaseId |-> IF l \in Active(leases) /\ leases[l].late
                     THEN [leases[l] EXCEPT !.st = "expired"] ELSE leases[l]]

Held == Active(Current)

Extended(lease) == [lease EXCEPT !.late = FALSE]

Granted(p, ws, role) ==
  [st |-> "active", who |-> p, ws |-> ws, role |-> role, task |-> NoTask, late |-> FALSE]

-----------------------------------------------------------------------------
\* The clock passes a lease's ExpiresAt.
Elapse(l) ==
  /\ l \in Active(leases)
  /\ ~leases[l].late
  /\ leases' = [leases EXCEPT ![l].late = TRUE]

HoldersOf(ws, role) == {l \in Held : Current[l].ws = ws /\ Current[l].role = role}

\* The leases kept are extended, and each role of id is granted under its new
\* identity.
Regranted(p, ws, kept, id) ==
  [l \in LeaseId |->
     IF l \in kept THEN Extended(Current[l])
     ELSE IF \E r \in DOMAIN id : id[r] = l
          THEN Granted(p, ws, CHOOSE r \in DOMAIN id : id[r] = l)
          ELSE Current[l]]

Fresh == {l \in LeaseId : leases[l].st = "unminted"}

\* Fault: whoever reconnects is given a second lease.
RegisterAnew(p, ws, wanted) ==
  \E id \in Injection(wanted, Fresh) : leases' = Regranted(p, ws, {}, id)

\* Register: a role the principal holds is extended, one that nobody holds is
\* granted, any other is refused.  An identity that cannot be minted ends the
\* call, and what was done until then stays.
Register(p, ws, wanted) ==
  LET open == {r \in wanted : HoldersOf(ws, r) = {}}
      mine(done) == {l \in Held : Current[l].who = p /\ Current[l].ws = ws /\ Current[l].role \in done}
  IN \E done \in SUBSET wanted :
       /\ done = wanted \/ ~(open \subseteq done)
       /\ \E id \in Injection(done \cap open, Fresh) :
            leases' = Regranted(p, ws, mine(done), id)

\* Lookup, Held, HolderOf, and every refusal: they only expire.
Consult == leases' = Current

\* Authorize: may this role session do this, here, on this task, now.
May(l, capability, ws, t) ==
  /\ l \in Held
  /\ Current[l].ws = ws
  /\ capability \in CapabilitiesFor(Current[l].role)
  /\ t = NoTask \/ Current[l].task \in {NoTask, t}

\* Fault: a lease follows its holder from task to task.
BindAnywhere(l, t) == l \in Held /\ leases' = [Current EXCEPT ![l].task = t]

\* Bind to a task, once.
Bind(l, t) ==
  /\ l \in Held
  /\ Current[l].task \in {NoTask, t}
  /\ leases' = [Current EXCEPT ![l].task = t]

\* Fault: a lease is renewed without looking at the clock.
RenewLate(l) == l \in Active(leases) /\ leases' = [leases EXCEPT ![l] = Extended(@)]

\* Renew what is still held.
Renew(l) == l \in Held /\ leases' = [Current EXCEPT ![l] = Extended(@)]

\* Release; one that is over stays as it ended.
Release(l) ==
  leases' = IF l \in Held THEN [Current EXCEPT ![l].st = "released"] ELSE Current

LeaseNext ==
  \/ \E l \in LeaseId : Elapse(l) \/ Renew(l) \/ Release(l)
  \/ \E l \in LeaseId, t \in Task : Bind(l, t)
  \/ \E p \in Principal, ws \in Workspace, wanted \in SUBSET Role : Register(p, ws, wanted)
  \/ Consult

LeaseSpec == LeaseInit /\ [][LeaseNext]_leases

-----------------------------------------------------------------------------
\* Every lease that was minted is whole.
LeasesTyped == leases \in [LeaseId -> Lease \cup {Unminted}]

\* A role over a workspace has one holder, whoever registered, reconnected or
\* ran out of time meanwhile: two would both answer the same question.
OneHolder ==
  \A l, k \in Active(leases) :
    leases[l].ws = leases[k].ws /\ leases[l].role = leases[k].role => l = k

Over(lease) == lease.st \in {"released", "expired"} \/ (lease.st = "active" /\ lease.late)

\* What a lease was when it ended, or ran out without anyone noticing, it stays:
\* nothing revives it, for the role may be another's by then; and the task it
\* is bound to is never another.
EndedForGood ==
  [][\A l \in LeaseId :
       /\ Over(leases[l]) => Over(leases'[l])
       /\ leases[l].st \in {"released", "expired"} => leases'[l] = leases[l]
       /\ leases[l].st # "unminted" /\ leases[l].task # NoTask => leases'[l].task = leases[l].task]_leases
=============================================================================
