----------------------------- MODULE ControlProofs -----------------------------
(***************************************************************************)
(* Theorems of RoleLeases and ControlTurns, for any principals, tasks,     *)
(* identities and tool calls.                                              *)
(***************************************************************************)
EXTENDS ControlTurns, TLAPS

-----------------------------------------------------------------------------
(* The registry.                                                           *)

\* expireLocked keeps every lease whole, and changes nothing but its state.
LEMMA CurrentTyped ==
  ASSUME LeasesTyped
  PROVE  /\ Current \in [LeaseId -> Lease \cup {Unminted}]
         /\ \A l \in LeaseId : leases[l] = Unminted <=> Current[l] = Unminted
         /\ \A l \in LeaseId : Current[l] # Unminted =>
              /\ leases[l] \in Lease /\ Current[l] \in Lease
              /\ Current[l].who = leases[l].who /\ Current[l].ws = leases[l].ws
              /\ Current[l].role = leases[l].role /\ Current[l].task = leases[l].task
<1>1. ASSUME NEW l \in LeaseId
      PROVE  /\ Current[l] \in Lease \cup {Unminted}
             /\ leases[l] = Unminted <=> Current[l] = Unminted
             /\ Current[l] # Unminted =>
                  /\ leases[l] \in Lease /\ Current[l] \in Lease
                  /\ Current[l].who = leases[l].who /\ Current[l].ws = leases[l].ws
                  /\ Current[l].role = leases[l].role /\ Current[l].task = leases[l].task
  <2>1. CASE leases[l] = Unminted
    BY <1>1, <2>1 DEF Current, Active, Unminted, Lease
  <2>2. CASE leases[l] \in Lease
    <3>1. Current[l] = leases[l] \/ Current[l] = [leases[l] EXCEPT !.st = "expired"]
      BY <1>1 DEF Current
    <3>2. [leases[l] EXCEPT !.st = "expired"] \in Lease
      BY <2>2 DEF Lease
    <3>3. \A x \in Lease : x # Unminted
      BY DEF Lease, Unminted
    <3> QED  BY <2>2, <3>1, <3>2, <3>3 DEF Lease
  <2> QED  BY <1>1, <2>1, <2>2 DEF LeasesTyped
<1>2. Current = [l \in LeaseId |-> Current[l]]
  BY DEF Current
<1> QED  BY <1>1, <1>2

\* Being held is being active and not late.
LEMMA HeldIs ==
  ASSUME LeasesTyped, NEW l \in LeaseId
  PROVE  /\ l \in Held <=> leases[l].st = "active" /\ ~leases[l].late
         /\ l \in Held => leases[l] \in Lease /\ Current[l] = leases[l]
         /\ leases[l].st \in {"released", "expired"} => Current[l] = leases[l]
<1>1. CASE leases[l] = Unminted
  BY <1>1 DEF Held, Current, Active, Unminted
<1>2. CASE leases[l] \in Lease
  <2>1. l \in Active(leases) <=> leases[l].st = "active"
    BY DEF Active
  <2>2. Current[l] = IF leases[l].st = "active" /\ leases[l].late
                     THEN [leases[l] EXCEPT !.st = "expired"] ELSE leases[l]
    BY <2>1 DEF Current
  <2>3. l \in Held <=> Current[l].st = "active"
    BY DEF Held, Active
  <2> QED  BY <1>2, <2>2, <2>3 DEF Lease
<1> QED  BY <1>1, <1>2 DEF LeasesTyped

\* What Register leaves of a lease: kept and extended, granted where there was
\* none, or as it was.
LEMMA RegrantedIs ==
  ASSUME LeasesTyped, NEW p \in Principal, NEW ws \in Workspace, NEW kept \in SUBSET Held,
         NEW S \in SUBSET Role, NEW id \in Injection(S, Fresh),
         leases' = Regranted(p, ws, kept, id), NEW l \in LeaseId
  PROVE  \/ l \in kept /\ leases'[l] = Extended(leases[l])
         \/ l \notin kept /\ leases'[l] = Current[l]
         \/ /\ leases[l] = Unminted
            /\ \E r \in S : id[r] = l /\ leases'[l] = Granted(p, ws, r)
<1>1. id \in [S -> Fresh] /\ \A q, r \in S : id[q] = id[r] => q = r
  BY DEF Injection, IsInjective
<1>2. leases'[l] = IF l \in kept THEN Extended(Current[l])
                   ELSE IF \E r \in S : id[r] = l
                        THEN Granted(p, ws, CHOOSE r \in S : id[r] = l) ELSE Current[l]
  BY <1>1 DEF Regranted
<1>3. CASE l \in kept
  BY <1>2, <1>3, HeldIs
<1>4. CASE l \notin kept /\ \E r \in S : id[r] = l
  <2>1. PICK r \in S : id[r] = l
    BY <1>4
  <2>2. (CHOOSE x \in S : id[x] = l) = r
    BY <1>1, <2>1
  <2>3. leases[l] = Unminted
    BY <1>1, <2>1 DEF Fresh, LeasesTyped, Lease
  <2> QED  BY <1>2, <1>4, <2>1, <2>2, <2>3
<1>5. CASE l \notin kept /\ ~\E r \in S : id[r] = l
  BY <1>2, <1>5
<1> QED  BY <1>3, <1>4, <1>5

\* What an operation of the registry may leave of one lease.
Expires(l) == leases'[l] = leases[l] \/ leases'[l] = Current[l]
Lengthens(l) == l \in Held /\ leases'[l] = Extended(leases[l])
Binds(l) == /\ l \in Held
            /\ \E t \in Task : leases[l].task \in {NoTask, t} /\ leases'[l] = [leases[l] EXCEPT !.task = t]
Ends(l) == l \in Held /\ leases'[l] = [leases[l] EXCEPT !.st = "released"]
Lapses(l) == /\ leases[l].st = "active" /\ ~leases[l].late
             /\ leases'[l] = [leases[l] EXCEPT !.late = TRUE]
Begins(l, p, ws, r) ==
  leases[l] = Unminted /\ HoldersOf(ws, r) = {} /\ leases'[l] = Granted(p, ws, r)

\* The operations but Register.
Other ==
  \/ \E l \in LeaseId : Elapse(l) \/ Renew(l) \/ Release(l)
  \/ \E l \in LeaseId, t \in Task : Bind(l, t)
  \/ Consult

\* Any operation but Register does one of these to each lease.
LEMMA OtherDoes ==
  ASSUME LeasesTyped, Other, NEW l \in LeaseId
  PROVE  Expires(l) \/ Lengthens(l) \/ Binds(l) \/ Ends(l) \/ Lapses(l)
<1> USE DEF Expires, Lengthens, Binds, Ends, Lapses
<1>0. leases \in [LeaseId -> Lease \cup {Unminted}] /\ Current \in [LeaseId -> Lease \cup {Unminted}]
  BY CurrentTyped DEF LeasesTyped
<1>1. ASSUME NEW k \in LeaseId, Elapse(k) PROVE Expires(l) \/ Lapses(l)
  BY <1>0, <1>1 DEF Elapse, Active
<1>2. ASSUME NEW k \in LeaseId, Renew(k) PROVE Expires(l) \/ Lengthens(l)
  BY <1>0, <1>2, HeldIs DEF Renew
<1>3. ASSUME NEW k \in LeaseId, Release(k) PROVE Expires(l) \/ Ends(l)
  BY <1>0, <1>3, HeldIs DEF Release
<1>4. ASSUME NEW k \in LeaseId, NEW t \in Task, Bind(k, t) PROVE Expires(l) \/ Binds(l)
  BY <1>0, <1>4, HeldIs DEF Bind
<1>5. CASE Consult
  BY <1>5 DEF Consult
<1> QED  BY <1>1, <1>2, <1>3, <1>4, <1>5 DEF Other

\* Register expires, extends or begins each lease; it begins one lease of a
\* role, and only where the role has no holder.
LEMMA RegisterDoes ==
  ASSUME LeasesTyped, NEW p \in Principal, NEW ws \in Workspace, NEW wanted \in SUBSET Role,
         Register(p, ws, wanted)
  PROVE  /\ \A l \in LeaseId :
              \/ Expires(l) /\ leases'[l] = Current[l]
              \/ Lengthens(l)
              \/ \E r \in Role : Begins(l, p, ws, r)
         /\ \A l, k \in LeaseId, r \in Role : Begins(l, p, ws, r) /\ Begins(k, p, ws, r) => l = k
<1> DEFINE openRoles == {r \in wanted : HoldersOf(ws, r) = {}}
           mine(done) == {x \in Held : Current[x].who = p /\ Current[x].ws = ws /\ Current[x].role \in done}
<1>1. PICK done \in SUBSET wanted :
        \E id \in Injection(done \cap openRoles, Fresh) : leases' = Regranted(p, ws, mine(done), id)
  BY DEF Register
<1>2. PICK id \in Injection(done \cap openRoles, Fresh) : leases' = Regranted(p, ws, mine(done), id)
  BY <1>1
<1>3. mine(done) \in SUBSET Held /\ done \cap openRoles \in SUBSET Role
  OBVIOUS
<1>4. \A r \in done \cap openRoles : r \in Role /\ HoldersOf(ws, r) = {}
  OBVIOUS
<1> HIDE DEF mine, openRoles
<1>5. ASSUME NEW l \in LeaseId
      PROVE  \/ l \in mine(done) /\ leases'[l] = Extended(leases[l])
             \/ l \notin mine(done) /\ leases'[l] = Current[l]
             \/ /\ leases[l] = Unminted
                /\ \E r \in done \cap openRoles : id[r] = l /\ leases'[l] = Granted(p, ws, r)
  BY <1>2, <1>3, <1>5, RegrantedIs
<1>6. ASSUME NEW l \in LeaseId
      PROVE  \/ Expires(l) /\ leases'[l] = Current[l]
             \/ Lengthens(l)
             \/ \E r \in Role : Begins(l, p, ws, r)
  BY <1>3, <1>4, <1>5 DEF Expires, Lengthens, Begins
<1>7. ASSUME NEW l \in LeaseId, NEW r \in Role, Begins(l, p, ws, r)
      PROVE  id[r] = l
  <2>1. leases[l] = Unminted /\ leases'[l] = Granted(p, ws, r)
    BY <1>7 DEF Begins
  <2>2. leases'[l] # Current[l]
    BY <2>1, CurrentTyped DEF Granted, Unminted
  <2>3. l \notin Held
    BY <2>1, HeldIs DEF Unminted
  <2>4. PICK q \in done \cap openRoles : id[q] = l /\ leases'[l] = Granted(p, ws, q)
    BY <1>3, <1>5, <2>2, <2>3
  <2>5. q = r
    BY <2>1, <2>4 DEF Granted
  <2> QED  BY <2>4, <2>5
<1> QED  BY <1>6, <1>7

\* Every lease that was minted stays whole.
LEMMA LeasesTypedStep ==
  ASSUME LeasesTyped, [LeaseNext]_leases
  PROVE  LeasesTyped'
<1>1. CASE UNCHANGED leases
  BY <1>1 DEF LeasesTyped
<1>2. ASSUME LeaseNext, NEW l \in LeaseId PROVE leases'[l] \in Lease \cup {Unminted}
  <2>1. \A k \in LeaseId : Lengthens(k) \/ Binds(k) \/ Ends(k) \/ Lapses(k) => leases[k] \in Lease
    BY HeldIs DEF LeasesTyped, Lengthens, Binds, Ends, Lapses, Unminted
  <2>2. \A k \in LeaseId : leases[k] \in Lease /\ (Lengthens(k) \/ Binds(k) \/ Ends(k) \/ Lapses(k))
                           => leases'[k] \in Lease
    BY DEF Lengthens, Binds, Ends, Lapses, Extended, Lease
  <2>3. Expires(l) => leases'[l] \in Lease \cup {Unminted}
    BY CurrentTyped DEF Expires, LeasesTyped
  <2>4. \A p \in Principal, ws \in Workspace, r \in Role : Begins(l, p, ws, r) => leases'[l] \in Lease
    BY DEF Begins, Granted, Lease
  <2>5. CASE Other
    BY <2>1, <2>2, <2>3, <2>5, OtherDoes
  <2>6. ASSUME NEW p \in Principal, NEW ws \in Workspace, NEW wanted \in SUBSET Role,
               Register(p, ws, wanted)
        PROVE  leases'[l] \in Lease \cup {Unminted}
    BY <2>1, <2>2, <2>3, <2>4, <2>6, RegisterDoes
  <2> QED  BY <1>2, <2>5, <2>6 DEF LeaseNext, Other
<1>3. ASSUME LeaseNext PROVE leases' = [l \in LeaseId |-> leases'[l]]
  <2>1. leases = [l \in LeaseId |-> leases[l]] /\ Current = [l \in LeaseId |-> Current[l]]
    BY CurrentTyped DEF LeasesTyped
  <2> QED  BY <1>3, <2>1 DEF LeaseNext, Elapse, Renew, Release, Bind, Register, Regranted, Consult
<1> QED  BY <1>1, <1>2, <1>3 DEF LeasesTyped

\* As an invariant of the registry.
THEOREM LeasesTypeCorrect == LeaseSpec => []LeasesTyped
<1>1. LeaseInit => LeasesTyped
  BY DEF LeaseInit, LeasesTyped
<1> QED  BY <1>1, LeasesTypedStep, PTL DEF LeaseSpec

\* A role over a workspace has at most one holder, whatever is registered,
\* renewed, released or run out.
LEMMA OneHolderStep ==
  ASSUME LeasesTyped, OneHolder, [LeaseNext]_leases
  PROVE  OneHolder'
<1> DEFINE Was(l) == leases[l].st = "active" /\ leases'[l].ws = leases[l].ws /\ leases'[l].role = leases[l].role
<1>1. ASSUME NEW l \in LeaseId, leases'[l].st = "active",
             Expires(l) \/ Lengthens(l) \/ Binds(l) \/ Ends(l) \/ Lapses(l)
      PROVE  Was(l)
  <2>1. leases[l] # Unminted
    BY <1>1, CurrentTyped, HeldIs DEF Expires, Lengthens, Binds, Ends, Lapses, Unminted
  <2>2. leases[l] \in Lease
    BY <2>1 DEF LeasesTyped
  <2>3. CASE leases'[l] = Current[l]
    BY <1>1, <2>1, <2>2, <2>3, CurrentTyped, HeldIs DEF Held, Active
  <2>4. CASE leases'[l] = leases[l]
    BY <1>1, <2>4
  <2>5. CASE Lengthens(l) \/ Binds(l) \/ Ends(l) \/ Lapses(l)
    BY <1>1, <2>2, <2>5, HeldIs DEF Lengthens, Binds, Ends, Lapses, Extended, Lease
  <2> QED  BY <1>1, <2>3, <2>4, <2>5 DEF Expires
<1>2. SUFFICES ASSUME NEW l \in LeaseId, NEW k \in LeaseId,
                      leases'[l].st = "active", leases'[k].st = "active",
                      leases'[l].ws = leases'[k].ws, leases'[l].role = leases'[k].role
               PROVE  l = k
  BY DEF OneHolder, Active
<1>3. CASE Was(l) /\ Was(k)
  BY <1>2, <1>3 DEF OneHolder, Active
<1> HIDE DEF Was
<1>4. CASE UNCHANGED leases
  BY <1>2, <1>4 DEF OneHolder, Active
<1>5. CASE Other
  BY <1>1, <1>2, <1>3, <1>5, OtherDoes
<1>6. ASSUME NEW p \in Principal, NEW ws \in Workspace, NEW wanted \in SUBSET Role,
             Register(p, ws, wanted)
      PROVE  l = k
  <2>1. ASSUME NEW x \in LeaseId, NEW y \in LeaseId, NEW r \in Role, Begins(x, p, ws, r),
               leases'[y].st = "active", leases'[y].ws = ws, leases'[y].role = r
        PROVE  x = y
    <3>1. CASE leases'[y] = Current[y]
      <4>1. y \in HoldersOf(ws, r)
        BY <2>1, <3>1 DEF HoldersOf, Held, Active
      <4> QED  BY <2>1, <4>1 DEF Begins
    <3>2. CASE Lengthens(y)
      <4>1. y \in Held /\ Current[y].ws = ws /\ Current[y].role = r
        BY <2>1, <3>2, HeldIs DEF Lengthens, Extended, Lease
      <4> QED  BY <2>1, <4>1 DEF Begins, HoldersOf
    <3>3. ASSUME NEW q \in Role, Begins(y, p, ws, q) PROVE x = y
      <4>1. q = r
        BY <2>1, <3>3 DEF Begins, Granted
      <4> QED  BY <2>1, <3>3, <4>1, <1>6, RegisterDoes
    <3> QED  BY <1>6, <3>1, <3>2, <3>3, RegisterDoes
  <2>2. \A x \in LeaseId : Was(x) \/ \/ leases'[x].st # "active"
                                     \/ \E r \in Role : Begins(x, p, ws, r)
    BY <1>1, <1>6, RegisterDoes
  <2>3. \A x \in LeaseId, r \in Role : Begins(x, p, ws, r) => leases'[x].ws = ws /\ leases'[x].role = r
    BY DEF Begins, Granted
  <2>4. CASE \E r \in Role : Begins(l, p, ws, r)
    BY <1>2, <2>1, <2>3, <2>4
  <2>5. CASE \E r \in Role : Begins(k, p, ws, r)
    BY <1>2, <2>1, <2>3, <2>5
  <2> QED  BY <1>2, <1>3, <2>2, <2>4, <2>5
<1> QED  BY <1>4, <1>5, <1>6 DEF LeaseNext, Other

\* As an invariant of the registry.
THEOREM OneHolderAlways == LeaseSpec => []OneHolder
<1>1. LeaseInit => OneHolder
  BY DEF LeaseInit, OneHolder, Active, Unminted
<1> QED  BY <1>1, OneHolderStep, LeasesTypeCorrect, PTL DEF LeaseSpec

\* What a step leaves as it was in a lease that was minted.
LEMMA LeaseKeeps ==
  ASSUME LeasesTyped, [LeaseNext]_leases, NEW l \in LeaseId, leases[l] # Unminted
  PROVE  /\ leases'[l] # Unminted
         /\ leases'[l].who = leases[l].who /\ leases'[l].role = leases[l].role
         /\ leases[l].task # NoTask => leases'[l].task = leases[l].task
         /\ Over(leases[l]) => Over(leases'[l])
         /\ leases[l].st \in {"released", "expired"} => leases'[l] = leases[l]
<1>1. leases[l] \in Lease /\ Unminted \notin Lease
  BY DEF LeasesTyped, Lease, Unminted
<1>2. CASE leases'[l] = leases[l]
  BY <1>2
<1>3. CASE leases'[l] = Current[l]
  <2>1. Current[l] # Unminted
    BY CurrentTyped
  <2>2. Over(leases[l]) => Over(Current[l])
    BY <1>1 DEF Over, Current, Active, Lease
  <2> QED  BY <1>3, <2>1, <2>2, CurrentTyped, HeldIs
<1>4. CASE Lengthens(l)
  BY <1>1, <1>4, HeldIs DEF Lengthens, Extended, Over, Lease, Unminted
<1>5. CASE Binds(l)
  <2>1. PICK t \in Task : leases[l].task \in {NoTask, t} /\ leases'[l] = [leases[l] EXCEPT !.task = t]
    BY <1>5 DEF Binds
  <2>2. leases[l].st = "active" /\ ~leases[l].late
    BY <1>5, HeldIs DEF Binds
  <2>3. leases'[l] \in Lease
    BY <1>1, <2>1 DEF Lease
  <2> QED  BY <1>1, <2>1, <2>2, <2>3 DEF Over, Lease
<1>6. CASE Ends(l)
  BY <1>1, <1>6, HeldIs DEF Ends, Over, Lease, Unminted
<1>7. CASE Lapses(l)
  BY <1>1, <1>7 DEF Lapses, Over, Lease, Unminted
<1>8. CASE UNCHANGED leases
  BY <1>2, <1>8
<1>9. CASE Other
  BY <1>2, <1>3, <1>4, <1>5, <1>6, <1>7, <1>9, OtherDoes DEF Expires
<1>10. ASSUME NEW p \in Principal, NEW ws \in Workspace, NEW wanted \in SUBSET Role,
              Register(p, ws, wanted)
       PROVE  leases'[l] = Current[l] \/ Lengthens(l)
  <2>1. \A r \in Role : ~Begins(l, p, ws, r)
    BY DEF Begins
  <2> QED  BY <1>10, <2>1, RegisterDoes
<1> QED  BY <1>3, <1>4, <1>8, <1>9, <1>10 DEF LeaseNext, Other

\* Nothing revives a lease that ended or ran out, and none changes its task.
THEOREM NoneRevived == LeaseSpec => EndedForGood
<1>1. ASSUME LeasesTyped, LeaseNext
      PROVE  \A l \in LeaseId :
               /\ Over(leases[l]) => Over(leases'[l])
               /\ leases[l].st \in {"released", "expired"} => leases'[l] = leases[l]
               /\ leases[l].st # "unminted" /\ leases[l].task # NoTask => leases'[l].task = leases[l].task
  <2>1. SUFFICES ASSUME NEW l \in LeaseId
                 PROVE  /\ Over(leases[l]) => Over(leases'[l])
                        /\ leases[l].st \in {"released", "expired"} => leases'[l] = leases[l]
                        /\ leases[l].st # "unminted" /\ leases[l].task # NoTask
                             => leases'[l].task = leases[l].task
    OBVIOUS
  <2>2. CASE leases[l] = Unminted
    BY <2>2 DEF Over, Unminted
  <2>3. CASE leases[l] # Unminted
    BY <1>1, <2>3, LeaseKeeps
  <2> QED  BY <2>2, <2>3
<1> QED  BY <1>1, LeasesTypeCorrect, PTL DEF LeaseSpec, EndedForGood

-----------------------------------------------------------------------------
(* The control plane.                                                      *)

\* A session is minted exactly when it is not Unminted, and stays so.
LEMMA Minted ==
  ASSUME LeasesTyped
  PROVE  \A l \in LeaseId : l \notin Fresh <=> leases[l] # Unminted
BY DEF LeasesTyped, Fresh, Lease, Unminted

\* A turn is opened exactly when it has a record, and then it has a task.
LEMMA OpenedIs ==
  ASSUME TurnsTyped
  PROVE  \A u \in TurnId : u \in Opened <=> turns[u] \in Turn
BY LeaseAssumption DEF TurnsTyped, Opened, Turn, NoTurn

\* Every step of the control plane does one operation of the registry, or none.
LEMMA KeepsLeasesStep ==
  ASSUME TypeOK, [Next]_vars
  PROVE  [LeaseNext]_leases
<1>1. ASSUME NEW t \in Task, Resolve(t) PROVE LeaseNext
  <2>1. ASSUME NEW r \in Role, Look(t, r) PROVE LeaseNext
    BY <2>1 DEF Look, LeaseNext
  <2>2. CASE BindAsked(t)
    BY <2>2 DEF BindAsked, LeaseNext, TypeOK, AskTyped
  <2>3. CASE BindRefused(t)
    BY <2>3 DEF BindRefused, LeaseNext
  <2> QED  BY <1>1, <2>1, <2>2, <2>3 DEF Resolve
<1>2. ASSUME NEW t \in Task, OpenTurn(t) \/ OpenRefused(t) \/ Await(t) \/ GiveUp(t)
      PROVE  [LeaseNext]_leases
  BY <1>2 DEF OpenTurn, OpenRefused, Await, GiveUp, TakeAnswer, TakeFailure, Watch, Close, LeaseNext
<1>3. ASSUME NEW wanted \in SUBSET Role, RegisterRole(wanted) PROVE LeaseNext
  BY <1>3, TurnAssumption DEF RegisterRole, Remote, LeaseNext
<1>4. ASSUME NEW l \in LeaseId, RenewRole(l) PROVE LeaseNext
  BY <1>4 DEF RenewRole, Remote, LeaseNext
<1>5. CASE Inspect
  BY <1>5 DEF Inspect, Remote, LeaseNext
<1>6. ASSUME NEW c \in Caller, Tool(c) PROVE [LeaseNext]_leases
  <2>1. ASSUME NEW l \in LeaseId, ReleaseRole(c, l) PROVE LeaseNext
    BY <2>1 DEF ReleaseRole, LeaseNext
  <2>2. ASSUME NEW l \in LeaseId, NEW r \in Role, NEW u \in Opened, AuthorizeSubmission(c, l, r, u)
        PROVE  LeaseNext
    BY <2>2 DEF AuthorizeSubmission, LeaseNext
  <2>3. CASE Collect(c) \/ Submit(c)
    BY <2>3 DEF Collect, Submit
  <2>4. ASSUME NEW u \in TurnId, Abandon(c, u) PROVE UNCHANGED leases
    BY <2>4 DEF Abandon
  <2> QED  BY <1>6, <2>1, <2>2, <2>3, <2>4 DEF Tool
<1>7. CASE Clock
  BY <1>7 DEF Clock, Remote, LeaseNext
<1>8. CASE UNCHANGED vars
  BY <1>8 DEF vars
<1> QED  BY <1>1, <1>2, <1>3, <1>4, <1>5, <1>6, <1>7, <1>8 DEF Next

\* What is minted stays minted.
LEMMA MintedStays ==
  ASSUME TypeOK, [Next]_vars
  PROVE  /\ LeasesTyped'
         /\ \A l \in LeaseId \ Fresh : l \in LeaseId \ Fresh'
<1>1. LeasesTyped'
  BY KeepsLeasesStep, LeasesTypedStep DEF TypeOK
<1>2. \A l \in LeaseId : leases[l] # Unminted => leases'[l] # Unminted
  BY KeepsLeasesStep, LeaseKeeps DEF TypeOK
<1>3. \A l \in LeaseId : l \notin Fresh' <=> leases'[l] # Unminted
  BY <1>1 DEF LeasesTyped, Fresh, Lease, Unminted
<1> QED  BY <1>1, <1>2, <1>3, Minted DEF TypeOK

\* A run whose place alone changes keeps its type, if its session and its turn
\* are what that place needs.
LEMMA StopTyped ==
  ASSUME AskTyped, NEW t \in Task, NEW how \in {"bound", "waiting", "answering", "closing", "answered", "failed"},
         Stop(t, how), Opened \subseteq Opened',
         \A l \in LeaseId \ Fresh : l \in LeaseId \ Fresh',
         how \in {"bound", "waiting"} => ask[t].sess \in LeaseId \ Fresh,
         how \in {"waiting", "answering", "closing", "answered"} => ask[t].turn \in Opened
  PROVE  AskTyped'
<1>1. ask' = [ask EXCEPT ![t] = [ask[t] EXCEPT !.pc = how]]
  BY DEF Stop, AskTyped, AskType
<1>2. ask \in [Task -> AskType] /\ [ask[t] EXCEPT !.pc = how] \in AskType
  BY DEF AskTyped, AskType
<1>3. ask' \in [Task -> AskType]
  BY <1>1, <1>2
<1>4. \A x \in Task : x # t => ask'[x] = ask[x]
  BY <1>1, <1>2
<1>5. ask'[t].pc = how /\ ask'[t].sess = ask[t].sess /\ ask'[t].turn = ask[t].turn
  BY <1>1, <1>2 DEF AskType
<1> QED  BY <1>3, <1>4, <1>5 DEF AskTyped

\* A run that begins a turn, or is refused one.
LEMMA GoTyped ==
  ASSUME AskTyped, NEW t \in Task, NEW pc \in {"binding", "local", "failed"}, NEW role \in Role,
         NEW sess \in LeaseId \cup {Nobody}, Go(t, pc, role, sess), Opened \subseteq Opened',
         \A l \in LeaseId \ Fresh : l \in LeaseId \ Fresh',
         pc = "binding" => sess \in LeaseId \ Fresh
  PROVE  AskTyped'
<1>1. [pc |-> pc, role |-> role, sess |-> sess, turn |-> Nobody] \in AskType
  BY DEF AskType
<1>2. ask' \in [Task -> AskType]
  BY <1>1 DEF Go, AskTyped
<1>3. \A x \in Task : x # t => ask'[x] = ask[x]
  BY DEF Go, AskTyped
<1>4. ask'[t] = [pc |-> pc, role |-> role, sess |-> sess, turn |-> Nobody]
  BY DEF Go, AskTyped
<1> QED  BY <1>2, <1>3, <1>4 DEF AskTyped

\* Every step keeps every type.
LEMMA TypeStep ==
  ASSUME TypeOK, [Next]_vars
  PROVE  TypeOK'
<1>1. /\ LeasesTyped'
      /\ \A l \in LeaseId \ Fresh : l \in LeaseId \ Fresh'
  BY MintedStays
<1>2. LeasesTyped /\ TurnsTyped /\ AskTyped /\ CallTyped
  BY DEF TypeOK
<1>3. ASSUME UNCHANGED <<turns, open, delegations>> PROVE TurnsTyped' /\ Opened' = Opened
  BY <1>2, <1>3 DEF TurnsTyped, Opened
<1>4. ASSUME UNCHANGED call PROVE CallTyped'
  BY <1>1, <1>2, <1>4 DEF CallTyped
<1>5. ASSUME UNCHANGED ask, Opened \subseteq Opened' PROVE AskTyped'
  BY <1>1, <1>2, <1>5 DEF AskTyped
<1>6. \A l \in Held : l \in LeaseId \ Fresh
  BY <1>2, HeldIs DEF Fresh, Held, Active
<1>7. ASSUME NEW t \in Task, Resolve(t) PROVE TypeOK'
  <2>1. ASSUME NEW r \in Role, Look(t, r) PROVE AskTyped'
    <3>1. UNCHANGED <<turns, open, delegations, call>>
      BY <2>1 DEF Look
    <3>2. \/ Go(t, "local", r, Nobody) \/ Go(t, "failed", r, Nobody)
          \/ \E l \in HoldersOf(Here, r) : Go(t, "binding", r, l)
      BY <2>1 DEF Look
    <3>3. CASE Go(t, "local", r, Nobody) \/ Go(t, "failed", r, Nobody)
      BY <1>1, <1>2, <1>3, <3>1, <3>3, GoTyped
    <3>4. ASSUME NEW l \in HoldersOf(Here, r), Go(t, "binding", r, l) PROVE AskTyped'
      <4>1. l \in LeaseId \ Fresh
        BY <1>6, <3>4 DEF HoldersOf
      <4> QED  BY <1>1, <1>2, <1>3, <3>1, <3>4, <4>1, GoTyped
    <3> QED  BY <3>2, <3>3, <3>4
  <2>2. CASE BindAsked(t)
    <3>1. Stop(t, "bound") /\ ask[t].sess \in LeaseId \ Fresh /\ UNCHANGED <<turns, open, delegations, call>>
      BY <1>2, <2>2 DEF BindAsked, Stop, AskTyped
    <3> QED  BY <1>1, <1>2, <1>3, <1>4, <3>1, StopTyped DEF TypeOK
  <2>3. CASE BindRefused(t)
    <3>1. /\ Go(t, "failed", ask[t].role, Nobody) /\ ask[t].role \in Role
          /\ UNCHANGED <<turns, open, delegations, call>>
      BY <1>2, <2>3 DEF BindRefused, AskTyped, AskType
    <3> QED  BY <1>1, <1>2, <1>3, <1>4, <3>1, GoTyped DEF TypeOK
  <2>4. UNCHANGED <<turns, open, delegations, call>>
    BY <1>7 DEF Resolve, Look, BindAsked, BindRefused
  <2> QED  BY <1>1, <1>3, <1>4, <1>7, <2>1, <2>2, <2>3, <2>4 DEF Resolve, TypeOK
<1>8. ASSUME NEW t \in Task, OpenTurn(t) \/ OpenRefused(t) PROVE TypeOK'
  <2>1. ask[t].pc = "bound" /\ ask[t].sess \in LeaseId \ Fresh /\ ask[t].role \in Role /\ UNCHANGED <<leases, call>>
    BY <1>2, <1>8 DEF OpenTurn, OpenRefused, AskTyped, AskType
  <2>2. leases[ask[t].sess].who \in Principal
    BY <1>2, <2>1, Minted DEF LeasesTyped, Lease
  <2>3. delegations' \in [Task \X Role -> Principal \cup {Nobody}]
    BY <1>2, <1>8, <2>1, <2>2 DEF OpenTurn, OpenRefused, Remember, TurnsTyped
  <2>4. CASE OpenRefused(t)
    <3>1. Stop(t, "failed") /\ UNCHANGED <<turns, open>>
      BY <2>4 DEF OpenRefused
    <3>2. TurnsTyped' /\ Opened' = Opened
      BY <1>2, <2>3, <3>1 DEF TurnsTyped, Opened
    <3> QED  BY <1>1, <1>2, <1>4, <2>1, <3>1, <3>2, StopTyped DEF TypeOK
  <2>5. CASE OpenTurn(t)
    <3> DEFINE new == [task |-> t, role |-> ask[t].role, who |-> leases[ask[t].sess].who,
                       sess |-> ask[t].sess, done |-> FALSE, answer |-> {}, failed |-> FALSE]
    <3>1. PICK u \in TurnId \ Opened : /\ turns' = [turns EXCEPT ![u] = new]
                                      /\ open' = open \cup {u}
                                      /\ ask' = [ask EXCEPT ![t].pc = "waiting", ![t].turn = u]
      BY <2>5 DEF OpenTurn
    <3>2. new \in Turn /\ new # NoTurn
      BY <2>1, <2>2, LeaseAssumption DEF Turn, NoTurn
    <3> HIDE DEF new
    <3>3. turns' \in [TurnId -> Turn \cup {NoTurn}] /\ Opened' = Opened \cup {u}
      BY <1>2, <3>1, <3>2 DEF TurnsTyped, Opened
    <3>4. TurnsTyped'
      BY <1>2, <2>3, <3>1, <3>3 DEF TurnsTyped
    <3>5. ask \in [Task -> AskType] /\ [ask[t] EXCEPT !.pc = "waiting", !.turn = u] \in AskType
      BY <1>2, <3>1 DEF AskTyped, AskType
    <3>6. ask' = [ask EXCEPT ![t] = [ask[t] EXCEPT !.pc = "waiting", !.turn = u]]
      BY <3>1, <3>5 DEF AskType
    <3>7. /\ ask' \in [Task -> AskType]
          /\ \A x \in Task : x # t => ask'[x] = ask[x]
          /\ ask'[t].pc = "waiting" /\ ask'[t].turn = u /\ ask'[t].sess = ask[t].sess
      BY <3>5, <3>6 DEF AskType
    <3>8. AskTyped'
      BY <1>1, <1>2, <2>1, <3>3, <3>7 DEF AskTyped
    <3> QED  BY <1>1, <1>4, <2>1, <3>4, <3>8 DEF TypeOK
  <2> QED  BY <1>8, <2>4, <2>5
<1>9. ASSUME NEW t \in Task, Await(t) \/ GiveUp(t) PROVE TypeOK'
  <2>1. UNCHANGED <<turns, delegations, call>> /\ open' \subseteq open
    BY <1>9 DEF Await, GiveUp, TakeAnswer, TakeFailure, Watch, Close
  <2>2. TurnsTyped' /\ Opened' = Opened
    BY <1>2, <2>1 DEF TurnsTyped, Opened
  <2>3. \/ UNCHANGED ask
        \/ ask[t].pc = "waiting" /\ (Stop(t, "answering") \/ Stop(t, "closing"))
        \/ ask[t].pc \in {"answering", "closing"} /\ (Stop(t, "answered") \/ Stop(t, "failed"))
    BY <1>9 DEF Await, GiveUp, TakeAnswer, TakeFailure, Watch, Close, Waiting
  <2>4. ask[t].pc \in {"waiting", "answering", "closing"} => ask[t].turn \in Opened
    BY <1>2 DEF AskTyped
  <2>5. AskTyped'
    BY <1>1, <1>2, <1>5, <2>2, <2>3, <2>4, StopTyped
  <2> QED  BY <1>1, <1>4, <2>1, <2>2, <2>5 DEF TypeOK
<1>10. CASE (\E wanted \in SUBSET Role : RegisterRole(wanted)) \/ (\E l \in LeaseId : RenewRole(l)) \/ Inspect \/ Clock
  <2>1. UNCHANGED <<turns, open, delegations, ask, call>>
    BY <1>10 DEF RegisterRole, RenewRole, Inspect, Clock, Remote
  <2> QED  BY <1>1, <1>3, <1>4, <1>5, <2>1 DEF TypeOK
<1>11. ASSUME NEW c \in Caller, Tool(c) PROVE TypeOK'
  <2>1. UNCHANGED <<open, delegations, ask>>
    BY <1>11 DEF Tool, ReleaseRole, AuthorizeSubmission, Collect, Submit, Abandon
  <2>2. ASSUME NEW x \in CallType, call' = [call EXCEPT ![c] = x],
               x.pc # "idle" => x.sess \in LeaseId \ Fresh
        PROVE  CallTyped'
    BY <1>1, <1>2, <2>2 DEF CallTyped
  <2>3. NoCall \in CallType /\ NoCall.pc = "idle"
    BY DEF NoCall, CallType, Role
  <2>4. call[c] \in CallType /\ (call[c].pc # "idle" => call[c].sess \in LeaseId \ Fresh)
    BY <1>2 DEF CallTyped
  <2>5. ASSUME NEW us \in SUBSET TurnId, Left(c, us), call[c].pc # "idle" PROVE CallTyped'
    <3>1. [call[c] EXCEPT !.pc = "abandoning", !.turns = us] \in CallType
      BY <2>4 DEF CallType
    <3>2. [call[c] EXCEPT !.pc = "abandoning", !.turns = us].sess = call[c].sess
      BY <2>4 DEF CallType
    <3>3. \/ call' = [call EXCEPT ![c] = NoCall]
          \/ call' = [call EXCEPT ![c] = [call[c] EXCEPT !.pc = "abandoning", !.turns = us]]
      BY <1>2, <2>5 DEF Left, CallTyped
    <3> QED  BY <2>2, <2>3, <2>4, <2>5, <3>1, <3>2, <3>3
  <2>6. ASSUME NEW l \in LeaseId, ReleaseRole(c, l) PROVE CallTyped' /\ UNCHANGED turns
    <3> DEFINE x == [NoCall EXCEPT !.pc = "released", !.sess = l]
    <3>1. x \in CallType /\ x.sess \in LeaseId \ Fresh
      BY <2>6 DEF ReleaseRole, NoCall, CallType, Role
    <3> QED  BY <2>2, <2>6, <3>1 DEF ReleaseRole
  <2>7. ASSUME NEW l \in LeaseId, NEW r \in Role, NEW u \in Opened, AuthorizeSubmission(c, l, r, u)
        PROVE  CallTyped' /\ UNCHANGED turns
    <3> DEFINE x == [pc |-> "submitting", sess |-> l, role |-> r, turns |-> {u}]
    <3>1. x \in CallType /\ x.sess \in LeaseId \ Fresh
      BY <1>6, <2>7 DEF AuthorizeSubmission, May, CallType, Opened
    <3> QED  BY <2>2, <2>7, <3>1 DEF AuthorizeSubmission
  <2>8. CASE Collect(c)
    <3>1. {u \in open : ~turns[u].done /\ turns[u].sess = call[c].sess} \in SUBSET TurnId
      BY <1>2 DEF TurnsTyped, Opened
    <3> QED  BY <1>1, <1>3, <1>5, <2>1, <2>5, <2>8, <3>1 DEF Collect, TypeOK
  <2>9. ASSUME UNCHANGED turns, CallTyped' PROVE TypeOK'
    BY <1>1, <1>3, <1>5, <2>1, <2>9 DEF TypeOK
  <2>10. ASSUME NEW v \in TurnId, NEW y \in Turn, v \in Opened, turns' = [turns EXCEPT ![v] = y], CallTyped'
         PROVE  TypeOK'
    <3>1. y # NoTurn
      BY LeaseAssumption DEF Turn, NoTurn
    <3>2. turns' \in [TurnId -> Turn \cup {NoTurn}] /\ Opened' = Opened
      BY <1>2, <2>10, <3>1 DEF TurnsTyped, Opened
    <3>3. TurnsTyped'
      BY <1>2, <2>1, <3>2 DEF TurnsTyped
    <3> QED  BY <1>1, <1>5, <2>1, <2>10, <3>2, <3>3 DEF TypeOK
  <2>11. ASSUME NEW u \in TurnId, Abandon(c, u) PROVE TypeOK'
    <3>1. call[c].turns \ {u} \in SUBSET TurnId /\ call[c].pc # "idle" /\ Left(c, call[c].turns \ {u})
      BY <2>4, <2>11 DEF Abandon, CallType
    <3>2. CallTyped'
      BY <2>5, <3>1
    <3>3. CASE u \in open /\ ~turns[u].done
      <4>1. u \in Opened /\ turns[u] \in Turn
        BY <1>2, <3>3, OpenedIs DEF TurnsTyped
      <4>2. [turns[u] EXCEPT !.done = TRUE, !.failed = TRUE] \in Turn
        BY <4>1 DEF Turn
      <4>3. turns' = [turns EXCEPT ![u] = [turns[u] EXCEPT !.done = TRUE, !.failed = TRUE]]
        BY <1>2, <2>11, <3>3, <4>1 DEF Abandon, TurnsTyped, Turn
      <4> QED  BY <2>10, <3>2, <4>1, <4>2, <4>3
    <3>4. CASE ~(u \in open /\ ~turns[u].done)
      BY <2>9, <2>11, <3>2, <3>4 DEF Abandon
    <3> QED  BY <3>3, <3>4
  <2>12. CASE Submit(c)
    <3>1. CallTyped'
      BY <2>2, <2>3, <2>12 DEF Submit
    <3>2. ASSUME NEW u \in call[c].turns, Answers(c, u),
                 turns' = [turns EXCEPT ![u].done = TRUE, ![u].answer = @ \cup {call[c].sess}]
          PROVE  TypeOK'
      <4>1. u \in Opened /\ turns[u] \in Turn
        BY <1>2, <3>2, OpenedIs DEF Answers, TurnsTyped, Opened
      <4>2. call[c].sess \in LeaseId
        BY <2>4, <2>12 DEF Submit
      <4>3. [turns[u] EXCEPT !.done = TRUE, !.answer = @ \cup {call[c].sess}] \in Turn
        BY <4>1, <4>2 DEF Turn
      <4>4. turns' = [turns EXCEPT ![u] = [turns[u] EXCEPT !.done = TRUE, !.answer = @ \cup {call[c].sess}]]
        BY <1>2, <3>2, <4>1 DEF TurnsTyped, Turn, Opened
      <4> QED  BY <2>10, <3>1, <4>1, <4>3, <4>4 DEF Opened
    <3> QED  BY <2>9, <2>12, <3>1, <3>2 DEF Submit
  <2> QED  BY <1>11, <2>6, <2>7, <2>8, <2>9, <2>11, <2>12 DEF Tool
<1>12. CASE UNCHANGED vars
  BY <1>1, <1>3, <1>4, <1>5, <1>12 DEF vars, TypeOK
<1> QED  BY <1>7, <1>8, <1>9, <1>10, <1>11, <1>12 DEF Next

\* The types of the control plane, in every state it reaches.
THEOREM ControlTypeCorrect == Spec => []TypeOK
<1>1. Init => TypeOK
  <2>1. ASSUME Init PROVE Opened = {} /\ LeasesTyped /\ TurnsTyped
    BY <2>1 DEF Init, Opened, LeaseInit, LeasesTyped, TurnsTyped
  <2>2. ASSUME Init PROVE AskTyped /\ CallTyped
    BY <2>2 DEF Init, AskTyped, CallTyped, AskType, CallType, NotAsking, NoCall, Role
  <2> QED  BY <2>1, <2>2 DEF TypeOK
<1> QED  BY <1>1, TypeStep, PTL DEF Spec

\* Whatever tools are called and turns asked, the leases go through the
\* operations of the registry, one at a time.
THEOREM ControlKeepsLeases == Spec => KeepsLeases
<1>1. Init => LeaseInit
  BY DEF Init
<1> QED  BY <1>1, KeepsLeasesStep, ControlTypeCorrect, PTL DEF Spec, KeepsLeases, LeaseSpec

\* So every theorem of the registry holds of the control plane.
COROLLARY ControlLeases == Spec => []OneHolder /\ EndedForGood
BY ControlKeepsLeases, OneHolderAlways, NoneRevived, PTL DEF KeepsLeases

-----------------------------------------------------------------------------
(* The turns: who is asked, whose answer a run goes on with, and that      *)
(* nobody is asked in a delegate's stead.                                  *)

\* The session that a run asks has the role it is asked for, and is of the party
\* the role is delegated to, if any; once bound, it is bound to the run's task.
BoundInv ==
  \A t \in Task :
    /\ ask[t].pc \in {"binding", "bound"} =>
         LET l == leases[ask[t].sess]
         IN l.role = ask[t].role /\ delegations[<<t, ask[t].role>>] \in {Nobody, l.who}
    /\ ask[t].pc = "bound" => leases[ask[t].sess].task = t

\* A turn that is not consumed has no answer and no refusal, none has both, and
\* an answer is of the session that was asked.
TurnInv ==
  \A u \in Opened :
    /\ turns[u].answer \subseteq {turns[u].sess}
    /\ ~turns[u].done => turns[u].answer = {} /\ ~turns[u].failed
    /\ turns[u].answer = {} \/ ~turns[u].failed

\* A run is in the turn that it opened, and goes on with an answer only of that.
AskInv ==
  \A t \in Task :
    LET a == ask[t]
    IN /\ a.pc \in {"waiting", "answering", "closing", "answered"} =>
            turns[a.turn].task = t /\ turns[a.turn].role = a.role /\ turns[a.turn].sess = a.sess
       /\ a.pc \in {"answering", "answered"} => turns[a.turn].answer # {}

-----------------------------------------------------------------------------
(* What a step does to a turn, and to a run.                               *)

\* A turn u that was not consumed is made the consumed turn y.
Consumed(u, y) == /\ u \in Opened /\ ~turns[u].done
                  /\ y.task = turns[u].task /\ y.role = turns[u].role
                  /\ y.who = turns[u].who /\ y.sess = turns[u].sess /\ y.done

\* A step opens a turn, refuses or answers one that was not consumed, or leaves
\* all of them alone.
LEMMA TurnsDo ==
  ASSUME TypeOK, [Next]_vars
  PROVE  \/ UNCHANGED turns
         \/ \E t \in Task : OpenTurn(t)
         \/ \E u \in TurnId, y \in Turn :
              /\ Consumed(u, y) /\ turns' = [turns EXCEPT ![u] = y]
              /\ \/ y.failed /\ y.answer = turns[u].answer
                 \/ y.failed = turns[u].failed /\ y.answer = turns[u].answer \cup {turns[u].sess}
<1>1. turns \in [TurnId -> Turn \cup {NoTurn}] /\ open \subseteq Opened
  BY DEF TypeOK, TurnsTyped
<1>2. \A u \in Opened : turns[u] \in Turn
  BY OpenedIs DEF TypeOK, Opened
<1>3. ASSUME NEW c \in Caller, NEW u \in TurnId, Abandon(c, u), ~UNCHANGED turns
      PROVE  \E y \in Turn : /\ Consumed(u, y) /\ turns' = [turns EXCEPT ![u] = y]
                             /\ y.failed /\ y.answer = turns[u].answer
  <2> DEFINE y == [turns[u] EXCEPT !.done = TRUE, !.failed = TRUE]
  <2>1. u \in open /\ ~turns[u].done /\ u \in Opened /\ turns[u] \in Turn
    BY <1>1, <1>2, <1>3 DEF Abandon
  <2>2. turns' = [turns EXCEPT ![u] = y]
    BY <1>1, <1>3, <2>1 DEF Abandon, Turn
  <2>3. y \in Turn /\ Consumed(u, y) /\ y.failed /\ y.answer = turns[u].answer
    BY <2>1 DEF Turn, Consumed
  <2> QED  BY <2>2, <2>3
<1>4. ASSUME NEW c \in Caller, Submit(c), ~UNCHANGED turns
      PROVE  \E u \in TurnId, y \in Turn :
               /\ Consumed(u, y) /\ turns' = [turns EXCEPT ![u] = y]
               /\ y.failed = turns[u].failed /\ y.answer = turns[u].answer \cup {turns[u].sess}
  <2>1. PICK u \in call[c].turns : /\ Answers(c, u)
                                   /\ turns' = [turns EXCEPT ![u].done = TRUE, ![u].answer = @ \cup {call[c].sess}]
    BY <1>4 DEF Submit
  <2>2. u \in Opened /\ u \in TurnId /\ ~turns[u].done /\ turns[u].sess = call[c].sess /\ turns[u] \in Turn
    BY <1>1, <1>2, <2>1 DEF Answers, Opened
  <2> DEFINE y == [turns[u] EXCEPT !.done = TRUE, !.answer = @ \cup {turns[u].sess}]
  <2>3. turns' = [turns EXCEPT ![u] = y]
    BY <1>1, <2>1, <2>2 DEF Turn
  <2>4. /\ y \in Turn /\ Consumed(u, y)
        /\ y.failed = turns[u].failed /\ y.answer = turns[u].answer \cup {turns[u].sess}
    BY <2>2 DEF Turn, Consumed
  <2> QED  BY <2>2, <2>3, <2>4
<1>5. \/ UNCHANGED turns
      \/ \E t \in Task : OpenTurn(t)
      \/ \E c \in Caller, u \in TurnId : Abandon(c, u)
      \/ \E c \in Caller : Submit(c)
  BY DEF Next, vars, Resolve, Look, BindAsked, BindRefused, OpenRefused, Await, TakeAnswer, TakeFailure,
         Watch, Close, GiveUp, RegisterRole, RenewRole, Inspect, Clock, Remote, Tool, ReleaseRole,
         AuthorizeSubmission, Collect
<1> QED  BY <1>3, <1>4, <1>5

\* A run and its delegations are left alone by all but its own steps.
LEMMA RunAlone ==
  ASSUME TypeOK, [Next]_vars, NEW t \in Task
  PROVE  \/ ask'[t] = ask[t] /\ \A r \in Role : delegations'[<<t, r>>] = delegations[<<t, r>>]
         \/ Resolve(t) \/ OpenTurn(t) \/ OpenRefused(t) \/ Await(t) \/ GiveUp(t)
<1>1. ask \in [Task -> AskType] /\ delegations \in [Task \X Role -> Principal \cup {Nobody}]
  BY DEF TypeOK, AskTyped, TurnsTyped
<1>2. ASSUME NEW x \in Task, x # t, Resolve(x) \/ Await(x) \/ GiveUp(x)
      PROVE  ask'[t] = ask[t] /\ UNCHANGED delegations
  BY <1>1, <1>2 DEF Resolve, Look, BindAsked, BindRefused, Go, Await, TakeAnswer, TakeFailure, Watch,
                    Close, GiveUp, Stop
<1>3. ASSUME NEW x \in Task, x # t, OpenTurn(x) \/ OpenRefused(x)
      PROVE  ask'[t] = ask[t] /\ \A r \in Role : delegations'[<<t, r>>] = delegations[<<t, r>>]
  BY <1>1, <1>3 DEF OpenTurn, OpenRefused, Stop, Remember
<1>4. ASSUME NEW c \in Caller, Tool(c) PROVE UNCHANGED <<ask, delegations>>
  BY <1>4 DEF Tool, ReleaseRole, AuthorizeSubmission, Collect, Submit, Abandon
<1>5. \/ \E x \in Task : Resolve(x) \/ OpenTurn(x) \/ OpenRefused(x) \/ Await(x) \/ GiveUp(x)
      \/ \E c \in Caller : Tool(c)
      \/ UNCHANGED <<ask, delegations>>
  BY DEF Next, vars, RegisterRole, RenewRole, Inspect, Clock, Remote
<1> QED  BY <1>2, <1>3, <1>4, <1>5

-----------------------------------------------------------------------------
(* What Resolve makes of a run.                                            *)

\* The run of t is at pc, for role r, with session l.
Asks(t, r, pc, l) == /\ ask'[t].pc = pc /\ ask'[t].role = r /\ ask'[t].sess = l

\* Resolve leaves the run answered locally, where the role was never delegated;
\* with a session of the role and of the delegate, if there is one, bound or to
\* be bound; or failed.
LEMMA ResolveDoes ==
  ASSUME TypeOK, NEW t \in Task, Resolve(t)
  PROVE  /\ UNCHANGED delegations
         /\ \/ \E r \in Role : Asks(t, r, "local", Nobody) /\ delegations[<<t, r>>] = Nobody
            \/ \E r \in Role, l \in Held :
                 /\ Asks(t, r, "binding", l)
                 /\ leases[l].role = r /\ delegations[<<t, r>>] \in {Nobody, leases[l].who}
            \/ /\ ask[t].pc = "binding" /\ Bind(ask[t].sess, t)
               /\ Asks(t, ask[t].role, "bound", ask[t].sess)
            \/ ask'[t].pc = "failed"
<1>1. ask \in [Task -> AskType] /\ LeasesTyped
  BY DEF TypeOK, AskTyped
<1>2. ASSUME NEW pc, NEW r, NEW l, Go(t, pc, r, l) PROVE Asks(t, r, pc, l)
  BY <1>1, <1>2 DEF Go, Asks
<1>3. ASSUME NEW r \in Role, Look(t, r), ask'[t].pc # "failed"
      PROVE  \/ Asks(t, r, "local", Nobody) /\ delegations[<<t, r>>] = Nobody
             \/ \E l \in Held : /\ Asks(t, r, "binding", l)
                               /\ leases[l].role = r /\ delegations[<<t, r>>] \in {Nobody, leases[l].who}
  <2>1. CASE Go(t, IF delegations[<<t, r>>] = Nobody THEN "local" ELSE "failed", r, Nobody)
    BY <1>2, <1>3, <2>1 DEF Asks
  <2>2. ASSUME NEW l \in HoldersOf(Here, r),
               IF delegations[<<t, r>>] \in {Nobody, Current[l].who}
               THEN Go(t, "binding", r, l) ELSE Go(t, "failed", r, Nobody)
        PROVE  /\ l \in Held /\ Asks(t, r, "binding", l)
               /\ leases[l].role = r /\ delegations[<<t, r>>] \in {Nobody, leases[l].who}
    <3>1. l \in LeaseId /\ l \in Held /\ Current[l].role = r
      BY <2>2 DEF HoldersOf, Held, Active
    <3>2. Current[l] = leases[l]
      BY <1>1, <3>1, HeldIs
    <3>3. delegations[<<t, r>>] \in {Nobody, Current[l].who}
      BY <1>2, <1>3, <2>2 DEF Asks
    <3> QED  BY <1>2, <2>2, <3>1, <3>2, <3>3
  <2> QED  BY <1>3, <2>1, <2>2 DEF Look
<1>4. CASE BindAsked(t)
  <2>1. ask'[t] = [ask[t] EXCEPT !.pc = "bound"]
    BY <1>1, <1>4 DEF BindAsked
  <2> QED  BY <1>1, <1>4, <2>1 DEF BindAsked, Asks, AskType
<1>5. CASE BindRefused(t)
  BY <1>2, <1>5 DEF BindRefused, Asks
<1>6. UNCHANGED delegations
  BY DEF Resolve, Look, BindAsked, BindRefused
<1> QED  BY <1>3, <1>4, <1>5, <1>6 DEF Resolve

-----------------------------------------------------------------------------
(* Turns are consumed once.                                                *)

\* A turn keeps what it is about, and its answer, once it has one.
LEMMA TurnStep ==
  ASSUME TypeOK, TurnInv, [Next]_vars
  PROVE  /\ TurnInv'
         /\ \A u \in Opened :
              /\ u \in Opened'
              /\ turns'[u].task = turns[u].task /\ turns'[u].role = turns[u].role
              /\ turns'[u].who = turns[u].who /\ turns'[u].sess = turns[u].sess
              /\ turns[u].answer # {} => turns'[u].answer # {}
<1>1. turns \in [TurnId -> Turn \cup {NoTurn}] /\ \A u \in Opened : turns[u] \in Turn
  BY OpenedIs DEF TypeOK, TurnsTyped, Opened
<1>2. CASE UNCHANGED turns
  BY <1>2 DEF TurnInv, Opened
<1>3. ASSUME NEW t \in Task, OpenTurn(t)
      PROVE  /\ TurnInv'
             /\ \A u \in Opened : u \in Opened' /\ turns'[u] = turns[u]
  <2>1. PICK u \in TurnId \ Opened :
          turns' = [turns EXCEPT ![u] = [task |-> t, role |-> ask[t].role, who |-> leases[ask[t].sess].who,
                                         sess |-> ask[t].sess, done |-> FALSE, answer |-> {}, failed |-> FALSE]]
    BY <1>3 DEF OpenTurn
  <2>2. \A v \in TurnId : v # u => turns'[v] = turns[v]
    BY <1>1, <2>1
  <2>3. turns'[u].answer = {} /\ ~turns'[u].failed
    BY <1>1, <2>1
  <2> QED  BY <2>1, <2>2, <2>3 DEF TurnInv, Opened
<1>4. ASSUME NEW u \in TurnId, NEW y \in Turn, Consumed(u, y), turns' = [turns EXCEPT ![u] = y],
             \/ y.failed /\ y.answer = turns[u].answer
             \/ y.failed = turns[u].failed /\ y.answer = turns[u].answer \cup {turns[u].sess}
      PROVE  /\ TurnInv'
             /\ \A v \in Opened : v # u => v \in Opened' /\ turns'[v] = turns[v]
             /\ u \in Opened' /\ turns'[u] = y /\ (turns[u].answer # {} => y.answer # {})
  <2>1. turns'[u] = y /\ \A v \in TurnId : v # u => turns'[v] = turns[v]
    BY <1>1, <1>4
  <2>2. y # NoTurn
    BY LeaseAssumption DEF Turn, NoTurn
  <2>3. Opened' = Opened
    BY <1>4, <2>1, <2>2 DEF Opened, Consumed
  <2>4. turns[u].answer = {} /\ ~turns[u].failed
    BY <1>4 DEF TurnInv, Consumed
  <2>5. /\ y.answer \subseteq {y.sess} /\ y.done
        /\ y.answer = {} \/ ~y.failed
    BY <1>4, <2>4 DEF Consumed
  <2>6. TurnInv'
    BY <2>1, <2>3, <2>5 DEF TurnInv, Opened
  <2> QED  BY <1>4, <2>1, <2>3, <2>4, <2>6 DEF Opened, Consumed
<1> QED  BY <1>2, <1>3, <1>4, TurnsDo DEF Consumed, Opened

-----------------------------------------------------------------------------
(* A run goes on with the answer of its own turn.                          *)

\* Every step keeps a run in the turn it opened.
LEMMA AskStep ==
  ASSUME TypeOK, TurnInv, AskInv, [Next]_vars
  PROVE  AskInv'
<1>1. ask \in [Task -> AskType] /\ turns \in [TurnId -> Turn \cup {NoTurn}]
  BY DEF TypeOK, AskTyped, TurnsTyped
<1>2. SUFFICES ASSUME NEW t \in Task
               PROVE  /\ ask'[t].pc \in {"waiting", "answering", "closing", "answered"} =>
                           /\ turns'[ask'[t].turn].task = t /\ turns'[ask'[t].turn].role = ask'[t].role
                           /\ turns'[ask'[t].turn].sess = ask'[t].sess
                      /\ ask'[t].pc \in {"answering", "answered"} => turns'[ask'[t].turn].answer # {}
  BY DEF AskInv
<1>3. ask[t].pc \in {"waiting", "answering", "closing", "answered"} => ask[t].turn \in Opened
  BY DEF TypeOK, AskTyped
<1>4. CASE ask'[t] = ask[t]
  BY <1>3, <1>4, TurnStep DEF AskInv
<1>5. CASE Resolve(t)
  BY <1>5, ResolveDoes DEF Asks
<1>6. CASE OpenRefused(t)
  BY <1>1, <1>6 DEF OpenRefused, Stop
<1>7. CASE OpenTurn(t)
  <2>1. PICK u \in TurnId \ Opened :
          /\ turns' = [turns EXCEPT ![u] = [task |-> t, role |-> ask[t].role, who |-> leases[ask[t].sess].who,
                                            sess |-> ask[t].sess, done |-> FALSE, answer |-> {}, failed |-> FALSE]]
          /\ ask' = [ask EXCEPT ![t].pc = "waiting", ![t].turn = u]
    BY <1>7 DEF OpenTurn
  <2>2. ask'[t] = [ask[t] EXCEPT !.pc = "waiting", !.turn = u]
    BY <1>1, <2>1
  <2>3. ask'[t].pc = "waiting" /\ ask'[t].turn = u /\ ask'[t].role = ask[t].role /\ ask'[t].sess = ask[t].sess
    BY <1>1, <2>2 DEF AskType
  <2>4. turns'[u].task = t /\ turns'[u].role = ask[t].role /\ turns'[u].sess = ask[t].sess
    BY <1>1, <2>1
  <2> QED  BY <2>3, <2>4
<1>8. CASE (Await(t) \/ GiveUp(t)) /\ ask'[t] # ask[t]
  <2>1. UNCHANGED turns
    BY <1>8 DEF Await, GiveUp, TakeAnswer, TakeFailure, Watch, Close
  <2>2. ASSUME NEW how \in {"answering", "closing", "answered", "failed"}, Stop(t, how)
        PROVE  ask'[t].pc = how /\ ask'[t].turn = ask[t].turn
               /\ ask'[t].role = ask[t].role /\ ask'[t].sess = ask[t].sess
    BY <1>1, <2>2 DEF Stop, AskType
  <2>3. CASE TakeAnswer(t)
    BY <2>1, <2>2, <2>3 DEF TakeAnswer, Waiting, AskInv
  <2>4. CASE TakeFailure(t) \/ GiveUp(t) \/ Watch(t)
    <3>1. Stop(t, "closing") /\ ask[t].pc = "waiting"
      BY <1>8, <2>4 DEF TakeFailure, GiveUp, Watch, Waiting
    <3> QED  BY <2>1, <2>2, <3>1 DEF AskInv
  <2>5. CASE Close(t)
    <3>1. \/ ask[t].pc = "answering" /\ Stop(t, "answered")
          \/ ask[t].pc = "closing" /\ Stop(t, "failed")
      BY <2>5 DEF Close
    <3> QED  BY <2>1, <2>2, <3>1 DEF AskInv
  <2> QED  BY <1>8, <2>3, <2>4, <2>5 DEF Await
<1> QED  BY <1>4, <1>5, <1>6, <1>7, <1>8, RunAlone

\* AnsweredByAsked: the answer a run goes on with was given once, by the session
\* that was asked, to the turn this run opened, which was not refused as well.
THEOREM AnswersOfAsked == Spec => []AnsweredByAsked
<1>1. Init => TurnInv /\ AskInv
  BY DEF Init, TurnInv, AskInv, Opened, NotAsking
<1>2. TypeOK /\ TurnInv /\ AskInv /\ [Next]_vars => TurnInv' /\ AskInv'
  BY TurnStep, AskStep
<1>3. TypeOK /\ TurnInv /\ AskInv => AnsweredByAsked
  <2>1. SUFFICES ASSUME TypeOK, TurnInv, AskInv, NEW t \in Task, ask[t].pc \in {"answering", "answered"}
                 PROVE  LET u == turns[ask[t].turn]
                        IN u.task = t /\ u.role = ask[t].role /\ u.answer = {ask[t].sess} /\ ~u.failed
    BY DEF AnsweredByAsked
  <2>2. ask[t].turn \in Opened
    BY <2>1 DEF TypeOK, AskTyped
  <2>3. /\ turns[ask[t].turn].task = t /\ turns[ask[t].turn].role = ask[t].role
        /\ turns[ask[t].turn].sess = ask[t].sess /\ turns[ask[t].turn].answer # {}
    BY <2>1 DEF AskInv
  <2>4. /\ turns[ask[t].turn].answer \subseteq {turns[ask[t].turn].sess}
        /\ turns[ask[t].turn].answer = {} \/ ~turns[ask[t].turn].failed
    BY <2>1, <2>2 DEF TurnInv
  <2> QED  BY <2>3, <2>4
<1> QED  BY <1>1, <1>2, <1>3, ControlTypeCorrect, PTL DEF Spec

-----------------------------------------------------------------------------
(* Who is asked.                                                           *)

\* Only the run of a task delegates its roles, when it has a session bound.
LEMMA DelegationsDo ==
  ASSUME TypeOK, [Next]_vars, NEW t \in Task, NEW r \in Role
  PROVE  \/ delegations'[<<t, r>>] = delegations[<<t, r>>]
         \/ /\ ask[t].pc = "bound" /\ ask'[t].pc \in {"waiting", "failed"} /\ r = ask[t].role
            /\ delegations'[<<t, r>>] = leases[ask[t].sess].who
<1>1. ask \in [Task -> AskType] /\ delegations \in [Task \X Role -> Principal \cup {Nobody}]
  BY DEF TypeOK, AskTyped, TurnsTyped
<1>2. CASE Resolve(t)
  BY <1>2, ResolveDoes
<1>3. CASE Await(t) \/ GiveUp(t)
  BY <1>3 DEF Await, GiveUp, TakeAnswer, TakeFailure, Watch, Close
<1>4. CASE OpenTurn(t) \/ OpenRefused(t)
  <2>1. /\ ask[t].pc = "bound"
        /\ delegations' = [delegations EXCEPT ![<<t, ask[t].role>>] = leases[ask[t].sess].who]
    BY <1>4 DEF OpenTurn, OpenRefused, Remember
  <2>2. ask'[t].pc \in {"waiting", "failed"}
    <3>1. ASSUME NEW u \in TurnId, ask' = [ask EXCEPT ![t].pc = "waiting", ![t].turn = u]
          PROVE  ask'[t].pc = "waiting"
      <4>1. ask'[t] = [ask[t] EXCEPT !.pc = "waiting", !.turn = u]
        BY <1>1, <3>1
      <4> QED  BY <1>1, <4>1 DEF AskType
    <3>2. Stop(t, "failed") => ask'[t].pc = "failed"
      BY <1>1 DEF Stop, AskType
    <3> QED  BY <1>4, <3>1, <3>2 DEF OpenTurn, OpenRefused
  <2> QED  BY <1>1, <2>1, <2>2
<1> QED  BY <1>2, <1>3, <1>4, RunAlone

\* NoSubstitution: no turn of a task's role is answered locally once the role
\* was delegated.
THEOREM NoneSubstituted == Spec => []NoSubstitution
<1>1. Init => NoSubstitution
  BY DEF Init, NoSubstitution, NotAsking
<1>2. ASSUME TypeOK, NoSubstitution, [Next]_vars, NEW t \in Task, ask'[t].pc = "local"
      PROVE  delegations'[<<t, ask'[t].role>>] = Nobody
  <2>1. ask \in [Task -> AskType]
    BY <1>2 DEF TypeOK, AskTyped
  <2>2. CASE Resolve(t)
    BY <1>2, <2>2, ResolveDoes DEF Asks
  <2>3. CASE ask'[t] = ask[t]
    <3>1. ask[t].role \in Role
      BY <2>1 DEF AskType
    <3> QED  BY <1>2, <2>3, <3>1, DelegationsDo DEF NoSubstitution
  <2>4. ASSUME NEW how \in {"answering", "closing", "answered", "failed"}, Stop(t, how)
        PROVE  FALSE
    BY <1>2, <2>1, <2>4 DEF Stop, AskType
  <2>5. CASE OpenTurn(t) \/ OpenRefused(t)
    <3>1. ask[t].role \in Role /\ ask[t].pc = "bound"
      BY <2>1, <2>5 DEF AskType, OpenTurn, OpenRefused
    <3>2. CASE OpenTurn(t)
      <4>1. PICK u \in TurnId : ask' = [ask EXCEPT ![t].pc = "waiting", ![t].turn = u]
        BY <3>2 DEF OpenTurn
      <4>2. ask'[t] = [ask[t] EXCEPT !.pc = "waiting", !.turn = u]
        BY <2>1, <4>1
      <4> QED  BY <1>2, <2>1, <4>2 DEF AskType
    <3> QED  BY <2>4, <2>5, <3>2 DEF OpenRefused
  <2>6. CASE (Await(t) \/ GiveUp(t)) /\ ask'[t] # ask[t]
    BY <2>4, <2>6 DEF Await, GiveUp, TakeAnswer, TakeFailure, Watch, Close
  <2> QED  BY <1>2, <2>2, <2>3, <2>5, <2>6, RunAlone
<1>3. TypeOK /\ NoSubstitution /\ [Next]_vars => NoSubstitution'
  BY <1>2 DEF NoSubstitution
<1> QED  BY <1>1, <1>3, ControlTypeCorrect, PTL DEF Spec

\* What a session was when it was found and bound, it still is when its turn
\* opens.
LEMMA BoundStep ==
  ASSUME TypeOK, BoundInv, [Next]_vars
  PROVE  BoundInv'
<1>1. ask \in [Task -> AskType] /\ LeasesTyped
  BY DEF TypeOK, AskTyped
<1>2. SUFFICES ASSUME NEW t \in Task, ask'[t].pc \in {"binding", "bound"}
               PROVE  /\ leases'[ask'[t].sess].role = ask'[t].role
                      /\ delegations'[<<t, ask'[t].role>>] \in {Nobody, leases'[ask'[t].sess].who}
                      /\ ask'[t].pc = "bound" => leases'[ask'[t].sess].task = t
  BY DEF BoundInv
<1>3. ASSUME NEW l \in LeaseId, leases[l] # Unminted
      PROVE  /\ leases'[l].who = leases[l].who /\ leases'[l].role = leases[l].role
             /\ leases[l].task # NoTask => leases'[l].task = leases[l].task
  BY <1>1, <1>3, LeaseKeeps, KeepsLeasesStep
<1>4. ask[t].pc \in {"binding", "bound"} =>
        ask[t].sess \in LeaseId /\ leases[ask[t].sess] # Unminted /\ ask[t].role \in Role
  BY <1>1, Minted DEF TypeOK, AskTyped, AskType
<1>5. t # NoTask
  BY LeaseAssumption
<1>6. CASE ask'[t] = ask[t]
  BY <1>2, <1>3, <1>4, <1>5, <1>6, DelegationsDo DEF BoundInv
<1>7. CASE Resolve(t)
  <2>1. ASSUME NEW r \in Role, NEW l \in Held, Asks(t, r, "binding", l), leases[l].role = r,
               delegations[<<t, r>>] \in {Nobody, leases[l].who}
        PROVE  /\ leases'[l].role = r
               /\ delegations'[<<t, r>>] \in {Nobody, leases'[l].who}
    <3>1. l \in LeaseId /\ leases[l] # Unminted
      BY <1>1, <2>1, HeldIs DEF Held, Active, Unminted
    <3> QED  BY <1>3, <1>7, <2>1, <3>1, ResolveDoes
  <2>2. ASSUME ask[t].pc = "binding", Bind(ask[t].sess, t), Asks(t, ask[t].role, "bound", ask[t].sess)
        PROVE  /\ leases'[ask[t].sess].task = t
               /\ leases'[ask[t].sess].role = ask[t].role
               /\ delegations'[<<t, ask[t].role>>] \in {Nobody, leases'[ask[t].sess].who}
    <3>1. ask[t].sess \in Held /\ leases' = [Current EXCEPT ![ask[t].sess].task = t]
      BY <2>2 DEF Bind
    <3>2. Current \in [LeaseId -> Lease \cup {Unminted}] /\ Current[ask[t].sess] \in Lease
      BY <1>1, <1>4, <2>2, <3>1, CurrentTyped, HeldIs
    <3>3. leases'[ask[t].sess] = [Current[ask[t].sess] EXCEPT !.task = t]
      BY <1>4, <2>2, <3>1, <3>2
    <3>4. leases'[ask[t].sess].task = t
      BY <3>2, <3>3 DEF Lease
    <3> QED  BY <1>3, <1>4, <1>7, <2>2, <3>4, ResolveDoes DEF BoundInv
  <2> QED  BY <1>2, <1>7, <2>1, <2>2, ResolveDoes DEF Asks
<1>8. CASE OpenTurn(t) \/ OpenRefused(t)
  BY <1>1, <1>2, <1>8 DEF OpenTurn, OpenRefused, Stop, AskType
<1>9. CASE (Await(t) \/ GiveUp(t)) /\ ask'[t] # ask[t]
  <2>1. \E how \in {"answering", "closing", "answered", "failed"} : Stop(t, how)
    BY <1>9 DEF Await, GiveUp, TakeAnswer, TakeFailure, Watch, Close
  <2> QED  BY <1>1, <1>2, <2>1 DEF Stop, AskType
<1> QED  BY <1>6, <1>7, <1>8, <1>9, RunAlone

\* The session a turn was opened for was minted.
AskedMinted == \A u \in Opened : turns[u].sess \in LeaseId \ Fresh

\* A new turn is of a session that was minted, has the run's role and is bound
\* to its task, and is delegated to that session's party.
LEMMA OpenDoes ==
  ASSUME TypeOK, BoundInv, NEW t \in Task, OpenTurn(t), NEW u \in Opened' \ Opened
  PROVE  /\ turns'[u].task = t /\ turns'[u].role = ask[t].role
         /\ turns'[u].sess = ask[t].sess /\ turns'[u].who = leases[ask[t].sess].who
         /\ ask[t].sess \in LeaseId \ Fresh
         /\ leases[ask[t].sess].task = t /\ leases[ask[t].sess].role = ask[t].role
         /\ delegations'[<<t, ask[t].role>>] = leases[ask[t].sess].who
<1>1. /\ ask \in [Task -> AskType] /\ turns \in [TurnId -> Turn \cup {NoTurn}]
      /\ delegations \in [Task \X Role -> Principal \cup {Nobody}]
  BY DEF TypeOK, AskTyped, TurnsTyped
<1>2. PICK v \in TurnId \ Opened :
        turns' = [turns EXCEPT ![v] = [task |-> t, role |-> ask[t].role, who |-> leases[ask[t].sess].who,
                                       sess |-> ask[t].sess, done |-> FALSE, answer |-> {}, failed |-> FALSE]]
  BY DEF OpenTurn
<1>3. u = v
  <2>1. u \in TurnId /\ turns'[u] # NoTurn /\ turns[u] = NoTurn
    BY DEF Opened
  <2> QED  BY <1>1, <1>2, <2>1
<1>4. ask[t].pc = "bound" /\ ask[t].sess \in LeaseId \ Fresh /\ ask[t].role \in Role
  BY <1>1 DEF OpenTurn, TypeOK, AskTyped, AskType
<1>5. delegations'[<<t, ask[t].role>>] = leases[ask[t].sess].who
  BY <1>1, <1>4 DEF OpenTurn, Remember
<1>6. leases[ask[t].sess].task = t /\ leases[ask[t].sess].role = ask[t].role
  BY <1>4 DEF BoundInv
<1> QED  BY <1>1, <1>2, <1>3, <1>4, <1>5, <1>6

\* Every step keeps what was asked bound.
LEMMA AskedStep ==
  ASSUME TypeOK, TurnInv, BoundInv, AskedMinted, AskedIsBound, [Next]_vars
  PROVE  AskedMinted' /\ AskedIsBound'
<1>1. LeasesTyped /\ \A u \in Opened : turns[u] \in Turn
  BY OpenedIs DEF TypeOK, Opened
<1>2. \A l \in LeaseId \ Fresh :
        /\ l \in LeaseId \ Fresh'
        /\ leases'[l].who = leases[l].who /\ leases'[l].role = leases[l].role
        /\ leases[l].task # NoTask => leases'[l].task = leases[l].task
  BY <1>1, LeaseKeeps, KeepsLeasesStep, Minted, MintedStays
<1>3. ASSUME NEW u \in Opened
      PROVE  /\ turns'[u].sess \in LeaseId \ Fresh'
             /\ leases'[turns'[u].sess].task = turns'[u].task
             /\ leases'[turns'[u].sess].role = turns'[u].role
             /\ leases'[turns'[u].sess].who = turns'[u].who
             /\ delegations'[<<turns'[u].task, turns'[u].role>>] = turns'[u].who
  <2>1. /\ turns[u].task \in Task /\ turns[u].role \in Role /\ turns[u].who \in Principal
        /\ turns[u].sess \in LeaseId \ Fresh /\ turns[u].task # NoTask
    BY <1>1, LeaseAssumption DEF AskedMinted, Turn
  <2>2. /\ leases[turns[u].sess].task = turns[u].task /\ leases[turns[u].sess].role = turns[u].role
        /\ leases[turns[u].sess].who = turns[u].who
        /\ delegations[<<turns[u].task, turns[u].role>>] = turns[u].who
    BY DEF AskedIsBound
  <2>3. /\ turns'[u].task = turns[u].task /\ turns'[u].role = turns[u].role
        /\ turns'[u].who = turns[u].who /\ turns'[u].sess = turns[u].sess
    BY TurnStep
  <2>4. delegations'[<<turns[u].task, turns[u].role>>] = turns[u].who
    <3>1. CASE /\ ask[turns[u].task].pc = "bound" /\ turns[u].role = ask[turns[u].task].role
               /\ delegations'[<<turns[u].task, turns[u].role>>] = leases[ask[turns[u].task].sess].who
      BY <2>1, <2>2, <3>1, TurnAssumption DEF BoundInv
    <3> QED  BY <2>1, <2>2, <3>1, DelegationsDo
  <2> QED  BY <1>2, <2>1, <2>2, <2>3, <2>4
<1>4. ASSUME NEW u \in Opened' \ Opened
      PROVE  /\ turns'[u].sess \in LeaseId \ Fresh'
             /\ leases'[turns'[u].sess].task = turns'[u].task
             /\ leases'[turns'[u].sess].role = turns'[u].role
             /\ leases'[turns'[u].sess].who = turns'[u].who
             /\ delegations'[<<turns'[u].task, turns'[u].role>>] = turns'[u].who
  <2>1. PICK t \in Task : OpenTurn(t)
    <3>1. turns'[u] # turns[u]
      BY <1>4 DEF Opened
    <3>2. ASSUME NEW v \in TurnId, NEW y, Consumed(v, y), turns' = [turns EXCEPT ![v] = y]
          PROVE  FALSE
      <4>1. u # v
        BY <1>4, <3>2 DEF Consumed
      <4>2. u \in TurnId /\ turns \in [TurnId -> Turn \cup {NoTurn}]
        BY <1>4 DEF Opened, TypeOK, TurnsTyped
      <4> QED  BY <3>1, <3>2, <4>1, <4>2
    <3> QED  BY <3>1, <3>2, TurnsDo
  <2>2. UNCHANGED leases
    BY <2>1 DEF OpenTurn
  <2>3. t # NoTask
    BY LeaseAssumption
  <2> QED  BY <1>2, <1>4, <2>1, <2>2, <2>3, OpenDoes
<1> QED  BY <1>3, <1>4 DEF AskedMinted, AskedIsBound

\* AskedIsBound: whoever is asked is bound to the turn's task, has its role, and
\* is the party on record for it.
THEOREM AskedAreBound == Spec => []AskedIsBound
<1>1. Init => TurnInv /\ BoundInv /\ AskedMinted /\ AskedIsBound
  BY DEF Init, TurnInv, BoundInv, AskedMinted, AskedIsBound, Opened, NotAsking
<1>2. TypeOK /\ TurnInv /\ BoundInv /\ AskedMinted /\ AskedIsBound /\ [Next]_vars
        => TurnInv' /\ BoundInv' /\ AskedMinted' /\ AskedIsBound'
  BY TurnStep, BoundStep, AskedStep
<1> QED  BY <1>1, <1>2, ControlTypeCorrect, PTL DEF Spec
=============================================================================
