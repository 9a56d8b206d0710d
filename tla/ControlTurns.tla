----------------------------- MODULE ControlTurns -----------------------------
(***************************************************************************)
(* Turns of a task that a remote role holder answers: the control server   *)
(* (internal/control/runner.go, tools.go), its rendezvous of pending turns *)
(* (rendezvous.go) and the registry of role sessions it consults.          *)
(*                                                                         *)
(* The runs of several tasks ask concurrently, one turn at a time each:    *)
(* Resolve decides who answers, and where that is a remote party,          *)
(* remoteRunner.Run opens a turn and waits.  The remote party calls tools, *)
(* each in a goroutine of its own: it registers, renews and releases role  *)
(* sessions and submits answers.  Registry, rendezvous and delegations     *)
(* have a mutex each, and no operation holds two of them.                  *)
(***************************************************************************)
EXTENDS RoleLeases

CONSTANTS Cred,      \* the one principal that the server's credential names
          Here,      \* the workspace it serves
          TurnId,    \* identities of turns that may be minted
          Caller,    \* tool calls under way
          Nobody

ASSUME TurnAssumption ==
  Cred \in Principal /\ Here \in Workspace /\ Nobody \notin Principal \cup LeaseId \cup TurnId

VARIABLES
  turns,        \* each turn's pending record, which its runner keeps
  open,         \* the rendezvous' open turns
  delegations,  \* the principal a task's role was handed to
  ask,          \* the turn the run of each task is in
  call          \* the tool calls

vars == <<leases, turns, open, delegations, ask, call>>

NoTurn == [task |-> NoTask]

\* answer: the session that answered, in the buffered channel; failed: the
\* channel that carries a refusal; done: consumed.
Turn == [task : Task, role : Role, who : Principal, sess : LeaseId,
         done : BOOLEAN, answer : SUBSET LeaseId, failed : BOOLEAN]

NotAsking == [pc |-> "idle", role |-> "architect", sess |-> Nobody, turn |-> Nobody]

NoCall == [pc |-> "idle", sess |-> Nobody, role |-> "architect", turns |-> {}]

Init ==
  /\ LeaseInit
  /\ turns = [u \in TurnId |-> NoTurn]
  /\ open = {}
  /\ delegations = [x \in Task \X Role |-> Nobody]
  /\ ask = [t \in Task |-> NotAsking]
  /\ call = [c \in Caller |-> NoCall]

Opened == {u \in TurnId : turns[u] # NoTurn}

-----------------------------------------------------------------------------
(* Resolve.                                                                *)

\* The run is not in a turn; the last one ended as pc says.
Resting(t) == ask[t].pc \in {"idle", "local", "answered", "failed"}

Go(t, pc, role, sess) ==
  ask' = [ask EXCEPT ![t] = [pc |-> pc, role |-> role, sess |-> sess, turn |-> Nobody]]

Stop(t, how) == ask' = [ask EXCEPT ![t].pc = how]

\* Fault: a role that nobody holds any more is answered locally.
LookAnew(t, r) ==
  /\ Resting(t)
  /\ Consult
  /\ \/ HoldersOf(Here, r) = {} /\ Go(t, "local", r, Nobody)
     \/ \E l \in HoldersOf(Here, r) : Go(t, "binding", r, l)
  /\ UNCHANGED <<turns, open, delegations, call>>

\* holdingLease and Delegated.  Only this run delegates its task's roles.
Look(t, r) ==
  LET previous == delegations[<<t, r>>]
  IN /\ Resting(t)
     /\ Consult
     /\ \/ HoldersOf(Here, r) = {} /\ Go(t, IF previous = Nobody THEN "local" ELSE "failed", r, Nobody)
        \/ \E l \in HoldersOf(Here, r) :
             IF previous \in {Nobody, Current[l].who}
             THEN Go(t, "binding", r, l) ELSE Go(t, "failed", r, Nobody)
     /\ UNCHANGED <<turns, open, delegations, call>>

BindAsked(t) ==
  /\ ask[t].pc = "binding"
  /\ Bind(ask[t].sess, t)
  /\ ask' = [ask EXCEPT ![t].pc = "bound"]
  /\ UNCHANGED <<turns, open, delegations, call>>

\* The lease ended, or is bound to another task, meanwhile.
BindRefused(t) ==
  /\ ask[t].pc = "binding"
  /\ ~(ask[t].sess \in Held /\ Current[ask[t].sess].task \in {NoTask, t})
  /\ Consult
  /\ Go(t, "failed", ask[t].role, Nobody)
  /\ UNCHANGED <<turns, open, delegations, call>>

-----------------------------------------------------------------------------
(* remoteRunner.Run.                                                       *)

\* rememberDelegation
Remember(t) == delegations' = [delegations EXCEPT ![<<t, ask[t].role>>] = leases[ask[t].sess].who]

\* rendezvous.Open under a new identity.
OpenTurn(t) ==
  /\ ask[t].pc = "bound"
  /\ Remember(t)
  /\ \E u \in TurnId \ Opened :
       /\ turns' = [turns EXCEPT ![u] =
                      [task |-> t, role |-> ask[t].role, who |-> leases[ask[t].sess].who,
                       sess |-> ask[t].sess, done |-> FALSE, answer |-> {}, failed |-> FALSE]]
       /\ open' = open \cup {u}
       /\ ask' = [ask EXCEPT ![t].pc = "waiting", ![t].turn = u]
  /\ UNCHANGED <<leases, call>>

\* No identity could be minted for the turn.
OpenRefused(t) ==
  /\ ask[t].pc = "bound"
  /\ Remember(t)
  /\ Stop(t, "failed")
  /\ UNCHANGED <<leases, turns, open, call>>

Waiting(t) == ask[t].pc = "waiting"

\* The branches of the select; which of those that are ready is taken is
\* arbitrary.
TakeAnswer(t) ==
  /\ Waiting(t)
  /\ turns[ask[t].turn].answer # {}
  /\ Stop(t, "answering")
  /\ UNCHANGED <<leases, turns, open, delegations, call>>

TakeFailure(t) ==
  /\ Waiting(t)
  /\ turns[ask[t].turn].failed
  /\ Stop(t, "closing")
  /\ UNCHANGED <<leases, turns, open, delegations, call>>

\* The turn's timer, or the end of the task's context.
GiveUp(t) ==
  /\ Waiting(t)
  /\ Stop(t, "closing")
  /\ UNCHANGED <<leases, turns, open, delegations, call>>

\* Fault: the lease is looked up, and what it says is not acted on.
WatchOnly(t) ==
  /\ Waiting(t)
  /\ Consult
  /\ UNCHANGED <<turns, open, delegations, ask, call>>

\* Every leaseWatchInterval.
Watch(t) ==
  /\ Waiting(t)
  /\ Consult
  /\ IF May(ask[t].sess, SubmitCapability(ask[t].role), Here, t) THEN UNCHANGED ask ELSE Stop(t, "closing")
  /\ UNCHANGED <<turns, open, delegations, call>>

\* The deferred Close.
Close(t) ==
  /\ ask[t].pc \in {"answering", "closing"}
  /\ open' = open \ {ask[t].turn}
  /\ Stop(t, IF ask[t].pc = "answering" THEN "answered" ELSE "failed")
  /\ UNCHANGED <<leases, turns, delegations, call>>


-----------------------------------------------------------------------------
(* Tool calls of the remote party.                                         *)

Remote(step) == step /\ UNCHANGED <<turns, open, delegations, ask, call>>

\* register_role, renew_role, and every call that only reads.
RegisterRole(wanted) == wanted # {} /\ Remote(Register(Cred, Here, wanted))

RenewRole(l) == l \notin Fresh /\ leases[l].who = Cred /\ Remote(Renew(l))

Inspect == Remote(Consult)

\* release_role: the lease, then the turns it was asked, one after the other.
ReleaseRole(c, l) ==
  /\ call[c] = NoCall
  /\ l \notin Fresh /\ leases[l].who = Cred
  /\ Release(l)
  /\ call' = [call EXCEPT ![c] = [NoCall EXCEPT !.pc = "released", !.sess = l]]
  /\ UNCHANGED <<turns, open, delegations, ask>>

\* What is left to abandon; the call returns when nothing is.
Left(c, us) ==
  call' = [call EXCEPT ![c] = IF us = {} THEN NoCall ELSE [@ EXCEPT !.pc = "abandoning", !.turns = us]]

Collect(c) ==
  /\ call[c].pc = "released"
  /\ Left(c, {u \in open : ~turns[u].done /\ turns[u].sess = call[c].sess})
  /\ UNCHANGED <<leases, turns, open, delegations, ask>>

Abandon(c, u) ==
  /\ call[c].pc = "abandoning" /\ u \in call[c].turns
  /\ turns' = IF u \in open /\ ~turns[u].done
              THEN [turns EXCEPT ![u].done = TRUE, ![u].failed = TRUE] ELSE turns
  /\ Left(c, call[c].turns \ {u})
  /\ UNCHANGED <<leases, open, delegations, ask>>

\* submitTurn: the lease is authorized, and then the turn is answered.
AuthorizeSubmission(c, l, r, u) ==
  /\ call[c] = NoCall
  /\ May(l, SubmitCapability(r), Here, NoTask)
  /\ leases[l].who = Cred
  /\ Consult
  /\ call' = [call EXCEPT ![c] = [pc |-> "submitting", sess |-> l, role |-> r, turns |-> {u}]]
  /\ UNCHANGED <<turns, open, delegations, ask>>

\* Fault: whoever holds the role may answer for the session that was asked.
AnswersAs(c, u) ==
  /\ u \in open
  /\ ~turns[u].done
  /\ turns[u].who = leases[call[c].sess].who
  /\ turns[u].role = call[c].role

Answers(c, u) ==
  /\ u \in open
  /\ ~turns[u].done
  /\ turns[u].who = leases[call[c].sess].who
  /\ turns[u].sess = call[c].sess
  /\ turns[u].role = call[c].role

\* rendezvous.Submit: the answer is delivered, or refused, for want of any of
\* the above or because the turn's time is past.
Submit(c) ==
  /\ call[c].pc = "submitting"
  /\ \/ \E u \in call[c].turns :
          /\ Answers(c, u)
          /\ turns' = [turns EXCEPT ![u].done = TRUE, ![u].answer = @ \cup {call[c].sess}]
     \/ UNCHANGED turns
  /\ call' = [call EXCEPT ![c] = NoCall]
  /\ UNCHANGED <<leases, open, delegations, ask>>

-----------------------------------------------------------------------------
Resolve(t) == (\E r \in Role : Look(t, r)) \/ BindAsked(t) \/ BindRefused(t)

Await(t) == TakeAnswer(t) \/ TakeFailure(t) \/ Watch(t) \/ Close(t)

Tool(c) ==
  \/ \E l \in LeaseId : ReleaseRole(c, l)
  \/ \E l \in LeaseId, r \in Role, u \in Opened : AuthorizeSubmission(c, l, r, u)
  \/ Collect(c) \/ Submit(c)
  \/ \E u \in TurnId : Abandon(c, u)

Clock == \E l \in LeaseId : Remote(Elapse(l))

Next ==
  \/ \E t \in Task : Resolve(t) \/ OpenTurn(t) \/ OpenRefused(t) \/ Await(t) \/ GiveUp(t)
  \/ \E wanted \in SUBSET Role : RegisterRole(wanted)
  \/ \E l \in LeaseId : RenewRole(l)
  \/ Inspect
  \/ \E c \in Caller : Tool(c)
  \/ Clock

\* A runner's select goes on with what is ready, and its ticker always ticks;
\* neither its timer nor any tool call is counted on.
Spec == Init /\ [][Next]_vars /\ \A t \in Task : WF_vars(Await(t))

-----------------------------------------------------------------------------
AskType == [pc : {"idle", "binding", "bound", "waiting", "answering", "closing",
                  "local", "answered", "failed"},
            role : Role, sess : LeaseId \cup {Nobody}, turn : TurnId \cup {Nobody}]

CallType == [pc : {"idle", "released", "abandoning", "submitting"}, sess : LeaseId \cup {Nobody},
             role : Role, turns : SUBSET TurnId]

TurnsTyped ==
  /\ turns \in [TurnId -> Turn \cup {NoTurn}]
  /\ open \subseteq Opened
  /\ delegations \in [Task \X Role -> Principal \cup {Nobody}]

AskTyped ==
  /\ ask \in [Task -> AskType]
  /\ \A t \in Task : ask[t].pc \in {"binding", "bound", "waiting"} => ask[t].sess \in LeaseId \ Fresh
  /\ \A t \in Task : ask[t].pc \in {"waiting", "answering", "closing", "answered"} => ask[t].turn \in Opened

CallTyped ==
  /\ call \in [Caller -> CallType]
  /\ \A c \in Caller : call[c].pc # "idle" => call[c].sess \in LeaseId \ Fresh

\* Types; a session that is asked or calls was minted, and a run that waits, or
\* has its answer, has a turn.
TypeOK == LeasesTyped /\ TurnsTyped /\ AskTyped /\ CallTyped

\* Whoever is asked a turn holds, or held, exactly what the turn is about: the
\* role session is bound to the turn's task for ever, has its role, and is of
\* the party the task's role is on record as delegated to.
AskedIsBound ==
  \A u \in Opened :
    LET l == leases[turns[u].sess]
    IN /\ l.task = turns[u].task /\ l.role = turns[u].role /\ l.who = turns[u].who
       /\ delegations[<<turns[u].task, turns[u].role>>] = l.who

\* The answer that a run goes on with was given once, by the very session that
\* was asked, to the very turn this run opened, and that turn was not refused
\* as well: not by another session of the same party, a stale answer of an
\* earlier turn, or one that crossed a release.
AnsweredByAsked ==
  \A t \in Task : ask[t].pc \in {"answering", "answered"} =>
    LET u == turns[ask[t].turn]
    IN u.task = t /\ u.role = ask[t].role /\ u.answer = {ask[t].sess} /\ ~u.failed

\* No turn of a task's role is answered locally once that role was delegated.
NoSubstitution ==
  \A t \in Task : ask[t].pc = "local" => delegations[<<t, ask[t].role>>] = Nobody

\* A runner stops waiting for a party whose role session ended, whether it was
\* released, before or after the turn opened, or ran out unnoticed.
NobodyAwaitsTheGone ==
  \A t \in Task, l \in LeaseId :
    (Waiting(t) /\ ask[t].sess = l /\ Over(leases[l])) ~> ~Waiting(t)

\* What the control plane does to the leases is what the registry's operations
\* do, one at a time.
KeepsLeases == LeaseSpec
=============================================================================
