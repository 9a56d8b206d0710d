---------------------------- MODULE CheckpointStore ----------------------------
(***************************************************************************)
(* The transaction that makes an obligation's checkpoint authoritative     *)
(* (internal/workflow/engine.go, commitCheckpoint, over                    *)
(* internal/session/store.go): PREPARED in the record, the payload in a    *)
(* file of its own, read back, COMMITTED in the record, each of which may  *)
(* fail, and the process or the machine may die between any two steps.     *)
(*                                                                         *)
(* One task; its lease admits one process at a time.  A binding (status,   *)
(* plan attempt, digests) is what the checkpoint's fresh identity stands   *)
(* for.  Torn lines and other writers of the record are SessionLedger's.   *)
(***************************************************************************)
EXTENDS Naturals, Sequences, FiniteSetsExt

CONSTANTS MaxCheckpoint,  \* bounds the identities drawn
          MaxSession,     \* bounds the processes, each of a fresh session
          MaxAttempts     \* of one commitCheckpoint (maxCheckpointAttempts)

CheckpointAssumption == MaxCheckpoint \in Nat /\ MaxSession \in Nat \ {0}
                          /\ MaxAttempts \in Nat \ {0}

VARIABLES held,      \* the checkpoint entries of the record, as a read sees them
          stable,    \* those on stable storage
          payload,   \* how far the payload of each identity has come
          place,     \* the checkpoints directory's own entry: none, made, kept
          call,      \* the commitCheckpoint under way
          session,   \* the engine's session
          returned,  \* identities commitCheckpoint returned
          refused    \* the failure the last call returned, if it did

vars == <<held, stable, payload, place, call, session, returned, refused>>

Checkpoint == 1..MaxCheckpoint
NoCheckpoint == 0

Entry == [kind : {"prepared", "committed"}, id : Checkpoint,
          previous : Checkpoint \cup {NoCheckpoint}, session : 1..MaxSession]

\* In the order an attempt takes them; "named" is renamed, "kept" synced so.
Progress == {"none", "temp", "synced", "named", "kept"}

Idle == [at |-> "idle", kind |-> "prepared", id |-> NoCheckpoint, previous |-> NoCheckpoint,
         prior |-> "unknown", tried |-> 0, ids |-> {}]

Nothing == [session |-> 0, ids |-> {}, prior |-> "unknown", previous |-> NoCheckpoint,
            indeterminate |-> FALSE]

Init == /\ held = << >>
        /\ stable = << >>
        /\ payload = [c \in Checkpoint |-> "none"]
        /\ place = "none"
        /\ call = Idle
        /\ session = 1
        /\ returned = {}
        /\ refused = Nothing

----------------------------------------------------------------------------
\* What a record and its payloads establish.

PreparedBefore(h, i) == \E j \in 1..(i - 1) : h[j] = [h[i] EXCEPT !.kind = "prepared"]

Proven(h, s) == {i \in 1..Len(h) : /\ h[i].kind = "committed"
                                   /\ h[i].session = s
                                   /\ PreparedBefore(h, i)}

CommittedCheckpoint(h, s) ==
  IF Proven(h, s) = {} THEN NoCheckpoint ELSE h[Max(Proven(h, s))].id

\* A payload under its name is a complete one: it was synced before.
Readable(c) == place # "none" /\ payload[c] \in {"named", "kept"}

Prepared(h, c) == \E i \in 1..Len(h) : h[i].kind = "prepared" /\ h[i].id = c

Drawn == {c \in Checkpoint : payload[c] # "none" \/ Prepared(held, c)}
           \cup call.ids

----------------------------------------------------------------------------
\* The endings of an attempt and of the call.

Fails(prior, previous, indeterminate) ==
  /\ call' = Idle
  /\ refused' = [session |-> session, prior |-> prior, previous |-> previous,
                 ids |-> call.ids,
                 indeterminate |-> indeterminate]

\* A failed read or payload is tried again, the complete attempt; what was
\* learned of the prior checkpoint is that of the last attempt.
AttemptFails(prior, previous) ==
  IF call.tried + 1 < MaxAttempts
  THEN /\ call' = [Idle EXCEPT !.at = "load", !.tried = call.tried + 1,
                               !.ids = call.ids]
       /\ UNCHANGED refused
  ELSE Fails(prior, previous, FALSE)

Ask == /\ call.at = "idle"
       /\ call' = [Idle EXCEPT !.at = "load"]
       /\ refused' = Nothing
       /\ UNCHANGED <<held, stable, payload, place, session, returned>>

\* Fault: a record that could not be read is one without a checkpoint.
LoadFailsOpen == /\ call.at = "load"
                 /\ \E c \in Checkpoint \ Drawn :
                      call' = [call EXCEPT !.at = "append", !.id = c,
                                           !.prior = "absent", !.ids = @ \cup {c}]
                 /\ UNCHANGED <<held, stable, payload, place, session, returned,
                                refused>>

\* The record, or the payload of the checkpoint that stands, cannot be read.
LoadFails == /\ call.at = "load"
             /\ AttemptFails("unknown", NoCheckpoint)
             /\ UNCHANGED <<held, stable, payload, place, session, returned>>

Load ==
  LET prior == CommittedCheckpoint(held, session)
  IN /\ call.at = "load"
     /\ prior # NoCheckpoint => Readable(prior)
     /\ \E c \in Checkpoint \ Drawn :
          /\ \A d \in Checkpoint \ Drawn : c <= d
          /\ call' = [call EXCEPT !.at = "append", !.kind = "prepared", !.id = c,
                                  !.previous = prior, !.ids = @ \cup {c},
                                  !.prior = IF prior = NoCheckpoint THEN "absent" ELSE "known"]
     /\ UNCHANGED <<held, stable, payload, place, session, returned, refused>>

----------------------------------------------------------------------------
\* AppendDurable of PREPARED and of COMMITTED.

Append1 == [kind |-> call.kind, id |-> call.id, previous |-> call.previous,
            session |-> session]

WriteEntry == /\ call.at = "append"
              /\ held' = Append(held, Append1)
              /\ call' = [call EXCEPT !.at = "written"]
              /\ UNCHANGED <<stable, payload, place, session, returned, refused>>

SyncEntry == /\ call.at = "written"
             /\ stable' = held
             /\ call' = [call EXCEPT !.at = "recorded"]
             /\ UNCHANGED <<held, payload, place, session, returned, refused>>

\* Fault: the directory the record is in is not synced.
SyncNoRecord == /\ call.at = "recorded"
                /\ IF call.kind = "prepared"
                   THEN /\ call' = [call EXCEPT !.at = "payload"]
                        /\ UNCHANGED returned
                   ELSE /\ call' = Idle
                        /\ returned' = returned \cup {call.id}
                /\ UNCHANGED <<held, stable, payload, place, session, refused>>

\* The sync of the record's directory, which is the one checkpoints/ is in.
SyncRecord == /\ call.at = "recorded"
              /\ place' = IF place = "made" THEN "kept" ELSE place
              /\ IF call.kind = "prepared"
                 THEN /\ call' = [call EXCEPT !.at = "payload"]
                      /\ UNCHANGED returned
                 ELSE /\ call' = Idle
                      /\ returned' = returned \cup {call.id}
              /\ UNCHANGED <<held, stable, payload, session, refused>>

\* The record as it was before this append.
Before == IF call.at = "append" THEN held ELSE SubSeq(held, 1, Len(held) - 1)

\* A failed append halts the invocation and is not tried again.  Undone, the
\* record is what it was; not undone, either may be read and either be stable.
AppendFails ==
  /\ call.at \in {"append", "written", "recorded"}
  /\ \/ /\ held' = Before
        /\ stable' = IF call.at = "append" THEN stable ELSE Before
        /\ Fails(call.prior, call.previous, FALSE)
     \/ /\ call.at # "append"
        /\ held' \in {Before, held}
        /\ stable' \in {stable, Before, held'}
        /\ Fails(call.prior, call.previous, TRUE)
  /\ UNCHANGED <<payload, place, session, returned>>

----------------------------------------------------------------------------
\* WriteCheckpoint and the readback.

\* MkdirAll, the refusal to overwrite, and the temporary file.
WriteTemp == /\ call.at = "payload"
             /\ payload[call.id] = "none"
             /\ place' = IF place = "none" THEN "made" ELSE place
             /\ payload' = [payload EXCEPT ![call.id] = "temp"]
             /\ UNCHANGED <<held, stable, call, session, returned, refused>>

Step == [temp |-> "synced", synced |-> "named", named |-> "kept"]

\* Sync, rename, sync of checkpoints/, one at a time.
Persist == /\ call.at = "payload"
           /\ payload[call.id] \in DOMAIN Step
           /\ payload' = [payload EXCEPT ![call.id] = Step[@]]
           /\ call' = [call EXCEPT !.at = IF payload'[call.id] = "kept" THEN "read" ELSE @]
           /\ UNCHANGED <<held, stable, place, session, returned, refused>>

\* Any step of it, or of the readback, may fail; a file that has not its name
\* yet is removed, one that has is left.
PayloadFails == /\ call.at \in {"payload", "read"}
                /\ payload' = [payload EXCEPT ![call.id] =
                                 IF @ \in {"temp", "synced"} THEN "none" ELSE @]
                /\ place' \in {place, IF place = "none" THEN "made" ELSE place}
                /\ AttemptFails(call.prior, call.previous)
                /\ UNCHANGED <<held, stable, session, returned>>

ReadBack == /\ call.at = "read"
            /\ Readable(call.id)
            /\ call' = [call EXCEPT !.at = "append", !.kind = "committed"]
            /\ UNCHANGED <<held, stable, payload, place, session, returned, refused>>

----------------------------------------------------------------------------
\* Deaths.  The next process continues the task under a fresh session.

Restart == /\ session < MaxSession
           /\ session' = session + 1
           /\ call' = Idle
           /\ UNCHANGED <<returned, refused>>

Crash == /\ Restart
         /\ UNCHANGED <<held, stable, payload, place>>

\* What was not synced may be gone or not, and a directory takes its files along.
PowerLoss ==
  /\ Restart
  /\ held' \in {held, stable}
  /\ stable' = held'
  /\ \E lost \in SUBSET {c \in Checkpoint : payload[c] \in {"temp", "synced", "named"}},
        gone \in BOOLEAN :
       /\ gone => place = "made"
       /\ place' = IF gone THEN "none" ELSE place
       /\ payload' = [c \in Checkpoint |-> IF gone \/ c \in lost THEN "none"
                                           ELSE payload[c]]

Next == \/ Ask \/ Load \/ LoadFails
        \/ WriteEntry \/ SyncEntry \/ SyncRecord \/ AppendFails
        \/ WriteTemp \/ Persist \/ PayloadFails \/ ReadBack
        \/ Crash \/ PowerLoss

Spec == Init /\ [][Next]_vars

\* Every identity of the bound is drawn, in the last process.
Spent == call.at = "load" /\ Drawn = Checkpoint /\ session = MaxSession

----------------------------------------------------------------------------
\* commitCheckpoint returns an identity only for a checkpoint that no later
\* failure, undo, crash or power loss takes back: COMMITTED after PREPARED in
\* the record on disk, and its payload there in full.
ReturnedStands ==
  \A c \in returned :
    /\ Readable(c)
    /\ \E s \in 1..MaxSession : \E i \in Proven(stable, s) : stable[i].id = c
    /\ \E s \in 1..MaxSession : \E i \in Proven(held, s) : held[i].id = c

\* A failure that was undone says truly which checkpoint stands: the prior it
\* names, or none (ObligationPersistenceFailed.Prior).
PriorIsTrue ==
  (call.at = "idle" /\ refused.session = session /\ ~refused.indeterminate)
    => \/ refused.prior = "unknown"
       \/ refused.previous = CommittedCheckpoint(held, session)
=============================================================================
