----------------------------- MODULE ExecService -----------------------------
(***************************************************************************)
(* The execution service of one implementer invocation                     *)
(* (internal/workflow/execservice.go, execservice_linux.go): its calls are *)
(* goroutines, one a connection; its effects are serialised by a mutex;    *)
(* and the task's authority gate, a readers-writer lock, makes an effect   *)
(* and the authority it was revalidated against one step.  The engine      *)
(* stops the service before it captures the candidate, and a revised plan  *)
(* may become operative at any time.  A check is candidate code: it may    *)
(* call back into the service it runs under, and what it starts may live   *)
(* on with the check's output open, for as long as it likes.               *)
(***************************************************************************)
EXTENDS Naturals, FiniteSets

CONSTANTS Client,      \* the connections of the provider
          Nested,      \* a connection of the check that runs
          MaxAttempt,  \* bound: plan attempts that become operative
          MaxEdit      \* bound: versions of the file that is patched

ServiceAssumption == /\ Nested \notin Client
                     /\ {MaxAttempt, MaxEdit} \subseteq Nat

VARIABLES call,      \* call[c]: where the call on connection c is
          expects,   \* expects[c]: the version its patch was written against
          effects,   \* the holder of the effects mutex, if any
          readers,   \* the calls that hold the authority gate shared
          checking,  \* a check runs
          lingers,   \* something a check started has the check's output open
          operative, \* the operative plan attempt
          installing,\* an installation waits for the gate
          pinned,    \* the attempt the service is bound to
          closed,    \* the service serves nothing more
          engine,    \* the engine's turn: the provider runs, or it is stopping
          content    \* the version of the file

vars == <<call, expects, effects, readers, checking, lingers, operative, installing,
          pinned, closed, engine, content>>

Caller == Client \cup {Nested}
Nobody == {}
Queued == {"effects", "gate"}
Acting == {"read", "stage", "confirm", "rename", "run", "output", "after"}
Tool   == {"read_file", "apply_patch", "run_check"}

Init == /\ call = [c \in Caller |-> [pc |-> "idle", tool |-> "read_file"]]
        /\ expects = [c \in Caller |-> 0]
        /\ effects = Nobody
        /\ readers = {}
        /\ checking = FALSE
        /\ lingers = FALSE
        /\ operative = 0
        /\ installing = FALSE
        /\ pinned = 0
        /\ closed = FALSE
        /\ engine = "runs"
        /\ content = 0

Go(c, step) == call' = [call EXCEPT ![c].pc = step]
At(c, step) == call[c].pc = step
Running     == \E c \in Caller : At(c, "run")

\* The call is answered, and what it holds is released by its defers.
Answer(c) == /\ Go(c, "idle")
             /\ effects' = effects \ {c}
             /\ readers' = readers \ {c}

----------------------------------------------------------------------------
\* Fault: a call waits for the check that runs.
NotRefused == FALSE

\* A call arrives on a connection that is open.  While a check runs it is
\* refused at once, and never queued.
Refused == checking
Arrive(c, tool, v) ==
  /\ At(c, "idle")
  /\ c = Nested => Running \/ lingers
  /\ engine \in {"runs", "cancelled", "locking"}
  /\ ~Refused
  /\ call' = [call EXCEPT ![c] = [pc |-> IF tool = "read_file" THEN "gate" ELSE "effects",
                                  tool |-> tool]]
  /\ expects' = [expects EXCEPT ![c] = v]
  /\ UNCHANGED <<effects, readers, checking, lingers, operative, installing, pinned,
                 closed, engine, content>>

\* Fault: effects are not serialised.
LockNoEffects(c) ==
  /\ At(c, "effects")
  /\ effects' = effects \cup {c}
  /\ Go(c, "gate")
  /\ UNCHANGED <<expects, readers, checking, lingers, operative, installing, pinned,
                 closed, engine, content>>

LockEffects(c) ==
  /\ At(c, "effects")
  /\ effects = Nobody
  /\ effects' = {c}
  /\ Go(c, "gate")
  /\ UNCHANGED <<expects, readers, checking, lingers, operative, installing, pinned,
                 closed, engine, content>>

\* A writer that waits for the gate keeps new readers out.
WriterWaits == installing \/ engine = "locking"
LockGate(c) ==
  /\ At(c, "gate")
  /\ ~WriterWaits
  /\ readers' = readers \cup {c}
  /\ Go(c, "validate")
  /\ UNCHANGED <<expects, effects, checking, lingers, operative, installing, pinned,
                 closed, engine, content>>

\* The authority is still the pinned one, and the invocation has not ended.
Valid == ~closed /\ engine = "runs" /\ operative = pinned
Revalidate(c) ==
  /\ At(c, "validate")
  /\ \/ /\ Valid
        /\ Go(c, CASE call[c].tool = "read_file"   -> "read"
                   [] call[c].tool = "apply_patch" -> "stage"
                   [] call[c].tool = "run_check"   -> "run")
        /\ checking' = (checking \/ call[c].tool = "run_check")
        /\ UNCHANGED <<effects, readers>>
     \/ /\ ~Valid
        /\ Answer(c)
        /\ UNCHANGED checking
  /\ UNCHANGED <<expects, lingers, operative, installing, pinned, closed, engine,
                 content>>

Read(c) == /\ At(c, "read")
           /\ Answer(c)
           /\ UNCHANGED <<expects, checking, lingers, operative, installing, pinned,
                          closed, engine, content>>

\* A patch of the file its preimage names is staged beside it; the file is read
\* again; the staged file is renamed over it.
Stage(c) ==
  /\ At(c, "stage")
  /\ IF content = expects[c] THEN Go(c, "confirm") /\ UNCHANGED <<effects, readers>>
                             ELSE Answer(c)
  /\ UNCHANGED <<expects, checking, lingers, operative, installing, pinned, closed,
                 engine, content>>

Confirm(c) ==
  /\ At(c, "confirm")
  /\ IF content = expects[c] THEN Go(c, "rename") /\ UNCHANGED <<effects, readers>>
                             ELSE Answer(c)
  /\ UNCHANGED <<expects, checking, lingers, operative, installing, pinned, closed,
                 engine, content>>

Rename(c) ==
  /\ At(c, "rename")
  /\ content' = (content + 1) % (MaxEdit + 1)
  /\ Answer(c)
  /\ UNCHANGED <<expects, checking, lingers, operative, installing, pinned, closed,
                 engine>>

\* The process of the check ends when it is killed, or when its commands have
\* ended: they wait for the answer of a call of theirs.
CheckEnds(c) ==
  /\ At(c, "run")
  /\ At(Nested, "idle") \/ engine # "runs"
  /\ Go(c, "output")
  /\ UNCHANGED <<expects, effects, readers, checking, lingers, operative, installing,
                 pinned, closed, engine, content>>

\* Its output is read until nobody has it open; the call holds its locks that long.
OutputEnds(c) ==
  /\ At(c, "output")
  /\ ~lingers
  /\ checking' = FALSE
  /\ Go(c, "after")
  /\ UNCHANGED <<expects, effects, readers, lingers, operative, installing, pinned,
                 closed, engine, content>>

\* Its evidence is recorded only of an invocation that has not ended.
Report(c) ==
  /\ At(c, "after")
  /\ Answer(c)
  /\ UNCHANGED <<expects, checking, lingers, operative, installing, pinned, closed,
                 engine, content>>

\* What the check starts has its output open too, and no kill reaches it.
Linger == /\ Running
          /\ ~lingers
          /\ lingers' = TRUE
          /\ UNCHANGED <<call, expects, effects, readers, checking, operative,
                         installing, pinned, closed, engine, content>>

LetGo == /\ lingers
         /\ lingers' = FALSE
         /\ UNCHANGED <<call, expects, effects, readers, checking, operative,
                        installing, pinned, closed, engine, content>>

----------------------------------------------------------------------------
\* A revised plan becomes operative under the gate, held exclusively.
Ask == /\ ~installing
       /\ operative < MaxAttempt
       /\ installing' = TRUE
       /\ UNCHANGED <<call, expects, effects, readers, checking, lingers, operative,
                      pinned, closed, engine, content>>

Unguarded == TRUE         \* Fault: the gate is not taken exclusively.
Exclusive == readers = {}
Install == /\ installing
           /\ Exclusive
           /\ operative' = operative + 1
           /\ installing' = FALSE
           /\ UNCHANGED <<call, expects, effects, readers, checking, lingers, pinned,
                          closed, engine, content>>

\* stop: the context is cancelled first, which kills the process of a check; the
\* service is closed under the gate; its connections are closed and its goroutines
\* waited for.
Stop == /\ \/ engine = "runs" /\ engine' = "cancelled"
           \/ engine = "cancelled" /\ engine' = "locking"
        /\ UNCHANGED <<call, expects, effects, readers, checking, lingers, operative,
                       installing, pinned, closed, content>>

Close == /\ engine = "locking"
         /\ Exclusive
         /\ closed' = TRUE
         /\ engine' = "draining"
         /\ UNCHANGED <<call, expects, effects, readers, checking, lingers, operative,
                        installing, pinned, content>>

Drained == /\ engine = "draining"
           /\ \A c \in Caller : At(c, "idle")
           /\ engine' = "capture"
           /\ UNCHANGED <<call, expects, effects, readers, checking, lingers,
                          operative, installing, pinned, closed, content>>

\* The next invocation gets a service of its own.
Start == /\ engine = "capture"
         /\ engine' = "runs"
         /\ closed' = FALSE
         /\ pinned' = operative
         /\ UNCHANGED <<call, expects, effects, readers, checking, lingers, operative,
                        installing, content>>

Serve(c) == \/ LockEffects(c) \/ LockGate(c) \/ Revalidate(c) \/ Read(c) \/ Stage(c)
            \/ Confirm(c) \/ Rename(c) \/ CheckEnds(c)
            \/ OutputEnds(c) \/ Report(c)

Next == \/ \E c \in Caller : \/ \E tool \in Tool, v \in 0..MaxEdit : Arrive(c, tool, v)
                             \/ Serve(c)
        \/ Linger \/ LetGo
        \/ Ask \/ Install \/ Stop \/ Close \/ Drained \/ Start

\* Goroutines run.  Go's mutexes hand over to a waiter that has waited long, so
\* one that is free again and again is obtained (a call waits for one at a
\* time).  The process of a check ends once its calls are answered, or when it is
\* killed.  Nothing makes what it started let go of its output, and nothing makes
\* the engine stop.
Fairness == /\ \A c \in Caller : /\ SF_vars(LockEffects(c) \/ LockGate(c))
                                 /\ WF_vars(Serve(c))
            /\ WF_vars(Install) /\ WF_vars(Close) /\ WF_vars(Drained)
            /\ WF_vars(engine = "cancelled" /\ Stop)

Spec == Init /\ [][Next]_vars /\ Fairness

----------------------------------------------------------------------------
TypeOK == /\ call \in [Caller -> [pc : {"idle", "validate"} \cup Queued \cup Acting,
                                  tool : Tool]]
          /\ expects \in [Caller -> 0..MaxEdit]
          /\ effects \subseteq Caller
          /\ readers \subseteq Caller
          /\ {checking, lingers, installing, closed} \subseteq BOOLEAN
          /\ {operative, pinned} \subseteq 0..MaxAttempt
          /\ engine \in {"runs", "cancelled", "locking", "draining", "capture"}
          /\ content \in 0..MaxEdit
          /\ \A c \in effects \cup readers : call[c].pc # "idle"

\* No call reads, patches or checks the candidate under authority that is no
\* longer the task's, after its invocation was closed, or while the engine
\* captures what the invocation left (execservice.go:86).
NoStaleEffect ==
  \A c \in Caller : call[c].pc \in Acting =>
    /\ operative = pinned
    /\ ~closed
    /\ engine \notin {"draining", "capture"}

\* A patch replaces exactly the content it was written against: no edit of a
\* concurrent call is lost (execservice.go:130).
EditKept ==
  content' # content => \E c \in Caller : At(c, "rename") /\ expects[c] = content
NoLostEdit == [][EditKept]_vars

\* Unless what a check started keeps the check's output open for ever, every call
\* is answered and a stop that was begun ends: the calls, a check's own calls, the
\* installation of a plan and the engine's stop never wait on one another
\* (execservice.go:133, execservice.go:352).  The exception is the code's: the kill
\* reaches one process, and the check is waited for until its output ends, with
\* the mutex and the gate held (evidence.go:667).
EveryoneReturns ==
  []<>~lingers => /\ \A c \in Caller : call[c].pc # "idle" ~> At(c, "idle")
                  /\ engine = "cancelled" ~> engine = "capture"
=============================================================================
