------------------------------ MODULE MCServices ------------------------------
(***************************************************************************)
(* What somebody waits for, each under the fairness its scheduling gives   *)
(* it: the calls of an implementer's execution service, one confined       *)
(* execution, and the release of a task's lease.  They share no state:     *)
(* every behaviour is one of a single component, chosen at the start, and  *)
(* the state of the others is unused.                                      *)
(***************************************************************************)
EXTENDS Naturals

CONSTANTS Client, Nested, MaxAttempt, MaxEdit,
          Task, Session, NoTask, NoSession, File, Proc, Thread, Owner, Operator,
          None, Asked, Tears, MaxLog

VARIABLES service,
          call, expects, effects, readers, checking, lingers, operative, installing,
          pinned, closed, engine, content,
          wrapper, job, stream, shut, held, cancelled, reader, capture, main, result,
          rec, disk, manifest, taskLock, recLock, lease, op, quar, acked, created

Exec     == INSTANCE ExecService
Launcher == INSTANCE LauncherStatus
Ledger   == INSTANCE SessionLedger
              WITH Record <- File, ProcOf <- [w \in Thread |-> Owner]

ASSUME ServicesAssumption == Exec!ServiceAssumption

exec     == <<call, expects, effects, readers, checking, lingers, operative,
              installing, pinned, closed, engine, content>>
launcher == <<wrapper, job, stream, shut, held, cancelled, reader, capture, main,
              result>>
ledger   == <<rec, disk, manifest, taskLock, recLock, lease, op, quar, acked, created>>
vars     == <<service, exec, launcher, ledger>>

NoExec == /\ call = "unused"
          /\ expects = "unused"
          /\ effects = "unused"
          /\ readers = "unused"
          /\ checking = "unused"
          /\ lingers = "unused"
          /\ operative = "unused"
          /\ installing = "unused"
          /\ pinned = "unused"
          /\ closed = "unused"
          /\ engine = "unused"
          /\ content = "unused"

NoLauncher == /\ wrapper = "unused"
              /\ job = "unused"
              /\ stream = "unused"
              /\ shut = "unused"
              /\ held = "unused"
              /\ cancelled = "unused"
              /\ reader = "unused"
              /\ capture = "unused"
              /\ main = "unused"
              /\ result = "unused"

NoLedger == /\ rec = "unused"
            /\ disk = "unused"
            /\ manifest = "unused"
            /\ taskLock = "unused"
            /\ recLock = "unused"
            /\ lease = "unused"
            /\ op = "unused"
            /\ quar = "unused"
            /\ acked = "unused"
            /\ created = "unused"

Init == \/ service = "exec"     /\ Exec!Init     /\ NoLauncher /\ NoLedger
        \/ service = "launcher" /\ Launcher!Init /\ NoExec /\ NoLedger
        \/ service = "ledger"   /\ Ledger!Init   /\ NoExec /\ NoLauncher

InExec     == service = "exec"     /\ UNCHANGED <<service, launcher, ledger>>
InLauncher == service = "launcher" /\ UNCHANGED <<service, exec, ledger>>
InLedger   == service = "ledger"   /\ UNCHANGED <<service, exec, launcher>>

\* An execution that was reported goes no further.
Ended == service = "launcher" /\ result # "none" /\ UNCHANGED vars

Next == \/ InExec     /\ Exec!Next
        \/ InLauncher /\ Launcher!Next
        \/ InLedger   /\ Ledger!Next
        \/ Ended

\* The fairness of each service, as its own module states it.
Fairness ==
  /\ \A c \in Client \cup {Nested} :
       /\ SF_vars(InExec /\ (Exec!LockEffects(c) \/ Exec!LockGate(c)))
       /\ WF_vars(InExec /\ Exec!Serve(c))
  /\ WF_vars(InExec /\ Exec!Install)
  /\ WF_vars(InExec /\ Exec!Close)
  /\ WF_vars(InExec /\ Exec!Drained)
  /\ WF_vars(InExec /\ engine = "cancelled" /\ Exec!Stop)
  /\ \A w \in Thread : WF_vars(InLedger /\ Ledger!Advance(w))
  /\ \A p \in Proc : WF_vars(InLedger /\ Ledger!Holder(p))
  /\ WF_vars(InLauncher /\ Launcher!Read)
  /\ WF_vars(InLauncher /\ Launcher!ReadEOF)
  /\ WF_vars(InLauncher /\ Launcher!Wait)
  /\ WF_vars(InLauncher /\ Launcher!Completed)
  /\ WF_vars(InLauncher /\ Launcher!EOFGrace)
  /\ WF_vars(InLauncher /\ Launcher!ReadGrace)
  /\ WF_vars(InLauncher /\ Launcher!CaptureEOF)
  /\ WF_vars(InLauncher /\ Launcher!CaptureGrace)
  /\ WF_vars(InLauncher /\ Launcher!Collect)

Spec == Init /\ [][Next]_vars /\ Fairness

\* No effect under authority that is not the task's (ExecService).
NoStaleEffect == service = "exec" => Exec!NoStaleEffect

\* A patch replaces what it was written against (ExecService).
NoLostEdit == [][service = "exec" => Exec!EditKept]_vars

\* Every call is answered, and a stop that was begun ends, unless what a check
\* started keeps the check's output open for ever (ExecService).
EveryoneReturns ==
  []<>(service = "exec" => ~lingers) =>
    /\ \A c \in Client \cup {Nested} :
         service = "exec" /\ call[c].pc # "idle" ~> service = "exec" /\ call[c].pc = "idle"
    /\ service = "exec" /\ engine = "cancelled" ~> service = "exec" /\ engine = "capture"

\* An execution reported as over is over (LauncherStatus).
SettledIsOver == service = "launcher" => Launcher!SettledIsOver

\* An execution whose wrapper ended, or whose status has a whole line or was closed
\* by its last writer, is reported (LauncherStatus).
LaunchReturns ==
  service = "launcher" /\ (Launcher!Gone \/ Launcher!StreamOver
                             \/ stream \in Launcher!Record \cup {"excess"})
    ~> service = "launcher" /\ result # "none"

\* Release of a lease ends, or its process does (SessionLedger).
ReleaseReturns ==
  \A p \in Proc : service = "ledger" /\ lease[p].st = "closing"
                   ~> service = "ledger" /\ lease[p].st = "none"
===============================================================================
