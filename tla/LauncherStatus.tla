---------------------------- MODULE LauncherStatus ----------------------------
(***************************************************************************)
(* One confined execution under the launcher status protocol               *)
(* (internal/validation/evidence.go, Confinement.launch): the broker's     *)
(* status reader, its output reader and its Wait, against a wrapper that   *)
(* may write anything, hang, leave descriptors open, or be killed by its   *)
(* caller's context.  What is trusted of the launcher is only the meaning  *)
(* of a record that carries the nonce: "ran" is written after the job is   *)
(* torn down, and a pre-start refusal when there is none and will be none. *)
(***************************************************************************)
EXTENDS Naturals

VARIABLES wrapper,   \* the process the broker started
          job,       \* the confined command it runs
          stream,    \* what was written to the status descriptor so far
          shut,      \* the wrapper closed its own end of it
          held,      \* descriptors that what the wrapper started has open too
          cancelled, \* the caller's context is over
          reader,    \* the status reader: its step, what it read, its deadline
          capture,   \* the output reader
          main,      \* the goroutine in Wait, then in the post-exit grace
          result     \* what the execution came to

outside == <<wrapper, job, stream, shut, held, cancelled>>
vars    == <<outside, reader, capture, main, result>>

Fd     == {"status", "output"}
Record == {"ran", "ranOther", "preStart", "otherRefusal", "malformed"}
Stream == {"empty", "partial", "excess"} \cup Record
Gone   == wrapper \in {"exited", "killed"}

Init == /\ wrapper = "running"
        /\ job = "none"
        /\ stream = "empty"
        /\ shut = FALSE
        /\ held = {}
        /\ cancelled = FALSE
        /\ reader = [pc |-> "read", has |-> "empty", armed |-> FALSE]
        /\ capture = "read"
        /\ main = "wait"
        /\ result = "none"

----------------------------------------------------------------------------
\* The launcher and what it starts.

\* A stream has ended when its last writer closed it.
StreamOver == (shut \/ Gone) /\ "status" \notin held

StartJob == /\ wrapper = "running"
            /\ job = "none"
            /\ stream # "preStart"
            /\ job' = "running"
            /\ UNCHANGED <<wrapper, stream, shut, held, cancelled, reader, capture,
                           main, result>>

EndJob == /\ job = "running"
          /\ job' = "over"
          /\ UNCHANGED <<wrapper, stream, shut, held, cancelled, reader, capture,
                         main, result>>

\* Whoever has the status open writes.  "ranOther" is a record whose exit status
\* is not the one the wrapper ends with.
Write(s) == /\ ~StreamOver
            /\ \/ stream \in {"empty", "partial"} /\ s # "empty" /\ s # stream
               \/ stream \in Record /\ s = "excess"
            /\ s \in {"ran", "ranOther"} => job = "over"
            /\ s = "preStart" => job = "none"
            /\ stream' = s
            /\ UNCHANGED <<wrapper, job, shut, held, cancelled, reader, capture,
                           main, result>>

Shut == /\ wrapper = "running"
        /\ ~shut
        /\ shut' = TRUE
        /\ UNCHANGED <<wrapper, job, stream, held, cancelled, reader, capture,
                       main, result>>

\* What the wrapper starts inherits what the wrapper still has open, and may keep
\* it while the wrapper runs and after it is gone.
Inherit(fd) == /\ wrapper = "running"
               /\ fd \notin held
               /\ fd = "status" => ~shut
               /\ held' = held \cup {fd}
               /\ UNCHANGED <<wrapper, job, stream, shut, cancelled, reader, capture,
                              main, result>>

Exit == /\ wrapper = "running"
        /\ wrapper' = "exited"
        /\ UNCHANGED <<job, stream, shut, held, cancelled, reader, capture, main,
                       result>>

Release(fd) == /\ fd \in held
               /\ held' = held \ {fd}
               /\ UNCHANGED <<wrapper, job, stream, shut, cancelled, reader, capture,
                              main, result>>

\* A kill reaches the wrapper alone.
Kill == wrapper' = IF wrapper = "running" THEN "killed" ELSE wrapper

\* The caller's context ends: CommandContext kills the wrapper.
Cancel == /\ ~cancelled
          /\ cancelled' = TRUE
          /\ Kill
          /\ UNCHANGED <<job, stream, shut, held, reader, capture, main, result>>

----------------------------------------------------------------------------
\* The broker.  A deadline that is set may expire at any later moment.

Got(how) == reader' = [reader EXCEPT !.pc = how]

\* A violation ends the invocation: the wrapper is killed if it still runs.
EndInvocation == Got("ended") /\ Kill

\* The reader judges the bytes as they come; a complete line sets the deadline.
Read ==
  /\ reader.pc = "read"
  /\ reader.has # stream
  /\ IF stream = "excess"
       THEN EndInvocation
       ELSE /\ reader' = [reader EXCEPT !.has = stream,
                                        !.armed = @ \/ stream \in Record]
            /\ UNCHANGED wrapper
  /\ UNCHANGED <<job, stream, shut, held, cancelled, capture, main, result>>

ReadEOF ==
  /\ reader.pc = "read"
  /\ reader.has = stream
  /\ StreamOver
  /\ reader' = [reader EXCEPT !.pc = "eof", !.armed = TRUE]
  /\ UNCHANGED <<outside, capture, main, result>>

\* Wait returns, which sets the deadline of both descriptors.
Wait ==
  /\ main = "wait"
  /\ Gone
  /\ main' = "grace"
  /\ UNCHANGED <<outside, reader, capture, result>>

\* The stream ended: its bytes stand when the wrapper has completed, and the
\* wrapper is ended when it has not by the deadline.
Completed ==
  /\ reader.pc = "eof"
  /\ main # "wait"
  /\ Got("bytes")
  /\ UNCHANGED <<outside, capture, main, result>>

EOFGrace ==
  /\ reader.pc = "eof"
  /\ main = "wait"
  /\ EndInvocation
  /\ UNCHANGED <<job, stream, shut, held, cancelled, capture, main, result>>

\* Fault: a read that is held open past the wrapper's end is waited for.
ReadGraceRunning ==
  /\ reader.pc = "read"
  /\ main = "wait"
  /\ reader.armed
  /\ EndInvocation
  /\ UNCHANGED <<job, stream, shut, held, cancelled, capture, main, result>>

\* The deadline of a read expires: a wrapper that is gone left the descriptor
\* held, and one that is not is ended.
ReadGrace ==
  /\ reader.pc = "read"
  /\ \/ /\ main # "wait"
        /\ Got("held")
        /\ UNCHANGED wrapper
     \/ /\ main = "wait"
        /\ reader.armed
        /\ EndInvocation
  /\ UNCHANGED <<job, stream, shut, held, cancelled, capture, main, result>>

\* The output is read to its end, or cut at the deadline.
CaptureEOF ==
  /\ capture = "read"
  /\ Gone
  /\ "output" \notin held
  /\ capture' = "whole"
  /\ UNCHANGED <<outside, reader, main, result>>

CaptureGrace ==
  /\ capture = "read"
  /\ main # "wait"
  /\ capture' = "cut"
  /\ UNCHANGED <<outside, reader, main, result>>

\* Fault: every refusal is taken for one made before anything started.
AnyRefusal(s) == "notApplicable"

\* What the record and the wrapper's own exit establish.  Of the refusals only
\* those the launcher makes before anything starts acquired no workspace.
TeardownOfRefusal(s) == IF s = "preStart" THEN "notApplicable" ELSE "unresolved"
Evidenced == reader.pc = "bytes" /\ capture = "whole"
Verdict ==
  IF ~Evidenced THEN "unresolved"
  ELSE IF reader.has \in {"preStart", "otherRefusal"} THEN TeardownOfRefusal(reader.has)
  ELSE IF reader.has = "ran" /\ wrapper = "exited" THEN "proven"
  ELSE "unresolved"

Collect ==
  /\ main = "grace"
  /\ reader.pc \in {"bytes", "held", "ended"}
  /\ capture # "read"
  /\ main' = "done"
  /\ result' = Verdict
  /\ UNCHANGED <<outside, reader, capture>>

Broker == Read \/ ReadEOF \/ Wait \/ Completed \/ EOFGrace \/ ReadGrace
            \/ CaptureEOF \/ CaptureGrace \/ Collect

Next == \/ Broker
        \/ StartJob \/ EndJob \/ Shut \/ Exit \/ Cancel
        \/ \E s \in Stream : Write(s)
        \/ \E fd \in Fd : Inherit(fd) \/ Release(fd)

\* The broker's goroutines are scheduled and its deadlines expire.  Nothing is
\* assumed of the launcher.
Fairness == /\ WF_vars(Read) /\ WF_vars(ReadEOF) /\ WF_vars(Wait)
            /\ WF_vars(Completed) /\ WF_vars(EOFGrace) /\ WF_vars(ReadGrace)
            /\ WF_vars(CaptureEOF) /\ WF_vars(CaptureGrace) /\ WF_vars(Collect)

Spec == Init /\ [][Next]_vars /\ Fairness

----------------------------------------------------------------------------
TypeOK == /\ wrapper \in {"running", "exited", "killed"}
          /\ job \in {"none", "running", "over"}
          /\ stream \in Stream
          /\ {shut, cancelled} \subseteq BOOLEAN
          /\ held \subseteq Fd
          /\ reader \in [pc : {"read", "eof", "bytes", "held", "ended"},
                         has : Stream, armed : BOOLEAN]
          /\ capture \in {"read", "whole", "cut"}
          /\ main \in {"wait", "grace", "done"}
          /\ result \in {"none", "proven", "notApplicable", "unresolved"}

\* An execution is reported as torn down, or as never started, only when it is:
\* nothing of it runs and nothing holds what it wrote through, however the
\* wrapper, its descendants and a cancellation interleave (evidence.go:833).
SettledIsOver ==
  result \in {"proven", "notApplicable"} => job # "running" /\ held = {}

\* A wrapper that has ended cannot hold validation, whoever keeps a descriptor
\* open, nor can one whose status has a whole line, or was closed by its last
\* writer: the execution is reported (evidence.go:650).
LaunchReturns ==
  Gone \/ StreamOver \/ stream \in Record \cup {"excess"} ~> result # "none"
=============================================================================
