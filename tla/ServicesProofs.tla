---------------------------- MODULE ServicesProofs ----------------------------
(***************************************************************************)
(* Theorems of the services that somebody waits for: for any connections,  *)
(* revisions of the plan and versions of the file, and for a launcher that *)
(* does anything.  First each by itself, then the composition that         *)
(* MCServices checks.                                                      *)
(***************************************************************************)
EXTENDS MCServices, TLAPS

-----------------------------------------------------------------------------
(* The calls of an implementer.                                            *)

Step == {"idle", "validate"} \cup Exec!Queued \cup Exec!Acting

\* What acts holds the gate; the gate is what an installation and the closing
\* of the service wait for; and a service that is drained or captured is closed.
Calls  == call \in [Exec!Caller -> [pc : Step, tool : Exec!Tool]]
Gated  == \A c \in Exec!Caller : call[c].pc \in Exec!Acting \cup {"validate"} => c \in readers
Ending == /\ engine \in {"draining", "capture"} => closed
          /\ engine = "capture" => \A c \in Exec!Caller : Exec!At(c, "idle")

ServiceInv == Calls /\ Gated /\ Ending /\ Exec!NoStaleEffect

\* A step of one call, to a step s, seen from every call.
LEMMA GoesTo ==
  ASSUME Calls, NEW c \in Exec!Caller, NEW s \in Step, Exec!Go(c, s)
  PROVE  /\ Calls'
         /\ call'[c].pc = s /\ call'[c].tool = call[c].tool
         /\ \A b \in Exec!Caller \ {c} : call'[b] = call[b]
<1>1. call[c] \in [pc : Step, tool : Exec!Tool]
  BY DEF Calls
<1>2. call' = [call EXCEPT ![c] = [pc |-> s, tool |-> call[c].tool]]
  <2>1. [call[c] EXCEPT !.pc = s] = [pc |-> s, tool |-> call[c].tool]
    BY <1>1
  <2> QED  BY <2>1 DEF Exec!Go
<1>3. [pc |-> s, tool |-> call[c].tool] \in [pc : Step, tool : Exec!Tool]
  BY <1>1
<1> QED  BY <1>2, <1>3 DEF Calls

\* An answered call gives the gate back and keeps nobody else's.
LEMMA AnswerKeeps ==
  ASSUME ServiceInv, NEW c \in Exec!Caller, Exec!Answer(c),
         UNCHANGED <<operative, pinned, closed, engine>>
  PROVE  ServiceInv'
<1>1. /\ Calls' /\ call'[c].pc = "idle"
      /\ \A b \in Exec!Caller \ {c} : call'[b] = call[b]
  BY GoesTo DEF Exec!Answer, ServiceInv, Step
<1>2. readers' = readers \ {c}
  BY DEF Exec!Answer
<1>3. Gated'
  BY <1>1, <1>2 DEF ServiceInv, Gated, Exec!Acting
<1>4. Ending'
  BY <1>1 DEF ServiceInv, Ending, Exec!At
<1>5. Exec!NoStaleEffect'
  BY <1>1 DEF ServiceInv, Exec!NoStaleEffect, Exec!Acting
<1> QED  BY <1>1, <1>3, <1>4, <1>5 DEF ServiceInv

\* A call that goes on holds the gate wherever it has to, and acts only where
\* it did or was just revalidated.
LEMMA GoKeeps ==
  ASSUME ServiceInv, NEW c \in Exec!Caller, NEW s \in Step, Exec!Go(c, s),
         call[c].pc # "idle", readers \subseteq readers',
         s \in Exec!Acting \cup {"validate"} => c \in readers',
         s \in Exec!Acting => call[c].pc \in Exec!Acting \/ Exec!Valid,
         UNCHANGED <<operative, pinned, closed, engine>>
  PROVE  ServiceInv'
<1>1. /\ Calls' /\ call'[c].pc = s
      /\ \A b \in Exec!Caller \ {c} : call'[b] = call[b]
  BY GoesTo DEF ServiceInv
<1>2. Gated'
  BY <1>1 DEF ServiceInv, Gated
<1>3. Ending'
  BY <1>1 DEF ServiceInv, Ending, Exec!At
<1>4. Exec!NoStaleEffect'
  BY <1>1 DEF ServiceInv, Exec!NoStaleEffect, Exec!Valid
<1> QED  BY <1>1, <1>2, <1>3, <1>4 DEF ServiceInv

LEMMA ServiceInvInit == Exec!Init => ServiceInv
BY DEF Exec!Init, ServiceInv, Calls, Gated, Ending, Exec!NoStaleEffect, Step, Exec!Tool, Exec!Acting, Exec!At

LEMMA ServeKeeps ==
  ASSUME ServiceInv, NEW c \in Exec!Caller, Exec!Serve(c)
  PROVE  ServiceInv'
<1>h. call[c].pc \in Exec!Acting \cup {"validate"} => c \in readers
  BY DEF ServiceInv, Gated
<1>1. CASE Exec!LockEffects(c)
  BY <1>1, GoKeeps DEF Exec!LockEffects, Exec!At, Step, Exec!Queued, Exec!Acting
<1>2. CASE Exec!LockGate(c)
  BY <1>2, GoKeeps DEF Exec!LockGate, Exec!At, Step, Exec!Queued, Exec!Acting
<1>3. CASE Exec!Revalidate(c)
  <2>1. CASE ~Exec!Valid
    BY <1>3, <2>1, AnswerKeeps DEF Exec!Revalidate
  <2>2. CASE Exec!Valid
    <3>1. call[c].tool \in Exec!Tool
      BY DEF ServiceInv, Calls
    <3>2. \E s \in {"read", "stage", "run"} : Exec!Go(c, s)
      BY <1>3, <2>2, <3>1 DEF Exec!Revalidate, Exec!Tool
    <3> QED  BY <1>3, <1>h, <2>2, <3>2, GoKeeps DEF Exec!Revalidate, Exec!At, Step, Exec!Acting
  <2> QED  BY <2>1, <2>2
<1>4. CASE Exec!Read(c)
  BY <1>4, AnswerKeeps DEF Exec!Read
<1>5. CASE Exec!Stage(c)
  <2>1. CASE Exec!Go(c, "confirm") /\ UNCHANGED <<effects, readers>>
    BY <1>5, <1>h, <2>1, GoKeeps DEF Exec!Stage, Exec!At, Step, Exec!Acting
  <2> QED  BY <1>5, <2>1, AnswerKeeps DEF Exec!Stage
<1>6. CASE Exec!Confirm(c)
  <2>1. CASE Exec!Go(c, "rename") /\ UNCHANGED <<effects, readers>>
    BY <1>6, <1>h, <2>1, GoKeeps DEF Exec!Confirm, Exec!At, Step, Exec!Acting
  <2> QED  BY <1>6, <2>1, AnswerKeeps DEF Exec!Confirm
<1>7. CASE Exec!Rename(c)
  BY <1>7, AnswerKeeps DEF Exec!Rename
<1>8. CASE Exec!CheckEnds(c)
  BY <1>8, <1>h, GoKeeps DEF Exec!CheckEnds, Exec!At, Step, Exec!Acting
<1>9. CASE Exec!OutputEnds(c)
  BY <1>9, <1>h, GoKeeps DEF Exec!OutputEnds, Exec!At, Step, Exec!Acting
<1>10. CASE Exec!Report(c)
  BY <1>10, AnswerKeeps DEF Exec!Report
<1> QED  BY <1>1, <1>2, <1>3, <1>4, <1>5, <1>6, <1>7, <1>8, <1>9, <1>10 DEF Exec!Serve

LEMMA ServiceInvKept == ServiceInv /\ [Exec!Next]_Exec!vars => ServiceInv'
<1> SUFFICES ASSUME ServiceInv, [Exec!Next]_Exec!vars PROVE ServiceInv'
  OBVIOUS
<1>1. ASSUME NEW c \in Exec!Caller, NEW tool \in Exec!Tool, NEW v \in 0..MaxEdit, Exec!Arrive(c, tool, v)
      PROVE  ServiceInv'
  <2>1. /\ Calls' /\ call'[c].pc \in Exec!Queued
        /\ \A b \in Exec!Caller \ {c} : call'[b] = call[b]
    BY <1>1 DEF ServiceInv, Calls, Exec!Arrive, Step, Exec!Queued
  <2>2. call'[c].pc \notin Exec!Acting \cup {"validate"}
    BY <2>1 DEF Exec!Queued, Exec!Acting
  <2>3. Gated' /\ Exec!NoStaleEffect'
    BY <1>1, <2>1, <2>2 DEF ServiceInv, Gated, Exec!NoStaleEffect, Exec!Arrive
  <2>4. Ending'
    BY <1>1 DEF ServiceInv, Ending, Exec!Arrive
  <2> QED  BY <2>1, <2>3, <2>4 DEF ServiceInv
<1>2. ASSUME NEW c \in Exec!Caller, Exec!Serve(c) PROVE ServiceInv'
  BY <1>2, ServeKeeps
<1>3. CASE Exec!Ask
  BY <1>3 DEF Exec!Ask, ServiceInv, Calls, Gated, Ending, Exec!NoStaleEffect, Exec!At
<1>4. CASE Exec!Install
  BY <1>4 DEF Exec!Install, Exec!Exclusive, ServiceInv, Calls, Gated, Ending, Exec!NoStaleEffect, Exec!At
<1>5. CASE Exec!Stop
  BY <1>5 DEF Exec!Stop, ServiceInv, Calls, Gated, Ending, Exec!NoStaleEffect, Exec!At
<1>6. CASE Exec!Close
  BY <1>6 DEF Exec!Close, Exec!Exclusive, ServiceInv, Calls, Gated, Ending, Exec!NoStaleEffect, Exec!At
<1>7. CASE Exec!Drained
  BY <1>7 DEF Exec!Drained, ServiceInv, Calls, Gated, Ending, Exec!NoStaleEffect, Exec!At
<1>8. CASE Exec!Start
  BY <1>8 DEF Exec!Start, ServiceInv, Calls, Gated, Ending, Exec!NoStaleEffect, Exec!At, Exec!Acting
<1>9. CASE Exec!Linger \/ Exec!LetGo
  BY <1>9 DEF Exec!Linger, Exec!LetGo, ServiceInv, Calls, Gated, Ending, Exec!NoStaleEffect, Exec!At
<1>10. CASE UNCHANGED Exec!vars
  BY <1>10 DEF Exec!vars, ServiceInv, Calls, Gated, Ending, Exec!NoStaleEffect, Exec!At
<1> QED  BY <1>1, <1>2, <1>3, <1>4, <1>5, <1>6, <1>7, <1>8, <1>9, <1>10 DEF Exec!Next

\* No call reads, patches or checks the candidate under authority that is no
\* longer the task's, after its invocation was closed, or while it is captured,
\* for any number of connections and revisions (execservice.go:86).
THEOREM EffectsAreFresh == Exec!Spec => []Exec!NoStaleEffect
<1>1. ServiceInv => Exec!NoStaleEffect
  BY DEF ServiceInv
<1> QED  BY <1>1, ServiceInvInit, ServiceInvKept, PTL DEF Exec!Spec

-----------------------------------------------------------------------------
(* No edit is lost.                                                        *)

\* From the effects mutex to its answer a call that may write holds the mutex
\* alone, and what it is about to replace is what it was written against.
Mutexed == /\ \A c \in Exec!Caller :
                /\ call[c].pc \in {"gate", "validate"} /\ call[c].tool # "read_file"
                     => effects = {c}
                /\ call[c].pc \in {"stage", "confirm", "rename"}
                     => call[c].tool = "apply_patch" /\ effects = {c}
           /\ \A c \in Exec!Caller : call[c].pc = "rename" => content = expects[c]
EditInv == Calls /\ expects \in [Exec!Caller -> 0..MaxEdit] /\ Mutexed

LEMMA EditInvInit == Exec!ServiceAssumption /\ Exec!Init => EditInv
BY DEF Exec!ServiceAssumption, Exec!Init, EditInv, Calls, Mutexed, Step, Exec!Tool

\* An answered call leaves the mutex of another alone.
LEMMA AnswerKeepsEdit ==
  ASSUME EditInv, NEW c \in Exec!Caller, Exec!Answer(c), UNCHANGED <<expects, content>>
  PROVE  EditInv'
<1>1. /\ Calls' /\ call'[c].pc = "idle"
      /\ \A b \in Exec!Caller \ {c} : call'[b] = call[b]
  BY GoesTo DEF Exec!Answer, EditInv, Step
<1>2. \A b \in Exec!Caller \ {c} : effects = {b} => effects' = {b}
  BY DEF Exec!Answer
<1>3. Mutexed'
  BY <1>1, <1>2 DEF EditInv, Mutexed
<1> QED  BY <1>1, <1>3 DEF EditInv

\* A call that goes on keeps the mutex it holds.
LEMMA GoKeepsEdit ==
  ASSUME EditInv, NEW c \in Exec!Caller, NEW s \in Step, Exec!Go(c, s),
         UNCHANGED <<expects, content>>,
         effects' = effects \/ (effects = {} /\ effects' = {c}),
         s \in {"gate", "validate"} /\ call[c].tool # "read_file" => effects' = {c},
         s \in {"stage", "confirm", "rename"}
           => call[c].tool = "apply_patch" /\ effects' = {c},
         s = "rename" => content = expects[c]
  PROVE  EditInv'
<1>1. /\ Calls' /\ call'[c].pc = s /\ call'[c].tool = call[c].tool
      /\ \A b \in Exec!Caller \ {c} : call'[b] = call[b]
  BY GoesTo DEF EditInv
<1>2. \A b \in Exec!Caller \ {c} : effects = {b} => effects' = {b}
  OBVIOUS
<1>3. Mutexed'
  BY <1>1, <1>2 DEF EditInv, Mutexed
<1> QED  BY <1>1, <1>3 DEF EditInv

LEMMA ServeKeepsEdit == ASSUME EditInv, NEW c \in Exec!Caller, Exec!Serve(c) PROVE EditInv'
<1>1. Calls /\ Mutexed
  BY DEF EditInv
<1>2. CASE Exec!LockEffects(c)
  BY <1>2, GoKeepsEdit DEF Exec!LockEffects, Exec!Nobody, Step, Exec!Queued
<1>3. CASE Exec!LockGate(c)
  BY <1>1, <1>3, GoKeepsEdit DEF Exec!LockGate, Exec!At, Step, Mutexed
<1>4. CASE Exec!Revalidate(c)
  <2>1. CASE ~Exec!Valid
    BY <1>4, <2>1, AnswerKeepsEdit DEF Exec!Revalidate
  <2>2. CASE Exec!Valid
    <3>1. call[c].tool \in Exec!Tool /\ UNCHANGED <<expects, content, effects>>
      BY <1>1, <1>4, <2>2 DEF Exec!Revalidate, Calls
    <3>2. CASE call[c].tool = "apply_patch"
      <4>1. Exec!Go(c, "stage") /\ effects = {c}
        BY <1>1, <1>4, <2>2, <3>2 DEF Exec!Revalidate, Exec!At, Mutexed
      <4> QED  BY <3>1, <3>2, <4>1, GoKeepsEdit DEF Step, Exec!Acting
    <3>3. CASE call[c].tool = "read_file"
      <4>1. Exec!Go(c, "read")
        BY <1>4, <2>2, <3>3 DEF Exec!Revalidate
      <4> QED  BY <3>1, <4>1, GoKeepsEdit DEF Step, Exec!Acting
    <3>4. CASE call[c].tool = "run_check"
      <4>1. Exec!Go(c, "run")
        BY <1>4, <2>2, <3>4 DEF Exec!Revalidate
      <4> QED  BY <3>1, <4>1, GoKeepsEdit DEF Step, Exec!Acting
    <3> QED  BY <3>1, <3>2, <3>3, <3>4 DEF Exec!Tool
  <2> QED  BY <2>1, <2>2
<1>5. CASE Exec!Read(c)
  BY <1>5, AnswerKeepsEdit DEF Exec!Read
<1>6. CASE Exec!Stage(c)
  <2>1. UNCHANGED <<expects, content>>
    BY <1>6 DEF Exec!Stage
  <2>2. CASE content = expects[c]
    <3>1. /\ Exec!Go(c, "confirm") /\ effects' = effects
          /\ call[c].tool = "apply_patch" /\ effects = {c}
      BY <1>1, <1>6, <2>2 DEF Exec!Stage, Exec!At, Mutexed
    <3> QED  BY <2>1, <3>1, GoKeepsEdit DEF Step, Exec!Acting
  <2> QED  BY <1>6, <2>1, <2>2, AnswerKeepsEdit DEF Exec!Stage
<1>7. CASE Exec!Confirm(c)
  <2>1. UNCHANGED <<expects, content>>
    BY <1>7 DEF Exec!Confirm
  <2>2. CASE content = expects[c]
    <3>1. /\ Exec!Go(c, "rename") /\ effects' = effects
          /\ call[c].tool = "apply_patch" /\ effects = {c}
      BY <1>1, <1>7, <2>2 DEF Exec!Confirm, Exec!At, Mutexed
    <3> QED  BY <2>1, <2>2, <3>1, GoKeepsEdit DEF Step, Exec!Acting
  <2> QED  BY <1>7, <2>1, <2>2, AnswerKeepsEdit DEF Exec!Confirm
<1>8. CASE Exec!Rename(c)
  <2>1. /\ Calls' /\ call'[c].pc = "idle"
        /\ \A b \in Exec!Caller \ {c} : call'[b] = call[b]
    BY <1>8, GoesTo DEF Exec!Rename, Exec!Answer, EditInv, Step
  <2>2. effects = {c}
    BY <1>1, <1>8 DEF Exec!Rename, Exec!At, Mutexed
  <2>3. \A b \in Exec!Caller \ {c} : call[b].pc # "rename"
    BY <1>1, <2>2 DEF Mutexed
  <2>4. \A b \in Exec!Caller \ {c} : effects = {b} => effects' = {b}
    BY <1>8 DEF Exec!Rename, Exec!Answer
  <2>5. Mutexed'
    BY <1>1, <2>1, <2>3, <2>4 DEF Mutexed
  <2> QED  BY <1>8, <2>1, <2>5 DEF EditInv, Exec!Rename
<1>9. CASE Exec!CheckEnds(c)
  BY <1>9, GoKeepsEdit DEF Exec!CheckEnds, Step, Exec!Acting
<1>10. CASE Exec!OutputEnds(c)
  BY <1>10, GoKeepsEdit DEF Exec!OutputEnds, Step, Exec!Acting
<1>11. CASE Exec!Report(c)
  BY <1>11, AnswerKeepsEdit DEF Exec!Report
<1> QED  BY <1>2, <1>3, <1>4, <1>5, <1>6, <1>7, <1>8, <1>9, <1>10, <1>11 DEF Exec!Serve

LEMMA EditInvKept == ASSUME EditInv, [Exec!Next]_Exec!vars PROVE EditInv'
<1>1. ASSUME NEW c \in Exec!Caller, NEW tool \in Exec!Tool, NEW v \in 0..MaxEdit,
             Exec!Arrive(c, tool, v)
      PROVE  EditInv'
  <2> DEFINE came == [pc |-> IF tool = "read_file" THEN "gate" ELSE "effects",
                      tool |-> tool]
  <2>1. /\ call' = [call EXCEPT ![c] = came] /\ came \in [pc : Step, tool : Exec!Tool]
        /\ expects' = [expects EXCEPT ![c] = v]
        /\ UNCHANGED <<effects, content>>
    BY <1>1 DEF Exec!Arrive, Step, Exec!Queued
  <2>2. Calls' /\ expects' \in [Exec!Caller -> 0..MaxEdit]
    BY <2>1 DEF EditInv, Calls
  <2>3. \A b \in Exec!Caller \ {c} : call'[b] = call[b] /\ expects'[b] = expects[b]
    BY <2>1 DEF EditInv, Calls
  <2>4. /\ call'[c].pc \in {"gate", "effects"}
        /\ call'[c].pc = "gate" => call'[c].tool = "read_file"
    BY <2>1 DEF EditInv, Calls
  <2>5. Mutexed'
    BY <2>1, <2>3, <2>4 DEF EditInv, Mutexed
  <2> QED  BY <2>2, <2>5 DEF EditInv
<1>2. ASSUME NEW c \in Exec!Caller, Exec!Serve(c) PROVE EditInv'
  BY <1>2, ServeKeepsEdit
<1>3. ASSUME UNCHANGED <<call, expects, effects, content>> PROVE EditInv'
  BY <1>3 DEF EditInv, Calls, Mutexed
<1>4. CASE Exec!Linger \/ Exec!LetGo \/ Exec!Ask \/ Exec!Install \/ Exec!Stop \/ Exec!Close \/ Exec!Drained \/ Exec!Start
             \/ UNCHANGED Exec!vars
  BY <1>3, <1>4 DEF Exec!Linger, Exec!LetGo, Exec!Ask, Exec!Install, Exec!Stop, Exec!Close, Exec!Drained, Exec!Start, Exec!vars
<1> QED  BY <1>1, <1>2, <1>4 DEF Exec!Next

LEMMA EditIsKept == ASSUME EditInv, [Exec!Next]_Exec!vars PROVE [Exec!EditKept]_Exec!vars
<1> SUFFICES ASSUME Exec!Next, content' # content PROVE Exec!EditKept
  BY DEF Exec!vars, Exec!EditKept
<1>1. PICK c \in Exec!Caller : Exec!Rename(c)
  BY DEF Exec!Next, Exec!Serve, Exec!Arrive, Exec!LockEffects, Exec!LockGate, Exec!Revalidate, Exec!Read, Exec!Stage, Exec!Confirm,
         Exec!CheckEnds, Exec!OutputEnds, Exec!Report, Exec!Linger, Exec!LetGo, Exec!Ask, Exec!Install, Exec!Stop, Exec!Close, Exec!Drained, Exec!Start
<1> QED  BY <1>1 DEF Exec!EditKept, Exec!Rename, Exec!At, EditInv, Mutexed

\* A patch replaces exactly the content it was written against, whatever the
\* calls on other connections do between its staging and its renaming, for any
\* number of connections (execservice.go:130).
THEOREM NoEditIsLost == ASSUME Exec!ServiceAssumption PROVE Exec!Spec => Exec!NoLostEdit
<1>1. EditInv /\ [Exec!Next]_Exec!vars => EditInv' /\ [Exec!EditKept]_Exec!vars
  BY EditInvKept, EditIsKept
<1> QED  BY <1>1, EditInvInit, PTL DEF Exec!Spec, Exec!NoLostEdit
-----------------------------------------------------------------------------
(* One confined execution.                                                 *)

\* A stream that ended stays as it was read, and a record says what is so: the
\* job of one that ran is over, and of one refused before it there is none.
Streamed == /\ reader.pc \in {"eof", "bytes"} => reader.has = stream /\ Launcher!StreamOver
            /\ stream \in {"ran", "ranOther"} => job = "over"
            /\ stream = "preStart" => job = "none"

\* What was awaited is over: the wrapper past Wait, the output read to its end.
Awaited == /\ main # "wait" => Launcher!Gone
           /\ reader.pc = "bytes" => main # "wait"
           /\ capture = "whole" => Launcher!Gone /\ "output" \notin held

\* What was reported was established, by what cannot change any more.
Reported == /\ result # "none" => main = "done"
            /\ result = "proven" => held = {} /\ stream = "ran"
            /\ result = "notApplicable" => held = {} /\ stream = "preStart"

LaunchInv == Launcher!TypeOK /\ Streamed /\ Awaited /\ Reported

LEMMA LaunchInvInit == Launcher!Init => LaunchInv
<1> SUFFICES ASSUME Launcher!Init PROVE LaunchInv
  OBVIOUS
<1>1. {shut, cancelled} \subseteq BOOLEAN
  BY Zenon DEF Launcher!Init
<1>2. reader \in [pc : {"read", "eof", "bytes", "held", "ended"},
                  has : Launcher!Stream, armed : BOOLEAN]
  BY DEF Launcher!Init, Launcher!Stream
<1>3. Launcher!TypeOK
  BY <1>1, <1>2 DEF Launcher!Init, Launcher!TypeOK, Launcher!Stream
<1>4. Streamed /\ Awaited /\ Reported
  BY DEF Launcher!Init, Streamed, Awaited, Reported
<1> QED  BY <1>3, <1>4 DEF LaunchInv

\* The wrapper ends, by itself or killed, and what is held stays held: a stream
\* that had ended without it has ended.
LEMMA EndsKeeps ==
  ASSUME LaunchInv, wrapper = "running", wrapper' \in {"exited", "killed"},
         UNCHANGED <<job, stream, shut, held, capture, main, result>>, cancelled' \in BOOLEAN,
         reader' \in [pc : {"read", "eof", "bytes", "held", "ended"},
                      has : Launcher!Stream, armed : BOOLEAN],
         reader' = reader \/ reader'.pc = "ended"
  PROVE  LaunchInv'
<1>1. ~Launcher!Gone /\ Launcher!Gone' /\ main = "wait" /\ capture # "whole" /\ result = "none"
  BY DEF Launcher!Gone, LaunchInv, Awaited, Reported
<1>2. Launcher!StreamOver => Launcher!StreamOver'
  BY <1>1 DEF Launcher!StreamOver
<1>3. Launcher!TypeOK'
  BY DEF LaunchInv, Launcher!TypeOK
<1>4. Streamed'
  BY <1>2 DEF LaunchInv, Streamed
<1>5. Awaited' /\ Reported'
  BY <1>1 DEF LaunchInv, Awaited, Reported
<1> QED  BY <1>3, <1>4, <1>5 DEF LaunchInv

\* The reader moves without an effect outside it.
LEMMA ReaderKeeps ==
  ASSUME LaunchInv, UNCHANGED <<Launcher!outside, capture, main, result>>,
         reader' \in [pc : {"read", "eof", "bytes", "held", "ended"},
                      has : Launcher!Stream, armed : BOOLEAN],
         reader'.pc \in {"eof", "bytes"} => reader'.has = stream /\ Launcher!StreamOver,
         reader'.pc = "bytes" => main # "wait"
  PROVE  LaunchInv'
BY DEF LaunchInv, Launcher!TypeOK, Streamed, Awaited, Reported, Launcher!outside, Launcher!StreamOver, Launcher!Gone, Launcher!Fd

\* A violation that the reader finds.
LEMMA EndInvocationKeeps ==
  ASSUME LaunchInv, Launcher!EndInvocation,
         UNCHANGED <<job, stream, shut, held, cancelled, capture, main, result>>
  PROVE  LaunchInv'
<1>1. /\ reader' \in [pc : {"read", "eof", "bytes", "held", "ended"},
                      has : Launcher!Stream, armed : BOOLEAN]
      /\ reader'.pc = "ended"
  BY DEF Launcher!EndInvocation, Launcher!Got, LaunchInv, Launcher!TypeOK
<1>2. CASE wrapper = "running"
  BY <1>1, <1>2, EndsKeeps DEF Launcher!EndInvocation, Launcher!Kill, LaunchInv, Launcher!TypeOK
<1>3. CASE wrapper # "running"
  BY <1>1, <1>3, ReaderKeeps DEF Launcher!EndInvocation, Launcher!Kill, Launcher!outside
<1> QED  BY <1>2, <1>3

LEMMA BrokerKeeps == ASSUME LaunchInv, Launcher!Broker PROVE LaunchInv'
<1>1. reader \in [pc : {"read", "eof", "bytes", "held", "ended"},
                  has : Launcher!Stream, armed : BOOLEAN]
  BY DEF LaunchInv, Launcher!TypeOK
<1>2. CASE Launcher!Read
  <2>1. CASE stream = "excess"
    BY <1>2, <2>1, EndInvocationKeeps DEF Launcher!Read
  <2>2. CASE stream # "excess"
    BY <1>1, <1>2, <2>2, ReaderKeeps DEF Launcher!Read, Launcher!outside, LaunchInv, Launcher!TypeOK, Launcher!Record, Launcher!Stream
  <2> QED  BY <2>1, <2>2
<1>3. CASE Launcher!ReadEOF
  BY <1>1, <1>3, ReaderKeeps DEF Launcher!ReadEOF
<1>4. CASE Launcher!Wait
  BY <1>4 DEF Launcher!Wait, LaunchInv, Launcher!TypeOK, Streamed, Awaited, Reported, Launcher!outside, Launcher!StreamOver, Launcher!Gone
<1>5. CASE Launcher!Completed
  <2>1. reader' = [reader EXCEPT !.pc = "bytes"] /\ main # "wait"
        /\ UNCHANGED <<Launcher!outside, capture, main, result>>
    BY <1>5 DEF Launcher!Completed, Launcher!Got
  <2>2. reader.has = stream /\ Launcher!StreamOver
    BY <1>5 DEF Launcher!Completed, LaunchInv, Streamed
  <2> QED  BY <1>1, <2>1, <2>2, ReaderKeeps
<1>6. CASE Launcher!EOFGrace
  BY <1>6, EndInvocationKeeps DEF Launcher!EOFGrace
<1>7. CASE Launcher!ReadGrace
  <2>1. CASE main # "wait" /\ Launcher!Got("held") /\ UNCHANGED wrapper
    BY <1>1, <1>7, <2>1, ReaderKeeps DEF Launcher!ReadGrace, Launcher!Got, Launcher!outside
  <2>2. CASE Launcher!EndInvocation
    BY <1>7, <2>2, EndInvocationKeeps DEF Launcher!ReadGrace
  <2> QED  BY <1>7, <2>1, <2>2 DEF Launcher!ReadGrace
<1>8. CASE Launcher!CaptureEOF \/ Launcher!CaptureGrace
  BY <1>8 DEF Launcher!CaptureEOF, Launcher!CaptureGrace, LaunchInv, Launcher!TypeOK, Streamed, Awaited, Reported,
              Launcher!outside, Launcher!StreamOver, Launcher!Gone
<1>9. CASE Launcher!Collect
  <2>1. main' = "done" /\ result' = Launcher!Verdict /\ Launcher!Gone
        /\ UNCHANGED <<Launcher!outside, reader, capture>>
    BY <1>9 DEF Launcher!Collect, LaunchInv, Awaited
  <2>2. result' \in {"proven", "notApplicable"} => held = {} /\ reader.has = stream
    BY <2>1 DEF Launcher!Verdict, Launcher!Evidenced, LaunchInv, Launcher!TypeOK, Streamed, Awaited, Launcher!StreamOver, Launcher!Fd
  <2>3. Reported'
    BY <2>1, <2>2 DEF Launcher!Verdict, Launcher!TeardownOfRefusal, Reported, Launcher!outside
  <2>4. Launcher!TypeOK'
    BY <2>1 DEF Launcher!Verdict, Launcher!TeardownOfRefusal, LaunchInv, Launcher!TypeOK, Launcher!outside
  <2> QED  BY <2>1, <2>3, <2>4 DEF LaunchInv, Streamed, Awaited, Launcher!StreamOver, Launcher!Gone, Launcher!outside
<1> QED  BY <1>2, <1>3, <1>4, <1>5, <1>6, <1>7, <1>8, <1>9 DEF Launcher!Broker

LEMMA LaunchInvKept == ASSUME LaunchInv, [Launcher!Next]_Launcher!vars PROVE LaunchInv'
<1>1. CASE Launcher!Broker
  BY <1>1, BrokerKeeps
<1>2. CASE Launcher!StartJob \/ Launcher!EndJob
  BY <1>2 DEF Launcher!StartJob, Launcher!EndJob, LaunchInv, Launcher!TypeOK, Streamed, Awaited, Reported, Launcher!StreamOver, Launcher!Gone
<1>3. CASE Launcher!Shut
  BY <1>3 DEF Launcher!Shut, LaunchInv, Launcher!TypeOK, Streamed, Awaited, Reported, Launcher!StreamOver, Launcher!Gone
<1>4. CASE Launcher!Exit
  BY <1>4, EndsKeeps DEF Launcher!Exit, LaunchInv, Launcher!TypeOK
<1>5. CASE Launcher!Cancel
  <2>1. CASE wrapper = "running"
    BY <1>5, <2>1, EndsKeeps DEF Launcher!Cancel, Launcher!Kill, LaunchInv, Launcher!TypeOK
  <2>2. CASE wrapper # "running"
    BY <1>5, <2>2 DEF Launcher!Cancel, Launcher!Kill, LaunchInv, Launcher!TypeOK, Streamed, Awaited, Reported, Launcher!StreamOver, Launcher!Gone
  <2> QED  BY <2>1, <2>2
<1>6. ASSUME NEW s \in Launcher!Stream, Launcher!Write(s) PROVE LaunchInv'
  <2>1. ~Launcher!StreamOver /\ UNCHANGED <<wrapper, job, shut, held, cancelled, reader, capture, main, result>>
        /\ stream' = s /\ (s \in {"ran", "ranOther"} => job = "over") /\ (s = "preStart" => job = "none")
    BY <1>6 DEF Launcher!Write
  <2>2. reader.pc \notin {"eof", "bytes"}
    BY <2>1 DEF LaunchInv, Streamed
  <2>3. result \notin {"proven", "notApplicable"}
    BY <2>1 DEF LaunchInv, Launcher!TypeOK, Awaited, Reported, Launcher!StreamOver
  <2>4. Launcher!TypeOK'
    BY <1>6, <2>1 DEF LaunchInv, Launcher!TypeOK
  <2>5. Streamed'
    BY <2>1, <2>2 DEF Streamed
  <2>6. Awaited' /\ Reported'
    BY <2>1, <2>3 DEF LaunchInv, Awaited, Reported, Launcher!Gone
  <2> QED  BY <2>4, <2>5, <2>6 DEF LaunchInv
<1>7. ASSUME NEW fd \in Launcher!Fd, Launcher!Release(fd) PROVE LaunchInv'
  BY <1>7 DEF Launcher!Release, LaunchInv, Launcher!TypeOK, Streamed, Awaited, Reported, Launcher!StreamOver, Launcher!Gone
<1>8. ASSUME NEW fd \in Launcher!Fd, Launcher!Inherit(fd) PROVE LaunchInv'
  <2>1. main = "wait" /\ capture # "whole" /\ result = "none" /\ (Launcher!StreamOver => Launcher!StreamOver')
    BY <1>8 DEF Launcher!Inherit, Launcher!StreamOver, Launcher!Gone, LaunchInv, Awaited, Reported
  <2> QED  BY <1>8, <2>1 DEF Launcher!Inherit, LaunchInv, Launcher!TypeOK, Streamed, Awaited, Reported, Launcher!Gone
<1>9. CASE UNCHANGED Launcher!vars
  BY <1>9 DEF Launcher!vars, Launcher!outside, LaunchInv, Launcher!TypeOK, Streamed, Awaited, Reported, Launcher!StreamOver, Launcher!Gone
<1> QED  BY <1>1, <1>2, <1>3, <1>4, <1>5, <1>6, <1>7, <1>8, <1>9 DEF Launcher!Next

LEMMA ReportedAreOver == ASSUME LaunchInv PROVE Launcher!SettledIsOver
BY DEF LaunchInv, Streamed, Reported, Launcher!SettledIsOver

\* An execution is reported as torn down, or as never started, only when it is,
\* whatever the launcher writes, holds open or leaves behind, and whenever it is
\* killed (evidence.go:833).
THEOREM ReportedIsOver == Launcher!Spec => []Launcher!SettledIsOver
<1>1. LaunchInv => Launcher!SettledIsOver
  BY ReportedAreOver
<1>2. LaunchInv /\ [Launcher!Next]_Launcher!vars => LaunchInv'
  BY LaunchInvKept
<1> QED  BY <1>1, <1>2, LaunchInvInit, PTL DEF Launcher!Spec
-----------------------------------------------------------------------------
(* The services together: a behaviour is of the service it began with, so  *)
(* each theorem of a service is one of the composition.  None of them      *)
(* needs fairness.                                                         *)

In(s) == service = s

LEMMA InTheExec ==
  /\ Init /\ In("exec") => Exec!Init
  /\ In("exec") /\ [Next]_vars => In("exec")' /\ [Exec!Next]_Exec!vars
  /\ ~In("exec") /\ [Next]_vars => ~In("exec")'
BY DEF Init, Next, InExec, InLauncher, InLedger, Ended, vars, exec, Exec!vars, In

LEMMA InTheLauncher ==
  /\ Init /\ In("launcher") => Launcher!Init
  /\ In("launcher") /\ [Next]_vars => In("launcher")' /\ [Launcher!Next]_Launcher!vars
  /\ ~In("launcher") /\ [Next]_vars => ~In("launcher")'
BY DEF Init, Next, InExec, InLauncher, InLedger, Ended, vars, launcher, Launcher!vars,
       Launcher!outside, In

\* No effect under authority that is not the task's.
THEOREM EffectsAreNeverStale == Spec => []NoStaleEffect
<1>1. ServiceInv /\ [Exec!Next]_Exec!vars => ServiceInv'
  BY ServiceInvKept
<1>2. (~In("exec") => NoStaleEffect) /\ (ServiceInv => NoStaleEffect)
  BY DEF NoStaleEffect, ServiceInv, In
<1> QED  BY <1>1, <1>2, InTheExec, ServiceInvInit, PTL DEF Spec

\* A patch replaces what it was written against.
THEOREM EditsAreKept == ASSUME ServicesAssumption PROVE Spec => NoLostEdit
<1>1. EditInv /\ [Exec!Next]_Exec!vars => EditInv' /\ [Exec!EditKept]_Exec!vars
  BY EditInvKept, EditIsKept
<1>2. Exec!Init => EditInv
  BY EditInvInit DEF ServicesAssumption
<1>3. ~In("exec") /\ [Next]_vars => [service = "exec" => Exec!EditKept]_vars
  BY DEF In
<1>4. In("exec") /\ [Next]_vars /\ [Exec!EditKept]_Exec!vars
        => [service = "exec" => Exec!EditKept]_vars
  BY DEF Next, InExec, InLauncher, InLedger, Ended, vars, exec, Exec!vars, In
<1> QED  BY <1>1, <1>2, <1>3, <1>4, InTheExec, PTL DEF Spec, NoLostEdit

\* An execution reported as over is over.
THEOREM SettledAreOver == Spec => []SettledIsOver
<1>1. LaunchInv /\ [Launcher!Next]_Launcher!vars => LaunchInv'
  BY LaunchInvKept
<1>2. ~In("launcher") => SettledIsOver
  BY DEF SettledIsOver, In
<1>3. LaunchInv => SettledIsOver
  BY ReportedAreOver DEF SettledIsOver
<1> QED  BY <1>1, <1>2, <1>3, InTheLauncher, LaunchInvInit, PTL DEF Spec
===============================================================================
