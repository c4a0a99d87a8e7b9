----------------------------- MODULE SessionProofs -----------------------------
(***************************************************************************)
(* Proofs about FdbgServer, for every table and queue size, every width of *)
(* ADDR_TYPE and any program at the other end of the line; then about      *)
(* Session, the debugger and that server together, for every number of     *)
(* chunks, pages, keys, edits and restarts.                                *)
(*                                                                         *)
(* Part one uses the server's own invariants.  Part two rests on one fact  *)
(* about the line (InStep: a request or its reply, never both) and on one  *)
(* description of the handlers as the debugger sees them (ServedWith); the *)
(* invariants after that say what the debugger's variables will be once    *)
(* the reply on the line is read (the operators ...After).                 *)
(***************************************************************************)
EXTENDS Session, FiniteSetTheorems, SequenceTheorems, TLAPS

-----------------------------------------------------------------------------
(* The helpers keep their types *)

LEMMA LesserType ==
    ASSUME NEW m \in Nat, NEW n \in Nat
    PROVE  Lesser(m, n) \in Nat /\ Lesser(m, n) <= m /\ Lesser(m, n) <= n
  BY DEF Lesser

LEMMA PushedType ==
    ASSUME NEW q \in Seq(Nat), Len(q) <= QueueCap, NEW n \in Nat, out \in Nat
    PROVE  /\ Pushed(q, n) \in Seq(Nat)
           /\ Len(Pushed(q, n)) = Len(q) + Lesser(n, QueueCap - Len(q))
           /\ Len(Pushed(q, n)) <= QueueCap
           /\ \A i \in 1 .. Len(q) : Pushed(q, n)[i] = q[i]
           /\ \A i \in Len(q) + 1 .. Len(Pushed(q, n)) :
                Pushed(q, n)[i] = out + (i - Len(q))
  <1> DEFINE m == Lesser(n, QueueCap - Len(q))
             fresh == [k \in 1 .. m |-> out + k]
  <1>1. QueueCap \in Nat
    BY SizesAssumption DEF QueueCap
  <1>2. m \in Nat /\ m <= QueueCap - Len(q)
    BY <1>1 DEF Lesser
  <1> HIDE DEF m
  <1>3. fresh \in Seq(Nat) /\ Len(fresh) = m
    BY <1>2
  <1>4. Pushed(q, n) = q \o fresh
    BY DEF Pushed, m
  <1>5. /\ q \o fresh \in Seq(Nat)
        /\ Len(q \o fresh) = Len(q) + m
        /\ \A i \in 1 .. Len(q) : (q \o fresh)[i] = q[i]
        /\ \A i \in Len(q) + 1 .. Len(q) + m : (q \o fresh)[i] = fresh[i - Len(q)]
    BY <1>2, <1>3
  <1>6. \A i \in Len(q) + 1 .. Len(q) + m : fresh[i - Len(q)] = out + (i - Len(q))
    BY <1>2
  <1> HIDE DEF fresh
  <1> QED
    BY <1>1, <1>2, <1>4, <1>5, <1>6 DEF m

LEMMA ReplyTypes ==
    /\ EmptyReply \in Reply
    /\ \A q \in Seq(Nat), status \in Status, here \in Addr :
          ComputerStatus(q, status, here) \in Reply
    /\ run_status \in CpuStatus =>
         \A q \in Seq(Nat), b \in BOOLEAN, here \in Addr :
           RunStatusReply(q, b, here) \in Reply
  <1>1. EmptyReply \in Reply
    BY SizesAssumption DEF EmptyReply, Reply, ReplyType, Status, Addr
  <1>2. ASSUME NEW q \in Seq(Nat), NEW status \in Status, NEW here \in Addr
        PROVE  ComputerStatus(q, status, here) \in Reply
    <2>1. SubSeq(q, 1, Lesser(Len(q), MaxEventsStep)) \in Seq(Nat)
      <3>1. Lesser(Len(q), MaxEventsStep) \in 0 .. Len(q)
        BY SizesAssumption DEF Lesser
      <3> QED
        BY <3>1
    <2> QED
      BY <1>1, <2>1 DEF ComputerStatus, EmptyReply, Reply, ReplyType
  <1>3. ASSUME NEW q \in Seq(Nat), NEW b \in BOOLEAN, NEW here \in Addr,
              run_status \in CpuStatus
        PROVE  RunStatusReply(q, b, here) \in Reply
    BY <1>1, <1>3 DEF RunStatusReply, EmptyReply, Reply, ReplyType, CpuStatus, Status
  <1> QED
    BY <1>1, <1>2, <1>3

LEMMA PlainReplyType ==
    ASSUME NEW which \in ReplyType, NEW status \in Status
    PROVE  [EmptyReply EXCEPT !.which = which, !.status = status] \in Reply
  BY ReplyTypes DEF Reply, EmptyReply

LEMMA AnswerType ==
    ASSUME tx \in Seq(Reply), steps \in 0 .. RunSteps,
           NEW reply \in Reply, Answer(reply)
    PROVE  /\ tx' \in Seq(Reply)
           /\ pc' \in {"top", "run", "receive", "forever"}
           /\ steps' \in 0 .. RunSteps
  BY DEF Answer

LEMMA GotType ==
    ASSUME rx \in Seq(Request), NEW t, Got(t)
    PROVE  /\ rx' \in Seq(Request)
           /\ Head(rx).addr \in Addr
           /\ Head(rx).keys \in Seq(Nat)
  <1>1. rx # <<>> /\ rx' = Tail(rx)
    BY DEF Got
  <1>2. Head(rx) \in Request /\ Tail(rx) \in Seq(Request)
    BY <1>1
  <1> QED
    BY <1>1, <1>2 DEF Request

LEMMA UserEventsType ==
    ASSUME input \in Seq(Nat), NEW brought \in Seq(Nat), ExecuteUserEvents(brought)
    PROVE  input' \in Seq(Nat)
  BY DEF ExecuteUserEvents

LEMMA AddrFacts == 0 \in Addr /\ NO_BREAKPOINT \in Addr
  BY SizesAssumption DEF Addr, NO_BREAKPOINT

-----------------------------------------------------------------------------
(* The variables keep their types *)

LEMMA TypeInit == Init => TypeOK
  <1> SUFFICES ASSUME Init PROVE TypeOK
    OBVIOUS
  <1>1. 0 \in 0 .. RunSteps /\ 0 <= QueueCap
    BY SizesAssumption DEF QueueCap
  <1>2. event_queue \in Seq(Nat) /\ Len(event_queue) <= QueueCap
    BY <1>1 DEF Init
  <1>3. rx \in Seq(Request) /\ tx \in Seq(Reply) /\ input \in Seq(Nat)
    BY DEF Init
  <1>4. breakpoints \in [Slots -> Addr]
    BY AddrFacts DEF Init
  <1> QED
    BY <1>1, <1>2, <1>3, <1>4, AddrFacts DEF Init, TypeOK, Status, CpuStatus

LEMMA TypeRunStep ==
    ASSUME TypeOK, NEW p \in Addr, NEW n \in Bursts, RunStep(p, n)
    PROVE  TypeOK'
  <1>1. n \in Nat /\ out \in Nat
    BY SizesAssumption DEF Bursts, TypeOK
  <1>2. Pushed(event_queue, n) \in Seq(Nat) /\ Len(Pushed(event_queue, n)) <= QueueCap
    BY <1>1, PushedType DEF TypeOK
  <1>3. ASSUME Instruction(p, n)
        PROVE  /\ cpu_pc' \in Addr /\ out' \in Nat /\ input' \in Seq(Nat)
               /\ event_queue' \in Seq(Nat) /\ Len(event_queue') <= QueueCap
    BY <1>1, <1>2, <1>3 DEF Instruction, TypeOK
  <1>4. CASE RunStepFails(p, n)
    BY <1>3, <1>4 DEF RunStepFails, TypeOK, Status, CpuStatus
  <1>5. CASE RunStepReachesNext(p, n)
    BY <1>3, <1>5, AddrFacts DEF RunStepReachesNext, TypeOK
  <1>6. CASE RunStepReachesBreakpoint(p, n)
    BY <1>3, <1>6 DEF RunStepReachesBreakpoint, TypeOK
  <1>7. CASE RunStepGoesOn(p, n)
    <2>1. steps - 1 \in 0 .. RunSteps
      BY <1>7, SizesAssumption DEF RunStepGoesOn, LoopGuard, TypeOK
    <2> QED
      BY <1>3, <1>7, <2>1 DEF RunStepGoesOn, TypeOK
  <1> QED
    BY <1>4, <1>5, <1>6, <1>7 DEF RunStep

LEMMA TypeHandle ==
    ASSUME TypeOK, Handle
    PROVE  TypeOK'
  <1>1. /\ tx \in Seq(Reply) /\ steps \in 0 .. RunSteps /\ rx \in Seq(Request)
        /\ <<>> \in Seq(Nat) /\ Len(<<>>) <= QueueCap
        /\ event_queue \in Seq(Nat) /\ Len(event_queue) <= QueueCap
    BY SizesAssumption DEF TypeOK, QueueCap
  <1>2. CASE GetRunStatus
    <2>1. RunStatusReply(event_queue, running, last_pc) \in Reply
      BY ReplyTypes DEF TypeOK
    <2>2. input' \in Seq(Nat)
      BY <1>1, <1>2, GotType, UserEventsType DEF GetRunStatus, TypeOK
    <2> QED
      BY <1>1, <1>2, <2>1, <2>2, GotType, AnswerType
         DEF GetRunStatus, Told, TypeOK, Status, CpuStatus
  <1>3. CASE InvalidMessage
    <2>1. [EmptyReply EXCEPT !.status = "INVALID_MESSAGE"] \in Reply
      BY ReplyTypes DEF Reply, Status, EmptyReply
    <2> QED
      BY <1>1, <1>3, <2>1, GotType, AnswerType
         DEF InvalidMessage, TypeOK, server, computer, history
  <1>4. CASE Pause
    <2>1. ComputerStatus(event_queue, "OK", cpu_pc) \in Reply
      BY ReplyTypes DEF TypeOK, Status, CpuStatus
    <2> QED
      BY <1>1, <1>4, <2>1, GotType, AnswerType, AddrFacts
         DEF Pause, TypeOK, computer, history
  <1>5. CASE Ack
    <2>1. [EmptyReply EXCEPT !.which = "ack_response"] \in Reply
      BY ReplyTypes DEF Reply, ReplyType, EmptyReply
    <2> QED
      BY <1>1, <1>5, <2>1, GotType, AnswerType
         DEF Ack, TypeOK, server, computer, history
  <1>6. CASE Reset
    <2>1. ComputerStatus(<<>>, "OK", 0) \in Reply
      BY <1>1, ReplyTypes, AddrFacts DEF Status
    <2> QED
      BY <1>1, <1>6, <2>1, GotType, AnswerType, AddrFacts
         DEF Reset, TypeOK, history
  <1>7. CASE Run
    BY <1>1, <1>7, ReplyTypes, GotType, AnswerType DEF Run, TypeOK, computer
  <1>8. CASE RunForever
    BY <1>1, <1>8, GotType DEF RunForever, TypeOK, server, computer, history
  <1>9. ASSUME NEW p \in Addr, Cycle(p)
        PROVE  TypeOK'
    <2>1. \A st \in Status : [EmptyReply EXCEPT !.which = "cycle_response",
                                  !.pc = p, !.status = st] \in Reply
      BY ReplyTypes DEF Reply, ReplyType, EmptyReply
    <2> QED
      BY <1>1, <1>9, <2>1, GotType, AnswerType
         DEF Cycle, TypeOK, Status, server, history
  <1>10. CASE ReadMemory
    <2>1. [EmptyReply EXCEPT !.which = "read_memory_response"] \in Reply
      BY ReplyTypes DEF Reply, ReplyType, EmptyReply
    <2> QED
      BY <1>1, <1>10, <2>1, GotType, AnswerType
         DEF ReadMemory, TypeOK, server, computer, history
  <1>11. ASSUME NEW p \in Addr, Interrupt(p)
         PROVE  TypeOK'
    <2>1. \A st \in Status : [EmptyReply EXCEPT !.status = st] \in Reply
      BY ReplyTypes DEF Reply, Status, EmptyReply
    <2> QED
      BY <1>1, <1>11, <2>1, GotType, AnswerType
         DEF Interrupt, TypeOK, Status, server, history
  <1>12. ASSUME NEW table \in [Slots -> Addr], NEW status \in Status,
                NEW t, Got(t), AnswerTable(table, status)
         PROVE  TypeOK'
    <2>1. Listed(table) \in SUBSET Addr
      BY <1>12 DEF Listed
    <2>2. [EmptyReply EXCEPT !.which = "breakpoint_list",
             !.status = status, !.list = Listed(table)] \in Reply
      BY <2>1, ReplyTypes DEF Reply, ReplyType, EmptyReply
    <2> QED
      BY <1>1, <1>12, <2>2, GotType, AnswerType
         DEF AnswerTable, TypeOK, computer, history
  <1>13. CASE BreakpointAdd
    <2> DEFINE addr == Head(rx).addr
               added == [breakpoints EXCEPT ![First(AddSlots(addr))] = addr]
    <2>1. breakpoints \in [Slots -> Addr] /\ added \in [Slots -> Addr]
      BY <1>1, <1>13, GotType DEF BreakpointAdd, TypeOK
    <2> HIDE DEF added
    <2>2. \/ AnswerTable(breakpoints, "TOO_MANY_BREAKPOINTS")
          \/ AnswerTable(added, "OK")
      BY <1>13 DEF BreakpointAdd, added
    <2> QED
      BY <1>12, <1>13, <2>1, <2>2 DEF BreakpointAdd, Status
  <1>14. CASE BreakpointRemove
    <2> DEFINE held == {i \in Slots : breakpoints[i] = Head(rx).addr}
               freed == [breakpoints EXCEPT ![First(held)] = NO_BREAKPOINT]
    <2>1. breakpoints \in [Slots -> Addr] /\ freed \in [Slots -> Addr]
      BY AddrFacts DEF TypeOK
    <2> HIDE DEF freed
    <2>2. AnswerTable(breakpoints, "OK") \/ AnswerTable(freed, "OK")
      BY <1>14 DEF BreakpointRemove, freed
    <2> QED
      BY <1>12, <1>14, <2>1, <2>2 DEF BreakpointRemove, Status
  <1>15. CASE BreakpointClearAll
    <2> DEFINE empty == [i \in Slots |-> NO_BREAKPOINT]
    <2>1. empty \in [Slots -> Addr]
      BY AddrFacts
    <2> HIDE DEF empty
    <2>2. AnswerTable(empty, "OK")
      BY <1>15 DEF BreakpointClearAll, empty
    <2> QED
      BY <1>12, <1>15, <2>1, <2>2 DEF BreakpointClearAll, Status
  <1>16. CASE \E written \in BOOLEAN : WriteMemory(written)
    <2>1. PICK written \in BOOLEAN : WriteMemory(written)
      BY <1>16
    <2>2. [EmptyReply EXCEPT !.which = "write_memory_response",
             !.status = IF written THEN "OK" ELSE "ERR_WRITING_MEMORY"] \in Reply
      <3>1. CASE written
        BY <3>1, PlainReplyType DEF ReplyType, Status
      <3>2. CASE ~ written
        BY <3>2, PlainReplyType DEF ReplyType, Status
      <3> QED
        BY <3>1, <3>2
    <2> QED
      BY <1>1, <2>1, <2>2, GotType, AnswerType
         DEF WriteMemory, TypeOK, server, computer, history
  <1>17. ASSUME NEW p \in Addr, NextOver(p)
         PROVE  TypeOK'
    <2>1. RunStatusReply(event_queue, TRUE, last_pc) \in Reply
      BY ReplyTypes DEF TypeOK
    <2> QED
      BY <1>1, <1>17, <2>1, GotType, AnswerType
         DEF NextOver, Told, TypeOK, Status, CpuStatus, computer
  <1>18. ASSUME NEW n \in Bursts
         PROVE  /\ out + n \in Nat
                /\ Pushed(event_queue, n) \in Seq(Nat)
    <2>1. n \in Nat /\ out \in Nat
      BY SizesAssumption DEF Bursts, TypeOK
    <2> QED
      BY <1>1, <2>1, PushedType
  <1>19. ASSUME NEW p \in Addr, NEW n \in Bursts, NEW status \in Status,
                Step(p, n, status)
         PROVE  TypeOK'
    <2>1. ComputerStatus(Pushed(event_queue, n), status, p) \in Reply
      BY <1>18, ReplyTypes
    <2>2. input' \in Seq(Nat)
      BY <1>1, <1>19, GotType, UserEventsType DEF Step, TypeOK
    <2> QED
      BY <1>1, <1>18, <1>19, <2>1, <2>2, GotType, AnswerType
         DEF Step, TypeOK, history
  <1>20. ASSUME NEW p \in Addr, NEW n \in Bursts, NEW status \in Status,
                NextInto(p, n, status)
         PROVE  TypeOK'
    <2>1. RunStatusReply(Pushed(event_queue, n), FALSE, p) \in Reply
      BY <1>18, ReplyTypes DEF TypeOK
    <2> QED
      BY <1>1, <1>18, <1>20, <2>1, GotType, AnswerType
         DEF NextInto, TypeOK, Status, CpuStatus
  <1> QED
    BY <1>2, <1>3, <1>4, <1>5, <1>6, <1>7, <1>8, <1>9, <1>10, <1>11, <1>13,
       <1>14, <1>15, <1>16, <1>17, <1>19, <1>20 DEF Handle, CpuStatus, Status

LEMMA TypeNext ==
    ASSUME TypeOK, [Next]_serverVars \/ Debug
    PROVE  TypeOK'
  <1>1. CASE Enter
    BY <1>1, SizesAssumption DEF Enter, TypeOK, server, computer, history
  <1>2. CASE RunEnds
    BY <1>2 DEF RunEnds, TypeOK, server, computer, history
  <1>3. CASE ReceiveNothing
    BY <1>3 DEF ReceiveNothing, TypeOK, server, computer, history
  <1>4. CASE ReceiveUndecodable
    <2>1. Tail(rx) \in Seq(Request)
      BY <1>4 DEF ReceiveUndecodable, TypeOK
    <2> QED
      BY <1>4, <2>1 DEF ReceiveUndecodable, TypeOK, server, computer, history
  <1>5. CASE \E p \in Addr, n \in Bursts : RunStep(p, n)
    BY <1>5, TypeRunStep
  <1>6. CASE Debug
    <2>1. [EmptyReply EXCEPT !.which = "debug"] \in Reply
      BY ReplyTypes DEF Reply, ReplyType, EmptyReply
    <2> QED
      BY <1>6, <2>1 DEF Debug, TypeOK, loop, server, computer, history
  <1>7. CASE HostSends
    <2>1. PICK t \in RequestType, a \in Addr, brought \in Typed :
                 rx' = Append(rx, [type |-> t, addr |-> a, keys |-> brought,
                                   longest |-> Len(brought)])
      BY <1>7 DEF HostSends
    <2>2. brought \in Seq(Nat)
      <3>1. PICK n \in 0 .. MaxInput - Len(input) :
                   brought = [k \in 1 .. n |-> Len(input) + k]
        BY DEF Typed
      <3>2. n \in Nat /\ Len(input) \in Nat
        BY SizesAssumption DEF TypeOK
      <3> QED
        BY <3>1, <3>2
    <2>3. rx' \in Seq(Request)
      BY <2>1, <2>2 DEF Request, TypeOK
    <2> QED
      BY <1>7, <2>3 DEF HostSends, TypeOK, loop, server, computer, history
  <1>8. CASE HostReceives
    <2>1. Tail(tx) \in Seq(Reply)
      BY <1>8 DEF HostReceives, TypeOK
    <2> QED
      BY <1>8, <2>1 DEF HostReceives, TypeOK, loop, server, computer, history
  <1>9. CASE UNCHANGED serverVars
    BY <1>9 DEF serverVars, TypeOK
  <1> QED
    BY <1>1, <1>2, <1>3, <1>4, <1>5, <1>6, <1>7, <1>8, <1>9, TypeHandle
       DEF Next, ServerNext

\* The types of TypeOK, among them the bound of the event queue, whatever
\* the host asks and the computer does.
THEOREM TypeCorrect == Spec => []TypeOK
  <1> QED
    BY TypeInit, TypeNext, PTL DEF Spec

-----------------------------------------------------------------------------
(* A run stops at its breakpoints *)

LEMMA StopsNext ==
    ASSUME StopsWhereAsked, [Next]_serverVars \/ Debug
    PROVE  StopsWhereAsked'
  <1>1. ASSUME NEW p \in Addr, NEW n \in Bursts, RunStep(p, n)
        PROVE  StopsWhereAsked'
    <2>1. CASE RunStepGoesOn(p, n)
      BY <2>1 DEF RunStepGoesOn, AtBreakpoint, Instruction, StopsWhereAsked
    <2>2. CASE \/ RunStepFails(p, n)
               \/ RunStepReachesNext(p, n)
               \/ RunStepReachesBreakpoint(p, n)
      BY <2>2 DEF RunStepFails, RunStepReachesNext, RunStepReachesBreakpoint,
                  StopsWhereAsked
    <2> QED
      BY <1>1, <2>1, <2>2 DEF RunStep
  <1>2. CASE Handle /\ running
    <2>1. GetRunStatus \/ InvalidMessage \/ Pause
      BY <1>2 DEF Handle, Ack, Reset, Run, RunForever, Cycle, ReadMemory,
           BreakpointAdd, BreakpointRemove,
           BreakpointClearAll, WriteMemory, Interrupt, NextOver, NextInto, Step
    <2> QED
      BY <2>1 DEF GetRunStatus, InvalidMessage, Pause, StopsWhereAsked,
           server, computer, history
  <1>3. CASE Handle /\ ~ running
    <2>1. ~ running' \/ ~ stepped'
      BY <1>3 DEF Handle, GetRunStatus, InvalidMessage, Pause, Ack, Reset, Run,
           RunForever, Cycle, ReadMemory, 
           BreakpointAdd, BreakpointRemove, BreakpointClearAll, AnswerTable,
           WriteMemory, Interrupt, NextOver, NextInto, Step, server
    <2> QED
      BY <2>1 DEF StopsWhereAsked
  <1>4. CASE \/ Enter \/ RunEnds \/ ReceiveNothing \/ ReceiveUndecodable
             \/ Debug \/ HostSends \/ HostReceives \/ UNCHANGED serverVars
    BY <1>4 DEF Enter, RunEnds, ReceiveNothing, ReceiveUndecodable, Debug,
         HostSends, HostReceives, serverVars, StopsWhereAsked,
         server, computer, history
  <1> QED
    BY <1>1, <1>2, <1>3, <1>4 DEF Next, ServerNext

\* A running computer stands at no breakpoint and not at the target of Next,
\* for any table, any addresses and any order of requests.
THEOREM RunsStopWhereAsked == Spec => []StopsWhereAsked
  <1>1. Init => StopsWhereAsked
    BY DEF Init, StopsWhereAsked
  <1> QED
    BY <1>1, StopsNext, PTL DEF Spec

-----------------------------------------------------------------------------
(* What a run may not lose: its texts and its failure *)

\* With at most one text per instruction, the guard at line 301 keeps the
\* queue from refusing any text of a run, whatever the size of the queue.
THEOREM RunsRefuseNoText ==
    ASSUME MaxBurst <= 1
    PROVE  Spec => NoTextRefusedWhileRunning
  <1>1. ASSUME TypeOK, [Next]_serverVars, pc = "run"
        PROVE  Len(event_queue') - Len(event_queue) = out' - out
    <2>1. ASSUME NEW p \in Addr, NEW n \in Bursts, RunStep(p, n)
          PROVE  Len(event_queue') - Len(event_queue) = out' - out
      <3>1. LoopGuard /\ Instruction(p, n)
        BY <2>1 DEF RunStep, RunStepFails, RunStepReachesNext,
             RunStepReachesBreakpoint, RunStepGoesOn
      <3>2. n \in Nat /\ n <= 1 /\ out \in Nat
        BY <1>1, SizesAssumption DEF Bursts, TypeOK
      <3>3. Len(event_queue) < QueueCap /\ QueueCap \in Nat
            /\ event_queue \in Seq(Nat)
        BY <1>1, <3>1, SizesAssumption DEF LoopGuard, TypeOK, QueueCap
      <3>4. Len(Pushed(event_queue, n)) = Len(event_queue) + n
        <4>1. Lesser(n, QueueCap - Len(event_queue)) = n
          BY <3>2, <3>3 DEF Lesser
        <4> QED
          BY <3>2, <3>3, <4>1, PushedType
      <3> QED
        BY <3>1, <3>2, <3>3, <3>4 DEF Instruction
    <2>2. CASE RunEnds \/ Debug \/ HostSends \/ HostReceives \/ UNCHANGED serverVars
      <3>1. event_queue' = event_queue /\ out' = out
        BY <2>2 DEF RunEnds, Debug, HostSends, HostReceives, serverVars,
             server, computer
      <3> QED
        BY <1>1, <3>1 DEF TypeOK
    <2>3. ~ Enter /\ ~ ReceiveNothing /\ ~ ReceiveUndecodable /\ ~ Handle
      BY <1>1 DEF Enter, ReceiveNothing, ReceiveUndecodable, Handle, Got,
           GetRunStatus, InvalidMessage, Pause, Ack, Reset, Run, RunForever,
           Cycle, ReadMemory, BreakpointAdd,
           BreakpointRemove, BreakpointClearAll, WriteMemory, Interrupt,
           NextOver, NextInto, Step
    <2> QED
      BY <1>1, <2>1, <2>2, <2>3 DEF Next, ServerNext
  <1> QED
    BY <1>1, TypeCorrect, PTL DEF Spec, NoTextRefusedWhileRunning

LEMMA AppendLast ==
    ASSUME tx \in Seq(Reply), NEW reply \in Reply, tx' = Append(tx, reply)
    PROVE  Len(tx') > Len(tx) /\ tx'[Len(tx')] = reply
  OBVIOUS

\* The failure that ended a run is not forgotten by pauses, resets, steps or
\* breakpoint requests: only a reply that carries the status clears it.
THEOREM FaultsAreKept == Spec => FaultIsKept
  <1>1. ASSUME TypeOK, [Next]_serverVars, run_status # "OK", run_status' # run_status
        PROVE  Len(tx') > Len(tx) /\ tx'[Len(tx')].status = run_status
    <2>1. ASSUME NEW q, NEW b, NEW here, RunStatusReply(q, b, here) \in Reply,
                 Answer(RunStatusReply(q, b, here))
          PROVE  Len(tx') > Len(tx) /\ tx'[Len(tx')].status = run_status
      <3>1. RunStatusReply(q, b, here).status = run_status
        BY DEF RunStatusReply, EmptyReply
      <3> QED
        BY <1>1, <2>1, <3>1, AppendLast DEF Answer, TypeOK
    <2>2. CASE GetRunStatus
      BY <1>1, <2>1, <2>2, ReplyTypes DEF GetRunStatus, TypeOK
    <2>3. CASE \E p \in Addr : NextOver(p)
      BY <1>1, <2>1, <2>3, ReplyTypes DEF NextOver, TypeOK
    <2>4. CASE \E p \in Addr, n \in Bursts, status \in CpuStatus :
                 NextInto(p, n, status)
      <3>1. PICK p \in Addr, n \in Bursts, status \in CpuStatus :
                   NextInto(p, n, status)
        BY <2>4
      <3>2. n \in Nat /\ out \in Nat
        BY <1>1, SizesAssumption DEF Bursts, TypeOK
      <3>3. RunStatusReply(Pushed(event_queue, n), FALSE, p) \in Reply
        BY <1>1, <3>2, PushedType, ReplyTypes DEF TypeOK
      <3> QED
        BY <2>1, <3>1, <3>3 DEF NextInto
    <2>5. ASSUME NEW p \in Addr, NEW n \in Bursts
          PROVE  ~ RunStep(p, n)
      BY <1>1 DEF RunStep, RunStepFails, RunStepReachesNext,
           RunStepReachesBreakpoint, RunStepGoesOn, TypeOK, CpuStatus
    <2>6. \/ GetRunStatus \/ \E p \in Addr : NextOver(p)
          \/ \E p \in Addr, n \in Bursts, status \in CpuStatus :
                 NextInto(p, n, status)
      BY <1>1, <2>5 DEF Next, ServerNext, Handle, Enter, RunEnds,
           ReceiveNothing, ReceiveUndecodable, Debug, HostSends, HostReceives,
           InvalidMessage, Pause, Ack, Reset, Run, RunForever, Cycle,
           ReadMemory, BreakpointAdd,
           BreakpointRemove, BreakpointClearAll, AnswerTable, WriteMemory,
           Interrupt, Step, server, serverVars
    <2> QED
      BY <2>2, <2>3, <2>4, <2>6
  <1> QED
    BY <1>1, TypeCorrect, PTL DEF Spec, FaultIsKept

-----------------------------------------------------------------------------
(* Texts are delivered in the order they were printed *)

\* The texts on the line and in the queue behind it are in order, and none
\* has a number beyond the last text printed.
Printed(s, last) == \A i \in 1 .. Len(s) : s[i] <= last
Delivery(line, q, last) ==
    /\ InOrder(line, q)
    /\ Printed(q, last)
    /\ \A i \in 1 .. Len(line) : Printed(line[i].events, last)

\* `s` is the beginning of `t`.
Begins(s, t) ==
    /\ Len(s) <= Len(t)
    /\ \A i \in 1 .. Len(s) : s[i] = t[i]

LEMMA SeqElements ==
    ASSUME NEW R, NEW s \in Seq(R), NEW i \in 1 .. Len(s)
    PROVE  s[i] \in R
  OBVIOUS

LEMMA EventsType ==
    ASSUME NEW line \in Seq(Reply), NEW i \in 1 .. Len(line)
    PROVE  line[i].events \in Seq(Nat)
  <1>1. line[i] \in Reply
    BY SeqElements
  <1> QED
    BY <1>1 DEF Reply

LEMMA QueueGrows ==
    ASSUME NEW line \in Seq(Reply), NEW q \in Seq(Nat), NEW n \in Nat,
           out \in Nat, Len(q) <= QueueCap, Delivery(line, q, out)
    PROVE  Delivery(line, Pushed(q, n), out + n)
  <1> DEFINE p == Pushed(q, n)
  <1>1. /\ p \in Seq(Nat)
        /\ Len(p) = Len(q) + Lesser(n, QueueCap - Len(q))
        /\ \A i \in 1 .. Len(q) : p[i] = q[i]
        /\ \A i \in Len(q) + 1 .. Len(p) : p[i] = out + (i - Len(q))
    BY PushedType
  <1>2. Len(p) \in Nat /\ Len(p) >= Len(q) /\ Len(p) <= Len(q) + n
    <2> DEFINE m == Lesser(n, QueueCap - Len(q))
    <2>1. QueueCap - Len(q) \in Nat
      BY SizesAssumption DEF QueueCap
    <2>2. m \in Nat /\ m <= n
      BY <2>1, LesserType
    <2>3. Len(p) = Len(q) + m /\ Len(q) \in Nat
      BY <1>1
    <2> HIDE DEF p, m
    <2> QED
      BY <2>2, <2>3
  <1> HIDE DEF p
  <1>3. \A i \in 1 .. Len(q) : q[i] \in Nat /\ q[i] <= out
    BY DEF Delivery, Printed
  <1>4. \A i \in 1 .. Len(p) :
           \/ i \in 1 .. Len(q) /\ p[i] = q[i]
           \/ i \in Len(q) + 1 .. Len(p) /\ p[i] = out + (i - Len(q))
    BY <1>1, <1>2
  <1>5. Printed(p, out + n)
    BY <1>2, <1>3, <1>4 DEF Printed
  <1>6. Increasing(p)
    <2> SUFFICES ASSUME NEW i \in 1 .. Len(p), NEW j \in 1 .. Len(p), i < j
                 PROVE  p[i] < p[j]
      BY DEF Increasing
    <2>1. CASE j \in 1 .. Len(q)
      <3>1. i \in 1 .. Len(q)
        BY <2>1
      <3> QED
        BY <1>1, <2>1, <3>1 DEF Delivery, InOrder, Increasing
    <2>2. CASE j \notin 1 .. Len(q)
      <3>1. p[j] = out + (j - Len(q)) /\ j > Len(q)
        BY <1>4, <2>2
      <3>2. CASE i \in 1 .. Len(q)
        BY <1>3, <1>4, <3>1, <3>2
      <3>3. CASE i \notin 1 .. Len(q)
        BY <1>4, <3>1, <3>3
      <3> QED
        BY <3>2, <3>3
    <2> QED
      BY <2>1, <2>2
  <1>7. ASSUME NEW i \in 1 .. Len(line)
        PROVE  Before(line[i].events, p) /\ Printed(line[i].events, out + n)
    <2>1. line[i].events \in Seq(Nat)
      BY EventsType
    <2>2. Printed(line[i].events, out) /\ Before(line[i].events, q)
      BY DEF Delivery, InOrder
    <2>3. ASSUME NEW k \in 1 .. Len(line[i].events)
          PROVE  /\ line[i].events[k] \in Nat /\ line[i].events[k] <= out
                 /\ \A j \in 1 .. Len(q) : line[i].events[k] < q[j]
      BY <2>1, <2>2 DEF Printed, Before
    <2>4. Printed(line[i].events, out + n)
      BY <2>3 DEF Printed
    <2>5. ASSUME NEW k \in 1 .. Len(line[i].events), NEW j \in 1 .. Len(p)
          PROVE  line[i].events[k] < p[j]
      <3>1. CASE j \in 1 .. Len(q) /\ p[j] = q[j]
        BY <2>3, <3>1
      <3>2. CASE j \in Len(q) + 1 .. Len(p) /\ p[j] = out + (j - Len(q))
        <4>1. line[i].events[k] \in Nat /\ line[i].events[k] <= out
          BY <2>3
        <4> QED
          BY <3>2, <4>1
      <3> QED
        BY <1>4, <3>1, <3>2
    <2> QED
      BY <2>4, <2>5 DEF Before
  <1> QED
    BY <1>5, <1>6, <1>7 DEF Delivery, InOrder, p

LEMMA QueueSent ==
    ASSUME NEW line \in Seq(Reply), NEW q \in Seq(Nat), NEW last \in Nat,
           NEW reply \in Reply, Begins(reply.events, q), Delivery(line, q, last)
    PROVE  Delivery(Append(line, reply), <<>>, last)
  <1> DEFINE longer == Append(line, reply)
  <1>1. /\ Len(longer) = Len(line) + 1
        /\ longer[Len(line) + 1] = reply
        /\ \A i \in 1 .. Len(line) : longer[i] = line[i]
    OBVIOUS
  <1>2. reply.events \in Seq(Nat)
    BY DEF Reply
  <1>3. Increasing(reply.events) /\ Printed(reply.events, last)
    <2>1. Increasing(q) /\ Printed(q, last)
      BY DEF Delivery, InOrder
    <2>2. \A i \in 1 .. Len(reply.events) :
             i \in 1 .. Len(q) /\ reply.events[i] = q[i]
      BY <1>2 DEF Begins
    <2> QED
      BY <2>1, <2>2 DEF Increasing, Printed
  <1>4. \A i \in 1 .. Len(line) : Before(line[i].events, reply.events)
    BY <1>2 DEF Delivery, InOrder, Before, Begins
  <1> HIDE DEF longer
  <1>5. \A i \in 1 .. Len(longer) :
           \/ i \in 1 .. Len(line) /\ longer[i] = line[i]
           \/ i = Len(line) + 1 /\ longer[i] = reply
    BY <1>1
  <1>6. \A i \in 1 .. Len(longer) :
           Increasing(longer[i].events) /\ Printed(longer[i].events, last)
    BY <1>3, <1>5 DEF Delivery, InOrder
  <1>7. \A i, j \in 1 .. Len(longer) :
           i < j => Before(longer[i].events, longer[j].events)
    <2> SUFFICES ASSUME NEW i \in 1 .. Len(longer), NEW j \in 1 .. Len(longer), i < j
                 PROVE  Before(longer[i].events, longer[j].events)
      OBVIOUS
    <2>1. i \in 1 .. Len(line)
      BY <1>1
    <2>2. CASE j \in 1 .. Len(line)
      <3>1. longer[i] = line[i] /\ longer[j] = line[j]
        BY <1>1, <2>1, <2>2
      <3>2. Before(line[i].events, line[j].events)
        BY <2>1, <2>2 DEF Delivery, InOrder
      <3> QED
        BY <3>1, <3>2
    <2>3. CASE j = Len(line) + 1
      BY <1>1, <1>4, <2>1, <2>3
    <2>4. j \in 1 .. Len(line) \/ j = Len(line) + 1
      BY <1>5
    <2> QED
      BY <2>2, <2>3, <2>4
  <1>8. /\ Increasing(<<>>) /\ Printed(<<>>, last)
        /\ \A i \in 1 .. Len(longer) : Before(longer[i].events, <<>>)
    BY DEF Increasing, Printed, Before
  <1> QED
    BY <1>6, <1>7, <1>8 DEF Delivery, InOrder, longer

LEMMA NothingSent ==
    ASSUME NEW line \in Seq(Reply), NEW q \in Seq(Nat), NEW last \in Nat,
           NEW reply \in Reply, reply.events = <<>>, Delivery(line, q, last)
    PROVE  Delivery(Append(line, reply), q, last)
  <1> DEFINE longer == Append(line, reply)
  <1>1. /\ Len(longer) = Len(line) + 1
        /\ longer[Len(line) + 1] = reply
        /\ \A i \in 1 .. Len(line) : longer[i] = line[i]
    OBVIOUS
  <1> HIDE DEF longer
  <1>2. \A i \in 1 .. Len(longer) :
           \/ i \in 1 .. Len(line) /\ longer[i] = line[i]
           \/ longer[i].events = <<>>
    BY <1>1
  <1>3. \A s : Before(<<>>, s) /\ Before(s, <<>>)
    BY DEF Before
  <1>4. Increasing(<<>>) /\ Printed(<<>>, last)
    BY DEF Increasing, Printed
  <1> QED
    BY <1>1, <1>2, <1>3, <1>4 DEF Delivery, InOrder, longer

LEMMA ReplyTaken ==
    ASSUME NEW line \in Seq(Reply), line # <<>>, NEW q, NEW last,
           Delivery(line, q, last)
    PROVE  Delivery(Tail(line), q, last)
  <1>1. /\ Len(Tail(line)) = Len(line) - 1
        /\ \A i \in 1 .. Len(Tail(line)) : Tail(line)[i] = line[i + 1]
    OBVIOUS
  <1>2. \A i \in 1 .. Len(line) - 1 : i + 1 \in 1 .. Len(line)
    OBVIOUS
  <1>3. \A i, j \in 1 .. Len(line) - 1 : i < j => i + 1 < j + 1
    OBVIOUS
  <1> QED
    BY <1>1, <1>2, <1>3 DEF Delivery, InOrder

\* What a request does to the texts: the reply carries none and the queue
\* waits, or it carries the first of the queue and the queue is emptied.
LEMMA HandleDelivers ==
    ASSUME TypeOK, Handle, Delivery(tx, event_queue, out)
    PROVE  Delivery(tx', event_queue', out')
  <1>1. /\ tx \in Seq(Reply) /\ event_queue \in Seq(Nat) /\ out \in Nat
        /\ Len(event_queue) <= QueueCap
    BY DEF TypeOK
  <1>2. ASSUME NEW reply \in Reply, Answer(reply), reply.events = <<>>,
               UNCHANGED <<event_queue, out>>
        PROVE  Delivery(tx', event_queue', out')
    BY <1>1, <1>2, NothingSent DEF Answer
  <1>3. ASSUME NEW reply \in Reply, Answer(reply), NEW n \in Nat,
               Begins(reply.events, Pushed(event_queue, n)),
               event_queue' = <<>>, out' = out + n
        PROVE  Delivery(tx', event_queue', out')
    <2>1. Pushed(event_queue, n) \in Seq(Nat) /\ out + n \in Nat
      BY <1>1, PushedType
    <2>2. Delivery(tx, Pushed(event_queue, n), out + n)
      BY <1>1, QueueGrows
    <2>3. Delivery(Append(tx, reply), <<>>, out + n)
      BY <1>1, <1>3, <2>1, <2>2, QueueSent
    <2> QED
      BY <1>3, <2>3 DEF Answer
  <1>4. ASSUME NEW reply \in Reply, Answer(reply),
               Begins(reply.events, event_queue),
               event_queue' = <<>>, out' = out
        PROVE  Delivery(tx', event_queue', out')
    BY <1>1, <1>4, QueueSent DEF Answer
  <1>5. ASSUME NEW q \in Seq(Nat), NEW status \in Status, NEW a \in Addr
        PROVE  /\ ComputerStatus(q, status, a) \in Reply
               /\ Begins(ComputerStatus(q, status, a).events, q)
    <2> DEFINE m == Lesser(Len(q), MaxEventsStep)
    <2>1. m \in 0 .. Len(q)
      BY SizesAssumption DEF Lesser
    <2>2. ComputerStatus(q, status, a).events = SubSeq(q, 1, m)
      BY DEF ComputerStatus, EmptyReply
    <2> HIDE DEF m
    <2>3. Begins(SubSeq(q, 1, m), q)
      BY <2>1 DEF Begins
    <2> QED
      BY <2>2, <2>3, ReplyTypes
  <1>6. ASSUME NEW q \in Seq(Nat), NEW b \in BOOLEAN, NEW a \in Addr
        PROVE  /\ RunStatusReply(q, b, a) \in Reply
               /\ Begins(RunStatusReply(q, b, a).events, q)
    <2>1. RunStatusReply(q, b, a).events = q
      BY DEF RunStatusReply, EmptyReply
    <2> QED
      BY <2>1, ReplyTypes DEF TypeOK, Begins
  <1>7. ASSUME NEW which \in ReplyType, NEW status \in Status
        PROVE  /\ [EmptyReply EXCEPT !.which = which, !.status = status] \in Reply
               /\ [EmptyReply EXCEPT !.which = which, !.status = status].events = <<>>
    BY ReplyTypes DEF Reply, EmptyReply
  <1>8. ASSUME NEW n \in Bursts
        PROVE  n \in Nat /\ Pushed(event_queue, n) \in Seq(Nat)
    BY <1>1, SizesAssumption, PushedType DEF Bursts
  <1>9. running \in BOOLEAN /\ last_pc \in Addr /\ cpu_pc \in Addr
    BY DEF TypeOK
  <1>10. CASE GetRunStatus
    <2>1. Answer(RunStatusReply(event_queue, running, last_pc))
          /\ event_queue' = <<>> /\ out' = out
      BY <1>10 DEF GetRunStatus
    <2> QED
      BY <1>1, <1>4, <1>6, <1>9, <2>1
  <1>11. CASE Pause
    <2>1. Answer(ComputerStatus(event_queue, "OK", cpu_pc))
          /\ event_queue' = <<>> /\ out' = out
      BY <1>11 DEF Pause, computer
    <2> QED
      BY <1>1, <1>4, <1>5, <1>9, <2>1 DEF Status
  <1>12. CASE Reset
    <2>1. ComputerStatus(<<>>, "OK", 0) \in Reply
          /\ Begins(ComputerStatus(<<>>, "OK", 0).events, <<>>)
      <3>1. <<>> \in Seq(Nat) /\ "OK" \in Status /\ 0 \in Addr
        BY AddrFacts DEF Status
      <3> QED
        BY <1>5, <3>1
    <2>2. Begins(ComputerStatus(<<>>, "OK", 0).events, event_queue)
      <3>1. ComputerStatus(<<>>, "OK", 0).events \in Seq(Nat)
        BY <2>1 DEF Reply
      <3> QED
        BY <1>1, <2>1, <3>1 DEF Begins
    <2>3. Answer(ComputerStatus(<<>>, "OK", 0)) /\ event_queue' = <<>> /\ out' = out
      BY <1>12 DEF Reset
    <2> QED
      BY <1>4, <2>1, <2>2, <2>3
  <1>13. CASE \E p \in Addr : NextOver(p)
    <2>1. Answer(RunStatusReply(event_queue, TRUE, last_pc))
          /\ event_queue' = <<>> /\ out' = out
      BY <1>13 DEF NextOver, computer
    <2> QED
      BY <1>1, <1>4, <1>6, <1>9, <2>1
  <1>14. ASSUME NEW p \in Addr, NEW n \in Bursts, NEW status \in CpuStatus,
                Step(p, n, status)
         PROVE  Delivery(tx', event_queue', out')
    <2>1. Answer(ComputerStatus(Pushed(event_queue, n), status, p))
          /\ event_queue' = <<>> /\ out' = out + n
      BY <1>14 DEF Step
    <2> QED
      BY <1>3, <1>5, <1>8, <2>1 DEF Status, CpuStatus
  <1>15. ASSUME NEW p \in Addr, NEW n \in Bursts, NEW status \in CpuStatus,
                NextInto(p, n, status)
         PROVE  Delivery(tx', event_queue', out')
    <2>1. Answer(RunStatusReply(Pushed(event_queue, n), FALSE, p))
          /\ event_queue' = <<>> /\ out' = out + n
      BY <1>15 DEF NextInto
    <2> QED
      BY <1>3, <1>6, <1>8, <2>1
  <1>16. CASE InvalidMessage \/ Ack \/ Run \/ ReadMemory
    <2>1. \E reply \in Reply : Answer(reply) /\ reply.events = <<>>
      <3>1. CASE InvalidMessage
        <4>1. [EmptyReply EXCEPT !.status = "INVALID_MESSAGE"] \in Reply
          BY ReplyTypes DEF Reply, Status, EmptyReply
        <4> QED
          BY <3>1, <4>1 DEF InvalidMessage, EmptyReply
      <3>2. CASE Ack
        <4>1. [EmptyReply EXCEPT !.which = "ack_response"] \in Reply
          BY ReplyTypes DEF Reply, ReplyType, EmptyReply
        <4> QED
          BY <3>2, <4>1 DEF Ack, EmptyReply
      <3>3. CASE Run
        BY <3>3, ReplyTypes DEF Run, EmptyReply
      <3>4. CASE ReadMemory
        <4>1. [EmptyReply EXCEPT !.which = "read_memory_response"] \in Reply
          BY ReplyTypes DEF Reply, ReplyType, EmptyReply
        <4> QED
          BY <3>4, <4>1 DEF ReadMemory, EmptyReply
      <3> QED
        BY <1>16, <3>1, <3>2, <3>3, <3>4
    <2>2. UNCHANGED <<event_queue, out>>
      BY <1>16 DEF InvalidMessage, Ack, Run, ReadMemory, server, computer
    <2> QED
      BY <1>2, <2>1, <2>2
  <1>17. CASE RunForever
    BY <1>17 DEF RunForever, server, computer
  <1>18. ASSUME NEW written \in BOOLEAN, WriteMemory(written)
         PROVE  Delivery(tx', event_queue', out')
    <2>1. CASE written
      BY <1>2, <1>7, <1>18, <2>1
         DEF WriteMemory, ReplyType, Status, server, computer
    <2>2. CASE ~ written
      BY <1>2, <1>7, <1>18, <2>2
         DEF WriteMemory, ReplyType, Status, server, computer
    <2> QED
      BY <2>1, <2>2
  <1>19. ASSUME NEW p \in Addr, Cycle(p)
         PROVE  Delivery(tx', event_queue', out')
    <2>1. \A st \in Status :
            /\ [EmptyReply EXCEPT !.which = "cycle_response", !.pc = p,
                                  !.status = st] \in Reply
            /\ [EmptyReply EXCEPT !.which = "cycle_response", !.pc = p,
                                  !.status = st].events = <<>>
      BY ReplyTypes DEF Reply, ReplyType, EmptyReply
    <2> QED
      BY <1>2, <1>19, <2>1 DEF Cycle, Status, server
  <1>20. ASSUME NEW p \in Addr, Interrupt(p)
         PROVE  Delivery(tx', event_queue', out')
    <2>1. \A st \in Status :
            /\ [EmptyReply EXCEPT !.status = st] \in Reply
            /\ [EmptyReply EXCEPT !.status = st].events = <<>>
      BY ReplyTypes DEF Reply, EmptyReply
    <2> QED
      BY <1>2, <1>20, <2>1 DEF Interrupt, Status, server
  <1>21. CASE BreakpointAdd \/ BreakpointRemove \/ BreakpointClearAll
    <2>1. \E table, status : status \in Status /\ AnswerTable(table, status)
          /\ breakpoints' = table
      BY <1>21 DEF BreakpointAdd, BreakpointRemove, BreakpointClearAll,
           AnswerTable, Status
    <2>2. PICK table, status : status \in Status /\ AnswerTable(table, status)
          /\ breakpoints' = table
      BY <2>1
    <2>3. table \in [Slots -> Addr]
      BY <2>2, TypeHandle DEF TypeOK
    <2> DEFINE reply == [EmptyReply EXCEPT !.which = "breakpoint_list",
                            !.status = status, !.list = Listed(table)]
    <2>4. Listed(table) \in SUBSET Addr
      BY <2>3 DEF Listed
    <2>5. reply \in Reply /\ reply.events = <<>>
      BY <2>2, <2>4, ReplyTypes DEF Reply, ReplyType, EmptyReply
    <2>6. Answer(reply) /\ UNCHANGED <<event_queue, out>>
      BY <2>2 DEF AnswerTable, computer
    <2> QED
      BY <1>2, <2>5, <2>6
  <1> QED
    BY <1>10, <1>11, <1>12, <1>13, <1>14, <1>15, <1>16, <1>17, <1>18, <1>19,
       <1>20, <1>21 DEF Handle

LEMMA DeliveryNext ==
    ASSUME TypeOK, [Next]_serverVars \/ Debug, Delivery(tx, event_queue, out)
    PROVE  Delivery(tx', event_queue', out')
  <1>1. ASSUME NEW p \in Addr, NEW n \in Bursts, RunStep(p, n)
        PROVE  Delivery(tx', event_queue', out')
    <2>1. Instruction(p, n) /\ tx' = tx
      BY <1>1 DEF RunStep, RunStepFails, RunStepReachesNext,
           RunStepReachesBreakpoint, RunStepGoesOn
    <2>2. n \in Nat
      BY SizesAssumption DEF Bursts
    <2> QED
      BY <2>1, <2>2, QueueGrows DEF Instruction, TypeOK
  <1>2. CASE Debug
    <2> DEFINE reply == [EmptyReply EXCEPT !.which = "debug"]
    <2>1. reply \in Reply /\ reply.events = <<>>
      BY ReplyTypes DEF Reply, ReplyType, EmptyReply
    <2>2. tx' = Append(tx, reply) /\ UNCHANGED <<event_queue, out>>
      BY <1>2 DEF Debug, server, computer
    <2> HIDE DEF reply
    <2> QED
      BY <2>1, <2>2, NothingSent DEF TypeOK
  <1>3. CASE HostReceives
    BY <1>3, ReplyTaken DEF HostReceives, TypeOK, server, computer
  <1>4. CASE \/ Enter \/ RunEnds \/ ReceiveNothing \/ ReceiveUndecodable
             \/ HostSends \/ UNCHANGED serverVars
    BY <1>4 DEF Enter, RunEnds, ReceiveNothing, ReceiveUndecodable,
         HostSends, serverVars, server, computer
  <1> QED
    BY <1>1, <1>2, <1>3, <1>4, HandleDelivers DEF Next, ServerNext

\* No text overtakes another on its way to the host and none is delivered
\* twice, for any queue, any order of requests and any number of texts an
\* instruction prints: what the queue refuses is lost, never late.
THEOREM TextsStayInOrder == Spec => []EventsInOrder
  <1> DEFINE Inv == TypeOK /\ Delivery(tx, event_queue, out)
  <1>1. Init => Inv
    BY TypeInit DEF Init, Delivery, InOrder, Printed, Increasing, Before
  <1>2. Inv /\ [Next]_serverVars => Inv'
    BY TypeNext, DeliveryNext
  <1>3. Inv => EventsInOrder
    BY DEF Delivery, EventsInOrder
  <1> QED
    BY <1>1, <1>2, <1>3, PTL DEF Spec

-----------------------------------------------------------------------------
(* The line between the two programs *)

\* The debugger is not killed and no file is edited.
GoesOn == UNCHANGED <<orphan, edits, restarts, matches>>

\* What a debugger's call does to the line, whichever call it is.
Sends ==
    /\ at # "wait" /\ at' = "wait"
    /\ call' \in Calls \ {"init_read"}
    /\ \E q \in Request :
          /\ rx' = Append(rx, q)
          /\ q.type = RequestOf[call']
          /\ call' \notin {"poll", "step"} => q.longest = 0
    /\ tx' \in {tx, <<>>}
    /\ GoesOn

\* The reply is read and the next request of the same kind is sent.
Continues ==
    /\ at = "wait" /\ Returns(call) /\ at' = "wait"
    /\ \/ call \in {"ack", "upload"} /\ call' = "init_reset"
       \/ call \in {"init_reset", "init_read"} /\ call' = "init_read"
       \/ call = "page" /\ call' = "page"
    /\ rx' = Append(rx, Ask(RequestOf[call']))
    /\ GoesOn

\* The reply is read, and the call returns or throws.
Finishes ==
    /\ at = "wait" /\ tx # <<>> /\ Head(tx).which # "debug"
    /\ tx' = Tail(tx) /\ rx' = rx
    /\ at' # "wait" /\ call' = "none"
    /\ GoesOn

\* The debugger does something else than calling.
Idles ==
    /\ at # "wait" /\ at' # "wait" /\ call' = call
    /\ UNCHANGED <<rx, tx>> /\ GoesOn

RunsAgain ==
    /\ Restart
    /\ UNCHANGED <<rx, tx>>

DebuggerSide == Debugger \/ UserCommand \/ Edit \/ Restart

LEMMA CallFacts ==
    /\ Calls = {"ack", "upload", "init_reset", "init_read", "poll", "step",
                "next", "pause", "run", "run_forever", "reset", "bkp_add",
                "bkp_remove", "bkp_clear", "cycle", "page", "interrupt"}
    /\ "none" \notin Calls
    /\ \A c \in Calls : RequestOf[c] \in RequestType
  BY DEF Calls, RequestOf, RequestType

LEMMA AcceptsNoDebug ==
    ASSUME NEW c \in Calls, NEW reply, Accepts(c, reply)
    PROVE  reply.which # "debug"
  BY CallFacts DEF Accepts, ExpectedOf

LEMMA AskType ==
    ASSUME NEW t \in RequestType
    PROVE  /\ Ask(t) \in Request /\ Ask(t).type = t /\ Ask(t).longest = 0
           /\ \A keys_ \in Seq(Nat), n \in Nat :
                /\ [Ask(t) EXCEPT !.keys = keys_, !.longest = n] \in Request
                /\ [Ask(t) EXCEPT !.keys = keys_, !.longest = n].type = t
           /\ \A a \in Addr :
                /\ [Ask(t) EXCEPT !.addr = a] \in Request
                /\ [Ask(t) EXCEPT !.addr = a].type = t
                /\ [Ask(t) EXCEPT !.addr = a].longest = 0
  <1>1. Ask(t) \in Request /\ Ask(t).type = t /\ Ask(t).longest = 0
    BY AddrFacts DEF Ask, Request
  <1>2. ASSUME NEW keys_ \in Seq(Nat), NEW n \in Nat
        PROVE  /\ [Ask(t) EXCEPT !.keys = keys_, !.longest = n] \in Request
               /\ [Ask(t) EXCEPT !.keys = keys_, !.longest = n].type = t
    BY <1>1 DEF Ask, Request
  <1>3. ASSUME NEW a \in Addr
        PROVE  /\ [Ask(t) EXCEPT !.addr = a] \in Request
               /\ [Ask(t) EXCEPT !.addr = a].type = t
               /\ [Ask(t) EXCEPT !.addr = a].longest = 0
    BY <1>1 DEF Ask, Request
  <1> QED
    BY <1>1, <1>2, <1>3

LEMMA SendLine ==
    ASSUME NEW c \in Calls \ {"init_read"}, NEW q \in Request, Send(c, q), at # "wait",
           q.type = RequestOf[c], c \notin {"poll", "step"} => q.longest = 0,
           GoesOn
    PROVE  Sends /\ UNCHANGED serverSide
  BY DEF Send, Sends

LEMMA Send0Line ==
    ASSUME NEW c \in Calls \ {"init_read"}, Send0(c), at # "wait", GoesOn
    PROVE  Sends /\ UNCHANGED serverSide
  BY CallFacts, AskType, SendLine DEF Send0

\* The texts a poll or a step sends are of the right type.
LEMMA UserEventsTypes ==
    ASSUME SessionTypeOK
    PROVE  /\ UserEvents \in Seq(Nat) /\ LongestText \in Nat
           /\ \A t \in {"get_run_status", "step"} :
                LET q == [Ask(t) EXCEPT !.keys = UserEvents, !.longest = LongestText]
                IN  q \in Request /\ q.type = t
  <1>1. UserEvents \in Seq(Nat) /\ LongestText \in Nat
    BY DEF SessionTypeOK, UserEvents, LongestText
  <1>2. \A t \in {"get_run_status", "step"} : t \in RequestType
    BY DEF RequestType
  <1> QED
    BY <1>1, <1>2, AskType

\* Every step of the debugger is one of these, and leaves the server alone.
LEMMA DebuggerLine ==
    ASSUME SessionTypeOK, DebuggerSide
    PROVE  /\ UNCHANGED serverSide
           /\ \/ Sends \/ Continues \/ Finishes \/ ReceiveDebug
              \/ Idles \/ Edit \/ RunsAgain
  <1>1. CASE UploadStep
    <2>1. CASE upload_ > 0
      BY <1>1, <2>1, Send0Line, CallFacts DEF UploadStep, past, GoesOn
    <2>2. CASE ~ upload_ > 0
      BY <1>1, <2>2 DEF UploadStep, past, Idles, Line, GoesOn
    <2> QED
      BY <2>1, <2>2
  <1>2. CASE UploadReturns
    <2>1. Returns("upload") /\ at = "wait" /\ call = "upload"
      BY <1>2 DEF UploadReturns, Returns
    <2>2. CASE upload_ = 1
      BY <1>2, <2>1, <2>2
         DEF UploadReturns, BeginsSession, past, Continues, RequestOf, GoesOn
    <2>3. CASE upload_ # 1
      BY <1>2, <2>1, <2>3, AcceptsNoDebug, CallFacts
         DEF UploadReturns, Returns, past, Finishes, GoesOn
    <2> QED
      BY <2>2, <2>3
  <1>3. CASE InitReset
    BY <1>3 DEF InitReset, Returns, Continues, RequestOf, GoesOn
  <1>17. CASE UploadUndefined
    BY <1>17 DEF UploadUndefined, Line, Idles, GoesOn
  <1>18. CASE InitMismatch
    BY <1>18, AcceptsNoDebug, CallFacts DEF InitMismatch, Returns, Finishes, GoesOn
  <1>19. CASE WatchEmpty
    <2>1. Ask("reset") \in Request /\ Ask("reset").type = "reset" /\ Ask("reset").longest = 0
      BY AskType DEF RequestType
    <2> QED
      BY <1>19, <2>1, CallFacts
         DEF WatchEmpty, BeginsSession, RequestOf, past, Sends, GoesOn
  <1>4. CASE InitRead
    <2>1. Returns("init_read") /\ at = "wait" /\ call = "init_read"
      BY <1>4 DEF InitRead, Returns
    <2>2. CASE reads > 1
      BY <1>4, <2>1, <2>2 DEF InitRead, past, frame, Continues, RequestOf, GoesOn
    <2>3. CASE ~ reads > 1
      BY <1>4, <2>1, <2>3, AcceptsNoDebug, CallFacts
         DEF InitRead, Returns, past, Finishes, GoesOn
    <2> QED
      BY <2>2, <2>3
  <1>5. CASE PollStep
    <2> DEFINE q == [Ask("get_run_status") EXCEPT !.keys = UserEvents,
                                                  !.longest = LongestText]
    <2>1. q \in Request /\ q.type = RequestOf["poll"] /\ "poll" \in Calls
      BY UserEventsTypes, CallFacts DEF RequestOf
    <2>2. Send("poll", q) /\ at # "wait" /\ GoesOn
      BY <1>5 DEF PollStep, past, GoesOn
    <2> HIDE DEF q
    <2> QED
      BY <2>1, <2>2, SendLine
  <1>6. CASE PollSkipped
    BY <1>6 DEF PollSkipped, past, Line, Idles, GoesOn
  <1>7. CASE PollReturns
    BY <1>7, AcceptsNoDebug, CallFacts DEF PollReturns, Returns, past, Finishes, GoesOn
  <1>8. CASE WatchStep
    BY <1>8 DEF WatchStep, Line, Idles, GoesOn
  <1>9. CASE CommandReturns
    <2>1. CASE Acknowledged
      BY <2>1, AcceptsNoDebug, CallFacts
         DEF Acknowledged, Returns, EndsCommand, past, Finishes, GoesOn
    <2>2. CASE ResetReturns
      BY <2>2, AcceptsNoDebug, CallFacts
         DEF ResetReturns, Returns, EndsCommand, Finishes, GoesOn
    <2>3. CASE StepReturns
      BY <2>3, AcceptsNoDebug, CallFacts
         DEF StepReturns, Returns, EndsCommand, Finishes, GoesOn
    <2>4. CASE PauseReturns
      BY <2>4, AcceptsNoDebug, CallFacts
         DEF PauseReturns, Returns, EndsCommand, Finishes, GoesOn
    <2>5. CASE RunReturns
      BY <2>5, AcceptsNoDebug, CallFacts
         DEF RunReturns, Returns, EndsCommand, Finishes, GoesOn
    <2>6. CASE NextReturns
      BY <2>6, AcceptsNoDebug, CallFacts
         DEF NextReturns, Returns, EndsCommand, Finishes, GoesOn
    <2>7. CASE BreakpointReturns
      BY <2>7, AcceptsNoDebug, CallFacts
         DEF BreakpointReturns, Returns, EndsCommand, past, Finishes, GoesOn
    <2>8. CASE PageReturns
      <3>1. Returns("page") /\ at = "wait" /\ call = "page"
        BY <2>8 DEF PageReturns, Returns
      <3>2. CASE reads > 1
        BY <2>8, <3>1, <3>2 DEF PageReturns, past, frame, Continues, RequestOf, GoesOn
      <3>3. CASE ~ reads > 1
        BY <2>8, <3>1, <3>3, AcceptsNoDebug, CallFacts
           DEF PageReturns, Returns, EndsCommand, past, Finishes, GoesOn
      <3> QED
        BY <3>2, <3>3
    <2>9. CASE CycleReturns
      BY <2>9, AcceptsNoDebug, CallFacts
         DEF CycleReturns, Returns, EndsCommand, Finishes, GoesOn
    <2>10. CASE InterruptReturns
      BY <2>10, AcceptsNoDebug, CallFacts
         DEF InterruptReturns, Returns, EndsCommand, Finishes, GoesOn
    <2>11. CASE AcknowledgedEmpty
      BY <2>11 DEF AcknowledgedEmpty, BeginsSession, Returns, past, Continues,
         RequestOf, GoesOn
    <2> QED
      BY <1>9, <2>1, <2>2, <2>3, <2>4, <2>5, <2>6, <2>7, <2>8, <2>9, <2>10, <2>11
         DEF CommandReturns
  <1>10. CASE ReceiveDebug
    BY <1>10 DEF ReceiveDebug
  <1>11. CASE Throws
    BY <1>11 DEF Throws, Finishes, GoesOn
  <1>12. CASE Keypress
    BY <1>12 DEF Keypress, frame, Line, past, Idles, GoesOn
  <1>13. CASE EndFrame
    BY <1>13 DEF EndFrame, Line, Idles, GoesOn
  <1>14. CASE UserCommand
    <2>1. CASE Connect
      BY <2>1, AskType, CallFacts DEF Connect, past, RequestOf, Sends, GoesOn
    <2>2. CASE Command
      BY <2>2, Send0Line, CallFacts DEF Command, Key, Button, past, GoesOn
    <2>3. CASE ChangePage
      BY <2>3, Send0Line, CallFacts DEF ChangePage, Key, Button, past, GoesOn
    <2>4. CASE Step_
      <3> DEFINE q == [Ask("step") EXCEPT !.keys = UserEvents,
                                          !.longest = LongestText]
      <3>1. q \in Request /\ q.type = RequestOf["step"] /\ "step" \in Calls
        BY UserEventsTypes, CallFacts DEF RequestOf
      <3>2. Send("step", q) /\ at # "wait" /\ GoesOn
        BY <2>4 DEF Step_, Key, past, GoesOn
      <3> HIDE DEF q
      <3> QED
        BY <3>1, <3>2, SendLine
    <2>5. CASE ToggleBreakpoint
      <3>1. PICK addr \in Addr :
                 LET c == IF addr \in breakpoints_ THEN "bkp_remove" ELSE "bkp_add"
                 IN  Send(c, [Ask(c) EXCEPT !.addr = addr])
        BY <2>5 DEF ToggleBreakpoint
      <3>2. at # "wait" /\ GoesOn
        BY <2>5 DEF ToggleBreakpoint, Key, Button, past, GoesOn
      <3>3. ASSUME NEW c \in {"bkp_remove", "bkp_add"}
            PROVE  /\ c \in Calls /\ c \in RequestType /\ RequestOf[c] = c
                   /\ [Ask(c) EXCEPT !.addr = addr] \in Request
                   /\ [Ask(c) EXCEPT !.addr = addr].type = c
                   /\ [Ask(c) EXCEPT !.addr = addr].longest = 0
        <4>1. c \in Calls /\ c \in RequestType /\ RequestOf[c] = c
          BY CallFacts DEF RequestOf, RequestType
        <4> QED
          BY <4>1, AskType
      <3>4. PICK c \in {"bkp_remove", "bkp_add"} :
                 Send(c, [Ask(c) EXCEPT !.addr = addr])
        BY <3>1
      <3> QED
        BY <3>2, <3>3, <3>4, SendLine
    <2>6. CASE ClearBreakpoints
      BY <2>6, Send0Line, CallFacts DEF ClearBreakpoints, Key, Button, past, GoesOn
    <2>7. CASE OpenKeypress
      BY <2>7 DEF OpenKeypress, Key, Button, Line, past, Idles, GoesOn
    <2>8. CASE CancelKeypress
      BY <2>8 DEF CancelKeypress, Line, past, Idles, GoesOn
    <2>9. CASE ClearNextTx
      BY <2>9 DEF ClearNextTx, Key, Button, Line, Idles, GoesOn
    <2> QED
      BY <1>14, <2>1, <2>2, <2>3, <2>4, <2>5, <2>6, <2>7, <2>8, <2>9
         DEF UserCommand
  <1>15. CASE Edit
    BY <1>15 DEF Edit
  <1>16. CASE Restart
    BY <1>16 DEF Restart, RunsAgain, Line, GoesOn
  <1> QED
    BY <1>1, <1>2, <1>3, <1>4, <1>5, <1>6, <1>7, <1>8, <1>9, <1>10, <1>11,
       <1>12, <1>13, <1>14, <1>15, <1>16, <1>17, <1>18, <1>19
       DEF DebuggerSide, Debugger, Update

-----------------------------------------------------------------------------
(* The types of both sides *)

\* A call that counts something down has something left to count.
Calling ==
    /\ at = "wait" <=> call # "none"
    /\ call = "upload" => upload_ > 0
    /\ call \in {"init_read", "page"} => reads > 0

SessionTypes == TypeOK /\ SessionTypeOK /\ Calling

LEMMA HeadReply ==
    ASSUME TypeOK, tx # <<>>
    PROVE  /\ Head(tx) \in Reply
           /\ Head(tx).pc \in Addr /\ Head(tx).running \in BOOLEAN
           /\ Head(tx).events \in Seq(Nat) /\ Head(tx).list \subseteq Addr
           /\ Tail(tx) \in Seq(Reply)
  <1>1. Head(tx) \in Reply /\ Tail(tx) \in Seq(Reply)
    BY DEF TypeOK
  <1> QED
    BY <1>1 DEF Reply

LEMMA SessionTypesInit == SessionInit => SessionTypes
  <1> SUFFICES ASSUME SessionInit PROVE SessionTypes
    OBVIOUS
  <1>1. TypeOK
    BY TypeInit DEF SessionInit
  <1>2. 0 \in 0 .. ChunkCount /\ 0 \in 0 .. PageReads
    BY SessionAssumption
  <1>3. <<>> \in Seq(Nat) /\ 0 \in Nat /\ {} \subseteq Addr /\ {} \subseteq Nat
    OBVIOUS
  <1>5. SessionTypeOK
    BY <1>2, <1>3, AddrFacts DEF SessionInit, SessionTypeOK
  <1>4. Calling
    BY DEF SessionInit, Calling
  <1> QED
    BY <1>1, <1>4, <1>5 DEF SessionTypes

\* A step of the debugger leaves the line with frames of the right types.
LEMMA LineTypes ==
    ASSUME SessionTypes, DebuggerSide
    PROVE  TypeOK'
  <1>1. /\ UNCHANGED serverSide
        /\ \/ Sends \/ Continues \/ Finishes \/ ReceiveDebug
           \/ Idles \/ Edit \/ RunsAgain
    BY DebuggerLine DEF SessionTypes
  <1>2. rx \in Seq(Request) /\ tx \in Seq(Reply) /\ TypeOK
    BY DEF SessionTypes, TypeOK
  <1>3. rx' \in Seq(Request)
    <2>1. CASE Sends
      BY <1>2, <2>1 DEF Sends
    <2>2. CASE Continues
      <3>1. call' \in Calls /\ rx' = Append(rx, Ask(RequestOf[call']))
        BY <2>2, CallFacts DEF Continues
      <3>2. Ask(RequestOf[call']) \in Request
        BY <3>1, CallFacts, AskType
      <3> QED
        BY <1>2, <3>1, <3>2
    <2>3. CASE Finishes \/ ReceiveDebug \/ Idles \/ Edit \/ RunsAgain
      BY <1>2, <2>3 DEF Finishes, ReceiveDebug, Idles, Edit, RunsAgain, Line
    <2> QED
      BY <1>1, <2>1, <2>2, <2>3
  <1>4. tx' \in Seq(Reply)
    <2>1. tx' = tx \/ tx' = <<>> \/ (tx # <<>> /\ tx' = Tail(tx))
      BY <1>1 DEF Sends, Continues, Finishes, ReceiveDebug,
         Idles, Edit, RunsAgain, Line, Returns
    <2>2. <<>> \in Seq(Reply)
      OBVIOUS
    <2>3. tx # <<>> => Tail(tx) \in Seq(Reply)
      BY <1>2, HeadReply
    <2> QED
      BY <1>2, <2>1, <2>2, <2>3
  <1> QED
    BY <1>1, <1>2, <1>3, <1>4 DEF TypeOK, serverSide, loop, server, computer, history

LEMMA UpdateTypes ==
    ASSUME SessionTypes, Update
    PROVE  SessionTypeOK' /\ Calling'
  <1>1. SessionTypeOK /\ Calling /\ TypeOK
    BY DEF SessionTypes
  <1>2. CASE UploadStep
    BY <1>1, <1>2, CallFacts DEF UploadStep, Send0, Send, SessionTypeOK, Calling,
       model, past
  <1>3. CASE UploadReturns
    <2>1. call = "upload" /\ at = "wait" /\ upload_ - 1 \in 0 .. ChunkCount
      BY <1>1, <1>3, SessionAssumption
         DEF UploadReturns, Returns, SessionTypeOK, Calling, Gone
    <2> QED
      BY <1>1, <1>3, <2>1, CallFacts
         DEF UploadReturns, BeginsSession, Returns, SessionTypeOK, Calling, past
  <1>10. CASE UploadUndefined
    BY <1>1, <1>10 DEF UploadUndefined, SessionTypeOK, Calling, model
  <1>11. CASE InitMismatch
    BY <1>1, <1>11 DEF InitMismatch, SessionTypeOK, Calling
  <1>12. CASE WatchEmpty
    <2>1. upload_' \in 0 .. ChunkCount \cup {Gone}
      BY <1>12, SessionAssumption DEF WatchEmpty
    <2> QED
      BY <1>1, <1>12, <2>1, CallFacts
         DEF WatchEmpty, BeginsSession, SessionTypeOK, Calling, past
  <1>4. CASE InitReset
    <2>1. Head(tx).pc \in Addr /\ at = "wait"
      BY <1>1, <1>4, HeadReply DEF InitReset, Returns
    <2>2. PageReads \in 0 .. PageReads /\ PageReads > 0
      BY SessionAssumption
    <2> QED
      BY <1>1, <1>4, <2>1, <2>2, CallFacts DEF InitReset, SessionTypeOK, Calling
  <1>5. CASE InitRead
    <2>1. call = "init_read" /\ at = "wait" /\ reads - 1 \in 0 .. PageReads
      BY <1>1, <1>5, SessionAssumption
         DEF InitRead, Returns, SessionTypeOK, Calling
    <2>2. reads > 1 => reads - 1 > 0
      BY <1>1 DEF SessionTypeOK
    <2>3. CASE reads > 1
      BY <1>1, <1>5, <2>1, <2>2, <2>3
         DEF InitRead, SessionTypeOK, Calling, frame, past
    <2>4. CASE ~ reads > 1
      <3>1. /\ at' \in {"draw", "drawn"} /\ call' = "none"
            /\ connected' \in BOOLEAN /\ started' \in BOOLEAN
        BY <1>5, <2>4 DEF InitRead
      <3> QED
        BY <1>1, <1>5, <2>1, <3>1 DEF InitRead, SessionTypeOK, Calling, past
    <2> QED
      BY <2>3, <2>4
  <1>6. CASE PollStep
    BY <1>1, <1>6, CallFacts DEF PollStep, Send, SessionTypeOK, Calling, past
  <1>7. CASE PollSkipped
    BY <1>1, <1>7 DEF PollSkipped, SessionTypeOK, Calling, model, past
  <1>8. CASE PollReturns
    <2>1. /\ Head(tx).pc \in Addr /\ Head(tx).running \in BOOLEAN
          /\ Head(tx).events \in Seq(Nat)
      BY <1>1, <1>8, HeadReply DEF PollReturns, Returns
    <2> QED
      BY <1>1, <1>8, <2>1 DEF PollReturns, SessionTypeOK, Calling, past
  <1>9. CASE WatchStep
    <2>1. ChunkCount \in 0 .. ChunkCount
      BY SessionAssumption
    <2>2. at = "watch" /\ call' = call /\ call = "none" /\ at' \in {"draw", "terminated"}
      BY <1>1, <1>9 DEF WatchStep, Calling
    <2>3. upload_' \in 0 .. ChunkCount \cup {Gone} /\ updated' \in BOOLEAN
      BY <1>1, <1>9, <2>1 DEF WatchStep, SessionTypeOK
    <2>4. SessionTypeOK'
      BY <1>1, <1>9, <2>2, <2>3 DEF WatchStep, SessionTypeOK
    <2>5. Calling'
      BY <2>2 DEF Calling
    <2> QED
      BY <2>4, <2>5
  <1> QED
    BY <1>2, <1>3, <1>4, <1>5, <1>6, <1>7, <1>8, <1>9, <1>10, <1>11, <1>12 DEF Update

LEMMA ReturnTypes ==
    ASSUME SessionTypes, CommandReturns
    PROVE  SessionTypeOK' /\ Calling'
  <1>1. SessionTypeOK /\ Calling /\ TypeOK
    BY DEF SessionTypes
  <1>2. /\ Head(tx).pc \in Addr /\ Head(tx).running \in BOOLEAN
        /\ Head(tx).events \in Seq(Nat) /\ Head(tx).list \subseteq Addr
    BY <1>1, HeadReply DEF CommandReturns, Acknowledged, AcknowledgedEmpty,
       ResetReturns, StepReturns,
       PauseReturns, RunReturns, NextReturns, BreakpointReturns, PageReturns,
       CycleReturns, InterruptReturns, Returns
  <1>3. CASE Acknowledged
    BY <1>1, <1>3, SessionAssumption
       DEF Acknowledged, EndsCommand, SessionTypeOK, Calling, past
  <1>4. CASE ResetReturns
    BY <1>1, <1>2, <1>4 DEF ResetReturns, EndsCommand, SessionTypeOK, Calling
  <1>5. CASE StepReturns
    <2>1. (shown \o Head(tx).events) \in Seq(Nat)
      BY <1>1, <1>2 DEF SessionTypeOK
    <2>2. ignored' \in BOOLEAN
      BY <1>1, <1>5 DEF StepReturns, SessionTypeOK
    <2> QED
      BY <1>1, <1>2, <1>5, <2>1, <2>2
         DEF StepReturns, EndsCommand, SessionTypeOK, Calling
  <1>6. CASE PauseReturns
    <2>1. ignored' \in BOOLEAN
      BY <1>1, <1>6 DEF PauseReturns, SessionTypeOK
    <2> QED
      BY <1>1, <1>2, <1>6, <2>1
         DEF PauseReturns, EndsCommand, SessionTypeOK, Calling
  <1>7. CASE RunReturns
    BY <1>1, <1>7 DEF RunReturns, EndsCommand, SessionTypeOK, Calling
  <1>8. CASE NextReturns
    <2>1. ignored' \in BOOLEAN
      BY <1>1, <1>8 DEF NextReturns, SessionTypeOK
    <2> QED
      BY <1>1, <1>2, <1>8, <2>1
         DEF NextReturns, EndsCommand, SessionTypeOK, Calling
  <1>9. CASE BreakpointReturns
    BY <1>1, <1>2, <1>9
       DEF BreakpointReturns, EndsCommand, SessionTypeOK, Calling, past
  <1>10. CASE PageReturns
    <2>1. call = "page" /\ at = "wait" /\ reads - 1 \in 0 .. PageReads
      BY <1>1, <1>10, SessionAssumption
         DEF PageReturns, Returns, SessionTypeOK, Calling
    <2>2. reads > 1 => reads - 1 > 0
      BY <1>1 DEF SessionTypeOK
    <2> QED
      BY <1>1, <1>10, <2>1, <2>2
         DEF PageReturns, EndsCommand, SessionTypeOK, Calling, frame, past
  <1>11. CASE CycleReturns
    BY <1>1, <1>2, <1>11 DEF CycleReturns, EndsCommand, SessionTypeOK, Calling
  <1>12. CASE InterruptReturns
    BY <1>1, <1>12 DEF InterruptReturns, EndsCommand, SessionTypeOK, Calling, model
  <1>13. CASE AcknowledgedEmpty
    BY <1>1, <1>13, CallFacts
       DEF AcknowledgedEmpty, BeginsSession, Returns, SessionTypeOK, Calling, model, past
  <1> QED
    BY <1>3, <1>4, <1>5, <1>6, <1>7, <1>8, <1>9, <1>10, <1>11, <1>12, <1>13
       DEF CommandReturns

LEMMA UserTypes ==
    ASSUME SessionTypes, UserCommand
    PROVE  SessionTypeOK' /\ Calling'
  <1>1. SessionTypeOK /\ Calling
    BY DEF SessionTypes
  <1>2. CASE Connect
    BY <1>1, <1>2, CallFacts DEF Connect, SessionTypeOK, Calling, model, past
  <1>3. CASE Command
    BY <1>1, <1>3, CallFacts
       DEF Command, Key, Button, Send0, Send, SessionTypeOK, Calling, model, past
  <1>4. CASE ChangePage
    <2>1. PageReads \in 0 .. PageReads /\ PageReads > 0
      BY SessionAssumption
    <2> QED
      BY <1>1, <1>4, <2>1, CallFacts
         DEF ChangePage, Send0, Send, SessionTypeOK, Calling, past
  <1>5. CASE Step_
    BY <1>1, <1>5, CallFacts DEF Step_, Send, SessionTypeOK, Calling, past
  <1>6. CASE ToggleBreakpoint
    BY <1>1, <1>6, CallFacts
       DEF ToggleBreakpoint, Send, SessionTypeOK, Calling, model, past
  <1>7. CASE ClearBreakpoints
    BY <1>1, <1>7, CallFacts
       DEF ClearBreakpoints, Send0, Send, SessionTypeOK, Calling, past
  <1>8. CASE OpenKeypress
    BY <1>1, <1>8 DEF OpenKeypress, Button, Key, SessionTypeOK, Calling, past
  <1>9. CASE CancelKeypress
    BY <1>1, <1>9 DEF CancelKeypress, SessionTypeOK, Calling, past
  <1>10. CASE ClearNextTx
    <2>1. KeysIn(next_tx) \subseteq Nat
      BY <1>1 DEF SessionTypeOK, KeysIn
    <2>2. discarded \subseteq Nat
      BY <1>1 DEF SessionTypeOK
    <2>3. (discarded \cup KeysIn(next_tx)) \subseteq Nat
      BY <2>1, <2>2
    <2>4. <<>> \in Seq(Nat)
      OBVIOUS
    <2> QED
      BY <1>1, <1>10, <2>3, <2>4
         DEF ClearNextTx, Button, Key, SessionTypeOK, Calling
  <1> QED
    BY <1>2, <1>3, <1>4, <1>5, <1>6, <1>7, <1>8, <1>9, <1>10 DEF UserCommand

LEMMA OtherTypes ==
    ASSUME SessionTypes,
           ReceiveDebug \/ Throws \/ Keypress \/ EndFrame \/ Edit \/ Restart
    PROVE  SessionTypeOK' /\ Calling'
  <1>1. SessionTypeOK /\ Calling /\ TypeOK
    BY DEF SessionTypes
  <1>2. CASE ReceiveDebug
    BY <1>1, <1>2 DEF ReceiveDebug, SessionTypeOK, Calling, frame, model, past
  <1>3. CASE Throws
    <2>1. ignored' \in BOOLEAN /\ displaced' \in BOOLEAN /\ connected' \in BOOLEAN
      BY <1>1, <1>3 DEF Throws, SessionTypeOK
    <2>2. at' \in {"terminated", "drawn"} /\ call' = "none"
          /\ UNCHANGED <<started, upload_, reads, running_, breakpoints_, pc_,
                         registers_, updated, popup, keys, next_tx, shown, typed,
                         discarded, orphan, edits, restarts, matches>>
      BY <1>3 DEF Throws
    <2>3. SessionTypeOK'
      BY <1>1, <2>1, <2>2 DEF SessionTypeOK
    <2> QED
      BY <2>2, <2>3 DEF Calling
  <1>4. CASE Keypress
    <2>1. next_tx' \in Seq(Nat) /\ popup' \in BOOLEAN
          /\ UNCHANGED <<at, call, connected, started, upload_, reads, running_,
                         breakpoints_, pc_, registers_, updated, keys, shown, typed,
                         discarded, ignored, displaced, orphan, edits, restarts, matches>>
      BY <1>1, <1>4 DEF Keypress, SessionTypeOK, frame, past
    <2> QED
      BY <1>1, <2>1 DEF SessionTypeOK, Calling
  <1>5. CASE EndFrame
    <2>1. PICK n \in 0 .. Lesser(KeysPerFrame, MaxInput - typed) :
             /\ keys' = [k \in 1 .. n |-> typed + k]
             /\ typed' = typed + n
      BY <1>5 DEF EndFrame
    <2>2. n \in Nat /\ typed \in Nat
      BY <1>1 DEF SessionTypeOK
    <2>3. keys' \in Seq(Nat) /\ typed' \in Nat
      BY <2>1, <2>2
    <2> QED
      BY <1>1, <1>5, <2>3 DEF EndFrame, SessionTypeOK, Calling
  <1>6. CASE Edit
    BY <1>1, <1>6 DEF Edit, SessionTypeOK, Calling, frame
  <1>7. CASE Restart
    <2>1. 0 \in 0 .. ChunkCount /\ 0 \in 0 .. PageReads
      BY SessionAssumption
    <2>2. orphan' \in BOOLEAN
      BY <1>1, <1>7 DEF Restart, SessionTypeOK
    <2>3. <<>> \in Seq(Nat) /\ {} \subseteq Addr /\ restarts + 1 \in Nat
      BY <1>1 DEF SessionTypeOK
    <2> QED
      BY <1>1, <1>7, <2>1, <2>2, <2>3, AddrFacts DEF Restart, SessionTypeOK, Calling
  <1> QED
    BY <1>2, <1>3, <1>4, <1>5, <1>6, <1>7

LEMMA SessionTypesNext ==
    ASSUME SessionTypes, [SessionNext]_vars
    PROVE  SessionTypes'
  <1>1. CASE (ServerNext \/ Debug) /\ UNCHANGED uiVars
    <2>1. TypeOK'
      BY <1>1, TypeNext DEF SessionTypes, Next
    <2>2. SessionTypeOK' /\ Calling'
      BY <1>1 DEF SessionTypes, SessionTypeOK, Calling, uiVars, frame, model, past
    <2> QED
      BY <2>1, <2>2 DEF SessionTypes
  <1>2. CASE DebuggerSide
    BY <1>2, LineTypes, UpdateTypes, ReturnTypes, UserTypes, OtherTypes
       DEF SessionTypes, DebuggerSide, Debugger
  <1>3. CASE UNCHANGED vars
    <2>1. TypeOK'
      BY <1>3, TypeNext DEF SessionTypes, vars
    <2> QED
      BY <1>3, <2>1 DEF SessionTypes, vars, SessionTypeOK, Calling, uiVars, frame, model, past
  <1> QED
    BY <1>1, <1>2, <1>3 DEF SessionNext, DebuggerSide

\* Both sides of a session keep their types.
THEOREM SessionTypesCorrect == SessionSpec => []SessionTypeOK
  <1>1. SessionTypes => SessionTypeOK
    BY DEF SessionTypes
  <1> QED
    BY <1>1, SessionTypesInit, SessionTypesNext, PTL DEF SessionSpec

-----------------------------------------------------------------------------
(* A request or its reply *)

\* Nothing is under way; a request is; or its only reply is.  (A computer
\* inside run_forever and a request that cannot be decoded give no reply.)
Idle     == rx = <<>> /\ Replies = {}
Asked    == Len(rx) = 1 /\ Replies = {}
Answered == rx = <<>> /\ \E k \in 1 .. Len(tx) : Replies = {k}

InStep == ~ orphan => Idle \/ (at = "wait" /\ (Asked \/ Answered))

LEMMA RepliesAppended ==
    ASSUME tx \in Seq(Reply), NEW r \in Reply, tx' = Append(tx, r)
    PROVE  /\ r.which = "debug" => Replies' = Replies
           /\ r.which # "debug" => Replies' = Replies \cup {Len(tx) + 1}
           /\ \A i \in Replies : tx'[i] = tx[i]
           /\ tx'[Len(tx) + 1] = r
  <1>1. /\ Len(tx') = Len(tx) + 1
        /\ tx'[Len(tx) + 1] = r
        /\ \A i \in 1 .. Len(tx) : tx'[i] = tx[i]
    OBVIOUS
  <1>2. \A i : i \in 1 .. Len(tx') <=> i \in 1 .. Len(tx) \/ i = Len(tx) + 1
    BY <1>1
  <1>3. Len(tx) + 1 \notin 1 .. Len(tx)
    OBVIOUS
  <1> QED
    BY <1>1, <1>2, <1>3 DEF Replies

LEMMA RepliesTail ==
    ASSUME tx \in Seq(Reply), tx # <<>>, tx' = Tail(tx)
    PROVE  /\ 1 \in Replies <=> Head(tx).which # "debug"
           /\ Replies \subseteq 1 .. Len(tx)
           /\ \A i : i \in Replies' <=> i \in Nat \ {0} /\ i + 1 \in Replies
           /\ \A i \in Replies' : tx'[i] = tx[i + 1]
  <1>1. /\ Len(tx') = Len(tx) - 1 /\ Head(tx) = tx[1] /\ Len(tx) \in Nat \ {0}
        /\ \A i \in 1 .. Len(tx') : tx'[i] = tx[i + 1]
    OBVIOUS
  <1>2. \A i : i \in 1 .. Len(tx') <=> i \in Nat \ {0} /\ i + 1 \in 1 .. Len(tx)
    BY <1>1
  <1> QED
    BY <1>1, <1>2 DEF Replies

\* The request is consumed and this reply is sent.
LEMMA LineAnswered ==
    ASSUME TypeOK, Asked, rx' = Tail(rx), NEW r \in Reply, Answer(r),
           r.which # "debug"
    PROVE  Answered' /\ Replies' # {} /\ \A i \in Replies' : tx'[i] = r
  <1>1. rx' = <<>>
    BY DEF TypeOK, Asked
  <1>2. Replies' = {Len(tx) + 1} /\ tx'[Len(tx) + 1] = r
    BY RepliesAppended DEF TypeOK, Asked, Answer
  <1>3. Len(tx) + 1 \in 1 .. Len(tx')
    BY DEF TypeOK, Answer
  <1> QED
    BY <1>1, <1>2, <1>3 DEF Answered

\* The debugger reads the reply.
LEMMA LineRead ==
    ASSUME TypeOK, Idle \/ Asked \/ Answered, tx # <<>>, tx' = Tail(tx),
           Head(tx).which # "debug"
    PROVE  rx = <<>> /\ 1 \in Replies /\ Head(tx) = tx[1] /\ Replies' = {}
  <1>1. 1 \in Replies /\ Answered /\ Head(tx) = tx[1]
    BY RepliesTail DEF TypeOK, Idle, Asked
  <1>2. Replies = {1}
    BY <1>1 DEF Answered
  <1>3. Replies' = {}
    BY <1>2, RepliesTail DEF TypeOK
  <1> QED
    BY <1>1, <1>3 DEF Answered

\* The debugger passes over a debug frame.
LEMMA LineListened ==
    ASSUME TypeOK, Idle \/ Asked \/ Answered, tx # <<>>, tx' = Tail(tx),
           Head(tx).which = "debug", rx' = rx
    PROVE  /\ Idle => Idle'
           /\ Asked => Asked'
           /\ Answered => Answered'
           /\ Replies = {} <=> Replies' = {}
           /\ \A i \in Replies' : i + 1 \in Replies /\ tx'[i] = tx[i + 1]
  <1>1. /\ 1 \notin Replies /\ Replies \subseteq 1 .. Len(tx)
        /\ \A i : i \in Replies' <=> i \in Nat \ {0} /\ i + 1 \in Replies
        /\ \A i \in Replies' : tx'[i] = tx[i + 1]
        /\ Len(tx') = Len(tx) - 1 /\ Len(tx) \in Nat
    BY RepliesTail DEF TypeOK
  <1>2. Replies = {} => Replies' = {}
    BY <1>1
  <1>3. ASSUME NEW k \in 1 .. Len(tx), Replies = {k}
        PROVE  k - 1 \in 1 .. Len(tx') /\ Replies' = {k - 1}
    <2>1. k # 1 /\ k - 1 \in Nat \ {0}
      BY <1>1, <1>3
    <2>2. \A i : i \in Nat \ {0} /\ i + 1 \in Replies <=> i = k - 1
      BY <1>3, <2>1
    <2> QED
      BY <1>1, <2>1, <2>2
  <1>4. \A i \in Replies' : i + 1 \in Replies /\ tx'[i] = tx[i + 1]
    BY <1>1
  <1>5. Answered => Answered' /\ Replies' # {} /\ Replies # {}
    BY <1>3 DEF Answered
  <1> QED
    BY <1>2, <1>4, <1>5 DEF Idle, Asked

\* A debug frame is sent.
LEMMA LineDebug ==
    ASSUME TypeOK, Debug
    PROVE  /\ rx' = rx /\ Replies' = Replies
           /\ \A i \in Replies : tx'[i] = tx[i]
           /\ Idle => Idle'
           /\ Asked => Asked'
           /\ Answered => Answered'
  <1> DEFINE r == [EmptyReply EXCEPT !.which = "debug"]
  <1>1. r \in Reply /\ r.which = "debug"
    BY ReplyTypes DEF Reply, ReplyType, EmptyReply
  <1>2. tx' = Append(tx, r) /\ rx' = rx
    BY DEF Debug
  <1> HIDE DEF r
  <1>3. Replies' = Replies /\ \A i \in Replies : tx'[i] = tx[i]
    BY <1>1, <1>2, RepliesAppended DEF TypeOK
  <1>4. \A k \in 1 .. Len(tx) : k \in 1 .. Len(tx')
    BY <1>2 DEF TypeOK
  <1> QED
    BY <1>2, <1>3, <1>4 DEF Idle, Asked, Answered

\* A request is sent on an idle line.
LEMMA LineSent ==
    ASSUME TypeOK, Idle, NEW q, rx' = Append(rx, q), tx' \in {tx, <<>>}
    PROVE  Asked' /\ Head(rx') = q
  <1>1. rx' = <<q>>
    BY DEF Idle
  <1>2. Replies' = {}
    BY DEF Idle, Replies
  <1> QED
    BY <1>1, <1>2 DEF Asked

\* Which handler answers which request, and when.
LEMMA Handlers ==
    ASSUME Handle
    PROVE  /\ rx # <<>> /\ rx' = Tail(rx) /\ Decodable(Head(rx))
           /\ LET t == Head(rx).type IN
              \/ /\ InvalidMessage
                 /\ t # "get_run_status" /\ running # (t = "pause")
              \/ t = "get_run_status" /\ GetRunStatus
              \/ t = "pause" /\ running /\ Pause
              \/ /\ ~ running
                 /\ \/ t = "ack" /\ Ack
                    \/ t = "reset" /\ Reset
                    \/ t \in {"run", "run_forever"} /\ Run
                    \/ t = "run_forever" /\ RunForever
                    \/ t = "read_memory" /\ ReadMemory
                    \/ t = "bkp_add" /\ BreakpointAdd
                    \/ t = "bkp_remove" /\ BreakpointRemove
                    \/ t = "bkp_clear" /\ BreakpointClearAll
                    \/ t = "write_memory" /\ \E w \in BOOLEAN : WriteMemory(w)
                    \/ t = "cycle" /\ \E p \in Addr : Cycle(p)
                    \/ t = "interrupt" /\ \E p \in Addr : Interrupt(p)
                    \/ t = "next" /\ \E p \in Addr : NextOver(p)
                    \/ t = "next" /\ \E p \in Addr, n \in Bursts, s \in CpuStatus :
                                        NextInto(p, n, s)
                    \/ t = "step" /\ \E p \in Addr, n \in Bursts, s \in CpuStatus :
                                        Step(p, n, s)
  BY DEF Handle, Got, InvalidMessage, GetRunStatus, Pause, Ack, Reset, Run,
     RunForever, ReadMemory, BreakpointAdd, BreakpointRemove, BreakpointClearAll,
     WriteMemory, Cycle, Interrupt, NextOver, NextInto, Step

-----------------------------------------------------------------------------
(* What the server answers *)

\* The events of a reply that carries the first of queue q and loses the rest.
FirstOf(r, q) == Begins(r.events, q) /\ Len(r.events) = Lesser(Len(q), MaxEventsStep)

Plain(r, which) == r.which = which /\ r.events = <<>>

\* The handlers seen from the other end of the line: reply r to the request
\* read, and what has changed in the server and the computer meanwhile.
RefusedWith(r) ==
    /\ Head(rx).type # "get_run_status" /\ running # (Head(rx).type = "pause")
    /\ Plain(r, "none") /\ r.status = "INVALID_MESSAGE"
    /\ UNCHANGED <<server, computer, history>>

PolledWith(r) ==
    /\ Head(rx).type = "get_run_status"
    /\ r.which = "run_status" /\ r.status = run_status
    /\ r.running = running /\ r.pc = last_pc /\ r.events = event_queue
    /\ event_queue' = <<>> /\ run_status' = "OK"
    /\ ExecuteUserEvents(Head(rx).keys)
    /\ UNCHANGED <<breakpoints, last_pc, running, cpu_pc, out>>

PausedWith(r) ==
    /\ running /\ Head(rx).type = "pause"
    /\ r.which = "computer_status" /\ r.status = "OK" /\ r.pc = cpu_pc
    /\ FirstOf(r, event_queue)
    /\ event_queue' = <<>> /\ running' = FALSE
    /\ UNCHANGED <<breakpoints, last_pc, run_status, computer>>

ResetWith(r) ==
    /\ ~ running /\ Head(rx).type = "reset"
    /\ Plain(r, "computer_status") /\ r.status = "OK" /\ r.pc = 0
    /\ cpu_pc' = 0 /\ event_queue' = <<>>
    /\ UNCHANGED <<breakpoints, last_pc, running, run_status, out, input>>

SteppedWith(r) ==
    /\ ~ running /\ Head(rx).type = "step"
    /\ r.which = "computer_status" /\ r.pc = cpu_pc'
    /\ \E n \in Bursts : out' = out + n /\ FirstOf(r, Pushed(event_queue, n))
    /\ event_queue' = <<>>
    /\ ExecuteUserEvents(Head(rx).keys)
    /\ UNCHANGED <<breakpoints, last_pc, running, run_status>>

RunWith(r) ==
    /\ ~ running /\ Head(rx).type \in {"run", "run_forever"}
    /\ Plain(r, "none") /\ r.status = "OK"
    /\ running' = TRUE
    /\ UNCHANGED <<breakpoints, last_pc, event_queue, run_status, computer>>

RunToReturnWith(r) ==
    /\ ~ running /\ Head(rx).type = "next"
    /\ r.which = "run_status" /\ r.status = run_status /\ r.running
    /\ r.events = event_queue
    /\ event_queue' = <<>> /\ run_status' = "OK" /\ running' = TRUE
    /\ UNCHANGED <<breakpoints, last_pc, computer>>

NextWith(r) ==
    /\ ~ running /\ Head(rx).type = "next"
    /\ r.which = "run_status" /\ r.status = run_status /\ ~ r.running
    /\ r.pc = cpu_pc' /\ last_pc' = cpu_pc'
    /\ \E n \in Bursts : out' = out + n /\ r.events = Pushed(event_queue, n)
    /\ event_queue' = <<>> /\ run_status' = "OK"
    /\ UNCHANGED <<breakpoints, running, input>>

CycledWith(r) ==
    /\ ~ running /\ Head(rx).type = "cycle"
    /\ Plain(r, "cycle_response") /\ r.pc = cpu_pc'
    /\ r.status # "OK" => cpu_pc' = cpu_pc
    /\ UNCHANGED <<server, out, input>>

InterruptedWith(r) ==
    /\ ~ running /\ Head(rx).type = "interrupt"
    /\ Plain(r, "none")
    /\ r.status # "OK" => cpu_pc' = cpu_pc
    /\ UNCHANGED <<server, out, input>>

MemoryWith(r) ==
    /\ ~ running
    /\ \/ Head(rx).type = "ack" /\ Plain(r, "ack_response") /\ r.status = "OK"
       \/ Head(rx).type = "read_memory" /\ Plain(r, "read_memory_response")
          /\ r.status = "OK"
       \/ Head(rx).type = "write_memory" /\ Plain(r, "write_memory_response")
          /\ r.status \in {"OK", "ERR_WRITING_MEMORY"}
    /\ UNCHANGED <<server, computer>>

ListedWith(r) ==
    /\ ~ running /\ Head(rx).type \in {"bkp_add", "bkp_remove", "bkp_clear"}
    /\ Plain(r, "breakpoint_list") /\ r.list = Listed(breakpoints')
    /\ r.status # "OK" => breakpoints' = breakpoints
    /\ Head(rx).type = "bkp_clear" => r.status = "OK" /\ r.list = {}
    /\ UNCHANGED <<last_pc, event_queue, running, run_status, computer>>

ServedWith(r) ==
    \/ RefusedWith(r) \/ PolledWith(r) \/ PausedWith(r) \/ ResetWith(r)
    \/ SteppedWith(r) \/ RunWith(r) \/ RunToReturnWith(r) \/ NextWith(r)
    \/ CycledWith(r) \/ InterruptedWith(r) \/ MemoryWith(r) \/ ListedWith(r)

LEMMA StatusReply ==
    ASSUME NEW q \in Seq(Nat), NEW status \in Status, NEW a \in Addr
    PROVE  LET r == ComputerStatus(q, status, a) IN
           /\ r \in Reply /\ r.which = "computer_status" /\ r.status = status
           /\ r.pc = a /\ FirstOf(r, q)
  <1> DEFINE m == Lesser(Len(q), MaxEventsStep)
             r == ComputerStatus(q, status, a)
  <1>1. m \in 0 .. Len(q)
    BY SizesAssumption DEF Lesser
  <1>2. /\ r.events = SubSeq(q, 1, m) /\ r.which = "computer_status"
        /\ r.status = status /\ r.pc = a
    BY DEF ComputerStatus, EmptyReply
  <1>3. r \in Reply
    BY ReplyTypes
  <1> HIDE DEF m, r
  <1>4. Begins(SubSeq(q, 1, m), q) /\ Len(SubSeq(q, 1, m)) = m
    BY <1>1 DEF Begins
  <1> QED
    BY <1>2, <1>3, <1>4 DEF FirstOf, m, r

LEMMA RunReply ==
    ASSUME NEW q \in Seq(Nat), NEW b \in BOOLEAN, NEW a \in Addr, TypeOK
    PROVE  LET r == RunStatusReply(q, b, a) IN
           /\ r \in Reply /\ r.which = "run_status" /\ r.status = run_status
           /\ r.running = b /\ r.pc = a /\ r.events = q
  <1>1. RunStatusReply(q, b, a) \in Reply
    BY ReplyTypes DEF TypeOK
  <1> QED
    BY <1>1 DEF RunStatusReply, EmptyReply

LEMMA BurstPushed ==
    ASSUME TypeOK, NEW n \in Bursts
    PROVE  n \in Nat /\ Pushed(event_queue, n) \in Seq(Nat)
  BY SizesAssumption, PushedType DEF Bursts, TypeOK

\* Every request that is decoded is answered in one of these ways, unless the
\* computer takes the processor.
LEMMA Served ==
    ASSUME TypeOK, Handle, ~ RunForever
    PROVE  \E r \in Reply : Answer(r) /\ r.which # "debug" /\ ServedWith(r)
  <1> DEFINE t == Head(rx).type
  <1>1. /\ event_queue \in Seq(Nat) /\ running \in BOOLEAN /\ last_pc \in Addr
        /\ cpu_pc \in Addr /\ run_status \in CpuStatus
        /\ "OK" \in Status /\ \A s \in CpuStatus : s \in Status
    BY DEF TypeOK, CpuStatus, Status
  <1>2. CASE InvalidMessage
    <2> DEFINE r == [EmptyReply EXCEPT !.status = "INVALID_MESSAGE"]
    <2>1. /\ r \in Reply /\ Plain(r, "none") /\ r.status = "INVALID_MESSAGE"
      BY ReplyTypes DEF Reply, EmptyReply, Plain, Status
    <2>2. Answer(r) /\ UNCHANGED <<server, computer, history>>
          /\ t # "get_run_status" /\ running # (t = "pause")
      BY <1>2 DEF InvalidMessage, Got
    <2> HIDE DEF r
    <2> QED
      BY <2>1, <2>2 DEF ServedWith, RefusedWith, Plain
  <1>3. CASE GetRunStatus
    <2> DEFINE r == RunStatusReply(event_queue, running, last_pc)
    <2>1. r \in Reply /\ r.which = "run_status" /\ r.status = run_status
          /\ r.running = running /\ r.pc = last_pc /\ r.events = event_queue
      BY <1>1, RunReply
    <2>2. Answer(r) /\ t = "get_run_status"
          /\ event_queue' = <<>> /\ run_status' = "OK"
          /\ ExecuteUserEvents(Head(rx).keys)
          /\ UNCHANGED <<breakpoints, last_pc, running, cpu_pc, out>>
      BY <1>3 DEF GetRunStatus, Got
    <2> HIDE DEF r
    <2> QED
      BY <2>1, <2>2 DEF ServedWith, PolledWith
  <1>4. CASE Pause
    <2> DEFINE r == ComputerStatus(event_queue, "OK", cpu_pc)
    <2>1. r \in Reply /\ r.which = "computer_status" /\ r.status = "OK"
          /\ r.pc = cpu_pc /\ FirstOf(r, event_queue)
      BY <1>1, StatusReply
    <2>2. Answer(r) /\ running /\ t = "pause"
          /\ event_queue' = <<>> /\ running' = FALSE
          /\ UNCHANGED <<breakpoints, last_pc, run_status, computer>>
      BY <1>4 DEF Pause, Got
    <2> HIDE DEF r
    <2> QED
      BY <2>1, <2>2 DEF ServedWith, PausedWith
  <1>5. CASE Reset
    <2>0. PICK q \in Seq(Nat) : q = <<>>
      <3>1. <<>> \in Seq(Nat)
        OBVIOUS
      <3> QED
        BY <3>1
    <2> DEFINE r == ComputerStatus(q, "OK", 0)
    <2>1. 0 \in Addr /\ "OK" \in Status
      BY AddrFacts DEF Status
    <2>2. r \in Reply /\ r.which = "computer_status" /\ r.status = "OK"
          /\ r.pc = 0 /\ FirstOf(r, q)
      BY <2>1, StatusReply
    <2>3. Answer(r) /\ ~ running /\ t = "reset"
          /\ cpu_pc' = 0 /\ event_queue' = <<>>
          /\ UNCHANGED <<breakpoints, last_pc, running, run_status, out, input>>
      BY <1>5, <2>0 DEF Reset, Got
    <2> HIDE DEF r
    <2>4. r.events = <<>>
      <3>1. r.events \in Seq(Nat) /\ Len(r.events) <= 0
        BY <2>2, <2>0 DEF Reply, FirstOf, Begins
      <3> QED
        BY <3>1
    <2> QED
      BY <2>2, <2>3, <2>4 DEF ServedWith, ResetWith, Plain
  <1>6. ASSUME NEW p \in Addr, NEW n \in Bursts, NEW s \in CpuStatus, Step(p, n, s)
        PROVE  \E r \in Reply : Answer(r) /\ r.which # "debug" /\ ServedWith(r)
    <2> DEFINE r == ComputerStatus(Pushed(event_queue, n), s, p)
    <2>1. r \in Reply /\ r.which = "computer_status"
          /\ r.pc = p /\ FirstOf(r, Pushed(event_queue, n))
      BY <1>1, BurstPushed, StatusReply
    <2>2. Answer(r) /\ ~ running /\ t = "step" /\ cpu_pc' = p /\ out' = out + n
          /\ event_queue' = <<>>
          /\ ExecuteUserEvents(Head(rx).keys)
          /\ UNCHANGED <<breakpoints, last_pc, running, run_status>>
      BY <1>6 DEF Step, Got
    <2> HIDE DEF r
    <2> QED
      BY <2>1, <2>2 DEF ServedWith, SteppedWith
  <1>7. CASE Run
    <2>1. EmptyReply \in Reply /\ Plain(EmptyReply, "none") /\ EmptyReply.status = "OK"
      BY ReplyTypes DEF EmptyReply, Plain
    <2>2. Answer(EmptyReply) /\ ~ running /\ t \in {"run", "run_forever"}
          /\ running' = TRUE
          /\ UNCHANGED <<breakpoints, last_pc, event_queue, run_status, computer>>
      BY <1>7 DEF Run, Got
    <2> QED
      BY <2>1, <2>2 DEF ServedWith, RunWith, Plain
  <1>8. ASSUME NEW p \in Addr, NextOver(p)
        PROVE  \E r \in Reply : Answer(r) /\ r.which # "debug" /\ ServedWith(r)
    <2> DEFINE r == RunStatusReply(event_queue, TRUE, last_pc)
    <2>1. r \in Reply /\ r.which = "run_status" /\ r.status = run_status
          /\ r.running = TRUE /\ r.events = event_queue
      <3>1. r \in Reply
        BY ReplyTypes DEF TypeOK
      <3> QED
        BY <3>1 DEF RunStatusReply, EmptyReply
    <2>2. Answer(r) /\ ~ running /\ t = "next"
          /\ event_queue' = <<>> /\ run_status' = "OK" /\ running' = TRUE
          /\ UNCHANGED <<breakpoints, last_pc, computer>>
      BY <1>8 DEF NextOver, Got
    <2> HIDE DEF r
    <2> QED
      BY <2>1, <2>2 DEF ServedWith, RunToReturnWith
  <1>9. ASSUME NEW p \in Addr, NEW n \in Bursts, NEW s \in CpuStatus, NextInto(p, n, s)
        PROVE  \E r \in Reply : Answer(r) /\ r.which # "debug" /\ ServedWith(r)
    <2> DEFINE r == RunStatusReply(Pushed(event_queue, n), FALSE, p)
    <2>1. r \in Reply /\ r.which = "run_status" /\ r.status = run_status
          /\ r.running = FALSE /\ r.pc = p /\ r.events = Pushed(event_queue, n)
      <3>1. Pushed(event_queue, n) \in Seq(Nat)
        BY BurstPushed
      <3>2. r \in Reply
        BY <3>1, ReplyTypes DEF TypeOK
      <3> QED
        BY <3>2 DEF RunStatusReply, EmptyReply
    <2>2. Answer(r) /\ ~ running /\ t = "next"
          /\ cpu_pc' = p /\ last_pc' = p /\ out' = out + n
          /\ event_queue' = <<>> /\ run_status' = "OK"
          /\ UNCHANGED <<breakpoints, running, input>>
      BY <1>9 DEF NextInto, Got
    <2> HIDE DEF r
    <2> QED
      BY <2>1, <2>2 DEF ServedWith, NextWith
  <1>10. ASSUME NEW p \in Addr, Cycle(p)
         PROVE  \E r \in Reply : Answer(r) /\ r.which # "debug" /\ ServedWith(r)
    <2>1. PICK s \in {"OK", "METHOD_NOT_IMPLEMENTED"} :
             /\ s # "OK" => p = cpu_pc
             /\ Answer([EmptyReply EXCEPT !.which = "cycle_response", !.pc = p,
                                          !.status = s])
      BY <1>10 DEF Cycle
    <2> DEFINE r == [EmptyReply EXCEPT !.which = "cycle_response", !.pc = p,
                                       !.status = s]
    <2>2. r \in Reply /\ Plain(r, "cycle_response") /\ r.pc = p /\ r.status = s
      BY ReplyTypes DEF Reply, ReplyType, EmptyReply, Plain, Status
    <2>3. ~ running /\ t = "cycle" /\ cpu_pc' = p /\ UNCHANGED <<server, out, input>>
      BY <1>10 DEF Cycle, Got
    <2> HIDE DEF r
    <2> QED
      BY <2>1, <2>2, <2>3 DEF ServedWith, CycledWith, Plain, r
  <1>11. ASSUME NEW p \in Addr, Interrupt(p)
         PROVE  \E r \in Reply : Answer(r) /\ r.which # "debug" /\ ServedWith(r)
    <2>1. PICK s \in {"OK", "METHOD_NOT_IMPLEMENTED"} :
             /\ s # "OK" => p = cpu_pc
             /\ Answer([EmptyReply EXCEPT !.status = s])
      BY <1>11 DEF Interrupt
    <2> DEFINE r == [EmptyReply EXCEPT !.status = s]
    <2>2. r \in Reply /\ Plain(r, "none") /\ r.status = s
      BY ReplyTypes DEF Reply, EmptyReply, Plain, Status
    <2>3. ~ running /\ t = "interrupt" /\ cpu_pc' = p
          /\ UNCHANGED <<server, out, input>>
      BY <1>11 DEF Interrupt, Got
    <2> HIDE DEF r
    <2> QED
      BY <2>1, <2>2, <2>3 DEF ServedWith, InterruptedWith, Plain, r
  <1>12. CASE Ack
    <2> DEFINE r == [EmptyReply EXCEPT !.which = "ack_response"]
    <2>1. r \in Reply /\ Plain(r, "ack_response") /\ r.status = "OK"
      BY ReplyTypes DEF Reply, ReplyType, EmptyReply, Plain
    <2>2. Answer(r) /\ ~ running /\ t = "ack" /\ UNCHANGED <<server, computer>>
      BY <1>12 DEF Ack, Got
    <2> HIDE DEF r
    <2> QED
      BY <2>1, <2>2 DEF ServedWith, MemoryWith, Plain
  <1>13. CASE ReadMemory
    <2> DEFINE r == [EmptyReply EXCEPT !.which = "read_memory_response"]
    <2>1. r \in Reply /\ Plain(r, "read_memory_response") /\ r.status = "OK"
      BY ReplyTypes DEF Reply, ReplyType, EmptyReply, Plain
    <2>2. Answer(r) /\ ~ running /\ t = "read_memory" /\ UNCHANGED <<server, computer>>
      BY <1>13 DEF ReadMemory, Got
    <2> HIDE DEF r
    <2> QED
      BY <2>1, <2>2 DEF ServedWith, MemoryWith, Plain
  <1>14. ASSUME NEW w \in BOOLEAN, WriteMemory(w)
         PROVE  \E r \in Reply : Answer(r) /\ r.which # "debug" /\ ServedWith(r)
    <2>1. PICK s \in {"OK", "ERR_WRITING_MEMORY"} :
             Answer([EmptyReply EXCEPT !.which = "write_memory_response", !.status = s])
      <3>1. CASE w
        BY <1>14, <3>1 DEF WriteMemory
      <3>2. CASE ~ w
        BY <1>14, <3>2 DEF WriteMemory
      <3> QED
        BY <3>1, <3>2
    <2> DEFINE r == [EmptyReply EXCEPT !.which = "write_memory_response", !.status = s]
    <2>2. r \in Reply /\ Plain(r, "write_memory_response") /\ r.status = s
      BY ReplyTypes DEF Reply, ReplyType, EmptyReply, Plain, Status
    <2>3. ~ running /\ t = "write_memory" /\ UNCHANGED <<server, computer>>
      BY <1>14 DEF WriteMemory, Got
    <2> HIDE DEF r
    <2> QED
      BY <2>1, <2>2, <2>3 DEF ServedWith, MemoryWith, Plain, r
  <1>15. ASSUME NEW table \in [Slots -> Addr], NEW s \in Status,
                t \in {"bkp_add", "bkp_remove", "bkp_clear"}, ~ running,
                AnswerTable(table, s), s # "OK" => table = breakpoints,
                t = "bkp_clear" => s = "OK" /\ Listed(table) = {}
         PROVE  \E r \in Reply : Answer(r) /\ r.which # "debug" /\ ServedWith(r)
    <2> DEFINE r == [EmptyReply EXCEPT !.which = "breakpoint_list",
                        !.status = s, !.list = Listed(table)]
    <2>1. Listed(table) \in SUBSET Addr
      BY DEF Listed
    <2>2. r \in Reply /\ Plain(r, "breakpoint_list") /\ r.status = s
          /\ r.list = Listed(table)
      BY <2>1, ReplyTypes DEF Reply, ReplyType, EmptyReply, Plain
    <2>3. Answer(r) /\ breakpoints' = table
          /\ UNCHANGED <<last_pc, event_queue, running, run_status, computer>>
      BY <1>15 DEF AnswerTable
    <2> HIDE DEF r
    <2>4. Listed(breakpoints') = Listed(table)
      BY <2>3
    <2>5. ListedWith(r)
      BY <1>15, <2>2, <2>3, <2>4 DEF ListedWith
    <2> QED
      BY <2>2, <2>3, <2>5 DEF ServedWith, Plain
  <1>16. /\ breakpoints \in [Slots -> Addr] /\ breakpoints' \in [Slots -> Addr]
    BY TypeHandle DEF TypeOK
  <1>17. CASE BreakpointAdd
    <2>1. ~ running /\ t = "bkp_add"
          /\ \/ AnswerTable(breakpoints, "TOO_MANY_BREAKPOINTS")
             \/ AnswerTable(breakpoints', "OK")
      BY <1>17 DEF BreakpointAdd, Got, AnswerTable
    <2> QED
      BY <1>1, <1>15, <1>16, <2>1 DEF Status
  <1>18. CASE BreakpointRemove
    <2>1. ~ running /\ t = "bkp_remove" /\ AnswerTable(breakpoints', "OK")
      BY <1>18 DEF BreakpointRemove, Got, AnswerTable
    <2> QED
      BY <1>1, <1>15, <1>16, <2>1
  <1>19. CASE BreakpointClearAll
    <2> DEFINE empty == [i \in Slots |-> NO_BREAKPOINT]
    <2>1. ~ running /\ t = "bkp_clear" /\ AnswerTable(empty, "OK")
      BY <1>19 DEF BreakpointClearAll, Got
    <2>2. empty \in [Slots -> Addr] /\ Listed(empty) = {}
      BY AddrFacts DEF Listed
    <2> HIDE DEF empty
    <2> QED
      BY <1>1, <1>15, <2>1, <2>2
  <1> QED
    BY <1>2, <1>3, <1>4, <1>5, <1>6, <1>7, <1>8, <1>9, <1>10, <1>11, <1>12,
       <1>13, <1>14, <1>17, <1>18, <1>19 DEF Handle

-----------------------------------------------------------------------------
(* Requests and replies alternate *)

\* What the server does between two requests: it moves on alone.
ServerAlone ==
    /\ \/ Enter \/ RunEnds \/ ReceiveNothing
       \/ \E p \in Addr, n \in Bursts : RunStep(p, n)
    /\ UNCHANGED uiVars

LEMMA ServerAloneLine ==
    ASSUME ServerAlone
    PROVE  UNCHANGED <<rx, tx, uiVars>> /\ Replies' = Replies
  <1>1. UNCHANGED <<rx, tx>>
    BY DEF ServerAlone, Enter, RunEnds, ReceiveNothing, RunStep, RunStepFails,
       RunStepReachesNext, RunStepReachesBreakpoint, RunStepGoesOn
  <1> QED
    BY <1>1 DEF ServerAlone, Replies

LEMMA UiUnchanged ==
    ASSUME UNCHANGED uiVars
    PROVE  UNCHANGED <<at, call, connected, started, upload_, reads, running_,
                       breakpoints_, pc_, registers_, updated, popup, keys,
                       next_tx, shown, typed, discarded, ignored, displaced,
                       cause, orphan, edits, restarts, matches>>
  BY DEF uiVars, frame, model, past

\* The steps of a session, sorted by what they do to the line.
LEMMA SessionSteps ==
    ASSUME SessionTypes, [SessionNext]_vars
    PROVE  \/ ServerAlone
           \/ ReceiveUndecodable /\ UNCHANGED uiVars
           \/ RunForever /\ Handle /\ UNCHANGED uiVars
           \/ /\ Handle /\ UNCHANGED uiVars
              /\ \E r \in Reply : Answer(r) /\ r.which # "debug" /\ ServedWith(r)
           \/ Debug /\ UNCHANGED uiVars
           \/ DebuggerSide
           \/ UNCHANGED vars
  <1>1. CASE Handle /\ UNCHANGED uiVars
    BY <1>1, Served DEF SessionTypes
  <1> QED
    BY <1>1 DEF SessionNext, ServerNext, ServerAlone, DebuggerSide

LEMMA InStepNext ==
    ASSUME SessionTypes, InStep, [SessionNext]_vars
    PROVE  InStep'
  <1> USE DEF SessionTypes
  <1>1. SUFFICES ASSUME ~ orphan' PROVE (Idle \/ (at = "wait" /\ (Asked \/ Answered)))'
    BY DEF InStep
  <1>2. orphan => orphan'
    <2>1. CASE UNCHANGED uiVars
      BY <2>1, UiUnchanged
    <2>2. CASE DebuggerSide
      BY <2>2, DebuggerLine DEF Sends, Continues, Finishes, ReceiveDebug,
         Idles, Edit, RunsAgain, Restart, past, GoesOn
    <2> QED
      BY <2>1, <2>2, SessionSteps DEF ServerAlone, vars
  <1>3. ~ orphan /\ (Idle \/ (at = "wait" /\ (Asked \/ Answered)))
    BY <1>1, <1>2 DEF InStep
  <1>4. CASE ServerAlone
    BY <1>3, <1>4, ServerAloneLine, UiUnchanged DEF Idle, Asked, Answered
  <1>5. CASE (ReceiveUndecodable \/ RunForever) /\ UNCHANGED uiVars
    <2>1. rx # <<>> /\ rx' = Tail(rx) /\ tx' = tx
      BY <1>5 DEF ReceiveUndecodable, RunForever, Got
    <2>2. Asked /\ at' = at
      BY <1>3, <1>5, <2>1, UiUnchanged DEF Idle, Answered
    <2>3. rx' = <<>>
      BY <2>1, <2>2 DEF Asked, TypeOK
    <2>4. Replies' = {}
      BY <2>1, <2>2 DEF Asked, Replies
    <2> QED
      BY <2>3, <2>4 DEF Idle
  <1>6. CASE /\ Handle /\ UNCHANGED uiVars
             /\ \E r \in Reply : Answer(r) /\ r.which # "debug" /\ ServedWith(r)
    <2>1. rx # <<>> /\ rx' = Tail(rx) /\ at' = at
      BY <1>6, Handlers, UiUnchanged
    <2>2. Asked /\ at = "wait"
      BY <1>3, <2>1 DEF Idle, Answered
    <2> QED
      BY <1>6, <2>1, <2>2, LineAnswered
  <1>7. CASE Debug /\ UNCHANGED uiVars
    BY <1>3, <1>7, LineDebug, UiUnchanged
  <1>8. CASE Sends
    <2>1. Idle /\ at' = "wait"
      BY <1>3, <1>8 DEF Sends
    <2>2. PICK q \in Request : rx' = Append(rx, q) /\ tx' \in {tx, <<>>}
      BY <1>8 DEF Sends
    <2> QED
      BY <2>1, <2>2, LineSent
  <1>9. CASE Continues
    <2>1. tx # <<>> /\ tx' = Tail(tx) /\ Head(tx).which # "debug"
      BY <1>9, AcceptsNoDebug DEF Continues, Returns, SessionTypeOK, Calling
    <2>2. rx = <<>> /\ Replies' = {}
      BY <1>3, <2>1, LineRead
    <2>3. rx' = <<Ask(RequestOf[call'])>> /\ at' = "wait"
      BY <1>9, <2>2 DEF Continues
    <2> QED
      BY <2>2, <2>3 DEF Asked
  <1>10. CASE Finishes
    BY <1>3, <1>10, LineRead DEF Finishes, Idle
  <1>11. CASE ReceiveDebug
    <2>1. tx # <<>> /\ tx' = Tail(tx) /\ Head(tx).which = "debug"
          /\ UNCHANGED <<rx, at>>
      BY <1>11 DEF ReceiveDebug, frame
    <2> QED
      BY <1>3, <2>1, LineListened
  <1>12. CASE Idles
    BY <1>3, <1>12 DEF Idles, Idle, Replies
  <1>13. CASE Edit
    BY <1>3, <1>13 DEF Edit, Line, frame, Idle, Asked, Answered, Replies
  <1>14. CASE RunsAgain
    <2>1. at # "wait"
      BY <1>1, <1>14 DEF RunsAgain, Restart
    <2> QED
      BY <1>3, <1>14, <2>1 DEF RunsAgain, Idle, Replies
  <1>15. CASE UNCHANGED vars
    BY <1>3, <1>15 DEF vars, uiVars, frame, serverVars, Idle, Asked, Answered, Replies
  <1> QED
    BY <1>4, <1>5, <1>6, <1>7, <1>8, <1>9, <1>10, <1>11, <1>12, <1>13, <1>14,
       <1>15, SessionSteps, DebuggerLine

\* The line never holds more than one request or reply of a debugger that was
\* not killed in a call, so no call reads the reply of another one; debug
\* frames, refusals, undecodable requests and restarts included.
THEOREM CallsAlternate == SessionSpec => []LockStep
  <1> DEFINE Inv == SessionTypes /\ InStep
  <1>1. SessionInit => Inv
    BY SessionTypesInit DEF SessionInit, Init, InStep, Idle, Replies
  <1>2. Inv /\ [SessionNext]_vars => Inv'
    BY SessionTypesNext, InStepNext
  <1>3. Inv => LockStep
    <2> SUFFICES ASSUME Inv, ~ orphan
                 PROVE  /\ Len(rx) + Cardinality(Replies) <= 1
                        /\ at # "wait" => rx = <<>> /\ Replies = {}
      BY DEF LockStep
    <2>1. CASE Idle
      BY <2>1, FS_EmptySet DEF Idle
    <2>2. CASE at = "wait" /\ Asked
      BY <2>2, FS_EmptySet DEF Asked
    <2>3. CASE at = "wait" /\ Answered
      <3>1. PICK k \in 1 .. Len(tx) : Replies = {k}
        BY <2>3 DEF Answered
      <3> QED
        <4>1. Cardinality(Replies) = 1 /\ rx = <<>>
          BY <2>3, <3>1, FS_Singleton DEF Answered
        <4> QED
          BY <2>3, <4>1
    <2> QED
      BY <2>1, <2>2, <2>3 DEF InStep
  <1> QED
    BY <1>1, <1>2, <1>3, PTL DEF SessionSpec

-----------------------------------------------------------------------------
(* How a debugger ends *)

\* The request on the line is the one of the call that waits, and only the
\* texts of the user can make a request impossible to decode.
Matched ==
    ~ orphan /\ rx # <<>> =>
        /\ at = "wait" /\ Head(rx).type = RequestOf[call]
        /\ call \notin {"poll", "step"} => Head(rx).longest = 0

\* A debugger that was ever killed in a call stays an orphan.
LEMMA OrphanStays ==
    ASSUME SessionTypes, [SessionNext]_vars
    PROVE  orphan => orphan'
  <1>1. CASE UNCHANGED uiVars
    BY <1>1, UiUnchanged
  <1>2. CASE DebuggerSide
    BY <1>2, DebuggerLine DEF SessionTypes, Sends, Continues, Finishes,
       ReceiveDebug, Idles, Edit, RunsAgain, Restart, past, GoesOn
  <1> QED
    BY <1>1, <1>2, SessionSteps DEF ServerAlone, vars

\* The one request is taken off the line.
LEMMA LineTaken ==
    ASSUME SessionTypes, InStep, ~ orphan, rx # <<>>, rx' = Tail(rx)
    PROVE  at = "wait" /\ Asked /\ rx' = <<>>
  <1>1. at = "wait" /\ Asked
    BY DEF InStep, Idle, Answered
  <1> QED
    BY <1>1 DEF Asked, SessionTypes, TypeOK

\* The reply that a call of the debugger reads.
LEMMA LineReplied ==
    ASSUME SessionTypes, InStep, ~ orphan,
           Continues \/ Finishes
    PROVE  /\ at = "wait" /\ rx = <<>>
           /\ 1 \in Replies /\ Head(tx) = tx[1] /\ Replies' = {}
           /\ Head(tx).which # "debug"
  <1>1. at = "wait" /\ tx # <<>> /\ tx' = Tail(tx) /\ Head(tx).which # "debug"
    BY AcceptsNoDebug
       DEF Continues, Finishes, Returns, SessionTypes, SessionTypeOK, Calling
  <1> QED
    BY <1>1, LineRead DEF InStep, SessionTypes

LEMMA MatchedNext ==
    ASSUME SessionTypes, InStep, Matched, [SessionNext]_vars
    PROVE  Matched'
  <1>1. SUFFICES ASSUME ~ orphan', rx' # <<>>
                 PROVE  /\ at' = "wait" /\ Head(rx').type = RequestOf[call']
                        /\ call' \notin {"poll", "step"} => Head(rx').longest = 0
    BY DEF Matched
  <1>2. ~ orphan
    BY <1>1, OrphanStays
  <1>3. ~ (rx # <<>> /\ rx' = Tail(rx))
    BY <1>1, <1>2, LineTaken
  <1>4. CASE UNCHANGED <<rx, at, call>>
    BY <1>1, <1>2, <1>4 DEF Matched
  <1>5. ASSUME NEW q, Idle, rx' = Append(rx, q)
        PROVE  Head(rx') = q
    BY <1>5 DEF Idle
  <1>6. CASE Sends
    <2>1. Idle
      BY <1>2, <1>6 DEF Sends, InStep
    <2> QED
      BY <1>5, <1>6, <2>1 DEF Sends
  <1>7. CASE Continues
    <2>1. rx = <<>>
      BY <1>2, <1>7, LineReplied
    <2>2. Head(rx') = Ask(RequestOf[call']) /\ at' = "wait"
      BY <1>7, <2>1 DEF Continues
    <2> QED
      BY <2>2 DEF Ask
  <1>8. CASE Finishes
    BY <1>1, <1>2, <1>8, LineReplied DEF Finishes
  <1>9. CASE RunsAgain
    <2>1. at # "wait" /\ rx' = rx
      BY <1>1, <1>9 DEF RunsAgain, Restart
    <2> QED
      BY <1>1, <1>2, <2>1 DEF Matched
  <1>10. CASE Idles
    BY <1>1, <1>2, <1>10 DEF Idles, Matched
  <1>11. CASE ReceiveDebug \/ Edit
    BY <1>4, <1>11 DEF ReceiveDebug, Edit, Line, frame
  <1>12. CASE ~ DebuggerSide
    <2>1. ReceiveUndecodable \/ RunForever => rx # <<>> /\ rx' = Tail(rx)
      BY DEF ReceiveUndecodable, RunForever, Got
    <2>2. Debug => rx' = rx
      BY DEF Debug
    <2> QED
      BY <1>3, <1>4, <1>12, <2>1, <2>2, SessionSteps, Handlers, ServerAloneLine,
         UiUnchanged DEF vars, serverVars, uiVars, frame
  <1> QED
    BY <1>6, <1>7, <1>8, <1>9, <1>10, <1>11, <1>12, DebuggerLine DEF SessionTypes

\* The request is taken off the line and answered.
LEMMA LineServed ==
    ASSUME SessionTypes, InStep, Matched, ~ orphan, Handle,
           NEW r \in Reply, Answer(r), r.which # "debug"
    PROVE  /\ at = "wait" /\ Asked /\ Head(rx).type = RequestOf[call]
           /\ Replies' # {} /\ \A i \in Replies' : tx'[i] = r
  <1>1. rx # <<>> /\ rx' = Tail(rx)
    BY Handlers
  <1>2. at = "wait" /\ Asked /\ Head(rx).type = RequestOf[call]
    BY <1>1, LineTaken DEF Matched
  <1> QED
    BY <1>1, <1>2, LineAnswered DEF SessionTypes

\* The request is taken off the line and never answered.
LEMMA LineLost ==
    ASSUME SessionTypes, InStep, ~ orphan, ReceiveUndecodable \/ RunForever
    PROVE  /\ Replies = {} /\ Replies' = {}
           /\ UNCHANGED <<server, computer>>
  <1>1. rx # <<>> /\ rx' = Tail(rx) /\ tx' = tx
    BY DEF ReceiveUndecodable, RunForever, Got
  <1>2. Replies = {}
    BY <1>1, LineTaken DEF Asked
  <1> QED
    BY <1>1, <1>2 DEF Replies, ReceiveUndecodable, RunForever

\* The calls that poll and pause are made of a computer shown running, those
\* of the disabled buttons only of one shown paused.
PauseCalls == {"run", "run_forever", "cycle", "page", "bkp_add", "bkp_remove",
               "bkp_clear"}

LEMMA CallsMade ==
    ASSUME SessionTypes, DebuggerSide, Sends
    PROVE  /\ call' \in {"poll", "pause"} => running_
           /\ call' \in PauseCalls => ~ running_
           /\ call' = "upload" => upload_ > 0
           /\ call' = "ack" => ~ connected
           /\ call' = "init_reset" => updated /\ UNCHANGED <<edits, connected>>
           /\ call' \notin {"ack", "upload", "poll", "init_reset"} => started
  <1>1. at # "wait" /\ at' = "wait"
    BY DEF Sends
  <1>2. CASE UploadStep
    BY <1>1, <1>2 DEF UploadStep, Send0, Send, PauseCalls, SessionTypes, SessionTypeOK
  <1>3. CASE PollStep
    BY <1>3 DEF PollStep, Send, PauseCalls
  <1>7. CASE WatchEmpty
    BY <1>7 DEF WatchEmpty, BeginsSession, past, PauseCalls
  <1>4. CASE Connect \/ Command \/ ChangePage \/ Step_ \/ ToggleBreakpoint
             \/ ClearBreakpoints
    BY <1>4 DEF Connect, Command, ChangePage, Step_, ToggleBreakpoint,
       ClearBreakpoints, Key, Button, Send0, Send, PauseCalls
  <1>5. ~ UploadUndefined /\ ~ OpenKeypress /\ ~ CancelKeypress /\ ~ ClearNextTx /\ ~ PollSkipped
        /\ ~ WatchStep /\ ~ Keypress /\ ~ EndFrame /\ ~ Edit /\ ~ Restart
    BY <1>1 DEF UploadUndefined, OpenKeypress, CancelKeypress, ClearNextTx, PollSkipped, WatchStep,
       Keypress, EndFrame, Edit, Restart, frame
  <1>6. ~ ReceiveDebug /\ ~ Throws /\ ~ UploadReturns /\ ~ InitMismatch
        /\ ~ InitReset /\ ~ InitRead
        /\ ~ PollReturns /\ ~ CommandReturns
    BY <1>1 DEF ReceiveDebug, Throws, UploadReturns, InitMismatch, InitReset, InitRead,
       PollReturns, CommandReturns, Acknowledged, AcknowledgedEmpty, ResetReturns, StepReturns,
       PauseReturns, RunReturns, NextReturns, BreakpointReturns, PageReturns,
       CycleReturns, InterruptReturns, Returns
  <1> QED
    BY <1>2, <1>3, <1>4, <1>5, <1>6, <1>7 DEF DebuggerSide, Debugger, Update, UserCommand

\* What ends the debugger: a call of update that throws, a compilation that
\* fails, a ROM that is gone while it is uploaded, other registers.
LEMMA Terminations ==
    ASSUME DebuggerSide, at' = "terminated"
    PROVE  \/ Throws /\ call \in UpdateCalls /\ cause' = <<call, Head(tx).status>>
           \/ WatchStep /\ updated /\ cause' = <<"compile", "OK">>
           \/ UploadUndefined
           \/ InitMismatch
  <1>1. CASE Update
    BY <1>1 DEF Update, UploadStep, Send0, Send, UploadReturns, BeginsSession, InitReset,
       InitRead, PollStep, PollSkipped, PollReturns, WatchStep, WatchEmpty, Returns, frame
  <1>2. CASE CommandReturns
    BY <1>2 DEF CommandReturns, Acknowledged, AcknowledgedEmpty, BeginsSession,
       ResetReturns, StepReturns,
       PauseReturns, RunReturns, NextReturns, BreakpointReturns, PageReturns,
       CycleReturns, InterruptReturns, EndsCommand, Returns, frame
  <1>3. CASE UserCommand
    BY <1>3 DEF UserCommand, Connect, Command, ChangePage, Step_, ToggleBreakpoint,
       ClearBreakpoints, OpenKeypress, CancelKeypress, ClearNextTx, Send0, Send
  <1>4. CASE ReceiveDebug \/ Throws \/ Keypress \/ EndFrame \/ Edit \/ Restart
    BY <1>4 DEF ReceiveDebug, Throws, Keypress, EndFrame, Edit, Restart, frame
  <1> QED
    BY <1>1, <1>2, <1>3, <1>4 DEF DebuggerSide, Debugger

\* Only a recompilation, of a session that is connected, sets updated or takes
\* the binaries away.
Edited ==
    /\ updated => connected /\ edits > 0
    /\ upload_ = Gone => edits > 0

LEMMA EditedNext ==
    ASSUME SessionTypes, Edited, [SessionNext]_vars
    PROVE  Edited'
  <1> USE DEF Edited
  <1>1. SessionTypeOK /\ Calling /\ edits \in Nat
    BY DEF SessionTypes, SessionTypeOK
  <1>2. CASE UNCHANGED uiVars
    BY <1>2, UiUnchanged
  <1>3. CASE Restart
    BY <1>3 DEF Restart, Gone
  <1>4. CASE Edit
    BY <1>1, <1>4 DEF Edit
  <1>5. CASE UNCHANGED <<updated, upload_, edits>> /\ (connected => connected')
    BY <1>5
  <1>6. CASE UploadReturns
    <2>1. upload_ - 1 # Gone
      BY <1>1, <1>6 DEF UploadReturns, Returns, SessionTypeOK, Calling, Gone
    <2> QED
      BY <1>6, <2>1 DEF UploadReturns, past
  <1>7. CASE WatchStep \/ WatchEmpty \/ Acknowledged
    BY <1>7, SessionAssumption DEF WatchStep, WatchEmpty, Acknowledged, past, Gone
  <1>8. CASE Update
    BY <1>5, <1>6, <1>7, <1>8 DEF Update, UploadStep, UploadUndefined, InitMismatch,
       InitReset, InitRead, PollStep, PollSkipped, PollReturns, model, past
  <1>9. CASE CommandReturns
    BY <1>5, <1>7, <1>9 DEF CommandReturns, AcknowledgedEmpty, ResetReturns, StepReturns,
       PauseReturns, RunReturns, NextReturns, BreakpointReturns, PageReturns,
       CycleReturns, InterruptReturns, model, past
  <1>10. CASE UserCommand
    BY <1>5, <1>10 DEF UserCommand, Connect, Command, ChangePage, Step_, ToggleBreakpoint,
       ClearBreakpoints, OpenKeypress, CancelKeypress, ClearNextTx, model, past
  <1>11. CASE ReceiveDebug \/ Throws \/ Keypress \/ EndFrame
    BY <1>5, <1>11 DEF ReceiveDebug, Throws, Keypress, EndFrame, model, past
  <1> QED
    BY <1>2, <1>3, <1>4, <1>5, <1>8, <1>9, <1>10, <1>11, SessionSteps
       DEF DebuggerSide, Debugger, ServerAlone, vars

\* While the session is set up the computer does not run, unless a recompilation
\* has no binaries: then its reset may find a running computer, which refuses it.
Endings ==
    ~ orphan =>
        /\ call = "init_reset" /\ (edits = 0 \/ ~ connected) => ~ running
        /\ call = "init_read" => ~ running
        /\ call = "ack" => \A i \in Replies : tx[i].status = "OK" => ~ running
        /\ call = "init_reset" => \A i \in Replies :
             IF tx[i].status = "OK" THEN ~ running /\ Accepts(call, tx[i])
             ELSE tx[i].status = "INVALID_MESSAGE" /\ edits > 0 /\ connected
        /\ call = "init_read" => \A i \in Replies : Accepts(call, tx[i])
        /\ call = "upload" => \A i \in Replies :
             IF tx[i].status = "OK" THEN ~ running /\ Accepts(call, tx[i])
             ELSE tx[i].status \in {"INVALID_MESSAGE", "ERR_WRITING_MEMORY"}
        /\ call = "poll" => \A i \in Replies :
             tx[i].which = "run_status" /\ tx[i].status \in CpuStatus
        /\ KnownEndings

LEMMA ServedEndings ==
    ASSUME SessionTypes, ~ orphan, Endings, at = "wait",
           Head(rx).type = RequestOf[call], NEW r \in Reply, ServedWith(r)
    PROVE  /\ ~ running /\ call \in {"init_reset", "init_read"} => ~ running'
           /\ call = "ack" => (r.status = "OK" => ~ running')
           /\ call = "init_reset" =>
                IF r.status = "OK" THEN ~ running' /\ Accepts(call, r)
                ELSE r.status = "INVALID_MESSAGE" /\ running
           /\ call = "init_read" => Accepts(call, r)
           /\ call = "upload" =>
                IF r.status = "OK" THEN ~ running' /\ Accepts(call, r)
                ELSE r.status \in {"INVALID_MESSAGE", "ERR_WRITING_MEMORY"}
           /\ call = "poll" => r.which = "run_status" /\ r.status \in CpuStatus
  <1>1. CASE call = "init_reset"
    <2>1. Head(rx).type = "reset"
      BY <1>1 DEF RequestOf
    <2>2. ResetWith(r) \/ RefusedWith(r)
      BY <2>1 DEF ServedWith, PolledWith, PausedWith, SteppedWith,
         RunWith, RunToReturnWith, NextWith, CycledWith, InterruptedWith,
         MemoryWith, ListedWith
    <2>3. CASE ResetWith(r)
      BY <1>1, <2>1, <2>3 DEF ResetWith, Plain, Accepts, ExpectedOf
    <2>4. CASE RefusedWith(r)
      BY <1>1, <2>1, <2>4 DEF RefusedWith, server, SessionTypes, TypeOK
    <2> QED
      BY <2>2, <2>3, <2>4
  <1>2. CASE call = "init_read"
    <2>1. Head(rx).type = "read_memory" /\ running = FALSE
      BY <1>2 DEF RequestOf, Endings, SessionTypes, TypeOK
    <2>2. MemoryWith(r)
      BY <2>1 DEF ServedWith, RefusedWith, PolledWith, PausedWith, SteppedWith,
         RunWith, RunToReturnWith, NextWith, CycledWith, InterruptedWith,
         ResetWith, ListedWith
    <2> QED
      BY <1>2, <2>1, <2>2 DEF MemoryWith, Plain, Accepts, ExpectedOf, server
  <1>3. CASE call = "upload"
    <2>1. Head(rx).type = "write_memory"
      BY <1>3 DEF RequestOf
    <2>2. MemoryWith(r) \/ RefusedWith(r)
      BY <2>1 DEF ServedWith, PolledWith, PausedWith, SteppedWith,
         RunWith, RunToReturnWith, NextWith, CycledWith, InterruptedWith,
         ResetWith, ListedWith
    <2> QED
      BY <1>3, <2>1, <2>2 DEF MemoryWith, RefusedWith, Plain, Accepts, ExpectedOf,
         server
  <1>4. CASE call = "poll"
    <2>1. Head(rx).type = "get_run_status"
      BY <1>4 DEF RequestOf
    <2>2. PolledWith(r)
      BY <2>1 DEF ServedWith, RefusedWith, PausedWith, SteppedWith,
         RunWith, RunToReturnWith, NextWith, CycledWith, InterruptedWith,
         ResetWith, MemoryWith, ListedWith
    <2> QED
      BY <1>4, <2>2 DEF PolledWith, SessionTypes, TypeOK
  <1>5. CASE call = "ack"
    <2>1. Head(rx).type = "ack"
      BY <1>5 DEF RequestOf
    <2>2. MemoryWith(r) \/ RefusedWith(r)
      BY <2>1 DEF ServedWith, PolledWith, PausedWith, SteppedWith,
         RunWith, RunToReturnWith, NextWith, CycledWith, InterruptedWith,
         ResetWith, ListedWith
    <2> QED
      BY <1>5, <2>1, <2>2 DEF MemoryWith, RefusedWith, server
  <1> QED
    BY <1>1, <1>2, <1>3, <1>4, <1>5

LEMMA EndingsNext ==
    ASSUME SessionTypes, InStep, Matched, Edited, Endings, [SessionNext]_vars
    PROVE  Endings'
  <1>1. SUFFICES ASSUME ~ orphan' PROVE Endings'
    BY DEF Endings
  <1>2. ~ orphan /\ (Idle \/ (at = "wait" /\ (Asked \/ Answered))) /\ edits \in Nat
    BY <1>1, OrphanStays DEF InStep, SessionTypes, SessionTypeOK
  <1>3. CASE /\ UNCHANGED <<at, call, cause, connected, matches>>
             /\ edits' = edits \/ edits' = edits + 1
             /\ ~ running => ~ running'
             /\ \A i \in Replies' : \E j \in Replies : tx'[i] = tx[j]
    <2>1. edits' = 0 => edits = 0
      BY <1>2, <1>3
    <2>2. edits > 0 => edits' > 0
      BY <1>2, <1>3
    <2> QED
      BY <1>2, <1>3, <2>1, <2>2 DEF Endings, KnownEndings
  <1>4. CASE ServerAlone
    <2>1. ~ running => ~ running'
      BY <1>4 DEF ServerAlone, Enter, RunEnds, ReceiveNothing, RunStep, RunStepFails,
         RunStepReachesNext, RunStepReachesBreakpoint, RunStepGoesOn, server
    <2> QED
      BY <1>3, <1>4, <2>1, ServerAloneLine, UiUnchanged
  <1>5. CASE (ReceiveUndecodable \/ RunForever \/ Debug) /\ UNCHANGED uiVars
    <2>1. running' = running
      BY <1>5 DEF ReceiveUndecodable, RunForever, Debug, server
    <2>2. Replies' = Replies /\ \A i \in Replies : tx'[i] = tx[i]
      BY <1>5, LineDebug DEF ReceiveUndecodable, RunForever, Replies, SessionTypes
    <2> QED
      BY <1>3, <1>5, <2>1, <2>2, UiUnchanged
  <1>6. CASE /\ Handle /\ UNCHANGED uiVars
             /\ \E r \in Reply : Answer(r) /\ r.which # "debug" /\ ServedWith(r)
    <2>1. PICK r \in Reply : Answer(r) /\ r.which # "debug" /\ ServedWith(r)
      BY <1>6
    <2>2. /\ at = "wait" /\ Head(rx).type = RequestOf[call]
          /\ \A i \in Replies' : tx'[i] = r
      BY <1>2, <1>6, <2>1, LineServed
    <2>3. UNCHANGED <<at, call, cause, orphan, connected, matches, edits>>
      BY <1>6, UiUnchanged
    <2>4. /\ ~ running /\ call \in {"init_reset", "init_read"} => ~ running'
          /\ call = "ack" => (r.status = "OK" => ~ running')
          /\ call = "init_reset" =>
                IF r.status = "OK" THEN ~ running' /\ Accepts(call, r)
                ELSE r.status = "INVALID_MESSAGE" /\ running
          /\ call = "init_read" => Accepts(call, r)
          /\ call = "upload" =>
                IF r.status = "OK" THEN ~ running' /\ Accepts(call, r)
                ELSE r.status \in {"INVALID_MESSAGE", "ERR_WRITING_MEMORY"}
          /\ call = "poll" => r.which = "run_status" /\ r.status \in CpuStatus
      BY <1>2, <2>1, <2>2, ServedEndings
    <2>5. call = "init_reset" /\ running => edits > 0 /\ connected
      BY <1>2 DEF Endings
    <2>6. KnownEndings'
      BY <1>2, <2>3 DEF Endings, KnownEndings
    <2> QED
      BY <1>2, <2>2, <2>3, <2>4, <2>5, <2>6 DEF Endings
  <1>14. CASE UNCHANGED vars
    BY <1>3, <1>14 DEF vars, uiVars, frame, model, past, serverVars, Replies
  <1>16. SUFFICES ASSUME DebuggerSide PROVE Endings'
    BY <1>4, <1>5, <1>6, <1>14, SessionSteps
  <1>15. DebuggerSide /\ UNCHANGED serverSide
    BY <1>16, DebuggerLine DEF SessionTypes
  <1>7. CASE Sends
    <2>1. Replies' = {} /\ at' # "terminated" /\ call' # "init_read"
      BY <1>2, <1>7 DEF Sends, Idle, Replies
    <2>2. call' = "init_reset" => edits' > 0 /\ connected'
      <3> SUFFICES ASSUME call' = "init_reset" PROVE edits' > 0 /\ connected'
        OBVIOUS
      <3>1. updated /\ UNCHANGED <<edits, connected>>
        BY <1>7, <1>15, CallsMade
      <3> QED
        BY <3>1 DEF Edited
    <2> QED
      BY <2>1, <2>2 DEF Endings, KnownEndings
  <1>8. CASE Continues
    <2>1. Replies' = {} /\ 1 \in Replies /\ Head(tx) = tx[1]
      BY <1>2, <1>8, LineReplied
    <2>2. Accepts(call, Head(tx)) /\ at' = "wait" /\ running' = running
      BY <1>8, <1>15 DEF Continues, Returns, serverSide, server
    <2>3. call \in {"ack", "upload", "init_reset", "init_read"} => ~ running
      <3>1. Head(tx).status = "OK"
        BY <2>2 DEF Accepts
      <3> QED
        BY <1>2, <2>1, <3>1 DEF Endings
    <2> QED
      BY <1>8, <2>1, <2>2, <2>3 DEF Continues, Endings, KnownEndings
  <1>9. CASE Finishes
    <2>1. call' = "none" /\ 1 \in Replies /\ Head(tx) = tx[1] /\ at = "wait"
          /\ ~ WatchStep /\ ~ UploadUndefined /\ UNCHANGED <<edits, matches>>
      BY <1>2, <1>9, LineReplied DEF Finishes, WatchStep, UploadUndefined, GoesOn
    <2>2. CASE InitMismatch /\ at' = "terminated"
      BY <2>1, <2>2 DEF InitMismatch, Endings, KnownEndings
    <2>3. ASSUME at' = "terminated", Throws
          PROVE  \/ cause' \in {<<"poll", "CPU_INVALID_INSTRUCTION">>,
                               <<"upload", "INVALID_MESSAGE">>,
                               <<"upload", "ERR_WRITING_MEMORY">>}
                 \/ edits > 0 /\ cause' = <<"init_reset", "INVALID_MESSAGE">>
      <3>1. /\ call \in UpdateCalls /\ cause' = <<call, tx[1].status>>
            /\ ~ Accepts(call, tx[1])
        BY <2>1, <2>3 DEF Throws
      <3>2. CASE call = "poll"
        <4>1. tx[1].status = "CPU_INVALID_INSTRUCTION"
          BY <1>2, <2>1, <3>1, <3>2 DEF Endings, Accepts, CpuStatus, ExpectedOf
        <4> QED
          BY <3>1, <3>2, <4>1
      <3>3. CASE call = "upload"
        BY <1>2, <2>1, <3>1, <3>3 DEF Endings
      <3>4. CASE call \in InitCalls
        BY <1>2, <2>1, <3>1, <3>4 DEF Endings, InitCalls
      <3> QED
        BY <3>1, <3>2, <3>3, <3>4 DEF UpdateCalls
    <2>4. at' = "terminated" => Throws \/ InitMismatch
      BY <1>15, <2>1, Terminations
    <2> QED
      BY <2>1, <2>2, <2>3, <2>4 DEF Endings, KnownEndings
  <1>10. CASE Idles
    <2>1. call' = "none" /\ ~ Throws /\ ~ InitMismatch /\ UNCHANGED <<edits, matches>>
      BY <1>10 DEF Idles, Throws, InitMismatch, Returns, GoesOn, SessionTypes, Calling
    <2>2. at' = "terminated" =>
             /\ edits > 0
             /\ cause' \in {<<"compile", "OK">>, <<"upload", "UNDEFINED">>}
      BY <1>15, <2>1, Terminations DEF UploadUndefined, Edited
    <2> QED
      BY <2>1, <2>2 DEF Endings, KnownEndings
  <1>11. CASE ReceiveDebug
    <2>1. tx # <<>> /\ tx' = Tail(tx) /\ Head(tx).which = "debug" /\ rx' = rx
          /\ UNCHANGED <<at, call, cause, connected, matches, edits, running>>
      BY <1>11 DEF ReceiveDebug, frame, model, past, serverSide, server
    <2>2. \A i \in Replies' : i + 1 \in Replies /\ tx'[i] = tx[i + 1]
      BY <1>2, <2>1, LineListened DEF SessionTypes
    <2> QED
      BY <1>3, <2>1, <2>2
  <1>12. CASE Edit
    BY <1>3, <1>12 DEF Edit, Line, frame, serverSide, server, Replies
  <1>13. CASE RunsAgain
    BY <1>13 DEF RunsAgain, Restart, Endings, KnownEndings
  <1> QED
    BY <1>7, <1>8, <1>9, <1>10, <1>11, <1>12, <1>13, <1>15, DebuggerLine
       DEF SessionTypes

\* Only a CPU error, an upload the server refuses or cannot write, registers that
\* are not those of the machine definition and what a recompilation may do end the
\* debugger, in every interleaving of the user's commands with a computer that
\* stops, and over restarts between two calls.
THEOREM EndingsAreKnown == SessionSpec => []KnownEndings
  <1> DEFINE Inv == SessionTypes /\ InStep /\ Matched /\ Edited /\ Endings
  <1>1. SessionInit => Inv
    <2> SUFFICES ASSUME SessionInit PROVE Inv
      OBVIOUS
    <2>1. rx = <<>> /\ tx = <<>> /\ at = "draw" /\ call = "none" /\ Replies = {}
      BY DEF SessionInit, Init, Replies
    <2> QED
      BY <2>1, SessionTypesInit
         DEF SessionInit, InStep, Idle, Matched, Edited, Endings, KnownEndings, Gone
  <1>2. Inv /\ [SessionNext]_vars => Inv'
    BY SessionTypesNext, InStepNext, MatchedNext, EditedNext, EndingsNext
  <1>3. Inv => KnownEndings
    BY DEF Endings, KnownEndings
  <1> QED
    BY <1>1, <1>2, <1>3, PTL DEF SessionSpec

-----------------------------------------------------------------------------
(* What a reply makes of the debugger's state *)

\* The value a variable will have once reply r to call c has been read.
RunningAfter(was, c, r) ==
    IF ~ Accepts(c, r) THEN was
    ELSE \/ c \in {"run", "run_forever"}
         \/ c = "poll" /\ r.running
         \/ c = "next" /\ (r.running \/ was)
         \/ c \notin {"poll", "pause", "next"} /\ was

MarksAfter(was, c, r) ==
    IF Accepts(c, r) /\ c \in {"bkp_add", "bkp_remove"} THEN r.list ELSE was

BringsPc(c, r) ==
    /\ Accepts(c, r)
    /\ \/ c \in {"step", "reset", "pause", "poll"}
       \/ c = "init_reset" /\ matches
       \/ c = "next" /\ ~ r.running
       \/ c = "cycle" /\ r.pc # 0

PcAfter(was, c, r) == IF BringsPc(c, r) THEN r.pc ELSE was

DisplacedAfter(was, ru, c, r) ==
    IF ~ Accepts(c, r) THEN was \/ c = "step"
    ELSE \/ c \in {"step", "reset"} /\ ru
         \/ c = "cycle" /\ r.pc = 0
         \/ c = "interrupt"
         \/ /\ c \notin {"step", "reset", "pause", "run", "run_forever", "next", "cycle"}
            /\ c = "init_reset" => ~ matches
            /\ was

ShownAfter(was, c, r) ==
    IF Accepts(c, r) /\ c \in {"poll", "step"} THEN was \o r.events ELSE was

IgnoredAfter(was, ru, c, r) ==
    \/ was
    \/ ~ Accepts(c, r) /\ r.events # <<>>
    \/ /\ Accepts(c, r)
       /\ \/ c = "reset" /\ ru
          \/ c = "step" /\ ru /\ Len(r.events) = MaxEventsStep
          \/ c \in {"pause", "next"} /\ r.events # <<>>

After ==
    LET r == Head(tx) IN
    /\ running_' <=> RunningAfter(running_, call, r)
    /\ breakpoints_' = MarksAfter(breakpoints_, call, r)
    /\ pc_' = PcAfter(pc_, call, r)
    /\ displaced' <=> DisplacedAfter(displaced, running_, call, r)
    /\ shown' = ShownAfter(shown, call, r)
    /\ ignored' <=> IgnoredAfter(ignored, running_, call, r)

LEMMA Settled ==
    ASSUME SessionTypes, DebuggerSide, Finishes \/ Continues
    PROVE  After
  <1> USE DEF RunningAfter, MarksAfter, BringsPc, PcAfter, DisplacedAfter,
              ShownAfter, IgnoredAfter, After
  <1>1. at = "wait" /\ restarts' = restarts /\ edits' = edits
        /\ restarts' # restarts + 1 /\ edits' # edits + 1
    BY DEF Finishes, Continues, GoesOn, SessionTypes, SessionTypeOK
  <1>2. CASE UploadReturns \/ InitRead
    BY <1>2 DEF UploadReturns, InitRead, Returns, past
  <1>3. CASE InitReset \/ InitMismatch
    BY <1>3 DEF InitReset, InitMismatch, Returns
  <1>4. CASE PollReturns
    BY <1>4 DEF PollReturns, Returns, past
  <1>5. CASE Acknowledged \/ AcknowledgedEmpty \/ PageReturns
    BY <1>5 DEF Acknowledged, AcknowledgedEmpty, PageReturns, Returns, model, past
  <1>6. CASE ResetReturns
    BY <1>6 DEF ResetReturns, Returns
  <1>7. CASE StepReturns
    BY <1>7 DEF StepReturns, Returns
  <1>8. CASE PauseReturns
    BY <1>8 DEF PauseReturns, Returns
  <1>9. CASE RunReturns
    BY <1>9 DEF RunReturns, Returns
  <1>10. CASE NextReturns
    BY <1>10 DEF NextReturns, Returns
  <1>11. CASE BreakpointReturns
    BY <1>11 DEF BreakpointReturns, Returns, past
  <1>12. CASE CycleReturns
    BY <1>12 DEF CycleReturns, Returns
  <1>13. CASE InterruptReturns
    BY <1>13 DEF InterruptReturns, Returns, model
  <1>14. CASE Throws
    BY <1>14 DEF Throws, model
  <1>15. ~ UploadStep /\ ~ UploadUndefined /\ ~ PollStep /\ ~ PollSkipped
         /\ ~ WatchStep /\ ~ WatchEmpty /\ ~ Keypress /\ ~ EndFrame
         /\ ~ UserCommand /\ ~ Edit /\ ~ Restart
    BY <1>1 DEF UploadStep, UploadUndefined, PollStep, PollSkipped, WatchStep,
       WatchEmpty, Keypress, EndFrame, UserCommand, Connect, Command, ChangePage,
       Step_, ToggleBreakpoint, ClearBreakpoints, OpenKeypress, CancelKeypress,
       ClearNextTx, Key, Button,
       Edit, Restart
  <1>16. ~ ReceiveDebug
    BY AcceptsNoDebug DEF Finishes, Continues, Returns, ReceiveDebug, SessionTypes,
       SessionTypeOK, Calling
  <1> QED
    BY <1>2, <1>3, <1>4, <1>5, <1>6, <1>7, <1>8, <1>9, <1>10, <1>11, <1>12,
       <1>13, <1>14, <1>15, <1>16 DEF DebuggerSide, Debugger, Update, CommandReturns

\* Everything else leaves what the debugger shows as it is, but for "Clear
\* bkps", which forgets the marks first.
LEMMA Kept ==
    ASSUME SessionTypes, DebuggerSide, Sends \/ Idles \/ Edit \/ ReceiveDebug
    PROVE  /\ UNCHANGED <<running_, pc_, displaced, shown, ignored>>
           /\ IF Sends /\ call' = "bkp_clear" THEN breakpoints_' = {}
              ELSE breakpoints_' = breakpoints_
  <1>1. CASE Sends \/ Idles
    <2>1. at # "wait"
      BY <1>1 DEF Sends, Idles
    <2>2. ~ ReceiveDebug /\ ~ Throws /\ ~ UploadReturns /\ ~ InitMismatch /\ ~ InitReset
          /\ ~ InitRead /\ ~ PollReturns /\ ~ CommandReturns
      BY <2>1 DEF ReceiveDebug, Throws, UploadReturns, InitMismatch, InitReset, InitRead,
         PollReturns, CommandReturns, Acknowledged, AcknowledgedEmpty, ResetReturns, StepReturns,
         PauseReturns, RunReturns, NextReturns, BreakpointReturns, PageReturns,
         CycleReturns, InterruptReturns, Returns
    <2>3. ~ Restart /\ ~ Edit
      BY <1>1 DEF Sends, Idles, GoesOn, Restart, Edit, SessionTypes, SessionTypeOK
    <2>4. CASE UploadStep \/ PollSkipped
      <3>1. UNCHANGED <<model, past>>
        BY <2>4 DEF UploadStep, PollSkipped
      <3>2. ~ (Sends /\ call' = "bkp_clear")
        BY <2>4 DEF UploadStep, PollSkipped, Send0, Send, Sends
      <3> QED
        BY <3>1, <3>2 DEF model, past
    <2>5. CASE PollStep \/ WatchStep \/ Keypress \/ EndFrame
      BY <2>1, <2>5
         DEF PollStep, WatchStep, Keypress, EndFrame, Send, past, frame, Sends
    <2>7. CASE WatchEmpty \/ UploadUndefined
      BY <2>1, <2>7
         DEF WatchEmpty, BeginsSession, UploadUndefined, model, past, Sends
    <2>6. CASE UserCommand
      <3>1. CASE Connect \/ Command
        BY <3>1 DEF Connect, Command, Send0, Send, model, past
      <3>2. CASE ToggleBreakpoint
        BY <3>2 DEF ToggleBreakpoint, Send, model, past
      <3>3. CASE ChangePage \/ Step_
        BY <3>3 DEF ChangePage, Step_, Send0, Send, past
      <3>4. CASE ClearBreakpoints
        BY <3>4, Send0Line, CallFacts
           DEF ClearBreakpoints, Key, Button, Send0, Send, past, GoesOn
      <3>5. CASE OpenKeypress \/ CancelKeypress \/ ClearNextTx
        BY <3>5 DEF OpenKeypress, CancelKeypress, ClearNextTx, past, Sends
      <3> QED
        BY <2>6, <3>1, <3>2, <3>3, <3>4, <3>5 DEF UserCommand
    <2> QED
      BY <2>2, <2>3, <2>4, <2>5, <2>6, <2>7 DEF DebuggerSide, Debugger, Update
  <1>2. CASE Edit
    BY <1>2 DEF Edit, Sends, frame
  <1>3. CASE ReceiveDebug
    BY <1>3 DEF ReceiveDebug, model, past, frame, Sends
  <1> QED
    BY <1>1, <1>2, <1>3

-----------------------------------------------------------------------------
(* A computer shown paused is paused *)

\* The server's loop executes instructions of a running computer only.
RunsWhileRunning == pc = "run" => running

LEMMA RunsWhileRunningNext ==
    ASSUME RunsWhileRunning, [Next]_serverVars \/ Debug
    PROVE  RunsWhileRunning'
  <1>1. CASE Handle
    BY <1>1 DEF Handle, GetRunStatus, InvalidMessage, Pause, Ack, Reset, Run,
       RunForever, ReadMemory, BreakpointAdd, BreakpointRemove, BreakpointClearAll,
       AnswerTable, WriteMemory, Cycle, Interrupt, NextOver, Step, NextInto,
       Answer, RunsWhileRunning
  <1>2. CASE \E p \in Addr, n \in Bursts : RunStep(p, n)
    BY <1>2 DEF RunStep, RunStepFails, RunStepReachesNext,
       RunStepReachesBreakpoint, RunStepGoesOn, RunsWhileRunning
  <1>3. CASE \/ Enter \/ RunEnds \/ ReceiveNothing \/ ReceiveUndecodable
             \/ Debug \/ HostSends \/ HostReceives \/ UNCHANGED serverVars
    BY <1>3 DEF Enter, RunEnds, ReceiveNothing, ReceiveUndecodable, Debug,
       HostSends, HostReceives, serverVars, server, loop, RunsWhileRunning
  <1> QED
    BY <1>1, <1>2, <1>3 DEF Next, ServerNext

\* A debugger that shows, or will show, `shows` is right about a computer that
\* runs, and expects to be told of a failure.
RunningRight(shows, isRunning, status) ==
    /\ isRunning => shows
    /\ status # "OK" => shows
    /\ status = "OK" \/ ~ isRunning

\* What holds of a debugger that was never started again, in a call or not:
\* what it shows, or will show once the reply is read, agrees with the server.
Agreed ==
    restarts = 0 =>
        /\ ~ orphan
        /\ call \in {"poll", "pause"} => running_
        /\ call \in PauseCalls => ~ running_
        /\ call = "bkp_clear" => breakpoints_ = {}
        /\ Replies = {} =>
             /\ RunningRight(running_, running, run_status)
             /\ \/ breakpoints_ = Listed(breakpoints)
                \/ call = "bkp_clear" /\ rx # <<>>
        /\ \A i \in Replies :
             /\ RunningRight(RunningAfter(running_, call, tx[i]), running, run_status)
             /\ MarksAfter(breakpoints_, call, tx[i]) = Listed(breakpoints)

LEMMA CallsOf ==
    ASSUME NEW c \in Calls
    PROVE  /\ RequestOf[c] = "get_run_status" <=> c = "poll"
           /\ RequestOf[c] = "pause" <=> c = "pause"
           /\ RequestOf[c] = "reset" <=> c \in {"reset", "init_reset"}
           /\ RequestOf[c] = "step" <=> c = "step"
           /\ RequestOf[c] \in {"run", "run_forever"} <=> c \in {"run", "run_forever"}
           /\ RequestOf[c] = "next" <=> c = "next"
           /\ RequestOf[c] = "cycle" <=> c = "cycle"
           /\ RequestOf[c] = "interrupt" <=> c = "interrupt"
           /\ RequestOf[c] = "bkp_add" <=> c = "bkp_add"
           /\ RequestOf[c] = "bkp_remove" <=> c = "bkp_remove"
           /\ RequestOf[c] = "bkp_clear" <=> c = "bkp_clear"
           /\ RequestOf[c] = "ack" <=> c = "ack"
           /\ RequestOf[c] = "read_memory" <=> c \in {"init_read", "page"}
           /\ RequestOf[c] = "write_memory" <=> c = "upload"
  BY CallFacts DEF RequestOf

\* The server alone starts nothing; a computer that stops by itself was shown
\* running.
LEMMA AloneRight ==
    ASSUME RunsWhileRunning, ServerAlone, NEW shows,
           RunningRight(shows, running, run_status)
    PROVE  RunningRight(shows, running', run_status') /\ breakpoints' = breakpoints
  <1>1. CASE Enter \/ RunEnds \/ ReceiveNothing
    BY <1>1 DEF Enter, RunEnds, ReceiveNothing, server, RunningRight
  <1>2. CASE \E p \in Addr, n \in Bursts : RunStep(p, n)
    BY <1>2 DEF RunStep, RunStepFails, RunStepReachesNext,
       RunStepReachesBreakpoint, RunStepGoesOn, LoopGuard, RunsWhileRunning,
       RunningRight
  <1> QED
    BY <1>1, <1>2 DEF ServerAlone

LEMMA ServedRight ==
    ASSUME SessionTypes, at = "wait", Head(rx).type = RequestOf[call],
           call \in PauseCalls => ~ running_,
           RunningRight(running_, running, run_status), NEW r \in Reply, ServedWith(r)
    PROVE  RunningRight(RunningAfter(running_, call, r), running', run_status')
  <1>1. call \in Calls
    BY DEF SessionTypes, SessionTypeOK, Calling
  <1>2. \A c \in Calls : c \notin {"run", "run_forever", "poll", "pause", "next"} =>
           (RunningAfter(running_, c, r) <=> running_)
    BY DEF RunningAfter
  <1>3. CASE RefusedWith(r)
    <2>1. ~ Accepts(call, r)
      BY <1>3 DEF RefusedWith, Accepts
    <2> QED
      BY <1>3, <2>1 DEF RefusedWith, RunningAfter, RunningRight, server
  <1>4. CASE PolledWith(r)
    <2>1. call = "poll" /\ (Accepts(call, r) <=> run_status = "OK")
      BY <1>1, <1>4, CallsOf DEF PolledWith, Accepts, ExpectedOf
    <2> QED
      BY <1>4, <2>1 DEF PolledWith, RunningAfter, RunningRight
  <1>5. CASE PausedWith(r)
    BY <1>5 DEF PausedWith, RunningRight
  <1>6. CASE RunWith(r)
    <2>1. call \in {"run", "run_forever"} /\ Accepts(call, r)
      BY <1>1, <1>6, CallsOf DEF RunWith, Plain, Accepts, ExpectedOf
    <2>2. ~ running_
      BY <2>1 DEF PauseCalls
    <2> QED
      BY <1>6, <2>1, <2>2 DEF RunWith, RunningAfter, RunningRight
  <1>7. CASE RunToReturnWith(r) \/ NextWith(r)
    <2>1. call = "next" /\ (Accepts(call, r) <=> run_status = "OK")
      BY <1>1, <1>7, CallsOf DEF RunToReturnWith, NextWith, Accepts, ExpectedOf
    <2> QED
      BY <1>7, <2>1 DEF RunToReturnWith, NextWith, RunningAfter, RunningRight
  <1>8. CASE ResetWith(r) \/ SteppedWith(r)
    <2>1. call \in {"reset", "init_reset", "step"}
      BY <1>1, <1>8, CallsOf DEF ResetWith, SteppedWith
    <2> QED
      BY <1>1, <1>2, <1>8, <2>1 DEF ResetWith, SteppedWith, RunningRight
  <1>9. CASE CycledWith(r) \/ InterruptedWith(r) \/ MemoryWith(r) \/ ListedWith(r)
    <2>1. call \notin {"run", "run_forever", "poll", "pause", "next"}
      BY <1>9, CallsOf, <1>1
         DEF CycledWith, InterruptedWith, MemoryWith, ListedWith, RequestOf
    <2>2. UNCHANGED <<running, run_status>>
      BY <1>9 DEF CycledWith, InterruptedWith, MemoryWith, ListedWith, server
    <2> QED
      BY <1>1, <1>2, <2>1, <2>2 DEF RunningRight
  <1> QED
    BY <1>3, <1>4, <1>5, <1>6, <1>7, <1>8, <1>9 DEF ServedWith

\* The list of a reply is the table, and a refused request leaves the table.
LEMMA ServedMarks ==
    ASSUME SessionTypes, at = "wait", Head(rx).type = RequestOf[call],
           call = "bkp_clear" => breakpoints_ = {} /\ ~ running_,
           call # "bkp_clear" => breakpoints_ = Listed(breakpoints),
           RunningRight(running_, running, run_status), NEW r \in Reply, ServedWith(r)
    PROVE  MarksAfter(breakpoints_, call, r) = Listed(breakpoints')
  <1>1. call \in Calls
    BY DEF SessionTypes, SessionTypeOK, Calling
  <1>2. CASE ListedWith(r)
    <2>1. call \in {"bkp_add", "bkp_remove", "bkp_clear"}
      BY <1>1, <1>2, CallsOf DEF ListedWith
    <2>2. Accepts(call, r) <=> r.status = "OK"
      BY <1>2, <2>1 DEF ListedWith, Plain, Accepts, ExpectedOf
    <2>3. CASE call = "bkp_clear"
      BY <1>2, <2>3 DEF ListedWith, MarksAfter, RequestOf
    <2>4. CASE call # "bkp_clear" /\ r.status = "OK"
      BY <1>2, <2>1, <2>2, <2>4 DEF ListedWith, MarksAfter
    <2>5. CASE call # "bkp_clear" /\ r.status # "OK"
      BY <1>2, <2>2, <2>5 DEF ListedWith, MarksAfter
    <2> QED
      BY <2>3, <2>4, <2>5
  <1>3. CASE ~ ListedWith(r)
    <2>1. breakpoints' = breakpoints
      BY <1>3 DEF ServedWith, RefusedWith, PolledWith, PausedWith, ResetWith,
         SteppedWith, RunWith, RunToReturnWith, NextWith, CycledWith,
         InterruptedWith, MemoryWith, server
    <2>2. call # "bkp_clear"
      <3>1. SUFFICES ASSUME call = "bkp_clear" PROVE FALSE
        OBVIOUS
      <3>2. Head(rx).type = "bkp_clear" /\ running = FALSE
        BY <3>1 DEF RequestOf, RunningRight, SessionTypes, TypeOK
      <3> QED
        BY <1>3, <3>2 DEF ServedWith, RefusedWith, PolledWith, PausedWith, ResetWith,
           SteppedWith, RunWith, RunToReturnWith, NextWith, CycledWith,
           InterruptedWith, MemoryWith
    <2>3. ~ Accepts(call, r) \/ call \notin {"bkp_add", "bkp_remove"}
      <3>1. CASE RefusedWith(r)
        BY <3>1 DEF RefusedWith, Accepts
      <3>2. CASE ~ RefusedWith(r)
        <4>1. Head(rx).type \notin {"bkp_add", "bkp_remove"}
          BY <1>3, <3>2 DEF ServedWith, PolledWith, PausedWith, ResetWith,
             SteppedWith, RunWith, RunToReturnWith, NextWith, CycledWith,
             InterruptedWith, MemoryWith
        <4> QED
          BY <1>1, <4>1, CallsOf
      <3> QED
        BY <3>1, <3>2
    <2> QED
      BY <2>1, <2>2, <2>3 DEF MarksAfter
  <1> QED
    BY <1>2, <1>3

\* A request is lost only inside run_forever, or when it carries texts.
LEMMA LostCalls ==
    ASSUME SessionTypes, InStep, Matched, ~ orphan,
           ReceiveUndecodable \/ RunForever
    PROVE  call \in {"poll", "step", "run_forever"}
  <1>1. rx # <<>> /\ call \in Calls
    BY LineTaken DEF ReceiveUndecodable, RunForever, Got, SessionTypes,
       SessionTypeOK, Calling
  <1>2. CASE ReceiveUndecodable
    <2>1. Head(rx).longest # 0
      BY <1>2, SizesAssumption DEF ReceiveUndecodable, Decodable
    <2> QED
      BY <1>1, <2>1 DEF Matched
  <1>3. CASE RunForever
    BY <1>1, <1>3, CallFacts DEF RunForever, Got, Matched, RequestOf
  <1> QED
    BY <1>2, <1>3

LEMMA AgreedNext ==
    ASSUME SessionTypes, InStep, Matched, RunsWhileRunning, Agreed,
           [SessionNext]_vars
    PROVE  Agreed'
  <1>1. SUFFICES ASSUME restarts' = 0 PROVE Agreed'
    BY DEF Agreed
  <1>2. CASE ~ DebuggerSide
    <2>1. UNCHANGED <<at, call, orphan, restarts, running_, breakpoints_>>
      BY <1>2, UiUnchanged, SessionSteps DEF ServerAlone, vars
    <2>2. restarts = 0 /\ ~ orphan
          /\ (Idle \/ (at = "wait" /\ (Asked \/ Answered)))
      BY <1>1, <2>1 DEF Agreed, InStep
    <2>3. CASE ServerAlone
      <3>1. Replies' = Replies /\ UNCHANGED <<rx, tx>>
        BY <2>3, ServerAloneLine
      <3>2. breakpoints' = breakpoints /\ Listed(breakpoints') = Listed(breakpoints)
        BY <2>3, AloneRight, <2>2 DEF ServerAlone, Enter, RunEnds, ReceiveNothing,
           RunStep, RunStepFails, RunStepReachesNext, RunStepReachesBreakpoint,
           RunStepGoesOn, server
      <3>3. Replies = {} => RunningRight(running_, running', run_status')
        BY <2>2, <2>3, AloneRight DEF Agreed
      <3>4. \A i \in Replies :
              RunningRight(RunningAfter(running_, call, tx[i]), running', run_status')
        BY <2>2, <2>3, AloneRight DEF Agreed
      <3> QED
        BY <2>1, <2>2, <3>1, <3>2, <3>3, <3>4 DEF Agreed, RunningRight
    <2>4. CASE ReceiveUndecodable \/ RunForever
      <3>1. call \in {"poll", "step", "run_forever"}
        BY <2>2, <2>4, LostCalls
      <3>2. Replies = {} /\ Replies' = {} /\ UNCHANGED server
        BY <2>2, <2>4, LineLost
      <3> QED
        BY <2>1, <2>2, <3>1, <3>2 DEF Agreed, RunningRight, server
    <2>5. CASE Handle /\ \E r \in Reply : Answer(r) /\ r.which # "debug" /\ ServedWith(r)
      <3>1. PICK r \in Reply : Answer(r) /\ r.which # "debug" /\ ServedWith(r)
        BY <2>5
      <3>2. /\ at = "wait" /\ Asked /\ Head(rx).type = RequestOf[call]
            /\ Replies' # {} /\ \A i \in Replies' : tx'[i] = r
        BY <2>2, <2>5, <3>1, LineServed
      <3>3. RunningRight(running_, running, run_status)
            /\ (call \in PauseCalls => ~ running_)
            /\ (call = "bkp_clear" => breakpoints_ = {} /\ ~ running_)
            /\ (call # "bkp_clear" => breakpoints_ = Listed(breakpoints))
        BY <2>2, <3>2 DEF Agreed, Asked, PauseCalls
      <3>4. RunningRight(RunningAfter(running_, call, r), running', run_status')
        BY <3>1, <3>2, <3>3, ServedRight
      <3>5. MarksAfter(breakpoints_, call, r) = Listed(breakpoints')
        BY <3>1, <3>2, <3>3, ServedMarks
      <3> QED
        BY <2>1, <2>2, <3>2, <3>4, <3>5 DEF Agreed
    <2>6. CASE Debug \/ UNCHANGED vars
      <3>1. Replies' = Replies /\ rx' = rx /\ \A i \in Replies : tx'[i] = tx[i]
        BY <2>6, LineDebug DEF vars, serverVars, Replies, SessionTypes
      <3>2. UNCHANGED <<running, run_status, breakpoints>>
        BY <2>6 DEF Debug, vars, serverVars, server
      <3> QED
        BY <2>1, <2>2, <3>1, <3>2 DEF Agreed, RunningRight
    <2> QED
      BY <1>2, <2>3, <2>4, <2>5, <2>6, SessionSteps
  <1>3. CASE RunsAgain
    BY <1>1, <1>3 DEF RunsAgain, Restart, SessionTypes, SessionTypeOK
  <1>4. SUFFICES ASSUME DebuggerSide, ~ RunsAgain PROVE Agreed'
    BY <1>2, <1>3
  <1>5. /\ Sends \/ Continues \/ Finishes \/ ReceiveDebug \/ Idles \/ Edit
        /\ UNCHANGED <<running, run_status, breakpoints>>
    BY <1>4, DebuggerLine DEF SessionTypes, serverSide, server
  <1>6. restarts = 0 /\ ~ orphan /\ ~ orphan'
        /\ (Idle \/ (at = "wait" /\ (Asked \/ Answered)))
    BY <1>1, <1>5 DEF Sends, Continues, Finishes, ReceiveDebug, Idles, Edit, GoesOn,
       past, Agreed, InStep
  <1>7. CASE Sends
    <2>1. Idle /\ call = "none" /\ Replies = {}
      BY <1>6, <1>7 DEF Sends, Idle, SessionTypes, Calling
    <2>2. Replies' = {} /\ rx' # <<>>
      <3>1. PICK q \in Request : rx' = Append(rx, q) /\ tx' \in {tx, <<>>}
        BY <1>7 DEF Sends
      <3> QED
        BY <2>1, <3>1, LineSent DEF SessionTypes, Asked
    <2>3. running_' = running_ /\ (call' # "bkp_clear" => breakpoints_' = breakpoints_)
          /\ (call' = "bkp_clear" => breakpoints_' = {})
      BY <1>4, <1>7, Kept
    <2>4. /\ call' \in {"poll", "pause"} => running_
          /\ call' \in PauseCalls => ~ running_
      BY <1>4, <1>7, CallsMade
    <2> QED
      BY <1>5, <1>6, <2>1, <2>2, <2>3, <2>4 DEF Agreed, RunningRight
  <1>8. CASE Continues \/ Finishes
    <2>1. at = "wait" /\ 1 \in Replies /\ Head(tx) = tx[1] /\ Replies' = {}
      BY <1>6, <1>8, LineReplied
    <2>2. /\ RunningRight(RunningAfter(running_, call, Head(tx)), running, run_status)
          /\ MarksAfter(breakpoints_, call, Head(tx)) = Listed(breakpoints)
      BY <1>6, <2>1 DEF Agreed
    <2>3. After
      BY <1>4, <1>8, Settled
    <2>4. RunningRight(running_', running', run_status')
          /\ breakpoints_' = Listed(breakpoints')
      BY <1>5, <2>2, <2>3 DEF After, RunningRight
    <2>5. \/ call' \in {"none", "init_reset", "init_read"}
          \/ call' = "page" /\ ~ running_ /\ call = "page"
      BY <1>6, <1>8 DEF Continues, Finishes, Agreed, PauseCalls
    <2>6. call' = "page" => ~ running_'
      BY <2>3, <2>5 DEF After, RunningAfter
    <2> QED
      BY <1>6, <2>1, <2>4, <2>5, <2>6 DEF Agreed, PauseCalls
  <1>9. CASE ReceiveDebug \/ Idles \/ Edit
    <2>1. UNCHANGED <<running_, breakpoints_, call, rx>>
      BY <1>4, <1>9, Kept
         DEF ReceiveDebug, Idles, Edit, Line, frame, Sends
    <2>2. /\ Replies = {} <=> Replies' = {}
          /\ \A i \in Replies' : \E j \in Replies : tx'[i] = tx[j]
      <3>1. CASE ReceiveDebug
        BY <1>6, <3>1, LineListened DEF ReceiveDebug, SessionTypes
      <3>2. CASE Idles \/ Edit
        BY <3>2 DEF Idles, Edit, Line, Replies
      <3> QED
        BY <1>9, <3>1, <3>2
    <2> QED
      BY <1>5, <1>6, <2>1, <2>2 DEF Agreed, RunningRight
  <1> QED
    BY <1>5, <1>7, <1>8, <1>9

-----------------------------------------------------------------------------
(* The invariant of a session that was never started again *)

Agreement == SessionTypes /\ InStep /\ Matched /\ RunsWhileRunning /\ Agreed

LEMMA AgreementHolds == SessionSpec => []Agreement
  <1>1. SessionInit => Agreement
    <2> SUFFICES ASSUME SessionInit PROVE Agreement
      OBVIOUS
    <2>1. rx = <<>> /\ tx = <<>> /\ at = "draw" /\ call = "none" /\ Replies = {}
      BY DEF SessionInit, Init, Replies
    <2>2. breakpoints_ = {} /\ Listed(breakpoints) = {} /\ pc # "run"
          /\ running = FALSE /\ run_status = "OK" /\ ~ orphan
      BY DEF SessionInit, Init, Listed
    <2> QED
      BY <2>1, <2>2, SessionTypesInit DEF Agreement, InStep, Idle, Matched,
         RunsWhileRunning, Agreed, RunningRight, PauseCalls
  <1>2. Agreement /\ [SessionNext]_vars => Agreement'
    <2> SUFFICES ASSUME Agreement, [SessionNext]_vars PROVE Agreement'
      OBVIOUS
    <2>1. RunsWhileRunning'
      <3>1. CASE DebuggerSide
        BY <3>1, DebuggerLine DEF Agreement, SessionTypes, RunsWhileRunning,
           serverSide, server, loop
      <3>2. CASE ~ DebuggerSide
        BY <3>2, RunsWhileRunningNext
           DEF Agreement, SessionNext, DebuggerSide, Next, vars
      <3> QED
        BY <3>1, <3>2
    <2> QED
      BY <2>1, SessionTypesNext, InStepNext, MatchedNext, AgreedNext DEF Agreement
  <1> QED
    BY <1>1, <1>2, PTL DEF SessionSpec

\* A debugger that was not started again never shows, outside a call, a
\* running computer as paused.
THEOREM PausedMeansPaused == SessionSpec => []RunningAgrees
  <1>1. Agreement => RunningAgrees
    BY DEF Agreement, Agreed, InStep, Idle, RunningAgrees, RunningRight
  <1> QED
    BY <1>1, AgreementHolds, PTL

\* Outside a call the marked lines are those of the server's table.
THEOREM MarksMatchTheTable == SessionSpec => []BreakpointsAgree
  <1>1. Agreement => BreakpointsAgree
    BY DEF Agreement, Agreed, InStep, Idle, BreakpointsAgree
  <1> QED
    BY <1>1, AgreementHolds, PTL

-----------------------------------------------------------------------------
(* A session as the user begins it *)

\* The debugger was not started again and no source was edited meanwhile.
Undisturbed == restarts = 0 /\ edits = 0

\* The calls made before the session has started.
SetUp == {"ack", "upload", "init_reset", "init_read"}

\* A session that is undisturbed after a step was so before.
LEMMA StillUndisturbed ==
    ASSUME SessionTypes, [SessionNext]_vars, Undisturbed'
    PROVE  Undisturbed /\ ~ Edit /\ ~ Restart
  <1>1. restarts' = 0 /\ edits' = 0 /\ restarts \in Nat /\ edits \in Nat
    BY DEF Undisturbed, SessionTypes, SessionTypeOK
  <1>2. ~ Edit /\ ~ Restart
    BY <1>1 DEF Edit, Restart
  <1>3. CASE DebuggerSide
    <2>1. GoesOn \/ UNCHANGED past
      BY <1>2, <1>3, DebuggerLine DEF SessionTypes, Sends, Continues, Finishes,
         ReceiveDebug, Idles, RunsAgain
    <2> QED
      BY <1>1, <1>2, <2>1 DEF Undisturbed, GoesOn, past
  <1>4. CASE ~ DebuggerSide
    BY <1>1, <1>2, <1>4, SessionSteps, UiUnchanged DEF ServerAlone, vars, Undisturbed
  <1> QED
    BY <1>3, <1>4

\* Connecting, uploading and initialising happen once, in this order.
Orderly ==
    Undisturbed =>
        /\ ~ updated
        /\ started => connected /\ upload_ = 0 /\ call \notin SetUp
        /\ call = "ack" => ~ connected
        /\ call = "upload" => connected
        /\ ~ connected \/ call \in {"init_reset", "init_read"} => upload_ = 0
        /\ upload_ # Gone
        /\ started \/ call = "init_read" => matches
        /\ call \notin SetUp \cup {"none"} => started
        /\ running_ => started

LEMMA OrderlyNext ==
    ASSUME SessionTypes, Orderly, [SessionNext]_vars
    PROVE  Orderly'
  <1>1. SUFFICES ASSUME Undisturbed' PROVE Orderly'
    BY DEF Orderly
  <1>2. CASE ~ DebuggerSide
    <2>1. UNCHANGED uiVars
      BY <1>2, SessionSteps DEF ServerAlone, vars
    <2> QED
      BY <2>1, UiUnchanged DEF Orderly, Undisturbed
  <1>3. Undisturbed /\ ~ Edit /\ ~ Restart
    BY <1>1, StillUndisturbed
  <1>4. SUFFICES ASSUME DebuggerSide, Undisturbed, ~ Edit, ~ Restart PROVE Orderly'
    BY <1>2, <1>3
  <1>5. CASE UNCHANGED <<call, connected, started, upload_, running_, updated, matches>>
    BY <1>4, <1>5 DEF Orderly, Undisturbed
  <1>6. /\ call \in Calls \cup {"none"} /\ upload_ \in 0 .. ChunkCount \cup {Gone}
        /\ ChunkCount \in Nat \ {0} /\ connected \in BOOLEAN
    BY SessionAssumption DEF SessionTypes, SessionTypeOK
  <1>7. CASE Update
    <2>1. CASE UploadStep
      BY <1>4, <1>6, <2>1, CallFacts
         DEF UploadStep, Send0, Send, Orderly, model, past, SetUp, Gone
    <2>2. CASE UploadReturns
      BY <1>4, <1>6, <2>2, CallFacts
         DEF UploadReturns, BeginsSession, Returns, Orderly, SetUp, SessionTypes,
         Calling, past, Gone
    <2>3. CASE InitReset \/ InitRead
      BY <1>4, <1>6, <2>3, CallFacts
         DEF InitReset, InitRead, Returns, Orderly, SetUp, frame, past, Gone
    <2>4. CASE PollStep \/ PollSkipped \/ PollReturns
      BY <1>4, <1>6, <2>4, CallFacts
         DEF PollStep, PollSkipped, PollReturns, Send, Returns, Orderly, SetUp, model, past
    <2>5. CASE WatchStep
      BY <1>4, <2>5 DEF WatchStep, Orderly
    <2>6. CASE InitMismatch
      BY <1>4, <1>6, <2>6, CallFacts DEF InitMismatch, Returns, Orderly, SetUp
    <2>7. ~ WatchEmpty /\ ~ UploadUndefined
      BY <1>4 DEF WatchEmpty, UploadUndefined, Orderly
    <2> QED
      BY <1>7, <2>1, <2>2, <2>3, <2>4, <2>5, <2>6, <2>7 DEF Update
  <1>8. CASE CommandReturns
    <2>1. CASE Acknowledged
      BY <1>4, <1>6, <2>1, CallFacts
         DEF Acknowledged, EndsCommand, Returns, Orderly, SetUp, past, Gone
    <2>2. CASE PageReturns
      BY <1>4, <1>6, <2>2, CallFacts
         DEF PageReturns, EndsCommand, Returns, Orderly, SetUp, frame, past
    <2>4. CASE AcknowledgedEmpty
      BY <1>4, <1>6, <2>4, CallFacts
         DEF AcknowledgedEmpty, BeginsSession, Returns, Orderly, SetUp, model, past
    <2>3. CASE CommandReturns /\ ~ Acknowledged /\ ~ PageReturns /\ ~ AcknowledgedEmpty
      <3>1. /\ call' = "none" /\ call \notin SetUp \cup {"none"}
            /\ UNCHANGED <<connected, started, upload_, updated, matches>>
        BY <2>3, CallFacts DEF CommandReturns, ResetReturns, StepReturns,
           PauseReturns, RunReturns, NextReturns, BreakpointReturns,
           CycleReturns, InterruptReturns, EndsCommand, Returns, model, past, SetUp
      <3> QED
        BY <1>4, <3>1 DEF Orderly, SetUp
    <2> QED
      BY <1>8, <2>1, <2>2, <2>3, <2>4
  <1>9. CASE UserCommand
    <2>1. CASE Connect
      BY <1>4, <1>6, <2>1, CallFacts DEF Connect, Orderly, SetUp, model, past
    <2>2. CASE Command \/ ChangePage \/ Step_ \/ ToggleBreakpoint \/ ClearBreakpoints
      BY <1>4, <1>6, <2>2, CallFacts DEF Command, ChangePage, Step_, ToggleBreakpoint,
         ClearBreakpoints, Key, Button, Send0, Send, Orderly, SetUp, model, past
    <2>3. CASE OpenKeypress \/ CancelKeypress \/ ClearNextTx
      BY <1>5, <2>3 DEF OpenKeypress, CancelKeypress, ClearNextTx, past
    <2> QED
      BY <1>9, <2>1, <2>2, <2>3 DEF UserCommand
  <1>10. CASE ReceiveDebug \/ Keypress \/ EndFrame
    BY <1>5, <1>10 DEF ReceiveDebug, Keypress, EndFrame, frame, model, past
  <1>11. CASE Throws
    BY <1>4, <1>6, <1>11, CallFacts DEF Throws, InitCalls, Orderly, SetUp
  <1> QED
    BY <1>4, <1>7, <1>8, <1>9, <1>10, <1>11 DEF DebuggerSide, Debugger

-----------------------------------------------------------------------------
(* The highlighted line *)

\* With pc p shown, running shown as ru and d for displaced: the shown pc of a
\* paused computer is the computer's, and the poll that will learn of a stop
\* will bring the right one.
PcRight(p, ru, d, isRunning, last, cpu) ==
    ~ d => /\ ~ ru => p = cpu
           /\ ru /\ ~ isRunning => last = cpu

PcFollows ==
    /\ Undisturbed /\ at # "terminated"
    /\ \/ started \/ call = "init_read"
       \/ call = "init_reset" /\ matches /\ Replies # {}
    => /\ Replies = {} =>
            PcRight(pc_, running_, displaced, running, last_pc, cpu_pc)
       /\ \A i \in Replies :
            PcRight(PcAfter(pc_, call, tx[i]), RunningAfter(running_, call, tx[i]),
                    DisplacedAfter(displaced, running_, call, tx[i]),
                    running, last_pc, cpu_pc)

LEMMA AlonePc ==
    ASSUME RunsWhileRunning, ServerAlone, NEW p, NEW ru, NEW d,
           RunningRight(ru, running, run_status),
           PcRight(p, ru, d, running, last_pc, cpu_pc)
    PROVE  PcRight(p, ru, d, running', last_pc', cpu_pc')
  <1>1. CASE Enter \/ RunEnds \/ ReceiveNothing
    BY <1>1 DEF Enter, RunEnds, ReceiveNothing, server, computer, PcRight
  <1>2. CASE \E a \in Addr, n \in Bursts : RunStep(a, n)
    <2>1. PICK a \in Addr, n \in Bursts : RunStep(a, n)
      BY <1>2
    <2>2. running /\ last_pc' = a /\ cpu_pc' = a
      BY <2>1 DEF RunStep, RunStepFails, RunStepReachesNext, Instruction,
         RunStepReachesBreakpoint, RunStepGoesOn, LoopGuard, RunsWhileRunning
    <2>3. ru
      BY <2>2 DEF RunningRight
    <2> QED
      BY <2>2, <2>3 DEF PcRight
  <1> QED
    BY <1>1, <1>2 DEF ServerAlone

LEMMA ServedPc ==
    ASSUME SessionTypes, at = "wait", Head(rx).type = RequestOf[call],
           call \in {"poll", "pause"} => running_,
           call \in PauseCalls => ~ running_,
           call = "init_reset" => ~ running /\ ~ running_ /\ matches,
           RunningRight(running_, running, run_status),
           call # "init_reset" =>
              PcRight(pc_, running_, displaced, running, last_pc, cpu_pc),
           NEW r \in Reply, ServedWith(r)
    PROVE  PcRight(PcAfter(pc_, call, r), RunningAfter(running_, call, r),
                   DisplacedAfter(displaced, running_, call, r),
                   running', last_pc', cpu_pc')
  <1>1. call \in Calls
    BY DEF SessionTypes, SessionTypeOK, Calling
  <1>2. CASE RefusedWith(r)
    <2>1. ~ Accepts(call, r)
      BY <1>2 DEF RefusedWith, Accepts
    <2>2. call # "init_reset"
      BY <1>2 DEF RefusedWith, RequestOf, SessionTypes, TypeOK
    <2>3. UNCHANGED <<running, last_pc, cpu_pc>>
      BY <1>2 DEF RefusedWith, server, computer
    <2> QED
      BY <2>1, <2>2, <2>3
         DEF PcRight, PcAfter, BringsPc, RunningAfter, DisplacedAfter
  <1>3. CASE PolledWith(r)
    <2>1. call = "poll" /\ (Accepts(call, r) <=> run_status = "OK")
      BY <1>1, <1>3, CallsOf DEF PolledWith, Accepts, ExpectedOf
    <2> QED
      BY <1>3, <2>1
         DEF PolledWith, PcRight, PcAfter, BringsPc, RunningAfter, DisplacedAfter
  <1>4. CASE PausedWith(r)
    <2>1. call = "pause" /\ Accepts(call, r)
      BY <1>1, <1>4, CallsOf DEF PausedWith, Accepts, ExpectedOf
    <2> QED
      BY <1>4, <2>1 DEF PausedWith, computer,
         PcRight, PcAfter, BringsPc, RunningAfter, DisplacedAfter
  <1>5. CASE ResetWith(r)
    <2>1. call \in {"reset", "init_reset"} /\ Accepts(call, r)
      BY <1>1, <1>5, CallsOf DEF ResetWith, Plain, Accepts, ExpectedOf
    <2> QED
      BY <1>5, <2>1
         DEF ResetWith, PcRight, PcAfter, BringsPc, RunningAfter, DisplacedAfter
  <1>6. CASE SteppedWith(r)
    <2>1. call = "step"
      BY <1>1, <1>6, CallsOf DEF SteppedWith
    <2>2. CASE Accepts(call, r)
      BY <1>6, <2>1, <2>2
         DEF SteppedWith, PcRight, PcAfter, BringsPc, RunningAfter, DisplacedAfter
    <2>3. CASE ~ Accepts(call, r)
      BY <2>1, <2>3 DEF PcRight, DisplacedAfter
    <2> QED
      BY <2>2, <2>3
  <1>7. CASE RunWith(r)
    <2>1. call \in {"run", "run_forever"} /\ Accepts(call, r)
      BY <1>1, <1>7, CallsOf DEF RunWith, Plain, Accepts, ExpectedOf
    <2> QED
      BY <1>7, <2>1 DEF RunWith, PcRight, RunningAfter
  <1>8. CASE RunToReturnWith(r)
    <2>1. call = "next" /\ (Accepts(call, r) <=> run_status = "OK")
      BY <1>1, <1>8, CallsOf DEF RunToReturnWith, Accepts, ExpectedOf
    <2>2. RunningAfter(running_, call, r) /\ running' = TRUE
      BY <1>8, <2>1 DEF RunToReturnWith, RunningAfter, RunningRight
    <2> QED
      BY <2>2 DEF PcRight
  <1>9. CASE NextWith(r)
    <2>1. call = "next" /\ (Accepts(call, r) <=> run_status = "OK")
      BY <1>1, <1>9, CallsOf DEF NextWith, Accepts, ExpectedOf
    <2>2. CASE Accepts(call, r)
      BY <1>9, <2>1, <2>2 DEF NextWith, PcRight, PcAfter, BringsPc
    <2>3. CASE ~ Accepts(call, r)
      <3>1. RunningAfter(running_, call, r)
        BY <2>1, <2>3 DEF RunningAfter, RunningRight
      <3> QED
        BY <1>9, <3>1 DEF NextWith, PcRight
    <2> QED
      BY <2>2, <2>3
  <1>10. CASE CycledWith(r)
    <2>1. call = "cycle" /\ (Accepts(call, r) <=> r.status = "OK") /\ ~ running_
          /\ ~ RunningAfter(running_, call, r)
      BY <1>1, <1>10, CallsOf
         DEF CycledWith, Plain, Accepts, ExpectedOf, PauseCalls, RunningAfter
    <2> QED
      BY <1>10, <2>1 DEF CycledWith, PcRight, PcAfter, BringsPc, DisplacedAfter
  <1>11. CASE InterruptedWith(r)
    <2>1. call = "interrupt" /\ (Accepts(call, r) <=> r.status = "OK")
      BY <1>1, <1>11, CallsOf DEF InterruptedWith, Plain, Accepts, ExpectedOf
    <2>2. CASE Accepts(call, r)
      BY <2>1, <2>2 DEF PcRight, DisplacedAfter
    <2>3. CASE ~ Accepts(call, r)
      BY <1>11, <2>1, <2>3 DEF InterruptedWith, server, PcRight, PcAfter, BringsPc,
         RunningAfter, DisplacedAfter
    <2> QED
      BY <2>2, <2>3
  <1>12. CASE MemoryWith(r) \/ ListedWith(r)
    <2>1. call \in {"ack", "init_read", "page", "upload", "bkp_add", "bkp_remove",
                    "bkp_clear"}
      BY <1>1, <1>12, CallsOf DEF MemoryWith, ListedWith
    <2>2. UNCHANGED <<running, last_pc, cpu_pc>>
      BY <1>12 DEF MemoryWith, ListedWith, server, computer
    <2> QED
      BY <2>1, <2>2 DEF PcRight, PcAfter, BringsPc, RunningAfter, DisplacedAfter
  <1> QED
    BY <1>2, <1>3, <1>4, <1>5, <1>6, <1>7, <1>8, <1>9, <1>10, <1>11, <1>12
       DEF ServedWith

\* Only the last read of init_debugging_session starts the session, and only a
\* restart leaves "terminated".
LEMMA StartsAndEnds ==
    ASSUME SessionTypes, DebuggerSide, ~ Restart
    PROVE  /\ started' => started \/ (call = "init_read" /\ at = "wait")
           /\ at = "terminated" => at' = "terminated"
  <1>1. CASE Update
    BY <1>1 DEF Update, UploadStep, UploadUndefined, Send0, Send, UploadReturns,
       InitMismatch, InitReset, InitRead,
       PollStep, PollSkipped, PollReturns, WatchStep, WatchEmpty, Returns, model
  <1>2. CASE CommandReturns
    BY <1>2 DEF CommandReturns, Acknowledged, AcknowledgedEmpty, ResetReturns, StepReturns,
       PauseReturns, RunReturns, NextReturns, BreakpointReturns, PageReturns,
       CycleReturns, InterruptReturns, Returns, model
  <1>3. CASE UserCommand
    BY <1>3 DEF UserCommand, Connect, Command, ChangePage, Step_, ToggleBreakpoint,
       ClearBreakpoints, OpenKeypress, CancelKeypress, ClearNextTx, Key, Button, model
  <1>4. CASE ReceiveDebug \/ Throws \/ Keypress \/ EndFrame \/ Edit
    BY <1>4 DEF ReceiveDebug, Throws, Keypress, EndFrame, Edit, model, frame
  <1> QED
    BY <1>1, <1>2, <1>3, <1>4 DEF DebuggerSide, Debugger

LEMMA PcFollowsNext ==
    ASSUME SessionTypes, InStep, Matched, Endings, RunsWhileRunning, Agreed,
           Orderly, PcFollows, [SessionNext]_vars
    PROVE  PcFollows'
  <1>1. SUFFICES ASSUME Undisturbed', at' # "terminated",
                        \/ started' \/ call' = "init_read"
                        \/ call' = "init_reset" /\ matches' /\ Replies' # {}
                 PROVE  PcFollows'
    BY DEF PcFollows
  <1>2. Undisturbed /\ ~ Edit /\ ~ Restart /\ restarts = 0 /\ ~ orphan
        /\ (Idle \/ (at = "wait" /\ (Asked \/ Answered)))
    BY <1>1, StillUndisturbed DEF Undisturbed, Agreed, InStep
  <1>3. CASE ~ DebuggerSide
    <2>1. UNCHANGED <<at, call, started, pc_, running_, displaced, matches>>
      BY <1>3, UiUnchanged, SessionSteps DEF ServerAlone, vars
    <2>2. CASE ServerAlone
      <3>1. Replies' = Replies /\ tx' = tx
        BY <2>2, ServerAloneLine
      <3>2. Replies = {} =>
              PcRight(pc_, running_, displaced, running', last_pc', cpu_pc')
        BY <1>1, <1>2, <2>1, <2>2, <3>1, AlonePc DEF Agreed, PcFollows
      <3>3. \A i \in Replies :
              PcRight(PcAfter(pc_, call, tx[i]), RunningAfter(running_, call, tx[i]),
                      DisplacedAfter(displaced, running_, call, tx[i]),
                      running', last_pc', cpu_pc')
        BY <1>1, <1>2, <2>1, <2>2, <3>1, AlonePc DEF Agreed, PcFollows
      <3>4. (Replies = {} =>
               PcRight(pc_, running_, displaced, running, last_pc, cpu_pc))'
        BY <2>1, <3>1, <3>2 DEF PcRight
      <3>5. ASSUME NEW i \in Replies'
            PROVE  PcRight(PcAfter(pc_, call, tx[i]), RunningAfter(running_, call, tx[i]),
                           DisplacedAfter(displaced, running_, call, tx[i]),
                           running, last_pc, cpu_pc)'
        <4>1. PcRight(PcAfter(pc_, call, tx[i]), RunningAfter(running_, call, tx[i]),
                      DisplacedAfter(displaced, running_, call, tx[i]),
                      running', last_pc', cpu_pc')
          BY <3>1, <3>3
        <4> QED
          BY <2>1, <3>1, <4>1 DEF PcRight, PcAfter, BringsPc, DisplacedAfter
      <3> QED
        BY <3>4, <3>5 DEF PcFollows
    <2>3. CASE ReceiveUndecodable \/ RunForever
      <3>1. Replies = {} /\ Replies' = {} /\ UNCHANGED <<server, computer>>
        BY <1>2, <2>3, LineLost
      <3> QED
        BY <1>1, <1>2, <2>1, <3>1 DEF PcFollows, server, computer
    <2>4. CASE Handle /\ \E r \in Reply : Answer(r) /\ r.which # "debug" /\ ServedWith(r)
      <3>1. PICK r \in Reply : Answer(r) /\ r.which # "debug" /\ ServedWith(r)
        BY <2>4
      <3>2. /\ at = "wait" /\ Asked /\ Head(rx).type = RequestOf[call]
            /\ Replies' # {} /\ \A i \in Replies' : tx'[i] = r
        BY <1>2, <2>4, <3>1, LineServed
      <3>3. /\ call \in {"poll", "pause"} => running_
            /\ call \in PauseCalls => ~ running_
            /\ RunningRight(running_, running, run_status)
        BY <1>2, <3>2 DEF Agreed, Asked
      <3>4. call = "init_reset" => ~ running /\ ~ running_ /\ matches
        BY <1>1, <1>2, <2>1 DEF Undisturbed, Endings, Orderly, SetUp
      <3>5. call # "init_reset" =>
              PcRight(pc_, running_, displaced, running, last_pc, cpu_pc)
        BY <1>1, <1>2, <2>1, <3>2 DEF PcFollows, Asked
      <3>6. PcRight(PcAfter(pc_, call, r), RunningAfter(running_, call, r),
                    DisplacedAfter(displaced, running_, call, r),
                    running', last_pc', cpu_pc')
        BY <3>1, <3>2, <3>3, <3>4, <3>5, ServedPc
      <3> QED
        BY <2>1, <3>2, <3>6 DEF PcFollows, PcAfter, BringsPc, DisplacedAfter
    <2>5. CASE Debug \/ UNCHANGED vars
      <3>1. Replies' = Replies /\ \A i \in Replies : tx'[i] = tx[i]
        BY <2>5, LineDebug DEF vars, serverVars, Replies, SessionTypes
      <3>2. UNCHANGED <<running, last_pc, cpu_pc>>
        BY <2>5 DEF Debug, vars, serverVars, server, computer
      <3> QED
        BY <1>1, <1>2, <2>1, <3>1, <3>2
           DEF PcFollows, PcAfter, BringsPc, DisplacedAfter
    <2> QED
      BY <1>3, <2>2, <2>3, <2>4, <2>5, SessionSteps
  <1>4. SUFFICES ASSUME DebuggerSide PROVE PcFollows'
    BY <1>3
  <1>5. /\ Sends \/ Continues \/ Finishes \/ ReceiveDebug \/ Idles
        /\ UNCHANGED <<running, last_pc, cpu_pc>>
    BY <1>2, <1>4, DebuggerLine
       DEF SessionTypes, serverSide, server, computer, RunsAgain
  <1>6. CASE Sends
    <2>1. Replies' = {} /\ Replies = {} /\ call = "none"
      BY <1>2, <1>6 DEF Sends, Idle, Replies, SessionTypes, Calling
    <2>2. UNCHANGED <<running_, pc_, displaced>>
      BY <1>4, <1>6, Kept
    <2>3. started /\ at # "terminated"
      BY <1>1, <1>2, <1>4, <1>6, <2>1, StartsAndEnds, CallFacts DEF Sends
    <2> QED
      BY <1>2, <1>5, <2>1, <2>2, <2>3 DEF PcFollows
  <1>7. CASE Continues \/ Finishes
    <2>1. at = "wait" /\ 1 \in Replies /\ Head(tx) = tx[1] /\ Replies' = {}
      BY <1>2, <1>7, LineReplied
    <2>2. \/ started \/ call = "init_read"
          \/ call = "init_reset" /\ matches
      <3>1. Orderly' /\ matches' = matches
        BY <1>7, OrderlyNext DEF Continues, Finishes, GoesOn
      <3> QED
        BY <1>1, <1>2, <1>4, <1>7, <2>1, <3>1, StartsAndEnds
           DEF Orderly, Continues, Finishes
    <2>3. PcRight(PcAfter(pc_, call, Head(tx)), RunningAfter(running_, call, Head(tx)),
                  DisplacedAfter(displaced, running_, call, Head(tx)),
                  running, last_pc, cpu_pc)
      BY <1>2, <2>1, <2>2 DEF PcFollows
    <2>4. After
      BY <1>4, <1>7, Settled
    <2> QED
      BY <1>5, <2>1, <2>3, <2>4 DEF After, PcFollows, PcRight
  <1>8. CASE ReceiveDebug \/ Idles
    <2>1. UNCHANGED <<running_, pc_, displaced, call, matches>>
      BY <1>4, <1>8, Kept DEF ReceiveDebug, Idles, GoesOn, frame, past
    <2>2. /\ Replies = {} <=> Replies' = {}
          /\ \A i \in Replies' : \E j \in Replies : tx'[i] = tx[j]
      <3>1. CASE ReceiveDebug
        BY <1>2, <3>1, LineListened DEF ReceiveDebug, SessionTypes
      <3>2. CASE Idles
        BY <3>2 DEF Idles, Replies
      <3> QED
        BY <1>8, <3>1, <3>2
    <2>3. /\ at # "terminated"
          /\ \/ started \/ call = "init_read"
             \/ call = "init_reset" /\ matches /\ Replies # {}
      BY <1>1, <1>2, <1>4, <2>1, <2>2, StartsAndEnds
    <2> QED
      BY <1>2, <1>5, <2>1, <2>2, <2>3 DEF PcFollows, PcAfter, BringsPc, DisplacedAfter
  <1> QED
    BY <1>5, <1>6, <1>7, <1>8

-----------------------------------------------------------------------------
(* The terminal *)

Numbers(n) == [i \in 1 .. n |-> i]

\* With s shown, running shown as ru and g for ignored: nothing is queued for a
\* computer shown paused, and what is shown and what is queued are all n texts.
TextRight(s, ru, g, q, n) ==
    /\ ~ ru => q = <<>>
    /\ ~ g => s \o q = Numbers(n)

LEMMA Regroup ==
    ASSUME NEW s \in Seq(Nat), NEW t \in Seq(Nat), NEW u \in Seq(Nat)
    PROVE  (s \o t) \o u = s \o (t \o u)
  BY ConcatAssociative

\* An instruction that prints at most one text finds room for it.
LEMMA OneMore ==
    ASSUME MaxBurst <= 1, NEW s \in Seq(Nat), NEW q \in Seq(Nat), out \in Nat,
           s \o q = Numbers(out), NEW n \in Bursts, Len(q) < QueueCap
    PROVE  s \o Pushed(q, n) = Numbers(out + n)
  <1>1. n \in 0 .. 1 /\ Lesser(n, QueueCap - Len(q)) = n
    <2>1. n \in 0 .. 1
      BY SizesAssumption DEF Bursts
    <2>2. Len(q) \in Nat /\ QueueCap \in Nat
      BY SizesAssumption DEF QueueCap
    <2>3. n <= QueueCap - Len(q)
      BY <2>1, <2>2
    <2> QED
      BY <2>1, <2>2, <2>3 DEF Lesser
  <1> DEFINE p == [k \in 1 .. n |-> out + k]
  <1>2. Pushed(q, n) = q \o p
    BY <1>1 DEF Pushed
  <1>3. p \in Seq(Nat) /\ Len(p) = n /\ \A k \in 1 .. n : p[k] = out + k
    BY <1>1
  <1> HIDE DEF p
  <1>4. s \o (q \o p) = (s \o q) \o p
    <2>1. p \in Seq(Nat)
      BY <1>3
    <2> QED
      BY <2>1, Regroup
  <1>5. Len(Numbers(out)) = out /\ Numbers(out) \in Seq(Nat)
        /\ \A i \in 1 .. out : Numbers(out)[i] = i
    BY DEF Numbers
  <1>6. Numbers(out) \o p = Numbers(out + n)
    <2>1. /\ Numbers(out) \o p \in Seq(Nat)
          /\ Len(Numbers(out) \o p) = out + n
          /\ \A i \in 1 .. out + n : (Numbers(out) \o p)[i] = i
      BY <1>1, <1>3, <1>5
    <2>2. /\ Numbers(out + n) \in Seq(Nat)
          /\ Len(Numbers(out + n)) = out + n
          /\ \A i \in 1 .. out + n : Numbers(out + n)[i] = i
      BY <1>1 DEF Numbers
    <2> QED
      BY <2>1, <2>2, SeqEqual
  <1> QED
    BY <1>2, <1>4, <1>6

LEMMA AloneText ==
    ASSUME MaxBurst <= 1, SessionTypes, RunsWhileRunning, ServerAlone,
           NEW s \in Seq(Nat), NEW ru, NEW g, RunningRight(ru, running, run_status),
           TextRight(s, ru, g, event_queue, out)
    PROVE  TextRight(s, ru, g, event_queue', out')
  <1>1. CASE Enter \/ RunEnds \/ ReceiveNothing
    BY <1>1 DEF Enter, RunEnds, ReceiveNothing, server, computer, TextRight
  <1>2. CASE \E a \in Addr, n \in Bursts : RunStep(a, n)
    <2>1. PICK a \in Addr, n \in Bursts : RunStep(a, n)
      BY <1>2
    <2>2. running /\ Len(event_queue) # QueueCap /\ Instruction(a, n)
      BY <2>1 DEF RunStep, RunStepFails, RunStepReachesNext,
         RunStepReachesBreakpoint, RunStepGoesOn, LoopGuard, RunsWhileRunning
    <2>3. ru
      BY <2>2 DEF RunningRight
    <2>4. event_queue \in Seq(Nat) /\ out \in Nat /\ Len(event_queue) < QueueCap
      BY <2>2, SizesAssumption DEF SessionTypes, TypeOK, QueueCap
    <2>5. ~ g => s \o Pushed(event_queue, n) = Numbers(out + n)
      BY <2>4, OneMore DEF TextRight
    <2> QED
      BY <2>2, <2>3, <2>5 DEF TextRight, Instruction
  <1> QED
    BY <1>1, <1>2 DEF ServerAlone

\* A reply that is not full carries the whole queue.
LEMMA FirstOfAll ==
    ASSUME NEW r \in Reply, NEW q \in Seq(Nat), FirstOf(r, q)
    PROVE  /\ Len(q) <= MaxEventsStep \/ Len(r.events) # MaxEventsStep => r.events = q
           /\ r.events = <<>> => q = <<>>
           /\ Len(r.events) <= MaxEventsStep
  <1>1. r.events \in Seq(Nat) /\ MaxEventsStep \in Nat \ {0} /\ Len(q) \in Nat
    BY SizesAssumption DEF Reply
  <1>2. Len(r.events) = Lesser(Len(q), MaxEventsStep)
        /\ \A i \in 1 .. Len(r.events) : r.events[i] = q[i]
    BY DEF FirstOf, Begins
  <1>3. Len(q) <= MaxEventsStep \/ Len(r.events) # MaxEventsStep
        => Len(r.events) = Len(q)
    BY <1>1, <1>2 DEF Lesser
  <1>4. Len(r.events) = Len(q) => r.events = q
    BY <1>1, <1>2, SeqEqual
  <1>5. r.events = <<>> => Len(r.events) = 0
    OBVIOUS
  <1>6. r.events = <<>> => Len(r.events) # MaxEventsStep
    BY <1>1, <1>5
  <1>7. Len(r.events) <= MaxEventsStep
    BY <1>1, <1>2 DEF Lesser
  <1> QED
    BY <1>3, <1>4, <1>6, <1>7

\* A burst on a queue with room arrives whole; one that leaves the queue empty
\* was empty.
LEMMA BurstFits ==
    ASSUME MaxBurst <= 1, TypeOK, NEW n \in Bursts
    PROVE  /\ Pushed(event_queue, n) \in Seq(Nat)
           /\ event_queue = <<>> => Len(Pushed(event_queue, n)) <= 1
           /\ Pushed(event_queue, n) = <<>> => event_queue = <<>> /\ n = 0
           /\ Len(event_queue) <= Len(Pushed(event_queue, n))
           /\ QueueCap > 0 /\ MaxEventsStep >= 1 /\ MaxEventsStep <= QueueCap
  <1>1. n \in Nat /\ n <= 1 /\ out \in Nat /\ QueueCap \in Nat /\ QueueCap > 0
        /\ MaxEventsStep >= 1 /\ MaxEventsStep <= QueueCap
    BY SizesAssumption DEF Bursts, TypeOK, QueueCap
  <1>2. event_queue \in Seq(Nat) /\ Len(event_queue) <= QueueCap
        /\ Len(event_queue) \in Nat
    BY DEF TypeOK
  <1>3. /\ Pushed(event_queue, n) \in Seq(Nat)
        /\ Len(Pushed(event_queue, n)) =
             Len(event_queue) + Lesser(n, QueueCap - Len(event_queue))
    BY <1>1, <1>2, PushedType
  <1>4. PICK m \in Nat : m = Lesser(n, QueueCap - Len(event_queue))
    <2>1. QueueCap - Len(event_queue) \in Nat
      BY <1>1, <1>2
    <2> QED
      BY <1>1, <2>1, LesserType
  <1>5. m <= n
    BY <1>1, <1>2, <1>4 DEF Lesser
  <1>6. Len(event_queue) = 0 => m = n
    BY <1>1, <1>4 DEF Lesser
  <1>7. Pushed(event_queue, n) = <<>> => Len(Pushed(event_queue, n)) = 0
    OBVIOUS
  <1>8. event_queue = <<>> <=> Len(event_queue) = 0
    BY <1>2
  <1>9. Len(Pushed(event_queue, n)) = Len(event_queue) + m
    BY <1>3, <1>4
  <1>10. Len(Pushed(event_queue, n)) = 0 => Len(event_queue) = 0 /\ m = 0
    BY <1>2, <1>4, <1>9
  <1> QED
    BY <1>1, <1>2, <1>3, <1>4, <1>5, <1>6, <1>7, <1>8, <1>9, <1>10

LEMMA ServedText ==
    ASSUME MaxBurst <= 1, SessionTypes, at = "wait", Head(rx).type = RequestOf[call],
           call = "init_reset" => ~ running_,
           RunningRight(running_, running, run_status),
           TextRight(shown, running_, ignored, event_queue, out),
           NEW r \in Reply, ServedWith(r)
    PROVE  TextRight(ShownAfter(shown, call, r), RunningAfter(running_, call, r),
                     IgnoredAfter(ignored, running_, call, r), event_queue', out')
  <1>1. call \in Calls /\ TypeOK /\ shown \in Seq(Nat) /\ event_queue \in Seq(Nat)
        /\ r.events \in Seq(Nat)
    BY DEF SessionTypes, SessionTypeOK, Calling, TypeOK, Reply
  <1>2. shown \o <<>> = shown
    BY <1>1
  <1>3. CASE RefusedWith(r)
    <2>1. ~ Accepts(call, r) /\ r.events = <<>>
      BY <1>3 DEF RefusedWith, Plain, Accepts
    <2>2. UNCHANGED <<event_queue, out>>
      BY <1>3 DEF RefusedWith, server, computer
    <2> QED
      BY <2>1, <2>2 DEF TextRight, ShownAfter, RunningAfter, IgnoredAfter
  <1>4. CASE PolledWith(r)
    <2>1. call = "poll" /\ event_queue' = <<>> /\ out' = out /\ r.events = event_queue
      BY <1>1, <1>4, CallsOf DEF PolledWith
    <2>2. (shown \o event_queue) \o <<>> = shown \o event_queue
      BY <1>1
    <2> QED
      BY <1>2, <2>1, <2>2 DEF TextRight, ShownAfter, IgnoredAfter
  <1>5. CASE PausedWith(r)
    <2>1. call = "pause" /\ Accepts(call, r)
      BY <1>1, <1>5, CallsOf DEF PausedWith, Accepts, ExpectedOf
    <2>2. r.events = <<>> => event_queue = <<>>
      BY <1>1, <1>5, FirstOfAll DEF PausedWith
    <2> QED
      BY <1>5, <2>1, <2>2 DEF PausedWith, computer, TextRight, ShownAfter, IgnoredAfter
  <1>6. CASE ResetWith(r)
    <2>1. call \in {"reset", "init_reset"} /\ Accepts(call, r)
      BY <1>1, <1>6, CallsOf DEF ResetWith, Plain, Accepts, ExpectedOf
    <2>2. IgnoredAfter(ignored, running_, call, r) \/ event_queue = <<>>
      BY <2>1 DEF IgnoredAfter, TextRight
    <2> QED
      BY <1>6, <2>1, <2>2 DEF ResetWith, TextRight, ShownAfter, IgnoredAfter
  <1>7. CASE SteppedWith(r)
    <2>1. call = "step"
      BY <1>1, <1>7, CallsOf DEF SteppedWith
    <2>2. PICK n \in Bursts : out' = out + n /\ FirstOf(r, Pushed(event_queue, n))
      BY <1>7 DEF SteppedWith
    <2>3. event_queue' = <<>>
      BY <1>7 DEF SteppedWith
    <2>4. CASE Accepts(call, r)
      <3>1. SUFFICES ASSUME ~ ignored, ~ (running_ /\ Len(r.events) = MaxEventsStep)
                     PROVE  (shown \o r.events) \o <<>> = Numbers(out')
        BY <2>1, <2>3, <2>4 DEF TextRight, ShownAfter, IgnoredAfter
      <3>2. Len(Pushed(event_queue, n)) <= MaxEventsStep \/ Len(r.events) # MaxEventsStep
        <4>1. CASE ~ running_
          BY <1>1, <4>1, BurstFits DEF TextRight
        <4> QED
          BY <3>1, <4>1
      <3>3. r.events = Pushed(event_queue, n)
        BY <1>1, <2>2, <3>2, FirstOfAll, BurstFits
      <3>4. Len(event_queue) < QueueCap
        <4>1. Len(event_queue) \in Nat /\ Len(r.events) \in Nat
              /\ QueueCap \in Nat /\ MaxEventsStep \in Nat
          BY <1>1, SizesAssumption DEF QueueCap
        <4>2. CASE running_
          <5>1. Len(r.events) <= MaxEventsStep /\ Len(r.events) # MaxEventsStep
            BY <1>1, <2>2, <3>1, <4>2, FirstOfAll, BurstFits
          <5>2. Len(event_queue) <= Len(r.events) /\ MaxEventsStep <= QueueCap
            BY <1>1, <3>3, BurstFits
          <5> QED
            BY <4>1, <5>1, <5>2
        <4>3. CASE ~ running_
          BY <1>1, <4>3, BurstFits DEF TextRight
        <4> QED
          BY <4>2, <4>3
      <3>5. shown \o r.events = Numbers(out')
        <4>1. shown \o event_queue = Numbers(out) /\ out \in Nat
          BY <1>1, <3>1 DEF TextRight, TypeOK
        <4>2. shown \o Pushed(event_queue, n) = Numbers(out + n)
          BY <1>1, <3>4, <4>1, OneMore
        <4> QED
          BY <2>2, <3>3, <4>2
      <3>6. (shown \o r.events) \o <<>> = shown \o r.events
        BY <1>1
      <3> QED
        BY <3>5, <3>6
    <2>5. CASE ~ Accepts(call, r)
      <3>1. r.events = <<>> => event_queue = <<>> /\ n = 0
        BY <1>1, <2>2, FirstOfAll, BurstFits
      <3>2. n = 0 => out' = out
        BY <1>1, <2>2 DEF TypeOK
      <3> QED
        BY <2>1, <2>3, <2>5, <3>1, <3>2 DEF TextRight, ShownAfter, IgnoredAfter
    <2> QED
      BY <2>4, <2>5
  <1>8. CASE RunWith(r)
    <2>1. call \in {"run", "run_forever"} /\ Accepts(call, r)
      BY <1>1, <1>8, CallsOf DEF RunWith, Plain, Accepts, ExpectedOf
    <2> QED
      BY <1>8, <2>1 DEF RunWith, computer, TextRight, RunningAfter, ShownAfter,
         IgnoredAfter
  <1>9. CASE RunToReturnWith(r)
    <2>1. call = "next" /\ r.events = event_queue
      BY <1>1, <1>9, CallsOf DEF RunToReturnWith
    <2> QED
      BY <1>9, <2>1 DEF RunToReturnWith, computer, TextRight, ShownAfter, IgnoredAfter
  <1>10. CASE NextWith(r)
    <2>1. call = "next" /\ event_queue' = <<>>
      BY <1>1, <1>10, CallsOf DEF NextWith
    <2>2. PICK n \in Bursts : out' = out + n /\ r.events = Pushed(event_queue, n)
      BY <1>10 DEF NextWith
    <2>3. r.events = <<>> => event_queue = <<>> /\ n = 0
      BY <1>1, <2>2, BurstFits
    <2>4. r.events = <<>> => event_queue = <<>> /\ out' = out
      BY <1>1, <2>2, <2>3 DEF TypeOK
    <2> QED
      BY <2>1, <2>4 DEF TextRight, ShownAfter, IgnoredAfter
  <1>11. CASE CycledWith(r) \/ InterruptedWith(r) \/ MemoryWith(r) \/ ListedWith(r)
    <2>1. call \notin {"run", "run_forever", "poll", "pause", "next", "step", "reset"}
      BY <1>1, <1>11, CallsOf DEF CycledWith, InterruptedWith, MemoryWith, ListedWith
    <2>2. UNCHANGED <<event_queue, out>> /\ r.events = <<>>
      BY <1>11 DEF CycledWith, InterruptedWith, MemoryWith, ListedWith, Plain, server,
         computer
    <2> QED
      BY <2>1, <2>2 DEF TextRight, ShownAfter, RunningAfter, IgnoredAfter
  <1> QED
    BY <1>3, <1>4, <1>5, <1>6, <1>7, <1>8, <1>9, <1>10, <1>11 DEF ServedWith

TextFollows ==
    Undisturbed =>
        /\ Replies = {} => TextRight(shown, running_, ignored, event_queue, out)
        /\ \A i \in Replies :
             TextRight(ShownAfter(shown, call, tx[i]), RunningAfter(running_, call, tx[i]),
                       IgnoredAfter(ignored, running_, call, tx[i]), event_queue, out)

LEMMA TextFollowsNext ==
    ASSUME MaxBurst <= 1, SessionTypes, InStep, Matched, RunsWhileRunning, Agreed,
           Orderly, TextFollows, [SessionNext]_vars
    PROVE  TextFollows'
  <1>1. SUFFICES ASSUME Undisturbed' PROVE TextFollows'
    BY DEF TextFollows
  <1>2. Undisturbed /\ ~ Edit /\ ~ Restart /\ restarts = 0 /\ ~ orphan
        /\ (Idle \/ (at = "wait" /\ (Asked \/ Answered)))
    BY <1>1, StillUndisturbed DEF Undisturbed, Agreed, InStep
  <1>3. CASE ~ DebuggerSide
    <2>1. UNCHANGED <<at, call, shown, running_, ignored>>
      BY <1>3, UiUnchanged, SessionSteps DEF ServerAlone, vars
    <2>2. CASE ServerAlone
      <3>1. Replies' = Replies /\ tx' = tx
        BY <2>2, ServerAloneLine
      <3>2. shown \in Seq(Nat)
            /\ \A i \in Replies : ShownAfter(shown, call, tx[i]) \in Seq(Nat)
        <4>1. shown \in Seq(Nat) /\ tx \in Seq(Reply)
          BY DEF SessionTypes, SessionTypeOK, TypeOK
        <4>2. \A i \in Replies : tx[i].events \in Seq(Nat)
          BY <4>1, EventsType DEF Replies
        <4> QED
          BY <4>1, <4>2 DEF ShownAfter
      <3>3. Replies = {} => TextRight(shown, running_, ignored, event_queue', out')
        BY <1>2, <2>2, <3>2, AloneText DEF Agreed, TextFollows
      <3>4. \A i \in Replies :
              TextRight(ShownAfter(shown, call, tx[i]),
                        RunningAfter(running_, call, tx[i]),
                        IgnoredAfter(ignored, running_, call, tx[i]), event_queue', out')
        BY <1>2, <2>2, <3>2, AloneText DEF Agreed, TextFollows
      <3> QED
        BY <2>1, <3>1, <3>3, <3>4 DEF TextFollows
    <2>3. CASE ReceiveUndecodable \/ RunForever
      <3>1. Replies = {} /\ Replies' = {} /\ UNCHANGED <<server, computer>>
        BY <1>2, <2>3, LineLost
      <3> QED
        BY <1>2, <2>1, <3>1 DEF TextFollows, server, computer
    <2>4. CASE Handle /\ \E r \in Reply : Answer(r) /\ r.which # "debug" /\ ServedWith(r)
      <3>1. PICK r \in Reply : Answer(r) /\ r.which # "debug" /\ ServedWith(r)
        BY <2>4
      <3>2. /\ at = "wait" /\ Asked /\ Head(rx).type = RequestOf[call]
            /\ Replies' # {} /\ \A i \in Replies' : tx'[i] = r
        BY <1>2, <2>4, <3>1, LineServed
      <3>3. RunningRight(running_, running, run_status)
        BY <1>2, <3>2 DEF Agreed, Asked
      <3>4. call = "init_reset" => ~ running_
        BY <1>2 DEF Orderly, SetUp
      <3>5. TextRight(shown, running_, ignored, event_queue, out)
        BY <1>2, <3>2 DEF TextFollows, Asked
      <3>6. TextRight(ShownAfter(shown, call, r), RunningAfter(running_, call, r),
                      IgnoredAfter(ignored, running_, call, r), event_queue', out')
        BY <3>1, <3>2, <3>3, <3>4, <3>5, ServedText
      <3> QED
        BY <2>1, <3>2, <3>6 DEF TextFollows
    <2>5. CASE Debug \/ UNCHANGED vars
      <3>1. Replies' = Replies /\ \A i \in Replies : tx'[i] = tx[i]
        BY <2>5, LineDebug DEF vars, serverVars, Replies, SessionTypes
      <3>2. UNCHANGED <<event_queue, out>>
        BY <2>5 DEF Debug, vars, serverVars, server, computer
      <3> QED
        BY <1>2, <2>1, <3>1, <3>2 DEF TextFollows
    <2> QED
      BY <1>3, <2>2, <2>3, <2>4, <2>5, SessionSteps
  <1>4. SUFFICES ASSUME DebuggerSide PROVE TextFollows'
    BY <1>3
  <1>5. /\ Sends \/ Continues \/ Finishes \/ ReceiveDebug \/ Idles
        /\ UNCHANGED <<event_queue, out>>
    BY <1>2, <1>4, DebuggerLine
       DEF SessionTypes, serverSide, server, computer, RunsAgain
  <1>6. CASE Sends
    <2>1. Replies' = {} /\ Replies = {}
      BY <1>2, <1>6 DEF Sends, Idle, Replies
    <2>2. UNCHANGED <<running_, shown, ignored>>
      BY <1>4, <1>6, Kept
    <2> QED
      BY <1>2, <1>5, <2>1, <2>2 DEF TextFollows
  <1>7. CASE Continues \/ Finishes
    <2>1. 1 \in Replies /\ Head(tx) = tx[1] /\ Replies' = {}
      BY <1>2, <1>7, LineReplied
    <2>2. TextRight(ShownAfter(shown, call, Head(tx)),
                    RunningAfter(running_, call, Head(tx)),
                    IgnoredAfter(ignored, running_, call, Head(tx)), event_queue, out)
      BY <1>2, <2>1 DEF TextFollows
    <2>3. After
      BY <1>4, <1>7, Settled
    <2> QED
      BY <1>5, <2>1, <2>2, <2>3 DEF After, TextFollows, TextRight
  <1>8. CASE ReceiveDebug \/ Idles
    <2>1. UNCHANGED <<running_, shown, ignored, call>>
      BY <1>4, <1>8, Kept DEF ReceiveDebug, Idles, frame
    <2>2. /\ Replies = {} <=> Replies' = {}
          /\ \A i \in Replies' : \E j \in Replies : tx'[i] = tx[j]
      <3>1. CASE ReceiveDebug
        BY <1>2, <3>1, LineListened DEF ReceiveDebug, SessionTypes
      <3>2. CASE Idles
        BY <3>2 DEF Idles, Replies
      <3> QED
        BY <1>8, <3>1, <3>2
    <2> QED
      BY <1>2, <1>5, <2>1, <2>2 DEF TextFollows
  <1> QED
    BY <1>5, <1>6, <1>7, <1>8

-----------------------------------------------------------------------------
(* Sessions that were not disturbed *)

\* When the computer is shown paused, the highlighted line is where it stands.
THEOREM PausedLineIsRight == SessionSpec => []PcShown
  <1> DEFINE Inv == SessionTypes /\ Edited /\ Endings /\ Orderly /\ PcFollows
  <1>1. SessionInit => Inv
    <2> SUFFICES ASSUME SessionInit PROVE Inv
      OBVIOUS
    <2>1. call = "none" /\ Replies = {}
      BY DEF SessionInit, Init, Replies
    <2> QED
      BY <2>1, SessionTypesInit DEF SessionInit, Edited, Endings, KnownEndings, Orderly,
         SetUp, PcFollows, Gone
  <1>2. Agreement /\ Inv /\ [SessionNext]_vars => Inv'
    BY SessionTypesNext, EditedNext, EndingsNext, OrderlyNext, PcFollowsNext
       DEF Agreement
  <1>3. Agreement /\ Inv => PcShown
    BY DEF Agreement, Agreed, InStep, Idle, PcFollows, PcRight, PcShown, Undisturbed
  <1> QED
    BY <1>1, <1>2, <1>3, AgreementHolds, PTL DEF SessionSpec

\* NoTextIsLost: the terminal and the queue hold every text the computer has
\* printed, once and in order, for every size of the queue: the run loop is
\* left while one more fits (line 301) and the replies of the ack that follows
\* empty it.  The hypothesis is what that guard leaves room for: with two texts
\* to an instruction, push_event refuses the second.
THEOREM NoTextIsLost == MaxBurst <= 1 => (SessionSpec => []TerminalComplete)
  <1> DEFINE Inv == SessionTypes /\ Orderly /\ TextFollows
  <1> SUFFICES ASSUME MaxBurst <= 1 PROVE SessionSpec => []TerminalComplete
    OBVIOUS
  <1>1. SessionInit => Inv
    <2> SUFFICES ASSUME SessionInit PROVE Inv
      OBVIOUS
    <2>1. call = "none" /\ Replies = {} /\ shown = <<>> /\ event_queue = <<>> /\ out = 0
      BY DEF SessionInit, Init, Replies
    <2>2. Numbers(0) = <<>> /\ <<>> \o <<>> = <<>>
      BY DEF Numbers
    <2> QED
      BY <2>1, <2>2, SessionTypesInit DEF SessionInit, Orderly, SetUp, TextFollows,
         TextRight, Gone
  <1>2. Agreement /\ Inv /\ [SessionNext]_vars => Inv'
    BY SessionTypesNext, OrderlyNext, TextFollowsNext DEF Agreement
  <1>3. Agreement /\ Inv => TerminalComplete
    BY DEF Agreement, Agreed, InStep, Idle, TextFollows, TextRight, TerminalComplete,
       Undisturbed, Numbers
  <1> QED
    BY <1>1, <1>2, <1>3, AgreementHolds, PTL DEF SessionSpec

-----------------------------------------------------------------------------
(* The keys *)

LEMMA NoKeys == KeysIn(<<>>) = {}
  BY DEF KeysIn

LEMMA KeysJoined ==
    ASSUME NEW s \in Seq(Nat), NEW t \in Seq(Nat)
    PROVE  KeysIn(s \o t) = KeysIn(s) \cup KeysIn(t)
  <1>1. /\ Len(s \o t) = Len(s) + Len(t) /\ Len(s) \in Nat /\ Len(t) \in Nat
        /\ \A i \in 1 .. Len(s) : (s \o t)[i] = s[i]
        /\ \A i \in 1 .. Len(t) : (s \o t)[Len(s) + i] = t[i]
    OBVIOUS
  <1>2. ASSUME NEW i \in 1 .. Len(s \o t)
        PROVE  (s \o t)[i] \in KeysIn(s) \cup KeysIn(t)
    <2>1. CASE i \in 1 .. Len(s)
      BY <1>1, <2>1 DEF KeysIn
    <2>2. CASE i \notin 1 .. Len(s)
      <3>1. i - Len(s) \in 1 .. Len(t) /\ i = Len(s) + (i - Len(s))
        BY <1>1, <2>2
      <3>2. (s \o t)[i] = t[i - Len(s)]
        BY <1>1, <3>1
      <3> QED
        BY <3>1, <3>2 DEF KeysIn
    <2> QED
      BY <2>1, <2>2
  <1>3. KeysIn(s \o t) \subseteq KeysIn(s) \cup KeysIn(t)
    BY <1>2 DEF KeysIn
  <1>4. ASSUME NEW i \in 1 .. Len(s)
        PROVE  s[i] \in KeysIn(s \o t)
    <2>1. i \in 1 .. Len(s \o t) /\ s[i] = (s \o t)[i]
      BY <1>1
    <2> QED
      BY <2>1 DEF KeysIn
  <1>5. ASSUME NEW i \in 1 .. Len(t)
        PROVE  t[i] \in KeysIn(s \o t)
    <2>1. Len(s) + i \in 1 .. Len(s \o t) /\ t[i] = (s \o t)[Len(s) + i]
      BY <1>1
    <2> QED
      BY <2>1 DEF KeysIn
  <1> QED
    BY <1>3, <1>4, <1>5 DEF KeysIn

\* The keys of the request on the line, and where a key is that was typed and
\* is no longer the newest.
OnLine == IF rx = <<>> THEN {} ELSE KeysIn(Head(rx).keys)
Held   == KeysIn(input) \cup KeysIn(next_tx) \cup OnLine \cup discarded

\* A key is the newest of its frame, held, or about to be by the Keypress
\* window.  A request the server may refuse carries only keys it has already.
KeysSafe ==
    Undisturbed /\ at # "terminated" =>
        /\ popup => next_tx = <<>>
        /\ popup \/ keys # <<>> => started
        /\ Len(keys) <= KeysPerFrame /\ Len(next_tx) <= KeysPerFrame
        /\ rx # <<>> => Head(rx).longest < KeyTextSize
        /\ 1 .. typed = Held \cup KeysIn(keys)
        /\ at \in {"upload", "poll"} => keys = <<>> \/ running_ \/ popup
        /\ at \notin {"upload", "poll"} => popup \/ KeysIn(keys) \subseteq Held
        /\ call \notin {"poll", "step"} => OnLine = {}
        /\ call = "poll" =>
             next_tx = <<>> /\ KeysIn(keys) \subseteq KeysIn(input) \cup OnLine
        /\ (at \in {"watch", "draw"} \/ call = "step") /\ running_ =>
             KeysIn(next_tx) \cup KeysIn(keys) \cup OnLine \subseteq KeysIn(input)

\* What a call sends, and what becomes of next_tx.
LEMMA SentKeys ==
    ASSUME SessionTypes, DebuggerSide, Sends, ~ updated
    PROVE  /\ UNCHANGED <<keys, popup, typed, discarded, running_, started, input>>
           /\ \E q \in Request :
                /\ rx' = Append(rx, q)
                /\ \/ /\ call' = "poll" /\ at = "poll" /\ running_
                      /\ q.keys = UserEvents /\ q.longest = LongestText
                      /\ next_tx' = <<>>
                   \/ /\ call' = "step" /\ at = "draw"
                      /\ q.keys = UserEvents /\ q.longest = LongestText
                      /\ next_tx' = <<>>
                   \/ /\ call' \notin {"poll", "step"}
                      /\ \/ call' = "upload" /\ upload_ > 0
                         \/ at = "draw"
                      /\ q.keys = <<>> /\ q.longest = 0
                      /\ next_tx' = next_tx
  <1>1. at # "wait" /\ at' = "wait" /\ SessionTypeOK
    BY DEF Sends, SessionTypes
  <1>2. UserEvents \in Seq(Nat) /\ LongestText \in Nat
    BY <1>1, UserEventsTypes
  <1>3. \A t \in RequestType :
          /\ Ask(t) \in Request /\ Ask(t).keys = <<>> /\ Ask(t).longest = 0
          /\ LET q == [Ask(t) EXCEPT !.keys = UserEvents, !.longest = LongestText]
             IN  q \in Request /\ q.keys = UserEvents /\ q.longest = LongestText
          /\ \A a \in Addr :
               LET q == [Ask(t) EXCEPT !.addr = a]
               IN  q \in Request /\ q.keys = <<>> /\ q.longest = 0
    BY <1>2, AskType DEF Ask
  <1>4. \A c \in Calls : RequestOf[c] \in RequestType
    BY CallFacts
  <1>5. CASE UploadStep
    BY <1>1, <1>3, <1>4, <1>5, CallFacts
       DEF UploadStep, Send0, Send, model, past, serverSide, computer, SessionTypeOK
  <1>6. CASE PollStep
    BY <1>3, <1>4, <1>6, CallFacts DEF PollStep, Send, past, serverSide, computer,
       RequestType
  <1>7. CASE Step_
    BY <1>3, <1>4, <1>7, CallFacts DEF Step_, Key, Send, past, serverSide, computer,
       RequestType
  <1>8. CASE Connect
    BY <1>3, <1>8, CallFacts DEF Connect, model, past, serverSide, computer, RequestType
  <1>9. CASE Command
    BY <1>3, <1>4, <1>9, CallFacts DEF Command, Key, Button, Send0, Send, model, past,
       serverSide, computer
  <1>10. CASE ChangePage \/ ClearBreakpoints
    BY <1>3, <1>4, <1>10, CallFacts DEF ChangePage, ClearBreakpoints, Key, Button, Send0,
       Send, past, serverSide, computer
  <1>11. CASE ToggleBreakpoint
    <2>1. PICK a \in Addr, c \in {"bkp_remove", "bkp_add"} :
             Send(c, [Ask(c) EXCEPT !.addr = a])
      BY <1>11 DEF ToggleBreakpoint
    <2>2. PICK q \in Request : q = [Ask(c) EXCEPT !.addr = a]
                               /\ q.keys = <<>> /\ q.longest = 0
      BY <1>3 DEF RequestType
    <2>3. rx' = Append(rx, q) /\ call' = c /\ UNCHANGED serverSide
      BY <2>1, <2>2 DEF Send
    <2>4. at = "draw" /\ UNCHANGED <<model, past>>
      BY <1>11 DEF ToggleBreakpoint, Key, Button
    <2> QED
      BY <2>2, <2>3, <2>4 DEF model, past, serverSide, computer
  <1>12. ~ OpenKeypress /\ ~ CancelKeypress /\ ~ ClearNextTx /\ ~ PollSkipped
        /\ ~ WatchStep /\ ~ WatchEmpty /\ ~ UploadUndefined
        /\ ~ Keypress /\ ~ EndFrame /\ ~ Edit /\ ~ Restart
    BY <1>1 DEF OpenKeypress, CancelKeypress, ClearNextTx, PollSkipped, WatchStep,
       WatchEmpty, UploadUndefined, Keypress, EndFrame, Edit, Restart, frame
  <1>13. ~ ReceiveDebug /\ ~ Throws /\ ~ UploadReturns /\ ~ InitMismatch /\ ~ InitReset
        /\ ~ InitRead /\ ~ PollReturns /\ ~ CommandReturns
    BY <1>1 DEF ReceiveDebug, Throws, UploadReturns, InitMismatch, InitReset, InitRead,
       PollReturns, CommandReturns, Acknowledged, AcknowledgedEmpty, ResetReturns, StepReturns,
       PauseReturns, RunReturns, NextReturns, BreakpointReturns, PageReturns,
       CycleReturns, InterruptReturns, Returns
  <1> QED
    BY <1>5, <1>6, <1>7, <1>8, <1>9, <1>10, <1>11, <1>12, <1>13
       DEF DebuggerSide, Debugger, Update, UserCommand

\* The computer implements on_keypress, and a text of the longest burst of keys
\* fits in its field.
KeysReach == "on_keypress" \in Callbacks /\ KeysPerFrame < KeyTextSize

\* A poll and a step that is not refused hand their keys to the computer; no
\* other request does.
LEMMA ServedKeys ==
    ASSUME "on_keypress" \in Callbacks, TypeOK, rx # <<>>, call \in Calls,
           Head(rx).type = RequestOf[call], NEW r, ServedWith(r)
    PROVE  \/ KeysIn(input') = KeysIn(input) \cup KeysIn(Head(rx).keys)
           \/ /\ input' = input
              /\ call \notin {"poll", "step"} \/ (call = "step" /\ running)
  <1>1. input \in Seq(Nat) /\ Head(rx).keys \in Seq(Nat)
    <2>1. Head(rx) \in Request
      BY DEF TypeOK
    <2> QED
      BY <2>1 DEF TypeOK, Request
  <1>2. CASE ExecuteUserEvents(Head(rx).keys)
    BY <1>1, <1>2, KeysJoined DEF ExecuteUserEvents
  <1>3. CASE RefusedWith(r)
    BY <1>3, CallsOf DEF RefusedWith, computer, TypeOK
  <1>4. CASE ServedWith(r) /\ ~ RefusedWith(r) /\ ~ PolledWith(r) /\ ~ SteppedWith(r)
    <2>1. input' = input
      BY <1>4 DEF ServedWith, PausedWith, ResetWith, RunWith, RunToReturnWith,
         NextWith, CycledWith, InterruptedWith, MemoryWith, ListedWith, computer
    <2>2. Head(rx).type \notin {"get_run_status", "step"}
      BY <1>4 DEF ServedWith, PausedWith, ResetWith, RunWith, RunToReturnWith,
         NextWith, CycledWith, InterruptedWith, MemoryWith, ListedWith
    <2> QED
      BY <2>1, <2>2, CallsOf
  <1> QED
    BY <1>2, <1>3, <1>4 DEF PolledWith, SteppedWith

\* No key gets lost on the server's side.
LEMMA LineKeys ==
    ASSUME KeysReach, SessionTypes, InStep, Matched, Agreed, KeysSafe,
           Undisturbed, at # "terminated", [SessionNext]_vars, ~ DebuggerSide
    PROVE  /\ UNCHANGED uiVars
           /\ rx' # <<>> => rx' = rx
           /\ KeysIn(input) \subseteq KeysIn(input')
           /\ KeysIn(input') \cup OnLine' = KeysIn(input) \cup OnLine
  <1>1. UNCHANGED uiVars
    BY SessionSteps DEF ServerAlone, vars
  <1>2. ~ orphan /\ restarts = 0
    BY DEF Undisturbed, Agreed
  <1>3. CASE UNCHANGED <<rx, input>>
    BY <1>1, <1>3 DEF OnLine
  <1>4. CASE ServerAlone \/ Debug \/ UNCHANGED vars
    <2>1. UNCHANGED <<rx, input>>
      BY <1>4 DEF ServerAlone, Enter, RunEnds, ReceiveNothing, RunStep, RunStepFails,
         RunStepReachesNext, RunStepReachesBreakpoint, RunStepGoesOn, Instruction,
         Debug, vars, serverVars, computer
    <2> QED
      BY <1>3, <2>1
  <1>5. ~ ReceiveUndecodable
    BY DEF KeysSafe, ReceiveUndecodable, Decodable
  <1>6. ASSUME rx # <<>>, rx' = Tail(rx)
        PROVE  /\ rx' = <<>> /\ OnLine' = {} /\ OnLine = KeysIn(Head(rx).keys)
               /\ call \in Calls /\ Head(rx).type = RequestOf[call] /\ Asked
    BY <1>2, <1>6, LineTaken
       DEF OnLine, Matched, SessionTypes, SessionTypeOK, Calling
  <1>7. CASE RunForever
    <2>1. rx # <<>> /\ rx' = Tail(rx) /\ Head(rx).type = "run_forever" /\ input' = input
      BY <1>7 DEF RunForever, Got, computer
    <2>2. call \notin {"poll", "step"}
      BY <1>6, <2>1, CallsOf
    <2> QED
      BY <1>1, <1>6, <2>1, <2>2 DEF KeysSafe
  <1>8. CASE Handle /\ \E r \in Reply : Answer(r) /\ r.which # "debug" /\ ServedWith(r)
    <2>1. PICK r \in Reply : ServedWith(r)
      BY <1>8
    <2>2. rx # <<>> /\ rx' = Tail(rx)
      BY <1>8, Handlers
    <2>3. rx' = <<>> /\ OnLine' = {} /\ OnLine = KeysIn(Head(rx).keys)
          /\ call \in Calls /\ Head(rx).type = RequestOf[call] /\ Asked
      BY <1>6, <2>2
    <2>4. \/ KeysIn(input') = KeysIn(input) \cup OnLine
          \/ /\ input' = input
             /\ call \notin {"poll", "step"} \/ (call = "step" /\ running)
      BY <2>1, <2>2, <2>3, ServedKeys DEF KeysReach, SessionTypes
    <2>5. call = "step" /\ running => OnLine \subseteq KeysIn(input)
      <3>1. running => running_
        BY <1>2, <2>3 DEF Agreed, Asked, RunningRight
      <3> QED
        BY <3>1 DEF KeysSafe
    <2>6. call \notin {"poll", "step"} => OnLine = {}
      BY DEF KeysSafe
    <2> QED
      BY <1>1, <2>3, <2>4, <2>5, <2>6
  <1> QED
    BY <1>4, <1>5, <1>7, <1>8, SessionSteps

\* Where a reply takes the frame.
LEMMA ReadKeys ==
    ASSUME SessionTypes, DebuggerSide, Continues \/ Finishes
    PROVE  /\ UNCHANGED <<keys, popup, next_tx, typed, discarded, input>>
           /\ started => started'
           /\ \/ at' \in {"drawn", "terminated", "wait"}
              \/ at' = "poll" /\ call = "upload"
              \/ at' = "draw" /\ call = "init_read" /\ running_' = running_
              \/ at' = "watch" /\ call = "poll"
  <1>1. at = "wait" /\ restarts' # restarts + 1 /\ edits' # edits + 1
    BY DEF Finishes, Continues, GoesOn, SessionTypes, SessionTypeOK
  <1>2. UNCHANGED input
    BY DebuggerLine DEF SessionTypes, serverSide, computer
  <1>3. CASE UploadReturns
    BY <1>1, <1>2, <1>3 DEF UploadReturns, BeginsSession, Returns, past
  <1>4. CASE InitReset \/ InitRead
    BY <1>1, <1>2, <1>4 DEF InitReset, InitRead, Returns, past, frame
  <1>10. CASE InitMismatch
    BY <1>2, <1>10 DEF InitMismatch
  <1>5. CASE PollReturns
    BY <1>2, <1>5 DEF PollReturns, Returns, past
  <1>6. CASE CommandReturns
    BY <1>1, <1>2, <1>6 DEF CommandReturns, Acknowledged, AcknowledgedEmpty,
       BeginsSession, ResetReturns, StepReturns, PauseReturns, RunReturns, NextReturns, BreakpointReturns, PageReturns,
       CycleReturns, InterruptReturns, EndsCommand, past, model, frame
  <1>7. CASE Throws
    BY <1>2, <1>7 DEF Throws
  <1>8. ~ UploadStep /\ ~ UploadUndefined /\ ~ PollStep /\ ~ PollSkipped
        /\ ~ WatchStep /\ ~ WatchEmpty /\ ~ Keypress /\ ~ EndFrame
        /\ ~ UserCommand /\ ~ Edit /\ ~ Restart
    BY <1>1 DEF UploadStep, UploadUndefined, PollStep, PollSkipped, WatchStep,
       WatchEmpty, Keypress, EndFrame, UserCommand, Connect, Command, ChangePage, Step_, ToggleBreakpoint,
       ClearBreakpoints, OpenKeypress, CancelKeypress, ClearNextTx, Key, Button,
       Edit, Restart
  <1>9. ~ ReceiveDebug
    BY AcceptsNoDebug DEF Finishes, Continues, Returns, ReceiveDebug, SessionTypes,
       SessionTypeOK, Calling
  <1> QED
    BY <1>3, <1>4, <1>5, <1>6, <1>7, <1>8, <1>9, <1>10
       DEF DebuggerSide, Debugger, Update

\* What a debugger does that is not calling.
LEMMA IdleSteps ==
    ASSUME SessionTypes, DebuggerSide, Idles, ~ Edit, ~ Restart
    PROVE  \/ UploadStep /\ at' = "poll" /\ UNCHANGED <<model, past>>
           \/ at' = "terminated"
           \/ PollSkipped \/ WatchStep \/ OpenKeypress \/ CancelKeypress
           \/ ClearNextTx \/ Keypress \/ EndFrame
  <1>1. at # "wait" /\ at' # "wait"
    BY DEF Idles
  <1>2. ~ ReceiveDebug /\ ~ Throws /\ ~ UploadReturns /\ ~ InitMismatch /\ ~ InitReset
        /\ ~ InitRead /\ ~ PollReturns /\ ~ CommandReturns
    BY <1>1 DEF ReceiveDebug, Throws, UploadReturns, InitMismatch, InitReset, InitRead,
       PollReturns, CommandReturns, Acknowledged, AcknowledgedEmpty, ResetReturns, StepReturns,
       PauseReturns, RunReturns, NextReturns, BreakpointReturns, PageReturns,
       CycleReturns, InterruptReturns, Returns
  <1>3. ~ PollStep /\ ~ Connect /\ ~ Command /\ ~ ChangePage /\ ~ Step_
        /\ ~ ToggleBreakpoint /\ ~ ClearBreakpoints /\ ~ WatchEmpty
    BY <1>1 DEF PollStep, Connect, Command, ChangePage, Step_, ToggleBreakpoint,
       ClearBreakpoints, WatchEmpty, BeginsSession, Send0, Send
  <1>4. UploadStep => at' = "poll" /\ UNCHANGED <<model, past>>
    BY <1>1 DEF UploadStep, Send0, Send
  <1> QED
    BY <1>2, <1>3, <1>4 DEF DebuggerSide, Debugger, Update, UserCommand, UploadUndefined

LEMMA KeysSafeNext ==
    ASSUME KeysReach, SessionTypes, InStep, Matched, Agreed, Orderly, KeysSafe,
           [SessionNext]_vars
    PROVE  KeysSafe'
  <1>1. SUFFICES ASSUME Undisturbed', at' # "terminated" PROVE KeysSafe'
    BY DEF KeysSafe
  <1>2. Undisturbed /\ ~ Edit /\ ~ Restart /\ restarts = 0 /\ ~ orphan
        /\ (Idle \/ (at = "wait" /\ (Asked \/ Answered)))
    BY <1>1, StillUndisturbed DEF Undisturbed, Agreed, InStep
  <1>3. at # "terminated"
    <2>1. CASE DebuggerSide
      BY <1>1, <1>2, <2>1, StartsAndEnds
    <2>2. CASE ~ DebuggerSide
      BY <1>1, <2>2, SessionSteps, UiUnchanged DEF ServerAlone, vars
    <2> QED
      BY <2>1, <2>2
  <1>4. CASE ~ DebuggerSide
    <2>1. /\ UNCHANGED uiVars
          /\ rx' # <<>> => rx' = rx
          /\ KeysIn(input) \subseteq KeysIn(input')
          /\ KeysIn(input') \cup OnLine' = KeysIn(input) \cup OnLine
      BY <1>2, <1>3, <1>4, LineKeys
    <2>2. UNCHANGED <<at, call, started, popup, keys, next_tx, typed, discarded,
                      running_>>
      BY <2>1, UiUnchanged
    <2>3. Held' = Held
      BY <2>1, <2>2 DEF Held
    <2>4. OnLine' = {} \/ OnLine' = OnLine
      BY <2>1 DEF OnLine
    <2> QED
      BY <1>2, <1>3, <2>1, <2>2, <2>3, <2>4 DEF KeysSafe
  <1>5. SUFFICES ASSUME DebuggerSide PROVE KeysSafe'
    BY <1>4
  <1>6. /\ Sends \/ Continues \/ Finishes \/ ReceiveDebug \/ Idles
        /\ input' = input
    BY <1>2, <1>5, DebuggerLine DEF SessionTypes, serverSide, computer, RunsAgain
  <1>7. /\ keys \in Seq(Nat) /\ next_tx \in Seq(Nat) /\ typed \in Nat
        /\ rx \in Seq(Request) /\ KeysPerFrame \in Nat /\ KeyTextSize \in Nat
    BY SizesAssumption, SessionAssumption DEF SessionTypes, SessionTypeOK, TypeOK
  <1>8. ~ started => keys = <<>> /\ ~ popup /\ ~ running_
    BY <1>2, <1>3 DEF KeysSafe, Orderly
  <1>9. CASE Sends
    <2>1. rx = <<>> /\ OnLine = {} /\ at # "wait"
      BY <1>2, <1>9 DEF Sends, Idle, OnLine
    <2>2. /\ UNCHANGED <<keys, popup, typed, discarded, running_, started>>
          /\ at' = "wait"
      BY <1>2, <1>5, <1>9, SentKeys DEF Sends, Orderly
    <2>3. PICK q \in Request :
            /\ rx' = Append(rx, q)
            /\ \/ /\ call' = "poll" /\ at = "poll" /\ running_
                  /\ q.keys = UserEvents /\ q.longest = LongestText
                  /\ next_tx' = <<>>
               \/ /\ call' = "step" /\ at = "draw"
                  /\ q.keys = UserEvents /\ q.longest = LongestText
                  /\ next_tx' = <<>>
               \/ /\ call' \notin {"poll", "step"}
                  /\ \/ call' = "upload" /\ upload_ > 0
                     \/ at = "draw"
                  /\ q.keys = <<>> /\ q.longest = 0
                  /\ next_tx' = next_tx
      BY <1>2, <1>5, <1>9, SentKeys DEF Orderly
    <2>4. rx' # <<>> /\ Head(rx') = q /\ OnLine' = KeysIn(q.keys)
      BY <2>1, <2>3 DEF OnLine
    <2>5. LongestText \in Nat /\ LongestText < KeyTextSize /\ 0 < KeyTextSize
      <3>1. LongestText \in {Len(keys), Len(next_tx)} /\ Len(keys) \in Nat
            /\ Len(next_tx) \in Nat
        BY <1>7 DEF LongestText
      <3>2. Len(keys) <= KeysPerFrame /\ Len(next_tx) <= KeysPerFrame
        BY <1>2, <1>3 DEF KeysSafe
      <3> QED
        BY <1>7, <3>1, <3>2 DEF KeysReach
    <2>6. KeysIn(UserEvents) =
            KeysIn(next_tx) \cup (IF running_ THEN KeysIn(keys) ELSE {})
      <3>1. <<>> \in Seq(Nat)
        OBVIOUS
      <3> QED
        BY <1>7, <3>1, NoKeys, KeysJoined DEF UserEvents
    <2>7. CASE call' = "poll"
      <3>1. /\ OnLine' = KeysIn(next_tx) \cup KeysIn(keys) /\ next_tx' = <<>>
            /\ q.longest = LongestText
        BY <2>3, <2>4, <2>6, <2>7
      <3>2. Held' = Held \cup KeysIn(keys)
        BY <1>6, <2>1, <2>2, <3>1, NoKeys DEF Held
      <3> QED
        BY <1>2, <1>3, <1>6, <1>7, <2>2, <2>4, <2>5, <2>7, <3>1, <3>2
           DEF KeysSafe
    <2>8. CASE call' = "step"
      <3>1. /\ OnLine' = KeysIn(next_tx) \cup (IF running_ THEN KeysIn(keys) ELSE {})
            /\ next_tx' = <<>> /\ q.longest = LongestText /\ at = "draw"
        BY <2>3, <2>4, <2>6, <2>8
      <3>2. Held' = Held \cup (IF running_ THEN KeysIn(keys) ELSE {})
        BY <1>6, <2>1, <2>2, <3>1, NoKeys DEF Held
      <3> QED
        BY <1>2, <1>3, <1>6, <1>7, <2>1, <2>2, <2>4, <2>5, <2>8, <3>1, <3>2, NoKeys
           DEF KeysSafe
    <2>9. CASE call' \notin {"poll", "step"}
      <3>1. OnLine' = {} /\ next_tx' = next_tx /\ q.longest = 0
        BY <2>3, <2>4, <2>9, NoKeys
      <3>2. Held' = Held
        BY <1>6, <2>1, <2>2, <3>1 DEF Held
      <3>3. popup \/ KeysIn(keys) \subseteq Held
        <4>1. CASE at = "draw"
          BY <1>2, <1>3, <4>1 DEF KeysSafe
        <4>2. CASE upload_ > 0
          <5>1. ~ started
            BY <1>2, <4>2 DEF Orderly, SessionTypes, SessionTypeOK
          <5> QED
            BY <1>8, <5>1, NoKeys
        <4> QED
          BY <2>3, <2>9, <4>1, <4>2
      <3> QED
        BY <1>2, <1>3, <1>6, <1>7, <2>2, <2>4, <2>5, <2>9, <3>1, <3>2, <3>3
           DEF KeysSafe
    <2> QED
      BY <2>7, <2>8, <2>9
  <1>10. CASE Continues \/ Finishes
    <2>1. rx = <<>> /\ at = "wait" /\ OnLine = {}
      BY <1>2, <1>10, LineReplied DEF OnLine
    <2>2. /\ UNCHANGED <<keys, popup, next_tx, typed, discarded>>
          /\ started => started'
          /\ \/ at' \in {"drawn", "terminated", "wait"}
             \/ at' = "poll" /\ call = "upload"
             \/ at' = "draw" /\ call = "init_read" /\ running_' = running_
             \/ at' = "watch" /\ call = "poll"
      BY <1>5, <1>10, ReadKeys
    <2>3. /\ OnLine' = {} /\ call' \notin {"poll", "step"}
          /\ rx' # <<>> => Head(rx').longest < KeyTextSize
      <3>1. CASE Finishes
        BY <2>1, <3>1 DEF Finishes, OnLine
      <3>2. CASE Continues
        <4>1. rx' = <<Ask(RequestOf[call'])>> /\ call' \notin {"poll", "step"}
          BY <2>1, <3>2 DEF Continues
        <4>2. Head(rx').keys = <<>> /\ Head(rx').longest = 0
          BY <4>1 DEF Ask
        <4> QED
          BY <1>7, <4>1, <4>2, NoKeys DEF OnLine, KeysReach
      <3> QED
        BY <1>10, <3>1, <3>2
    <2>4. Held' = Held
      BY <1>6, <2>1, <2>2, <2>3 DEF Held
    <2>5. popup \/ KeysIn(keys) \subseteq Held
      BY <1>2, <1>3, <2>1 DEF KeysSafe
    <2>6. CASE at' \in {"drawn", "wait"}
      BY <1>2, <1>3, <2>2, <2>3, <2>4, <2>5, <2>6 DEF KeysSafe
    <2>7. CASE at' = "poll"
      <3>1. ~ started
        BY <1>2, <2>2, <2>7 DEF Orderly, SetUp
      <3> QED
        BY <1>2, <1>3, <1>8, <2>2, <2>3, <2>4, <2>7, <3>1 DEF KeysSafe
    <2>8. CASE at' = "draw"
      <3>1. ~ started /\ ~ running_'
        BY <1>2, <2>2, <2>8, <1>8 DEF Orderly, SetUp
      <3> QED
        BY <1>2, <1>3, <2>2, <2>3, <2>4, <2>5, <2>8, <3>1 DEF KeysSafe
    <2>9. CASE at' = "watch"
      <3>1. next_tx = <<>> /\ KeysIn(keys) \subseteq KeysIn(input)
        BY <1>2, <1>3, <2>1, <2>2, <2>9 DEF KeysSafe
      <3> QED
        BY <1>2, <1>3, <1>6, <2>2, <2>3, <2>4, <2>5, <2>9, <3>1, NoKeys DEF KeysSafe
    <2> QED
      BY <1>1, <2>2, <2>6, <2>7, <2>8, <2>9
  <1>11. CASE ReceiveDebug
    <2>1. UNCHANGED <<at, call, started, popup, keys, next_tx, typed, discarded,
                      running_, rx>>
      BY <1>11 DEF ReceiveDebug, frame, model, past
    <2>2. OnLine' = OnLine /\ Held' = Held
      BY <1>6, <2>1 DEF OnLine, Held
    <2> QED
      BY <1>2, <1>3, <1>6, <2>1, <2>2 DEF KeysSafe
  <1>12. CASE Idles
    <2>1. rx = <<>> /\ rx' = <<>> /\ OnLine = {} /\ OnLine' = {} /\ call = "none"
          /\ call' = "none" /\ at # "wait"
      BY <1>2, <1>12 DEF Idles, Idle, OnLine, SessionTypes, Calling
    <2>2. \/ UploadStep /\ at' = "poll" /\ UNCHANGED <<model, past>>
          \/ PollSkipped \/ WatchStep \/ OpenKeypress \/ CancelKeypress
          \/ ClearNextTx \/ Keypress \/ EndFrame
      BY <1>1, <1>2, <1>5, <1>12, IdleSteps
    <2>3. CASE UploadStep /\ at' = "poll" /\ UNCHANGED <<model, past>>
      <3>1. at = "upload" /\ Held' = Held
        BY <1>6, <2>1, <2>3 DEF UploadStep, Held, model, past
      <3> QED
        BY <1>2, <1>3, <2>1, <2>3, <3>1 DEF KeysSafe, model, past
    <2>4. CASE PollSkipped
      <3>1. at = "poll" /\ at' = "watch" /\ ~ running_ /\ Held' = Held
        BY <1>6, <2>1, <2>4 DEF PollSkipped, Held, model, past
      <3> QED
        BY <1>2, <1>3, <2>1, <2>4, <3>1, NoKeys DEF KeysSafe, PollSkipped, model, past
    <2>5. CASE WatchStep
      <3>1. at = "watch" /\ at' = "draw" /\ Held' = Held
        BY <1>1, <1>6, <2>1, <2>5 DEF WatchStep, Held
      <3> QED
        BY <1>2, <1>3, <1>6, <2>1, <2>5, <3>1 DEF KeysSafe, WatchStep
    <2>6. CASE OpenKeypress
      <3>1. at' = "drawn" /\ Held' = Held /\ started /\ next_tx = <<>>
        BY <1>6, <2>1, <2>6 DEF OpenKeypress, Button, Key, Held, past
      <3> QED
        BY <1>2, <1>3, <2>1, <2>6, <3>1 DEF KeysSafe, OpenKeypress, past
    <2>7. CASE CancelKeypress
      <3>1. at' = "drawn" /\ Held' = Held /\ keys = <<>> /\ ~ popup'
        BY <1>6, <2>1, <2>7 DEF CancelKeypress, Held, past
      <3> QED
        BY <1>2, <1>3, <2>1, <2>7, <3>1, NoKeys DEF KeysSafe, CancelKeypress, past
    <2>8. CASE ClearNextTx
      <3>1. at = "draw" /\ at' = "drawn" /\ Held' = Held /\ next_tx' = <<>>
        BY <1>6, <2>1, <2>8, NoKeys DEF ClearNextTx, Button, Key, Held
      <3> QED
        BY <1>2, <1>3, <1>7, <2>1, <2>8, <3>1, NoKeys DEF KeysSafe, ClearNextTx
    <2>9. CASE Keypress
      <3>1. /\ at \in {"draw", "drawn"} /\ at' = at /\ popup /\ ~ popup'
            /\ next_tx' = keys /\ next_tx = <<>>
        BY <1>2, <1>3, <2>9 DEF Keypress, frame, KeysSafe
      <3>2. Held' = Held \cup KeysIn(keys)
        BY <1>6, <2>1, <2>9, <3>1, NoKeys DEF Keypress, Held, past
      <3> QED
        BY <1>2, <1>3, <1>6, <2>1, <2>9, <3>1, <3>2 DEF KeysSafe, Keypress, past
    <2>10. CASE EndFrame
      <3>1. /\ at \in {"draw", "drawn"} /\ at' = "upload"
            /\ ~ (popup /\ keys # <<>>) /\ Held' = Held
        BY <1>6, <2>1, <2>10 DEF EndFrame, Held
      <3>2. PICK n \in 0 .. Lesser(KeysPerFrame, MaxInput - typed) :
              /\ n > 0 => running_ \/ popup
              /\ keys' = [k \in 1 .. n |-> typed + k]
              /\ typed' = typed + n
        BY <2>10 DEF EndFrame
      <3>3. n \in Nat /\ n <= KeysPerFrame
        BY <1>7, <3>2, SizesAssumption DEF Lesser
      <3>4. Len(keys') = n /\ \A x : x \in KeysIn(keys') <=> x \in typed + 1 .. typed + n
        <4>1. Len(keys') = n /\ \A k \in 1 .. n : keys'[k] = typed + k
          BY <3>2, <3>3
        <4>2. KeysIn(keys') = {keys'[k] : k \in 1 .. n}
          BY <4>1 DEF KeysIn
        <4>3. KeysIn(keys') = {typed + k : k \in 1 .. n}
          BY <4>1, <4>2
        <4>4. ASSUME NEW x \in typed + 1 .. typed + n
              PROVE  x \in {typed + k : k \in 1 .. n}
          <5>1. x - typed \in 1 .. n /\ x = typed + (x - typed)
            BY <1>7, <3>3
          <5> QED
            BY <5>1
        <4>5. ASSUME NEW k \in 1 .. n
              PROVE  typed + k \in typed + 1 .. typed + n
          BY <1>7, <3>3
        <4>6. \A x : x \in {typed + k : k \in 1 .. n} <=> x \in typed + 1 .. typed + n
          BY <4>4, <4>5
        <4> QED
          BY <4>1, <4>3, <4>6
      <3>5. 1 .. typed = Held
        BY <1>2, <1>3, <3>1, NoKeys DEF KeysSafe
      <3>6. 1 .. typed' = Held' \cup KeysIn(keys')
        <4>1. \A x : x \in 1 .. typed' <=> x \in 1 .. typed \/ x \in typed + 1 .. typed + n
          BY <1>7, <3>2, <3>3
        <4> QED
          BY <3>1, <3>4, <3>5, <4>1
      <3>7. keys' # <<>> => running_ \/ popup
        <4>1. n = 0 => keys' = <<>>
          BY <3>2
        <4> QED
          BY <3>2, <3>3, <4>1
      <3>8. UNCHANGED <<popup, next_tx, running_, started>>
        BY <2>10 DEF EndFrame
      <3>9. running_ => started
        BY <1>2 DEF Orderly
      <3> QED
        BY <1>2, <1>3, <2>1, <3>1, <3>3, <3>4, <3>6, <3>7, <3>8, <3>9 DEF KeysSafe
    <2> QED
      BY <2>2, <2>3, <2>4, <2>5, <2>6, <2>7, <2>8, <2>9, <2>10
  <1> QED
    BY <1>6, <1>9, <1>10, <1>11, <1>12

\* KeysReachTheComputer: when a frame begins, every key typed is with the
\* computer, waits in the window or in next_tx, or was taken back by the user:
\* no call that returns forgets one on the line.  Of the hypotheses, one is that
\* the computer takes keys at all; the other is that the keys of a frame fit in
\* the text of one keypress (8 bytes in the protocol), without which nanopb
\* refuses the request that carries them.
THEOREM KeysReachTheComputer == KeysReach => (SessionSpec => []NoKeyLost)
  <1> DEFINE Inv == SessionTypes /\ Orderly /\ KeysSafe
  <1> SUFFICES ASSUME KeysReach PROVE SessionSpec => []NoKeyLost
    OBVIOUS
  <1>1. SessionInit => Inv
    <2> SUFFICES ASSUME SessionInit PROVE Inv
      OBVIOUS
    <2>1. call = "none" /\ rx = <<>> /\ at = "draw" /\ ~ popup /\ ~ running_
          /\ keys = <<>> /\ next_tx = <<>> /\ input = <<>> /\ discarded = {}
          /\ typed = 0
      BY DEF SessionInit, Init
    <2>2. Held = {} /\ OnLine = {} /\ 1 .. typed = {} /\ Len(<<>>) <= KeysPerFrame
      BY <2>1, NoKeys, SessionAssumption DEF Held, OnLine
    <2> QED
      BY <2>1, <2>2, NoKeys, SessionTypesInit 
         DEF SessionInit, Orderly, SetUp, KeysSafe, Gone
  <1>2. Agreement /\ Inv /\ [SessionNext]_vars => Inv'
    BY SessionTypesNext, OrderlyNext, KeysSafeNext DEF Agreement
  <1>3. Agreement /\ Inv => NoKeyLost
    <2> SUFFICES ASSUME Agreement, Inv, at = "upload", edits = 0, restarts = 0
                 PROVE  1 .. typed = KeysIn(input) \cup KeysIn(next_tx) \cup KeysIn(keys)
                                     \cup discarded
      BY DEF NoKeyLost
    <2>1. OnLine = {}
      BY DEF Agreement, Agreed, InStep, Idle, OnLine
    <2> QED
      BY <2>1 DEF KeysSafe, Held, Undisturbed
  <1> QED
    BY <1>1, <1>2, <1>3, AgreementHolds, PTL DEF SessionSpec
================================================================================
