---------------------------- MODULE IoUringProofs ----------------------------
(***************************************************************************)
(* Proofs about IoUringStreamEngine for every queue depth, every number of *)
(* calls and bytes, and whatever faults the constants allow.               *)
(*                                                                         *)
(* The argument: until a call is disturbed, the ring holds what the call   *)
(* in progress has submitted and not taken yet, and nothing else.          *)
(***************************************************************************)
EXTENDS IoUringStreamEngine, SequenceTheorems, TLAPS

-----------------------------------------------------------------------------
(* The inductive invariant.                                                *)

Calls == [op : {"idle", "read", "write", "wait"},
          saw_poll : BOOLEAN, saw_timeout : BOOLEAN, ready : BOOLEAN]

Completions == [request : Request, result : Int]

\* The type of every variable that the properties are about.
TypeOK ==
  /\ engine \in {"open", "ended", "closed"}
  /\ calls \in Nat /\ call \in Calls
  /\ call.op = "idle" => call = Idle
  /\ prepared \in Seq(Request) /\ in_flight \subseteq Request
  /\ completions \in Seq(Completions)
  /\ available \in Nat
  /\ peer_closed \in BOOLEAN /\ read_shut \in BOOLEAN /\ write_shut \in BOOLEAN
  /\ disturbed \in BOOLEAN

\* A request of the call in progress.
Own(op) == [call |-> calls, op |-> op]

PollResults == {1, CANCELED}
TimeoutResults == {CANCELED, ETIME, NOENT}

\* A request of read() or write() is with the kernel, or its completion is in
\* the ring.
SingleInRing(ops, results) ==
  \E op \in ops :
    \/ in_flight = {Own(op)} /\ completions = << >>
    \/ /\ in_flight = {}
       /\ \E result \in results : completions = <<Completion(Own(op), result)>>

\* The same of the two requests of a wait; the timeout counts as seen when
\* there is none.
PairInRing ==
  \E poll \in Polls, timeout \in {"timeout", "timeout_never"} :
    \/ /\ completions = << >> /\ ~call.saw_poll
       /\ in_flight = {Own(poll)} \cup (IF call.saw_timeout THEN {} ELSE {Own(timeout)})
    \/ /\ in_flight = {}
       /\ \E result \in PollResults, other \in TimeoutResults :
            LET first == Completion(Own(poll), result)
                second == Completion(Own(timeout), other)
            IN  completions \in
                  IF call.saw_poll /\ call.saw_timeout THEN {<< >>}
                  ELSE IF call.saw_poll THEN {<<second>>}
                  ELSE IF call.saw_timeout THEN {<<first>>}
                  ELSE {<<first, second>>, <<second, first>>}

\* What the ring holds until the engine is disturbed.
RingInv ==
  ~disturbed =>
    /\ prepared = << >>
    /\ call.op = "idle" => in_flight = {} /\ completions = << >>
    /\ call.op = "read" =>
         SingleInRing({"recv"}, {result \in Int : result = 0 => peer_closed \/ read_shut})
    /\ call.op = "write" => SingleInRing({"send"}, Int)
    /\ call.op = "wait" => PairInRing

\* What read() and write() reported, and that an engine ends for a reason.
OutcomeInv ==
  ~disturbed =>
    /\ CountIsOwn /\ EndOfStreamIsReal
    /\ engine = "ended" => peer_closed \/ read_shut

IInv == TypeOK /\ RingInv /\ OutcomeInv

-----------------------------------------------------------------------------
(* The engine's steps.                                                     *)

LEMMA InitIInv == Init => IInv
<1>. SUFFICES ASSUME Init PROVE IInv
  OBVIOUS
<1>1. Idle \in Calls
  BY DEF Idle, Calls
<1>2. prepared \in Seq(Request) /\ completions \in Seq(Completions)
  BY DEF Init
<1>3. TypeOK
  BY <1>1, <1>2 DEF Init, TypeOK
<1>4. RingInv /\ OutcomeInv
  BY DEF Init, RingInv, OutcomeInv, Idle, CountIsOwn, EndOfStreamIsReal
<1>. QED
  BY <1>3, <1>4 DEF IInv

\* A call that submits requests: while nothing is disturbed they are all that
\* is in the ring.
LEMMA StartStep ==
  ASSUME IInv, NEW op \in {"read", "write", "wait"}, NEW requests \in Seq(Request),
         Start(op, requests)
  PROVE  /\ TypeOK' /\ OutcomeInv'
         /\ calls' = calls + 1
         /\ ~disturbed' => /\ prepared' = << >> /\ completions' = << >>
                           /\ in_flight' = ToSet(requests)
                           /\ call'.op = op /\ ~call'.saw_poll
                           /\ call'.saw_timeout <=>
                                \A request \in ToSet(requests) : request.op \notin Timeouts
                           /\ \A request \in ToSet(requests) :
                                request.op \notin {"send_zc", "timeout_invalid"}
<1>1. /\ call = Idle /\ call.op = "idle" /\ calls \in Nat /\ calls' = calls + 1
      /\ UNCHANGED <<engine, ring, completions, socket_vars>>
      /\ Submits(op, requests)
  BY DEF IInv, TypeOK, Start, Begins, Idle
<1>2. TypeOK'
  <2>1. call' \in Calls /\ (call'.op = "idle" => call' = Idle)
    BY <1>1 DEF IInv, TypeOK, Submits, Calls, Idle
  <2>2. prepared' \in Seq(Request)
    <3>1. \/ prepared' = << >> \/ prepared' = prepared \o requests
          \/ /\ Len(prepared) + Len(requests) > QueueDepth
             /\ prepared' = prepared \o SubSeq(requests, 1, QueueDepth - Len(prepared))
      BY <1>1 DEF Submits
    <3>2. CASE /\ Len(prepared) + Len(requests) > QueueDepth
               /\ prepared' = prepared \o SubSeq(requests, 1, QueueDepth - Len(prepared))
      <4>1. QueueDepth - Len(prepared) \in Int /\ QueueDepth - Len(prepared) <= Len(requests)
        BY <3>2, EngineAssumption DEF IInv, TypeOK
      <4>2. \A i \in 1..(QueueDepth - Len(prepared)) : requests[i] \in Request
        BY <4>1, ElementOfSeq
      <4>3. SubSeq(requests, 1, QueueDepth - Len(prepared)) \in Seq(Request)
        BY <4>1, <4>2, SubSeqProperties
      <4>. QED
        BY <3>2, <4>3, ConcatProperties DEF IInv, TypeOK
    <3>3. prepared \o requests \in Seq(Request) /\ << >> \in Seq(Request)
      BY ConcatProperties DEF IInv, TypeOK
    <3>. QED
      BY <3>1, <3>2, <3>3
  <2>3. in_flight' \subseteq Request
    <3>1. ToSet(prepared) \subseteq Request /\ ToSet(requests) \subseteq Request
      BY DEF IInv, TypeOK, ToSet
    <3>. QED
      BY <1>1, <3>1 DEF IInv, TypeOK, Submits
  <2>4. disturbed' \in BOOLEAN
    BY <1>1 DEF IInv, TypeOK, Submits
  <2>. QED
    BY <1>1, <2>1, <2>2, <2>3, <2>4 DEF IInv, TypeOK, socket_vars
<1>3. ASSUME ~disturbed'
      PROVE  /\ ~disturbed /\ outcome' = outcome
             /\ prepared' = << >> /\ completions' = << >>
             /\ in_flight' = ToSet(requests)
             /\ call'.op = op /\ ~call'.saw_poll
             /\ call'.saw_timeout <=>
                  \A request \in ToSet(requests) : request.op \notin Timeouts
             /\ \A request \in ToSet(requests) :
                  request.op \notin {"send_zc", "timeout_invalid"}
  <2>1. /\ in_flight' = in_flight \cup ToSet(prepared) \cup ToSet(requests)
        /\ prepared' = << >>
        /\ call' = [Idle EXCEPT !.op = op,
                      !.saw_timeout = \A request \in ToSet(requests) : request.op \notin Timeouts]
        /\ ~disturbed /\ UNCHANGED outcome
        /\ \A request \in ToSet(requests) : request.op \notin {"send_zc", "timeout_invalid"}
    BY <1>1, <1>3 DEF Submits
  <2>2. prepared = << >> /\ in_flight = {} /\ completions = << >>
    BY <1>1, <2>1 DEF IInv, RingInv
  <2>3. ToSet(prepared) = {}
    BY <2>2 DEF ToSet
  <2>. QED
    BY <1>1, <2>1, <2>2, <2>3 DEF Idle
<1>4. OutcomeInv'
  BY <1>1, <1>3 DEF IInv, OutcomeInv, CountIsOwn, EndOfStreamIsReal, socket_vars
<1>. QED
  BY <1>1, <1>2, <1>3, <1>4

\* The requests of a call carry its number.
LEMMA TaggedRequest ==
  ASSUME IInv, NEW op \in {"recv", "send", "send_zc"} \cup Polls \cup Timeouts
  PROVE  /\ Tagged(op) \in Request /\ Tagged(op).op = op
         /\ <<Tagged(op)>> \in Seq(Request)
         /\ ToSet(<<Tagged(op)>>) = {Tagged(op)}
<1>1. Tagged(op) \in Request /\ Tagged(op).op = op
  BY DEF IInv, TypeOK, Tagged, Request
<1>. QED
  BY <1>1 DEF ToSet

\* read(), and write() and writev() without zero copy, submit one request.
LEMMA SingleStep ==
  ASSUME IInv, NEW op \in {"read", "write"}, NEW sqe \in {"recv", "send", "send_zc"},
         Start(op, <<Tagged(sqe)>>), op = "read" <=> sqe = "recv"
  PROVE  IInv'
<1>1. /\ TypeOK' /\ OutcomeInv' /\ calls' = calls + 1
      /\ ~disturbed' => /\ prepared' = << >> /\ completions' = << >>
                        /\ in_flight' = {Tagged(sqe)} /\ call'.op = op /\ sqe # "send_zc"
  BY StartStep, TaggedRequest
<1>2. Tagged(sqe) = Own(sqe)'
  BY <1>1 DEF Tagged, Own
<1>3. RingInv'
  BY <1>1, <1>2 DEF RingInv, SingleInRing
<1>. QED
  BY <1>1, <1>3 DEF IInv

LEMMA ReadWriteStep == ASSUME IInv, Read \/ Write PROVE IInv'
  BY SingleStep DEF Read, Write

\* The waits submit a poll, and a timeout linked to it.
LEMMA WaitStep == ASSUME IInv, NEW poll \in Polls, Wait(poll) PROVE IInv'
<1>1. CASE Start("wait", <<Tagged(poll)>>)
  <2>1. /\ TypeOK' /\ OutcomeInv' /\ calls' = calls + 1
        /\ ~disturbed' => /\ prepared' = << >> /\ completions' = << >>
                          /\ in_flight' = {Tagged(poll)} /\ call'.op = "wait"
                          /\ ~call'.saw_poll /\ call'.saw_timeout
    BY <1>1, StartStep, TaggedRequest DEF Polls, Timeouts
  <2>2. Tagged(poll) = Own(poll)'
    BY <2>1 DEF Tagged, Own
  <2>3. RingInv'
    BY <2>1, <2>2 DEF RingInv, PairInRing
  <2>. QED
    BY <2>1, <2>3 DEF IInv
<1>2. ASSUME NEW timeout \in Timeouts, Start("wait", <<Tagged(poll), Tagged(timeout)>>)
      PROVE  IInv'
  <2>. DEFINE requests == <<Tagged(poll), Tagged(timeout)>>
  <2>1. /\ Tagged(poll) \in Request /\ Tagged(timeout) \in Request
        /\ Tagged(poll).op = poll /\ Tagged(timeout).op = timeout
    BY TaggedRequest
  <2>2. requests \in Seq(Request) /\ ToSet(requests) = {Tagged(poll), Tagged(timeout)}
    BY <2>1 DEF ToSet
  <2>3. Start("wait", requests)
    BY <1>2
  <2>. HIDE DEF requests
  <2>4. /\ TypeOK' /\ OutcomeInv' /\ calls' = calls + 1
        /\ ~disturbed' => /\ prepared' = << >> /\ completions' = << >>
                          /\ in_flight' = {Tagged(poll), Tagged(timeout)}
                          /\ call'.op = "wait" /\ ~call'.saw_poll /\ ~call'.saw_timeout
                          /\ timeout # "timeout_invalid"
    BY <2>1, <2>2, <2>3, StartStep
  <2>5. Tagged(poll) = Own(poll)' /\ Tagged(timeout) = Own(timeout)'
    BY <2>4 DEF Tagged, Own
  <2>6. ASSUME ~disturbed' PROVE PairInRing'
    <3>1. /\ poll \in Polls /\ timeout \in {"timeout", "timeout_never"}
          /\ completions' = << >> /\ ~call'.saw_poll
          /\ in_flight' = {Own(poll)'} \cup {Own(timeout)'}
      BY <2>4, <2>5, <2>6 DEF Timeouts
    <3>. QED
      BY <2>4, <2>6, <3>1 DEF PairInRing
  <2>7. RingInv'
    BY <2>4, <2>6 DEF RingInv
  <2>. QED
    BY <2>4, <2>7 DEF IInv
<1>. QED
  BY <1>1, <1>2 DEF Wait, Timeouts

\* Taking a completion off the ring.
LEMMA TakeStep ==
  ASSUME TypeOK, Take
  PROVE  /\ Head(completions) \in Completions
         /\ completions' \in Seq(Completions)
         /\ \A completion : completions = <<completion>> =>
              Head(completions) = completion /\ completions' = << >>
  BY HeadTailProperties DEF TypeOK, Take

\* What a call that returns leaves of itself.
LEMMA FinishStep ==
  ASSUME NEW status, NEW bytes, NEW own, Finish(status, bytes, own)
  PROVE  /\ call' = Idle /\ call' \in Calls
         /\ call'.op = "idle"
         /\ outcome'.op = call.op /\ outcome'.status = status /\ outcome'.own = own
  BY DEF Finish, Outcome, Idle, Calls

LEMMA ReadCompletesStep == ASSUME IInv, ReadCompletes PROVE IInv'
<1>. DEFINE completion == Head(completions)
            own == completion.request = [call |-> calls, op |-> "recv"]
            status == CASE completion.result > 0 -> "bytes"
                        [] completion.result = 0 -> "end_of_stream"
                        [] completion.result = AGAIN -> "would_block"
                        [] OTHER -> "error"
<1>1. /\ call.op = "read" /\ Take
      /\ Finish(status, IF completion.result > 0 THEN completion.result ELSE 0, own)
      /\ engine' = IF completion.result = 0 THEN "ended" ELSE engine
      /\ UNCHANGED <<calls, prepared, in_flight, disturbed, available,
                     peer_closed, read_shut, write_shut>>
  BY DEF ReadCompletes, socket_vars
<1>2. completion \in Completions
  BY <1>1, TakeStep DEF IInv
<1>3. /\ status = "bytes" => completion.result > 0
      /\ status = "end_of_stream" => completion.result = 0
  BY <1>2 DEF Completions, AGAIN
<1>4. ASSUME ~disturbed
      PROVE  /\ prepared = << >> /\ in_flight = {} /\ completions' = << >>
             /\ own
             /\ completion.result = 0 => peer_closed \/ read_shut
  <2>1. prepared = << >>
        /\ SingleInRing({"recv"}, {result \in Int : result = 0 => peer_closed \/ read_shut})
    BY <1>1, <1>4 DEF IInv, RingInv
  <2>2. PICK result \in {result \in Int : result = 0 => peer_closed \/ read_shut} :
          in_flight = {} /\ completions = <<Completion(Own("recv"), result)>>
    BY <1>1, <2>1 DEF SingleInRing, Take
  <2>3. completion = Completion(Own("recv"), result) /\ completions' = << >>
    BY <1>1, <2>2, TakeStep DEF IInv
  <2>. QED
    BY <2>1, <2>2, <2>3 DEF Completion, Own
<1>. HIDE DEF status, own, completion
<1>5. /\ call' = Idle /\ call' \in Calls /\ call'.op = "idle"
      /\ outcome'.op = "read" /\ outcome'.status = status /\ outcome'.own = own
  BY <1>1, FinishStep
<1>6. TypeOK'
  BY <1>1, <1>5, TakeStep DEF IInv, TypeOK
<1>7. RingInv'
  BY <1>1, <1>4, <1>5 DEF RingInv
<1>8. OutcomeInv'
  BY <1>1, <1>3, <1>4, <1>5 DEF IInv, OutcomeInv, CountIsOwn, EndOfStreamIsReal
<1>. QED
  BY <1>6, <1>7, <1>8 DEF IInv

LEMMA WriteCompletesStep == ASSUME IInv, WriteCompletes PROVE IInv'
<1>. DEFINE completion == Head(completions)
            own == completion.request.call = calls /\ completion.request.op \in {"send", "send_zc"}
            status == CASE completion.result >= 0 -> "bytes"
                        [] completion.result = AGAIN -> "would_block"
                        [] OTHER -> "error"
<1>1. /\ call.op = "write" /\ Take
      /\ Finish(status, IF completion.result > 0 THEN completion.result ELSE 0, own)
      /\ UNCHANGED <<engine, calls, prepared, in_flight, disturbed, available,
                     peer_closed, read_shut, write_shut>>
  BY DEF WriteCompletes, socket_vars
<1>2. ASSUME ~disturbed
      PROVE  prepared = << >> /\ in_flight = {} /\ completions' = << >> /\ own
  <2>1. prepared = << >> /\ SingleInRing({"send"}, Int)
    BY <1>1, <1>2 DEF IInv, RingInv
  <2>2. PICK result \in Int : in_flight = {} /\ completions = <<Completion(Own("send"), result)>>
    BY <1>1, <2>1 DEF SingleInRing, Take
  <2>3. completion = Completion(Own("send"), result) /\ completions' = << >>
    BY <1>1, <2>2, TakeStep DEF IInv
  <2>. QED
    BY <2>1, <2>2, <2>3 DEF Completion, Own
<1>. HIDE DEF status, own, completion
<1>3. /\ call' = Idle /\ call' \in Calls /\ call'.op = "idle"
      /\ outcome'.op = "write" /\ outcome'.status = status /\ outcome'.own = own
  BY <1>1, FinishStep
<1>4. TypeOK'
  BY <1>1, <1>3, TakeStep DEF IInv, TypeOK
<1>5. RingInv'
  BY <1>1, <1>2, <1>3 DEF RingInv
<1>6. OutcomeInv'
  BY <1>1, <1>2, <1>3 DEF IInv, OutcomeInv, CountIsOwn, EndOfStreamIsReal
<1>. QED
  BY <1>4, <1>5, <1>6 DEF IInv

\* What a round of a wait makes of the completion it takes.
LEMMA RoundStep ==
  ASSUME TypeOK, WaitTakes
  PROVE  \/ /\ Head(completions).request.call = calls
            /\ Head(completions).request.op \in Polls
            /\ Head(completions).result >= 0 \/ Head(completions).result = CANCELED
            /\ call' \in Calls /\ call'.op = "wait"
            /\ call'.saw_poll /\ call'.saw_timeout = call.saw_timeout
            /\ outcome' = outcome
         \/ /\ Head(completions).request.call = calls
            /\ Head(completions).request.op \in Timeouts
            /\ Head(completions).result \in {CANCELED, ETIME, NOENT}
            /\ call' \in Calls /\ call'.op = "wait"
            /\ call'.saw_timeout /\ call'.saw_poll = call.saw_poll
            /\ call'.ready = call.ready
            /\ outcome' = outcome
         \/ /\ call' = Idle /\ call' \in Calls /\ call'.op = "idle"
            /\ outcome'.op = "wait" /\ outcome'.status = "error"
            /\ ~ \/ /\ Head(completions).request.call = calls
                    /\ Head(completions).request.op \in Polls
                    /\ Head(completions).result >= 0 \/ Head(completions).result = CANCELED
                 \/ /\ Head(completions).request.call = calls
                    /\ Head(completions).request.op \in Timeouts
                    /\ Head(completions).result \in {CANCELED, ETIME, NOENT}
<1>. DEFINE completion == Head(completions)
<1>1. /\ call.op = "wait" /\ call \in Calls /\ Take
      /\ completion \in Completions
  BY TakeStep DEF WaitTakes, TypeOK
<1>2. \/ /\ TakeOwn(completion) /\ completion.request.op \in Polls
         /\ IF completion.result >= 0 \/ completion.result = CANCELED
              THEN /\ call' = [call EXCEPT !.saw_poll = TRUE, !.ready = @ \/ completion.result >= 0]
                   /\ UNCHANGED outcome
              ELSE Finish("error", 0, TRUE)
      \/ /\ TakeOwn(completion) /\ completion.request.op \in Timeouts
         /\ IF completion.result \in {CANCELED, ETIME, NOENT}
              THEN call' = [call EXCEPT !.saw_timeout = TRUE] /\ UNCHANGED outcome
              ELSE Finish("error", 0, TRUE)
      \/ /\ ~(TakeOwn(completion) /\ completion.request.op \in Polls \cup Timeouts)
         /\ Finish("error", 0, TRUE)
  BY DEF WaitTakes
<1>. HIDE DEF completion
<1>3. CASE /\ TakeOwn(completion) /\ completion.request.op \in Polls
           /\ completion.result >= 0 \/ completion.result = CANCELED
           /\ call' = [call EXCEPT !.saw_poll = TRUE, !.ready = @ \/ completion.result >= 0]
           /\ UNCHANGED outcome
  BY <1>1, <1>3 DEF Calls, TakeOwn, completion
<1>4. CASE /\ TakeOwn(completion) /\ completion.request.op \in Timeouts
           /\ completion.result \in {CANCELED, ETIME, NOENT}
           /\ call' = [call EXCEPT !.saw_timeout = TRUE] /\ UNCHANGED outcome
  BY <1>1, <1>4 DEF Calls, TakeOwn, completion
<1>5. CASE /\ ~ \/ /\ TakeOwn(completion) /\ completion.request.op \in Polls
                   /\ completion.result >= 0 \/ completion.result = CANCELED
                \/ /\ TakeOwn(completion) /\ completion.request.op \in Timeouts
                   /\ completion.result \in {CANCELED, ETIME, NOENT}
           /\ Finish("error", 0, TRUE)
  BY <1>1, <1>5, FinishStep DEF TakeOwn, completion
<1>6. Polls \cap Timeouts = {}
  BY DEF Polls, Timeouts
<1>. QED
  BY <1>2, <1>3, <1>4, <1>5, <1>6

LEMMA WaitTakesStep == ASSUME IInv, WaitTakes PROVE IInv'
<1>1. /\ call.op = "wait" /\ Take /\ ~(call.saw_poll /\ call.saw_timeout)
      /\ call \in Calls /\ calls \in Nat
      /\ UNCHANGED <<engine, calls, prepared, in_flight, disturbed, available,
                     peer_closed, read_shut, write_shut>>
  BY DEF IInv, TypeOK, WaitTakes, socket_vars
<1>2. TypeOK'
  BY <1>1, RoundStep, TakeStep DEF IInv, TypeOK
<1>3. OutcomeInv'
  BY <1>1, RoundStep DEF IInv, OutcomeInv, CountIsOwn, EndOfStreamIsReal
<1>4. ASSUME ~disturbed
      PROVE  prepared = << >> /\ call'.op = "wait" /\ PairInRing'
  <2>1. prepared = << >> /\ PairInRing /\ completions # << >>
    BY <1>1, <1>4 DEF IInv, RingInv, Take
  <2>2. PICK poll \in Polls, timeout \in {"timeout", "timeout_never"},
             result \in PollResults, other \in TimeoutResults :
          /\ in_flight = {}
          /\ LET first == Completion(Own(poll), result)
                 second == Completion(Own(timeout), other)
             IN  completions \in
                   IF call.saw_poll THEN {<<second>>}
                   ELSE IF call.saw_timeout THEN {<<first>>}
                   ELSE {<<first, second>>, <<second, first>>}
    BY <1>1, <2>1 DEF PairInRing
  <2>. DEFINE first == Completion(Own(poll), result)
              second == Completion(Own(timeout), other)
  <2>3. /\ first.request.call = calls /\ first.request.op \in Polls
        /\ first.result >= 0 \/ first.result = CANCELED
        /\ second.request.call = calls /\ second.request.op \in Timeouts
        /\ second.result \in {CANCELED, ETIME, NOENT}
        /\ first.request.op \notin Timeouts /\ second.request.op \notin Polls
    BY DEF Completion, Own, Polls, Timeouts, PollResults, TimeoutResults
  <2>4. Own(poll)' = Own(poll) /\ Own(timeout)' = Own(timeout)
    BY <1>1 DEF Own
  <2>. HIDE DEF first, second
  <2>5. CASE ~call.saw_poll /\ Head(completions) = first
             /\ completions' = IF call.saw_timeout THEN << >> ELSE <<second>>
    <3>1. call'.op = "wait" /\ call'.saw_poll /\ call'.saw_timeout = call.saw_timeout
      BY <2>3, <2>5, RoundStep DEF IInv
    <3>2. completions' \in IF call'.saw_poll /\ call'.saw_timeout THEN {<< >>}
                           ELSE IF call'.saw_poll THEN {<<second>>}
                           ELSE IF call'.saw_timeout THEN {<<first>>}
                           ELSE {<<first, second>>, <<second, first>>}
      BY <2>5, <3>1
    <3>. QED
      BY <1>1, <2>1, <2>2, <2>4, <3>1, <3>2 DEF PairInRing, first, second
  <2>6. CASE ~call.saw_timeout /\ Head(completions) = second
             /\ completions' = IF call.saw_poll THEN << >> ELSE <<first>>
    <3>1. call'.op = "wait" /\ call'.saw_timeout /\ call'.saw_poll = call.saw_poll
      BY <2>3, <2>6, RoundStep DEF IInv
    <3>2. completions' \in IF call'.saw_poll /\ call'.saw_timeout THEN {<< >>}
                           ELSE IF call'.saw_poll THEN {<<second>>}
                           ELSE IF call'.saw_timeout THEN {<<first>>}
                           ELSE {<<first, second>>, <<second, first>>}
      BY <2>6, <3>1
    <3>. QED
      BY <1>1, <2>1, <2>2, <2>4, <3>1, <3>2 DEF PairInRing, first, second
  <2>7. completions \in IF call.saw_poll THEN {<<second>>}
                        ELSE IF call.saw_timeout THEN {<<first>>}
                        ELSE {<<first, second>>, <<second, first>>}
    BY <2>2 DEF first, second
  <2>8. completions' = Tail(completions)
    BY <1>1 DEF Take
  <2>9. /\ Head(<<first>>) = first /\ Tail(<<first>>) = << >>
        /\ Head(<<second>>) = second /\ Tail(<<second>>) = << >>
        /\ Head(<<first, second>>) = first /\ Tail(<<first, second>>) = <<second>>
        /\ Head(<<second, first>>) = second /\ Tail(<<second, first>>) = <<first>>
    OBVIOUS
  <2>10. \/ call.saw_poll /\ ~call.saw_timeout /\ completions = <<second>>
         \/ call.saw_timeout /\ ~call.saw_poll /\ completions = <<first>>
         \/ ~call.saw_poll /\ ~call.saw_timeout
            /\ (completions = <<first, second>> \/ completions = <<second, first>>)
    BY <1>1, <2>7
  <2>. QED
    BY <2>5, <2>6, <2>8, <2>9, <2>10
<1>5. RingInv'
  <2>1. CASE ~disturbed
    BY <1>1, <1>4, <2>1 DEF RingInv
  <2>2. CASE disturbed
    BY <1>1, <2>2 DEF RingInv
  <2>. QED
    BY <2>1, <2>2
<1>. QED
  BY <1>2, <1>3, <1>5 DEF IInv

LEMMA WaitReturnsStep == ASSUME IInv, WaitReturns PROVE IInv'
<1>. DEFINE status == IF call.ready THEN "ready" ELSE "not_ready"
<1>1. /\ call.op = "wait" /\ call.saw_poll /\ call.saw_timeout
      /\ Finish(status, 0, TRUE)
      /\ UNCHANGED <<engine, calls, prepared, in_flight, completions, disturbed, available,
                     peer_closed, read_shut, write_shut>>
  BY DEF WaitReturns, socket_vars
<1>2. status \in {"ready", "not_ready"}
  OBVIOUS
<1>. HIDE DEF status
<1>3. call' = Idle /\ call' \in Calls /\ call'.op = "idle" /\ outcome'.status = status
  BY <1>1, FinishStep
<1>4. TypeOK' /\ OutcomeInv'
  BY <1>1, <1>2, <1>3 DEF IInv, TypeOK, OutcomeInv, CountIsOwn, EndOfStreamIsReal
<1>5. RingInv'
  BY <1>1, <1>3 DEF IInv, RingInv, PairInRing
<1>. QED
  BY <1>4, <1>5 DEF IInv

\* Once disturbed the ring may hold anything.
LEMMA InterruptedStep == ASSUME IInv, Interrupted PROVE IInv'
<1>1. /\ disturbed' /\ disturbed' \in BOOLEAN
      /\ Finish("error", 0, TRUE)
      /\ UNCHANGED <<engine, calls, prepared, in_flight, completions, available,
                     peer_closed, read_shut, write_shut>>
  BY DEF Interrupted, socket_vars
<1>2. call' = Idle /\ call' \in Calls
  BY <1>1, FinishStep
<1>3. TypeOK'
  BY <1>1, <1>2 DEF IInv, TypeOK
<1>. QED
  BY <1>1, <1>3 DEF IInv, RingInv, OutcomeInv

\* Shutting down, closing, and calls on an engine that is not open.
LEMMA IdleStep ==
  ASSUME IInv, ShutdownRead \/ ShutdownWrite \/ Close \/ CallOnClosed
  PROVE  IInv'
<1>1. CASE ShutdownRead \/ ShutdownWrite
  <2>1. /\ UNCHANGED <<engine, calls, call, prepared, in_flight, completions, available,
                       outcome, disturbed, peer_closed>>
        /\ call = Idle /\ call.op = "idle"
        /\ read_shut => read_shut'
        /\ read_shut' \in BOOLEAN /\ write_shut' \in BOOLEAN
    <3>1. CASE ShutdownRead
      BY <3>1 DEF IInv, TypeOK, ShutdownRead, engine_vars, Idle
    <3>2. CASE ShutdownWrite
      BY <3>2 DEF IInv, TypeOK, ShutdownWrite, engine_vars, Idle
    <3>. QED
      BY <1>1, <3>1, <3>2
  <2>2. TypeOK'
    BY <2>1 DEF IInv, TypeOK
  <2>3. RingInv'
    BY <2>1 DEF IInv, RingInv
  <2>4. OutcomeInv'
    BY <2>1 DEF IInv, OutcomeInv, CountIsOwn, EndOfStreamIsReal
  <2>. QED
    BY <2>2, <2>3, <2>4 DEF IInv
<1>2. CASE Close
  <2>1. << >> \in Seq(Request) /\ << >> \in Seq(Completions)
    OBVIOUS
  <2>2. TypeOK'
    BY <1>2, <2>1 DEF IInv, TypeOK, Close, socket_vars
  <2>3. RingInv' /\ OutcomeInv'
    BY <1>2 DEF IInv, TypeOK, RingInv, OutcomeInv, CountIsOwn, EndOfStreamIsReal, Close,
       socket_vars, Idle
  <2>. QED
    BY <2>2, <2>3 DEF IInv
<1>3. CASE CallOnClosed
  <2>1. /\ call = Idle /\ call.op = "idle" /\ engine # "open"
        /\ UNCHANGED <<engine, calls, call, prepared, in_flight, completions, disturbed,
                       available, peer_closed, read_shut, write_shut>>
        /\ outcome'.status # "bytes"
        /\ outcome'.status = "end_of_stream" => outcome'.own
    BY <1>3 DEF CallOnClosed, Outcome, socket_vars, Idle
  <2>2. TypeOK' /\ RingInv'
    BY <2>1 DEF IInv, TypeOK, RingInv
  <2>3. OutcomeInv'
    BY <2>1 DEF IInv, TypeOK, OutcomeInv, CountIsOwn, EndOfStreamIsReal
  <2>. QED
    BY <2>2, <2>3 DEF IInv
<1>. QED
  BY <1>1, <1>2, <1>3

-----------------------------------------------------------------------------
(* The kernel's steps, and the peer's.                                     *)

\* A completion the kernel posts.
LEMMA PostedType ==
  ASSUME TypeOK, NEW request \in Request, NEW result \in Int
  PROVE  /\ Completion(request, result) \in Completions
         /\ Append(completions, Completion(request, result)) \in Seq(Completions)
         /\ completions = << >> =>
              Append(completions, Completion(request, result)) = <<Completion(request, result)>>
<1>1. Completion(request, result) \in Completions
  BY DEF Completion, Completions
<1>. DEFINE completion == Completion(request, result)
<1>. HIDE DEF completion
<1>2. Append(completions, completion) \in Seq(Completions)
  BY <1>1, AppendProperties DEF TypeOK, completion
<1>3. completions = << >> => Append(completions, completion) = <<completion>>
  OBVIOUS
<1>. QED
  BY <1>1, <1>2, <1>3 DEF completion

\* Until a call is disturbed, the kernel works on requests of the call only,
\* and has posted nothing before the first of them completes.
LEMMA InFlight ==
  ASSUME IInv, ~disturbed, NEW request \in in_flight
  PROVE  /\ completions = << >>
         /\ \/ /\ call.op = "read" /\ request.op = "recv"
               /\ in_flight = {request} /\ request = Own("recv")
            \/ /\ call.op = "write" /\ request.op = "send"
               /\ in_flight = {request} /\ request = Own("send")
            \/ /\ call.op = "wait" /\ ~call.saw_poll
               /\ \E poll \in Polls, timeout \in {"timeout", "timeout_never"} :
                    in_flight = {Own(poll)} \cup (IF call.saw_timeout THEN {} ELSE {Own(timeout)})
<1>1. call.op \in {"read", "write", "wait"}
  BY DEF IInv, TypeOK, Calls, RingInv
<1>2. CASE call.op = "read"
  <2>1. SingleInRing({"recv"}, {result \in Int : result = 0 => peer_closed \/ read_shut})
    BY <1>2 DEF IInv, RingInv
  <2>2. in_flight = {Own("recv")} /\ completions = << >>
    BY <2>1 DEF SingleInRing
  <2>. QED
    BY <1>2, <2>2 DEF Own
<1>3. CASE call.op = "write"
  <2>1. SingleInRing({"send"}, Int)
    BY <1>3 DEF IInv, RingInv
  <2>2. in_flight = {Own("send")} /\ completions = << >>
    BY <2>1 DEF SingleInRing
  <2>. QED
    BY <1>3, <2>2 DEF Own
<1>4. CASE call.op = "wait"
  <2>1. PairInRing
    BY <1>4 DEF IInv, RingInv
  <2>. QED
    BY <1>4, <2>1 DEF PairInRing
<1>. QED
  BY <1>1, <1>2, <1>3, <1>4

\* The kernel leaves the engine's own state alone.
LEMMA KernelKeeps ==
  ASSUME IInv, UNCHANGED <<engine_vars, peer_closed, read_shut, write_shut>>
  PROVE  /\ OutcomeInv'
         /\ disturbed' = disturbed
         /\ disturbed => RingInv'
         /\ \A op : Own(op)' = Own(op)
<1>1. UNCHANGED <<engine, calls, call, prepared, outcome, disturbed>>
  BY DEF engine_vars
<1>. QED
  BY <1>1 DEF IInv, OutcomeInv, CountIsOwn, EndOfStreamIsReal, RingInv, Own

LEMMA CompleteRecvStep == ASSUME IInv, CompleteRecv PROVE IInv'
<1>1. PICK request \in in_flight, n \in 0..Size :
        /\ request.op = "recv" /\ n <= available
        /\ available' = available - n
        /\ in_flight' = in_flight \ {request}
        /\ completions' = Append(completions, Completion(request,
             IF n > 0 THEN n ELSE IF peer_closed \/ read_shut THEN 0 ELSE AGAIN))
        /\ UNCHANGED <<engine_vars, peer_sent, peer_closed, read_shut, write_shut>>
  BY DEF CompleteRecv
<1>. DEFINE result == IF n > 0 THEN n ELSE IF peer_closed \/ read_shut THEN 0 ELSE AGAIN
<1>2. /\ result \in Int /\ (result = 0 => peer_closed \/ read_shut)
      /\ available - n \in Nat /\ request \in Request
      /\ completions' = Append(completions, Completion(request, result))
      /\ UNCHANGED <<engine, calls, call, prepared, outcome, disturbed>>
  BY <1>1, EngineAssumption DEF IInv, TypeOK, AGAIN, engine_vars
<1>. HIDE DEF result
<1>3. TypeOK'
  BY <1>1, <1>2, PostedType DEF IInv, TypeOK
<1>4. ASSUME ~disturbed
      PROVE  RingInv'
  <2>1. /\ completions = << >> /\ call.op = "read" /\ in_flight = {request}
        /\ request = Own("recv")
    BY <1>1, <1>4, InFlight DEF Own, Polls
  <2>2. in_flight' = {} /\ completions' = <<Completion(Own("recv")', result)>>
    BY <1>1, <1>2, <2>1, PostedType, KernelKeeps DEF IInv
  <2>3. prepared' = << >> /\ call'.op = "read"
    BY <1>2, <1>4, <2>1 DEF IInv, RingInv
  <2>4. SingleInRing({"recv"}, {other \in Int : other = 0 => peer_closed \/ read_shut})'
    BY <1>1, <1>2, <2>2 DEF SingleInRing
  <2>. QED
    BY <2>3, <2>4 DEF RingInv
<1>. QED
  BY <1>1, <1>3, <1>4, KernelKeeps DEF IInv

LEMMA CompleteSendStep == ASSUME IInv, CompleteSend PROVE IInv'
<1>1. PICK request \in in_flight, result \in {AGAIN, FAILED} \cup (1..Size) :
        /\ request.op \in {"send", "send_zc"}
        /\ in_flight' = (in_flight \ {request}) \cup
             (IF request.op = "send_zc" /\ result > 0 THEN {[request EXCEPT !.op = "notif"]} ELSE {})
        /\ completions' = Append(completions, Completion(request, result))
        /\ UNCHANGED <<engine_vars, socket_vars>>
  BY DEF CompleteSend
<1>2. /\ result \in Int /\ request \in Request
      /\ [request EXCEPT !.op = "notif"] \in Request
      /\ UNCHANGED <<engine, calls, call, prepared, outcome, disturbed>>
      /\ UNCHANGED <<available, peer_closed, read_shut, write_shut>>
  BY <1>1, EngineAssumption DEF IInv, TypeOK, Request, AGAIN, FAILED, engine_vars, socket_vars
<1>3. TypeOK'
  BY <1>1, <1>2, PostedType DEF IInv, TypeOK
<1>4. ASSUME ~disturbed
      PROVE  RingInv'
  <2>1. /\ completions = << >> /\ call.op = "write" /\ in_flight = {request}
        /\ request = Own("send") /\ request.op = "send"
    BY <1>1, <1>4, InFlight DEF Own, Polls
  <2>2. in_flight' = {} /\ completions' = <<Completion(Own("send")', result)>>
    BY <1>1, <1>2, <2>1, PostedType, KernelKeeps DEF IInv
  <2>3. prepared' = << >> /\ call'.op = "write"
    BY <1>2, <1>4, <2>1 DEF IInv, RingInv
  <2>4. SingleInRing({"send"}, Int)'
    BY <1>2, <2>2 DEF SingleInRing
  <2>. QED
    BY <2>3, <2>4 DEF RingInv
<1>. QED
  BY <1>1, <1>2, <1>3, <1>4, KernelKeeps DEF IInv

LEMMA CompleteNotifStep == ASSUME IInv, CompleteNotif PROVE IInv'
<1>1. PICK request \in in_flight :
        /\ request.op = "notif"
        /\ in_flight' = in_flight \ {request}
        /\ completions' = Append(completions, Completion(request, 0))
        /\ UNCHANGED <<engine_vars, socket_vars>>
  BY DEF CompleteNotif
<1>2. /\ request \in Request
      /\ UNCHANGED <<engine, calls, call, prepared, outcome, disturbed>>
      /\ UNCHANGED <<available, peer_closed, read_shut, write_shut>>
  BY <1>1 DEF IInv, TypeOK, engine_vars, socket_vars
<1>3. TypeOK'
  BY <1>1, <1>2, PostedType DEF IInv, TypeOK
<1>4. disturbed
  BY <1>1, InFlight DEF Own, Polls
<1>. QED
  BY <1>1, <1>2, <1>3, <1>4, KernelKeeps DEF IInv

\* The poll of a wait and its timeout complete together.
LEMMA CompletePairStep ==
  ASSUME IInv, NEW request \in in_flight, request.op \in Polls,
         NEW poll_result \in Int, NEW timeout_result \in Int,
         CompletePair(request, poll_result, timeout_result),
         ~disturbed => poll_result \in PollResults /\ timeout_result \in TimeoutResults,
         UNCHANGED <<engine_vars, socket_vars>>
  PROVE  IInv'
<1>. DEFINE first == Completion(request, poll_result)
<1>1. /\ UNCHANGED <<engine, calls, call, prepared, outcome, disturbed>>
      /\ UNCHANGED <<available, peer_closed, read_shut, write_shut>>
      /\ request \in Request /\ LinkedTimeouts(request) \subseteq Request
  BY DEF IInv, TypeOK, LinkedTimeouts, engine_vars, socket_vars
<1>2. /\ in_flight' = in_flight \ ({request} \cup LinkedTimeouts(request))
      /\ \/ /\ LinkedTimeouts(request) = {}
            /\ completions' = Append(completions, first)
         \/ \E timeout \in LinkedTimeouts(request) :
              completions' \in
                {completions \o <<first, Completion(timeout, timeout_result)>>,
                 completions \o <<Completion(timeout, timeout_result), first>>}
  BY DEF CompletePair
<1>. HIDE DEF first
<1>3. completions' \in Seq(Completions)
  <2>1. first \in Completions /\ Append(completions, first) \in Seq(Completions)
    BY <1>1, PostedType DEF IInv, first
  <2>2. ASSUME NEW timeout \in LinkedTimeouts(request)
        PROVE  /\ completions \o <<first, Completion(timeout, timeout_result)>> \in Seq(Completions)
               /\ completions \o <<Completion(timeout, timeout_result), first>> \in Seq(Completions)
    <3>. DEFINE second == Completion(timeout, timeout_result)
    <3>1. second \in Completions
      BY <1>1, <2>2, PostedType DEF IInv
    <3>. HIDE DEF second
    <3>2. <<first, second>> \in Seq(Completions) /\ <<second, first>> \in Seq(Completions)
      BY <2>1, <3>1
    <3>3. /\ completions \o <<first, second>> \in Seq(Completions)
          /\ completions \o <<second, first>> \in Seq(Completions)
      BY <3>2, ConcatProperties DEF IInv, TypeOK
    <3>. QED
      BY <3>3 DEF second
  <2>. QED
    BY <1>2, <2>1, <2>2
<1>4. TypeOK'
  BY <1>1, <1>2, <1>3 DEF IInv, TypeOK
<1>5. ASSUME ~disturbed
      PROVE  RingInv'
  <2>1. completions = << >> /\ call.op = "wait" /\ ~call.saw_poll
    BY <1>5, InFlight DEF Polls
  <2>2. PICK poll \in Polls, timeout \in {"timeout", "timeout_never"} :
          in_flight = {Own(poll)} \cup (IF call.saw_timeout THEN {} ELSE {Own(timeout)})
    BY <1>5, <2>1, InFlight
  <2>3. request = Own(poll)
    BY <2>2 DEF Own, Polls
  <2>4. LinkedTimeouts(request) = IF call.saw_timeout THEN {} ELSE {Own(timeout)}
    BY <2>2, <2>3 DEF LinkedTimeouts, Own, Polls, Timeouts
  <2>5. in_flight' = {}
    BY <1>2, <2>2, <2>3, <2>4
  <2>. DEFINE second == Completion(Own(timeout), timeout_result)
  <2>6. completions' \in IF call.saw_timeout THEN {<<first>>}
                         ELSE {<<first, second>>, <<second, first>>}
    <3>1. CASE call.saw_timeout
      BY <1>1, <1>2, <2>1, <2>4, <3>1, PostedType DEF IInv, first
    <3>2. CASE ~call.saw_timeout
      <4>1. completions' \in {completions \o <<first, second>>, completions \o <<second, first>>}
        BY <1>2, <2>4, <3>2
      <4>. HIDE DEF second
      <4>. QED
        BY <2>1, <3>2, <4>1
    <3>. QED
      BY <3>1, <3>2
  <2>7. /\ call' = call /\ Own(poll)' = Own(poll) /\ Own(timeout)' = Own(timeout)
        /\ prepared' = << >>
    BY <1>1, <1>5 DEF Own, IInv, RingInv
  <2>8. poll_result \in PollResults /\ timeout_result \in TimeoutResults
    BY <1>5
  <2>9. PairInRing'
    BY <2>1, <2>3, <2>5, <2>6, <2>7, <2>8 DEF PairInRing, first
  <2>. QED
    BY <2>1, <2>7, <2>9 DEF RingInv
<1>. QED
  BY <1>1, <1>4, <1>5, KernelKeeps DEF IInv

LEMMA PollTimeoutStep ==
  ASSUME IInv, CompletePoll \/ TimeoutFires \/ TimeoutRefused
  PROVE  IInv'
<1>1. /\ 1 \in Int /\ CANCELED \in Int /\ ETIME \in Int /\ INVALID \in Int /\ NOENT \in Int
  BY DEF CANCELED, ETIME, INVALID, NOENT
<1>2. {1, CANCELED} \subseteq PollResults /\ {CANCELED, ETIME, NOENT} \subseteq TimeoutResults
  BY DEF PollResults, TimeoutResults
<1>3. CASE CompletePoll
  <2>1. PICK request \in in_flight, timeout_result \in {CANCELED, NOENT} :
          /\ request.op \in Polls /\ CompletePair(request, 1, timeout_result)
          /\ UNCHANGED <<engine_vars, socket_vars>>
    BY <1>3 DEF CompletePoll, Polls
  <2>. QED
    BY <1>1, <1>2, <2>1, CompletePairStep
<1>4. CASE TimeoutFires
  BY <1>1, <1>2, <1>4, CompletePairStep DEF TimeoutFires
<1>5. CASE TimeoutRefused
  <2>1. PICK request \in in_flight :
          /\ request.op \in Polls /\ Refused(request) /\ CompletePair(request, CANCELED, INVALID)
          /\ UNCHANGED <<engine_vars, socket_vars>>
    BY <1>5 DEF TimeoutRefused
  <2>2. disturbed
    BY <2>1, InFlight DEF Refused, LinkedTimeouts, Own, Polls, Timeouts
  <2>. QED
    BY <1>1, <2>1, <2>2, CompletePairStep
<1>. QED
  BY <1>3, <1>4, <1>5

LEMMA PeerStep == ASSUME IInv, PeerSends \/ PeerCloses PROVE IInv'
<1>1. /\ UNCHANGED <<engine, calls, call, prepared, in_flight, completions, outcome, disturbed,
                     read_shut, write_shut>>
      /\ peer_closed => peer_closed'
      /\ peer_closed' \in BOOLEAN /\ available' \in Nat
  <2>1. CASE PeerSends
    BY <2>1 DEF IInv, TypeOK, PeerSends, engine_vars
  <2>2. CASE PeerCloses
    BY <2>2 DEF IInv, TypeOK, PeerCloses, engine_vars
  <2>. QED
    BY <2>1, <2>2
<1>2. TypeOK'
  BY <1>1 DEF IInv, TypeOK
<1>3. OutcomeInv'
  BY <1>1 DEF IInv, OutcomeInv, CountIsOwn, EndOfStreamIsReal
<1>4. /\ SingleInRing({"recv"}, {result \in Int : result = 0 => peer_closed \/ read_shut})
           => SingleInRing({"recv"}, {result \in Int : result = 0 => peer_closed \/ read_shut})'
      /\ SingleInRing({"send"}, Int)' <=> SingleInRing({"send"}, Int)
      /\ PairInRing' <=> PairInRing
  BY <1>1 DEF SingleInRing, PairInRing, Own
<1>5. RingInv'
  BY <1>1, <1>4 DEF IInv, RingInv
<1>. QED
  BY <1>2, <1>3, <1>5 DEF IInv

-----------------------------------------------------------------------------
(* The theorems.                                                           *)

LEMMA NextIInv == ASSUME IInv, [Next]_vars PROVE IInv'
<1>1. CASE Engine
  BY <1>1, ReadWriteStep, WaitStep, ReadCompletesStep, WriteCompletesStep, WaitTakesStep,
     WaitReturnsStep, InterruptedStep, IdleStep DEF Engine, Polls
<1>2. CASE Kernel
  BY <1>2, CompleteRecvStep, CompleteSendStep, CompleteNotifStep, PollTimeoutStep DEF Kernel
<1>3. CASE PeerSends \/ PeerCloses
  BY <1>3, PeerStep
<1>4. CASE UNCHANGED vars
  <2>1. UNCHANGED <<engine, calls, call, prepared, in_flight, completions, outcome, disturbed,
                    available, peer_closed, read_shut, write_shut>>
    BY <1>4 DEF vars, engine_vars, socket_vars
  <2>2. TypeOK' /\ OutcomeInv'
    BY <2>1 DEF IInv, TypeOK, OutcomeInv, CountIsOwn, EndOfStreamIsReal
  <2>3. /\ \A ops, results : SingleInRing(ops, results)' <=> SingleInRing(ops, results)
        /\ PairInRing' <=> PairInRing
    BY <2>1 DEF SingleInRing, PairInRing, Own
  <2>4. RingInv'
    BY <2>1, <2>3 DEF IInv, RingInv
  <2>. QED
    BY <2>2, <2>4 DEF IInv
<1>. QED
  BY <1>1, <1>2, <1>3, <1>4 DEF Next

LEMMA Invariance == Spec => []IInv
<1>1. Init => IInv
  BY InitIInv
<1>2. IInv /\ [Next]_vars => IInv'
  BY NextIInv
<1>. QED
  BY <1>1, <1>2, PTL DEF Spec

\* Every variable keeps its type: submissions are requests, completions carry
\* the request they complete, and an idle call is the idle record.
THEOREM TypeCorrect == Spec => []TypeOK
<1>1. IInv => TypeOK
  BY DEF IInv
<1>. QED
  BY <1>1, Invariance, PTL

\* Unless a write without copy, a failed submission, an interrupted call or a
\* refused timeout came before it, a call that returns leaves nothing prepared,
\* nothing with the kernel and nothing to be taken from the ring.
THEOREM NothingLeftBehindAlways == Spec => []NothingLeftBehind
<1>1. IInv => NothingLeftBehind
  BY DEF IInv, RingInv, NothingLeftBehind, Idle
<1>. QED
  BY <1>1, Invariance, PTL

\* While nothing was left behind, what read() and write() report is the result
\* of their own request, and the end of the stream is reported for a reason.
THEOREM ResultsAreOwnAlways == Spec => []ResultsAreOwn
<1>1. IInv => ResultsAreOwn
  BY DEF IInv, OutcomeInv, ResultsAreOwn
<1>. QED
  BY <1>1, Invariance, PTL

\* However much earlier calls left in the ring, wait_for_poll() turns ready
\* only by the completion of a poll of its own call.
THEOREM ReadyIsOwnAlways == Spec => ReadyIsOwn
<1>. DEFINE Ready == call.op = "wait" /\ ~call.ready /\ call'.ready =>
                       Head(completions).request \in {[call |-> calls, op |-> "poll_in"],
                                                      [call |-> calls, op |-> "poll_out"]}
<1>1. ASSUME IInv, [Next]_vars, call.op = "wait", ~call.ready, call'.ready
      PROVE  Head(completions).request \in {[call |-> calls, op |-> "poll_in"],
                                            [call |-> calls, op |-> "poll_out"]}
  <2>1. call # Idle /\ call' # call /\ call' # Idle
    BY <1>1 DEF Idle
  <2>2. WaitTakes
    <3>1. CASE Kernel \/ PeerSends \/ PeerCloses
      BY <2>1, <3>1 DEF Kernel, CompleteRecv, CompleteSend, CompleteNotif, CompletePoll,
         TimeoutFires, TimeoutRefused, PeerSends, PeerCloses, engine_vars
    <3>2. CASE Engine
      BY <2>1, <3>2 DEF Engine, Read, Write, Wait, Start, Begins, ReadCompletes, WriteCompletes,
         WaitReturns, Interrupted, ShutdownRead, ShutdownWrite, Close, CallOnClosed, Finish
    <3>3. CASE UNCHANGED vars
      BY <2>1, <3>3 DEF vars, engine_vars
    <3>. QED
      BY <1>1, <3>1, <3>2, <3>3 DEF Next
  <2>3. /\ Head(completions).request.call = calls
        /\ Head(completions).request.op \in Polls
    BY <1>1, <2>1, <2>2, RoundStep DEF IInv
  <2>4. Head(completions) \in Completions
    BY <1>1, <2>2, TakeStep DEF IInv, WaitTakes
  <2>. QED
    BY <2>3, <2>4 DEF Completions, Request, Polls
<1>2. IInv /\ [Next]_vars => [Ready]_vars
  BY <1>1
<1>. HIDE DEF Ready
<1>3. Spec => [][Ready]_vars
  BY <1>2, Invariance, PTL DEF Spec
<1>. QED
  BY <1>3 DEF ReadyIsOwn, Ready

=============================================================================
