------------------------ MODULE IoUringStreamEngine ------------------------
(***************************************************************************)
(* IoUringStreamEngine: a byte stream over one socket and one io_uring.    *)
(* Every call submits its request and then takes completions off the ring: *)
(* read(), write() and writev() take the first that comes, the waits look  *)
(* at the tags.  The kernel, which this module models as far as the engine *)
(* relies on it, works on the requests on its own and posts completions.   *)
(*                                                                         *)
(* The calls are made by one thread.  A call returns early when            *)
(* io_uring_submit() fails or a signal interrupts io_uring_wait_cqe();     *)
(* the requests it leaves behind stay with the kernel.                     *)
(*                                                                         *)
(* A wait builds the timespec of its timeout in a block that ends before   *)
(* io_uring_submit() lets the kernel read it.  That is undefined: a build  *)
(* may keep the value or, as optimising compilers do, never store it.      *)
(***************************************************************************)
EXTENDS Integers, Sequences, FiniteSets

CONSTANTS
  QueueDepth,     \* IoUringOptions::queue_depth
  ZeroCopy,       \* writes above the threshold use send_zc
  SubmitFails,    \* io_uring_submit() may fail
  Interrupts,     \* signals may interrupt io_uring_wait_cqe()
  TimespecKept,   \* the build keeps the timespec beyond its block
  MaxCalls,       \* bound on the calls
  MaxBytes,       \* bound on the bytes the peer sends
  Size            \* most bytes one request moves

ASSUME EngineAssumption ==
  /\ QueueDepth \in Nat \ {0} /\ ZeroCopy \in BOOLEAN
  /\ SubmitFails \in BOOLEAN /\ Interrupts \in BOOLEAN /\ TimespecKept \in BOOLEAN
  /\ MaxCalls \in Nat /\ MaxBytes \in Nat /\ Size \in Nat \ {0}

VARIABLES
  engine,       \* "open", "ended" (open is FALSE) or "closed" (impl_ is null)
  ring,         \* whether the io_uring exists
  calls,        \* number of calls, the tag of the requests of each
  call,         \* the call in progress
  prepared,     \* requests in the submission queue, not submitted
  in_flight,    \* requests the kernel works on
  completions,  \* the completion queue
  available,    \* bytes the peer sent and no request received
  peer_sent, peer_closed, read_shut, write_shut,
  outcome,      \* what the last call returned, and whether from its own request
  disturbed     \* history: a call may have left requests or completions behind

engine_vars == <<engine, ring, calls, call, prepared, outcome, disturbed>>
socket_vars == <<available, peer_sent, peer_closed, read_shut, write_shut>>
vars == <<engine_vars, in_flight, completions, socket_vars>>

AGAIN == -1
CANCELED == -2
ETIME == -3
FAILED == -4
INVALID == -5
NOENT == -6

\* The timeout the caller asked for, one that is too far away, one refused.
Timeouts == {"timeout", "timeout_never", "timeout_invalid"}
Polls    == {"poll_in", "poll_out"}
Request  == [call : Nat, op : {"recv", "send", "send_zc", "notif"} \cup Polls \cup Timeouts]
Idle == [op |-> "idle", saw_poll |-> FALSE, saw_timeout |-> FALSE, ready |-> FALSE]

Init ==
  /\ engine = "open" /\ ring = TRUE /\ calls = 0 /\ call = Idle
  /\ prepared = << >> /\ in_flight = {} /\ completions = << >>
  /\ available = 0 /\ peer_sent = 0 /\ peer_closed = FALSE
  /\ read_shut = FALSE /\ write_shut = FALSE
  /\ outcome = [op |-> "none", status |-> "none", bytes |-> 0, own |-> TRUE]
  /\ disturbed = FALSE

-----------------------------------------------------------------------------
(* The engine.                                                             *)

ToSet(seq) == {seq[i] : i \in 1..Len(seq)}

Outcome(op, status, bytes, own) ==
  outcome' = [op |-> op, status |-> status, bytes |-> bytes, own |-> own]

\* A call on an engine that is not open does not reach the ring.
CallOnClosed ==
  /\ call = Idle /\ engine # "open"
  /\ \/ Outcome("read", "end_of_stream", 0, TRUE)
     \/ Outcome("write", "error", 0, TRUE)
     \/ Outcome("wait", "error", 0, TRUE)
  /\ UNCHANGED <<engine, ring, calls, call, prepared, in_flight, completions, disturbed, socket_vars>>

Begins == call = Idle /\ engine = "open" /\ calls < MaxCalls /\ calls' = calls + 1

\* io_uring_get_sqe() for each request, then io_uring_submit().
Submits(op, requests) ==
  \/ /\ Len(prepared) + Len(requests) <= QueueDepth
     /\ in_flight' = in_flight \cup ToSet(prepared) \cup ToSet(requests)
     /\ prepared' = << >>
     /\ call' = [Idle EXCEPT !.op = op,
                             !.saw_timeout = \A request \in ToSet(requests) : request.op \notin Timeouts]
     /\ disturbed' = (disturbed \/ \E request \in ToSet(requests) :
                                     request.op \in {"send_zc", "timeout_invalid"})
     /\ UNCHANGED outcome
  \/ /\ Len(prepared) + Len(requests) > QueueDepth
     /\ prepared' = prepared \o SubSeq(requests, 1, QueueDepth - Len(prepared))
     /\ Outcome(op, "exhausted", 0, TRUE)
     /\ disturbed' = TRUE
     /\ UNCHANGED <<call, in_flight>>
  \/ /\ SubmitFails /\ Len(prepared) + Len(requests) <= QueueDepth
     /\ prepared' = prepared \o requests
     /\ Outcome(op, "error", 0, TRUE)
     /\ disturbed' = TRUE
     /\ UNCHANGED <<call, in_flight>>

Start(op, requests) ==
  /\ Begins
  /\ Submits(op, requests)
  /\ UNCHANGED <<engine, ring, completions, socket_vars>>

Tagged(op) == [call |-> calls + 1, op |-> op]

Read == Start("read", <<Tagged("recv")>>)

\* write(), and writev() with something to write.
Write ==
  \/ Start("write", <<Tagged("send")>>)
  \/ ZeroCopy /\ Start("write", <<Tagged("send_zc")>>)

\* wait_until_readable() and wait_until_writable(), with and without timeout.
Wait(poll) ==
  \/ Start("wait", <<Tagged(poll)>>)
  \/ \E timeout \in IF TimespecKept THEN {"timeout"} ELSE Timeouts :
       Start("wait", <<Tagged(poll), Tagged(timeout)>>)

\* (Faulty variants, named after the definition they stand in for and the
\* fault, show that the properties can fail; no specification uses them.)
TakeOwn_FirstTag(completion) == TRUE

TakeOwn(completion) == completion.request.call = calls

Take == completions # << >> /\ completions' = Tail(completions)

Finish(status, bytes, own) ==
  /\ call' = Idle
  /\ Outcome(call.op, status, bytes, own)

ReadCompletes_NoAgain ==
  /\ call.op = "read" /\ Take
  /\ LET completion == Head(completions)
     IN  /\ IF completion.result > 0
              THEN Finish("bytes", completion.result, completion.request.call = calls)
              ELSE Finish("end_of_stream", 0, completion.request.call = calls)
         /\ engine' = IF completion.result > 0 THEN engine ELSE "ended"
  /\ UNCHANGED <<ring, calls, prepared, in_flight, disturbed, socket_vars>>

ReadCompletes ==
  /\ call.op = "read" /\ Take
  /\ LET completion == Head(completions)
         own == completion.request = [call |-> calls, op |-> "recv"]
     IN  /\ Finish(CASE completion.result > 0 -> "bytes"
                     [] completion.result = 0 -> "end_of_stream"
                     [] completion.result = AGAIN -> "would_block"
                     [] OTHER -> "error",
                   IF completion.result > 0 THEN completion.result ELSE 0, own)
         /\ engine' = IF completion.result = 0 THEN "ended" ELSE engine
  /\ UNCHANGED <<ring, calls, prepared, in_flight, disturbed, socket_vars>>

WriteCompletes ==
  /\ call.op = "write" /\ Take
  /\ LET completion == Head(completions)
         own == completion.request.call = calls /\ completion.request.op \in {"send", "send_zc"}
     IN  Finish(CASE completion.result >= 0 -> "bytes"
                  [] completion.result = AGAIN -> "would_block"
                  [] OTHER -> "error",
                IF completion.result > 0 THEN completion.result ELSE 0, own)
  /\ UNCHANGED <<engine, ring, calls, prepared, in_flight, disturbed, socket_vars>>

\* One round of the loop of a wait.
WaitTakes ==
  /\ call.op = "wait" /\ Take
  /\ ~(call.saw_poll /\ call.saw_timeout)
  /\ LET completion == Head(completions)
         request == completion.request
         result == completion.result
     IN  \/ /\ TakeOwn(completion) /\ request.op \in Polls
            /\ IF result >= 0 \/ result = CANCELED
                 THEN /\ call' = [call EXCEPT !.saw_poll = TRUE, !.ready = @ \/ result >= 0]
                      /\ UNCHANGED outcome
                 ELSE Finish("error", 0, TRUE)
         \/ /\ TakeOwn(completion) /\ request.op \in Timeouts
            /\ IF result \in {CANCELED, ETIME, NOENT}
                 THEN call' = [call EXCEPT !.saw_timeout = TRUE] /\ UNCHANGED outcome
                 ELSE Finish("error", 0, TRUE)
         \/ /\ ~(TakeOwn(completion) /\ request.op \in Polls \cup Timeouts)
            /\ Finish("error", 0, TRUE)
  /\ UNCHANGED <<engine, ring, calls, prepared, in_flight, disturbed, socket_vars>>

WaitReturns_Either ==
  /\ call.op = "wait" /\ (call.saw_poll \/ call.saw_timeout)
  /\ Finish(IF call.ready THEN "ready" ELSE "not_ready", 0, TRUE)
  /\ UNCHANGED <<engine, ring, calls, prepared, in_flight, completions, disturbed, socket_vars>>

WaitReturns ==
  /\ call.op = "wait" /\ call.saw_poll /\ call.saw_timeout
  /\ Finish(IF call.ready THEN "ready" ELSE "not_ready", 0, TRUE)
  /\ UNCHANGED <<engine, ring, calls, prepared, in_flight, completions, disturbed, socket_vars>>

\* io_uring_wait_cqe() returns -EINTR, which it does with an empty queue.
Interrupted ==
  /\ Interrupts
  /\ call # Idle /\ ~(call.saw_poll /\ call.saw_timeout)
  /\ completions = << >>
  /\ Finish("error", 0, TRUE)
  /\ disturbed' = TRUE
  /\ UNCHANGED <<engine, ring, calls, prepared, in_flight, completions, socket_vars>>

ShutdownRead ==
  /\ call = Idle /\ engine = "open"
  /\ read_shut' = TRUE
  /\ UNCHANGED <<engine_vars, in_flight, completions, available, peer_sent, peer_closed, write_shut>>

ShutdownWrite ==
  /\ call = Idle /\ engine = "open"
  /\ write_shut' = TRUE
  /\ UNCHANGED <<engine_vars, in_flight, completions, available, peer_sent, peer_closed, read_shut>>

\* close(), which the destructor calls: io_uring_queue_exit() only if open.
Close ==
  /\ call = Idle /\ engine # "closed"
  /\ engine' = "closed"
  /\ IF engine = "open"
       THEN ring' = FALSE /\ prepared' = << >> /\ in_flight' = {} /\ completions' = << >>
       ELSE UNCHANGED <<ring, prepared, in_flight, completions>>
  /\ UNCHANGED <<calls, call, outcome, disturbed, socket_vars>>

-----------------------------------------------------------------------------
(* The kernel and the peer.                                                *)

Completion(request, result) == [request |-> request, result |-> result]

\* The socket is non-blocking: with nothing to receive, -EAGAIN at once.
CompleteRecv ==
  \E request \in in_flight, n \in 0..Size :
    /\ request.op = "recv" /\ n <= available
    /\ n = 0 => available = 0
    /\ available' = available - n
    /\ in_flight' = in_flight \ {request}
    /\ completions' = Append(completions, Completion(request,
         IF n > 0 THEN n ELSE IF peer_closed \/ read_shut THEN 0 ELSE AGAIN))
    /\ UNCHANGED <<engine_vars, peer_sent, peer_closed, read_shut, write_shut>>

\* A zero-copy send posts a second completion when it is done with the bytes.
CompleteSend ==
  \E request \in in_flight, result \in {AGAIN, FAILED} \cup (1..Size) :
    /\ request.op \in {"send", "send_zc"}
    /\ write_shut => result = FAILED
    /\ in_flight' = (in_flight \ {request}) \cup
         (IF request.op = "send_zc" /\ result > 0 THEN {[request EXCEPT !.op = "notif"]} ELSE {})
    /\ completions' = Append(completions, Completion(request, result))
    /\ UNCHANGED <<engine_vars, socket_vars>>

CompleteNotif ==
  \E request \in in_flight :
    /\ request.op = "notif"
    /\ in_flight' = in_flight \ {request}
    /\ completions' = Append(completions, Completion(request, 0))
    /\ UNCHANGED <<engine_vars, socket_vars>>

LinkedTimeouts(poll) ==
  {request \in in_flight : request.call = poll.call /\ request.op \in Timeouts}

\* A poll and the timeout linked to it complete together.
CompletePair(poll, poll_result, timeout_result) ==
  LET first == Completion(poll, poll_result)
  IN  /\ in_flight' = in_flight \ ({poll} \cup LinkedTimeouts(poll))
      /\ \/ /\ LinkedTimeouts(poll) = {}
            /\ completions' = Append(completions, first)
         \/ \E timeout \in LinkedTimeouts(poll) :
              LET second == Completion(timeout, timeout_result)
              IN  completions' \in {completions \o <<first, second>>,
                                     completions \o <<second, first>>}

\* The kernel refuses an invalid timespec, and the poll linked to it, at once.
Refused(poll) == \E timeout \in LinkedTimeouts(poll) : timeout.op = "timeout_invalid"

Readable == available > 0 \/ peer_closed \/ read_shut

\* The timeout is canceled, or its timer fires too late and finds no poll.
CompletePoll ==
  \E request \in in_flight, timeout_result \in {CANCELED, NOENT} :
    /\ request.op = "poll_out" \/ (request.op = "poll_in" /\ Readable)
    /\ ~Refused(request)
    /\ timeout_result = NOENT => [request EXCEPT !.op = "timeout"] \in in_flight
    /\ CompletePair(request, 1, timeout_result)
    /\ UNCHANGED <<engine_vars, socket_vars>>

TimeoutFires ==
  \E request \in in_flight :
    /\ request.op \in Polls
    /\ [request EXCEPT !.op = "timeout"] \in in_flight
    /\ CompletePair(request, CANCELED, ETIME)
    /\ UNCHANGED <<engine_vars, socket_vars>>

TimeoutRefused ==
  \E request \in in_flight :
    /\ request.op \in Polls /\ Refused(request)
    /\ CompletePair(request, CANCELED, INVALID)
    /\ UNCHANGED <<engine_vars, socket_vars>>

PeerSends ==
  /\ peer_sent < MaxBytes /\ ~peer_closed
  /\ peer_sent' = peer_sent + 1 /\ available' = available + 1
  /\ UNCHANGED <<engine_vars, in_flight, completions, peer_closed, read_shut, write_shut>>

PeerCloses ==
  /\ ~peer_closed /\ peer_closed' = TRUE
  /\ UNCHANGED <<engine_vars, in_flight, completions, available, peer_sent, read_shut, write_shut>>

Kernel == CompleteRecv \/ CompleteSend \/ CompleteNotif \/ CompletePoll \/ TimeoutFires \/ TimeoutRefused

Engine ==
  \/ Read \/ Write \/ Wait("poll_in") \/ Wait("poll_out")
  \/ ReadCompletes \/ WriteCompletes \/ WaitTakes \/ WaitReturns \/ Interrupted
  \/ ShutdownRead \/ ShutdownWrite \/ Close \/ CallOnClosed

Next == Engine \/ Kernel \/ PeerSends \/ PeerCloses

Spec == Init /\ [][Next]_vars

\* The kernel completes what it can and its timers fire; a call that finds a
\* completion goes on.
FairSpec ==
  /\ Spec
  /\ WF_vars(Kernel)
  /\ WF_vars(ReadCompletes \/ WriteCompletes \/ WaitTakes \/ WaitReturns)

-----------------------------------------------------------------------------
(* Properties.                                                             *)

\* Between calls the ring is as the last call found it: no request that may
\* still touch a buffer the caller has taken back, no completion that the
\* next call would take for its own.  Zero-copy writes, failed submissions,
\* interrupted calls and refused timeouts break this.
NothingLeftBehind ==
  call = Idle /\ engine = "open" /\ ~disturbed =>
    prepared = << >> /\ in_flight = {} /\ completions = << >>

\* What read() and write() report is the result of their own request.
CountIsOwn == outcome.status = "bytes" => outcome.own

\* read() reports the end of the stream only when the peer closed or the
\* reading side was shut down, and on an engine that is no longer open.
EndOfStreamIsReal ==
  outcome.op = "read" /\ outcome.status = "end_of_stream" =>
    peer_closed \/ read_shut \/ engine = "closed"

\* Both hold while nothing was left behind.
ResultsAreOwn == ~disturbed => CountIsOwn /\ EndOfStreamIsReal

\* A wait says "ready" only when a poll of its own call completed, whatever
\* earlier calls left in the ring.
ReadyIsOwn ==
  [][call.op = "wait" /\ ~call.ready /\ call'.ready =>
       Head(completions).request \in {[call |-> calls, op |-> "poll_in"],
                                      [call |-> calls, op |-> "poll_out"]}]_vars

\* Every read and write returns, and so does a wait whose timeout the kernel
\* got as it was asked.
CallsReturn ==
  \A k \in 1..MaxCalls :
    (call # Idle /\ calls = k
     /\ (call.op = "wait" => [call |-> k, op |-> "timeout"] \in in_flight)) ~> (call = Idle)

\* A call returns, and a wait that says "ready" says so for its own poll.
CallsAnswered == ReadyIsOwn /\ CallsReturn

=============================================================================
