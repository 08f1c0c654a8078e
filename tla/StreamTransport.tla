-------------------------- MODULE StreamTransport --------------------------
(***************************************************************************)
(* The byte-stream transports over sockets: TcpStreamTransport,            *)
(* UnixSocketTransport and PosixSocketTransport, their listeners, and the  *)
(* table of descriptors they share with the application.                   *)
(*                                                                         *)
(* A transport is a descriptor with two flags: whether the stream is still *)
(* open and whether the transport owns the descriptor.  The three classes  *)
(* differ in how they connect and in what configuring a socket may refuse. *)
(* Bytes are counted, since sockets keep their order; what is checked is   *)
(* what the transports do with the counts that the system calls return.    *)
(*                                                                         *)
(* The kernel's part (descriptors, stream ends, path entries) is the first *)
(* section.  A caller never reads into an empty destination.               *)
(***************************************************************************)
EXTENDS Integers, Sequences, FiniteSets, FiniteSetsExt

CONSTANTS
  Fds,          \* the descriptors of the process
  Transports,   \* the transport objects of the application
  Listeners,    \* and its listener objects
  Paths,        \* file system paths of Unix sockets
  Pairs,        \* bound on the streams made
  Addresses,    \* how many addresses a host name resolves to
  MaxBytes,     \* bound on the bytes written in one direction
  SendRoom,     \* bytes a stream holds for its reader
  SpanLists,    \* the lists of span sizes handed to writev()
  Plans         \* sets of things the application does in one behaviour

NoPath == "none"

ASSUME TransportAssumption ==
  /\ Fds \subseteq Nat /\ NoPath \notin Paths
  /\ {Pairs, Addresses, MaxBytes, SendRoom} \subseteq Nat
  /\ SpanLists \subseteq Seq(Nat)

VARIABLES
  sys,        \* descriptors, stream ends, paths, transports, the application's
  listener,   \* each listener, or the bind_path() that is making it
  connect,    \* the connect call in progress
  gather,     \* the default writev() in progress
  plan,       \* what the application does in this behaviour
  reported,   \* history: bytes that the results said were written to an end
  alone       \* history: no other listener used the path since the bind

vars == <<sys, listener, connect, gather, plan, reported, alone>>

NoFd == -1
NoEntry == -1     \* the path does not exist
Stale == -2       \* the path of a socket that is gone
Ends == 1..2 * Pairs
Peer(e) == IF e % 2 = 1 THEN e + 1 ELSE e - 1
NoEnd == 0

\* own_handle and non_blocking of the option structures; only a plan with
\* "borrow" makes transports that do not own their descriptor.
Options == [own : BOOLEAN, nonblock : BOOLEAN]
PlannedOptions == {o \in Options : o.own \/ "borrow" \in plan}
NoOptions == [own |-> TRUE, nonblock |-> FALSE]

-----------------------------------------------------------------------------
(* The kernel.  A file also records, as history, whether the call that     *)
(* made it was to own it and which blocking mode was asked for.            *)

NoFile == [kind |-> "free", end |-> NoEnd, nonblock |-> FALSE, queue |-> << >>,
           own |-> TRUE, asked |-> FALSE]
NewEnd == [written |-> 0, delivered |-> 0, state |-> "none", told |-> FALSE]

Live(S, d) == d \in Fds /\ S.file[d].kind # "free"
FreeFds(S) == {d \in Fds : S.file[d].kind = "free"}

\* Every call that makes a descriptor gets the lowest free number.
LowestFd(S) == Min(FreeFds(S))

OpenFile(S, d, kind, end, own) ==
  [S EXCEPT !.file[d] = [NoFile EXCEPT !.kind = kind, !.end = end, !.own = own]]

\* The first ends of the pairs not used yet; only a plan with "second" uses
\* more than one pair.
FreshEnds(S) ==
  {e \in Ends : e % 2 = 1 /\ S.end[e].state = "none" /\ (e = 1 \/ "second" \in plan)}
FreshEnd(S) == Min(FreshEnds(S))
OpenEnds(S, e) ==
  [S EXCEPT !.end[e].state = "open", !.end[Peer(e)].state = "open"]

\* Closing an end that still has bytes to read resets its stream.
AfterClose(S, e) ==
  IF S.end[Peer(e)].written > S.end[Peer(e)].delivered THEN "reset" ELSE "closed"

CloseEnds(S, es) ==
  [S EXCEPT !.end = [e \in Ends |->
     IF e \in es THEN [S.end[e] EXCEPT !.state = AfterClose(S, e)] ELSE S.end[e]]]

\* close(): the end, the connections nobody accepted and the path go with it.
CloseFile(S, d) ==
  LET f == S.file[d]
      gone == ({f.queue[i] : i \in 1..Len(f.queue)} \cup {f.end}) \ {NoEnd}
  IN  [CloseEnds(S, gone) EXCEPT
         !.file[d] = NoFile,
         !.path = [p \in Paths |-> IF S.path[p] = d THEN Stale ELSE S.path[p]]]

Unlink(S, p) == IF p = NoPath THEN S ELSE [S EXCEPT !.path[p] = NoEntry]

\* A client's stream reaches a listening socket: its other end is queued.
Enqueue(S, d, e) ==
  [OpenEnds(S, e) EXCEPT !.file[d].queue = Append(@, Peer(e))]

-----------------------------------------------------------------------------
(* The transports' own operations, from a state of sys to the next.        *)

Empty == [fd |-> NoFd, open |-> FALSE, own |-> FALSE]
IsOpen(S, t) == S.transport[t].open /\ S.transport[t].fd # NoFd
End(S, t) == S.file[S.transport[t].fd].end
Blocking(S, t) == ~S.file[S.transport[t].fd].nonblock

close_fd(S, d) == IF d = NoFd THEN S ELSE CloseFile(S, d)

set_non_blocking(S, d) ==
  [S EXCEPT !.file[d].nonblock = TRUE, !.file[d].asked = TRUE]

\* How configuring a socket may end: well, with set_non_blocking() refused,
\* or with a later option refused when the mode is already changed.
Outcomes == {"ok", "mode", "option"}

Configured(S, d, options, outcome) ==
  IF options.nonblock /\ outcome # "mode" THEN set_non_blocking(S, d) ELSE S

\* The constructor: a socket that cannot be configured is closed when the
\* transport was to own it, and let go of when it was not.
Adopt(S, t, d, options, outcome) ==
  LET C == Configured(S, d, options, outcome)
      app == IF options.own THEN S.app \ {d} ELSE S.app \cup {d}
  IN  IF outcome = "ok"
      THEN [C EXCEPT !.transport[t] = [fd |-> d, open |-> TRUE, own |-> options.own],
                     !.app = app]
      ELSE IF options.own
      THEN [close_fd(C, d) EXCEPT !.transport[t] = [Empty EXCEPT !.own = TRUE],
                                  !.app = @ \ {d}]
      ELSE [C EXCEPT !.transport[t] = Empty]

Close(S, t) ==
  LET held == S.transport[t]
      C == [S EXCEPT !.transport[t] =
              IF held.fd = NoFd THEN [held EXCEPT !.open = FALSE] ELSE Empty]
  IN  IF held.own THEN close_fd(C, held.fd) ELSE C

(* Faulty variants, named after the definition they stand in for and the   *)
(* fault, show that the properties can fail; no specification uses them.   *)
move_from_LeavesSource(S, t, other) ==
  [S EXCEPT !.transport[t] = S.transport[other], !.transport[other].open = FALSE]

move_from(S, t, other) ==
  [S EXCEPT !.transport[t] = S.transport[other], !.transport[other] = Empty]

-----------------------------------------------------------------------------
(* Calls of the application on streams.                                    *)

Fresh(t) == sys.transport[t].fd = NoFd
Vacant(t) == Fresh(t) /\ connect.t # t   \* free to take a new stream
NotWriting(t) == gather.t # t
InUse(d) == \E t \in Transports : sys.transport[t].fd = d

UnchangedButSys == UNCHANGED <<listener, connect, gather, plan, reported, alone>>

\* Both transports are built with the same options; either may fail.
create_socket_pair(t, u, options) ==
  /\ "pair" \in plan /\ t # u /\ Vacant(t) /\ Vacant(u)
  /\ Cardinality(FreeFds(sys)) >= 2 /\ FreshEnds(sys) # {}
  /\ LET e == FreshEnd(sys)
         d == LowestFd(sys)
         S == OpenFile(OpenEnds(sys, e), d, "stream", e, options.own)
         f == LowestFd(S)
         T == OpenFile(S, f, "stream", Peer(e), options.own)
     IN  \E first, second \in Outcomes :
           sys' = Adopt(Adopt(T, t, d, options, first), u, f, options, second)
  /\ UnchangedButSys

\* PosixFdTransport::open_device(): a stream whose other end is a device.
open_device(t, options) ==
  /\ "device" \in plan /\ Vacant(t) /\ FreeFds(sys) # {} /\ FreshEnds(sys) # {}
  /\ LET d == LowestFd(sys)
         e == FreshEnd(sys)
         S == OpenFile(OpenEnds(sys, e), d, "stream", e, options.own)
     IN  \E outcome \in {"ok", "mode"} : sys' = Adopt(S, t, d, options, outcome)
  /\ UnchangedButSys

\* The application makes a pair of its own and lends or gives descriptors.
AppMakesPair ==
  /\ "lend" \in plan
  /\ Cardinality(FreeFds(sys)) >= 2 /\ FreshEnds(sys) # {}
  /\ LET e == FreshEnd(sys)
         d == LowestFd(sys)
         S == OpenFile(OpenEnds(sys, e), d, "stream", e, TRUE)
         f == LowestFd(S)
     IN  sys' = [OpenFile(S, f, "stream", Peer(e), TRUE) EXCEPT !.app = @ \cup {d, f}]
  /\ UnchangedButSys

TransportOf(t, d, options) ==
  /\ d \in sys.app /\ ~InUse(d) /\ Vacant(t)
  /\ \E outcome \in Outcomes : sys' = Adopt(sys, t, d, options, outcome)
  /\ UnchangedButSys

AppCloses(d) ==
  /\ d \in sys.app /\ ~InUse(d)
  /\ sys' = [CloseFile(sys, d) EXCEPT !.app = @ \ {d}]
  /\ UnchangedButSys

\* The program behind an end calls shutdown(SHUT_WR) on it.
Shutdown(e) ==
  /\ "shutdown" \in plan
  /\ sys.end[e].state = "open"
  /\ sys' = [sys EXCEPT !.end[e].state = "shut"]
  /\ UnchangedButSys

close(t) ==
  /\ NotWriting(t)
  /\ sys' = Close(sys, t)
  /\ UnchangedButSys

MoveAssign(t, other) ==
  /\ "move" \in plan
  /\ \A u \in {t, other} : NotWriting(u) /\ connect.t # u
  /\ sys' = IF t = other THEN sys ELSE move_from(Close(sys, t), t, other)
  /\ UnchangedButSys

-----------------------------------------------------------------------------
(* Reading and writing.                                                    *)

Waiting(S, e) == S.end[Peer(e)].written - S.end[Peer(e)].delivered

ReadBytes(t) ==
  /\ "io" \in plan /\ IsOpen(sys, t) /\ NotWriting(t)
  /\ \E n \in 1..Waiting(sys, End(sys, t)) :
       sys' = [sys EXCEPT !.end[Peer(End(sys, t))].delivered = @ + n]
  /\ UnchangedButSys

EndOfStream_WhenDry(S, e) == Waiting(S, e) = 0

\* recv() returns 0: the peer is done and everything it sent was read.
EndOfStream(S, e) ==
  Waiting(S, e) = 0 /\ S.end[Peer(e)].state \in {"shut", "closed"}

ReadEnd(t) ==
  /\ "io" \in plan /\ IsOpen(sys, t) /\ NotWriting(t)
  /\ EndOfStream(sys, End(sys, t))
  /\ sys' = [sys EXCEPT !.transport[t].open = FALSE, !.end[End(sys, t)].told = TRUE]
  /\ UnchangedButSys

\* A reset is an error once, and the end of the stream from then on.
ReadError(t) ==
  /\ "io" \in plan /\ IsOpen(sys, t) /\ NotWriting(t)
  /\ Waiting(sys, End(sys, t)) = 0 /\ sys.end[Peer(End(sys, t))].state = "reset"
  /\ sys' = [sys EXCEPT !.end[Peer(End(sys, t))].state = "closed"]
  /\ UnchangedButSys

Refuses(S, e) ==
  S.end[e].state = "shut" \/ S.end[Peer(e)].state \in {"closed", "reset"}

send_to_socket_Unchecked(S, t, size) ==
  LET e == End(S, t)
      room == SendRoom - (S.end[e].written - S.end[e].delivered)
  IN  IF Refuses(S, e) THEN {[bytes |-> 0, kind |-> "error"]}
      ELSE {[bytes |-> n, kind |-> "ok"] : n \in {size} \cap 0..room}

\* The results send() may have; none when a blocking socket has to wait.
send_to_socket(S, t, size) ==
  LET e == End(S, t)
      room == SendRoom - (S.end[e].written - S.end[e].delivered)
      Result(n, kind) == [bytes |-> n, kind |-> kind]
  IN  IF ~IsOpen(S, t) THEN {Result(0, "closed")}
      ELSE IF Refuses(S, e) THEN {Result(0, "error")}
      ELSE IF Blocking(S, t) THEN {Result(n, "ok") : n \in {size} \cap 0..room}
      ELSE IF room = 0 THEN {Result(0, "would_block")}
      ELSE {Result(n, "ok") : n \in {k \in 1..room : k <= size}}

Sent(S, e, n) == [S EXCEPT !.end[e].written = @ + n]
Total(spans) == FoldSet(LAMBDA i, sum : spans[i] + sum, 0, DOMAIN spans)

MayWrite(t, size) ==
  /\ "io" \in plan /\ ~Fresh(t) /\ NotWriting(t)
  /\ sys.end[End(sys, t)].written + size <= MaxBytes

\* write() of one span, and writev_to_fd() of the spans that are not empty.
Write(t, spans) ==
  /\ MayWrite(t, Total(spans)) /\ Total(spans) > 0
  /\ \E result \in send_to_socket(sys, t, Total(spans)) :
       /\ sys' = Sent(sys, End(sys, t), result.bytes)
       /\ reported' = [reported EXCEPT ![End(sys, t)] = @ + result.bytes]
  /\ UNCHANGED <<listener, connect, gather, plan, alone>>

\* IByteStreamTransport::writev(), for transports that only have write().
NoGather == [t |-> "none", rest |-> << >>, total |-> 0]

BeginWritev(t, spans) ==
  /\ MayWrite(t, Total(spans)) /\ gather = NoGather
  /\ gather' = [t |-> t, rest |-> spans, total |-> 0]
  /\ UNCHANGED <<sys, listener, connect, plan, reported, alone>>

WritevReturns_LastOnly(e, total) ==
  /\ reported' = [reported EXCEPT ![e] = @ + total - gather.total]
  /\ gather' = NoGather

WritevReturns(e, total) ==
  /\ reported' = [reported EXCEPT ![e] = @ + total]
  /\ gather' = NoGather

\* One turn of its loop; a span written in part ends the call.
WriteSpan ==
  /\ gather # NoGather /\ gather.rest # << >>
  /\ LET e == End(sys, gather.t)
         size == Head(gather.rest)
     IN  IF size = 0
         THEN gather' = [gather EXCEPT !.rest = Tail(@)] /\ UNCHANGED <<sys, reported>>
         ELSE \E result \in send_to_socket(sys, gather.t, size) :
                /\ sys' = Sent(sys, e, result.bytes)
                /\ IF result.kind # "ok" \/ result.bytes < size
                   THEN WritevReturns(e, gather.total + result.bytes)
                   ELSE /\ gather' = [gather EXCEPT !.rest = Tail(@), !.total = @ + size]
                        /\ UNCHANGED reported
  /\ UNCHANGED <<listener, connect, plan, alone>>

WritevDone ==
  /\ gather # NoGather /\ gather.rest = << >>
  /\ WritevReturns(End(sys, gather.t), gather.total)
  /\ UNCHANGED <<sys, listener, connect, plan, alone>>

-----------------------------------------------------------------------------
(* Connecting to a host: TcpStreamTransport::connect_to_host() and         *)
(* PosixSocketTransport::connect_tcp(), one step per system call that can  *)
(* wait or fail, over the addresses the name resolves to.                  *)

NoConnect == [at |-> "idle", t |-> "none", class |-> "none", fd |-> NoFd,
              tries |-> 0, options |-> NoOptions, ok |-> FALSE]
Connecting(step) == connect.at = step
Holding == connect.fd
UnchangedButConnect == UNCHANGED <<listener, gather, plan, reported, alone>>

BeginConnect(t, class, options) ==
  /\ "connect" \in plan /\ Connecting("idle") /\ Vacant(t)
  /\ connect' = [NoConnect EXCEPT !.at = "address", !.t = t, !.class = class,
                                  !.tries = Addresses, !.options = options]
  /\ UNCHANGED sys /\ UnchangedButConnect

NoAddressLeft ==
  /\ Connecting("address") /\ connect.tries = 0
  /\ connect' = NoConnect
  /\ UNCHANGED sys /\ UnchangedButConnect

\* No socket, or (TCP) one that refuses its options: on to the next address.
SkipAddress ==
  /\ Connecting("address") /\ connect.tries > 0
  /\ connect' = [connect EXCEPT !.tries = @ - 1]
  /\ UNCHANGED sys /\ UnchangedButConnect

OpenSocket ==
  /\ Connecting("address") /\ connect.tries > 0 /\ FreeFds(sys) # {}
  /\ connect' = [connect EXCEPT !.at = "start", !.fd = LowestFd(sys), !.tries = @ - 1]
  /\ sys' = OpenFile(sys, LowestFd(sys), "socket", NoEnd, connect.options.own)
  /\ UnchangedButConnect

\* The connection is made: a program elsewhere has its other end.
Establish(S, d) ==
  [OpenEnds(S, FreshEnd(S)) EXCEPT !.file[d].kind = "stream", !.file[d].end = FreshEnd(S)]

\* connect() on the socket, now non-blocking: at once, refused, or under way.
StartConnect ==
  /\ Connecting("start")
  /\ LET S == [sys EXCEPT !.file[Holding].nonblock = TRUE]
     IN  \/ /\ FreshEnds(sys) # {}
            /\ sys' = Establish(S, Holding)
            /\ connect' = [connect EXCEPT !.at = "restore", !.ok = TRUE]
         \/ /\ sys' = S
            /\ connect' = [connect EXCEPT !.at = "restore", !.ok = FALSE]
         \/ /\ sys' = [S EXCEPT !.file[Holding].kind = "connecting"]
            /\ connect' = [connect EXCEPT !.at = "poll"]
  /\ UnchangedButConnect

\* The network answers a connection under way, or never does.
NetworkAnswers(d) ==
  /\ sys.file[d].kind = "connecting"
  /\ \/ FreshEnds(sys) # {} /\ sys' = Establish(sys, d)
     \/ sys' = [sys EXCEPT !.file[d].kind = "refused"]
  /\ UnchangedButSys

PollReady ==
  /\ Connecting("poll") /\ sys.file[Holding].kind # "connecting"
  /\ connect' = [connect EXCEPT !.at = "restore",
                                !.ok = sys.file[Holding].kind = "stream"]
  /\ UNCHANGED sys /\ UnchangedButConnect

PollTimesOut_BlockingConnect ==
  /\ Connecting("poll") /\ sys.file[Holding].kind = "refused"
  /\ connect' = [connect EXCEPT !.at = "restore", !.ok = FALSE]
  /\ UNCHANGED sys /\ UnchangedButConnect

PollTimesOut ==
  /\ Connecting("poll") /\ sys.file[Holding].kind = "connecting"
  /\ connect' = [connect EXCEPT !.at = "restore", !.ok = FALSE]
  /\ UNCHANGED sys /\ UnchangedButConnect

RestoreFlags ==
  /\ Connecting("restore")
  /\ sys' = [sys EXCEPT !.file[Holding].nonblock = FALSE]
  /\ connect' = [connect EXCEPT !.at = IF connect.ok THEN "finish" ELSE "drop"]
  /\ UnchangedButConnect

DropSocket ==
  /\ Connecting("drop")
  /\ sys' = close_fd(sys, Holding)
  /\ connect' = [connect EXCEPT !.at = "address", !.fd = NoFd]
  /\ UnchangedButConnect

\* The mode is set on the socket before the transport is built; the socket
\* is closed when that fails, whoever was to own it.
FinishTcp ==
  /\ Connecting("finish") /\ connect.class = "tcp"
  /\ LET wanted == connect.options
         built == [wanted EXCEPT !.nonblock = FALSE]
     IN  \/ wanted.nonblock /\ sys' = close_fd(sys, Holding)
         \/ \E outcome \in {"ok", "option"} :
              sys' = Adopt(Configured(sys, Holding, wanted, "ok"), connect.t, Holding,
                           built, outcome)
  /\ connect' = NoConnect
  /\ UnchangedButConnect

\* The mode is set with the transport already built.
FinishPosix ==
  /\ Connecting("finish") /\ connect.class = "posix"
  /\ LET wanted == connect.options
         built == [wanted EXCEPT !.nonblock = FALSE]
         S == Adopt(sys, connect.t, Holding, built, "ok")
     IN  \/ sys' = Configured(S, Holding, wanted, "ok")
         \/ /\ wanted.nonblock
            /\ sys' = [Close(S, connect.t) EXCEPT !.app = @ \ {Holding}]
  /\ connect' = NoConnect
  /\ UnchangedButConnect

\* The program at the other end of such a connection goes away.
Elsewhere(e) ==
  /\ sys.end[e].state \in {"open", "shut"}
  /\ \A d \in Fds : sys.file[d].end # e /\ \A i \in 1..Len(sys.file[d].queue) :
       sys.file[d].queue[i] # e

PeerCloses(e) ==
  /\ Elsewhere(e)
  /\ sys' = CloseEnds(sys, {e})
  /\ UnchangedButSys

-----------------------------------------------------------------------------
(* Listeners.  A Unix listener lives at a path, a TCP listener at NoPath.  *)
(* bind_path() is one step per system call, so that another process can    *)
(* come between them; so is the end of close().                            *)

NoListener == [at |-> "empty", fd |-> NoFd, path |-> NoPath, options |-> NoOptions]
At(l, step) == listener[l].at = step
Fd(l) == listener[l].fd
UnchangedButListener == UNCHANGED <<connect, gather, plan, reported>>

\* Other listeners that are bound to a path, being bound to it or leaving it.
Rivals(l, p) == {k \in Listeners \ {l} : listener[k].path = p}

BindSocket(l, p, options) ==
  /\ "unix" \in plan /\ At(l, "empty") /\ FreeFds(sys) # {}
  /\ sys' = OpenFile(sys, LowestFd(sys), "socket", NoEnd, TRUE)
  /\ listener' = [listener EXCEPT ![l] =
       [at |-> "socket", fd |-> LowestFd(sys), path |-> p, options |-> options]]
  /\ alone' = [k \in Listeners |->
       IF k = l THEN Rivals(l, p) = {} ELSE alone[k] /\ listener[k].path # p]
  /\ UnchangedButListener

\* Whatever is at the path goes: a stale socket, or another's live one.
UnlinkFirst(l) ==
  /\ At(l, "socket")
  /\ sys' = Unlink(sys, listener[l].path)
  /\ listener' = [listener EXCEPT ![l].at = "unlinked"]
  /\ UNCHANGED alone /\ UnchangedButListener

BindAddress(l) ==
  /\ At(l, "unlinked") /\ sys.path[listener[l].path] = NoEntry
  /\ sys' = [sys EXCEPT !.path[listener[l].path] = Fd(l), !.file[Fd(l)].kind = "bound"]
  /\ listener' = [listener EXCEPT ![l].at = "bound"]
  /\ UNCHANGED alone /\ UnchangedButListener

\* The path exists again: bind() fails and the path is left alone.
BindFails(l) ==
  /\ At(l, "unlinked") /\ sys.path[listener[l].path] # NoEntry
  /\ sys' = close_fd(sys, Fd(l))
  /\ listener' = [listener EXCEPT ![l] = NoListener]
  /\ UNCHANGED alone /\ UnchangedButListener

Listen_AlwaysCleansUp(l) ==
  /\ At(l, "bound")
  /\ sys' = Unlink([sys EXCEPT !.file[Fd(l)].kind = "listening"], listener[l].path)
  /\ listener' = [listener EXCEPT ![l].at = "listening"]
  /\ UNCHANGED alone /\ UnchangedButListener

Listen(l) ==
  /\ At(l, "bound")
  /\ sys' = [sys EXCEPT !.file[Fd(l)].kind = "listening"]
  /\ listener' = [listener EXCEPT ![l].at = "listening"]
  /\ UNCHANGED alone /\ UnchangedButListener

FinishBind(l) ==
  /\ At(l, "listening")
  /\ sys' = Configured(sys, Fd(l), listener[l].options, "ok")
  /\ listener' = [listener EXCEPT ![l].at = "open"]
  /\ UNCHANGED alone /\ UnchangedButListener

\* listen() or set_non_blocking() fails: the path is removed again.
AbandonBind(l) ==
  /\ At(l, "bound") \/ (At(l, "listening") /\ listener[l].options.nonblock)
  /\ sys' = close_fd(Unlink(sys, listener[l].path), Fd(l))
  /\ listener' = [listener EXCEPT ![l] = NoListener]
  /\ UNCHANGED alone /\ UnchangedButListener

\* TcpListener::bind_loopback(); one that fails closes what it opened.
bind_loopback(l, options) ==
  /\ "tcp" \in plan /\ At(l, "empty") /\ FreeFds(sys) # {}
  /\ LET d == LowestFd(sys)
     IN  /\ sys' = Configured(OpenFile(sys, d, "listening", NoEnd, TRUE), d, options, "ok")
         /\ listener' = [listener EXCEPT ![l] =
              [at |-> "open", fd |-> d, path |-> NoPath, options |-> options]]
  /\ UNCHANGED alone /\ UnchangedButListener

CloseListener(l) ==
  /\ At(l, "open")
  /\ sys' = close_fd(sys, Fd(l))
  /\ listener' = [listener EXCEPT ![l] =
       IF @.path = NoPath THEN NoListener
       ELSE [NoListener EXCEPT !.at = "closing", !.path = listener[l].path]]
  /\ UNCHANGED alone /\ UnchangedButListener

UnlinkAfterClose(l) ==
  /\ At(l, "closing")
  /\ sys' = Unlink(sys, listener[l].path)
  /\ listener' = [listener EXCEPT ![l] = NoListener]
  /\ UNCHANGED alone /\ UnchangedButListener

\* Move assignment closes what the target listens to, path and all.
MoveListener(l, other) ==
  /\ "move" \in plan
  /\ l # other /\ {listener[l].at, listener[other].at} \subseteq {"empty", "open"}
  /\ sys' = Unlink(close_fd(sys, Fd(l)), listener[l].path)
  /\ listener' = [listener EXCEPT ![l] = listener[other], ![other] = NoListener]
  /\ alone' = [alone EXCEPT ![l] = alone[other] /\ listener[l].path # listener[other].path]
  /\ UnchangedButListener

\* The process that listens dies: its path stays behind.
KillListener(l) ==
  /\ "kill" \in plan
  /\ ~At(l, "empty")
  /\ sys' = close_fd(sys, Fd(l))
  /\ listener' = [listener EXCEPT ![l] = NoListener]
  /\ UNCHANGED alone /\ UnchangedButListener

\* UnixSocketTransport::connect_to_path(), refused unless somebody listens.
connect_to_path(t, p, options) ==
  /\ "unix" \in plan /\ Vacant(t) /\ FreeFds(sys) # {} /\ FreshEnds(sys) # {}
  /\ sys.path[p] \in Fds /\ sys.file[sys.path[p]].kind = "listening"
  /\ LET d == LowestFd(sys)
         e == FreshEnd(sys)
         S == OpenFile(Enqueue(sys, sys.path[p], e), d, "stream", e, options.own)
     IN  \E outcome \in Outcomes : sys' = Adopt(S, t, d, options, outcome)
  /\ UnchangedButSys

\* A client of another process connects.
ClientArrives(l) ==
  /\ At(l, "open") /\ FreshEnds(sys) # {}
  /\ sys' = Enqueue(sys, Fd(l), FreshEnd(sys))
  /\ UnchangedButSys

\* accept(): the new transport gets the options that the listener was given.
accept(l, t) ==
  /\ At(l, "open") /\ Vacant(t) /\ FreeFds(sys) # {}
  /\ sys.file[Fd(l)].queue # << >>
  /\ LET d == LowestFd(sys)
         e == Head(sys.file[Fd(l)].queue)
         S == OpenFile([sys EXCEPT !.file[Fd(l)].queue = Tail(@)], d, "stream", e,
                       listener[l].options.own)
     IN  \E outcome \in Outcomes : sys' = Adopt(S, t, d, listener[l].options, outcome)
  /\ UnchangedButSys

-----------------------------------------------------------------------------
Init ==
  /\ sys = [file |-> [d \in Fds |-> NoFile], end |-> [e \in Ends |-> NewEnd],
            path |-> [p \in Paths |-> NoEntry],
            transport |-> [t \in Transports |-> Empty], app |-> {}]
  /\ listener = [l \in Listeners |-> NoListener]
  /\ connect = NoConnect
  /\ gather = NoGather
  /\ plan \in Plans
  /\ reported = [e \in Ends |-> 0]
  /\ alone = [l \in Listeners |-> TRUE]

ConnectStep ==
  \/ NoAddressLeft \/ SkipAddress \/ OpenSocket \/ StartConnect
  \/ PollReady \/ PollTimesOut \/ RestoreFlags \/ DropSocket \/ FinishTcp \/ FinishPosix

BindStep(l) ==
  \/ UnlinkFirst(l) \/ BindAddress(l) \/ BindFails(l) \/ Listen(l) \/ FinishBind(l)
  \/ AbandonBind(l) \/ CloseListener(l) \/ UnlinkAfterClose(l) \/ KillListener(l)
  \/ ClientArrives(l)

TransportStep(t) ==
  \/ close(t) \/ ReadBytes(t) \/ ReadEnd(t) \/ ReadError(t)
  \/ \E spans \in SpanLists : Write(t, spans) \/ BeginWritev(t, spans)
  \/ \E u \in Transports : MoveAssign(t, u)
  \/ \E l \in Listeners : accept(l, t)
  \/ \E options \in PlannedOptions :
       \/ \E u \in Transports : create_socket_pair(t, u, options)
       \/ \E d \in Fds : TransportOf(t, d, options)
       \/ open_device(t, options)
       \/ \E p \in Paths : connect_to_path(t, p, options)
       \/ \E class \in {"tcp", "posix"} : BeginConnect(t, class, options)

Next ==
  \/ ConnectStep
  \/ WriteSpan \/ WritevDone \/ AppMakesPair
  \/ \E t \in Transports : TransportStep(t)
  \/ \E d \in Fds : NetworkAnswers(d) \/ AppCloses(d)
  \/ \E e \in Ends : Shutdown(e) \/ PeerCloses(e)
  \/ \E l \in Listeners :
       \/ BindStep(l)
       \/ \E other \in Listeners : MoveListener(l, other)
       \/ \E options \in PlannedOptions :
            \/ bind_loopback(l, options)
            \/ \E p \in Paths : BindSocket(l, p, options)

Spec == Init /\ [][Next]_vars

\* A call that was made goes on: every step of a connect call is a system
\* call that returns, the poll at the latest when its timeout is over.
FairSpec == Spec /\ WF_vars(ConnectStep)

-----------------------------------------------------------------------------
\* Whoever would close a descriptor in the end.
Holders(d) ==
  {t \in Transports : sys.transport[t].fd = d /\ sys.transport[t].own}
    \cup {l \in Listeners : Fd(l) = d}
    \cup (IF connect.fd = d THEN {"connect"} ELSE {})
    \cup (IF d \in sys.app THEN {"application"} ELSE {})

\* Through moves, failed configurations, retries and closes every open
\* descriptor has exactly one holder: none is closed twice and none is lost,
\* but those that a call made with own_handle false and could not configure.
OneHolder ==
  \A d \in Fds :
    IF Live(sys, d)
    THEN /\ Cardinality(Holders(d)) <= 1
         /\ Holders(d) = {} => ~sys.file[d].own
    ELSE Holders(d) = {}

\* A transport never names a descriptor that was closed: the number may be
\* another's by now.
NumbersAreLive ==
  \A t \in Transports : ~Fresh(t) => Live(sys, sys.transport[t].fd)

\* What the results of the write calls say was written was written, however
\* the default writev() ended.
ReportsAreTrue ==
  \A e \in Ends :
    sys.end[e].written = reported[e] +
      (IF gather # NoGather /\ End(sys, gather.t) = e THEN gather.total ELSE 0)

\* A transport's socket is in the mode its options asked for, although a
\* connect with a timeout had to change it on the way.
BlockingAsAsked ==
  \A t \in Transports : IsOpen(sys, t) =>
    LET file == sys.file[sys.transport[t].fd] IN file.nonblock = file.asked

\* Whatever a call does with descriptors on its way, and wherever it fails,
\* it leaves each with one holder, under a number that is its own, and in
\* the mode that was asked for.
DescriptorsKept == OneHolder /\ NumbersAreLive /\ BlockingAsAsked

\* A path leads to the listener bound to it as long as no other listener,
\* bound before it or since, unlinks the path: close() does so without asking.
PathLeadsToListener ==
  \A l \in Listeners :
    listener[l].at \in {"bound", "listening", "open"} /\ listener[l].path # NoPath /\ alone[l]
      => sys.path[listener[l].path] = Fd(l)

\* What a crashed listener left at the path does not keep the next from
\* binding to it.
AddressFree ==
  \A l \in Listeners :
    At(l, "unlinked") /\ alone[l] => sys.path[listener[l].path] = NoEntry

\* A listener that is alone at its path can take it and keeps it.
PathsAreOwned == AddressFree /\ PathLeadsToListener

\* A transport that saw the end of its stream keeps the descriptor until it
\* is closed and writes nothing on it, although the other direction is open.
EndIsFinal ==
  [][\A t \in Transports :
       ~Fresh(t) /\ ~sys.transport[t].open =>
         LET d == sys.transport[t].fd
             e == sys.file[d].end
         IN  /\ sys'.end[e].written = sys.end[e].written
             /\ sys'.transport[t].fd = d => sys'.file[d] = sys.file[d]]_vars

\* Each direction of each stream is a byte pipe, which takes and gives in one
\* step at most what the stream holds.
Pipe(e) == INSTANCE BytePipe WITH
  MaxBytes <- SendRoom, accepted <- sys.end[e].written, delivered <- sys.end[e].delivered,
  ended <- sys.end[Peer(e)].told

\* Readers get what was written, in part or whole, and hear of the end only
\* when they have all of it.
ImplementsPipe ==
  /\ \A e \in Ends : Pipe(e)!Init
  /\ [][\A e \in Ends : [Pipe(e)!Next]_(Pipe(e)!vars)]_vars

\* A connect call returns, even when no peer ever answers.
ConnectReturns == connect.at # "idle" ~> connect.at = "idle"

=============================================================================
