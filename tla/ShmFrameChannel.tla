-------------------------- MODULE ShmFrameChannel --------------------------
(***************************************************************************)
(* FrameChannel over a transport that keeps frame boundaries: the channel  *)
(* forwards sends and leases to a LocalShmRingTransport.  send_frame() is  *)
(* a loop of write() and wait_until_writable(), receive_frame() an         *)
(* acquire, a copy and a release.  try_acquire_frame() and release_frame() *)
(* are the ring's own calls.                                               *)
(*                                                                         *)
(* The application owns the transport as well as the channel, and between  *)
(* two calls of the channel either side may call the ring directly.  The   *)
(* ring takes a frame whole or not at all, so that a write that is "ok"    *)
(* ends the loop and none is partial.                                      *)
(***************************************************************************)
EXTENDS LocalShmRing

CONSTANT MaxFrameSize   \* FrameChannelOptions::max_frame_size

ASSUME FrameSizeAssumption == MaxFrameSize \in Nat

VARIABLES
  send,   \* where send_frame() is, its frame's length and the number of
          \* frames published when it began
  recv    \* where receive_frame() is, the token of its lease and what *frame holds

allvars == <<vars, send, recv>>

NoSend == [at |-> "idle", length |-> 0, before |-> 0]
NoReceive == [at |-> "idle", token |-> 0, id |-> Torn, length |-> 0]

ChannelInit == Init /\ send = NoSend /\ recv = NoReceive

-----------------------------------------------------------------------------
(* send_frame()                                                            *)

\* The result goes to the caller; the channel keeps nothing of it.
SendReturns(result) == send' = NoSend
SendGoes(where) == send' = [send EXCEPT !.at = where]

\* A frame that is too large is refused, and an empty one leaves
\* write_fully() before its first write: "ok", and nothing was written.
SendFrame(n) ==
  /\ wpc = "idle" /\ send.at = "idle" /\ Len(sent) < MaxWrites
  /\ IF n > MaxFrameSize THEN SendReturns("exhausted")
     ELSE IF n = 0 THEN SendReturns("ok")
     ELSE send' = [at |-> "write", length |-> n, before |-> Len(sent)]
  /\ UNCHANGED <<vars, recv>>

CallWrite ==
  /\ send.at = "write"
  /\ WriteClosed \/ WriteRefused(send.length) \/ WriteClaim(send.length)
  /\ SendGoes("written")
  /\ UNCHANGED recv

\* Without the break after the last byte the loop waits once more.
Written_WaitsAgain ==
  /\ send.at = "written" /\ wpc = "idle"
  /\ IF wlast \in {"ok", "would_block"} THEN SendGoes("wait") ELSE SendReturns(wlast)
  /\ UNCHANGED <<vars, recv>>

Written ==
  /\ send.at = "written" /\ wpc = "idle"
  /\ IF wlast = "would_block" THEN SendGoes("wait") ELSE SendReturns(wlast)
  /\ UNCHANGED <<vars, recv>>

CallWait ==
  /\ send.at = "wait"
  /\ WaitWritable("poll")
  /\ SendGoes("waited")
  /\ UNCHANGED recv

Waited ==
  /\ send.at = "waited" /\ wpc = "idle"
  /\ IF wlast = "ready" THEN SendGoes("write")
     ELSE SendReturns(IF wlast = "timeout" THEN "exhausted" ELSE wlast)
  /\ UNCHANGED <<vars, recv>>

InsideWrite == WriteCopy \/ WriteLength \/ WritePublish \/ WriteNotify \/ PollWritable

\* The transport's part of a call of the channel.
SendInsideCall == send.at # "idle" /\ InsideWrite /\ UNCHANGED <<send, recv>>

\* The application's own calls on the transport.
DirectWrite == send.at = "idle" /\ WriterStep /\ UNCHANGED <<send, recv>>

-----------------------------------------------------------------------------
(* receive_frame()                                                         *)

\* Without a frame it is "need more data", or the transport's error.
ReceiveNothing ==
  /\ recv.at = "idle" /\ TryAcquireRefused
  /\ UNCHANGED <<send, recv>>

ReceiveFrame ==
  /\ recv.at = "idle" /\ TryAcquire
  /\ recv' = [at |-> "assign", token |-> head, id |-> Torn, length |-> length[head]]
  /\ UNCHANGED send

AssignFrame ==
  /\ recv.at = "assign"
  /\ recv' = [recv EXCEPT !.at = "release", !.id = Observed(FALSE)]
  /\ UNCHANGED <<vars, send>>

\* The ring never refuses the lease that was acquired in the same call, so
\* that the result, which is discarded, is "ok".
ReleaseFrame ==
  /\ recv.at = "release"
  /\ Release(recv.token)
  /\ recv' = NoReceive
  /\ UNCHANGED send

DirectRead == recv.at = "idle" /\ ReaderStep /\ UNCHANGED <<send, recv>>

-----------------------------------------------------------------------------
SendStep == CallWrite \/ Written \/ CallWait \/ Waited \/ SendInsideCall

ChannelNext ==
  \/ \E n \in 0..(MaxFrameSize + 1) : SendFrame(n)
  \/ SendStep \/ DirectWrite
  \/ ReceiveNothing \/ ReceiveFrame \/ AssignFrame \/ ReleaseFrame \/ DirectRead

ChannelSpec == ChannelInit /\ [][ChannelNext]_allvars

InsideRead == ReadCopy \/ ReadAdvance \/ NotifyWritable \/ CheckEmpty \/ DrainReadable
                \/ PollReadable

\* A call that started goes on, on either side.
CallsGoOn ==
  /\ WF_allvars(SendStep \/ (DirectWrite /\ InsideWrite))
  /\ WF_allvars(AssignFrame \/ ReleaseFrame \/ (DirectRead /\ InsideRead))

\* The reading application keeps reading with room for a byte, and gives back
\* what it leased.
ReaderKeepsReading ==
  /\ SF_allvars(DirectRead /\ ReadBegin(SlotSize))
  /\ SF_allvars(DirectRead /\ \E token \in Slots : Release(token))

\* The peer may stop reading at any time.
ChannelCallSpec == ChannelSpec /\ CallsGoOn
\* The peer reads for as long as it is open.
ChannelFairSpec == ChannelCallSpec /\ ReaderKeepsReading

-----------------------------------------------------------------------------
(* Properties.                                                             *)

\* What send_frame() returns is true of the ring.  It returns "ok" after a
\* write that was "ok", and then the frame and nothing else was published
\* since it began.  Wherever else it may fail or try again nothing was: the
\* peer never sees a frame twice, nor one whose send failed.
SendIsTrue ==
  send.at # "idle" /\ wpc = "idle" =>
    IF send.at = "written" /\ wlast = "ok"
      THEN /\ Len(sent) = send.before + 1
           /\ sent[Len(sent)] = [id |-> Len(sent), length |-> send.length]
      ELSE Len(sent) = send.before

\* The bytes receive_frame() copied out under its lease are those of the
\* next frame the writer published, whole, although the writer goes on
\* filling the ring while they are copied.
ReceivedIsWhole ==
  recv.at = "release" =>
    /\ Len(taken) < Len(sent)
    /\ sent[Len(taken) + 1] = [id |-> recv.id, length |-> recv.length]

\* Both ends of the channel tell the truth about frames.
ChannelIsTrue == SendIsTrue /\ ReceivedIsWhole

\* With a peer that reads until it closes, there is no end to the moments
\* when every published frame was consumed and no send is under way: frames
\* are not stuck in the ring, nor a send in its loop.
Settled == (taken = sent /\ send.at = "idle") \/ ~ropen
FramesMoveOn == ~Settled ~> Settled

\* A send ends whatever the peer does: when the ring stays full, the wait
\* for room times out and the send with it.
SendTimesOut == send.at # "idle" ~> send.at = "idle"

=============================================================================
