----------------------------- MODULE UprSession -----------------------------
(***************************************************************************)
(* The UPR1 handshake of two UprSessions: the client sends what it offers, *)
(* the server checks it and answers with what it offers, the client checks *)
(* that.  Each side waits for the other's frame until a deadline.          *)
(*                                                                         *)
(* Either side may call its handshake again on the same channel after a    *)
(* call that failed, and sends payload frames after one that succeeded.    *)
(* The two FrameChannels are queues of whole frames, as module             *)
(* FrameChannel shows for a channel without a failed send; a send that     *)
(* fails leaves no frame.                                                  *)
(***************************************************************************)
EXTENDS Naturals, Sequences

CONSTANTS
  Versions, Modes, Codecs,   \* values of these fields of a handshake
  Limits,                    \* values of max_frame_bytes
  MaxCalls,                  \* bound on the handshake calls of a side
  MaxFrames                  \* bound on the frames waiting on a channel

ASSUME SessionAssumption == Limits \subseteq Nat /\ MaxCalls \in Nat /\ MaxFrames \in Nat

VARIABLES
  call,     \* the state of each side's last handshake call
  local,    \* the handshake each side passed to it
  remote,   \* the handshake it stored in *remote
  inbox,    \* the frames on the way to each side, oldest first
  calls,    \* how many calls each side made
  lapsed    \* history: a call of the side ended without an answer

vars == <<call, local, remote, inbox, calls, lapsed>>

Sides == {"client", "server"}
Peer(side) == IF side = "client" THEN "server" ELSE "client"

\* UprSessionHandshake; a side gives each of its calls a session_id of its own.
Handshake ==
  [protocol_version : Versions, transport_mode : Modes, frame_codec : Codecs,
   max_frame_bytes : Limits, session_id : 1..MaxCalls]

Nothing == [magic |-> FALSE, size |-> 0]

\* What a frame is to decode_handshake(): its size, its magic, its fields.
encode_handshake(handshake) == [size |-> 24, magic |-> TRUE, fields |-> handshake]
PayloadFrame == [size |-> 9, magic |-> FALSE, fields |-> Nothing]

Decodes(frame) == frame.size = 24 /\ frame.magic

(* Faulty variants, named after the definition they stand in for and the   *)
(* fault, show that the properties can fail; no specification uses them.   *)
validate_compatibility_Reversed(mine, theirs) ==
  /\ mine.protocol_version = theirs.protocol_version
  /\ mine.transport_mode = theirs.transport_mode
  /\ mine.frame_codec = theirs.frame_codec
  /\ ~(theirs.max_frame_bytes > mine.max_frame_bytes)

validate_compatibility(mine, theirs) ==
  /\ mine.protocol_version = theirs.protocol_version
  /\ mine.transport_mode = theirs.transport_mode
  /\ mine.frame_codec = theirs.frame_codec
  /\ ~(theirs.max_frame_bytes < mine.max_frame_bytes)

Init ==
  /\ call = [side \in Sides |-> "none"]
  /\ local = [side \in Sides |-> Nothing] /\ remote = [side \in Sides |-> Nothing]
  /\ inbox = [side \in Sides |-> << >>]
  /\ calls = [side \in Sides |-> 0] /\ lapsed = [side \in Sides |-> FALSE]

-----------------------------------------------------------------------------
\* A side begins a call unless it is in one or the last one succeeded.
Begins(side, handshake) ==
  /\ call[side] \notin {"waiting", "ok"}
  /\ calls[side] < MaxCalls
  /\ handshake.session_id = calls[side] + 1
  /\ calls' = [calls EXCEPT ![side] = @ + 1]
  /\ local' = [local EXCEPT ![side] = handshake]
  /\ UNCHANGED remote

ClientHandshake(handshake) ==
  /\ Begins("client", handshake)
  /\ Len(inbox["server"]) < MaxFrames
  /\ inbox' = [inbox EXCEPT !["server"] = Append(@, encode_handshake(handshake))]
  /\ call' = [call EXCEPT !["client"] = "waiting"]
  /\ UNCHANGED lapsed

ClientSendFails(handshake) ==
  /\ Begins("client", handshake)
  /\ call' = [call EXCEPT !["client"] = "send_failed"]
  /\ UNCHANGED <<inbox, lapsed>>

ServerHandshake(handshake) ==
  /\ Begins("server", handshake)
  /\ call' = [call EXCEPT !["server"] = "waiting"]
  /\ UNCHANGED <<inbox, lapsed>>

\* receive_handshake_frame() gets the next frame on the side's channel.
Receives(side) ==
  /\ call[side] = "waiting" /\ inbox[side] # << >>
  /\ UNCHANGED <<local, calls, lapsed>>

Received(side) == Head(inbox[side])

Answered(side, status) == call' = [call EXCEPT ![side] = status]
Took(side) == [inbox EXCEPT ![side] = Tail(@)]

DecodeFails(side) ==
  /\ Receives(side)
  /\ ~Decodes(Received(side))
  /\ Answered(side, "undecodable")
  /\ inbox' = Took(side)
  /\ UNCHANGED remote

Incompatible(side) ==
  /\ Receives(side)
  /\ Decodes(Received(side)) /\ ~validate_compatibility(local[side], Received(side).fields)
  /\ Answered(side, "incompatible")
  /\ inbox' = Took(side)
  /\ UNCHANGED remote

Accepts(side) ==
  /\ Receives(side)
  /\ Decodes(Received(side)) /\ validate_compatibility(local[side], Received(side).fields)
  /\ remote' = [remote EXCEPT ![side] = Received(side).fields]

ClientAccepts ==
  /\ Accepts("client")
  /\ Answered("client", "ok")
  /\ inbox' = Took("client")

ServerAccepts_Echo ==
  /\ Accepts("server")
  /\ Len(inbox["client"]) < MaxFrames
  /\ Answered("server", "ok")
  /\ inbox' = [Took("server") EXCEPT !["client"] = Append(@, Received("server"))]

ServerAccepts ==
  /\ Accepts("server")
  /\ Len(inbox["client"]) < MaxFrames
  /\ Answered("server", "ok")
  /\ inbox' = [Took("server") EXCEPT !["client"] = Append(@, encode_handshake(local["server"]))]

\* The answer cannot be sent: *remote is set all the same.
ServerSendFails ==
  /\ Accepts("server")
  /\ Answered("server", "send_failed")
  /\ inbox' = Took("server")

\* The deadline passes, or the transport fails.
GivesUp(side) ==
  /\ call[side] = "waiting"
  /\ \E status \in {"exhausted", "io_error"} : Answered(side, status)
  /\ lapsed' = [lapsed EXCEPT ![side] = TRUE]
  /\ UNCHANGED <<local, remote, inbox, calls>>

SendPayloadFrame(side) ==
  /\ call[side] = "ok"
  /\ Len(inbox[Peer(side)]) < MaxFrames
  /\ inbox' = [inbox EXCEPT ![Peer(side)] = Append(@, PayloadFrame)]
  /\ UNCHANGED <<call, local, remote, calls, lapsed>>

ReceivePayloadFrame(side) ==
  /\ call[side] = "ok" /\ inbox[side] # << >>
  /\ inbox' = Took(side)
  /\ UNCHANGED <<call, local, remote, calls, lapsed>>

Next ==
  \/ \E handshake \in Handshake :
       ClientHandshake(handshake) \/ ClientSendFails(handshake) \/ ServerHandshake(handshake)
  \/ ClientAccepts \/ ServerAccepts \/ ServerSendFails
  \/ \E side \in Sides : \/ DecodeFails(side) \/ Incompatible(side) \/ GivesUp(side)
                         \/ SendPayloadFrame(side) \/ ReceivePayloadFrame(side)

Spec == Init /\ [][Next]_vars

-----------------------------------------------------------------------------
(* Properties.                                                             *)

\* When both calls succeeded, each side's remote is what the other offered:
\* they speak of one session.  A client call that ended without an answer
\* voids this, because the late answer is taken as that of the next call.
KnowEachOther ==
  call["client"] = "ok" /\ call["server"] = "ok" /\ ~lapsed["client"] =>
    remote["server"] = local["client"] /\ remote["client"] = local["server"]

\* A client whose call succeeded shares version, mode and codec with the
\* server that answered, and both offered the same frame limit: each side
\* wants the other's limit not below its own.
NegotiatedAlike ==
  call["client"] = "ok" /\ ~lapsed["client"] =>
    [local["client"] EXCEPT !.session_id = 0] = [remote["client"] EXCEPT !.session_id = 0]

\* What the two sides of a session believe of it is the same.
SessionsMatch == KnowEachOther /\ NegotiatedAlike

\* The server believes in a session that the client refused only when the
\* client's frame limit is the greater one.
OnlyLimitsSplit ==
  /\ call["server"] = "ok" /\ call["client"] = "incompatible"
  /\ remote["server"] = local["client"]
  => local["client"].max_frame_bytes > local["server"].max_frame_bytes

=============================================================================
