-------------------------- MODULE UprSessionProofs --------------------------
(***************************************************************************)
(* Proofs about UprSession for every set of offers, every number of calls  *)
(* and every bound on the channels.                                        *)
(*                                                                         *)
(* The argument: the server answers once, by the step that makes its call  *)
(* succeed, and sends nothing before it.  So a handshake that reaches the  *)
(* client is that answer, and a client none of whose calls was abandoned   *)
(* has sent one handshake by then.                                         *)
(***************************************************************************)
EXTENDS UprSession, TLAPS

-----------------------------------------------------------------------------
(* The inductive invariant.                                                *)

Statuses == {"none", "waiting", "ok", "send_failed", "undecodable", "incompatible",
             "exhausted", "io_error"}
Frame == {PayloadFrame} \cup {encode_handshake(handshake) : handshake \in Handshake}

\* The type of every variable; a side that made a call has made an offer.
TypeOK ==
  /\ call \in [Sides -> Statuses]
  /\ local \in [Sides -> Handshake \cup {Nothing}]
  /\ remote \in [Sides -> Handshake \cup {Nothing}]
  /\ inbox \in [Sides -> Seq(Frame)]
  /\ calls \in [Sides -> Nat]
  /\ lapsed \in [Sides -> BOOLEAN]
  /\ \A side \in Sides : call[side] # "none" => local[side] \in Handshake

\* Only a server whose call succeeded has sent anything, and the only
\* handshake it sent is its offer, which the client's call goes by.
AnswerInv ==
  /\ call["server"] # "ok" => inbox["client"] = << >>
  /\ \A i \in 1..Len(inbox["client"]) :
       Decodes(inbox["client"][i]) => inbox["client"][i] = encode_handshake(local["server"])
  /\ call["server"] = "ok" =>
       /\ remote["server"] \in Handshake
       /\ validate_compatibility(local["server"], remote["server"])
  /\ call["client"] \in {"ok", "incompatible"} =>
       /\ call["server"] = "ok"
       /\ call["client"] = "ok" <=> validate_compatibility(local["client"], local["server"])
  /\ call["client"] = "ok" => remote["client"] = local["server"]

\* Unless a call of the client was abandoned: until the server answers the
\* client has one handshake on its way or lost; and the answer is to the call
\* the client is in, or was in when it took it.
SoleInv ==
  ~lapsed["client"] =>
    /\ call["server"] # "ok" =>
         /\ call["client"] \in {"none", "send_failed", "waiting"}
         /\ inbox["server"] # << >> =>
              /\ call["client"] = "waiting"
              /\ inbox["server"] = <<encode_handshake(local["client"])>>
    /\ \A i \in 1..Len(inbox["client"]) :
         Decodes(inbox["client"][i]) =>
           /\ i = 1 /\ call["client"] = "waiting"
           /\ remote["server"] = local["client"]
    /\ call["client"] = "ok" => remote["server"] = local["client"]

IInv == TypeOK /\ AnswerInv /\ SoleInv

-----------------------------------------------------------------------------
(* Frames.                                                                 *)

\* A handshake frame decodes to its handshake, a payload frame does not decode.
LEMMA FramesDecode ==
  /\ \A handshake \in Handshake : /\ encode_handshake(handshake) \in Frame
                                  /\ Decodes(encode_handshake(handshake))
                                  /\ encode_handshake(handshake).fields = handshake
  /\ PayloadFrame \in Frame /\ ~Decodes(PayloadFrame)
  /\ \A frame \in Frame :
       Decodes(frame) => /\ frame.fields \in Handshake
                         /\ frame = encode_handshake(frame.fields)
<1>1. \A handshake \in Handshake : /\ encode_handshake(handshake) \in Frame
                                    /\ Decodes(encode_handshake(handshake))
                                    /\ encode_handshake(handshake).fields = handshake
  BY DEF Frame, encode_handshake, Decodes
<1>2. PayloadFrame \in Frame /\ ~Decodes(PayloadFrame)
  BY DEF Frame, PayloadFrame, Decodes
<1>3. ASSUME NEW frame \in Frame, Decodes(frame)
      PROVE  /\ frame.fields \in Handshake
             /\ frame = encode_handshake(frame.fields)
  <2>1. PICK handshake \in Handshake : frame = encode_handshake(handshake)
    BY <1>2, <1>3 DEF Frame
  <2>. QED
    BY <1>1, <2>1
<1>. QED
  BY <1>1, <1>2, <1>3

\* Taking the first of a channel's frames leaves the others, one place nearer.
LEMMA TakenFrame ==
  ASSUME NEW frames \in Seq(Frame), frames # << >>
  PROVE  /\ Head(frames) \in Frame /\ Head(frames) = frames[1] /\ 1 \in 1..Len(frames)
         /\ Tail(frames) \in Seq(Frame)
         /\ Len(Tail(frames)) = Len(frames) - 1
         /\ \A i \in 1..Len(Tail(frames)) : /\ i + 1 \in 1..Len(frames)
                                            /\ Tail(frames)[i] = frames[i + 1]
OBVIOUS

-----------------------------------------------------------------------------
(* The invariant is inductive.                                             *)

\* The two sides before their first calls.
LEMMA InitIInv == Init => IInv
<1>. SUFFICES ASSUME Init PROVE IInv
  OBVIOUS
<1>1. \A side \in Sides : call[side] = "none" /\ inbox[side] = << >>
  BY DEF Init
<1>2. "client" \in Sides /\ "server" \in Sides
  BY DEF Sides
<1>3. TypeOK
  BY DEF Init, TypeOK, Statuses
<1>4. AnswerInv /\ SoleInv
  BY <1>1, <1>2 DEF AnswerInv, SoleInv
<1>. QED
  BY <1>3, <1>4 DEF IInv

\* The step by which a side begins a call.
LEMMA BeginStep ==
  ASSUME IInv, NEW handshake \in Handshake,
         ClientHandshake(handshake) \/ ClientSendFails(handshake) \/ ServerHandshake(handshake)
  PROVE  IInv'
<1>1. TypeOK'
  <2>1. call' \in [Sides -> Statuses]
    BY DEF IInv, TypeOK, ClientHandshake, ClientSendFails, ServerHandshake, Statuses
  <2>4. inbox' \in [Sides -> Seq(Frame)]
    <3>1. Append(inbox["server"], encode_handshake(handshake)) \in Seq(Frame)
      BY FramesDecode DEF IInv, TypeOK, Sides
    <3>2. \/ inbox' = inbox
          \/ inbox' = [inbox EXCEPT !["server"] = Append(@, encode_handshake(handshake))]
      BY DEF ClientHandshake, ClientSendFails, ServerHandshake
    <3>. QED
      BY <3>1, <3>2 DEF IInv, TypeOK
  <2>2. /\ local' \in [Sides -> Handshake \cup {Nothing}]
        /\ remote' \in [Sides -> Handshake \cup {Nothing}]
        /\ calls' \in [Sides -> Nat] /\ lapsed' \in [Sides -> BOOLEAN]
    BY DEF IInv, TypeOK, ClientHandshake, ClientSendFails, ServerHandshake, Begins, Sides
  <2>3. \A side \in Sides : call'[side] # "none" => local'[side] \in Handshake
    BY DEF IInv, TypeOK, ClientHandshake, ClientSendFails, ServerHandshake, Begins, Sides
  <2>. QED
    BY <2>1, <2>2, <2>3, <2>4 DEF TypeOK
<1>2. CASE ServerHandshake(handshake)
  <2>1. /\ call["server"] # "ok" /\ call'["server"] = "waiting"
        /\ call'["client"] = call["client"] /\ local'["client"] = local["client"]
        /\ UNCHANGED <<inbox, lapsed>>
    BY <1>2 DEF IInv, TypeOK, ServerHandshake, Begins, Sides
  <2>2. AnswerInv' /\ SoleInv'
    BY <2>1 DEF IInv, AnswerInv, SoleInv
  <2>. QED
    BY <1>1, <2>2 DEF IInv
<1>3. CASE ClientHandshake(handshake)
  <2>1. /\ call["client"] \notin {"waiting", "ok"} /\ call'["client"] = "waiting"
        /\ call'["server"] = call["server"] /\ local'["server"] = local["server"]
        /\ local'["client"] = handshake
        /\ inbox'["client"] = inbox["client"]
        /\ inbox'["server"] = Append(inbox["server"], encode_handshake(handshake))
        /\ UNCHANGED <<remote, lapsed>>
    BY <1>3 DEF IInv, TypeOK, ClientHandshake, Begins, Sides
  <2>2. AnswerInv'
    BY <2>1 DEF IInv, AnswerInv
  <2>3. SoleInv'
    <3>1. inbox["server"] = << >> => inbox'["server"] = <<encode_handshake(handshake)>>
      BY <2>1
    <3>. QED
      BY <2>1, <3>1 DEF IInv, AnswerInv, SoleInv
  <2>. QED
    BY <1>1, <2>2, <2>3 DEF IInv
<1>4. CASE ClientSendFails(handshake)
  <2>1. /\ call["client"] \notin {"waiting", "ok"} /\ call'["client"] = "send_failed"
        /\ call'["server"] = call["server"] /\ local'["server"] = local["server"]
        /\ UNCHANGED <<remote, inbox, lapsed>>
    BY <1>4 DEF IInv, TypeOK, ClientSendFails, Begins, Sides
  <2>2. AnswerInv' /\ SoleInv'
    BY <2>1 DEF IInv, AnswerInv, SoleInv
  <2>. QED
    BY <1>1, <2>2 DEF IInv
<1>. QED
  BY <1>2, <1>3, <1>4

\* A side takes a frame and its call ends without success, or with a failure
\* to send what it should answer.
LEMMA RefuseStep ==
  ASSUME IInv, NEW side \in Sides,
         \/ DecodeFails(side)
         \/ Incompatible(side)
         \/ side = "server" /\ ServerSendFails
  PROVE  IInv'
<1>. DEFINE other == Peer(side)
<1>1. /\ other \in Sides /\ other # side
      /\ call[side] = "waiting" /\ inbox[side] # << >>
      /\ call'[side] \in {"undecodable", "incompatible", "send_failed"}
      /\ call'[other] = call[other]
      /\ inbox'[side] = Tail(inbox[side]) /\ inbox'[other] = inbox[other]
      /\ UNCHANGED <<local, calls, lapsed>>
      /\ remote'[other] = remote[other]
  BY DEF IInv, TypeOK, DecodeFails, Incompatible, ServerSendFails, Accepts, Receives,
     Answered, Took, Peer, Sides
<1>2. TypeOK'
  <2>1. call' \in [Sides -> Statuses]
    BY DEF IInv, TypeOK, DecodeFails, Incompatible, ServerSendFails, Answered, Statuses
  <2>3. inbox' \in [Sides -> Seq(Frame)]
    <3>1. Tail(inbox[side]) \in Seq(Frame)
      BY <1>1 DEF IInv, TypeOK
    <3>2. inbox' = [inbox EXCEPT ![side] = Tail(@)]
      BY DEF DecodeFails, Incompatible, ServerSendFails, Took
    <3>. QED
      BY <3>1, <3>2 DEF IInv, TypeOK
  <2>4. \A s \in Sides : call'[s] # "none" => local'[s] \in Handshake
    BY <1>1 DEF IInv, TypeOK, Sides, Peer
  <2>2. remote' \in [Sides -> Handshake \cup {Nothing}]
    <3>1. ASSUME side = "server" /\ ServerSendFails
          PROVE  Received("server").fields \in Handshake
      BY <3>1, TakenFrame, FramesDecode DEF IInv, TypeOK, ServerSendFails, Accepts, Receives,
         Received, Sides
    <3>. QED
      BY <3>1 DEF IInv, TypeOK, DecodeFails, Incompatible, ServerSendFails, Accepts
  <2>. QED
    BY <1>1, <2>1, <2>2, <2>3, <2>4 DEF IInv, TypeOK
<1>3. CASE side = "server"
  <2>1. AnswerInv' /\ SoleInv'
    <3>1. inbox["server"] = <<encode_handshake(local["client"])>> => inbox'["server"] = << >>
      BY <1>1, <1>3
    <3>2. other = "client"
      BY <1>3 DEF Peer
    <3>. QED
      BY <1>1, <1>3, <3>1, <3>2 DEF IInv, AnswerInv, SoleInv
  <2>. QED
    BY <1>2, <2>1 DEF IInv
<1>4. CASE side = "client"
  <2>. DEFINE frames == inbox["client"]
  <2>1. /\ call["server"] = "ok" /\ call'["server"] = "ok"
        /\ remote'["server"] = remote["server"]
        /\ inbox'["server"] = inbox["server"]
    BY <1>1, <1>4 DEF IInv, AnswerInv, Peer
  <2>2. frames \in Seq(Frame) /\ frames # << >> /\ inbox'["client"] = Tail(frames)
    BY <1>1, <1>4 DEF IInv, TypeOK, Sides
  <2>3. call'["client"] \in {"undecodable", "incompatible"}
    BY <1>4 DEF IInv, TypeOK, DecodeFails, Incompatible, Answered, Sides
  <2>4. call'["client"] = "incompatible" =>
          ~validate_compatibility(local["client"], local["server"])
    <3>1. SUFFICES ASSUME call'["client"] = "incompatible"
                   PROVE  ~validate_compatibility(local["client"], local["server"])
      OBVIOUS
    <3>2. Incompatible("client")
      BY <1>4, <3>1 DEF IInv, TypeOK, DecodeFails, Answered, Sides
    <3>3. frames[1] = encode_handshake(local["server"])
      BY <2>2, <3>2, TakenFrame DEF IInv, AnswerInv, Incompatible, Received
    <3>4. Received("client").fields = local["server"]
      BY <2>2, <3>3, TakenFrame DEF Received, encode_handshake
    <3>. QED
      BY <3>2, <3>4 DEF Incompatible
  <2>7. \A i \in 1..Len(Tail(frames)) : i + 1 \in 1..Len(frames) /\ i + 1 # 1
                                         /\ Tail(frames)[i] = frames[i + 1]
    BY <2>2, TakenFrame
  <2>5. AnswerInv'
    <3>1. \A i \in 1..Len(inbox'["client"]) :
            Decodes(inbox'["client"][i]) =>
              inbox'["client"][i] = encode_handshake(local'["server"])
      BY <1>1, <2>2, <2>7 DEF IInv, AnswerInv
    <3>. QED
      BY <1>1, <2>1, <2>3, <2>4, <3>1 DEF IInv, AnswerInv
  <2>6. SoleInv'
    BY <1>1, <2>1, <2>2, <2>3, <2>7 DEF IInv, SoleInv
  <2>. QED
    BY <1>2, <2>5, <2>6 DEF IInv
<1>. QED
  BY <1>3, <1>4 DEF Sides

\* The client takes the answer.
LEMMA ClientAcceptsStep == ASSUME IInv, ClientAccepts PROVE IInv'
<1>. DEFINE frames == inbox["client"]
<1>1. /\ call["client"] = "waiting" /\ frames # << >> /\ frames \in Seq(Frame)
      /\ call'["client"] = "ok" /\ call'["server"] = call["server"]
      /\ remote'["client"] = Received("client").fields /\ remote'["server"] = remote["server"]
      /\ inbox'["client"] = Tail(frames) /\ inbox'["server"] = inbox["server"]
      /\ UNCHANGED <<local, calls, lapsed>>
  BY DEF IInv, TypeOK, ClientAccepts, Accepts, Receives, Answered, Took, Sides
<1>2. frames[1] = Received("client") /\ 1 \in 1..Len(frames) /\ Decodes(frames[1])
  BY <1>1, TakenFrame DEF ClientAccepts, Accepts, Received
<1>3. /\ frames[1] = encode_handshake(local["server"])
      /\ Received("client").fields = local["server"]
  BY <1>2 DEF IInv, AnswerInv, encode_handshake
<1>4. /\ call["server"] = "ok"
      /\ validate_compatibility(local["client"], local["server"])
  BY <1>1, <1>3 DEF IInv, AnswerInv, ClientAccepts, Accepts
<1>5. \A i \in 1..Len(Tail(frames)) : i + 1 \in 1..Len(frames) /\ i + 1 # 1
                                       /\ Tail(frames)[i] = frames[i + 1]
  BY <1>1, TakenFrame
<1>6. TypeOK'
  <2>1. call' \in [Sides -> Statuses]
    BY DEF IInv, TypeOK, ClientAccepts, Answered, Statuses
  <2>2. remote' \in [Sides -> Handshake \cup {Nothing}]
    BY <1>3 DEF IInv, TypeOK, ClientAccepts, Accepts, Sides
  <2>3. inbox' \in [Sides -> Seq(Frame)]
    <3>1. Tail(frames) \in Seq(Frame)
      BY <1>1
    <3>. QED
      BY <3>1 DEF IInv, TypeOK, ClientAccepts, Took
  <2>. QED
    BY <1>1, <2>1, <2>2, <2>3 DEF IInv, TypeOK, Sides
<1>7. AnswerInv'
  <2>1. \A i \in 1..Len(inbox'["client"]) :
          Decodes(inbox'["client"][i]) =>
            inbox'["client"][i] = encode_handshake(local'["server"])
    BY <1>1, <1>5 DEF IInv, AnswerInv
  <2>. QED
    BY <1>1, <1>3, <1>4, <2>1 DEF IInv, AnswerInv
<1>8. SoleInv'
  BY <1>1, <1>2, <1>4, <1>5 DEF IInv, SoleInv
<1>. QED
  BY <1>6, <1>7, <1>8 DEF IInv

\* The server answers: what it takes is the client's only handshake, unless a
\* call of the client was abandoned.
LEMMA ServerAcceptsStep == ASSUME IInv, ServerAccepts PROVE IInv'
<1>. DEFINE frames == inbox["server"]
            answer == encode_handshake(local["server"])
<1>1. /\ call["server"] = "waiting" /\ frames # << >> /\ frames \in Seq(Frame)
      /\ call'["server"] = "ok" /\ call'["client"] = call["client"]
      /\ remote'["server"] = Received("server").fields /\ remote'["client"] = remote["client"]
      /\ inbox'["server"] = Tail(frames) /\ inbox'["client"] = Append(inbox["client"], answer)
      /\ UNCHANGED <<local, calls, lapsed>>
  BY DEF IInv, TypeOK, ServerAccepts, Accepts, Receives, Answered, Took, Sides
<1>2. inbox["client"] = << >> /\ inbox'["client"] = <<answer>>
  <2>1. inbox["client"] = << >>
    BY <1>1 DEF IInv, AnswerInv
  <2>2. Append(inbox["client"], answer) = <<answer>>
    BY <2>1
  <2>. QED
    BY <1>1, <2>1, <2>2
<1>3. /\ Received("server").fields \in Handshake
      /\ validate_compatibility(local["server"], Received("server").fields)
  BY <1>1, TakenFrame, FramesDecode DEF ServerAccepts, Accepts, Received
<1>4. local["server"] \in Handshake
  BY <1>1 DEF IInv, TypeOK, Sides
<1>5. TypeOK'
  <2>1. call' \in [Sides -> Statuses]
    BY DEF IInv, TypeOK, ServerAccepts, Answered, Statuses
  <2>2. remote' \in [Sides -> Handshake \cup {Nothing}]
    BY <1>3 DEF IInv, TypeOK, ServerAccepts, Accepts
  <2>3. inbox' \in [Sides -> Seq(Frame)]
    <3>1. Tail(frames) \in Seq(Frame) /\ <<answer>> \in Seq(Frame)
      BY <1>1, <1>4, FramesDecode
    <3>2. inbox' = [Took("server") EXCEPT !["client"] = Append(@, answer)]
      BY DEF ServerAccepts
    <3>3. \A side \in Sides : inbox'[side] \in Seq(Frame)
      BY <1>1, <1>2, <3>1 DEF Sides
    <3>. QED
      BY <3>2, <3>3 DEF IInv, TypeOK, Took
  <2>4. \A side \in Sides : call'[side] # "none" => local'[side] \in Handshake
    BY <1>1, <1>4 DEF IInv, TypeOK, Sides
  <2>. QED
    BY <1>1, <2>1, <2>2, <2>3, <2>4 DEF IInv, TypeOK
<1>6. AnswerInv'
  BY <1>1, <1>2, <1>3 DEF IInv, AnswerInv
<1>7. SoleInv'
  <2>1. SUFFICES ASSUME ~lapsed["client"] PROVE SoleInv'
    BY <1>1 DEF SoleInv
  <2>2. call["client"] = "waiting" /\ frames = <<encode_handshake(local["client"])>>
    BY <1>1, <2>1 DEF IInv, SoleInv
  <2>3. Received("server").fields = local["client"]
    BY <2>2 DEF Received, encode_handshake
  <2>. QED
    BY <1>1, <1>2, <2>2, <2>3 DEF SoleInv
<1>. QED
  BY <1>5, <1>6, <1>7 DEF IInv

\* A call is given up.
LEMMA GivesUpStep == ASSUME IInv, NEW side \in Sides, GivesUp(side) PROVE IInv'
<1>1. /\ call[side] = "waiting" /\ call'[side] \in {"exhausted", "io_error"}
      /\ \A s \in Sides : s # side => call'[s] = call[s] /\ lapsed'[s] = lapsed[s]
      /\ lapsed'[side]
      /\ UNCHANGED <<local, remote, inbox, calls>>
  BY DEF IInv, TypeOK, GivesUp, Answered
<1>2. TypeOK'
  <2>1. call' \in [Sides -> Statuses] /\ lapsed' \in [Sides -> BOOLEAN]
    BY DEF IInv, TypeOK, GivesUp, Answered, Statuses
  <2>2. \A s \in Sides : call'[s] # "none" => local'[s] \in Handshake
    BY <1>1 DEF IInv, TypeOK
  <2>. QED
    BY <1>1, <2>1, <2>2 DEF IInv, TypeOK
<1>3. AnswerInv' /\ SoleInv'
  <2>1. CASE side = "client"
    <3>1. call'["server"] = call["server"]
      BY <1>1, <2>1 DEF Sides
    <3>. QED
      BY <1>1, <2>1, <3>1 DEF IInv, AnswerInv, SoleInv
  <2>2. CASE side = "server"
    <3>1. call'["client"] = call["client"] /\ lapsed'["client"] = lapsed["client"]
      BY <1>1, <2>2 DEF Sides
    <3>. QED
      BY <1>1, <2>2, <3>1 DEF IInv, AnswerInv, SoleInv
  <2>. QED
    BY <2>1, <2>2 DEF Sides
<1>. QED
  BY <1>2, <1>3 DEF IInv

\* A payload frame is sent; it is no answer.
LEMMA SendPayloadStep == ASSUME IInv, NEW side \in Sides, SendPayloadFrame(side) PROVE IInv'
<1>. DEFINE other == Peer(side)
<1>1. /\ other \in Sides /\ other # side /\ call[side] = "ok"
      /\ inbox[other] \in Seq(Frame)
      /\ inbox' = [inbox EXCEPT ![other] = Append(@, PayloadFrame)]
      /\ inbox'[other] = Append(inbox[other], PayloadFrame) /\ inbox'[side] = inbox[side]
      /\ UNCHANGED <<call, local, remote, calls, lapsed>>
  BY DEF IInv, TypeOK, SendPayloadFrame, Peer, Sides
<1>2. Append(inbox[other], PayloadFrame) \in Seq(Frame)
  BY <1>1, FramesDecode
<1>3. TypeOK'
  BY <1>1, <1>2 DEF IInv, TypeOK
<1>4. call["server"] = "ok"
  BY <1>1 DEF IInv, AnswerInv, Sides
<1>5. ASSUME NEW i \in 1..Len(inbox'["client"]), Decodes(inbox'["client"][i])
      PROVE  /\ i \in 1..Len(inbox["client"])
             /\ inbox'["client"][i] = inbox["client"][i]
  BY <1>1, <1>5, FramesDecode DEF Sides, Peer
<1>6. AnswerInv' /\ SoleInv'
  BY <1>1, <1>4, <1>5 DEF IInv, AnswerInv, SoleInv
<1>. QED
  BY <1>3, <1>6 DEF IInv

\* A payload frame is received: the first frame goes.
LEMMA ReceivePayloadStep ==
  ASSUME IInv, NEW side \in Sides, ReceivePayloadFrame(side) PROVE IInv'
<1>1. /\ call[side] = "ok" /\ inbox[side] # << >> /\ inbox[side] \in Seq(Frame)
      /\ inbox'[side] = Tail(inbox[side])
      /\ \A s \in Sides : s # side => inbox'[s] = inbox[s]
      /\ UNCHANGED <<call, local, remote, calls, lapsed>>
  BY DEF IInv, TypeOK, ReceivePayloadFrame, Took
<1>2. TypeOK'
  <2>1. Tail(inbox[side]) \in Seq(Frame)
    BY <1>1
  <2>. QED
    BY <1>1, <2>1 DEF IInv, TypeOK, ReceivePayloadFrame, Took
<1>3. call["server"] = "ok"
  BY <1>1 DEF IInv, AnswerInv, Sides
<1>4. AnswerInv' /\ SoleInv'
  <2>1. CASE side = "server"
    <3>1. inbox'["client"] = inbox["client"]
      BY <1>1, <2>1 DEF Sides
    <3>. QED
      BY <1>1, <1>3, <3>1 DEF IInv, AnswerInv, SoleInv
  <2>2. CASE side = "client"
    <3>1. \A i \in 1..Len(inbox'["client"]) : /\ i + 1 \in 1..Len(inbox["client"])
                                               /\ inbox'["client"][i] = inbox["client"][i + 1]
      <4>. DEFINE frames == inbox["client"]
      <4>1. frames \in Seq(Frame) /\ frames # << >> /\ inbox'["client"] = Tail(frames)
        BY <1>1, <2>2
      <4>. QED
        BY <4>1, TakenFrame
    <3>. QED
      BY <1>1, <1>3, <2>2, <3>1 DEF IInv, AnswerInv, SoleInv
  <2>. QED
    BY <2>1, <2>2 DEF Sides
<1>. QED
  BY <1>2, <1>4 DEF IInv

\* Every step of either side keeps the invariant.
LEMMA NextIInv == IInv /\ [Next]_vars => IInv'
<1>. SUFFICES ASSUME IInv, [Next]_vars PROVE IInv'
  OBVIOUS
<1>1. ASSUME NEW handshake \in Handshake,
             ClientHandshake(handshake) \/ ClientSendFails(handshake)
               \/ ServerHandshake(handshake)
      PROVE  IInv'
  BY <1>1, BeginStep
<1>2. CASE ClientAccepts
  BY <1>2, ClientAcceptsStep
<1>3. CASE ServerAccepts
  BY <1>3, ServerAcceptsStep
<1>4. CASE ServerSendFails
  <2>1. "server" \in Sides
    BY DEF Sides
  <2>. QED
    BY <1>4, <2>1, RefuseStep
<1>5. ASSUME NEW side \in Sides, DecodeFails(side) \/ Incompatible(side)
      PROVE  IInv'
  BY <1>5, RefuseStep
<1>6. ASSUME NEW side \in Sides, GivesUp(side)
      PROVE  IInv'
  BY <1>6, GivesUpStep
<1>7. ASSUME NEW side \in Sides, SendPayloadFrame(side)
      PROVE  IInv'
  BY <1>7, SendPayloadStep
<1>8. ASSUME NEW side \in Sides, ReceivePayloadFrame(side)
      PROVE  IInv'
  BY <1>8, ReceivePayloadStep
<1>9. CASE UNCHANGED vars
  BY <1>9 DEF vars, IInv, TypeOK, AnswerInv, SoleInv
<1>. QED
  BY <1>1, <1>2, <1>3, <1>4, <1>5, <1>6, <1>7, <1>8, <1>9 DEF Next

\* The invariant holds in every state of every behaviour.
LEMMA Invariance == Spec => []IInv
<1>1. Init => IInv
  BY InitIInv
<1>2. IInv /\ [Next]_vars => IInv'
  BY NextIInv
<1>. QED
  BY <1>1, <1>2, PTL DEF Spec

-----------------------------------------------------------------------------
(* Theorems.                                                               *)

\* Every variable of both sides keeps its type, and a side that made a call
\* has made an offer.
THEOREM TypeCorrect == Spec => []TypeOK
<1>1. IInv => TypeOK
  BY DEF IInv
<1>. QED
  BY <1>1, Invariance, PTL

\* The two sides of a session know what the other offered, and what a client
\* agreed to is its own version, mode, codec and frame limit, unless a call of
\* the client was abandoned: client_handshake() and server_handshake().
THEOREM SessionsMatchAlways == Spec => []SessionsMatch
<1>1. IInv => SessionsMatch
  <2>. SUFFICES ASSUME IInv PROVE SessionsMatch
    OBVIOUS
  <2>1. KnowEachOther
    BY DEF IInv, AnswerInv, SoleInv, KnowEachOther
  <2>2. NegotiatedAlike
    <3>. SUFFICES ASSUME call["client"] = "ok", ~lapsed["client"]
                  PROVE  [local["client"] EXCEPT !.session_id = 0]
                           = [remote["client"] EXCEPT !.session_id = 0]
      BY DEF NegotiatedAlike
    <3>. DEFINE mine == local["client"]
                theirs == local["server"]
    <3>1. /\ remote["client"] = theirs
          /\ validate_compatibility(mine, theirs) /\ validate_compatibility(theirs, mine)
      BY DEF IInv, AnswerInv, SoleInv
    <3>2. mine \in Handshake /\ theirs \in Handshake
      BY DEF IInv, AnswerInv, TypeOK, Sides
    <3>3. /\ mine.protocol_version = theirs.protocol_version
          /\ mine.transport_mode = theirs.transport_mode
          /\ mine.frame_codec = theirs.frame_codec
          /\ mine.max_frame_bytes = theirs.max_frame_bytes
      <4>1. mine.max_frame_bytes \in Nat /\ theirs.max_frame_bytes \in Nat
        BY <3>2, SessionAssumption DEF Handshake
      <4>. HIDE DEF mine, theirs
      <4>. QED
        BY <3>1, <4>1 DEF validate_compatibility
    <3>. HIDE DEF mine, theirs
    <3>4. [mine EXCEPT !.session_id = 0] = [theirs EXCEPT !.session_id = 0]
      BY <3>2, <3>3 DEF Handshake
    <3>. QED
      BY <3>1, <3>4 DEF mine
  <2>. QED
    BY <2>1, <2>2 DEF SessionsMatch
<1>. QED
  BY <1>1, Invariance, PTL

\* A server believes in a session that its client refused only for the sake of
\* max_frame_bytes, which each side wants to be at least its own.
THEOREM OnlyLimitsSplitAlways == Spec => []OnlyLimitsSplit
<1>1. IInv => OnlyLimitsSplit
  <2>. SUFFICES ASSUME IInv, call["server"] = "ok", call["client"] = "incompatible",
                       remote["server"] = local["client"]
                PROVE  local["client"].max_frame_bytes > local["server"].max_frame_bytes
    BY DEF OnlyLimitsSplit
  <2>1. /\ validate_compatibility(local["server"], local["client"])
        /\ ~validate_compatibility(local["client"], local["server"])
    BY DEF IInv, AnswerInv
  <2>2. local["client"] \in Handshake /\ local["server"] \in Handshake
    BY DEF IInv, TypeOK, Sides
  <2>. QED
    BY <2>1, <2>2, SessionAssumption DEF validate_compatibility, Handshake
<1>. QED
  BY <1>1, Invariance, PTL

=============================================================================
