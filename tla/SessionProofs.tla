--------------------------- MODULE SessionProofs ---------------------------
(***************************************************************************)
(* The theorems about Session, for every stream of frames, every way TCP   *)
(* cuts it and every max_message_size.                                     *)
(*                                                                         *)
(* That the answers follow the frames needs the position of the buffer in  *)
(* the stream: a full buffer can only be told from a frame that is too     *)
(* large because the buffer begins where a frame does (Bytes).  It needs   *)
(* the answer that is on its way as well, which is for the frame before    *)
(* the buffer or, when the session closes, for the one at its front        *)
(* (Answers).                                                              *)
(***************************************************************************)
EXTENDS Session, TLAPS

(* buffer_ holds what has been received from the front of a frame on. *)
Bytes ==
  /\ stream \in Stream
  /\ next \in 1 .. Len(stream) + 1
  /\ buffered \in 0 .. limit
  /\ received \in Nat
  /\ received = Position(stream, next) + buffered
  /\ received <= Position(stream, Len(stream) + 1)

(* The frame that response answers, and the answers given before it. *)
Answering == IF closing THEN next ELSE next - 1

Answers ==
  /\ replies \in Seq({"answer", "invalid_command", "malformed_request",
                      "request_is_too_large"})
  /\ \A m \in 1 .. next - 1 : ~ Final(stream[m])
  /\ pc = "write" => /\ Answering \in 1 .. Len(stream)
                     /\ response = Outcome(stream[Answering])
  /\ peer = "open" /\ pc \in {"parse", "read"} => Len(replies) = next - 1
  /\ peer = "open" /\ pc = "write" => Len(replies) = Answering - 1

Types == /\ pc \in {"parse", "write", "read", "closed"}
         /\ closing \in BOOLEAN
         /\ read \subseteq 0 .. kMaxArgs - 1
         /\ peer \in {"open", "closed"}

IInv == Bytes /\ Answers /\ Types /\ RepliesFollowRequests /\ ArgsInRange

-----------------------------------------------------------------------------
(* The arguments.                                                          *)

(* Every name is one of the known commands or kUnknown. *)
LEMMA CommandTypes ==
  ASSUME NEW name
  PROVE  determineCommandType(name) \in CommandType \cup {"kUnknown"}
BY DEF determineCommandType, CommandType

(* The number of arguments a command of each type has been admitted with. *)
LEMMA Counts ==
  ASSUME NEW type \in CommandType, NEW argc \in Int, validateArgs(type, argc)
  PROVE  /\ argc \in 0 .. kMaxArgs
         /\ type \in {"kGet", "kTtl"} => argc = 1
         /\ type = "kSet" => argc \in 2 .. 4
         /\ type \in {"kExpire", "kConfig"} => argc = 2
         /\ type = "kDel" => argc >= 1
         /\ type \in {"kInfo", "kPing"} => argc <= 1
<1>1. argc \in kSpecs[type].minArgs .. kSpecs[type].maxArgs
  BY DEF validateArgs
<1>2. CASE type \in {"kGet", "kTtl"}
  BY <1>1, <1>2 DEF kSpecs, Args, kMaxArgs
<1>3. CASE type = "kSet"
  BY <1>1, <1>3 DEF kSpecs, Args, kMaxArgs
<1>4. CASE type \in {"kExpire", "kConfig"}
  BY <1>1, <1>4 DEF kSpecs, Args, kMaxArgs
<1>5. CASE type = "kDel"
  BY <1>1, <1>5 DEF kSpecs, Args, kMaxArgs
<1>6. CASE type \in {"kInfo", "kPing"}
  BY <1>1, <1>6 DEF kSpecs, Args, kMaxArgs
<1>7. CASE type = "kCommand"
  BY <1>1, <1>7 DEF kSpecs, Args, kMaxArgs
<1> QED
  BY <1>2, <1>3, <1>4, <1>5, <1>6, <1>7 DEF CommandType

(* A handler reads only arguments there are: the counts toCommand admits   *)
(* are enough for every handler and for every place where it stops early.  *)
LEMMA HandlersInRange ==
  ASSUME NEW type \in CommandType, NEW argc \in Int, validateArgs(type, argc),
         NEW R \in ArgsRead([type |-> type, argc |-> argc])
  PROVE  R \subseteq 0 .. argc - 1
<1>1. /\ argc \in 0 .. kMaxArgs
      /\ type \in {"kGet", "kTtl"} => argc = 1
      /\ type = "kSet" => argc \in 2 .. 4
      /\ type \in {"kExpire", "kConfig"} => argc = 2
      /\ type \in {"kInfo", "kPing"} => argc <= 1
  BY Counts
<1>2. CASE type \in {"kGet", "kTtl"}
  BY <1>1, <1>2 DEF ArgsRead
<1>3. CASE type = "kSet"
  BY <1>1, <1>3 DEF ArgsRead
<1>4. CASE type \in {"kExpire", "kConfig"}
  BY <1>1, <1>4 DEF ArgsRead
<1>5. CASE type \in {"kDel", "kInfo"}
  BY <1>1, <1>5 DEF ArgsRead
<1>6. CASE type = "kPing"
  BY <1>1, <1>6 DEF ArgsRead
<1>7. CASE type = "kCommand"
  BY <1>1, <1>7 DEF ArgsRead
<1> QED
  BY <1>2, <1>3, <1>4, <1>5, <1>6, <1>7 DEF CommandType

(* What a handler reads of a frame that toCommand accepts are elements the *)
(* frame has, and strings.                                                 *)
LEMMA ArgsOfCommand ==
  ASSUME NEW f \in Frame, IsCommand(f), NEW R \in ArgsRead(toCommand(f.value))
  PROVE  /\ R \subseteq 0 .. kMaxArgs - 1
         /\ \A i \in R : /\ i + 2 <= Len(f.value.types)
                         /\ f.value.types[i + 2] \in StringType
<1> DEFINE types == f.value.types
           type  == determineCommandType(f.value.name)
           argc  == Len(types) - 1
<1>1. types \in Seq(STRING) /\ Len(types) \in Nat
  <2>1. f.value \in Request
    BY DEF IsCommand, Frame
  <2> QED
    BY <2>1, RequestAssumption
<1>2. /\ toCommand(f.value) = [type |-> type, argc |-> argc]
      /\ type # "kUnknown" /\ validateArgs(type, argc)
      /\ \A i \in 2 .. argc + 1 : types[i] \in StringType
  BY DEF IsCommand, toCommand
<1>3. type \in CommandType
  BY <1>2, CommandTypes
<1>4. argc \in Int /\ Len(types) = argc + 1
  BY <1>1
<1> HIDE DEF type, types, argc
<1>5. R \subseteq 0 .. argc - 1 /\ argc \in 0 .. kMaxArgs
  BY <1>2, <1>3, <1>4, HandlersInRange, Counts
<1>6. R \subseteq 0 .. kMaxArgs - 1
  BY <1>4, <1>5 DEF kMaxArgs
<1>7. \A i \in R : i + 2 \in 2 .. argc + 1
  BY <1>4, <1>5
<1>8. \A i \in R : i + 2 <= Len(types) /\ types[i + 2] \in StringType
  BY <1>4, <1>2, <1>7
<1> QED
  BY <1>6, <1>8 DEF types

-----------------------------------------------------------------------------
(* The steps.                                                              *)

(* Where the front of the buffer is, and how the next frame lies there. *)
LEMMA Front ==
  ASSUME Bytes
  PROVE  /\ stream \in Seq(Frame) /\ Len(stream) \in Nat /\ limit \in Nat /\ limit >= 1
         /\ next > Len(stream) => buffered = 0
         /\ next <= Len(stream) =>
              /\ stream[next] \in Frame /\ stream[next].size \in Nat \ {0}
              /\ Position(stream, next) \in Nat
              /\ Position(stream, next + 1) = Position(stream, next) + stream[next].size
<1>1. stream \in Seq(Frame) /\ Len(stream) \in Nat /\ DOMAIN stream = 1 .. Len(stream)
      /\ \A i \in 1 .. Len(stream) : stream[i] \in Frame
  BY SessionAssumption DEF Bytes
<1>2. \A i \in 1 .. Len(stream) : stream[i].end = Position(stream, i) + stream[i].size
  BY <1>1, SessionAssumption DEF Bytes
<1>3. \A f \in Frame : f.size \in Nat \ {0} /\ f.end \in Nat
  BY DEF Frame
<1>4. \A i \in 1 .. Len(stream) + 1 : Position(stream, i) \in Nat
  BY <1>1, <1>3 DEF Position
<1>5. limit \in Nat /\ limit >= 1
  BY SessionAssumption DEF limit
<1>6. next > Len(stream) => buffered = 0
  <2> SUFFICES ASSUME next > Len(stream) PROVE buffered = 0
    OBVIOUS
  <2>1. next = Len(stream) + 1
    BY <1>1 DEF Bytes
  <2> QED
    BY <1>1, <1>4, <1>5, <2>1 DEF Bytes
<1>7. next <= Len(stream) => Position(stream, next + 1) = stream[next].end
  BY <1>1 DEF Position, Bytes
<1> QED
  BY <1>1, <1>2, <1>3, <1>4, <1>5, <1>6, <1>7 DEF Bytes

(* A new connection has an empty buffer and owes no answer. *)
LEMMA InitIInv == Init => IInv
<1> SUFFICES ASSUME Init PROVE IInv
  OBVIOUS
<1>1. stream \in Stream /\ Len(stream) \in Nat
  BY SessionAssumption DEF Init
<1>2. Position(stream, Len(stream) + 1) \in Nat /\ Position(stream, 1) = 0
  BY <1>1, SessionAssumption DEF Position, Frame
<1>3. Bytes
  BY <1>1, <1>2, SessionAssumption DEF Init, Bytes, limit
<1>4. Answers
  BY DEF Init, Answers
<1>5. Types
  BY DEF Init, Types
<1>6. RepliesFollowRequests /\ ArgsInRange
  BY DEF Init, RepliesFollowRequests, ArgsInRange
<1> QED
  BY <1>3, <1>4, <1>5, <1>6 DEF IInv

(* A frame is decided at the front of the buffer: a command or a value     *)
(* that is none is consumed.                                               *)
LEMMA ConsumeKeeps ==
  ASSUME IInv, Execute \/ Invalid
  PROVE  IInv'
<1>1. /\ pc = "parse" /\ Complete /\ Consume
      /\ UNCHANGED <<stream, received, peer, replies>>
      /\ Respond(IF IsCommand(stream[next]) THEN "answer" ELSE "invalid_command", FALSE)
  BY DEF Execute, Invalid
<1>2. stream[next].verdict = "kReady"
  BY DEF Execute, Invalid, IsCommand
<1>3. /\ next \in 1 .. Len(stream) /\ buffered >= stream[next].size
      /\ stream[next] \in Frame /\ stream[next].size \in Nat \ {0}
      /\ Position(stream, next) \in Nat /\ Len(stream) \in Nat /\ limit \in Nat
      /\ Position(stream, next + 1) = Position(stream, next) + stream[next].size
  <2>1. Bytes /\ next <= Len(stream) /\ buffered >= stream[next].size
    BY <1>1 DEF IInv, Complete
  <2>2. next \in 1 .. Len(stream)
    BY <2>1 DEF Bytes
  <2> QED
    BY <2>1, <2>2, Front
<1>4. /\ next' = next + 1 /\ buffered' = buffered - stream[next].size
      /\ stream' = stream /\ received' = received /\ peer' = peer /\ replies' = replies
      /\ pc' = "write" /\ closing' = FALSE
  BY <1>1 DEF Consume, Respond
<1>5. Bytes'
  BY <1>3, <1>4 DEF IInv, Bytes
<1>6. ~ Final(stream[next]) /\ response' = Outcome(stream[next])
  <2>1. stream[next].size <= limit
    BY <1>3 DEF IInv, Bytes
  <2>2. ~ (stream[next].size > limit)
    BY <1>3, <2>1
  <2>3. response' = IF IsCommand(stream[next]) THEN "answer" ELSE "invalid_command"
    BY <1>1 DEF Respond
  <2> QED
    BY <1>2, <2>2, <2>3 DEF Final, Outcome
<1>7. Answers'
  <2>1. Answering' = next
    BY <1>3, <1>4 DEF Answering
  <2>2. \A m \in 1 .. next' - 1 : ~ Final(stream'[m])
    <3>1. \A m \in 1 .. next' - 1 : m \in 1 .. next - 1 \/ m = next
      BY <1>3, <1>4
    <3> QED
      BY <1>4, <1>6, <3>1 DEF IInv, Answers
  <2>3. peer = "open" => Len(replies) = next - 1
    BY <1>1 DEF IInv, Answers
  <2> QED
    BY <1>3, <1>4, <1>6, <2>1, <2>2, <2>3 DEF IInv, Answers
<1>8. RepliesFollowRequests'
  BY <1>4 DEF IInv, RepliesFollowRequests
<1>9. Types' /\ ArgsInRange'
  <2>1. next' - 1 = next
    BY <1>3, <1>4
  <2>2. CASE Execute
    <3>1. IsCommand(stream[next]) /\ read' \in ArgsRead(toCommand(stream[next].value))
      BY <2>2 DEF Execute
    <3>2. /\ read' \subseteq 0 .. kMaxArgs - 1
          /\ \A i \in read' : /\ i + 2 <= Len(stream[next].value.types)
                              /\ stream[next].value.types[i + 2] \in StringType
      BY <1>3, <3>1, ArgsOfCommand
    <3> QED
      BY <1>4, <2>1, <3>2 DEF IInv, Types, ArgsInRange
  <2>3. CASE Invalid
    BY <1>4, <2>3 DEF Invalid, IInv, Types, ArgsInRange
  <2> QED
    BY <2>2, <2>3
<1> QED
  BY <1>5, <1>7, <1>8, <1>9 DEF IInv

(* The session is about to end on the frame at the front: the buffer is    *)
(* full only when that frame alone is larger than a message may be.        *)
LEMMA RefuseKeeps ==
  ASSUME IInv, Malformed \/ TooLarge
  PROVE  IInv'
<1>1. /\ pc = "parse" /\ pc' = "write" /\ closing' = TRUE
      /\ stream' = stream /\ received' = received /\ buffered' = buffered /\ next' = next
      /\ read' = read /\ peer' = peer /\ replies' = replies
  BY DEF Malformed, TooLarge, Respond
<1>2. Bytes /\ Len(stream) \in Nat /\ limit \in Nat /\ limit >= 1
      /\ (next > Len(stream) => buffered = 0)
      /\ (next <= Len(stream) => stream[next].size \in Nat)
  BY Front DEF IInv
<1>3. next \in 1 .. Len(stream) /\ response' = Outcome(stream[next])
  <2>1. CASE Malformed
    <3>1. next <= Len(stream) /\ buffered >= stream[next].size
          /\ stream[next].verdict = "kError" /\ response' = "malformed_request"
      BY <2>1 DEF Malformed, Complete, Respond
    <3>2. next \in 1 .. Len(stream)
      BY <1>2, <3>1 DEF Bytes
    <3>3. stream[next].size <= limit /\ ~ (stream[next].size > limit)
      BY <1>2, <3>1 DEF Bytes
    <3> QED
      BY <3>1, <3>2, <3>3 DEF Outcome
  <2>2. CASE TooLarge
    <3>1. ~ Complete /\ buffered >= limit /\ response' = "request_is_too_large"
      BY <2>2 DEF TooLarge, Full, Respond
    <3>2. next <= Len(stream)
      BY <1>2, <3>1 DEF Bytes
    <3>3. next \in 1 .. Len(stream)
      BY <1>2, <3>2 DEF Bytes
    <3>4. stream[next].size > limit /\ ~ (stream[next].size <= limit)
      BY <1>2, <3>1, <3>2 DEF Complete, Bytes
    <3> QED
      BY <3>1, <3>3, <3>4 DEF Outcome
  <2> QED
    BY <2>1, <2>2
<1>4. Bytes'
  BY <1>1, <1>2 DEF Bytes
<1>5. Answers'
  <2>1. Answering' = next
    BY <1>1 DEF Answering
  <2> QED
    BY <1>1, <1>3, <2>1 DEF IInv, Answers
<1>6. Types'
  BY <1>1 DEF IInv, Types
<1>7. RepliesFollowRequests' /\ ArgsInRange'
  BY <1>1 DEF IInv, RepliesFollowRequests, ArgsInRange
<1> QED
  BY <1>4, <1>5, <1>6, <1>7 DEF IInv

(* The answer goes out while the client is there, and is lost when it is   *)
(* not.                                                                    *)
LEMMA WriteKeeps ==
  ASSUME IInv, Write
  PROVE  IInv'
<1>1. /\ pc = "write"
      /\ replies' = (IF peer = "open" THEN Append(replies, response) ELSE replies)
      /\ pc' = (IF closing THEN "closed" ELSE "parse")
      /\ stream' = stream /\ received' = received /\ buffered' = buffered /\ next' = next
      /\ read' = read /\ response' = response /\ closing' = closing /\ peer' = peer
  BY DEF Write
<1>2. /\ Answering \in 1 .. Len(stream) /\ response = Outcome(stream[Answering])
      /\ replies \in Seq({"answer", "invalid_command", "malformed_request",
                          "request_is_too_large"})
      /\ peer = "open" => Len(replies) = Answering - 1
      /\ next \in 1 .. Len(stream) + 1
      /\ \A m \in 1 .. next - 1 : ~ Final(stream[m])
  BY <1>1 DEF IInv, Answers, Bytes
<1>3. Len(stream) \in Nat
  BY Front DEF IInv
<1>4. response \in {"answer", "invalid_command", "malformed_request",
                    "request_is_too_large"}
  BY <1>2 DEF Outcome
<1>5. Bytes'
  BY <1>1 DEF IInv, Bytes
<1>6. Types'
  BY <1>1 DEF IInv, Types
<1>7. ArgsInRange'
  BY <1>1 DEF IInv, ArgsInRange
<1>8. \A m \in 1 .. Answering - 1 : ~ Final(stream[m])
  BY <1>2, <1>3 DEF Answering
<1>9. CASE peer = "open"
  <2>1. replies' = Append(replies, response) /\ Len(replies) = Answering - 1
    BY <1>1, <1>2, <1>9
  <2>2. replies' \in Seq({"answer", "invalid_command", "malformed_request",
                          "request_is_too_large"})
        /\ Len(replies') = Len(replies) + 1
        /\ replies'[Len(replies) + 1] = response
        /\ \A n \in 1 .. Len(replies) : replies'[n] = replies[n]
    BY <1>2, <1>4, <2>1
  <2>3. Len(replies') = Answering
    BY <1>2, <1>3, <2>1, <2>2
  <2>4. Answers'
    <3>1. ~ closing => Answering = next - 1
      BY DEF Answering
    <3> QED
      BY <1>1, <1>2, <2>2, <2>3, <3>1 DEF Answers
  <2>5. RepliesFollowRequests'
    <3> SUFFICES ASSUME NEW n \in 1 .. Answering
                 PROVE  /\ n <= Len(stream) /\ replies'[n] = Outcome(stream[n])
                        /\ \A m \in 1 .. n - 1 : ~ Final(stream[m])
      BY <1>1, <2>3 DEF RepliesFollowRequests
    <3>1. CASE n = Answering
      BY <1>2, <1>3, <1>8, <2>1, <2>2, <3>1
    <3>2. CASE n # Answering
      <4>1. n \in 1 .. Len(replies)
        BY <1>2, <1>3, <2>1, <3>2
      <4> QED
        BY <2>2, <4>1 DEF IInv, RepliesFollowRequests
    <3> QED
      BY <3>1, <3>2
  <2> QED
    BY <1>5, <1>6, <1>7, <2>4, <2>5 DEF IInv
<1>10. CASE peer # "open"
  <2>1. replies' = replies
    BY <1>1, <1>10
  <2>2. Answers'
    BY <1>1, <1>2, <1>10, <2>1 DEF Answers
  <2>3. RepliesFollowRequests'
    BY <1>1, <2>1 DEF IInv, RepliesFollowRequests
  <2> QED
    BY <1>5, <1>6, <1>7, <2>2, <2>3 DEF IInv
<1> QED
  BY <1>9, <1>10

(* Bytes are read into the room that is left, the client goes, or nothing  *)
(* but the place in run changes.                                           *)
LEMMA ReadKeeps ==
  ASSUME IInv, NeedMoreData \/ Read \/ ReadFails \/ PeerCloses \/ UNCHANGED vars
  PROVE  IInv'
<1>1. /\ stream' = stream /\ next' = next /\ read' = read /\ response' = response
      /\ closing' = closing /\ replies' = replies
  BY DEF NeedMoreData, Read, ReadFails, PeerCloses, vars
<1>2. /\ pc' \in {"parse", "write", "read", "closed"} /\ peer' \in {"open", "closed"}
      /\ peer' = "open" => peer = "open"
      /\ pc' = "write" => pc = "write"
      /\ peer' = "open" /\ pc' \in {"parse", "read"} => pc \in {"parse", "read"}
  BY DEF NeedMoreData, Read, ReadFails, PeerCloses, vars, IInv, Types
<1>3. Bytes'
  <2>1. CASE Read
    <3>1. PICK n \in 1 .. Unread : /\ n <= Room
                                   /\ received' = received + n
                                   /\ buffered' = buffered + n
      BY <2>1 DEF Read
    <3>2. Len(stream) \in Nat /\ limit \in Nat /\ Position(stream, Len(stream) + 1) \in Int
          /\ Position(stream, next) \in Int
      <4>1. stream \in Seq(Frame) /\ Len(stream) \in Nat /\ limit \in Nat
        BY Front DEF IInv
      <4>2. \A i \in 1 .. Len(stream) + 1 : Position(stream, i) \in Int
        BY <4>1 DEF Position, Frame
      <4> QED
        BY <4>1, <4>2 DEF IInv, Bytes
    <3> QED
      BY <1>1, <3>1, <3>2 DEF IInv, Bytes, Unread, Room
  <2>2. CASE ~ Read
    BY <1>1, <2>2 DEF NeedMoreData, ReadFails, PeerCloses, vars, IInv, Bytes
  <2> QED
    BY <2>1, <2>2
<1>4. Answers'
  <2>1. Answering' = Answering
    BY <1>1 DEF Answering
  <2> QED
    BY <1>1, <1>2, <2>1 DEF IInv, Answers
<1>5. Types' /\ RepliesFollowRequests' /\ ArgsInRange'
  BY <1>1, <1>2 DEF IInv, Types, RepliesFollowRequests, ArgsInRange
<1> QED
  BY <1>3, <1>4, <1>5 DEF IInv

-----------------------------------------------------------------------------
(* The buffer is a stretch of the stream that begins at a frame, and the   *)
(* answers are those to the frames before it, in every state of the        *)
(* connection.                                                             *)
THEOREM Invariance == Spec => []IInv
<1>1. IInv /\ [Next]_vars => IInv'
  BY ConsumeKeeps, RefuseKeeps, WriteKeeps, ReadKeeps DEF Next
<1> QED
  BY <1>1, InitIInv, PTL DEF Spec

(* However TCP cuts the stream, buffer_ holds no more than a message.      *)
THEOREM TypeCorrect == Spec => []TypeOK
<1>1. IInv => TypeOK
  BY DEF IInv, Bytes, Types, TypeOK
<1> QED
  BY <1>1, Invariance, PTL

(* The n-th answer is the one the n-th frame decides, and nothing follows  *)
(* an error that ends the session.                                         *)
THEOREM AnswersFollowFrames == Spec => []RepliesFollowRequests
<1>1. IInv => RepliesFollowRequests
  BY DEF IInv
<1> QED
  BY <1>1, Invariance, PTL

(* No handler reads an argument that toCommand has not found there.        *)
THEOREM HandlersReadWhatIsThere == Spec => []ArgsInRange
<1>1. IInv => ArgsInRange
  BY DEF IInv
<1> QED
  BY <1>1, Invariance, PTL
=============================================================================
