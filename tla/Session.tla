------------------------------ MODULE Session ------------------------------
(***************************************************************************)
(* One connection: Session::run, read and write (src/session.cpp).         *)
(*                                                                         *)
(* The client's bytes are a sequence of frames.  Of a frame only the       *)
(* number of bytes the parser needs to decide about it matters, where they *)
(* end in the stream, its verdict (RespParser shows that it depends on     *)
(* nothing else), and the value that is read.  TCP cuts the bytes          *)
(* anywhere, so a read brings any number of them, several frames or a part *)
(* of one, up to the room left in buffer_.                                 *)
(***************************************************************************)
EXTENDS Command

CONSTANTS
  Stream,            \* the byte streams a client may send, as sequences of frames
  max_message_size   \* the constructor's argument

Frame == [verdict : {"kReady"}, value : Request, size : Nat \ {0}, end : Nat]
           \cup [verdict : {"kError"}, size : Nat \ {0}, end : Nat]

(* The number of bytes of the frames of s before frame i. *)
Position(s, i) == IF i = 1 THEN 0 ELSE s[i - 1].end

ASSUME SessionAssumption ==
  /\ \A s \in Stream : /\ s \in Seq(Frame)
                       /\ \A i \in DOMAIN s : s[i].end = Position(s, i) + s[i].size
  /\ max_message_size \in Nat

VARIABLES
  stream,      \* what the client sends
  received,    \* the bytes of stream that have been read
  buffered,    \* buffer_.size()
  next,        \* the frame at the front of buffer_
  pc,          \* "parse", "write" or "read" in run; "closed" when it returned
  read,        \* the indexes into args that the last command's handler has read
  response,    \* the value being written
  closing,     \* whether run breaks out of its loop after the write
  peer,        \* whether the client still has the connection open
  replies      \* what the client has been sent

vars == <<stream, received, buffered, next, pc, read, response, closing, peer, replies>>

limit == IF max_message_size = 0 THEN 1 ELSE max_message_size    \* max_message_size_

Init == /\ stream \in Stream
        /\ received = 0 /\ buffered = 0 /\ next = 1
        /\ pc = "parse" /\ read = {} /\ response = "none" /\ closing = FALSE
        /\ peer = "open" /\ replies = <<>>

-----------------------------------------------------------------------------
(* RespParser::parse finds the frame at the front complete. *)
Complete == next <= Len(stream) /\ buffered >= stream[next].size

Respond(value, close) == pc' = "write" /\ response' = value /\ closing' = close

(* buffer_.consume of the frame at the front. *)
Consume == /\ next' = next + 1
           /\ buffered' = buffered - stream[next].size

IsCommand(f) == f.verdict = "kReady" /\ toCommand(f.value) # NoCommand

(* A command is executed and its answer written before the next frame is   *)
(* looked at.                                                              *)
Execute == /\ pc = "parse" /\ Complete /\ IsCommand(stream[next])
           /\ read' \in ArgsRead(toCommand(stream[next].value))
           /\ Consume
           /\ Respond("answer", FALSE)
           /\ UNCHANGED <<stream, received, peer, replies>>

Invalid == /\ pc = "parse" /\ Complete
           /\ stream[next].verdict = "kReady" /\ ~ IsCommand(stream[next])
           /\ read' = {}
           /\ Consume
           /\ Respond("invalid_command", FALSE)
           /\ UNCHANGED <<stream, received, peer, replies>>

(* Nothing is consumed and what else is buffered is dropped. *)
Malformed == /\ pc = "parse" /\ Complete /\ stream[next].verdict = "kError"
             /\ Respond("malformed_request", TRUE)
             /\ UNCHANGED <<stream, received, buffered, next, read, peer, replies>>

Full_Early(b) == b + 1 >= limit    \* faults
Full_Never(b) == b > limit

(* read has no room left. *)
Full(b) == b >= limit

NeedMoreData == /\ pc = "parse" /\ ~ Complete /\ ~ Full(buffered)
                /\ pc' = "read"
                /\ UNCHANGED <<stream, received, buffered, next, read, response,
                               closing, peer, replies>>

TooLarge == /\ pc = "parse" /\ ~ Complete /\ Full(buffered)
            /\ Respond("request_is_too_large", TRUE)
            /\ UNCHANGED <<stream, received, buffered, next, read, peer, replies>>

(* An error of async_write is ignored: the answer is lost and the session  *)
(* goes on with what is buffered.                                          *)
Write ==
  /\ pc = "write"
  /\ replies' = IF peer = "open" THEN Append(replies, response) ELSE replies
  /\ pc' = IF closing THEN "closed" ELSE "parse"
  /\ UNCHANGED <<stream, received, buffered, next, read, response, closing, peer>>

Unread == Position(stream, Len(stream) + 1) - received

Room_Fixed == limit    \* fault: every read may bring a whole message

Room == limit - buffered    \* available_capacity

(* async_read_some brings some of the bytes the client has sent. *)
Read == /\ pc = "read"
        /\ \E n \in 1 .. Unread : /\ n <= Room
                                  /\ received' = received + n
                                  /\ buffered' = buffered + n
        /\ pc' = "parse"
        /\ UNCHANGED <<stream, next, read, response, closing, peer, replies>>

(* async_read_some reports the end of the stream, or an error, once the    *)
(* client is gone; it need not have sent all of its stream.                *)
ReadFails == /\ pc = "read" /\ peer = "closed"
             /\ pc' = "closed"
             /\ UNCHANGED <<stream, received, buffered, next, read, response,
                            closing, peer, replies>>

(* The client closes the connection, or it breaks, at any moment. *)
PeerCloses == /\ peer = "open" /\ peer' = "closed"
              /\ UNCHANGED <<stream, received, buffered, next, pc, read, response,
                             closing, replies>>

Next == \/ Execute \/ Invalid \/ Malformed \/ NeedMoreData \/ TooLarge
        \/ Write \/ Read \/ ReadFails
        \/ PeerCloses

(* The worker runs the session's handlers, and the client sends its stream *)
(* unless it closes.                                                       *)
Fairness == /\ WF_vars(Execute \/ Invalid \/ Malformed \/ NeedMoreData \/ TooLarge)
            /\ WF_vars(Write)
            /\ WF_vars(Read \/ ReadFails)

Spec == Init /\ [][Next]_vars /\ Fairness

-----------------------------------------------------------------------------
(* The session's state is of its type, and buffer_ never holds more than   *)
(* the largest message.                                                    *)
TypeOK == /\ received \in Nat
          /\ buffered \in 0 .. limit
          /\ next \in 1 .. Len(stream) + 1
          /\ pc \in {"parse", "write", "read", "closed"}
          /\ closing \in BOOLEAN
          /\ read \subseteq 0 .. kMaxArgs - 1
          /\ peer \in {"open", "closed"}

(* What a frame is answered with, looking at the frame alone. *)
Outcome(f) == CASE f.size > limit -> "request_is_too_large"
                [] f.size <= limit /\ f.verdict = "kError" -> "malformed_request"
                [] OTHER -> IF IsCommand(f) THEN "answer" ELSE "invalid_command"

Final(f) == f.size > limit \/ f.verdict = "kError"

(* The answers do not depend on how TCP cut the bytes: the n-th answer is  *)
(* for the n-th frame and is the one that frame alone decides.  A frame is *)
(* never too large because of its neighbours in buffer_, one of exactly    *)
(* max_message_size_ bytes is accepted, and nothing is answered after an   *)
(* error that ends the session.                                            *)
RepliesFollowRequests ==
  \A n \in 1 .. Len(replies) :
    /\ n <= Len(stream)
    /\ replies[n] = Outcome(stream[n])
    /\ \A m \in 1 .. n - 1 : ~ Final(stream[m])

(* No handler reads an argument that was not sent, or one that is not a    *)
(* string: the counts toCommand admits suit every handler, boundary cases  *)
(* and options included.                                                   *)
ArgsInRange ==
  \A i \in read :
    LET types == stream[next - 1].value.types
    IN  i + 2 <= Len(types) /\ types[i + 2] \in StringType

(* As long as the client stays, every frame it sends is answered, up to    *)
(* the first that ends the session; and once it has gone, run returns,     *)
(* although it ignores that its writes fail and still works off what is    *)
(* buffered.                                                               *)
EveryFrameAnswered ==
  /\ <>( \/ peer = "closed"
         \/ Len(replies) = Len(stream)
         \/ Len(replies) > 0 /\ Final(stream[Len(replies)]) )
  /\ peer = "closed" ~> pc = "closed"
=============================================================================
