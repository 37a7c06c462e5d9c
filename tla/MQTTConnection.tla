--------------------------- MODULE MQTTConnection ---------------------------
(***************************************************************************)
(* How MQTTConnection::readMessageData cuts the bytes of a TCP connection  *)
(* into MQTT messages.  The bytes a client sends arrive in chunks of any   *)
(* size, and the reader keeps what it has of a message between calls.      *)
(*                                                                         *)
(* A fixed header is a type byte and the remaining length, in up to four   *)
(* digits to the base Radix (128); a byte of Radix or more says that       *)
(* another digit follows.                                                  *)
(***************************************************************************)
EXTENDS Naturals, Sequences, FiniteSetsExt

CONSTANTS
  Radix,
  maxIncomingMessageSize,
  Types,          \* first bytes of messages
  Lengths,        \* remaining lengths clients send, in up to three digits
  Payloads,       \* bytes of which payloads are made
  MaxMessages     \* bound on the messages a client sends

\* A byte is a number.
ASSUME BytesAssumption == Types \subseteq Nat /\ Payloads \subseteq Nat
ASSUME RadixAssumption == Radix \in Nat /\ Radix > 1
ASSUME LengthAssumption == \A length \in Lengths : length \in Nat /\ length < Radix * Radix * Radix

minMQTTFixedHeaderSize == 2
maxMQTTFixedHeaderSize == 5

\* The buffer holds a header; remaining lengths of three digits are too large for it.
ASSUME SizeAssumption ==
  /\ maxIncomingMessageSize \in Nat
  /\ maxMQTTFixedHeaderSize <= maxIncomingMessageSize
  /\ maxIncomingMessageSize < Radix * Radix + 4

VARIABLES
  sent,        \* the messages the client has sent
  wire,        \* bytes under way
  socket,      \* bytes wifiClient.available() counts
  buffer, messageSizeKnown, messageSize,
  received,    \* what readMessageData returned, message by message
  terminated,  \* errorTerminateConnection
  overrun,     \* readToBuffer wrote past the buffer
  passedOver   \* messages (by number) whose second byte was not asked whether it ends the header

vars == <<sent, wire, socket, buffer, messageSizeKnown, messageSize, received, terminated,
          overrun, passedOver>>

Messages == [type : Types, length : Lengths, payload : Payloads]

RemainingLength(length) ==
  CASE length < Radix -> <<length>>
    [] length >= Radix /\ length < Radix * Radix -> <<Radix + (length % Radix), length \div Radix>>
    [] OTHER -> <<Radix + (length % Radix), Radix + ((length \div Radix) % Radix),
                  length \div (Radix * Radix)>>

Bytes(m) == <<m.type>> \o RemainingLength(m.length) \o [i \in 1..m.length |-> m.payload]

Init ==
  /\ sent = <<>>
  /\ wire = <<>>
  /\ socket = <<>>
  /\ buffer = <<>>
  /\ messageSizeKnown = FALSE
  /\ messageSize = 0
  /\ received = <<>>
  /\ terminated = FALSE
  /\ overrun = FALSE
  /\ passedOver = {}

ClientSends(m) ==
  /\ Len(sent) < MaxMessages
  /\ sent' = Append(sent, m)
  /\ wire' = wire \o Bytes(m)
  /\ UNCHANGED <<socket, buffer, messageSizeKnown, messageSize, received, terminated,
                 overrun, passedOver>>

ChunkArrives(size) ==
  /\ socket' = socket \o SubSeq(wire, 1, size)
  /\ wire' = SubSeq(wire, size + 1, Len(wire))
  /\ UNCHANGED <<sent, buffer, messageSizeKnown, messageSize, received, terminated,
                 overrun, passedOver>>

-----------------------------------------------------------------------------
(* readMessageData *)

Least(a, b) == IF a < b THEN a ELSE b

\* The lengths of the buffer at which the loop asks whether the header is
\* complete: at first after a read of up to two bytes, then after each byte.
HeaderChecks(held, available) ==
  LET first == IF held < minMQTTFixedHeaderSize THEN Least(available, minMQTTFixedHeaderSize) ELSE 1
  IN {n \in (held + first)..(held + available) : n >= minMQTTFixedHeaderSize}

\* messageRemainingLengthIsComplete
RemainingLengthIsComplete(bytes, n) == n = maxMQTTFixedHeaderSize \/ bytes[n] < Radix

HeaderEnds(bytes, held) ==
  {n \in HeaderChecks(held, Len(bytes) - held) : RemainingLengthIsComplete(bytes, n)}

\* How many length bytes, of at most four, say that another one follows.
MoreDigits(bytes) == Max({n \in 0..4 : \A i \in 1..n : bytes[1 + i] >= Radix})

IllegalRemainingLength(bytes) == MoreDigits(bytes) = 4

\* Slip: the header is taken to have two bytes.
TwoByteHeaderMessageLength(bytes) == 2 + (bytes[2] % Radix)

\* determineMessageLength.  Only the first digit loses its continuation bit.
MessageLength(bytes) ==
  LET Digit(i) == IF i <= MoreDigits(bytes) THEN bytes[2 + i] ELSE 0
  IN 2 + MoreDigits(bytes) + (bytes[2] % Radix) + Digit(1) * Radix
       + Digit(2) * Radix * Radix + Digit(3) * Radix * Radix * Radix

\* Slip: a message that just fits the buffer is too large.
TooLargeToTheByte(size) == size >= maxIncomingMessageSize

\* Slip: no message is too large.
NeverTooLarge(size) == FALSE

TooLarge(size) == size > maxIncomingMessageSize

\* Slip: whatever is available is taken to belong to the message.
ReadEverything(held, size, available) == available

\* The subtraction is unsigned: with more in the buffer than the message has,
\* all that is available is read.
ReadAmount(held, size, available) ==
  IF size < held THEN available ELSE Least(available, size - held)

\* Slip: messageSizeKnown stays set.
ForgetBytesOnly == buffer' = <<>> /\ UNCHANGED messageSizeKnown

\* resetMessageBuffer, which messageReceived calls when it is done.
ResetMessageBuffer == buffer' = <<>> /\ messageSizeKnown' = FALSE

\* What was in memory after the buffer is lost, and with it what the code does next.
Overrun ==
  /\ overrun' = TRUE
  /\ socket' = <<>>
  /\ UNCHANGED <<buffer, messageSizeKnown, messageSize, received, terminated>>

\* The rest of a message of known size, `held' bytes of which are read.
ReadRest(bytes, held, size) ==
  LET n == held + ReadAmount(held, size, Len(bytes) - held)
  IN \/ /\ n <= maxIncomingMessageSize
        /\ socket' = SubSeq(bytes, n + 1, Len(bytes))
        /\ messageSize' = size
        /\ \/ /\ n = size
              /\ received' = Append(received, SubSeq(bytes, 1, n))
              /\ ResetMessageBuffer
           \/ /\ n # size
              /\ buffer' = SubSeq(bytes, 1, n)
              /\ messageSizeKnown' = TRUE
              /\ UNCHANGED received
        /\ UNCHANGED <<terminated, overrun>>
     \/ n > maxIncomingMessageSize /\ Overrun

\* The connection is terminated; what was read is of no use any more.
Excuse ==
  /\ terminated' = TRUE
  /\ socket' = <<>>
  /\ UNCHANGED <<buffer, messageSizeKnown, messageSize, received, overrun>>

\* The header ends after n bytes.
ReadKnowingHeader(bytes, n) ==
  IF IllegalRemainingLength(bytes) \/ TooLarge(MessageLength(bytes))
  THEN Excuse
  ELSE ReadRest(bytes, n, MessageLength(bytes))

ReadMoreOfHeader(bytes) ==
  /\ buffer' = bytes
  /\ socket' = <<>>
  /\ UNCHANGED <<messageSizeKnown, messageSize, received, terminated, overrun>>

\* With one byte in the buffer, two more are read if they are there, and only the
\* last of them is asked whether it ends the header.
PassesOverSecond == ~messageSizeKnown /\ Len(buffer) = 1 /\ Len(socket) >= minMQTTFixedHeaderSize

ReadMessageData ==
  LET bytes == buffer \o socket
      ends == HeaderEnds(bytes, Len(buffer))
  IN /\ ~terminated /\ ~overrun
     /\ socket # <<>>
     /\ passedOver' = IF PassesOverSecond THEN passedOver \cup {Len(received) + 1} ELSE passedOver
     /\ \/ messageSizeKnown /\ ReadRest(bytes, Len(buffer), messageSize)
        \/ ~messageSizeKnown /\ ends # {} /\ ReadKnowingHeader(bytes, Min(ends))
        \/ ~messageSizeKnown /\ ends = {} /\ ReadMoreOfHeader(bytes)
     /\ UNCHANGED <<sent, wire>>

Next ==
  \/ \E m \in Messages : ClientSends(m)
  \/ \E size \in 1..Len(wire) : ChunkArrives(size)
  \/ ReadMessageData

\* TCP delivers what was sent, and the broker's loop reads it.
Fairness ==
  /\ WF_vars(\E size \in 1..Len(wire) : ChunkArrives(size))
  /\ WF_vars(ReadMessageData)

Spec == Init /\ [][Next]_vars /\ Fairness

-----------------------------------------------------------------------------
(* Properties *)

\* The messages handed to messageReceived are the messages the client sent, in
\* order and byte by byte, wherever TCP cuts the stream, as long as nothing was
\* written past the buffer.
FramedAsSent ==
  ~overrun =>
    /\ Len(received) <= Len(sent)
    /\ \A i \in 1..Len(received) : received[i] = Bytes(sent[i])

\* The second byte of the message was passed over, and none of its other bytes can
\* end the header instead, by its value or by being the last one a header can have.
\* A message of two bytes passed over is always missed.
MissesTheEnd(i) ==
  /\ i \in passedOver /\ i <= Len(sent)
  /\ LET bytes == Bytes(sent[i])
     IN /\ Len(bytes) < maxMQTTFixedHeaderSize
        /\ \A k \in (minMQTTFixedHeaderSize + 1)..Len(bytes) : bytes[k] >= Radix

\* What readMessageData holds is the beginning of the client's next message, never
\* all of it and within the buffer, unless it missed the end of that message: no
\* other message is read past, and no other makes it write past its buffer.
ReadsPastMissedEndsOnly ==
  (buffer # <<>> \/ overrun) /\ ~terminated =>
    /\ Len(received) < Len(sent)
    /\ LET next == Bytes(sent[Len(received) + 1])
       IN \/ /\ ~overrun
             /\ Len(buffer) < Len(next)
             /\ buffer = SubSeq(next, 1, Len(buffer))
          \/ MissesTheEnd(Len(received) + 1)

\* MQTTConnection.cpp:90: "We have a fixed length receive buffer; if a client tries
\* to send a message longer than that, thank and excuse the client": what is read
\* fits the buffer.
BufferHolds == ~overrun

\* Every message sent is handled in the end, unless one up to it does not fit the
\* buffer or its end was missed: the connection is given up for nothing else, and
\* nothing else is lost.
EverythingRead ==
  \A n \in 1..MaxMessages : Len(sent) = n ~>
    \/ Len(received) >= n
    \/ \E i \in 1..n : i <= Len(sent) /\ Len(Bytes(sent[i])) > maxIncomingMessageSize
    \/ \E i \in 1..n : MissesTheEnd(i)

=============================================================================
