------------------------- MODULE FrameReceiveProofs -------------------------
(***************************************************************************)
(* The safety of the parser of frame.c: for either kind of char, for every *)
(* set of frame lengths and of byte values, over a line that loses,        *)
(* changes and adds bytes.  IInv is inductive: that a frame is delivered   *)
(* whole needs to know, after each of its bytes, in which state the parser *)
(* is and how many bytes it has stored, and that a payload stays in its    *)
(* buffer needs to know how much of it is stored in each state.            *)
(***************************************************************************)
EXTENDS FrameReceive, TLAPS

(* Where the parser is after the first pos bytes of a clean frame.         *)
Parsing(state, size) ==
  stateRecv = state /\ frameRecv = [len |-> AsChar(tx.len), size |-> size]

CharHolds(len) == ~(SignedChar /\ len >= 128)

CleanIsParsed ==
  tx # NoFrame /\ tx.clean /\ alive =>
    /\ tx.pos \in 1..(tx.len + 1)
    /\ tx.pos = 1 => stateRecv = "LENGTH"
    /\ tx.pos = 2 => stateRecv = "TYPE" /\ frameRecv = Allocate(AsChar(tx.len))
    /\ tx.pos = 3 => Parsing("COMMAND", 0)
    /\ tx.pos \in 4..tx.len => Parsing("DATA", tx.pos - 4)
    /\ tx.pos = tx.len + 1 =>
         Parsing(IF CharHolds(tx.len) THEN "CHECKSUM" ELSE "DATA", tx.len - 3)

(* The length byte is known from the byte after it on.                     *)
LengthIsKept ==
  IF stateRecv \in {"SOF_HUNT", "LENGTH"} THEN lenByte = NoFrame
                                         ELSE lenByte \in 2..232

(* What is stored of a payload that has a length.                          *)
SizeInState ==
  frameRecv # NoFrame /\ frameRecv.len >= 3 =>
    /\ stateRecv \in {"TYPE", "COMMAND"} => frameRecv.size = 0
    /\ stateRecv = "DATA" => frameRecv.size \in 0..(frameRecv.len - 4)
    /\ stateRecv = "CHECKSUM" => frameRecv.size = frameRecv.len - 3

IInv ==
  /\ TypeOK
  /\ MidFrameHasTimer
  /\ FrameWhereNeeded
  /\ LengthIsKept
  /\ SizeInState
  /\ CleanIsParsed
  /\ WholeFrameDelivered
  /\ NoAnswerInsideFrame

-----------------------------------------------------------------------------
(* "no frame" is no length byte.                                           *)
LEMMA NoFrameIsNoByte == NoFrame \notin Int /\ NoFrame \notin Unbuffered
  BY NoFrameAssumption, CharAssumption DEF Unbuffered

LEMMA InitIInv == Init => IInv
<1> SUFFICES ASSUME Init PROVE IInv
  OBVIOUS
<1>1. TypeOK
  BY DEF Init, TypeOK, States, NoCall
<1> QED
  BY <1>1 DEF Init, IInv, MidFrameHasTimer, FrameWhereNeeded, LengthIsKept, SizeInState,
              CleanIsParsed, WholeFrameDelivered, NoAnswerInsideFrame

(* A length byte becomes what char makes of it, and has a buffer if it is  *)
(* not one of those for which the sum is below zero.                       *)
LEMMA AllocatesFrame ==
  ASSUME NEW b \in 2..232
  PROVE  /\ AsChar(b) \in Int
         /\ CharHolds(b) => AsChar(b) = b
         /\ ~CharHolds(b) => AsChar(b) < 0
         /\ b \in Unbuffered => Allocate(AsChar(b)) = NoFrame
         /\ b \notin Unbuffered => /\ Allocate(AsChar(b)) = [len |-> AsChar(b), size |-> 0]
                                  /\ Allocate(AsChar(b)) \in FrameRec
                                  /\ Allocate(AsChar(b)) # NoFrame
         /\ CharHolds(b) => b \notin Unbuffered
<1>1. AsChar(b) \in Int /\ (CharHolds(b) => AsChar(b) = b) /\ (~CharHolds(b) => AsChar(b) = b - 256)
  BY DEF AsChar, CharHolds
<1>2. CharHolds(b) => b \notin Unbuffered
  BY CharAssumption DEF CharHolds, Unbuffered
<1>3. b \in Unbuffered <=> ~(SizeofFrame + AsChar(b) - 3 >= 0)
  BY <1>1, CharAssumption DEF CharHolds, Unbuffered
<1>4. [len |-> AsChar(b), size |-> 0] \in FrameRec
  BY <1>1 DEF FrameRec
<1> QED
  BY <1>1, <1>2, <1>3, <1>4, NoFrameAssumption DEF Allocate

(* What the parser keeps, whatever byte comes.                             *)
ParserOK ==
  /\ stateRecv \in States
  /\ frameRecv \in FrameRec \cup {NoFrame}
  /\ timerRecv \in BOOLEAN
  /\ alive \in BOOLEAN
  /\ lenByte \in Byte \cup {NoFrame}
  /\ MidFrameHasTimer
  /\ FrameWhereNeeded
  /\ LengthIsKept
  /\ SizeInState

OutputOK ==
  /\ called \in [error : {"FE_NONE", "FE_RECV_CHECKSUM", "FE_RECV_TIMEOUT", "NO_CALL"},
                 frame : FrameRec \cup {NoFrame}]
  /\ answered \in BOOLEAN
  /\ heard \in {NoFrame, ACK, NAK, CAN}

HandsOver ==
  /\ frameRecv # NoFrame /\ frameRecv' = NoFrame => called'.frame = frameRecv
  /\ called' # NoCall => frameRecv # NoFrame /\ frameRecv' = NoFrame

LEMMA QuietStep ==
  ASSUME Quiet, frameRecv # NoFrame => frameRecv' # NoFrame
  PROVE  OutputOK' /\ HandsOver
<1>1. NoCall \in [error : {"FE_NONE", "FE_RECV_CHECKSUM", "FE_RECV_TIMEOUT", "NO_CALL"},
                  frame : FrameRec \cup {NoFrame}]
  BY DEF NoCall
<1> QED
  BY <1>1 DEF Quiet, OutputOK, HandsOver

LEMMA RecvOverStep ==
  ASSUME ParserOK, frameRecv # NoFrame, NEW ack \in BOOLEAN,
         NEW error \in {"FE_NONE", "FE_RECV_CHECKSUM", "FE_RECV_TIMEOUT"},
         RecvOver(error, frameRecv, ack), alive', lenByte' = NoFrame
  PROVE  ParserOK' /\ OutputOK' /\ HandsOver
<1>1. ParserOK'
  BY DEF ParserOK, RecvOver, States, MidFrameHasTimer, FrameWhereNeeded, WithoutBuffer, LengthIsKept,
         SizeInState
<1>2. OutputOK'
  <2>1. [error |-> error, frame |-> frameRecv]
          \in [error : {"FE_NONE", "FE_RECV_CHECKSUM", "FE_RECV_TIMEOUT", "NO_CALL"},
              frame : FrameRec \cup {NoFrame}]
    BY DEF ParserOK
  <2> QED
    BY <2>1 DEF OutputOK, RecvOver
<1>3. HandsOver
  BY DEF HandsOver, RecvOver
<1> QED
  BY <1>1, <1>2, <1>3

LEMMA StepKeepsParser ==
  ASSUME ParserOK, alive, NEW b \in Byte, NEW valid \in BOOLEAN,
         frame_receive_step(b, valid)
  PROVE  ParserOK' /\ OutputOK' /\ HandsOver
<1> USE DEF ParserOK, MidFrameHasTimer, FrameWhereNeeded, WithoutBuffer, States
<1>0. /\ alive' = ~ReadsNull
      /\ stateRecv' = "SOF_HUNT" => lenByte' = NoFrame
      /\ stateRecv' # "SOF_HUNT" /\ stateRecv = "LENGTH" => lenByte' = b
      /\ stateRecv' # "SOF_HUNT" /\ stateRecv # "LENGTH" => lenByte' = lenByte
  BY DEF frame_receive_step
<1>1. CASE Hunt(b)
  <2>1. ParserOK'
    <3>1. \/ stateRecv' = "LENGTH" /\ timerRecv' = TRUE
          \/ stateRecv' = stateRecv /\ timerRecv' = timerRecv
      BY <1>1 DEF Hunt, Await
    <3>2. frameRecv' = frameRecv /\ stateRecv = "SOF_HUNT" /\ frameRecv = NoFrame
      BY <1>1 DEF Hunt
    <3>3. lenByte = NoFrame /\ lenByte' = NoFrame /\ alive'
      BY <1>0, <3>1, <3>2 DEF LengthIsKept, ReadsNull
    <3>4. CASE stateRecv' = "LENGTH" /\ timerRecv' = TRUE
      BY <3>2, <3>3, <3>4, NoFrameIsNoByte DEF LengthIsKept, SizeInState
    <3>5. CASE stateRecv' = stateRecv /\ timerRecv' = timerRecv
      BY <3>2, <3>3, <3>5, NoFrameIsNoByte DEF LengthIsKept, SizeInState
    <3> QED
      BY <3>1, <3>4, <3>5
  <2>2. CASE Quiet
    BY <1>1, <2>1, <2>2, QuietStep DEF Hunt
  <2>3. CASE called' = NoCall /\ answered' = FALSE /\ heard' = b /\ IsAnswer(b)
    <3>1. NoCall \in [error : {"FE_NONE", "FE_RECV_CHECKSUM", "FE_RECV_TIMEOUT", "NO_CALL"},
                      frame : FrameRec \cup {NoFrame}]
      BY DEF NoCall
    <3> QED
      BY <1>1, <2>1, <2>3, <3>1 DEF Hunt, IsAnswer, OutputOK, HandsOver
  <2> QED
    BY <1>1, <2>1, <2>2, <2>3 DEF Hunt
<1>2. CASE Length(b)
  <2>0. stateRecv = "LENGTH" /\ frameRecv = NoFrame /\ alive' /\ Quiet
    BY <1>0, <1>2 DEF Length, ReadsNull
  <2>1. ParserOK'
    <3>1. CASE b <= MIN_FRAME_SIZE \/ b >= MAX_FRAME_SIZE
      <4>1. stateRecv' = "SOF_HUNT" /\ timerRecv' = FALSE /\ frameRecv' = NoFrame
        BY <1>2, <2>0, <3>1 DEF Length, MIN_FRAME_SIZE, MAX_FRAME_SIZE, Byte
      <4> QED
        BY <1>0, <2>0, <4>1 DEF LengthIsKept, SizeInState
    <3>2. CASE ~(b <= MIN_FRAME_SIZE \/ b >= MAX_FRAME_SIZE)
      <4>1. b \in 2..232
        BY <3>2 DEF MIN_FRAME_SIZE, MAX_FRAME_SIZE, Byte
      <4>2. /\ stateRecv' = "TYPE" /\ frameRecv' = Allocate(AsChar(b))
            /\ timerRecv' = (frameRecv' # NoFrame)
        BY <1>2, <3>2 DEF Length
      <4>3. lenByte' = b
        BY <1>0, <2>0, <4>2
      <4>4. CASE b \in Unbuffered
        BY <2>0, <4>1, <4>2, <4>3, <4>4, AllocatesFrame DEF LengthIsKept, SizeInState
      <4>5. CASE b \notin Unbuffered
        <5>1. /\ frameRecv' = [len |-> AsChar(b), size |-> 0] /\ AsChar(b) \in Int
              /\ frameRecv' \in FrameRec /\ frameRecv' # NoFrame
          BY <4>1, <4>2, <4>5, AllocatesFrame
        <5>2. frameRecv'.size = 0 /\ frameRecv'.len = AsChar(b)
          BY <5>1
        <5>3. AsChar(b) >= 3 => 0 <= AsChar(b) - 3
          BY <5>1
        <5> QED
          BY <2>0, <4>1, <4>2, <4>3, <4>5, <5>1, <5>2, <5>3 DEF LengthIsKept, SizeInState
      <4> QED
        BY <4>4, <4>5
    <3> QED
      BY <3>1, <3>2
  <2> QED
    BY <2>0, <2>1, QuietStep
<1>3. CASE Type(b)
  <2>0. stateRecv = "TYPE"
    BY <1>3 DEF Type
  <2>1. CASE ReadsNull
    <3>1. /\ stateRecv' = stateRecv /\ frameRecv' = frameRecv /\ timerRecv' = timerRecv
          /\ lenByte' = lenByte /\ Quiet
      BY <1>0, <1>3, <2>1 DEF Type
    <3>2. frameRecv = NoFrame /\ lenByte \in Unbuffered
      BY <2>0, <2>1 DEF ReadsNull
    <3>3. alive' = FALSE
      BY <1>0, <2>1
    <3>4. /\ stateRecv' \in States /\ frameRecv' \in FrameRec \cup {NoFrame}
          /\ timerRecv' \in BOOLEAN /\ alive' \in BOOLEAN
          /\ lenByte' \in Byte \cup {NoFrame}
      BY <3>1, <3>3
    <3>5. MidFrameHasTimer' /\ FrameWhereNeeded' /\ LengthIsKept' /\ SizeInState'
      BY <2>0, <3>1, <3>2 DEF LengthIsKept, SizeInState
    <3> QED
      BY <3>1, <3>4, <3>5, QuietStep
  <2>2. CASE ~ReadsNull /\ b \in {REQUEST, RESPONSE}
    <3>1. /\ stateRecv' = "COMMAND" /\ timerRecv' = TRUE /\ frameRecv' = frameRecv
          /\ Quiet /\ alive' /\ lenByte' = lenByte /\ frameRecv # NoFrame
      BY <1>0, <1>3, <2>0, <2>2 DEF Type, Await, ReadsNull
    <3>2. ParserOK'
      BY <2>0, <3>1 DEF LengthIsKept, SizeInState
    <3> QED
      BY <3>1, <3>2, QuietStep
  <2>3. CASE ~ReadsNull /\ b \notin {REQUEST, RESPONSE}
    <3>1. /\ RecvOver("FE_RECV_TIMEOUT", frameRecv, FALSE)
          /\ alive' /\ frameRecv # NoFrame
      BY <1>0, <1>3, <2>0, <2>3 DEF Type, ReadsNull
    <3>2. lenByte' = NoFrame
      BY <1>0, <3>1 DEF RecvOver
    <3> QED
      BY <3>1, <3>2, RecvOverStep
  <2> QED
    BY <1>3, <2>1, <2>2, <2>3 DEF Type
<1>4. CASE Command(b)
  <2>1. /\ stateRecv = "COMMAND" /\ timerRecv' = TRUE /\ frameRecv' = frameRecv /\ Quiet
        /\ stateRecv' = (IF Full(frameRecv) THEN "CHECKSUM" ELSE "DATA")
    BY <1>4 DEF Command, Await
  <2>2. alive' /\ lenByte' = lenByte
    BY <1>0, <2>1 DEF ReadsNull
  <2>3. frameRecv # NoFrame
    BY <2>1
  <2>4. SizeInState'
    <3>1. frameRecv.len \in Int /\ frameRecv.size \in Int
      BY <2>3 DEF FrameRec
    <3>2. frameRecv.len >= 3 => frameRecv.size = 0
      BY <2>1, <2>3 DEF SizeInState
    <3> QED
      BY <2>1, <2>3, <3>1, <3>2 DEF SizeInState, Full
  <2>5. ParserOK'
    BY <2>1, <2>2, <2>3, <2>4 DEF LengthIsKept
  <2> QED
    BY <2>1, <2>5, QuietStep
<1>5. CASE Data(b)
  <2>1. /\ stateRecv = "DATA" /\ timerRecv' = TRUE /\ Quiet
        /\ frameRecv' = [frameRecv EXCEPT !.size = @ + 1]
        /\ stateRecv' = (IF Full(frameRecv') THEN "CHECKSUM" ELSE "DATA")
    BY <1>5 DEF Data, Await
  <2>2. alive' /\ lenByte' = lenByte /\ frameRecv # NoFrame
    BY <1>0, <2>1 DEF ReadsNull
  <2>3. /\ frameRecv' \in FrameRec /\ frameRecv' # NoFrame
        /\ frameRecv'.len = frameRecv.len /\ frameRecv'.size = frameRecv.size + 1
        /\ frameRecv.len \in Int /\ frameRecv.size \in Int
    BY <2>1, <2>2, NoFrameAssumption DEF FrameRec
  <2>4. SizeInState' /\ (frameRecv'.len >= 3 => frameRecv'.size <= frameRecv'.len - 3)
    <3>1. frameRecv.len >= 3 => frameRecv.size \in 0..(frameRecv.len - 4)
      BY <2>1, <2>2 DEF SizeInState
    <3> QED
      BY <2>1, <2>3, <3>1 DEF SizeInState, Full
  <2>5. ParserOK'
    BY <2>1, <2>2, <2>3, <2>4 DEF LengthIsKept
  <2> QED
    BY <2>1, <2>3, <2>5, QuietStep
<1>6. CASE Checksum(valid)
  <2>1. /\ RecvOver(IF valid THEN "FE_NONE" ELSE "FE_RECV_CHECKSUM", frameRecv, valid)
        /\ stateRecv = "CHECKSUM" /\ frameRecv # NoFrame
    BY <1>6 DEF Checksum
  <2>2. alive' /\ lenByte' = NoFrame
    BY <1>0, <2>1 DEF RecvOver, ReadsNull
  <2> QED
    BY <2>1, <2>2, RecvOverStep
<1> QED
  BY <1>1, <1>2, <1>3, <1>4, <1>5, <1>6 DEF frame_receive_step

-----------------------------------------------------------------------------
(* The bytes the line carries are bytes.                                   *)
LEMMA LineBytes ==
  /\ \A len \in Lengths, pos \in Nat : BytesAt(len, pos) \subseteq Byte
  /\ Noise \cup {ACK, NAK, CAN} \subseteq Byte /\ SOF \in Byte
  /\ \A len \in Lengths : len \in 3..232
  BY LengthsAssumption, NoiseAssumption
     DEF BytesAt, Byte, SOF, ACK, NAK, CAN, REQUEST, RESPONSE, MAX_FRAME_SIZE

(* The history of the line: the frame being sent and the one just ended.   *)
LineOK == tx \in Sending \cup {NoFrame} /\ whole \in Lengths \cup {NoFrame}

LEMMA AdvanceKeepsLine ==
  ASSUME LineOK, tx # NoFrame, NEW clean \in BOOLEAN, Advance(clean)
  PROVE  LineOK'
<1>1. tx \in Sending /\ [tx EXCEPT !.pos = @ + 1, !.clean = clean] \in Sending
  <2>1. tx \in Sending /\ tx.pos + 1 \in Nat
    BY DEF LineOK, Sending
  <2> QED
    BY <2>1 DEF Sending
<1>2. tx.len \in Lengths
  BY <1>1 DEF Sending
<1> QED
  BY <1>1, <1>2 DEF LineOK, Advance

LEMMA NextKeepsTypes ==
  ASSUME IInv, Next
  PROVE  ParserOK' /\ OutputOK' /\ LineOK' /\ HandsOver
<1> USE DEF IInv, TypeOK
<1>1. ParserOK /\ OutputOK /\ LineOK /\ alive
  BY DEF ParserOK, OutputOK, LineOK, Next
<1>2. ASSUME NEW len \in Lengths, SendStart(len)
      PROVE  ParserOK' /\ OutputOK' /\ LineOK' /\ HandsOver
  BY <1>1, <1>2, StepKeepsParser, LineBytes DEF SendStart, LineOK, Sending
<1>3. CASE SendNext
  <2>1. tx.len \in Lengths /\ tx.pos \in Nat /\ tx.clean \in BOOLEAN
    BY <1>3 DEF SendNext, Sending
  <2>2. PICK b \in BytesAt(tx.len, tx.pos), valid \in BOOLEAN : frame_receive_step(b, valid)
    BY <1>3 DEF SendNext
  <2>3. b \in Byte
    BY <2>1, LineBytes
  <2> QED
    BY <1>1, <1>3, <2>1, <2>2, <2>3, StepKeepsParser, AdvanceKeepsLine DEF SendNext
<1>4. CASE ByteLost
  <2>1. ParserOK' /\ OutputOK' /\ HandsOver
    BY <1>1, <1>4 DEF ByteLost, Quiet, rvars, ParserOK, OutputOK, HandsOver, NoCall,
                      MidFrameHasTimer, FrameWhereNeeded, WithoutBuffer, LengthIsKept,
                      SizeInState
  <2> QED
    BY <1>1, <1>4, <2>1, AdvanceKeepsLine DEF ByteLost
<1>5. CASE ByteChanged
  <2>1. PICK b \in Noise, valid \in BOOLEAN : frame_receive_step(b, valid)
    BY <1>5 DEF ByteChanged
  <2> QED
    BY <1>1, <1>5, <2>1, StepKeepsParser, AdvanceKeepsLine, LineBytes DEF ByteChanged
<1>6. CASE Stray
  <2>1. PICK b \in Noise \cup {ACK, NAK, CAN}, valid \in BOOLEAN : frame_receive_step(b, valid)
    BY <1>6 DEF Stray
  <2> QED
    BY <1>1, <1>6, <2>1, StepKeepsParser, LineBytes DEF Stray, LineOK
<1>7. CASE frame_receive_timer_callback
  BY <1>1, <1>7 DEF frame_receive_timer_callback, ParserOK, OutputOK, LineOK, HandsOver,
                    NoCall, Sending, States, MidFrameHasTimer, FrameWhereNeeded,
                    WithoutBuffer, LengthIsKept, SizeInState
<1> QED
  BY <1>2, <1>3, <1>4, <1>5, <1>6, <1>7 DEF Next

-----------------------------------------------------------------------------
(* A clean frame's byte takes the parser on by one.                        *)
LEMMA CleanByte ==
  ASSUME IInv, alive, SendNext, tx.clean
  PROVE  /\ tx.pos # tx.len + 1 => CleanIsParsed' /\ whole' = NoFrame
         /\ tx.pos = tx.len + 1 => tx' = NoFrame /\ WholeFrameDelivered'
         /\ heard' = NoFrame
<1> DEFINE pos == tx.pos
           len == tx.len
<1>1. tx # NoFrame /\ len \in 3..232 /\ pos \in 1..(len + 1) /\ Advance(TRUE)
  BY LineBytes DEF SendNext, IInv, TypeOK, Sending, CleanIsParsed
<1>2. PICK b \in BytesAt(len, pos), valid \in BOOLEAN :
        (pos = len + 1 => valid) /\ frame_receive_step(b, valid)
  BY DEF SendNext
<1>3. CleanIsParsed
  BY DEF IInv
<1>4. pos # len + 1 =>
        /\ tx' = [tx EXCEPT !.pos = pos + 1, !.clean = TRUE]
        /\ whole' = NoFrame
  BY <1>1 DEF Advance
<1>5. pos # len + 1 => tx'.pos = pos + 1 /\ tx'.len = len
  BY <1>1, <1>4 DEF IInv, TypeOK, Sending
<1>0. /\ AsChar(len) \in Int /\ (CharHolds(len) => AsChar(len) = len)
      /\ ~CharHolds(len) => AsChar(len) < 0
  <2>1. len \in 2..232
    BY <1>1
  <2> HIDE DEF len
  <2> QED
    BY <2>1, AllocatesFrame
<1>6. CASE pos = 1
  <2>1. b = len /\ stateRecv = "LENGTH"
    BY <1>2, <1>3, <1>1, <1>6 DEF CleanIsParsed, BytesAt
  <2>2. Length(len)
    BY <1>2, <2>1
       DEF frame_receive_step, Hunt, Type, Command, Data, Checksum
  <2>3. ~(len <= MIN_FRAME_SIZE \/ len >= MAX_FRAME_SIZE)
    BY <1>1 DEF MIN_FRAME_SIZE, MAX_FRAME_SIZE
  <2>4. /\ stateRecv' = "TYPE" /\ frameRecv' = Allocate(AsChar(len))
        /\ heard' = NoFrame
    BY <2>2, <2>3 DEF Length, Quiet
  <2> QED
    BY <1>1, <1>4, <1>5, <1>6, <2>4 DEF CleanIsParsed
<1>7. CASE pos = 2
  <2>1. b \in {REQUEST, RESPONSE} /\ stateRecv = "TYPE" /\ frameRecv = Allocate(AsChar(len))
    BY <1>2, <1>3, <1>1, <1>7 DEF CleanIsParsed, BytesAt
  <2>2. Type(b) /\ alive' = ~ReadsNull
    BY <1>2, <2>1
       DEF frame_receive_step, Hunt, Length, Command, Data, Checksum
  <2>3. heard' = NoFrame
    BY <2>1, <2>2 DEF Type, Quiet
  <2>4. CASE ReadsNull
    <3>1. ~alive'
      BY <2>2, <2>4
    <3> QED
      BY <1>1, <1>4, <1>7, <2>3, <3>1 DEF CleanIsParsed
  <2>5. CASE ~ReadsNull
    <3>1. frameRecv = [len |-> AsChar(len), size |-> 0]
      BY <2>1, <2>5 DEF ReadsNull, Allocate
    <3>2. stateRecv' = "COMMAND" /\ frameRecv' = [len |-> AsChar(len), size |-> 0]
      BY <2>1, <2>2, <2>5, <3>1 DEF Type, Await
    <3> QED
      BY <1>1, <1>4, <1>5, <1>7, <2>3, <3>2 DEF CleanIsParsed, Parsing
  <2> QED
    BY <2>4, <2>5
<1>8. CASE pos = 3
  <2>1. Parsing("COMMAND", 0)
    BY <1>3, <1>1, <1>8 DEF CleanIsParsed
  <2>2. Command(b)
    BY <1>2, <2>1
       DEF frame_receive_step, Hunt, Length, Type, Data, Checksum, Parsing
  <2>3. Full(frameRecv) <=> len = 3
    BY <1>0, <1>1, <2>1 DEF Full, Parsing, CharHolds
  <2>4. /\ stateRecv' = IF len = 3 THEN "CHECKSUM" ELSE "DATA"
        /\ frameRecv' = [len |-> AsChar(len), size |-> 0]
        /\ heard' = NoFrame
    BY <2>1, <2>2, <2>3 DEF Command, Quiet, Parsing, Await
  <2>5. len = 3 => CharHolds(len)
    BY DEF CharHolds
  <2> QED
    BY <1>1, <1>4, <1>5, <1>8, <2>4, <2>5 DEF CleanIsParsed, Parsing
<1>9. CASE pos \in 4..len
  <2>1. Parsing("DATA", pos - 4)
    BY <1>3, <1>1, <1>9 DEF CleanIsParsed
  <2>2. Data(b)
    BY <1>2, <2>1
       DEF frame_receive_step, Hunt, Length, Type, Command, Checksum, Parsing
  <2>3. (pos - 4) + 1 = pos - 3
    BY <1>1
  <2>4. frameRecv' = [len |-> AsChar(len), size |-> pos - 3]
    BY <2>1, <2>2, <2>3 DEF Data, Parsing
  <2>5. Full(frameRecv') <=> pos = len /\ CharHolds(len)
    BY <1>0, <1>1, <1>9, <2>4 DEF Full
  <2>6. /\ stateRecv' = IF pos = len /\ CharHolds(len) THEN "CHECKSUM" ELSE "DATA"
        /\ heard' = NoFrame
    BY <2>2, <2>5 DEF Data, Quiet, Await
  <2>7. /\ pos + 1 \in 5..(len + 1) /\ (pos + 1) - 4 = pos - 3
        /\ pos = len => pos - 3 = len - 3
    BY <1>1, <1>9
  <2>8. tx'.pos \in 4..tx'.len => Parsing("DATA", tx.pos - 4)'
    <3>1. tx'.pos \in 4..tx'.len => pos # len
      BY <1>1, <1>5, <1>9
    <3> QED
      BY <1>1, <1>5, <1>9, <2>4, <2>6, <2>7, <3>1 DEF Parsing
  <2>9. tx'.pos = tx'.len + 1 =>
          Parsing(IF CharHolds(tx.len) THEN "CHECKSUM" ELSE "DATA", tx.len - 3)'
    <3>1. tx'.pos = tx'.len + 1 => pos = len
      BY <1>1, <1>5, <1>9
    <3>2. CASE pos = len
      <4>1. frameRecv' = [len |-> AsChar(len), size |-> len - 3]
        BY <2>4, <3>2
      <4> QED
        BY <1>5, <1>9, <1>1, <2>6, <3>2, <4>1 DEF Parsing
    <3> QED
      BY <3>1, <3>2
  <2> QED
    BY <1>1, <1>4, <1>5, <1>9, <2>6, <2>7, <2>8, <2>9 DEF CleanIsParsed
<1>10. CASE pos = len + 1
  <2>1. Parsing(IF CharHolds(len) THEN "CHECKSUM" ELSE "DATA", len - 3) /\ valid
    BY <1>2, <1>3, <1>1, <1>10 DEF CleanIsParsed
  <2>2. tx' = NoFrame /\ whole' = len /\ len # NoFrame
    BY <1>1, <1>10, NoFrameIsNoByte DEF Advance
  <2>3. CASE CharHolds(len)
    <3>1. Checksum(TRUE) /\ frameRecv = [len |-> len, size |-> len - 3]
      BY <1>0, <1>2, <2>1, <2>3
         DEF frame_receive_step, Hunt, Length, Type, Command, Data, Parsing
    <3>2. RecvOver("FE_NONE", frameRecv, TRUE)
      BY <3>1 DEF Checksum
    <3> QED
      BY <1>10, <2>2, <2>3, <3>1, <3>2 DEF RecvOver, WholeFrameDelivered, CharHolds
  <2>4. CASE ~CharHolds(len)
    <3>1. Data(b)
      BY <1>2, <2>1, <2>4
         DEF frame_receive_step, Hunt, Length, Type, Command, Checksum, Parsing
    <3> QED
      BY <1>10, <2>2, <2>4, <3>1 DEF Data, Quiet, WholeFrameDelivered, CharHolds
  <2> QED
    BY <2>3, <2>4
<1> QED
  BY <1>1, <1>4, <1>6, <1>7, <1>8, <1>9, <1>10

(* The first byte of a clean frame reaches a parser that hunts.            *)
LEMMA CleanStart ==
  ASSUME IInv, NEW len \in Lengths, SendStart(len)
  PROVE  /\ CleanIsParsed' /\ whole' = NoFrame
         /\ tx' # NoFrame /\ tx'.clean => heard' = NoFrame
<1>1. /\ len \in 3..232
      /\ tx' = [len |-> len, pos |-> 1, clean |-> stateRecv = "SOF_HUNT"]
      /\ whole' = NoFrame
  BY LineBytes DEF SendStart
<1>2. PICK valid \in BOOLEAN : frame_receive_step(SOF, valid)
  BY DEF SendStart
<1>3. CASE stateRecv = "SOF_HUNT"
  <2>1. stateRecv' = "LENGTH" /\ heard' = NoFrame
    BY <1>2, <1>3
       DEF frame_receive_step, Hunt, Length, Type, Command, Data, Checksum, Quiet,
           Await, IsAnswer, SOF, ACK, NAK, CAN
  <2> QED
    BY <1>1, <2>1 DEF CleanIsParsed
<1>4. CASE stateRecv # "SOF_HUNT"
  BY <1>1, <1>4 DEF CleanIsParsed
<1> QED
  BY <1>1, <1>3, <1>4

LEMMA NextIInv ==
  ASSUME IInv, [Next]_vars
  PROVE  IInv'
<1>1. CASE Next
  <2>1. /\ TypeOK' /\ MidFrameHasTimer' /\ FrameWhereNeeded'
        /\ LengthIsKept' /\ SizeInState'
    BY <1>1, NextKeepsTypes DEF ParserOK, OutputOK, LineOK, TypeOK
  <2>0. alive
    BY <1>1 DEF Next
  <2> SUFFICES CleanIsParsed' /\ WholeFrameDelivered' /\ NoAnswerInsideFrame'
    BY <2>1 DEF IInv
  <2>2. ASSUME NEW len \in Lengths, SendStart(len)
        PROVE  CleanIsParsed' /\ WholeFrameDelivered' /\ NoAnswerInsideFrame'
    BY <2>2, CleanStart DEF WholeFrameDelivered, NoAnswerInsideFrame
  <2>3. ASSUME ~(tx' # NoFrame /\ tx'.clean), whole' = NoFrame
        PROVE  CleanIsParsed' /\ WholeFrameDelivered' /\ NoAnswerInsideFrame'
    BY <2>3 DEF CleanIsParsed, WholeFrameDelivered, NoAnswerInsideFrame
  <2>4. ASSUME tx # NoFrame, Advance(FALSE)
        PROVE  ~(tx' # NoFrame /\ tx'.clean) /\ whole' = NoFrame
    <3>1. tx \in Sending
      BY <2>4 DEF IInv, TypeOK
    <3> QED
      BY <2>4, <3>1 DEF Advance, Sending
  <2>5. CASE SendNext /\ tx.clean
    <3>1. CASE tx.pos # tx.len + 1
      BY <2>0, <2>5, <3>1, CleanByte DEF WholeFrameDelivered, NoAnswerInsideFrame
    <3>2. CASE tx.pos = tx.len + 1
      BY <2>0, <2>5, <3>2, CleanByte DEF CleanIsParsed, NoAnswerInsideFrame
    <3> QED
      BY <3>1, <3>2
  <2>6. CASE SendNext /\ ~tx.clean
    <3>1. tx # NoFrame /\ Advance(FALSE)
      <4>1. tx # NoFrame /\ tx \in Sending /\ tx.clean = FALSE
        BY <2>6 DEF SendNext, IInv, TypeOK, Sending
      <4> QED
        BY <2>6, <4>1 DEF SendNext
    <3> QED
      BY <3>1, <2>3, <2>4
  <2>7. CASE ByteLost \/ ByteChanged
    BY <2>7, <2>3, <2>4 DEF ByteLost, ByteChanged
  <2>8. CASE Stray
    BY <2>8, <2>3 DEF Stray
  <2>9. CASE frame_receive_timer_callback
    <3>1. ~(tx' # NoFrame /\ tx'.clean) /\ whole' = NoFrame
      <4>1. tx = NoFrame \/ tx \in Sending
        BY DEF IInv, TypeOK
      <4> QED
        BY <2>9, <4>1 DEF frame_receive_timer_callback, Sending
    <3> QED
      BY <3>1, <2>3
  <2> QED
    BY <1>1, <2>2, <2>5, <2>6, <2>7, <2>8, <2>9 DEF Next
<1>2. CASE UNCHANGED vars
  BY <1>2 DEF vars, rvars, outvars, IInv, TypeOK, MidFrameHasTimer, FrameWhereNeeded,
              WithoutBuffer, LengthIsKept, SizeInState, CleanIsParsed, Parsing, WholeFrameDelivered, NoAnswerInsideFrame
<1> QED
  BY <1>1, <1>2

(* IInv holds in every state, whatever the line does and whichever char    *)
(* frame.c:267 and 271 take the length byte through.                       *)
THEOREM ParserInvariant == Spec => []IInv
<1>1. Init => IInv
  BY InitIInv
<1>2. IInv /\ [Next]_vars => IInv'
  BY NextIInv
<1> QED
  BY <1>1, <1>2, PTL DEF Spec

(* The timer of frame_receive_step runs exactly while a frame is being     *)
(* taken, but for a length byte whose allocation failed.                   *)
THEOREM ParserHasTimer == Spec => []MidFrameHasTimer
<1>1. IInv => MidFrameHasTimer
  BY DEF IInv
<1> QED
  BY <1>1, ParserInvariant, PTL

(* frame_receive_step never allocates over a buffer, never stores a byte   *)
(* past a payload, and reads or writes through a NULL fs.frameRecv after   *)
(* no length byte but 128 to 258 - SizeofFrame, where char is signed.      *)
THEOREM BufferWhereNeeded == Spec => []FrameWhereNeeded
<1>1. IInv => FrameWhereNeeded
  BY DEF IInv
<1> QED
  BY <1>1, ParserInvariant, PTL

(* Every frame whose bytes came while the parser hunted at its SOF is      *)
(* given to recv_over_cb whole, and acknowledged, if char holds its length *)
(* byte; a longer one never is, for a signed char.                         *)
THEOREM CleanFramesArrive == Spec => []WholeFrameDelivered
<1>1. IInv => WholeFrameDelivered
  BY DEF IInv
<1> QED
  BY <1>1, ParserInvariant, PTL

(* No byte of such a frame reaches the send half as an answer.             *)
THEOREM PayloadIsNoAnswer == Spec => []NoAnswerInsideFrame
<1>1. IInv => NoAnswerInsideFrame
  BY DEF IInv
<1> QED
  BY <1>1, ParserInvariant, PTL

(* recv_over_cb takes each buffer over once, from the step that forgets it.*)
THEOREM BuffersAreHandedOver == Spec => HandedOverOnce
<1>1. IInv /\ [Next]_vars => [HandsOver]_vars
  BY NextKeepsTypes
<1> QED
  BY <1>1, ParserInvariant, PTL DEF Spec, HandedOverOnce, HandsOver
=============================================================================
