---------------------------- MODULE FrameReceive ----------------------------
(***************************************************************************)
(* The receive half of frame.c: a parser that takes one byte per call of   *)
(* frame_receive_step, with a timer that gives a frame up when its next    *)
(* byte does not come.  The Z-Wave module on the other end sends whole     *)
(* frames; bytes of them are lost or changed on the line, and bytes that   *)
(* belong to no frame come between them.  Where char is signed, as it is   *)
(* in the native build of the Makefile, a length byte from 128 on is       *)
(* negative: no buffer is found for it, or one that is too short.          *)
(***************************************************************************)
EXTENDS Integers

CONSTANTS
  NoFrame,     \* the NULL of fs.frameRecv, and "no frame" in the history
  Lengths,     \* the length bytes of the frames the module sends
  Noise,       \* the values of a payload, stray or changed byte
  SignedChar,  \* is char signed in the build
  SizeofFrame, \* sizeof(stDataFrame_t)
  MaxSize      \* bound: payload bytes taken into one frame

SOF == 1
ACK == 6
NAK == 21
CAN == 24
REQUEST == 0
RESPONSE == 1
MIN_FRAME_SIZE == 1
MAX_FRAME_SIZE == 233
Byte == 0..255

ASSUME LengthsAssumption == Lengths \subseteq 3..(MAX_FRAME_SIZE - 1)
ASSUME NoiseAssumption == Noise \subseteq Byte
ASSUME CharAssumption == SignedChar \in BOOLEAN /\ SizeofFrame \in Nat \ {0}
ASSUME SizeAssumption == MaxSize \in Nat

States == {"SOF_HUNT", "LENGTH", "TYPE", "COMMAND", "DATA", "CHECKSUM"}
FrameRec == [len : Int, size : Int]

ASSUME NoFrameAssumption == NoFrame \notin FrameRec \cup Int

VARIABLES
  stateRecv,  \* fs.stateRecv
  frameRecv,  \* fs.frameRecv: its len and size fields
  timerRecv,  \* is fs.timerRecv in the timer list
  called,     \* history: what the last step gave to recv_over_cb
  answered,   \* history: did the last step write an ACK (frame_ack)
  heard,      \* history: the answer byte the last step gave the send half
  alive,      \* did the daemon not read through NULL
  lenByte,    \* history: the length byte of the frame that is taken
  tx,         \* the frame the module is sending
  whole       \* history: the length of the clean frame the last step ended

rvars == <<stateRecv, frameRecv, timerRecv, alive, lenByte>>
outvars == <<called, answered, heard>>
vars == <<rvars, outvars, tx, whole>>

(* The frame on the line: pos of its len + 2 bytes have been sent; clean   *)
(* says that each of them reached a parser that was hunting at its SOF.    *)
Sending == [len : Lengths, pos : Nat, clean : BOOLEAN]

NoCall == [error |-> "NO_CALL", frame |-> NoFrame]

TypeOK ==
  /\ stateRecv \in States
  /\ frameRecv \in FrameRec \cup {NoFrame}
  /\ timerRecv \in BOOLEAN
  /\ called \in [error : {"FE_NONE", "FE_RECV_CHECKSUM", "FE_RECV_TIMEOUT", "NO_CALL"},
                 frame : FrameRec \cup {NoFrame}]
  /\ answered \in BOOLEAN
  /\ heard \in {NoFrame, ACK, NAK, CAN}
  /\ alive \in BOOLEAN
  /\ lenByte \in Byte \cup {NoFrame}
  /\ tx \in Sending \cup {NoFrame}
  /\ whole \in Lengths \cup {NoFrame}

Init ==
  /\ stateRecv = "SOF_HUNT"
  /\ frameRecv = NoFrame
  /\ timerRecv = FALSE
  /\ called = NoCall
  /\ answered = FALSE
  /\ heard = NoFrame
  /\ alive = TRUE
  /\ lenByte = NoFrame
  /\ tx = NoFrame
  /\ whole = NoFrame

-----------------------------------------------------------------------------
(* An assignment of a byte to the int field through a char.                *)
AsChar(b) == IF SignedChar /\ b >= 128 THEN b - 256 ELSE b

(* MALLOC(sizeof(stDataFrame_t) + ch - 3), NULL when the sum, taken as a   *)
(* size_t, is beyond every heap.  A buffer that is too short for the       *)
(* fields is written over its end: they keep what was stored in them.      *)
Allocate(len) ==
  IF SizeofFrame + len - 3 >= 0 THEN [len |-> len, size |-> 0] ELSE NoFrame

(* frame_payload_full *)
FullTooEarly(df) == df.size >= df.len - 4           \* mutant of Full
Full(df) == df.size = df.len - 3

Quiet == called' = NoCall /\ answered' = FALSE /\ heard' = NoFrame

(* recv_over_cb takes the buffer over (api_recv_over frees it).            *)
RecvOverKeeps(error, df, ack) ==                    \* mutant of RecvOver
  /\ called' = [error |-> error, frame |-> df]
  /\ answered' = ack
  /\ heard' = NoFrame
  /\ stateRecv' = "SOF_HUNT"
  /\ timerRecv' = FALSE
  /\ UNCHANGED frameRecv

RecvOver(error, df, ack) ==
  /\ called' = [error |-> error, frame |-> df]
  /\ answered' = ack
  /\ heard' = NoFrame
  /\ frameRecv' = NoFrame
  /\ stateRecv' = "SOF_HUNT"
  /\ timerRecv' = FALSE

(* The next state, with timerRecv set anew.                                *)
Await(state) == stateRecv' = state /\ timerRecv' = TRUE

-----------------------------------------------------------------------------
(* frame_receive_step, one branch of its switch each.                      *)
IsAnswer(b) == b \in {ACK, NAK, CAN}

Hunt(b) ==
  /\ stateRecv = "SOF_HUNT"
  /\ \/ /\ b = SOF
        /\ Await("LENGTH")
        /\ Quiet
     \/ /\ IsAnswer(b)   \* to the send half of frame.c
        /\ called' = NoCall /\ answered' = FALSE /\ heard' = b
        /\ UNCHANGED <<stateRecv, timerRecv>>
     \/ /\ b # SOF /\ ~IsAnswer(b)
        /\ Quiet
        /\ UNCHANGED <<stateRecv, timerRecv>>
  /\ UNCHANGED frameRecv

Length(b) ==
  /\ stateRecv = "LENGTH"
  /\ \/ /\ b <= MIN_FRAME_SIZE \/ b >= MAX_FRAME_SIZE
        /\ stateRecv' = "SOF_HUNT"
        /\ timerRecv' = FALSE
        /\ UNCHANGED frameRecv
     \/ /\ b > MIN_FRAME_SIZE /\ b < MAX_FRAME_SIZE
        /\ frameRecv' = Allocate(AsChar(b))
        /\ stateRecv' = "TYPE"
        /\ timerRecv' = (frameRecv' # NoFrame)
  /\ Quiet

(* From here on the code reads and writes through fs.frameRecv.            *)
ReadsNull == stateRecv = "TYPE" /\ frameRecv = NoFrame

Type(b) ==
  /\ stateRecv = "TYPE"
  /\ \/ /\ ReadsNull
        /\ Quiet
        /\ UNCHANGED <<stateRecv, frameRecv, timerRecv>>
     \/ /\ ~ReadsNull
        /\ b \in {REQUEST, RESPONSE}
        /\ Await("COMMAND")
        /\ Quiet
        /\ UNCHANGED frameRecv
     \/ /\ ~ReadsNull
        /\ b \notin {REQUEST, RESPONSE}
        /\ RecvOver("FE_RECV_TIMEOUT", frameRecv, FALSE)

Command(b) ==
  /\ stateRecv = "COMMAND"
  /\ Await(IF Full(frameRecv) THEN "CHECKSUM" ELSE "DATA")
  /\ Quiet
  /\ UNCHANGED frameRecv

DataTestsFirst(b) ==                                \* mutant of Data
  /\ stateRecv = "DATA"
  /\ frameRecv.size < MaxSize
  /\ frameRecv' = [frameRecv EXCEPT !.size = @ + 1]
  /\ Await(IF Full(frameRecv) THEN "CHECKSUM" ELSE "DATA")
  /\ Quiet

Data(b) ==
  /\ stateRecv = "DATA"
  /\ frameRecv.size < MaxSize
  /\ frameRecv' = [frameRecv EXCEPT !.size = @ + 1]
  /\ Await(IF Full(frameRecv') THEN "CHECKSUM" ELSE "DATA")
  /\ Quiet

Checksum(valid) ==
  /\ stateRecv = "CHECKSUM"
  /\ RecvOver(IF valid THEN "FE_NONE" ELSE "FE_RECV_CHECKSUM", frameRecv, valid)

(* The byte b; valid says whether it is the checksum of the bytes taken    *)
(* into the frame so far.                                                  *)
frame_receive_step(b, valid) ==
  /\ Hunt(b) \/ Length(b) \/ Type(b) \/ Command(b) \/ Data(b) \/ Checksum(valid)
  /\ alive' = ~ReadsNull
  /\ lenByte' = IF stateRecv' = "SOF_HUNT" THEN NoFrame
                ELSE IF stateRecv = "LENGTH" THEN b ELSE lenByte

(* 200 ms without a byte: a frame already allocated is handed over as cut  *)
(* off.                                                                    *)
frame_receive_timer_callback ==
  /\ timerRecv
  /\ stateRecv' = "SOF_HUNT"
  /\ timerRecv' = FALSE
  /\ frameRecv' = NoFrame
  /\ called' = IF frameRecv = NoFrame THEN NoCall
               ELSE [error |-> "FE_RECV_TIMEOUT", frame |-> frameRecv]
  /\ answered' = FALSE
  /\ heard' = NoFrame
  /\ lenByte' = NoFrame
  /\ UNCHANGED alive
  /\ tx' = IF tx = NoFrame THEN tx ELSE [tx EXCEPT !.clean = FALSE]
  /\ whole' = NoFrame

-----------------------------------------------------------------------------
(* The line.  A frame's bytes are SOF, length, type, command, len - 3 of   *)
(* payload, checksum.                                                      *)
BytesAt(len, pos) ==
  CASE pos = 0 -> {SOF}
    [] pos = 1 -> {len}
    [] pos = 2 -> {REQUEST, RESPONSE}
    [] OTHER   -> Noise

Advance(clean) ==
  LET last == tx.pos = tx.len + 1 IN
  /\ tx' = IF last THEN NoFrame
           ELSE [tx EXCEPT !.pos = @ + 1, !.clean = clean]
  /\ whole' = IF last /\ clean THEN tx.len ELSE NoFrame

SendStart(len) ==
  /\ tx = NoFrame
  /\ tx' = [len |-> len, pos |-> 1, clean |-> stateRecv = "SOF_HUNT"]
  /\ whole' = NoFrame
  /\ \E valid \in BOOLEAN : frame_receive_step(SOF, valid)

(* The checksum of a frame that came whole is right; any byte may happen   *)
(* to be the checksum the parser waits for when it took the frame's bytes  *)
(* for something else.                                                     *)
SendNext ==
  /\ tx # NoFrame
  /\ Advance(tx.clean)
  /\ \E b \in BytesAt(tx.len, tx.pos), valid \in BOOLEAN :
       /\ tx.clean /\ tx.pos = tx.len + 1 => valid
       /\ frame_receive_step(b, valid)

ByteLost ==
  /\ tx # NoFrame
  /\ Advance(FALSE)
  /\ Quiet
  /\ UNCHANGED rvars

ByteChanged ==
  /\ tx # NoFrame
  /\ Advance(FALSE)
  /\ \E b \in Noise, valid \in BOOLEAN : frame_receive_step(b, valid)

Stray ==
  /\ tx = NoFrame
  /\ \E b \in Noise \cup {ACK, NAK, CAN}, valid \in BOOLEAN :
       frame_receive_step(b, valid)
  /\ whole' = NoFrame
  /\ UNCHANGED tx

-----------------------------------------------------------------------------
Next ==
  /\ alive
  /\ \/ \E len \in Lengths : SendStart(len)
     \/ SendNext
     \/ ByteLost
     \/ ByteChanged
     \/ Stray
     \/ frame_receive_timer_callback

Spec == Init /\ [][Next]_vars

-----------------------------------------------------------------------------
(* Properties. *)

(* The length bytes for which the code finds no buffer, and the parser     *)
(* after one of them.                                                      *)
Unbuffered == IF SignedChar THEN 128..(258 - SizeofFrame) ELSE {}
WithoutBuffer == stateRecv = "TYPE" /\ lenByte \in Unbuffered

(* The parser is never left in the middle of a frame without the timer     *)
(* that takes it back to the hunt, and the timer never fires on a parser   *)
(* that hunts; but no timer runs where there is no buffer, and the next    *)
(* byte ends the daemon.                                                   *)
MidFrameHasTimer == timerRecv <=> stateRecv # "SOF_HUNT" /\ ~WithoutBuffer

(* From TYPE on the branches read and write through fs.frameRecv without a *)
(* check: it has a buffer there, and in the other states none that would   *)
(* be leaked by the next allocation, after whatever frames, breaks and     *)
(* stray bytes.  What the daemon can die of is a length byte for which     *)
(* char makes the allocation fail, and of no other.  A payload is never    *)
(* stored past its buffer where the length leaves room for one.            *)
FrameWhereNeeded ==
  /\ (frameRecv # NoFrame) <=>
       /\ stateRecv \in {"TYPE", "COMMAND", "DATA", "CHECKSUM"}
       /\ ~WithoutBuffer
  /\ ~alive => WithoutBuffer
  /\ frameRecv # NoFrame /\ frameRecv.len >= 3
       => frameRecv.size <= frameRecv.len - 3

(* Each buffer is handed to recv_over_cb once, by the step that forgets    *)
(* it: none is leaked and none is used after the api layer freed it.       *)
HandedOverOnce ==
  [][/\ frameRecv # NoFrame /\ frameRecv' = NoFrame => called'.frame = frameRecv
     /\ called' # NoCall => frameRecv # NoFrame /\ frameRecv' = NoFrame]_vars

(* A frame all of whose bytes reached a parser that was hunting at its     *)
(* SOF is delivered with the payload it was sent with, and acknowledged,   *)
(* whatever bytes, breaks and damaged frames came before it, if char holds *)
(* its length; if not, it is neither delivered nor acknowledged.           *)
WholeFrameDelivered ==
  whole # NoFrame =>
    IF SignedChar /\ whole >= 128
    THEN called = NoCall /\ ~answered
    ELSE /\ called = [error |-> "FE_NONE",
                     frame |-> [len |-> whole, size |-> whole - 3]]
         /\ answered

(* A byte inside a clean frame is never taken for an answer to a frame the *)
(* host sent, even when its value is that of an ACK, NAK or CAN.           *)
NoAnswerInsideFrame ==
  (tx # NoFrame /\ tx.clean) \/ whole # NoFrame => heard = NoFrame
=============================================================================
