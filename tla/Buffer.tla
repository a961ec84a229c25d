------------------------------- MODULE Buffer -------------------------------
(***************************************************************************)
(* The byte queue (buffer.c): a list of buffers of bytes, of which the     *)
(* first may be kept for good (QBUF_OPT_PRE_ALLOC).  Allocation succeeds.  *)
(***************************************************************************)
EXTENDS Naturals, Sequences, SequencesExt, FiniteSetsExt

CONSTANTS
  Bytes,      \* the values of a byte
  Chunks,     \* what is put in at a time: sequences of bytes
  MinSize,    \* min_buf_size
  MaxLens,    \* the limits queue_buf_set_max_len is called with; 0 is none
  Room,       \* bound: the bytes in the queue
  MaxBuffers  \* bound: the buffers in the list

ASSUME BufferAssumption ==
  /\ Chunks \subseteq Seq(Bytes) /\ MaxLens \subseteq Nat
  /\ MinSize \in Nat \ {0} /\ Room \in Nat

VARIABLES
  qbuf,     \* the struct queue_buf; the data.len of a buffer is Len(buf)
  stream,   \* history: the bytes put in and not trimmed, in order
  skewed    \* history: did a trim take the bytes of the kept buffer and
            \* some of those of the next

buffervars == <<qbuf, stream, skewed>>

Buf(size, bytes) == [size |-> size, buf |-> bytes]
DropFirst(s, n) == SubSeq(s, n + 1, Len(s))

BytesOf(list) == FlattenSeq([i \in DOMAIN list |-> list[i].buf])

(* The bytes in the first i buffers.                                       *)
Upto(list, i) == Len(BytesOf(SubSeq(list, 1, i)))

queue_buf_reset(q) ==
  [q EXCEPT !.len = 0,
            !.list = IF q.pre_alloc THEN <<Buf(MinSize, <<>>)>> ELSE <<>>]

queue_buf_init(pre_alloc) ==
  queue_buf_reset([pre_alloc |-> pre_alloc, max_len |-> 0, len |-> 0,
                   list |-> <<>>])

(* The first i buffers without the last n bytes of the i-th, and a list    *)
(* without the first n bytes of its first buffer.                          *)
CutEnd(list, i, n) ==
  [SubSeq(list, 1, i) EXCEPT ![i].buf = SubSeq(@, 1, Len(@) - n)]
CutStart(list, n) == [list EXCEPT ![1].buf = DropFirst(@, n)]

(* The first buffer that has the last byte to keep is cut there.           *)
queue_buf_trim(q, new_len) ==
  LET last == Min({i \in DOMAIN q.list : Upto(q.list, i) >= new_len})
      over == Upto(q.list, last) - new_len
  IN  IF new_len >= q.len THEN q
      ELSE IF new_len = 0 THEN queue_buf_reset(q)
      ELSE [q EXCEPT !.len = new_len, !.list = CutEnd(@, last, over)]

(* What is left to trim behind the buffers that go whole.                  *)
NothingLeft(list, gone, len) == 0                    \* mutant of StillToTrim
StillToTrim(list, gone, len) == len - Upto(list, gone)

KeepsFirst(q, len) == q.pre_alloc /\ Len(q.list[1].buf) <= len

(* An emptied first buffer that is kept is filled from the next, whose     *)
(* bytes are taken from its start.                                         *)
Refilled(first, rest, len) ==
  LET next == rest[1].buf
      fit  == Min({Len(next) - len, first.size})
      to   == [first EXCEPT !.buf = SubSeq(next, 1, fit)]
  IN  IF len + fit = Len(next) THEN <<to>> \o Tail(rest)
      ELSE <<to>> \o CutStart(rest, len + fit)

queue_buf_trim_head(q, new_len) ==
  LET len  == q.len - new_len
      gone == Max({i \in 0..Len(q.list) : Upto(q.list, i) <= len})
      rest == DropFirst(q.list, gone)
      left == StillToTrim(q.list, gone, len)
  IN  IF new_len >= q.len THEN q
      ELSE IF new_len = 0 THEN queue_buf_reset(q)
      ELSE [q EXCEPT !.len = new_len,
                     !.list = IF KeepsFirst(q, len) THEN Refilled(@[1], rest, left)
                              ELSE CutStart(rest, left)]

(* A put or a concatenation that would be too long changes nothing.        *)
Exceeds(q, len) == q.max_len # 0 /\ q.max_len < q.len + len

queue_buf_concat(q1, q2) ==
  IF Exceeds(q1, q2.len) THEN q1
  ELSE [q1 EXCEPT !.len = @ + q2.len, !.list = @ \o q2.list]

Larger(size, len) == IF len < size THEN size ELSE len

(* All the bytes go to the first buffer, which grows if it must.           *)
queue_buf_coalesce(q) ==
  IF q.list = <<>> \/ q.len \in {0, Len(q.list[1].buf)} THEN q
  ELSE [q EXCEPT !.list = <<Buf(Larger(@[1].size, q.len), BytesOf(@))>>]

(* The last buffer is filled up, and a new one takes the rest.             *)
queue_buf_put(q, data) ==
  LET n     == Len(q.list)
      space == IF n = 0 THEN 0 ELSE q.list[n].size - Len(q.list[n].buf)
      fill  == Min({space, Len(data)})
      rest  == DropFirst(data, fill)
      list  == IF fill = 0 THEN q.list
               ELSE [q.list EXCEPT ![n].buf = @ \o SubSeq(data, 1, fill)]
  IN  IF Len(data) > 0 /\ Exceeds(q, Len(data)) THEN q
      ELSE [q EXCEPT !.len = @ + Len(data),
                     !.list = IF rest = <<>> THEN list
                              ELSE Append(list, Buf(Larger(MinSize, Len(rest)), rest))]

queue_buf_put_head(q, data) ==
  [q EXCEPT !.len = @ + Len(data),
            !.list = <<Buf(Larger(MinSize, Len(data)), data)>> \o @]

(* The position is in the first buffer that ends at the offset or later.   *)
queue_buf_copyout(q, len, offset) ==
  LET at == {i \in DOMAIN q.list : Upto(q.list, i) >= offset}
      i  == Min(at)
      to == DropFirst(BytesOf(DropFirst(q.list, i - 1)),
                      offset - Upto(q.list, i - 1))
  IN  IF q.len <= offset \/ at = {} THEN <<>>
      ELSE SubSeq(to, 1, Min({len, Len(to)}))

-----------------------------------------------------------------------------
BufferInit ==
  /\ \E pre_alloc \in BOOLEAN : qbuf = queue_buf_init(pre_alloc)
  /\ stream = <<>> /\ skewed = FALSE

QueueIs(q, bytes) ==
  /\ qbuf' = q /\ stream' = bytes
  /\ Len(bytes) <= Room /\ Len(q.list) <= MaxBuffers

AppendedTo(q, data) == IF Exceeds(q, Len(data)) THEN stream ELSE stream \o data

Put(data) ==
  /\ QueueIs(queue_buf_put(qbuf, data), AppendedTo(qbuf, data))
  /\ UNCHANGED skewed

PutHead(data) ==
  /\ QueueIs(queue_buf_put_head(qbuf, data), data \o stream)
  /\ UNCHANGED skewed

(* With another queue, into which something was put in the same way.       *)
Concat(data) ==
  /\ LET other == queue_buf_put(queue_buf_init(qbuf.pre_alloc), data)
     IN  QueueIs(queue_buf_concat(qbuf, other), AppendedTo(qbuf, data))
  /\ UNCHANGED skewed

Trim(n) ==
  /\ QueueIs(queue_buf_trim(qbuf, n), SubSeq(stream, 1, Min({n, Len(stream)})))
  /\ skewed' = (skewed /\ n > 0)

TrimHead(n) ==
  LET len == Len(stream) - n IN
  /\ len > 0
  /\ QueueIs(queue_buf_trim_head(qbuf, n), DropFirst(stream, len))
  /\ skewed' = /\ n > 0
               /\ \/ skewed
                  \/ KeepsFirst(qbuf, len)
                       /\ len \notin {Upto(qbuf.list, i) : i \in DOMAIN qbuf.list}

Coalesce ==
  /\ QueueIs(queue_buf_coalesce(qbuf), stream)
  /\ UNCHANGED skewed

(* A limit of 0 trims, too.                                                *)
queue_buf_set_max_len(max_len) ==
  /\ QueueIs([queue_buf_trim(qbuf, max_len) EXCEPT !.max_len = max_len],
             SubSeq(stream, 1, Min({max_len, Len(stream)})))
  /\ skewed' = (skewed /\ max_len > 0)

BufferNext ==
  \/ \E data \in Chunks : Put(data) \/ PutHead(data) \/ Concat(data)
  \/ \E n \in 0..Room : Trim(n) \/ TrimHead(n)
  \/ Coalesce
  \/ \E max_len \in MaxLens : queue_buf_set_max_len(max_len)

BufferSpec == BufferInit /\ [][BufferNext]_buffervars

-----------------------------------------------------------------------------
(* Properties. *)

(* Whatever was put in at either end, concatenated, trimmed at either end  *)
(* and coalesced, a copy from any offset gives the bytes that are due, but *)
(* after a trim that took the bytes of the kept first buffer and some of   *)
(* the next's: there the right number of bytes is copied.                  *)
CopiesWhatIsDue ==
  /\ qbuf.len = Len(stream)
  /\ \A offset, n \in 0..Room :
       LET copy == queue_buf_copyout(qbuf, n, offset)
           due  == SubSeq(stream, offset + 1, Min({offset + n, Len(stream)}))
       IN  Len(copy) = Len(due) /\ (skewed \/ copy = due)
=============================================================================
