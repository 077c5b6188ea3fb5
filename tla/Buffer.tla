------------------------------- MODULE Buffer -------------------------------
(***************************************************************************)
(* The fifo buffer of gogoCLIENT (buffer.c) and the typed access to it     *)
(* (bufaux.c), which the log file and the PASSDSS authentication use.  A   *)
(* Buffer is a record: the memory, where the data begins and ends in it,   *)
(* and the size allocated.  Bytes are numbers; memory that was never       *)
(* written holds Garbage; an operation that ends the program with exit()   *)
(* returns Exited.                                                         *)
(***************************************************************************)
EXTENDS Integers, Sequences

CONSTANTS
  BUFFER_LEN,     \* size that buffer_init allocates
  BUFFER_GROWTH,  \* added to what is asked for when the buffer grows
  MAX_ALLOC       \* the largest buffer; growing further ends the program

ASSUME BufferAssumption ==
  /\ BUFFER_LEN \in Nat \ {0} /\ BUFFER_GROWTH \in Nat \ {0} /\ MAX_ALLOC \in Nat

Garbage == -1
Exited  == [buf |-> <<>>, alloc |-> -1, offset |-> 0, end |-> 0]

buffer_init == [buf |-> [i \in 1 .. BUFFER_LEN |-> Garbage], alloc |-> BUFFER_LEN,
                offset |-> 0, end |-> 0]

buffer_free(b) == [b EXCEPT !.buf = <<>>, !.alloc = 0]

buffer_clear(b) == [b EXCEPT !.offset = 0, !.end = 0]

buffer_len(b) == b.end - b.offset

\* What buffer_ptr points at, as far as the data goes.
buffer_ptr(b) == SubSeq(b.buf, b.offset + 1, b.end)

Fits(b, len) == b.end + len < b.alloc

\* The data is moved to the beginning when more than half lies unused before it.
Compact(b) ==
  [b EXCEPT !.buf = buffer_ptr(b) \o SubSeq(b.buf, buffer_len(b) + 1, b.alloc),
            !.end = buffer_len(b), !.offset = 0]

\* realloc(); one that would exceed the limit is an exit().
Grow(b, len) ==
  LET newlen == b.alloc + len + BUFFER_GROWTH IN
  IF newlen > MAX_ALLOC THEN Exited
  ELSE [b EXCEPT !.alloc = newlen,
                 !.buf = b.buf \o [i \in 1 .. newlen - b.alloc |-> Garbage]]

\* The loop of buffer_append_space: at most one move and one growth are needed.
MakeRoom(b, len) ==
  LET e == IF b.offset = b.end THEN buffer_clear(b) ELSE b
      c == IF ~Fits(e, len) /\ e.offset > e.alloc \div 2 THEN Compact(e) ELSE e
  IN IF Fits(c, len) THEN c ELSE Grow(c, len)

buffer_append(b, data) ==
  LET r == MakeRoom(b, Len(data)) IN
  IF r = Exited THEN r
  ELSE [r EXCEPT !.buf = SubSeq(r.buf, 1, r.end) \o data \o SubSeq(r.buf, r.end + Len(data) + 1, r.alloc),
                 !.end = r.end + Len(data)]

buffer_consume(b, bytes) ==
  IF bytes > buffer_len(b) THEN b ELSE [b EXCEPT !.offset = @ + bytes]

\* The data read, and the buffer without it.  Nothing is read when there is
\* too little: the caller's memory stays as it was.
buffer_get(b, len) ==
  [value |-> IF len > buffer_len(b) THEN [i \in 1 .. len |-> Garbage]
             ELSE SubSeq(b.buf, b.offset + 1, b.offset + len),
   buf   |-> buffer_consume(b, len)]

buffer_consume_end(b, bytes) ==
  IF bytes > buffer_len(b) THEN b ELSE [b EXCEPT !.end = @ - bytes]

-----------------------------------------------------------------------------
(* bufaux.c: 32-bit integers, counted strings, big numbers, octets.        *)

PUT_32BIT(v) == <<(v \div 16777216) % 256, (v \div 65536) % 256, (v \div 256) % 256, v % 256>>
GET_32BIT(s) ==
  IF \E i \in 1 .. 4 : s[i] = Garbage THEN Garbage
  ELSE s[1] * 16777216 + s[2] * 65536 + s[3] * 256 + s[4]

buffer_put_int(b, v) == buffer_append(b, PUT_32BIT(v))
buffer_get_int(b) ==
  LET r == buffer_get(b, 4) IN [r EXCEPT !.value = GET_32BIT(r.value)]

buffer_put_string(b, s) == buffer_append(buffer_put_int(b, Len(s)), s)
buffer_put_cstring(b, s) == buffer_put_string(b, s)

\* A length above the limit (MAX_ALLOC here), or one read from nothing, which
\* may be anything, ends the program.
buffer_get_string(b) ==
  LET len == buffer_get_int(b) IN
  IF len.value = Garbage \/ len.value > MAX_ALLOC THEN [value |-> <<>>, buf |-> Exited]
  ELSE buffer_get(len.buf, len.value)

\* The octets of a number, most significant first, none for zero.
BN_bn2bin(v) ==
  LET octets[n \in 0 .. v] == IF n = 0 THEN <<>> ELSE Append(octets[n \div 256], n % 256)
  IN octets[v]

\* The octets are stored as they are: no zero byte before a set top bit.
buffer_put_bignum(b, v) == buffer_put_string(b, BN_bn2bin(v))

BN_bin2bn(s) ==
  LET value[i \in 0 .. Len(s)] == IF i = 0 THEN 0 ELSE value[i - 1] * 256 + s[i]
  IN value[Len(s)]

\* A number longer than the data ends the program; the other limit, 8192 octets,
\* is longer than any line of the file of keys.
buffer_get_bignum(b) ==
  LET bytes == buffer_get_int(b) IN
  IF bytes.value = Garbage \/ buffer_len(bytes.buf) < bytes.value
  THEN [value |-> 0, buf |-> Exited]
  ELSE [value |-> BN_bin2bn(SubSeq(buffer_ptr(bytes.buf), 1, bytes.value)),
        buf   |-> buffer_consume(bytes.buf, bytes.value)]
=============================================================================
