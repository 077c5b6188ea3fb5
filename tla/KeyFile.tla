------------------------------ MODULE KeyFile ------------------------------
(***************************************************************************)
(* The file of the brokers' DSA keys (gogockeys.pub) that the              *)
(* PASSDSS-3DES-1 authentication reads and extends                         *)
(* (tsp_auth_passdss.c:41-306), with the base64 conversion of base64.c and *)
(* the buffers of Buffer.  A file is a sequence of lines, a line the name  *)
(* of a host and the base64 text of its key; a base64 character is the     *)
(* number it stands for, Pad for '='.                                      *)
(***************************************************************************)
EXTENDS Buffer, SequencesExt

\* The numbers of a DSA key have up to 1024 bits: its line is far shorter than
\* the 4095 characters that freadline() takes.
BigNumbers == {v \in Nat : Len(BN_bn2bin(v)) <= 128}
DsaKeys    == [p : BigNumbers, q : BigNumbers, g : BigNumbers, pub_key : BigNumbers]

\* A key that is written, and the text of one that is read, fit into the buffers,
\* also when each of the ten numbers and strings makes the buffer grow.
ASSUME KeyFileAssumption == BUFFER_LEN + 10 * BUFFER_GROWTH + 750 <= MAX_ALLOC

Pad     == 64
NewLine == 65   \* pr2six[] is 64 for both: neither is a base64 digit

\* The string "ssh-dss" at the head of a key.
SshDss == <<115, 115, 104, 45, 100, 115, 115>>

\* Four digits for three octets, the first of which is s[i].
base64encode(s) ==
  LET octet(i) == IF i <= Len(s) THEN s[i] ELSE 0
      digit(n, i) == CASE n = 1 -> octet(i) \div 4
                       [] n = 2 -> (octet(i) % 4) * 16 + octet(i + 1) \div 16
                       [] n = 3 -> IF i + 1 > Len(s) THEN Pad
                                   ELSE (octet(i + 1) % 16) * 4 + octet(i + 2) \div 64
                       [] OTHER -> IF i + 2 > Len(s) THEN Pad ELSE octet(i + 2) % 64
  IN [k \in 1 .. 4 * ((Len(s) + 2) \div 3) |-> digit(1 + ((k - 1) % 4), 1 + 3 * ((k - 1) \div 4))]

\* Decoding stops at the first character that is no digit, the padding
\* included; a single digit left over is ignored.
base64decode(text) ==
  LET nprbytes == IF \E i \in DOMAIN text : text[i] > 63
                  THEN (CHOOSE i \in DOMAIN text : text[i] > 63 /\ \A j \in 1 .. i - 1 : text[j] <= 63) - 1
                  ELSE Len(text)
      pr2six(i) == IF i <= nprbytes THEN text[i] ELSE 0
      octet(k) == CASE k % 3 = 1 -> pr2six((4 * k) \div 3) * 4 + pr2six((4 * k) \div 3 + 1) \div 16
                    [] k % 3 = 2 -> (pr2six((4 * k) \div 3) % 16) * 16 + pr2six((4 * k) \div 3 + 1) \div 4
                    [] OTHER     -> (pr2six((4 * k) \div 3 - 1) % 4) * 64 + pr2six((4 * k) \div 3)
  IN [k \in 1 .. (3 * nprbytes) \div 4 |-> octet(k)]

\* The line as freadline leaves it in line_buf: the newline is stored twice
\* and no terminating zero at all, so that what a longer line left there before
\* follows; that is no base64 text after the newline, and is not decoded.
freadline(line) == line.text \o <<NewLine, NewLine>>

\* str holds str_size bytes, of which base64decode wrote the first ones only.
Str(text) ==
  LET plain == base64decode(text)
  IN plain \o [i \in 1 .. Len(text) - Len(plain) |-> Garbage]

\* What the four buffer_get_bignum() read from a line, and the buffer after it.
StoredKey(line) ==
  LET s == buffer_get_string(buffer_append(buffer_init, Str(freadline(line))))
      p == buffer_get_bignum(s.buf)
      q == buffer_get_bignum(p.buf)
      g == buffer_get_bignum(q.buf)
      y == buffer_get_bignum(g.buf)
  IN [p |-> p.value, q |-> q.value, g |-> g.value, pub_key |-> y.value]

is_dsakey_in_keyfileHalf(dsa, host, file) ==
  LET lines == {i \in DOMAIN file : file[i].host = host}
      last  == CHOOSE i \in lines : \A j \in lines : j <= i
      known == StoredKey(file[last])
  IN IF lines = {} THEN 1
     ELSE IF known.p = dsa.p /\ known.q = dsa.q THEN 2 ELSE 3

\* 1: the host is not in the file; 2: it is, with this key; 3: with another.
\* Of several lines of the host the last one counts.
is_dsakey_in_keyfile(dsa, host, file) ==
  LET lines == {i \in DOMAIN file : file[i].host = host}
      last  == CHOOSE i \in lines : \A j \in lines : j <= i
  IN IF lines = {} THEN 1
     ELSE IF StoredKey(file[last]) = dsa THEN 2 ELSE 3

\* The line that is added for a key.
KeyLine(dsa, host) ==
  LET s == buffer_put_cstring(buffer_init, SshDss)
      p == buffer_put_bignum(s, dsa.p)
      q == buffer_put_bignum(p, dsa.q)
      g == buffer_put_bignum(q, dsa.g)
      y == buffer_put_bignum(g, dsa.pub_key)
  IN [host |-> host, text |-> base64encode(buffer_ptr(y))]

\* The result, and the file afterwards.  An unknown key is accepted if the
\* configuration says so without a question or the user does (consent), and
\* then only if it can be written.
add_dsakey_to_keyfile(dsa, host, file, consent, writable) ==
  LET known == is_dsakey_in_keyfile(dsa, host, file)
      added == known = 1 /\ consent /\ writable
  IN [ret  |-> known = 2 \/ added,
      file |-> IF added THEN Append(file, KeyLine(dsa, host)) ELSE file]
=============================================================================
