----------------------------- MODULE Md5Stream -----------------------------
(***************************************************************************)
(* The buffering of common/hash.cpp's MD5: bytes are fed in pieces of any  *)
(* length, whole blocks go to transform(), the rest waits in m_buffer, and *)
(* digest() pads a copy of the count and the state.  transform() is        *)
(* abstracted to its input: m_state is the sequence of blocks it absorbed, *)
(* so two states are equal when MD5 is bound to give the same digest.      *)
(*                                                                         *)
(* A byte is a pair <<kind, value>>; the data bytes are numbered, so that  *)
(* a byte lost, doubled or moved shows.  The two words of the length field *)
(* are one byte each, the words count modulo WordSize bits.                *)
(***************************************************************************)
EXTENDS Integers, Sequences, SequencesExt

CONSTANTS
  BlockLen,   \* bytes of a block (64)
  WordSize,   \* a word of m_count holds a number of bits below this (2^32)
  Pieces,     \* the lengths of the buffers given to update()
  MaxBytes    \* bound: bytes fed between two resets

ASSUME Md5Assumption ==
  /\ BlockLen \in Nat /\ BlockLen > 2
  /\ WordSize \in Nat /\ WordSize > 0 /\ WordSize % (8 * BlockLen) = 0
  /\ Pieces \subseteq Nat /\ MaxBytes \in Nat

VARIABLES
  md5,       \* the object: [count, buffer, state, digest]
  fed,       \* the bytes given to update() since the last reset
  asked,     \* << >>, or <<fed>> as the last digest() found it, if it was intact
  intact     \* no digest() has yet written padding over waiting bytes

md5Vars == <<md5, fed, asked, intact>>

Data(from, n) == [i \in 1 .. n |-> <<"data", from + i>>]
PADDING == [i \in 1 .. BlockLen |-> <<"pad", IF i = 1 THEN 128 ELSE 0>>]

\* The two words of m_count as the bytes of the length field.
encode(count) == << <<"bits", count[1]>>, <<"bits", count[2]>> >>

\* The bytes of m_buffer that wait for the rest of their block.
Index(count) == (count[1] \div 8) % BlockLen

\* A plausible slip: the carry of the low word is forgotten.
CountedNoCarry(count, n) ==
  <<(count[1] + 8 * n) % WordSize, (count[2] + (8 * n) \div WordSize) % WordSize>>

\* m_count after n more bytes: the low word carries into the high one.
Counted(count, n) ==
  LET bits == (8 * n) % WordSize
      low  == (count[1] + bits) % WordSize
      carry == IF low < bits THEN 1 ELSE 0
  IN <<low, (count[2] + carry + (8 * n) \div WordSize) % WordSize>>

\* memcpy(&buffer[at], bytes, Len(bytes)).
Overlay(buffer, at, bytes) ==
  [i \in 1 .. BlockLen |-> IF i \in at + 1 .. at + Len(bytes) THEN bytes[i - at] ELSE buffer[i]]

\* transform() of each block of a sequence of bytes whose length is a multiple of BlockLen.
Blocks(bytes) ==
  [k \in 1 .. Len(bytes) \div BlockLen |-> SubSeq(bytes, (k - 1) * BlockLen + 1, k * BlockLen)]

\* update(input): fill the buffer, transform it and every whole block after it, keep the rest.
update(m, input) ==
  LET index == Index(m.count)
      part  == BlockLen - index
      i     == IF Len(input) >= part
               THEN part + BlockLen * ((Len(input) - part) \div BlockLen) ELSE 0
      done  == IF i = 0 THEN <<>> ELSE SubSeq(m.buffer, 1, index) \o SubSeq(input, 1, i)
      left  == SubSeq(input, i + 1, Len(input))
  IN [m EXCEPT !.count  = Counted(m.count, Len(input)),
               !.state  = @ \o Blocks(done),
               !.buffer = IF i = 0 THEN Overlay(@, index, left)
                          ELSE Overlay(Overlay(@, index, SubSeq(input, 1, part)), 0, left)]

\* A plausible slip: a full last block is padded as if it had room for the length.
PadLenShort(count) ==
  LET tail == BlockLen - 2 IN
  IF Index(count) <= tail THEN tail - Index(count) ELSE tail + BlockLen - Index(count)

\* The bytes of padding: up to two before the end of a block, the length field fills it.
PadLen(count) ==
  LET tail == BlockLen - 2 IN
  IF Index(count) < tail THEN tail - Index(count) ELSE tail + BlockLen - Index(count)

\* final(): pad, append the length, take the digest, restore state and count.
\* m_buffer is not restored, and the padding's update() clears m_bfinished again.
final(m) ==
  LET padded == update(update(m, SubSeq(PADDING, 1, PadLen(m.count))), encode(m.count)) IN
  [m EXCEPT !.digest = padded.state, !.buffer = padded.buffer]

Reset == [count |-> <<0, 0>>, buffer |-> [i \in 1 .. BlockLen |-> <<"junk", 0>>],
          state |-> <<>>, digest |-> <<>>]

Md5Init == md5 = Reset /\ fed = <<>> /\ asked = <<>> /\ intact = TRUE

\* reset(): m_buffer and m_digest stay, nothing reads them before they are written.
Md5Reset ==
  /\ fed # <<>>
  /\ md5' = [md5 EXCEPT !.count = Reset.count, !.state = Reset.state]
  /\ fed' = <<>> /\ intact' = TRUE
  /\ UNCHANGED asked

\* update(buffer), and each turn of update(pfile)'s loop with the bytes read_file() returned.
Md5Update == \E n \in Pieces :
  /\ Len(fed) + n <= MaxBytes
  /\ LET input == Data(Len(fed), n) IN md5' = update(md5, input) /\ fed' = fed \o input
  /\ UNCHANGED <<asked, intact>>

\* digest(): m_bfinished is FALSE whenever it is called, see final().
Md5Digest ==
  /\ md5' = final(md5)
  /\ asked' = IF intact THEN <<fed>> ELSE <<>>
  /\ intact' = (intact /\ Index(md5.count) < BlockLen - 2)
  /\ UNCHANGED fed

Md5Next == Md5Reset \/ Md5Update \/ Md5Digest
Md5Spec == Md5Init /\ [][Md5Next]_md5Vars

-----------------------------------------------------------------------------
Bytes == {"data", "pad", "bits", "junk"} \X Nat

Md5TypeOK ==
  /\ md5.count \in (0 .. WordSize - 1) \X (0 .. WordSize - 1)
  /\ md5.buffer \in Seq(Bytes) /\ Len(md5.buffer) = BlockLen
  /\ \A b \in Range(md5.state) \cup Range(md5.digest) : b \in Seq(Bytes) /\ Len(b) = BlockLen

\* The padded message of RFC 1321: a 1 bit, as few zeros as do, the length, and whole blocks.
Padded(message) ==
  LET n == Len(message)
      zeros == CHOOSE k \in 0 .. BlockLen - 1 : (n + 1 + k + 2) % BlockLen = 0
      bits == <<(8 * n) % WordSize, ((8 * n) \div WordSize) % WordSize>>
  IN message \o SubSeq(PADDING, 1, 1 + zeros) \o encode(bits)

(* However a message is cut into pieces, and whatever its length is against *)
(* a block, a word or the other pieces, the digest is the one of the padded *)
(* message (hash.cpp:158-228), unless an earlier digest() has left its      *)
(* padding in m_buffer.                                                     *)
DigestOfMessage ==
  asked # <<>> => md5.digest = Blocks(Padded(asked[1]))
=============================================================================
