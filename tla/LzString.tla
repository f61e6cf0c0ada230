------------------------------- MODULE LzString -------------------------------
(***************************************************************************)
(* The LZ-string compression of CenStatD's query parameter                 *)
(* (censtatd_json._compress), one character at a time, and the             *)
(* decompression the service applies to it (the lz-string library, not in  *)
(* the repository), one code at a time.                                    *)
(*                                                                         *)
(* A text is a sequence of character codes below 256: json.dumps escapes   *)
(* every other character.  Of the output, Chars are the positions in the   *)
(* alphabet.                                                               *)
(***************************************************************************)
EXTENDS Naturals, Sequences, SequencesExt

BitsPerChar == 6

TwoTo(n) ==
  LET power[i \in 0..n] == IF i = 0 THEN 1 ELSE 2 * power[i - 1]
  IN power[n]

\* The width bits of a value, the lowest first: each is what halving it leaves over.
Halves(value, width) ==
  LET half[i \in 0..width] == IF i = 0 THEN value ELSE half[i - 1] \div 2
  IN half
BitsOf(value, width) == [i \in 1..width |-> Halves(value, width)[i - 1] % 2]

Extend(f, key, value) == [k \in DOMAIN f \cup {key} |-> IF k = key THEN value ELSE f[k]]

Fresh == [dictionary |-> [s \in {} |-> 0], toCreate |-> {}, w |-> <<>>,
          enlargeIn |-> 2, dictSize |-> 3, numBits |-> 2, bits |-> <<>>]

\* One code fewer before codes grow by a bit.
Counted(s) == IF s.enlargeIn = 1 THEN [s EXCEPT !.enlargeIn = TwoTo(s.numBits), !.numBits = @ + 1]
                                 ELSE [s EXCEPT !.enlargeIn = @ - 1]

Define(s, string) == [s EXCEPT !.dictionary = Extend(@, string, s.dictSize), !.dictSize = @ + 1]

\* Mutant: the code that announces a character is not counted.
EmitUncounted(s) ==
  IF s.w \in s.toCreate
    THEN Counted([s EXCEPT !.bits = @ \o BitsOf(0, s.numBits) \o BitsOf(s.w[1], 8), !.toCreate = @ \ {s.w}])
    ELSE Counted([s EXCEPT !.bits = @ \o BitsOf(s.dictionary[s.w], s.numBits)])

\* The code of w, or the character itself the first time it is alone.
Emit(s) ==
  IF s.w \in s.toCreate
    THEN Counted(Counted([s EXCEPT !.bits = @ \o BitsOf(0, s.numBits) \o BitsOf(s.w[1], 8),
                                   !.toCreate = @ \ {s.w}]))
    ELSE Counted([s EXCEPT !.bits = @ \o BitsOf(s.dictionary[s.w], s.numBits)])

Compress(s, c) ==
  LET met == IF <<c>> \in DOMAIN s.dictionary THEN s
             ELSE [Define(s, <<c>>) EXCEPT !.toCreate = @ \cup {<<c>>}]
      wc == s.w \o <<c>>
  IN IF wc \in DOMAIN met.dictionary THEN [met EXCEPT !.w = wc]
     ELSE [Define(Emit(met), wc) EXCEPT !.w = <<c>>]

\* What is left, the end mark, and zeros up to a full character, one at least.
Finish(s) ==
  LET last == IF s.w = <<>> THEN s ELSE Emit(s)
      bits == last.bits \o BitsOf(2, last.numBits)
  IN bits \o [i \in 1..(BitsPerChar - (Len(bits) % BitsPerChar)) |-> 0]

\* The value of bits, the highest first.
ValueOfBits(bits) ==
  LET value[n \in 0..Len(bits)] == IF n = 0 THEN 0 ELSE 2 * value[n - 1] + bits[n]
  IN value[Len(bits)]

Chars(bits) ==
  [i \in 1..(Len(bits) \div BitsPerChar) |->
     ValueOfBits(SubSeq(bits, BitsPerChar * (i - 1) + 1, BitsPerChar * i))]
-------------------------------------------------------------------------------
(* The service's side *)

\* The bits of each character, the highest first.
BitsOfChars(chars) ==
  [i \in 1..(BitsPerChar * Len(chars)) |->
     BitsOf(chars[(i - 1) \div BitsPerChar + 1], BitsPerChar)[BitsPerChar - ((i - 1) % BitsPerChar)]]

DecoderOf(chars) == [bits |-> BitsOfChars(chars), entries |-> [n \in {} |-> <<>>], at |-> 0, w |-> <<>>,
                     enlargeIn |-> 2, dictSize |-> 3, numBits |-> 2, text |-> <<>>, status |-> "reading"]

\* The value of width bits from a position on, the lowest first.
ReadBits(bits, at, width) == ValueOfBits(Reverse(SubSeq(bits, at + 1, at + width)))

\* A string is read: it ends the text so far, and with its first character the string
\* before it becomes one more.
Entered(d, entry) ==
  LET out == [d EXCEPT !.text = @ \o entry, !.w = entry]
  IN IF d.w = <<>> THEN Counted(out)
     ELSE Counted([out EXCEPT !.entries = Extend(@, d.dictSize, d.w \o <<entry[1]>>), !.dictSize = @ + 1])

\* A character is announced.
Told(d, char) ==
  Counted([d EXCEPT !.at = @ + 8, !.entries = Extend(@, d.dictSize, char), !.dictSize = @ + 1])

\* Code 2 ends the text, code 0 announces a character, and a code not yet defined can
\* only be the next one: the last string with its own first character added.
Decompress(d) ==
  IF Len(d.bits) < d.at + d.numBits THEN [d EXCEPT !.status = "failed"]
  ELSE
    LET code == ReadBits(d.bits, d.at, d.numBits)
        read == [d EXCEPT !.at = @ + d.numBits]
        char == <<ReadBits(d.bits, read.at, 8)>>
    IN IF code = 2 THEN [d EXCEPT !.status = "ended"]
       ELSE IF code = 0 THEN Entered(Told(read, char), char)
       ELSE IF code \in DOMAIN d.entries THEN Entered(read, d.entries[code])
       ELSE IF code = d.dictSize /\ d.w # <<>> THEN Entered(read, d.w \o <<d.w[1]>>)
       ELSE [d EXCEPT !.status = "failed"]
===============================================================================
