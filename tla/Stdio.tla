-------------------------------- MODULE Stdio --------------------------------
(***************************************************************************)
(* printf of lib/stdio.c: the parsing of a conversion, the formatting of   *)
(* integers and strings, output into a buffer of limited size, and the     *)
(* lines of hex_dump.  A format is a sequence of one-character strings; a  *)
(* number in it stands for its decimal digits.                             *)
(***************************************************************************)
EXTENDS Integers, SequencesExt

CONSTANTS BufSize,     \* size of the buffer for digits, 64 in the code
          PerLine      \* bytes in a line of hex_dump, 16 in the code

MINUS == "-"
PLUS == "+"
SPACE == " "
POUND == "#"
ZERO == "0"
GROUP == "'"
Flag == {MINUS, PLUS, SPACE, POUND, ZERO, GROUP}

Digits == <<"0", "1", "2", "3", "4", "5", "6", "7", "8", "9", "a", "b", "c", "d", "e", "f">>
base_d == [base |-> 10, x |-> "", group |-> 3]
base_o == [base |-> 8, x |-> "", group |-> 3]
base_x == [base |-> 16, x |-> "x", group |-> 4]

-----------------------------------------------------------------------------
(* parse_conversion: FLAGS are the flag characters, WIDTH and PREC what     *)
(* follows them, -1 for no precision given (or a negative one from `*').    *)
WithoutFlags(flags, width, prec) ==
  {f \in flags : /\ f = ZERO => MINUS \notin flags /\ prec < 0
                 /\ f = SPACE => PLUS \notin flags}

parse_conversion(flags, width, prec) ==
  [flags |-> WithoutFlags(flags, width, prec) \cup (IF width < 0 THEN {MINUS} ELSE {}),
   width |-> IF width < 0 THEN -width ELSE width,
   precision |-> IF prec < 0 THEN -1 ELSE prec]

output_dup(ch, cnt) == [i \in 1..(IF cnt > 0 THEN cnt ELSE 0) |-> ch]

RECURSIVE Accumulate(_, _, _, _)
(* The digits of VALUE, least significant first.                            *)
GroupBefore(n, group) == n > 0 /\ n % group = 0
Accumulate(value, b, grouped, n) ==
  IF value = 0 THEN <<>>
  ELSE (IF grouped /\ GroupBefore(n, b.group) THEN <<",">> ELSE <<>>)
       \o <<Digits[(value % b.base) + 1]>> \o Accumulate(value \div b.base, b, grouped, n + 1)

Sign(is_signed, negative, flags) ==
  CASE ~is_signed -> <<>>
    [] is_signed /\ negative -> <<"-">>
    [] is_signed /\ ~negative /\ PLUS \in flags -> <<"+">>
    [] is_signed /\ ~negative /\ PLUS \notin flags /\ SPACE \in flags -> <<" ">>
    [] OTHER -> <<>>

(* The contents of BUF: digits, zeros for the precision, and the zero that  *)
(* # asks for in base 8.                                                    *)
Buffer(value, b, c) ==
  LET digits == Accumulate(value, b, GROUP \in c.flags, 0)
      precision == IF c.precision < 0 THEN 1 ELSE c.precision
      full == Min({precision, BufSize - 1})
      padded == digits \o output_dup("0", full - Len(digits))
      octal == POUND \in c.flags /\ b.base = 8 /\ (padded = <<>> \/ Last(padded) # "0")
IN  padded \o (IF octal THEN <<"0">> ELSE <<>>)

format_integer(value, is_signed, negative, b, c) ==
  LET sign == Sign(is_signed, negative, c.flags)
      x == IF POUND \in c.flags /\ value # 0 /\ b.x # "" THEN <<"0", b.x>> ELSE <<>>
      buf == Buffer(value, b, c)
      pad_cnt == c.width - Len(buf) - Len(x) - Len(sign)
  IN  (IF {MINUS, ZERO} \cap c.flags = {} THEN output_dup(" ", pad_cnt) ELSE <<>>)
      \o sign \o x
      \o (IF ZERO \in c.flags THEN output_dup("0", pad_cnt) ELSE <<>>)
      \o Reverse(buf)
      \o (IF MINUS \in c.flags THEN output_dup(" ", pad_cnt) ELSE <<>>)

format_string(s, c) ==
  LET shown == IF c.precision < 0 THEN s ELSE SubSeq(s, 1, Min({c.precision, Len(s)}))
      pad == output_dup(" ", c.width - Len(shown))
  IN  IF MINUS \in c.flags THEN shown \o pad ELSE pad \o shown

Base(conversion) ==
  CASE conversion = "o" -> base_o [] conversion \in {"x", "p"} -> base_x [] OTHER -> base_d

(* __vprintf on one conversion, of the number A or the string STR.          *)
vprintf(conversion, a, str, c) ==
  LET b == Base(conversion)
  IN  CASE conversion = "d" -> format_integer(IF a < 0 THEN -a ELSE a, TRUE, a < 0, b, c)
        [] conversion \in {"u", "o", "x"} -> format_integer(a, FALSE, FALSE, b, c)
        [] conversion = "p" -> format_integer(a, FALSE, FALSE, b, [c EXCEPT !.flags = {POUND}])
        [] conversion = "s" -> format_string(str, c)
        [] OTHER -> <<"<", "<", "n", "o">>

-----------------------------------------------------------------------------
(* vsnprintf: the position, the length so far and the buffer; "." is a byte *)
(* that was not written, "0" stands for the null byte.                      *)
vsnprintf_helper_Over(aux, ch, max) ==
  IF aux.length <= max
  THEN [p |-> aux.p + 1, length |-> aux.length + 1, buf |-> [aux.buf EXCEPT ![aux.p] = ch]]
  ELSE [aux EXCEPT !.length = @ + 1]
vsnprintf_helper(aux, ch, max) ==
  IF aux.length < max
  THEN [p |-> aux.p + 1, length |-> aux.length + 1, buf |-> [aux.buf EXCEPT ![aux.p] = ch]]
  ELSE [aux EXCEPT !.length = @ + 1]

vsnprintf(buf, buf_size, out) ==
  LET max == IF buf_size > 0 THEN buf_size - 1 ELSE 0
      aux == FoldLeft(LAMBDA a, ch : vsnprintf_helper(a, ch, max),
                      [p |-> 1, length |-> 0, buf |-> buf], out)
  IN  [buf |-> IF buf_size > 0 THEN [aux.buf EXCEPT ![aux.p] = "NUL"] ELSE aux.buf,
       length |-> aux.length]

(* hex_dump: the lines, each with its offset, the columns left blank before *)
(* the bytes, and the number of bytes.                                      *)
RECURSIVE hex_dump(_, _)
hex_dump(ofs, size) ==
  LET start == ofs % PerLine
      end == IF PerLine - start > size THEN start + size ELSE PerLine
  IN  IF size = 0 THEN <<>>
      ELSE <<[ofs |-> (ofs \div PerLine) * PerLine, blank |-> start, n |-> end - start]>>
           \o hex_dump(ofs + (end - start), size - (end - start))

-----------------------------------------------------------------------------
(* What they are for.                                                      *)

DigitValue(ch) == (CHOOSE i \in DOMAIN Digits : Digits[i] = ch) - 1
Numeral(out, b) == SelectSeq(out, LAMBDA ch : ch \in {Digits[i] : i \in 1..b.base})
Read(out, b) == FoldLeft(LAMBDA v, ch : v * b.base + DigitValue(ch), 0, Numeral(out, b))
Rank(out, i) == Cardinality({j \in i + 1..Len(out) : out[j] \in Range(Digits)})

(* For every value, base, width, precision and set of flags the digits fit  *)
(* in the buffer; the output is as wide as asked, and wider only if the     *)
(* number needs it; it reads as the number; it has a minus exactly for a    *)
(* negative one; padding is on one side only; commas separate full groups.  *)
(* (A negative width given with `*' together with the flag 0 is left out:   *)
(* parse_conversion drops the 0 of a minus flag before it sees the width.)  *)
FormatRight(conversion, a, flags, width, prec) ==
  LET c == parse_conversion(flags, width, prec)
      b == Base(conversion)
      value == IF a < 0 THEN -a ELSE a
      out == vprintf(conversion, a, <<>>, c)
      bare == vprintf(conversion, a, <<>>, [c EXCEPT !.width = 0])
      blanks == {i \in DOMAIN out : out[i] = " "}
      commas == {i \in DOMAIN out : out[i] = ","}
  IN  ~(width < 0 /\ ZERO \in flags) =>
      /\ Len(Buffer(value, b, c)) <= BufSize
      /\ Len(out) = Max({Len(bare), c.width})
      /\ Read(out, b) = value
      /\ ("-" \in Range(out)) = (a < 0)
      /\ c.precision > 0 =>
           Len(Numeral(out, b)) + Cardinality(commas) >= Min({c.precision, BufSize - 1})
      /\ SPACE \in flags \/ value = 0 \/ ~{1, Len(out)} \subseteq blanks
      /\ \A i \in commas : /\ i > 1 /\ out[i - 1] \in Range(Digits)
                           /\ Rank(out, i) > 0 /\ Rank(out, i) % b.group = 0
      /\ GROUP \in flags /\ conversion # "p" /\ value >= b.base^b.group => commas # {}

(* A string is cut to the precision and padded to the width on one side.   *)
TextRight(str, flags, width, prec) ==
  LET c == parse_conversion(flags, width, prec)
      out == vprintf("s", 0, str, c)
      shown == SelectSeq(out, LAMBDA ch : ch # " ")
  IN  /\ shown = SubSeq(str, 1, IF prec < 0 THEN Len(str) ELSE Min({prec, Len(str)}))
      /\ Len(out) = Max({Len(shown), c.width})
      /\ shown # <<>> => out[IF MINUS \in c.flags THEN 1 ELSE Len(out)] # " "

(* Output into a buffer stays within its size, always ends it, keeps as    *)
(* much of the text as fits, and returns the length of all of it.          *)
BuffersRight(out, buf_size) ==
  LET old == [i \in 1..Len(out) + 2 |-> "."]
      r == vsnprintf(old, buf_size, out)
      kept == Min({Len(out), buf_size - 1})
  IN  /\ r.length = Len(out)
      /\ buf_size > 0 => SubSeq(r.buf, 1, kept + 1) = Append(SubSeq(out, 1, kept), "NUL")
      /\ \A i \in DOMAIN old : i > buf_size => r.buf[i] = "."

(* hex_dump shows every byte once, at the offset and column of its address.*)
DumpsRight(ofs, size) ==
  LET lines == hex_dump(ofs, size)
      Shown(l) == {l.ofs + l.blank + i : i \in 0..l.n - 1}
  IN  /\ UNION {Shown(lines[i]) : i \in DOMAIN lines} = ofs..ofs + size - 1
      /\ \A i \in DOMAIN lines : /\ lines[i].ofs % PerLine = 0
                                 /\ lines[i].blank + lines[i].n <= PerLine
                                 /\ i > 1 => lines[i].ofs = lines[i - 1].ofs + PerLine
==============================================================================
