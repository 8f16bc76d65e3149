------------------------------ MODULE MCLibrary ------------------------------
(* The kernel library, the screen and the keyboard, one part at a time:     *)
(* lists, hash tables and keys by sequences of operations, the other        *)
(* functions on every input of a family.                                    *)
EXTENDS LinkedList, Hash, Strings, Stdlib, Stdio, Vga, Keyboard, FileData

VARIABLES part, probe

libVars == <<heap, hashVars, kbdVars, part, probe>>

ListKey == [e \in Elem |-> CASE e = "a" -> 1 [] e = "c" -> 3 [] OTHER -> 2]
EntryKey == [e \in Entry |-> CASE e \in {"a", "e"} -> 1 [] e = "b" -> 2 [] e = "c" -> 3 [] OTHER -> 4]
Hashes == <<5, 1, 2, 7>>
PlainKeys == {1, 3, 8, 12, 16, 26, 30, 39, 43, 50, 52, 57, 59, 83, PREFIX + 83}

(* Two strings, at addresses 0 and 4.                                       *)
Texts(bytes, last) ==
  {m \in [0..last -> bytes] : m[3] = 0 /\ m[last] = 0}
Near == UNION {{2^k - 1, 2^k, 2^k + 1} : k \in 0..15} \cup {300, 12345, 40000, 54321, 65535}
Numbers == {0, 9, 255, 1000}

Idle == part = "none" /\ UNCHANGED <<heap, hashVars, kbdVars>>

UseLists == part' = "list" /\ Idle /\ UNCHANGED probe
ListStep == part = "list" /\ ListNext /\ UNCHANGED <<hashVars, kbdVars, part, probe>>
UseHash == part' = "hash" /\ Idle /\ UNCHANGED probe
HashStep == part = "hash" /\ HashNext /\ UNCHANGED <<heap, kbdVars, part, probe>>
UseKeys == part' = "keys" /\ Idle /\ UNCHANGED probe
KeyStep == part = "keys" /\ KbdNext /\ UNCHANGED <<heap, hashVars, part, probe>>
Search_ == part' = "search" /\ Idle /\ probe' \in {<<m>> : m \in Texts(0..2, 7)}
Copy == part' = "copy" /\ Idle /\ \E m \in Texts(0..1, 8), n \in 0..4 : probe' = <<m, n>>
Sort == part' = "sort" /\ Idle /\ \E n \in 0..5 : \E a \in [1..n -> 1..3] : probe' = a
Divide == part' = "divide" /\ Idle /\ \E n \in Near, d \in Near \ {0} : probe' = <<n, d>>
Atoi == part' = "atoi" /\ Idle /\
  \E s \in {"", "+", "-"}, n \in 1..3 : \E d \in [1..n -> {0, 1, 2, 7, 8, 9}] : probe' = <<s, d>>
Seed == part' = "random" /\ Idle /\ \E x, y \in 0..3 : probe' = random_init(<<x, y>>)
Draw == part = "random" /\ probe' = random_byte(probe).next /\ UNCHANGED <<heap, hashVars, kbdVars, part>>
Format == part' = "format" /\ Idle /\
  \E conv \in {"d", "u", "o", "x", "p"}, f \in SUBSET Flag, w \in {0, 3, 9, -5}, p \in {-1, 0, 2, 9} :
  \E v \in Numbers \cup (IF conv = "d" THEN {-9, -1000} ELSE {}) : probe' = <<conv, v, f, w, p>>
Text == part' = "text" /\ Idle /\
  \E n \in 0..3, f \in SUBSET {MINUS, ZERO}, w \in {0, 2, 5, -4}, p \in {-1, 0, 2} :
     probe' = <<SubSeq(<<"p", "f", "%">>, 1, n), f, w, p>>
Snprintf == part' = "buffer" /\ Idle /\
  \E n \in 0..5 : \E size \in 0..n + 2 : probe' = <<[i \in 1..n |-> Digits[i]], size>>
Dump == part' = "dump" /\ Idle /\ \E o \in 0..9, n \in 0..10 : probe' = <<o, n>>
OldScreen == [y \in 0..ROW_CNT - 1 |-> [x \in 0..COL_CNT - 1 |-> 90 + y]]
Screen == part' = "screen" /\ Idle /\
  \E cp \in 0..COL_CNT * ROW_CNT - 1, n \in 1..5 :
  \E t \in [1..n -> {"char", "LF", "HT", "BS", "CR", "FF", "BEL"}] :
     (n > 3 => cp \in {0, COL_CNT * ROW_CNT - 1}) /\ probe' = <<cp, [i \in 1..n |-> <<t[i], i>>]>>

ReadWrite == part' = "file" /\ Idle /\
  \E length \in 0..7, size \in 0..8, ofs \in 0..8, deny \in {0, 1}, memory \in BOOLEAN :
     probe' = <<[start |-> 1, length |-> length, deny_write_cnt |-> deny], size, ofs, memory>>
Listing == part' = "dir" /\ Idle /\
  \E n \in 0..5 : \E in_use \in [1..n -> BOOLEAN], end \in 0..n : probe' = <<in_use, end>>
OldDisk == [s \in 0..4 |-> [j \in InSector |-> 50 + 10 * s + j]]
NewBytes(n) == [i \in 1..n |-> 100 + i]

LibInit == ListInit /\ HashInit /\ KbdInit /\ part = "none" /\ probe = <<>>
LibNext ==
  \/ UseLists \/ ListStep \/ UseHash \/ HashStep \/ UseKeys \/ KeyStep \/ Search_ \/ Copy \/ Sort \/ Divide \/ Atoi
  \/ ReadWrite \/ Listing \/ Seed \/ Draw \/ Format \/ Text \/ Snprintf \/ Dump \/ Screen
LibSpec == LibInit /\ [][LibNext]_libVars

-----------------------------------------------------------------------------
(* string.c finds, compares, splits and copies exactly, within bounds; the  *)
(* sort, the search, the 64-bit division, atoi and the generator of random  *)
(* numbers are right on every input of the family; inode_read_at and        *)
(* inode_write_at transfer exactly the bytes they count, at any offset and  *)
(* length, and dir_readdir lists every entry once.                          *)
FunctionsRight ==
  /\ part = "search" => SearchesRight(probe[1], 0, 4)
  /\ part = "copy" => CopiesRight(probe[1], 0, 4, probe[2])
  /\ part = "sort" => SortsRight(probe, 0..4)
  /\ part = "divide" => DividesRight(probe[1], probe[2])
  /\ part = "atoi" => AtoiRight(probe[1], probe[2])
  /\ part = "random" => RandomRight(probe)
  /\ part = "file" =>
       /\ ReadsExact(OldDisk, probe[1], probe[2], probe[3], probe[4])
       /\ WritesExact(OldDisk, probe[1], NewBytes(probe[2]), probe[3], probe[4])
       /\ PositionsAdvance(OldDisk, probe[1], NewBytes(probe[2]), probe[3])
  /\ part = "dir" => ListsAll(probe[1], probe[2])

(* printf, snprintf and hex_dump render every value as asked, the screen    *)
(* shows every character where it belongs, and after any presses and        *)
(* releases kbd.c knows the shift keys that are down and puts in the buffer *)
(* the character the keys stand for; every printable one has a key.         *)
TerminalRight ==
  /\ part = "format" => FormatRight(probe[1], probe[2], probe[3], probe[4], probe[5])
  /\ part = "text" => TextRight(probe[1], probe[2], probe[3], probe[4])
  /\ part = "buffer" => BuffersRight(probe[1], probe[2])
  /\ part = "dump" => DumpsRight(probe[1], probe[2])
  /\ part = "screen" => ScreenRight(OldScreen, probe[1], probe[2])
  /\ part = "keys" => KeysRight /\ (held = {} => KeymapsComplete)
==============================================================================
