------------------------------- MODULE Keyboard -------------------------------
(* The keyboard driver (devices/kbd.c): scancodes become the state of the   *)
(* shift keys, or characters for the input buffer.  Characters are their    *)
(* ASCII codes.  The buffer is the one of Serial, here it is full or not.   *)
EXTENDS Integers, Sequences, FiniteSets

CONSTANTS Plain,        \* scancodes of the keys that are not shift keys
          NoChar        \* no character was put in the buffer

VARIABLES shift_state,  \* the variables left_shift ... right_ctrl
          caps_lock,
          rebooted,     \* shutdown_reboot was called
          held,         \* history: the keys that are down
          toggles,      \* history: presses of Caps Lock, modulo 2
          pressed,      \* history: the key of the last interrupt, if a press
          typed         \* history: what the last interrupt put in the buffer

kbdVars == <<shift_state, caps_lock, rebooted, held, toggles, pressed, typed>>

CAPS == 58              \* 0x3a
DEL == 127
PREFIX == 57344         \* 0xe000

(* The table of shift keys: the scancode of each state variable.            *)
shift_keys ==
  [left_shift |-> 42, right_shift |-> 54, left_alt |-> 56, right_alt |-> PREFIX + 56,
   left_ctrl |-> 29, right_ctrl |-> PREFIX + 29]
ShiftCodes == {shift_keys[v] : v \in DOMAIN shift_keys}
Code == Plain \cup ShiftCodes \cup {CAPS}

Row(first, chars) == [first_scancode |-> first, chars |-> chars]

invariant_keymap ==
  << Row(1, <<27>>), Row(14, <<8>>),
     Row(15, <<9, 81, 87, 69, 82, 84, 89, 85, 73, 79, 80>>),    \* Tab, QWERTYUIOP
     Row(28, <<13>>),
     Row(30, <<65, 83, 68, 70, 71, 72, 74, 75, 76>>),           \* ASDFGHJKL
     Row(44, <<90, 88, 67, 86, 66, 78, 77>>),                   \* ZXCVBNM
     Row(55, <<42>>), Row(57, <<32>>), Row(83, <<DEL>>) >>

unshifted_keymap ==
  << Row(2, <<49, 50, 51, 52, 53, 54, 55, 56, 57, 48, 45, 61>>),  \* 1234567890-=
     Row(26, <<91, 93>>), Row(39, <<59, 39, 96>>), Row(43, <<92>>),
     Row(51, <<44, 46, 47>>) >>

shifted_keymap ==
  << Row(2, <<33, 64, 35, 36, 37, 94, 38, 42, 40, 41, 95, 43>>),  \* !@#$%^&*()_+
     Row(26, <<123, 125>>), Row(39, <<58, 34, 126>>), Row(43, <<124>>),
     Row(51, <<60, 62, 63>>) >>

(* The first row that has the scancode gives the character.                 *)
InRow(r, code) == code >= r.first_scancode /\ code < r.first_scancode + Len(r.chars)
RowsOf(k, code) == {i \in DOMAIN k : InRow(k[i], code)}
map_key(k, code) ==
  IF RowsOf(k, code) = {} THEN NoChar
  ELSE LET i == CHOOSE j \in RowsOf(k, code) : \A l \in RowsOf(k, code) : j <= l
       IN k[i].chars[code - k[i].first_scancode + 1]

tolower(c) == IF c \in 65..90 THEN c + 32 ELSE c

shift == shift_state.left_shift \/ shift_state.right_shift
alt == shift_state.left_alt \/ shift_state.right_alt
ctrl == shift_state.left_ctrl \/ shift_state.right_ctrl

(* The character of a key, before Ctrl, Caps Lock and Alt.                  *)
Mapped(code) ==
  IF map_key(invariant_keymap, code) # NoChar THEN map_key(invariant_keymap, code)
  ELSE map_key(IF shift THEN shifted_keymap ELSE unshifted_keymap, code)

(* Ctrl overrides Shift; Alt sets the high bit.                             *)
Modified(c) ==
  (IF ctrl /\ c >= 64 /\ c < 96 THEN c - 64 ELSE IF shift = caps_lock THEN tolower(c) ELSE c)
  + (IF alt THEN 128 ELSE 0)

-----------------------------------------------------------------------------
(* keyboard_interrupt: Caps Lock, then ordinary characters, then the table  *)
(* of shift keys.  full says whether the input buffer has no room.          *)
CapsLock(code, release) ==
  /\ code = CAPS
  /\ caps_lock' = (caps_lock # ~release)
  /\ typed' = NoChar
  /\ UNCHANGED <<shift_state, rebooted>>

Character(code, release, full) ==
  /\ code # CAPS /\ Mapped(code) # NoChar
  /\ LET reboot == ~release /\ Mapped(code) = DEL /\ ctrl /\ alt IN
     /\ rebooted' = reboot
     /\ typed' = IF release \/ reboot \/ full THEN NoChar ELSE Modified(Mapped(code))
  /\ UNCHANGED <<shift_state, caps_lock>>

ShiftKey(code, release) ==
  /\ code # CAPS /\ Mapped(code) = NoChar
  /\ shift_state' = [v \in DOMAIN shift_keys |->
                       IF shift_keys[v] = code THEN ~release ELSE shift_state[v]]
  /\ typed' = NoChar
  /\ UNCHANGED <<caps_lock, rebooted>>

keyboard_interrupt(code, release, full) ==
  CapsLock(code, release) \/ Character(code, release, full) \/ ShiftKey(code, release)

(* The keyboard reports the press of a key, again while it is held, and its *)
(* release.  One key besides the shift keys is down at a time.              *)
Press(code) ==
  /\ ~rebooted
  /\ code \in ShiftCodes \/ held \subseteq ShiftCodes \cup {code}
  /\ held' = held \cup {code}
  /\ toggles' = IF code = CAPS THEN 1 - toggles ELSE toggles
  /\ pressed' = {code}
  /\ \E full \in BOOLEAN : keyboard_interrupt(code, FALSE, full)

Release(code) ==
  /\ ~rebooted /\ code \in held
  /\ held' = held \ {code}
  /\ pressed' = {}
  /\ UNCHANGED toggles
  /\ keyboard_interrupt(code, TRUE, FALSE)

KbdInit ==
  /\ shift_state = [v \in DOMAIN shift_keys |-> FALSE]
  /\ caps_lock = FALSE /\ rebooted = FALSE
  /\ held = {} /\ toggles = 0 /\ pressed = {} /\ typed = NoChar

KbdNext == \E code \in Code : Press(code) \/ Release(code)

-----------------------------------------------------------------------------
Held(v, w) == {shift_keys[v], shift_keys[w]} \cap held # {}
Letter(c) == c \in 65..90 \cup 97..122

(* The characters a key may give with the keys that are down: a letter is a *)
(* control character with Ctrl and otherwise a capital when just one of     *)
(* Shift and Caps Lock is on; Alt adds 128.                                 *)
Wanted(c) ==
  LET base == typed % 128 IN
  /\ (typed >= 128) = Held("left_alt", "right_alt")
  /\ CASE Held("left_ctrl", "right_ctrl") /\ c \in 64..95 -> base = c % 32
       [] ~Held("left_ctrl", "right_ctrl") /\ Letter(c) ->
            base % 32 = c % 32 /\ Letter(base)
            /\ (base < 96) = (Held("left_shift", "right_shift") # (toggles = 1))
       [] OTHER -> base = c

(* After any presses and releases the variables of the shift keys are those *)
(* of the keys that are down, what was typed is what the keys ask for, and  *)
(* Ctrl+Alt+Del reboots instead of being typed.                             *)
KeysRight ==
  /\ \A v \in DOMAIN shift_keys : shift_state[v] = (shift_keys[v] \in held)
  /\ caps_lock = (toggles = 1)
  /\ typed # NoChar => \E code \in pressed : Wanted(Mapped(code))
  /\ rebooted <=> \E code \in pressed : Mapped(code) = DEL
                     /\ Held("left_ctrl", "right_ctrl") /\ Held("left_alt", "right_alt")

(* Every printable character has a key, and no two tables claim one key.    *)
KeymapsComplete ==
  LET inv == {c \in 1..88 : map_key(invariant_keymap, c) # NoChar}
      uns == {c \in 1..88 : map_key(unshifted_keymap, c) # NoChar}
      shf == {c \in 1..88 : map_key(shifted_keymap, c) # NoChar}
      chars == {map_key(invariant_keymap, c) : c \in inv}
               \cup {map_key(unshifted_keymap, c) : c \in uns}
               \cup {map_key(shifted_keymap, c) : c \in shf}
  IN /\ uns = shf /\ inv \cap uns = {}
     /\ 32..126 \subseteq chars \cup {tolower(c) : c \in chars}
==============================================================================
