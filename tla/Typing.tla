-------------------------------- MODULE Typing --------------------------------
(***************************************************************************)
(* From the keys to a command: keyboard_handler (kernel/keyboard.c), the   *)
(* shell's line and the choice of a command (shell_key_handler and         *)
(* shell_exec in kernel/kernel_main.c), and the conversions of numbers and *)
(* words the commands use (kernel/string.c, kernel/fb_console.c).          *)
(*                                                                         *)
(* A character is a string of length one; "" is the zero in a table, and   *)
(* also the end of a text.                                                 *)
(***************************************************************************)
EXTENDS Naturals, SequencesExt

CONSTANTS
    Keys,       \* scancodes of the keys that are typed, without the shift keys
    LineSize,   \* SHELL_BUF_SIZE
    Word        \* 2^64

ASSUME TypingAssumption ==
    Keys \subseteq 0..127 /\ LineSize \in Nat \ {0, 1} /\ Word \in Nat \ {0}

VARIABLES
    down,           \* the shift keys held down
    arrow,          \* an arrow key is held down
    shift_held,
    shell_buf,      \* shell_buf up to shell_len
    meant,          \* history: the line the user meant
    odd             \* history: a shift key went up, or an arrow key down, while a shift key
                    \* was held

typingVars == <<down, arrow, shift_held, shell_buf, meant, odd>>

-----------------------------------------------------------------------------
SC_ESCAPE == 1
SC_BACKSPACE == 14
SC_ENTER == 28
Shifts == {42, 54}

scancode_to_ascii ==
    <<"", "", "1", "2", "3", "4", "5", "6", "7", "8", "9", "0", "-", "=", "", "",
      "q", "w", "e", "r", "t", "y", "u", "i", "o", "p", "[", "]", "", "",
      "a", "s", "d", "f", "g", "h", "j", "k", "l", ";", "'", "GRAVE", "", "\\",
      "z", "x", "c", "v", "b", "n", "m", ",", ".", "/", "", "", "", " ">>
scancode_to_ascii_shift ==
    <<"", "", "!", "@", "#", "$", "%", "^", "&", "*", "(", ")", "_", "+", "", "",
      "Q", "W", "E", "R", "T", "Y", "U", "I", "O", "P", "{", "}", "", "",
      "A", "S", "D", "F", "G", "H", "J", "K", "L", ":", "\"", "~", "", "|",
      "Z", "X", "C", "V", "B", "N", "M", "<", ">", "?", "", "", "", " ">>

\* The character of a key, by whether shift counts as held.
Char(scancode, shift) ==
    CASE scancode = SC_ESCAPE -> "ESC"
      [] scancode = SC_BACKSPACE -> "BS"
      [] scancode = SC_ENTER -> "LF"
      [] scancode >= Len(scancode_to_ascii) -> ""
      [] OTHER -> (IF shift THEN scancode_to_ascii_shift ELSE scancode_to_ascii)[scancode + 1]

TypingTypeOK ==
    /\ down \subseteq Shifts /\ {arrow, shift_held, odd} \subseteq BOOLEAN
    /\ \A line \in {shell_buf, meant} : Len(line) < LineSize

TypingInit ==
    /\ down = {} /\ arrow = FALSE /\ shift_held = FALSE
    /\ shell_buf = <<>> /\ meant = <<>> /\ odd = FALSE

-----------------------------------------------------------------------------
\* mutant: the release of a shift key is not noticed
KeepShift(held) == held
\* Either shift key's release clears the one flag.
Released(held) == FALSE

PressShift(key) ==
    /\ key \notin down /\ down' = down \cup {key}
    /\ shift_held' = TRUE
    /\ UNCHANGED <<arrow, shell_buf, meant, odd>>
ReleaseShift(key) ==
    /\ key \in down /\ down' = down \ {key}
    /\ shift_held' = Released(shift_held)
    /\ odd' = (odd \/ down' # {})
    /\ UNCHANGED <<arrow, shell_buf, meant>>

\* While shift is held the keyboard sends a release of it before an arrow key's code and a
\* press after its release, each behind a byte 0xE0 that the handler takes for the release
\* of some other key (external); the arrow's own code is beyond the tables.
PressArrow ==
    /\ ~arrow /\ arrow' = TRUE
    /\ shift_held' = IF down # {} THEN Released(shift_held) ELSE shift_held
    /\ odd' = (odd \/ down # {})
    /\ UNCHANGED <<down, shell_buf, meant>>
ReleaseArrow ==
    /\ arrow /\ arrow' = FALSE
    /\ shift_held' = (shift_held \/ down # {})
    /\ UNCHANGED <<down, shell_buf, meant, odd>>

\* shell_key_handler: what a character does to the line.
Edited(line, c) ==
    CASE c = "LF" -> <<>>
      [] c = "BS" -> IF line # <<>> THEN Front(line) ELSE line
      [] c = "" -> line
      [] OTHER -> IF Len(line) < LineSize - 1 THEN Append(line, c) ELSE line

PressKey ==
    \E key \in Keys :
        /\ shell_buf' = Edited(shell_buf, Char(key, shift_held))
        /\ meant' = Edited(meant, Char(key, down # {}))
        /\ odd' = (odd /\ ~(key = SC_ENTER /\ down = {} /\ ~arrow))
        /\ UNCHANGED <<down, arrow, shift_held>>

TypingNext ==
    \/ \E key \in Shifts : PressShift(key) \/ ReleaseShift(key)
    \/ PressArrow \/ ReleaseArrow \/ PressKey
TypingSpec == TypingInit /\ [][TypingNext]_typingVars

-----------------------------------------------------------------------------
\* shell_exec: the commands without an argument, which must be the whole line, and those
\* with one, in the order they are tried.
Plain ==
    {<<"c", "l", "e", "a", "r">>, <<"a", "b">>, <<"h", "e", "l", "p">>, <<"m", "e", "m">>,
     <<"h", "e", "a", "p">>, <<"a", "l", "l", "o", "c", "s">>, <<"t", "a", "s", "k", "s">>,
     <<"t", "s", "k", "d", "e", "m", "o">>, <<"m", "u", "l", "t", "i", "s", "t", "o", "p">>,
     <<"p", "l", "a", "y">>, <<"l", "s">>, <<"l", "s", "2">>, <<"u", "p", "t", "i", "m", "e">>,
     <<"r", "e", "b", "o", "o", "t">>}
WithArg ==
    <<<<"a", "l", "l", "o", "c">>, <<"f", "r", "e", "e">>, <<"c", "a", "t">>,
      <<"c", "a", "t", "2">>, <<"e", "x", "e", "c">>, <<"e", "x", "e", "c", "2">>>>

\* The length of the longest prefix of s made of characters of S.
Span(s, S) == CHOOSE n \in 0..Len(s) :
    (\A k \in 1..n : s[k] \in S) /\ (n < Len(s) => s[n + 1] \notin S)
Drop(s, n) == SubSeq(s, n + 1, Len(s))
SkipSpaces(s) == Drop(s, Span(s, {" "}))

\* shell_arg_after: whether word is there, with its argument.
Follows(cmd, word) ==
    IsPrefix(word, cmd) /\ (Len(cmd) = Len(word) \/ cmd[Len(word) + 1] = " ")
shell_arg_after(cmd, word) == SkipSpaces(Drop(cmd, Len(word)))

Unknown == <<>>
Chosen(cmd) ==
    IF cmd \in Plain THEN <<cmd>>
    ELSE IF \E n \in 1..Len(WithArg) : Follows(cmd, WithArg[n])
         THEN LET n == CHOOSE n \in 1..Len(WithArg) :
                       /\ Follows(cmd, WithArg[n])
                       /\ \A k \in 1..(n - 1) : ~Follows(cmd, WithArg[k])
              IN  <<WithArg[n], shell_arg_after(cmd, WithArg[n])>>
         ELSE Unknown

-----------------------------------------------------------------------------
digits == <<"0", "1", "2", "3", "4", "5", "6", "7", "8", "9", "A", "B", "C", "D", "E", "F">>
Decimal == {digits[d + 1] : d \in 0..9}
Lower == <<"a", "b", "c", "d", "e", "f">>
Hexadecimal == Range(digits) \cup Range(Lower)
DigitOf(c) == IF c \in Range(Lower) THEN 9 + (CHOOSE d \in 1..6 : Lower[d] = c)
              ELSE (CHOOSE d \in 1..16 : digits[d] = c) - 1

\* A value without its last n digits, and the digit before them.
Left(val, base, n) ==
    LET left[i \in Nat] == IF i = 0 THEN val ELSE left[i - 1] \div base
    IN  left[n]
Digit(val, base, n) == digits[(Left(val, base, n) % base) + 1]
\* utoa, con_print_dec: digits are taken off the end until nothing is left.
utoa(val, base) ==
    LET count == CHOOSE n \in 1..(val + 1) :
                    Left(val, base, n) = 0 /\ \A m \in 1..(n - 1) : Left(val, base, m) # 0
    IN  [n \in 1..count |-> Digit(val, base, count - n)]
\* con_print_hex, with as many digits as a word has.
HexLength == Len(utoa(Word - 1, 16))
con_print_hex(val) == <<"0", "x">> \o [n \in 1..HexLength |-> Digit(val, 16, HexLength - n)]

\* str_to_dec, str_to_hex: the digits are taken into a word, then only spaces may follow.
Value(s, base) ==
    LET value[k \in 0..Len(s)] ==
            IF k = 0 THEN 0 ELSE (value[k - 1] * base + DigitOf(s[k])) % Word
    IN  value[Len(s)]
Number(s, allowed, base) ==
    LET n == Span(s, allowed)
    IN  [ok |-> n > 0 /\ SkipSpaces(Drop(s, n)) = <<>>, val |-> Value(SubSeq(s, 1, n), base)]
str_to_dec(s) == Number(SkipSpaces(s), Decimal, 10)
str_to_hex(s) ==
    LET t == SkipSpaces(s)
    IN  Number(IF Len(t) > 1 /\ t[1] = "0" /\ t[2] \in {"x", "X"} THEN Drop(t, 2) ELSE t,
               Hexadecimal, 16)

-----------------------------------------------------------------------------
\* The line is what was typed: a character is in upper case just if a shift key was held,
\* and what does not fit is left out, not written elsewhere.  The handler has one flag for
\* two keys, and takes the codes around an arrow key for the shift key's own: after either
\* the line can differ (keyboard.c:41-88).
LineMeant == ~odd => shell_buf = meant /\ shift_held = (down # {})

\* A command is chosen by the whole first word of the line, never by a part of it or by
\* the longer name of another; and every name can be typed (kernel_main.c:308-316,
\* 619-805, keyboard.c:19-35).
Names == Plain \cup Range(WithArg)
CommandsRight ==
    \A name \in Names :
        /\ Range(name) \subseteq Range(scancode_to_ascii)
        /\ \A arg \in {<<>>, <<"7">>, <<"s">>, <<"7", " ", "s">>}, gap \in {0, 1, 2} :
            LET line == name \o [k \in 1..gap |-> " "] \o arg
                word == SubSeq(line, 1, Span(line, Range(scancode_to_ascii) \ {" "}))
            IN  Chosen(line) = IF word \in Range(WithArg) THEN <<word, SkipSpaces(Drop(line, Len(word)))>>
                               ELSE IF line = word /\ word \in Plain THEN <<word>> ELSE Unknown

\* A number that was printed is read back as it was, so "free" takes the address "alloc"
\* printed; and a text is taken for a number just if it is one, for the number it is if a
\* word can hold it and for its last bits otherwise (string.c:83-168, fb_console.c:82-97).
Texts == UNION {[1..n -> {"0", "9", "f", "x", "X", " "}] : n \in 0..4}
\* What a row of digits denotes, by what each digit is worth at its place.
Denoted(s, base) ==
    LET worth[k \in 0..Len(s)] == IF k = 0 THEN 1 ELSE worth[k - 1] * base
        sum[k \in 0..Len(s)] ==
            IF k = 0 THEN 0 ELSE sum[k - 1] + DigitOf(s[k]) * worth[Len(s) - k]
    IN  sum[Len(s)]
Padded(s, t) ==
    \E l, r \in 0..Len(s) : l + r + Len(t) = Len(s) /\
        s = [k \in 1..l |-> " "] \o t \o [k \in 1..r |-> " "]
Inner(s) == {SubSeq(s, m, n) : m, n \in 1..Len(s)} \ {<<>>}
Decimals(s) == {t \in Inner(s) : Range(t) \subseteq Decimal /\ Padded(s, t)}
Hexes(s) == {t \in Inner(s) : Range(t) \subseteq Hexadecimal /\
                (Padded(s, t) \/ \E x \in {"x", "X"} : Padded(s, <<"0", x>> \o t))}
\* The texts are those that denote a number, the value what they denote.
ReadsAs(read, texts, base) ==
    /\ read.ok <=> texts # {}
    /\ \A t \in texts : read.val = Denoted(t, base) % Word
NumbersRight ==
    /\ \A v \in 0..(Word - 1) :
        /\ str_to_dec(utoa(v, 10)) = [ok |-> TRUE, val |-> v]
        /\ str_to_hex(con_print_hex(v)) = [ok |-> TRUE, val |-> v]
    /\ \A s \in Texts :
        ReadsAs(str_to_dec(s), Decimals(s), 10) /\ ReadsAs(str_to_hex(s), Hexes(s), 16)

\* What is typed is what is done: the line, the command chosen and the numbers in it
\* (keyboard.c:41-88, kernel_main.c:619-839, string.c:83-168).
TypingRight == LineMeant /\ CommandsRight /\ NumbersRight
=============================================================================
