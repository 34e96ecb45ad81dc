------------------------------ MODULE Command ------------------------------
(***************************************************************************)
(* What the shell does with a line (shell_execute in kernel/shell/shell.c):*)
(* it cuts the line into words in place, finds the command and, for        *)
(* hexdump, reads two numbers and prints rows of memory; and the ways the  *)
(* system writes numbers (kernel/kernel.c, kernel/net.h).                  *)
(*                                                                         *)
(* A line is a sequence of characters, and commands have names of one      *)
(* letter: e(cho), h(exdump), r(eboot or shutdown); all others only print. *)
(* The names of the specification begin with C, so that a module can       *)
(* extend Shell too.                                                       *)
(***************************************************************************)
EXTENDS Integers, Sequences, SequencesExt

CONSTANTS
    Lines,     \* lines that may be typed
    MaxArgs,   \* SHELL_MAX_ARGS
    HexDigits, \* digits of a 64-bit number (16)
    Row        \* bytes per row of a dump (16)

Nul == "NUL"
Space == " "

\* 2^64: there are 16 to the power of HexDigits numbers.
W == LET power[n \in 0..HexDigits] == IF n = 0 THEN 1 ELSE 16 * power[n - 1]
     IN power[HexDigits]

ASSUME CommandAssumption ==
    /\ MaxArgs \in Nat \ {0} /\ HexDigits \in Nat \ {0}
    /\ Row \in 1..W /\ W % Row = 0
    /\ \A l \in Lines : l \in Seq(STRING) /\ l # <<>> /\ Nul \notin Range(l)

Digits == <<"0", "1", "2", "3", "4", "5", "6", "7", "8", "9", "A", "B", "C", "D", "E", "F">>
Lower == <<"a", "b", "c", "d", "e", "f">>

VARIABLES
    typed,   \* history: the line as typed
    line,    \* the buffer, cut up in place
    p,       \* position in it
    argv,    \* where the words start
    pc,      \* "split", "execute", "dump", "done", "stopped"
    addr, len, offset,  \* variables of cmd_hexdump
    covered  \* history: offsets printed

dump == <<addr, len, offset, covered>>
cvars == <<typed, line, p, argv, pc, dump>>

-----------------------------------------------------------------------------
(***************************************************************************)
(* Words.                                                                  *)
(***************************************************************************)

IsSpace(c) == c = Space

Spaces == {j \in DOMAIN line : IsSpace(line[j])}
Zeros == {j \in DOMAIN line : line[j] = Nul}

\* The first of some positions from i on, or the end of the line.
Find(positions, i) == Min({j \in positions : j >= i} \cup {Len(line) + 1})

\* A word reaches up to the zero behind it.
Word(i) == SubSeq(line, argv[i], Find(Zeros, argv[i]) - 1)

\* Fault: the character behind a word is not overwritten.
CutNot(end) == line

Cut(end) == IF end <= Len(line) THEN [line EXCEPT ![end] = Nul] ELSE line

\* One word is cut off, if there is one and argv has room.
NextWord ==
    LET start == Find(DOMAIN line \ Spaces, p)
        end == Find(Spaces, start)
    IN /\ pc = "split"
       /\ IF Len(argv) < MaxArgs /\ start <= Len(line)
          THEN /\ argv' = Append(argv, start) /\ line' = Cut(end) /\ p' = end + 1
               /\ UNCHANGED pc
          ELSE pc' = "execute" /\ UNCHANGED <<argv, line, p>>
       /\ UNCHANGED <<typed, dump>>

-----------------------------------------------------------------------------
(***************************************************************************)
(* Numbers.                                                                *)
(***************************************************************************)

\* Fault: capital letters are not digits.
DigitOfLower(c) ==
    IF c \in Range(Lower) THEN 9 + SelectInSeq(Lower, LAMBDA d : d = c)
    ELSE IF SelectInSeq(Digits, LAMBDA d : d = c) \in 1..10
         THEN SelectInSeq(Digits, LAMBDA d : d = c) - 1 ELSE W

\* The value of a digit, W if it is none.
DigitOf(c) ==
    IF c \in Range(Lower) THEN 9 + SelectInSeq(Lower, LAMBDA d : d = c)
    ELSE IF c \in Range(Digits) THEN SelectInSeq(Digits, LAMBDA d : d = c) - 1 ELSE W

\* parse_uint: decimal, or hexadecimal behind 0x; it does not notice overflow.
ParseUint(s) ==
    LET hex == Len(s) >= 2 /\ s[1] = "0" /\ s[2] \in {"x", "X"}
        base == IF hex THEN 16 ELSE 10
        digits == IF hex THEN SubSeq(s, 3, Len(s)) ELSE s
        ok == s # <<>> /\ \A i \in DOMAIN digits : DigitOf(digits[i]) < base
        value[i \in 0..Len(digits)] ==
          IF i = 0 THEN 0 ELSE (value[i - 1] * base + DigitOf(digits[i])) % W
    IN [ok |-> ok, value |-> IF ok THEN value[Len(digits)] ELSE 0]

\* print_dec.
PrintDec(num) ==
    LET dec[n \in 0..num] == IF n < 10 THEN <<Digits[n + 1]>>
                             ELSE Append(dec[n \div 10], Digits[(n % 10) + 1])
    IN dec[num]

\* print_hex: all digits, without leading zeros except the last.
PrintHex(num) ==
    LET shifted[i \in 0..HexDigits] == IF i = 0 THEN num ELSE shifted[i - 1] \div 16
        all == [i \in 1..HexDigits |-> Digits[(shifted[HexDigits - i] % 16) + 1]]
        first == CHOOSE i \in 1..HexDigits : /\ i = HexDigits \/ all[i] # "0"
                                             /\ \A j \in 1..(i - 1) : all[j] = "0"
    IN <<"0", "x">> \o SubSeq(all, first, HexDigits)

\* One octet of ip_to_string.
IpOctet(octet) ==
    LET rest == octet % 100
    IN (IF octet >= 100 THEN <<Digits[(octet \div 100) + 1]>> ELSE <<>>)
       \o (IF rest >= 10 THEN <<Digits[(rest \div 10) + 1]>> ELSE <<>>)
       \o <<Digits[(rest % 10) + 1]>>

-----------------------------------------------------------------------------
(***************************************************************************)
(* Commands.                                                               *)
(***************************************************************************)

\* hexdump: usage, invalid numbers, or a dump.
HexdumpStart ==
    /\ pc = "execute" /\ argv # <<>> /\ Word(1) = <<"h">>
    /\ IF Len(argv) < 3 THEN pc' = "done" /\ UNCHANGED <<addr, len>>
       ELSE LET a == ParseUint(Word(2))
                l == ParseUint(Word(3))
            IN IF a.ok /\ l.ok /\ l.value # 0
               THEN pc' = "dump" /\ addr' = a.value /\ len' = l.value
               ELSE pc' = "done" /\ UNCHANGED <<addr, len>>
    /\ UNCHANGED <<typed, line, p, argv, offset, covered>>

\* Fault: the last row is always full.
RowFull == {offset + i : i \in 0..(Row - 1)}

\* The offsets of the current row.
RowOffsets == {offset + i : i \in {j \in 0..(Row - 1) : offset + j < len}}

\* One row of the dump, or its end.
HexdumpRow ==
    /\ pc = "dump"
    /\ IF offset < len
       THEN covered' = covered \cup RowOffsets /\ offset' = (offset + Row) % W /\ UNCHANGED pc
       ELSE pc' = "done" /\ UNCHANGED <<covered, offset>>
    /\ UNCHANGED <<typed, line, p, argv, addr, len>>

\* reboot and shutdown do not come back.
Stop ==
    /\ pc = "execute" /\ argv # <<>> /\ Word(1) = <<"r">>
    /\ pc' = "stopped"
    /\ UNCHANGED <<typed, line, p, argv, dump>>

\* No word at all, echo, the commands that print, or an unknown one.
PrintOnly ==
    /\ pc = "execute" /\ (argv # <<>> => Word(1) \notin {<<"h">>, <<"r">>})
    /\ pc' = "done"
    /\ UNCHANGED <<typed, line, p, argv, dump>>

\* shell_run waits for the next line, or the machine has stopped.
Finished == pc \in {"done", "stopped"} /\ UNCHANGED cvars

CInit ==
    /\ typed \in Lines /\ line = typed /\ p = 1 /\ argv = <<>> /\ pc = "split"
    /\ addr = 0 /\ len = 0 /\ offset = 0 /\ covered = {}

CNext == NextWord \/ HexdumpStart \/ HexdumpRow \/ Stop \/ PrintOnly \/ Finished

CSpec == CInit /\ [][CNext]_cvars

-----------------------------------------------------------------------------
(***************************************************************************)
(* Properties.                                                             *)
(***************************************************************************)

\* Where words start in the line as typed.
WordStarts == {i \in DOMAIN typed : typed[i] # Space /\ (i = 1 \/ typed[i - 1] = Space)}

\* When the command runs, argv holds the words of the line in order, as many
\* as fit, and each reads as it was typed, up to the next space: cutting the
\* line in place has damaged none.
WordsFound ==
    pc # "split" =>
      /\ Range(argv) \subseteq WordStarts
      /\ \A i \in 1..(Len(argv) - 1) : argv[i] < argv[i + 1]
      /\ \A s \in WordStarts \ Range(argv) : Len(argv) = MaxArgs /\ s > argv[MaxArgs]
      /\ \A i \in DOMAIN argv :
            LET end == argv[i] + Len(Word(i))
            IN /\ Word(i) = SubSeq(typed, argv[i], end - 1) /\ Space \notin Range(Word(i))
               /\ end = Len(typed) + 1 \/ typed[end] = Space

At == (addr + offset) % W

\* An address that hexdump prints, or print_dec would, is read back by
\* parse_uint as the same number.
NumbersRoundTrip ==
    pc = "dump" => \A s \in {PrintHex(At), PrintDec(At)} : ParseUint(s) = [ok |-> TRUE, value |-> At]

\* A dump covers exactly the bytes asked for, whatever remains for the last
\* row.  (A length that leaves no room for one more row below 2^64 never ends.)
DumpExact ==
    len <= W - Row =>
      /\ covered \subseteq 0..(len - 1)
      /\ pc = "done" /\ len > 0 => covered = 0..(len - 1)

\* "Format IP address to string": the octet in decimal.
OctetIsDecimal == pc = "dump" /\ At <= 255 => IpOctet(At) = PrintDec(At)
=============================================================================
