------------------------------ MODULE Strings -------------------------------
(***************************************************************************)
(* Formatted output: k_vprintf_internal() and itoa() of                    *)
(* core/strings_common.c. One item of the format (a character, or a        *)
(* percent with the character after it) is one step.                       *)
(*                                                                         *)
(* A character is a string of length one, a number its digits. A format    *)
(* does not end in a lone percent: the code would go on reading behind it. *)
(***************************************************************************)
EXTENDS Integers, Sequences

CONSTANTS
    IntMod,    \* number of values of an int: 2^32
    powers,    \* the table of powers of ten, largest first
    Prints     \* <<format, arguments>> considered

ASSUME IntModAssumption == IntMod \in Nat \ {0} /\ IntMod % 2 = 0
ASSUME PowersAssumption ==
    /\ powers \in Seq(Nat \ {0}) /\ powers # <<>> /\ powers[Len(powers)] = 1
    /\ \A i \in 2..Len(powers) : powers[i - 1] = 10 * powers[i]
    /\ IntMod <= 10 * powers[1]

Ints == -(IntMod \div 2)..(IntMod \div 2 - 1)
OneNumber == {<<"%", "d">>, <<"%", "x">>}   \* formats of a single conversion
ASSUME PrintsAssumption ==
    \A c \in Prints : c[1] \in OneNumber => \E v \in Ints : c[2] = <<v>>

VARIABLES
    printing,   \* k_vprintf_internal() is running
    fmt, args,  \* what is left of the format and of the arguments
    out,        \* what putc_func was given
    asked       \* history: format and arguments of the call

pvars == <<printing, fmt, args, out, asked>>

PrintIdle ==
    /\ printing = FALSE
    /\ fmt = <<>> /\ args = <<>> /\ out = <<>> /\ asked = <<>>

-----------------------------------------------------------------------------
(* itoa() in base 10: what is left of value after each power was taken     *)
(* away as often as it goes, and the digits that gives. A digit has been   *)
(* written once `started` is set.                                          *)
Shown_NoZeros(count, started, i) == count > 0 \/ i = Len(powers)
Shown(count, started, i) == count > 0 \/ started \/ i = Len(powers)

Left10(value) ==
    LET left[i \in 0..Len(powers)] == IF i = 0 THEN value ELSE left[i - 1] % powers[i]
    IN  left

Count(value, i) == Left10(value)[i - 1] \div powers[i]

itoa10(value) ==
    LET str[i \in 0..Len(powers)] ==
            IF i = 0 THEN <<>>
            ELSE IF Shown(Count(value, i), str[i - 1] # <<>>, i)
                 THEN Append(str[i - 1], Count(value, i))
                 ELSE str[i - 1]
    IN  str[Len(powers)]

(* In base 16: the digits come out last first, through temp.               *)
itoa16(value) ==
    LET temp[v \in 0..value] == IF v = 0 THEN <<>> ELSE Append(temp[v \div 16], v % 16)
    IN  IF value = 0 THEN <<0>> ELSE temp[value]

(* An int as the unsigned int of the same bits, and back.                  *)
Unsigned(v) == v % IntMod
Signed(v) == IF v % IntMod < IntMod \div 2 THEN v % IntMod ELSE (v % IntMod) - IntMod

(* case 'd': -d of the smallest int is itself.                             *)
Decimal(d) == IF d < 0 THEN <<"-">> \o itoa10(Unsigned(Signed(-d)))
                       ELSE itoa10(Unsigned(d))

-----------------------------------------------------------------------------
(* A pointer below 0x100 is no format: a message goes to the UART, nothing *)
(* to putc_func.                                                           *)
INVALID == <<"invalid">>

k_vprintf_internal(f, a) ==
    /\ ~printing
    /\ printing' = TRUE
    /\ fmt' = IF f = INVALID THEN <<>> ELSE f
    /\ args' = a
    /\ out' = <<>>
    /\ asked' = <<f, a>>

Conversions == {"s", "d", "x", "c"}

(* What an argument becomes, by the letter after the percent.              *)
Converted(letter, a) ==
    CASE letter = "s" -> a
      [] letter = "d" -> Decimal(a)
      [] letter = "x" -> itoa16(Unsigned(a))
      [] letter = "c" -> <<a>>

Puts(s, f, a) == out' = out \o s /\ fmt' = f /\ args' = a

print_char ==
    /\ printing /\ fmt # <<>> /\ Head(fmt) # "%"
    /\ Puts(<<Head(fmt)>>, Tail(fmt), args)
    /\ UNCHANGED <<printing, asked>>

print_argument ==
    /\ printing /\ Len(fmt) >= 2 /\ Head(fmt) = "%"
    /\ fmt[2] \in Conversions
    /\ Puts(Converted(fmt[2], Head(args)), Tail(Tail(fmt)), Tail(args))
    /\ UNCHANGED <<printing, asked>>

(* Any other letter is printed with its percent, and takes no argument.    *)
print_unknown ==
    /\ printing /\ Len(fmt) >= 2 /\ Head(fmt) = "%"
    /\ fmt[2] \notin Conversions
    /\ Puts(<<"%", fmt[2]>>, Tail(Tail(fmt)), args)
    /\ UNCHANGED <<printing, asked>>

print_end ==
    /\ printing /\ fmt = <<>>
    /\ printing' = FALSE
    /\ args' = <<>> /\ out' = <<>> /\ asked' = <<>>
    /\ UNCHANGED fmt

PrintTurn == print_char \/ print_argument \/ print_unknown \/ print_end

-----------------------------------------------------------------------------
(* The number a row of digits stands for.                                  *)
Value(digits, base) ==
    LET v[i \in 0..Len(digits)] == IF i = 0 THEN 0 ELSE v[i - 1] * base + digits[i]
    IN  v[Len(digits)]

(* A format of one conversion prints digits that read back as the          *)
(* argument, without leading zeros: zeros inside and at the end, the       *)
(* smallest int and the numbers that only fit an unsigned int included     *)
(* (strings_common.c:24-45, 73-82).                                        *)
PrintsNumber ==
    printing /\ fmt = <<>> /\ asked[1] \in OneNumber =>
        LET decimal == asked[1] = <<"%", "d">>
            base == IF decimal THEN 10 ELSE 16
            v == asked[2][1]
            digits == IF decimal /\ v < 0 THEN Tail(out) ELSE out
        IN  /\ decimal /\ v < 0 => out[1] = "-"
            /\ digits \in Seq(0..(base - 1))
            /\ Len(digits) > 1 => digits[1] # 0
            /\ Value(digits, base) = IF ~decimal THEN Unsigned(v) ELSE IF v < 0 THEN -v ELSE v
=============================================================================
