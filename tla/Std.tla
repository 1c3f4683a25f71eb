------------------------------- MODULE Std -------------------------------
(***************************************************************************)
(* What the kernel's library (libs/std) computes: moving memory, numbers   *)
(* as text, printf.  A character is a string of one letter, a text is a    *)
(* sequence of them, and a block of memory is a function from addresses,   *)
(* in which a text ends with NUL.                                          *)
(***************************************************************************)
EXTENDS Integers, Sequences, FiniteSets

CONSTANTS IntBits, LongBits \* widths of int and of uint64_t

ASSUME WidthAssumption == IntBits \in Nat \ {0, 1} /\ LongBits \in Nat /\ LongBits >= IntBits

NUL == "nul"

(* Both take the addresses upwards, memmove only when that is safe; memcpy *)
(* reads eight bytes before it writes them, which is one element here.     *)
Memcpy(mem, dst, src, n) ==
    LET after[k \in 0..n] ==
          IF k = 0 THEN mem
          ELSE LET m == after[k - 1] IN [m EXCEPT ![dst + k - 1] = m[src + k - 1]]
    IN after[n]

Memmove(mem, dst, src, n) ==
    [a \in DOMAIN mem |-> IF a \in dst..dst + n - 1 THEN mem[src + a - dst] ELSE mem[a]]

Memset(mem, dst, value, n) ==
    [a \in DOMAIN mem |-> IF a \in dst..dst + n - 1 THEN value ELSE mem[a]]

(* A loop over a text goes on from address k and stops at the first of     *)
(* some places, at the latest behind the last character there is.          *)
At(mem, k) == IF k \in DOMAIN mem THEN mem[k] ELSE NUL
PlacesFrom(mem, k) == {k} \cup {a + 1 : a \in DOMAIN mem}
FirstFrom(places, k) == CHOOSE e \in places : e >= k /\ \A p \in places : p >= k => e <= p

(* The text at address k, up to its NUL. *)
EndOf(mem, k) == FirstFrom({e \in PlacesFrom(mem, k) : At(mem, e) = NUL}, k)
CString(mem, k) == [n \in 1..EndOf(mem, k) - k |-> mem[k + n - 1]]

(* Two's complement of w bits. *)
Signed(v, w) ==
    LET u == v % 2^w IN IF u >= 2^(w - 1) THEN u - 2^w ELSE u

DigitChars == <<"0", "1", "2", "3", "4", "5", "6", "7", "8", "9",
                "A", "B", "C", "D", "E", "F">>

(* A digit for each division that has something to divide, the last first. *)
DigitsOf(v, base) ==
    LET left[n \in 0..LongBits] == IF n = 0 THEN v ELSE left[n - 1] \div base
        count == Cardinality({n \in 0..LongBits : left[n] > 0})
    IN [j \in 1..count |-> DigitChars[1 + (left[count - j] % base)]]

(* to_str of a w bit integer: the least of them is its own negative, and   *)
(* leaves nothing but the sign.                                            *)
ToStr(v, w) ==
    (IF v < 0 THEN <<"-">> ELSE <<>>)
      \o (IF v = 0 THEN <<"0">> ELSE DigitsOf(IF v < 0 THEN Signed(-v, w) ELSE v, 10))

ToHexStr(v) == <<"0", "x">> \o (IF v = 0 THEN <<"0">> ELSE DigitsOf(v, 16))

(* str_to_int stops at the first character that is no digit; its result is *)
(* an int.                                                                 *)
DigitValue(c) == (CHOOSE d \in 1..10 : DigitChars[d] = c) - 1
IsDigit(c) == \E d \in 1..10 : DigitChars[d] = c

Leading(s) == {n \in 1..Len(s) : \A m \in 1..n : IsDigit(s[m])}

StrToInt(s) ==
    LET negative == s # <<>> /\ Head(s) = "-"
        rest == IF negative THEN Tail(s) ELSE s
        count == Cardinality(Leading(rest))
        result[n \in 0..count] ==
          IF n = 0 THEN 0 ELSE Signed(10 * result[n - 1] + DigitValue(rest[n]), IntBits)
    IN IF negative THEN Signed(-result[count], IntBits) ELSE result[count]

(* format_size divides in place and returns the unit. *)
FormatSize(size) ==
    LET left[n \in 0..LongBits] == IF n = 0 THEN size ELSE left[n - 1] \div 1024
        iters == Cardinality({n \in 0..LongBits : left[n] >= 1024})
    IN <<left[iters],
         IF iters <= 6 THEN <<"B", "KB", "MB", "GB", "TB", "PB", "WTF">>[iters + 1] ELSE "B">>

----------------------------------------------------------------------------
(* printf: % takes an argument, & a colour, and either is printed as it is *)
(* when the next character says nothing to it.  Arguments are texts: what  *)
(* to_str and to_hex_str have made of them.                                *)
Conversions == {"c", "s", "l", "i", "d", "u", "x", "f"}
Colors == {"0", "1", "2", "3", "4", "5", "6", "7", "8", "9", "a", "b", "c", "d", "e", "f"}

Directive(text, k, sign, letters) ==
    k >= 1 /\ k < Len(text) /\ text[k] = sign /\ text[k + 1] \in letters
IsConversion(text, k) == Directive(text, k, "%", Conversions)
IsColor(text, k) == Directive(text, k, "&", Colors)

(* No letter is a sign, so directives do not overlap.                      *)
Piece(text, args, k) ==
    IF IsConversion(text, k) THEN args[Cardinality({j \in 1..k : IsConversion(text, j)})]
    ELSE IF IsColor(text, k) \/ IsConversion(text, k - 1) \/ IsColor(text, k - 1) THEN <<>>
    ELSE <<text[k]>>

Format(text, args) ==
    LET upto[k \in 0..Len(text)] ==
          IF k = 0 THEN <<>> ELSE upto[k - 1] \o Piece(text, args, k)
    IN upto[Len(text)]
=============================================================================
