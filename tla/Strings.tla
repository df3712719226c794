------------------------------- MODULE Strings -------------------------------
(***************************************************************************)
(* UCS-2 and Latin-1 strings (uefi/src/data_types/strs.rs, owned_strs.rs,  *)
(* chars.rs): the conversions from arrays and from Rust strings, and the   *)
(* operations on an owned CString16.                                       *)
(*                                                                         *)
(* A character is a representative of its class.                           *)
(***************************************************************************)
EXTENDS Integers, Sequences, SequencesExt

CONSTANTS
    MaxUnits,     \* length of the arguments
    MaxString   \* length of the owned string

VARIABLES
    str,    \* the characters of a CString16
    arg,    \* what the last conversion was given: [kind, codes, len]
    res     \* its result: [status, pos, value]

strvars == <<str, arg, res>>

NUL == 0
Latin1 == 3         \* two bytes in UTF-8, at most 0xff
TwoByte == 4        \* two bytes in UTF-8, more than 0xff
ThreeByte == 5
Supplementary == 6  \* four bytes in UTF-8, two surrogates in UTF-16
Surrogate == 7

Chars == {NUL, 1, 2, Latin1, TwoByte, ThreeByte, Supplementary}
Codes == {NUL, 1, 2, TwoByte, Surrogate}

Ok(value) == [status |-> "Ok", pos |-> 0, value |-> value]
Err(kind, pos) == [status |-> kind, pos |-> pos, value |-> <<>>]

\* Char16::try_from
ValidChar16(code) == code \notin {Surrogate, Supplementary}

\* The first index where a predicate holds, or 0
FirstIndex(s, P(_)) == SelectInSeq(s, P)

-----------------------------------------------------------------------------
(* From arrays of u16 and of bytes *)

from_u16_until_nul(codes) ==
    LET stop == FirstIndex(codes, LAMBDA c : c = NUL \/ ~ ValidChar16(c)) IN
    IF stop = 0 THEN Err("NoNul", 0)
    ELSE IF codes[stop] = NUL THEN Ok(SubSeq(codes, 1, stop))
    ELSE Err("InvalidChar", stop)

from_u16_with_nul(codes) ==
    LET stop == FirstIndex(codes, LAMBDA c : c = NUL \/ ~ ValidChar16(c)) IN
    IF stop = 0 THEN Err("NotNulTerminated", 0)
    ELSE IF codes[stop] # NUL THEN Err("InvalidChar", stop)
    ELSE IF stop # Len(codes) THEN Err("InteriorNul", stop)
    ELSE Ok(codes)

\* from_char16_until_nul, from_char16_with_nul and CStr8::from_bytes_with_nul:
\* every character is valid.
from_char16_until_nul(chars) ==
    LET end == FirstIndex(chars, LAMBDA c : c = NUL) IN
    IF end = 0 THEN Err("NoNul", 0) ELSE Ok(SubSeq(chars, 1, end))

from_char16_with_nul(chars) ==
    LET null_index == FirstIndex(chars, LAMBDA c : c = NUL) IN
    IF chars = <<>> \/ null_index = 0 THEN Err("NotNulTerminated", 0)
    ELSE IF null_index = Len(chars) THEN Ok(chars) ELSE Err("InteriorNul", null_index)

from_bytes_with_nul(chars) ==
    LET nul_pos == FirstIndex(chars, LAMBDA c : c = NUL) IN
    IF nul_pos = 0 THEN Err("NotNulTerminated", 0)
    ELSE IF nul_pos # Len(chars) THEN Err("InteriorNul", nul_pos) ELSE Ok(chars)

\* The slice is copied to an aligned buffer first.
from_unaligned_slice(src, buf) ==
    IF Len(src) > buf THEN Err("BufferTooSmall", 0) ELSE from_u16_with_nul(src)

-----------------------------------------------------------------------------
(* From Rust strings *)

\* str::encode_utf16
encode_utf16(s) ==
    FlattenSeq([i \in 1 .. Len(s) |-> IF s[i] = Supplementary THEN <<Surrogate, Surrogate>> ELSE <<s[i]>>])

\* Mutated form: room for the trailing NUL is not checked.
from_str_with_buf_full(input, buf) ==
    LET units == encode_utf16(input) IN
    IF Len(units) > buf THEN Err("BufferTooSmall", 0)
    ELSE from_u16_with_nul(Append(units, NUL))

from_str_with_buf(input, buf) ==
    LET units == encode_utf16(input) IN
    IF Len(units) + 1 > buf THEN Err("BufferTooSmall", 0)
    ELSE from_u16_with_nul(Append(units, NUL))

\* CString16::try_from(&str)
try_from_str(input) ==
    LET units == encode_utf16(input)
        stop == FirstIndex(units, LAMBDA c : c = NUL \/ ~ ValidChar16(c))
    IN  IF stop = 0 THEN Ok(Append(units, NUL))
        ELSE IF units[stop] = NUL THEN Err("InteriorNul", 0) ELSE Err("InvalidChar", 0)

\* String::from(&CStr16)
to_string(s) == Front(s)

Utf8Len(c) == CASE c = Supplementary -> 4 [] c = ThreeByte -> 3 [] c \in {Latin1, TwoByte} -> 2 [] OTHER -> 1

\* The bytes of a string: <<character, which of its bytes>>
Utf8(s) == FlattenSeq([i \in 1 .. Len(s) |-> [k \in 1 .. Utf8Len(s[i]) |-> <<s[i], k>>]])

\* latin1_from_utf8_at_offset: the character and its length, length 0 for a panic
latin1_from_utf8_at_offset(bytes, offset) ==
    LET b == bytes[offset + 1] IN
    IF b[2] # 1 \/ b[1] \in {TwoByte, ThreeByte, Supplementary} THEN <<b[1], 0>>
    ELSE <<b[1], Utf8Len(b[1])>>

\* str_to_latin1 for an array of n characters, and str_num_latin1_chars
str_to_latin1(s, n) ==
    LET bytes == Utf8(s)
        walk[offset \in 0 .. Len(bytes)] ==
            IF offset = Len(bytes) THEN Ok(<<>>)
            ELSE LET c == latin1_from_utf8_at_offset(bytes, offset) IN
                 IF c[2] = 0 \/ c[1] = NUL THEN Err("panic", 0)
                 ELSE LET rest == walk[offset + c[2]] IN
                      IF rest.status = "panic" THEN rest ELSE Ok(<<c[1]>> \o rest.value)
        out == walk[0]
    IN  IF out.status = "panic" \/ Len(out.value) + 1 # n THEN Err("panic", 0) ELSE Ok(Append(out.value, NUL))

str_num_latin1_chars(s) ==
    LET bytes == Utf8(s)
        walk[offset \in 0 .. Len(bytes)] ==
            IF offset = Len(bytes) THEN 0
            ELSE LET c == latin1_from_utf8_at_offset(bytes, offset) IN
                 IF c[2] = 0 THEN 100 ELSE 1 + walk[offset + c[2]]
    IN  walk[0]

\* cstr8!: both at compile time
cstr8(s) == str_to_latin1(s, str_num_latin1_chars(s) + 1)

\* eq_str_until_nul: compared up to the end of the shorter one
eq_str_until_nul(s, other) ==
    LET n == CHOOSE k \in {Len(s) - 1, Len(other)} : k <= Len(s) - 1 /\ k <= Len(other)
        stop == FirstIndex(SubSeq(other, 1, n), LAMBDA c : c = NUL)
    IN  \A i \in 1 .. (IF stop = 0 THEN n ELSE stop - 1) : s[i] = other[i]

\* LoadedImage::load_options_as_cstr16: what is wrong with the pointer and
\* the size comes first.
load_options_as_cstr16(defect, codes) ==
    CASE defect = 3 -> Err("NotSet", 0)
      [] defect \in {1, 2} -> Err("NotAligned", 0)
      [] defect = 0 -> from_u16_with_nul(codes)

-----------------------------------------------------------------------------
(* Operations *)

Args(set) == UNION {[1 .. n -> set] : n \in 0 .. MaxUnits}

Convert(kind, codes, len, result) ==
    /\ arg' = [kind |-> kind, codes |-> codes, len |-> len] /\ res' = result
    /\ UNCHANGED str

\* CString16::try_from: of a Rust string, of a vector, of a UnalignedSlice
try_from(kind, codes) ==
    LET r == IF kind = "str" THEN try_from_str(codes) ELSE from_u16_with_nul(codes) IN
    /\ arg' = [kind |-> kind, codes |-> codes, len |-> 0] /\ res' = r
    /\ str' = IF r.status = "Ok" THEN r.value ELSE str

Pushed(s, c) == [s EXCEPT ![Len(s)] = c] \o <<NUL>>

NoArg == [kind |-> "none", codes |-> <<>>, len |-> 0]
Edit(value) == str' = value /\ arg' = NoArg /\ res' = Ok(<<>>)

CString16_push(c) == c # NUL /\ Len(str) < MaxString /\ Edit(Pushed(str, c))

push_str(s) ==
    /\ Len(str) + Len(s) - 1 <= MaxString
    /\ Edit(FoldLeft(LAMBDA acc, c : Pushed(acc, c), str, Front(s)))

CString16_replace_char(search, replace) ==
    /\ search # NUL /\ replace # NUL
    /\ Edit([i \in 1 .. Len(str) |-> IF str[i] = search THEN replace ELSE str[i]])

StringsInit == str = <<NUL>> /\ arg = NoArg /\ res = Ok(<<>>)

StringsNext ==
    \/ /\ str = <<NUL>> /\ arg = NoArg
       /\ \/ \E codes \in Args(Codes) :
                \/ Convert("u16", codes, 0, from_u16_with_nul(codes))
                \/ \E n \in {MaxUnits - 1, MaxUnits} : Convert("unaligned", codes, n, from_unaligned_slice(codes, n))
                \/ try_from("vec", codes)
                \/ \E defect \in 0 .. 3 : Convert("options", codes, defect, load_options_as_cstr16(defect, codes))
          \/ \E s \in Args(Chars) :
                \/ \E n \in 0 .. MaxUnits + 1 : Convert("buf", s, n, from_str_with_buf(s, n))
                \/ try_from("str", s)
                \/ Convert("cstr8", s, 0, cstr8(s))
    \/ \E c \in {1, 2, TwoByte} : CString16_push(c) \/ \E d \in {1, 2, TwoByte} : CString16_replace_char(c, d)
    \/ push_str(<<1, 2, NUL>>)

-----------------------------------------------------------------------------
(* Properties *)

StringsTypeOK == str \in Seq(Chars) /\ Len(str) <= MaxString + 1

IsCStr16(s) ==
    /\ s # <<>> /\ Last(s) = NUL
    /\ \A i \in 1 .. Len(s) - 1 : s[i] # NUL /\ ValidChar16(s[i])

\* A CString16 ends in its only NUL and holds valid characters, after every
\* sequence of conversions, push, push_str and replace_char.
CString16Valid == IsCStr16(str)

\* from_u16_with_nul accepts the valid strings and no others and reports the
\* first defect, also as the load options of an image; from_u16_until_nul accepts exactly the arrays that begin with
\* one, and gives that one.  The conversions from Char16 and from bytes agree.
U16Conversions ==
    arg.kind \in {"u16", "vec", "unaligned", "options"} =>
        LET codes == arg.codes
            until == from_u16_until_nul(codes)
            prefixes == {SubSeq(codes, 1, i) : i \in 1 .. Len(codes)}
            valid == \A i \in 1 .. Len(codes) : ValidChar16(codes[i])
        IN  /\ res.status \notin {"BufferTooSmall", "NotSet", "NotAligned"} => ((res.status = "Ok") <=> IsCStr16(codes))
            /\ res.status = "InvalidChar" => ~ ValidChar16(codes[res.pos]) /\ ~ \E p \in prefixes : IsCStr16(p)
            /\ res.status = "InteriorNul" => IsCStr16(SubSeq(codes, 1, res.pos)) /\ res.pos < Len(codes)
            /\ until.status = "Ok" => IsCStr16(until.value) /\ until.value \in prefixes
            /\ (until.status # "Ok") => ~ \E p \in prefixes : IsCStr16(p)
            /\ valid => /\ from_char16_until_nul(codes) = until
                        /\ from_char16_with_nul(codes) = from_u16_with_nul(codes)
                        /\ from_bytes_with_nul(codes) = from_u16_with_nul(codes)

\* A Rust string is converted exactly if UCS-2 can hold it and it has no NUL,
\* back to the same string; into a buffer exactly if that has room for the NUL
\* too.  The two ways agree.
StrConversions ==
    arg.kind \in {"str", "buf"} =>
        LET able == \A i \in 1 .. Len(arg.codes) : arg.codes[i] \notin {NUL, Supplementary}
            room == arg.kind = "str" \/ Len(encode_utf16(arg.codes)) < arg.len
        IN  /\ (res.status = "Ok") <=> (able /\ room)
            /\ res.status = "Ok" => to_string(res.value) = arg.codes /\ eq_str_until_nul(res.value, arg.codes)
            /\ arg.kind = "buf" /\ able /\ ~ room => res.status = "BufferTooSmall"

\* cstr8! compiles exactly for Latin-1 literals without NUL, and has their
\* characters: counting and converting walk the UTF-8 bytes alike.
Cstr8Exact ==
    arg.kind = "cstr8" =>
        IF \A i \in 1 .. Len(arg.codes) : arg.codes[i] \in {1, 2, Latin1}
        THEN res = Ok(Append(arg.codes, NUL))
        ELSE res.status = "panic"
=============================================================================
