------------------------------ MODULE JsonText ------------------------------
(***************************************************************************)
(* How the server writes JSON: the encoder of strings and the formatters   *)
(* of numbers of lib/json_util.c, and the result sets that lib/dbapi.c     *)
(* writes through a small staging buffer.                                  *)
(*                                                                         *)
(* A text is a sequence of characters.  Three characters stand for the     *)
(* classes of bytes that the code tells apart: "a" is written as it is,    *)
(* "q" has an escape of two bytes, "c" one of six; punctuation is named.    *)
(* The widths of int and long, the decimals of a double and the staging    *)
(* buffer are scaled down.                                                 *)
(***************************************************************************)
EXTENDS Integers, Sequences, FiniteSetsExt

CONSTANTS IntSpan, LongSpan,  \* how many values an int and a long have
          Longs,              \* the longs of interest
          IntParts,           \* the integer parts of the doubles of interest
          FracDigits,         \* the decimals that are written
          Sizes,              \* the sizes of buffers for numbers
          MaxLen,             \* a bound on the length of strings
          StackBuf,           \* the size of the staging buffer
          Alloc,              \* the alloc_size of a column of characters
          IntValues, DecimalValues, CharValues, \* the values of columns
          MaxColumns, MaxRows \* bounds on the columns and rows of a result set

VARIABLES job,     \* what is written, and where to
          pos,     \* the loop of json_encode_string
          dest,    \* the buffer of json_util.c, up to its terminator
          jb,      \* the JsonBuffer: its evbuffer and its stack_buf
          rows,    \* history: the rows fetched so far
          returned \* "running", "true" or "false"

text_vars == <<job, pos, dest, jb, rows, returned>>

----------------------------------------------------------------------------
(* What is written *)

Chars == {"a", "q", "c"}
DecimalChars == {"0", "1", "2", "3", "4", "5", "6", "7", "8", "9", "dot", "minus"}
Sources(n) == UNION {[1..m -> Chars] : m \in 0..n}

\* The powers of ten.
tens[n \in Nat] == IF n = 0 THEN 1 ELSE 10 * tens[n - 1]

\* The fraction of a double counts in twentieths of its last digit.
FracUnit == 20 * tens[FracDigits]

Signed(span) == -(span \div 2)..((span \div 2) - 1)

\* At most 20 digits, as a number of 64 bits has.
TwentyDigits(v) == ((v \div tens[9]) \div tens[9]) < tens[2]

ASSUME JsonTextConstants ==
    /\ \A span \in {IntSpan, LongSpan} : span \in Nat /\ TwentyDigits(span)
    /\ Longs \subseteq Signed(LongSpan) /\ IntValues \subseteq Signed(IntSpan)
    /\ \A ip \in IntParts : ip \in Nat /\ TwentyDigits(ip)
    /\ FracDigits \in 1..8
    /\ Sizes \subseteq Nat
    /\ {MaxLen, MaxColumns, MaxRows} \subseteq Nat
    /\ {StackBuf, Alloc} \subseteq Nat \ {0}
    /\ \A s \in CharValues : s \in Seq(Chars)
    /\ \A s \in DecimalValues : s \in Seq(DecimalChars)

StringJobs == [t : {"string"}, src : Sources(MaxLen), size : 0..(6 * MaxLen + 2)]
NumberJobs == [t : {"int"}, v : Signed(IntSpan), size : Sizes]
        \cup [t : {"long"}, v : Longs, size : Sizes]
        \cup [t : {"double"}, neg : BOOLEAN, ip : IntParts, fr : 0..(FracUnit - 1), size : Sizes]
        \cup [t : {"nan", "huge"}, size : Sizes]
RowsJobs == [t : {"rows"}, write_brackets : BOOLEAN, count : 1..MaxColumns]
        \cup [t : {"rows"}, write_brackets : {TRUE}, count : {0}]

\* The values of a column.
Columns == [t : {"null", "bit"}] \cup [t : {"slong"}, v : IntValues]
        \cup [t : {"decimal"}, s : DecimalValues]
        \cup [t : {"char"}, s : CharValues]

Empty == [evbuf |-> <<>>, stack |-> <<>>]

TextInit ==
    /\ job \in StringJobs \cup NumberJobs \cup RowsJobs
    /\ pos = 1 /\ dest = <<>> /\ rows = <<>>
    /\ jb = Empty
    /\ returned = "running"

----------------------------------------------------------------------------
(* json_encode_string *)

escape == [a |-> <<"a">>, q |-> <<"backslash", "q">>,
           c |-> <<"backslash", "u", "0", "0", "0", "c">>]

has_room(j, size) == j + 7 < size

json_encode_string ==
    /\ job.t = "string" /\ returned = "running"
    /\ \/ /\ pos <= Len(job.src) /\ has_room(Len(dest), job.size)
          /\ dest' = dest \o escape[job.src[pos]] /\ pos' = pos + 1
          /\ UNCHANGED returned
       \/ /\ pos > Len(job.src) \/ ~has_room(Len(dest), job.size)
          /\ returned' = "true"
          /\ UNCHANGED <<pos, dest>>
    /\ UNCHANGED <<job, jb, rows>>

----------------------------------------------------------------------------
(* fast_itoa, fast_ltoa and fast_dtoa *)

digits_lut == <<"0", "1", "2", "3", "4", "5", "6", "7", "8", "9">>

\* The last n digits of v, as write2 puts them in pairs.
Group(v, n) == [d \in 1..n |-> digits_lut[((v \div tens[n - d]) % 10) + 1]]

count_digits(v) == CHOOSE n \in 1..20 : v < tens[n] /\ (n > 1 => v >= tens[n - 1])

\* The digits that the loops write, from the last to the first: eight at a
\* time in fast_ltoa, four, then two, and one or two at the end.
written[v \in Nat] ==
    IF v >= tens[8] THEN written[v \div tens[8]] \o Group(v, 8)
    ELSE IF v >= tens[4] THEN written[v \div tens[4]] \o Group(v, 4)
    ELSE IF v >= tens[2] THEN written[v \div tens[2]] \o Group(v, 2)
    ELSE IF v < 10 THEN Group(v, 1) ELSE Group(v, 2)

\* Mutant: the value is negated before it is made unsigned, as abs() would.
magnitude_Abs(v, span) == IF v < 0 THEN (-v) % (span \div 2) ELSE v

\* uval, which is unsigned.
magnitude(v, span) == IF v < 0 THEN (0 - (v % span)) % span ELSE v

Sign(neg) == IF neg THEN <<"minus">> ELSE <<>>

\* The text in the cells 0 to len - 1 of buf; those that no loop writes to are
\* not initialised.
InPlace(neg, u) ==
    Sign(neg) \o [n \in 1..(count_digits(u) - Len(written[u])) |-> "unset"] \o written[u]

fast_toa(v, span, size) ==
    LET text == InPlace(v < 0, magnitude(v, span))
    IN IF size < 2 \/ Len(text) + 1 > size THEN <<>> ELSE text

\* The rounded fraction, its trailing zeros and then its dot dropped.
format_frac_part(fr, len, size) ==
    LET frac_digits == ((fr * tens[FracDigits]) + (FracUnit \div 2)) \div FracUnit
        text == Group(frac_digits, FracDigits)
        kept == {n \in 1..FracDigits : text[n] # "0"}
    IN IF fr <= 1 \/ len + FracDigits + 2 >= size \/ kept = {} THEN <<>>
       ELSE <<"dot">> \o SubSeq(text, 1, Max(kept))

\* A huge value is left to snprintf, whose text is "h" here.
fast_dtoa(d) ==
    LET whole == InPlace(d.neg, d.ip)
    IN IF d.size < 2 THEN <<>>
       ELSE IF d.t = "nan" THEN <<"0">>
       ELSE IF d.t = "huge" THEN <<"h">>
       ELSE IF Len(whole) + 1 > d.size THEN <<>>
       ELSE whole \o format_frac_part(d.fr, Len(whole), d.size)

format_number ==
    /\ job.t \in {"int", "long", "double", "nan", "huge"} /\ returned = "running"
    /\ dest' = CASE job.t = "int" -> fast_toa(job.v, IntSpan, job.size)
                 [] job.t = "long" -> fast_toa(job.v, LongSpan, job.size)
                 [] OTHER -> fast_dtoa(job)
    /\ returned' = "true"
    /\ UNCHANGED <<job, pos, jb, rows>>

----------------------------------------------------------------------------
(* The JsonBuffer of dbapi.c *)

jbuf_flush(j) == [evbuf |-> j.evbuf \o j.stack, stack |-> <<>>]

\* Mutant: what is too large for the staging buffer overtakes what is in it.
jbuf_add_Overtakes(j, data) ==
    IF Len(data) >= StackBuf THEN [j EXCEPT !.evbuf = @ \o data]
    ELSE LET f == IF Len(j.stack) + Len(data) > StackBuf THEN jbuf_flush(j) ELSE j
         IN [f EXCEPT !.stack = @ \o data]

jbuf_add(j, data) ==
    LET full == Len(j.stack) + Len(data) > StackBuf
        f == IF full THEN jbuf_flush(j) ELSE j
    IN IF full /\ Len(data) >= StackBuf THEN [f EXCEPT !.evbuf = @ \o data]
       ELSE [f EXCEPT !.stack = @ \o data]

jbuf_add_char(j, c) ==
    LET f == IF Len(j.stack) + 1 > StackBuf THEN jbuf_flush(j) ELSE j
    IN [f EXCEPT !.stack = Append(@, c)]

\* The run of characters from start to p - 1 that need no escape.
AddClean(j, s, start, p) == IF p > start THEN jbuf_add(j, SubSeq(s, start, p - 1)) ELSE j

jbuf_append_escaped_str(j, s) ==
    LET loop[p \in 0..Len(s)] ==
            IF p = 0 THEN [j |-> jbuf_add_char(j, "quote"), start |-> 1]
            ELSE LET l == loop[p - 1]
                 IN IF s[p] = "a" THEN l
                    ELSE [j |-> jbuf_add(AddClean(l.j, s, l.start, p), escape[s[p]]),
                          start |-> p + 1]
        end == loop[Len(s)]
    IN jbuf_add_char(AddClean(end.j, s, end.start, Len(s) + 1), "quote")

null == <<"n", "u", "l", "l">>

\* A value of characters is cut to the room of its column.
append_col_value(j, v) ==
    CASE v.t = "null" -> jbuf_add(j, null)
      [] v.t = "bit" -> jbuf_add(j, <<"t", "r", "u", "e">>)
      [] v.t = "slong" -> jbuf_add(j, fast_toa(v.v, IntSpan, 64))
      [] v.t = "decimal" -> jbuf_add(j, IF v.s = <<>> THEN null ELSE v.s)
      [] v.t = "char" -> jbuf_append_escaped_str(j, IF Len(v.s) >= Alloc
                                                    THEN SubSeq(v.s, 1, Alloc - 1) ELSE v.s)

\* The keys are the same in every row, and prepared before the first.
precomputed_key == <<"quote", "k", "quote", "colon">>

jbuf_append_row_object(j, row) ==
    LET loop[n \in 0..Len(row)] ==
            IF n = 0 THEN jbuf_add_char(j, "lbrace")
            ELSE LET v == append_col_value(jbuf_add(loop[n - 1], precomputed_key), row[n])
                 IN IF n < Len(row) THEN jbuf_add_char(v, "comma") ELSE v
    IN jbuf_add_char(loop[Len(row)], "rbrace")

\* The opening bracket is written with the first step of the loop.
Opened == IF job.write_brackets /\ rows = <<>> THEN jbuf_add(jb, <<"lbracket">>) ELSE jb

\* Every way through fetch_resultset_array ends with a flush, but for the one
\* without columns, which writes an empty array.
fetch_resultset_array ==
    /\ job.t = "rows" /\ returned = "running"
    /\ \/ /\ job.count = 0
          /\ jb' = jbuf_flush(jbuf_add(jb, <<"lbracket", "rbracket">>))
          /\ returned' = "true" /\ UNCHANGED rows
       \/ /\ job.count > 0 /\ Len(rows) < MaxRows
          /\ \E row \in [1..job.count -> Columns] :
                /\ jb' = jbuf_append_row_object(IF rows = <<>> THEN Opened
                                                ELSE jbuf_add_char(jb, "comma"), row)
                /\ rows' = Append(rows, row)
          /\ UNCHANGED returned
       \/ /\ job.count > 0
          /\ jb' = jbuf_flush(IF job.write_brackets THEN jbuf_add_char(Opened, "rbracket") ELSE jb)
          /\ returned' = "true" /\ UNCHANGED rows
       \/ /\ job.count > 0
          /\ jb' = jbuf_flush(Opened)
          /\ returned' = "false" /\ UNCHANGED rows
    /\ UNCHANGED <<job, pos, dest>>

----------------------------------------------------------------------------
TextNext == \/ json_encode_string \/ format_number \/ fetch_resultset_array
            \/ returned # "running" /\ UNCHANGED text_vars

TextSpec == TextInit /\ [][TextNext]_text_vars

----------------------------------------------------------------------------
(* Properties *)

\* The texts of s, one after the other.
Joined(s) == LET joined[n \in 0..Len(s)] == IF n = 0 THEN <<>> ELSE joined[n - 1] \o s[n]
             IN joined[Len(s)]

\* The encoding of a string.
Encoded(s) == Joined([n \in DOMAIN s |-> escape[s[n]]])

\* json_encode_string writes the encoding of a prefix of its source, never a
\* part of an escape, and stays within its buffer with the terminator.  A
\* buffer of JSON_ENCODE_BUFSIZE bytes, 6n + 1, holds every source of n bytes,
\* except that the loop, which wants one byte more than the longest escape and
\* the terminator take, drops the last byte of a source whose other bytes all
\* take six.
PrefixIsEncoded ==
    job.t = "string" =>
       LET n == Len(job.src)
       IN /\ dest = Encoded(SubSeq(job.src, 1, pos - 1))
          /\ dest # <<>> => Len(dest) < job.size
          /\ returned = "true" /\ job.size = 6 * n + 1 /\ n > 0 =>
                IF \A m \in 1..(n - 1) : job.src[m] = "c" THEN pos = n ELSE pos = n + 1

\* The decimal notation of a number.
decimal[n \in Nat] == IF n < 10 THEN <<digits_lut[n + 1]>>
                      ELSE decimal[n \div 10] \o <<digits_lut[(n % 10) + 1]>>
Numeral(v) == IF v < 0 THEN <<"minus">> \o decimal[-v] ELSE decimal[v]

\* The text of a result set, and of one that is still open.
ColumnText(v) ==
    CASE v.t = "null" -> null
      [] v.t = "bit" -> <<"t", "r", "u", "e">>
      [] v.t = "slong" -> Numeral(v.v)
      [] v.t = "decimal" -> IF v.s = <<>> THEN null ELSE v.s
      [] v.t = "char" -> <<"quote">> \o Encoded(SubSeq(v.s, 1, Min({Len(v.s), Alloc - 1}))) \o <<"quote">>
RowText(row) ==
    <<"lbrace">> \o Joined([n \in DOMAIN row |-> (IF n > 1 THEN <<"comma">> ELSE <<>>)
                              \o precomputed_key \o ColumnText(row[n])]) \o <<"rbrace">>
RowsText == Joined([n \in DOMAIN rows |-> (IF n > 1 THEN <<"comma">> ELSE <<>>) \o RowText(rows[n])])
OpenText == IF job.write_brackets /\ (rows # <<>> \/ returned # "running") THEN <<"lbracket">> \o RowsText
            ELSE RowsText

\* What goes through the staging buffer comes out in the order it went in and
\* nothing stays behind, whatever the lengths: the evbuffer of a result set
\* that was fetched to its end holds the document, and that of one that was not
\* holds its beginning.
RowsInOrder ==
    job.t = "rows" =>
       /\ Len(jb.stack) <= StackBuf
       /\ jb.evbuf \o jb.stack = IF returned = "true" /\ job.write_brackets
                                 THEN OpenText \o <<"rbracket">> ELSE OpenText
       /\ returned # "running" => jb.stack = <<>>

\* The texts that json_util.c and dbapi.c write for strings and result sets are
\* those of the values.
TextsInv == PrefixIsEncoded /\ RowsInOrder

\* fast_itoa and fast_ltoa write the decimal notation of every integer, the
\* most negative one included, with no byte of the buffer left out, or nothing
\* when it does not fit with the terminator.
IntegersExact ==
    job.t \in {"int", "long"} /\ returned = "true" =>
       \/ /\ dest = <<>>
          /\ job.size < 2 \/ job.v >= tens[job.size - 1] \/ -job.v >= tens[job.size - 2]
       \/ dest = Numeral(job.v) /\ Len(dest) < job.size

\* A fraction of q units of its last digit, with its zeros.
Zeros(n) == [d \in 1..n |-> "0"]
Fraction(q) == Zeros(FracDigits - Len(decimal[q])) \o decimal[q]

\* fast_dtoa writes the nearest number of FracDigits decimals, and none that
\* ends in a zero, in every buffer of the size its callers use.  Where the
\* rounding carries into the integer part, the carry is lost: the text is the
\* integer part alone, one less than the nearest number.
DoublesNearest ==
    job.t = "double" /\ returned = "true" /\ job.size >= 32 =>
       LET whole == Sign(job.neg) \o decimal[job.ip]
           frac == SubSeq(dest, Len(whole) + 2, Len(dest))
           carries == job.fr + 10 >= FracUnit
       IN /\ Len(dest) < job.size
          /\ carries => dest = whole
          /\ ~carries => \E q \in 0..(tens[FracDigits] - 1) :
                /\ (20 * q) - job.fr \in -10..10
                /\ \/ q = 0 /\ dest = whole
                   \/ /\ q > 0 /\ dest = whole \o <<"dot">> \o frac
                      /\ frac[Len(frac)] # "0"
                      /\ Fraction(q) = frac \o Zeros(FracDigits - Len(frac))

\* The texts of numbers are those of the values, except for the lost carry.
NumbersInv == IntegersExact /\ DoublesNearest
=============================================================================
