----------------------------- MODULE Validation -----------------------------
(***************************************************************************)
(* validate_json of lib/validation.c over the contexts of src/handlers.c,  *)
(* field by field, and the handler that then binds what it was given.      *)
(*                                                                         *)
(* A JSON value is a record whose t is its type.  A string is a sequence   *)
(* of classes of bytes.  One of them is NUL, which JSON can spell in a     *)
(* string and where C takes the string to end: json-c gives its length     *)
(* with what follows, and everyone else reads up to the first NUL.  A      *)
(* string that C reads as dddd-dd-dd is given by its three numbers,        *)
(* whatever follows: no validator of dates looks there.  An int of C has   *)
(* IntBits bits, a JSON integer is wider.  The lengths that the contexts   *)
(* ask for are scaled down.                                                *)
(***************************************************************************)
EXTENDS Integers, Sequences, FiniteSets

CONSTANTS IntBits,      \* the width of int
          Long,         \* a bound on the JSON integers
          IdLen,        \* the length of a customer id and of a TOTP code
          MaxId,        \* the highest employee id
          MaxBytes,     \* a bound on the length of a string
          Years         \* the years of dates

\* The last year that is written with four digits.
LastYear == 9999

ASSUME ValidationConstants ==
    /\ IntBits \in Nat \ {0} /\ Long \in Nat /\ Long > 2^IntBits
    /\ 2^(IntBits - 1) \in Nat \ {0} /\ 2^IntBits = 2 * 2^(IntBits - 1)
    /\ MaxId \in 1..(2^(IntBits - 1) - 2)
    /\ MaxBytes \in Nat /\ IdLen \in 1..(MaxBytes - 1)
    /\ Years \subseteq 0..LastYear

IntMax == 2^(IntBits - 1) - 1
IntMin == -(2^(IntBits - 1))

----------------------------------------------------------------------------
(* JSON values *)

Missing == [t |-> "missing"]

Texts == UNION {[1..n -> {"alpha", "digit", "lead", "cont", "nul"}] : n \in 0..MaxBytes}

Ints == {[t |-> "int", v |-> n] : n \in -Long..Long}
Strings == {[t |-> "string", s |-> s] : s \in Texts}
Dates == {[t |-> "string", y |-> y, m |-> m, d |-> d] :
             y \in Years, m \in 0..13, d \in 0..32}
Odd == {Missing, [t |-> "null"], [t |-> "boolean"], [t |-> "double"]}
         \cup [t : {"array", "object"}, length : {0, 1}]

IsDateShaped(v) == "y" \in DOMAIN v

\* The characters of a date: its digits, the dashes apart.
Digits(v) == <<v.y \div 1000, (v.y \div 100) % 10, (v.y \div 10) % 10, v.y % 10,
               v.m \div 10, v.m % 10, v.d \div 10, v.d % 10>>

----------------------------------------------------------------------------
(* The contexts of the handlers.  A bound that a field does not set is zero,*)
(* as in C.                                                                 *)

Field(name, type, more) ==
    [k \in {"name", "type", "is_required", "has_min", "min_int", "has_max", "max_int",
            "max_len", "custom_validator"} |->
        IF k = "name" THEN name
        ELSE IF k = "type" THEN type
        ELSE IF k \in DOMAIN more THEN more[k]
        ELSE IF k \in {"min_int", "max_int", "max_len"} THEN 0
        ELSE IF k = "custom_validator" THEN "none"
        ELSE FALSE]

CustomerSchema == <<Field("id", "STRING", [is_required |-> TRUE, max_len |-> IdLen,
                                           custom_validator |-> "customer_id"])>>
VerifyTotpSchema == <<Field("totp", "STRING", [is_required |-> TRUE, max_len |-> IdLen,
                                               custom_validator |-> "totp"])>>
CustomersSchema == <<Field("filter", "STRING", [max_len |-> IdLen])>>
SalesSchema == <<Field("start_date", "DATE", [is_required |-> TRUE,
                                              custom_validator |-> "sales_start"]),
                 Field("end_date", "DATE", [is_required |-> TRUE,
                                            custom_validator |-> "sales_end"])>>
EmployeeSchema == <<Field("id", "INT", [is_required |-> TRUE, has_min |-> TRUE, min_int |-> 1,
                                        has_max |-> TRUE, max_int |-> MaxId])>>
ProdgetSchema == <<Field("id", "INT", [is_required |-> TRUE, has_min |-> TRUE, min_int |-> 1])>>

Schema == [customer |-> CustomerSchema, verifytotp |-> VerifyTotpSchema,
           customers |-> CustomersSchema, sales |-> SalesSchema,
           employee |-> EmployeeSchema, prodget |-> ProdgetSchema]

Contexts == DOMAIN Schema
FieldsOf(c) == {Schema[c][i].name : i \in DOMAIN Schema[c]}

\* The messages of interest for each context: every value for a single field,
\* every start date with a few end dates.
EndDates == {Missing} \cup
    {v \in Dates : v.y \in 1993..1997 /\ v.m \in {1, 2, 12} /\ v.d \in {1, 28, 29}}
NoDates == Odd \cup [t : {"string"}, s : {<<>>, <<"digit">>, <<"nul">>}] \cup [t : {"int"}, v : {1994}]
NotAnObject == <<>>
Payloads(c) ==
    {NotAnObject} \cup
    IF c = "sales" THEN [start_date : Dates \cup NoDates, end_date : EndDates]
    ELSE [FieldsOf(c) -> Ints \cup Strings \cup Odd]

VARIABLES ctx, root,  \* the request: its context and its message
          i,          \* the loop of validate_json
          outcome,    \* "running", "accepted" or "rejected"
          bound,      \* the integer the handler binds to its query
          bound_text  \* the string it binds or compares, empty for none

valid_vars == <<ctx, root, i, outcome, bound, bound_text>>

ValidTypeOK == /\ ctx \in Contexts
               /\ root = NotAnObject \/ DOMAIN root = FieldsOf(ctx)
               /\ i \in 1..(Len(Schema[ctx]) + 1)
               /\ outcome \in {"running", "accepted", "rejected"}
               /\ bound \in IntMin..IntMax
               /\ bound_text \in Texts

ValidInit == /\ ctx \in Contexts
             /\ root \in Payloads(ctx)
             /\ i = 1 /\ outcome = "running" /\ bound = 0 /\ bound_text = <<>>

----------------------------------------------------------------------------
(* The validators *)

\* json-c: the value as an int, saturated.
json_object_get_int(v) == IF v.v > IntMax THEN IntMax ELSE IF v.v < IntMin THEN IntMin ELSE v.v

\* C: a wider integer assigned to an int.
int(n) == ((n - IntMin) % 2^IntBits) + IntMin

validate_type_int(v, f) ==
    /\ v.t = "int"
    /\ ~(f.has_min /\ json_object_get_int(v) < f.min_int)
    /\ ~(f.has_max /\ json_object_get_int(v) > f.max_int)

\* json-c: all the bytes of a string.
json_object_get_string_len(v) == Len(v.s)

\* The bytes C reads in a string: those before the first NUL.
Visible(s) == {k \in DOMAIN s : \A j \in 1..k : s[j] # "nul"}

\* The string as a const char *.
json_object_get_string(v) == [k \in Visible(v.s) |-> v.s[k]]

strlen(v) == Cardinality(Visible(v.s))

\* The bytes that do not continue a character.
utf8_strlen(v) == Cardinality({k \in Visible(v.s) : v.s[k] # "cont"})

\* Mutant: bytes are counted.
validate_type_string_Bytes(v, f) ==
    /\ v.t = "string"
    /\ ~(f.max_len > 0 /\ json_object_get_string_len(v) > f.max_len)

\* The characters are counted only if the bytes are too many.
validate_type_string(v, f) ==
    /\ v.t = "string"
    /\ ~(/\ f.max_len > 0
         /\ json_object_get_string_len(v) > f.max_len
         /\ utf8_strlen(v) > f.max_len)

days_in_month == <<31, 28, 31, 30, 31, 30, 31, 31, 30, 31, 30, 31>>

\* Mutant: every fourth year is a leap year.
is_leap_Julian(year) == year % 4 = 0

is_leap(year) == year % 4 = 0 /\ (year % 100 # 0 \/ year % 400 = 0)

validate_date_string_fast(v) ==
    /\ IsDateShaped(v)
    /\ v.m >= 1 /\ v.m <= 12 /\ v.d >= 1 /\ v.y >= 1900 /\ v.y <= 2199
    /\ v.d <= IF v.m = 2 /\ is_leap(v.y) THEN 29 ELSE days_in_month[v.m]

TYPE_VALIDATOR_MAP(v, f) ==
    CASE f.type = "INT" -> validate_type_int(v, f)
      [] f.type = "STRING" -> validate_type_string(v, f)
      [] f.type = "DATE" -> v.t = "string" /\ validate_date_string_fast(v)

\* Exactly IdLen bytes, all of one class.
AllOf(v, class) == strlen(v) = IdLen /\ \A k \in 1..IdLen : v.s[k] = class

custom_validator(v, f) ==
    CASE f.custom_validator = "none" -> TRUE
      [] f.custom_validator = "customer_id" -> AllOf(v, "alpha")
      [] f.custom_validator = "totp" -> AllOf(v, "digit")
      [] f.custom_validator = "sales_start" -> v.y > 1993
      [] f.custom_validator = "sales_end" -> v.y < 1997

\* strcmp of two dates.
strcmp_less(a, b) ==
    \E k \in 1..8 : Digits(a)[k] < Digits(b)[k] /\ \A j \in 1..(k - 1) : Digits(a)[j] = Digits(b)[j]

sales_invariant_validator(r) == strcmp_less(r.start_date, r.end_date)

check_field_empty(v) ==
    \/ v.t = "string" /\ ~IsDateShaped(v) /\ (v.s = <<>> \/ v.s[1] = "nul")
    \/ v.t \in {"array", "object"} /\ v.length = 0

\* A field that is not there, or is null.
Absent(v) == v.t \in {"missing", "null"}

----------------------------------------------------------------------------
(* validate_json, then the handler *)

\* One round of the loop.
field_passes(v, f) ==
    IF Absent(v) THEN ~f.is_required
    ELSE /\ ~(f.is_required /\ check_field_empty(v))
         /\ TYPE_VALIDATOR_MAP(v, f)
         /\ custom_validator(v, f)

Advance(k) == k + 1

\* The payload must be an object.
validate_root ==
    /\ outcome = "running" /\ root = NotAnObject
    /\ outcome' = "rejected"
    /\ UNCHANGED <<ctx, root, i, bound, bound_text>>

validate_field ==
    /\ outcome = "running" /\ root # NotAnObject /\ i <= Len(Schema[ctx])
    /\ LET f == Schema[ctx][i]
       IN \/ field_passes(root[f.name], f) /\ i' = Advance(i) /\ UNCHANGED outcome
          \/ ~field_passes(root[f.name], f) /\ outcome' = "rejected" /\ UNCHANGED i
    /\ UNCHANGED <<ctx, root, bound, bound_text>>

\* The integer and the string that the handler of context c takes from its
\* message.  A string that is absent or empty is bound as NULL.
handler_int(c, r) == IF c \in {"employee", "prodget"} THEN int(r.id.v) ELSE 0

handler_text(c, r) ==
    CASE c = "customer" -> json_object_get_string(r.id)
      [] c = "verifytotp" -> json_object_get_string(r.totp)
      [] c = "customers" /\ ~Absent(r.filter) -> json_object_get_string(r.filter)
      [] OTHER -> <<>>

\* After the loop: the global validator, and the handler of an accepted
\* request.
validate_json_ends ==
    /\ outcome = "running" /\ i > Len(Schema[ctx])
    /\ \/ /\ ctx = "sales" /\ ~sales_invariant_validator(root)
          /\ outcome' = "rejected" /\ UNCHANGED <<bound, bound_text>>
       \/ /\ ctx = "sales" => sales_invariant_validator(root)
          /\ outcome' = "accepted"
          /\ bound' = handler_int(ctx, root)
          /\ bound_text' = handler_text(ctx, root)
    /\ UNCHANGED <<ctx, root, i>>

\* The request is over.
over == outcome # "running" /\ UNCHANGED valid_vars

ValidNext == validate_root \/ validate_field \/ validate_json_ends \/ over

ValidSpec == ValidInit /\ [][ValidNext]_valid_vars

----------------------------------------------------------------------------
(* Properties *)

\* Days since a fixed day, by a formula that knows of no table of months.
DayNumber(y, m, d) ==
    LET a == IF m <= 2 THEN y - 1 ELSE y
        b == IF m <= 2 THEN m + 9 ELSE m - 3
    IN 365 * a + a \div 4 - a \div 100 + a \div 400 + (153 * b + 2) \div 5 + d

\* A day of the calendar: it comes before the first of the next month.
IsDay(y, m, d) ==
    /\ m \in 1..12 /\ d >= 1
    /\ DayNumber(y, m, d) < IF m = 12 THEN DayNumber(y + 1, 1, 1) ELSE DayNumber(y, m + 1, 1)

\* validate_date_string_fast accepts exactly the days of the calendar from 1900
\* to 2199: no "calendar lie" gets past the first field, and no day is refused
\* there unless the start year is.
CalendarDays ==
    ctx = "sales" /\ root # NotAnObject =>
       LET v == root.start_date
           good == IsDateShaped(v) /\ IsDay(v.y, v.m, v.d) /\ v.y \in 1994..2199
       IN /\ i > 1 => good
          /\ outcome = "rejected" /\ i = 1 => ~good

\* The handler of sales only sees a range that runs forward in time and lies in
\* the three years there are: comparing the strings compares the days.
Chronological ==
    ctx = "sales" /\ outcome = "accepted" =>
       LET a == root.start_date
           b == root.end_date
       IN /\ DayNumber(a.y, a.m, a.d) < DayNumber(b.y, b.m, b.d)
          /\ DayNumber(1994, 1, 1) <= DayNumber(a.y, a.m, a.d)
          /\ DayNumber(b.y, b.m, b.d) <= DayNumber(1996, 12, 31)

\* The characters of a string, each with the bytes that continue it.
Characters(s) == {k \in DOMAIN s : s[k] \in {"alpha", "digit", "lead"}}

\* A string of a field with no validator of its own passes if and only if the
\* C string it is read as has at most max_len characters, however many bytes
\* they take and whatever follows a NUL; an absent field passes too.  The
\* handler then binds that C string, and nothing that was not counted.
LengthInCharacters ==
    ctx = "customers" /\ root # NotAnObject /\ outcome # "running" =>
       /\ outcome = "accepted" <=>
             \/ Absent(root.filter)
             \/ /\ root.filter.t = "string"
                /\ Cardinality(Characters(json_object_get_string(root.filter))) <= IdLen
       /\ Cardinality(Characters(bound_text)) <= IdLen
       /\ \A k \in DOMAIN bound_text : bound_text[k] = root.filter.s[k] /\ bound_text[k] # "nul"

\* The handlers that need a customer id or a code get one: what they bind or
\* compare is a string of exactly IdLen letters or digits.  The JSON string
\* may go on after a NUL; the handlers never see that part.
RequiredIsThere ==
    /\ ctx = "customer" /\ outcome = "accepted" =>
          root.id.t = "string" /\ bound_text = [k \in 1..IdLen |-> "alpha"]
    /\ ctx = "verifytotp" /\ outcome = "accepted" =>
          root.totp.t = "string" /\ bound_text = [k \in 1..IdLen |-> "digit"]

\* With a minimum and a maximum, the integer that the handler binds is the one
\* in the message and lies between them, although validation saturates it and
\* the handler truncates it.
CappedIsExact ==
    ctx = "employee" /\ outcome = "accepted" => bound = root.id.v /\ bound \in 1..MaxId

\* The requests that are accepted are those their contexts describe, and their
\* handlers get what was validated.
ValidInv == ValidTypeOK /\ RequiredIsThere /\ LengthInCharacters /\ CappedIsExact

\* A date that is accepted is a day, and a range runs forward.
DatesInv == CalendarDays /\ Chronological

\* What README.md says of handlers, that they bind "the validated parameters":
\* the integer bound by an accepted request meets the bounds of its field.
BoundIsValidated ==
    ctx = "prodget" /\ outcome = "accepted" => bound >= Schema[ctx][1].min_int
=============================================================================
