------------------------------- MODULE Verhoeff -------------------------------
(* indiastack/identity.py: a number is read from its last digit on, as it was  *)
(* issued and as somebody typed it, with one digit wrong, two neighbours       *)
(* swapped, or right; verhoeff_valid and verhoeff_check_digit follow.          *)
EXTENDS Integers

CONSTANTS
    Digits,       \* how many digits the number has
    _D, _P, _INV  \* the tables

Digit == 0 .. 9

ASSUME DigitsAssumption == Digits \in Nat \ {0}

\* the tables: _D is a group with inverses _INV, the rows of _P are permutations,
\* and no two of them after one another commute on two digits
ASSUME TablesAssumption ==
    /\ _D \in [Digit -> [Digit -> Digit]]
    /\ _P \in [0 .. 7 -> [Digit -> Digit]]
    /\ _INV \in [Digit -> Digit]
ASSUME UnitAssumption == \A a \in Digit : _D[0][a] = a /\ _D[a][0] = a
ASSUME InverseAssumption == \A a, b \in Digit : _D[a][b] = 0 <=> a = _INV[b]
ASSUME AssociativeAssumption == \A a, b, c \in Digit : _D[_D[a][b]][c] = _D[a][_D[b][c]]
ASSUME CancelAssumption ==
    \A a, b, c \in Digit : _D[a][c] = _D[b][c] \/ _D[c][a] = _D[c][b] => a = b
ASSUME PermutationAssumption ==
    /\ \A x \in Digit : _P[0][x] = x
    /\ \A i \in 0 .. 7 : \A x, y \in Digit : _P[i][x] = _P[i][y] => x = y
ASSUME SwapAssumption ==
    \A i \in 0 .. 7 : \A c, x, y \in Digit :
        _D[_D[c][_P[i][x]]][_P[(i + 1) % 8][y]] = _D[_D[c][_P[i][y]]][_P[(i + 1) % 8][x]] => x = y

VARIABLES
    read,      \* how many digits have been read
    issued,    \* the number as it was issued: verhoeff_valid's c, and
               \* the one digit read so far, or Mixed
    typed,     \* the number as it was typed
    first,     \* the last digit of the number, the check digit
    sum,       \* verhoeff_check_digit's c, over the digits before it
    slip,      \* what went wrong in typing
    verdicts   \* what validate_aadhaar says of the two numbers

idVars == <<read, issued, typed, first, sum, slip, verdicts>>

Mixed == 10
NothingRead == [c |-> 0, only |-> Mixed]
NoVerdicts == [issued |-> "none", typed |-> "none"]

IdInit ==
    /\ read = 0 /\ issued = NothingRead /\ typed = NothingRead
    /\ first = 0 /\ sum = 0
    /\ slip = "none" /\ verdicts = NoVerdicts

-----------------------------------------------------------------------------
Permuted(i, x) == _P[i % 8][x]

Scan(s, i, x) ==
    [c |-> _D[s.c][Permuted(i, x)],
     only |-> IF i = 0 \/ s.only = x THEN x ELSE Mixed]

\* mutant: the place of the check digit itself is not counted
PlaceOfPayload(i) == i - 1
Place(i) == i

CheckDigitScan(c, i, x) == IF i = 0 THEN c ELSE _D[c][_P[Place(i) % 8][x]]

\* what validate_aadhaar says of a number whose first digit is top
validate_aadhaar(s, top) ==
    IF top \in {0, 1} THEN "cannot start with 0 or 1"
    ELSE IF s.only # Mixed THEN "repeated digit"
    ELSE IF s.c # 0 THEN "checksum failed"
    ELSE "valid"

Reads(n, x, top) ==
    /\ read + n <= Digits /\ read' = read + n
    /\ first' = IF read = 0 THEN x ELSE first
    /\ verdicts' = IF read' = Digits
                   THEN [issued |-> validate_aadhaar(issued', top.issued),
                         typed |-> validate_aadhaar(typed', top.typed)]
                   ELSE NoVerdicts

\* one digit, typed as another if this is where the slip is
ReadDigit(x, y) ==
    /\ issued' = Scan(issued, read, x)
    /\ typed' = Scan(typed, read, y)
    /\ sum' = CheckDigitScan(sum, read, x)
    /\ slip' = IF x = y THEN slip ELSE "changed"
    /\ Reads(1, x, [issued |-> x, typed |-> y])

\* two neighbours, typed the other way round
ReadSwapped(x, y) ==
    /\ issued' = Scan(Scan(issued, read, x), read + 1, y)
    /\ typed' = Scan(Scan(typed, read, y), read + 1, x)
    /\ sum' = CheckDigitScan(CheckDigitScan(sum, read, x), read + 1, y)
    /\ slip' = "swapped"
    /\ Reads(2, x, [issued |-> y, typed |-> x])

Right(x) == ReadDigit(x, x)
Wrong(x, y) == slip = "none" /\ x # y /\ ReadDigit(x, y)
Swapped(x, y) == slip = "none" /\ x # y /\ ReadSwapped(x, y)

IdNext ==
    \/ \E x \in Digit : Right(x)
    \/ \E x, y \in Digit : Wrong(x, y) \/ Swapped(x, y)

IdSpec == IdInit /\ [][IdNext]_idVars

-----------------------------------------------------------------------------
(* Properties.                                                                *)

Scans == [c : Digit, only : Digit \cup {Mixed}]
Verdicts == {"none", "valid", "cannot start with 0 or 1", "repeated digit", "checksum failed"}

\* Type invariant of the two scans.
IdTypeOK ==
    /\ read \in 0 .. Digits
    /\ issued \in Scans /\ typed \in Scans
    /\ first \in Digit /\ sum \in Digit
    /\ slip \in {"none", "changed", "swapped"}
    /\ verdicts \in [issued : Verdicts, typed : Verdicts]

\* A wrong digit or two neighbours swapped, wherever it happens, is caught: not
\* both numbers are valid.
SlipsAreCaught ==
    slip # "none" => ~(verdicts.issued = "valid" /\ verdicts.typed = "valid")

\* What verhoeff_check_digit returns makes a number valid, and no other digit does.
OneDigitCompletes == read > 0 => (issued.c = 0 <=> first = _INV[sum])

\* A check digit does its two jobs: it can be given to every number, and it
\* gives away every slip.
CheckDigitsWork == SlipsAreCaught /\ OneDigitCompletes
=============================================================================
