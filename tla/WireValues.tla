----------------------------- MODULE WireValues -----------------------------
(***************************************************************************)
(* What the request builders of both layers (pkg/services, the v-next      *)
(* layer, and pkg/hstong, the released one) work on: the kinds of text     *)
(* their validators tell apart, a call as the list of checks it makes in   *)
(* order before it sends, and the JSON body it sends.                      *)
(*                                                                         *)
(* A string is represented by what a validator can find out about it:      *)
(*   codes     ""  "blank" (white space only)  "padded" (a code between    *)
(*             blanks)  "gap" (a blank inside)  "code"                     *)
(*   dates     ""  "text"  "99999999" (eight digits, no such day)  "date"  *)
(*   times     ""  "text"  "time" (HHmmSS)                                 *)
(*   decimals  ""  "text"  "-1"  "0"  "0.5"  "1" and other numerals        *)
(* and a closed code by itself.                                            *)
(***************************************************************************)
EXTENDS Integers, Sequences, FiniteSets

\* strings.TrimSpace.
Trim(s) == CASE s = "blank" -> "" [] s = "padded" -> "code" [] OTHER -> s

\* strings.ContainsAny(s, " \t\n\r")
HasSpace(s) == s \in {"blank", "padded", "gap"}

\* time.Parse accepts the date, and it has the shape yyyyMMdd.
DateShaped(d) == d \in {"99999999", "date"}
CalendarDate(d) == d = "date"

\* The decimal package: the sign of a numeral, and whether it is whole.
Negative(d) == d \in {"-1"}
Zero(d) == d = "0"
Positive(d) == d \in {"0.0000001", "0.5", "1", "2", "99", "100"}
Decimal(d) == Negative(d) \/ Zero(d) \/ Positive(d)
WholeNumber(d) == d \in {"0", "1", "2", "99", "100"}

\* A code of decimal digits.
DigitsShaped(c) == c \in {"0", "1", "2", "3", "4", "5", "31", "99"}

Exchanges == {"K", "P", "v", "t"}
Directions == {"1", "2", "3", "4"}

-----------------------------------------------------------------------------
(***************************************************************************)
(* A method makes its checks one after the other and returns at the first  *)
(* that fails, so which one fails first is what the caller learns.         *)
(***************************************************************************)
NoRefusal == "none"

Refusal(checks) ==
    LET failed == {i \in DOMAIN checks : ~checks[i][2]}
    IN  IF failed = {} THEN NoRefusal
        ELSE checks[CHOOSE i \in failed : \A j \in failed : i <= j][1]

\* encoding/json: a field tagged omitempty is left out when it is empty.
OmitEmpty(body, tagged) ==
    [f \in {g \in DOMAIN body : g \notin tagged \/ body[g] # ""} |-> body[f]]

NoBody == [f \in {} |-> ""]

\* A record with the fields of both; the first one's win.
f @@ g == [x \in DOMAIN f \cup DOMAIN g |-> IF x \in DOMAIN f THEN f[x] ELSE g[x]]

\* One method call: the route, the checks made before anything is sent, and
\* the body sent when they all pass.
Call(path, checks, body) ==
    [path |-> path, refusal |-> Refusal(checks), body |-> body]

Accepted(call) == call.refusal = NoRefusal

=============================================================================
