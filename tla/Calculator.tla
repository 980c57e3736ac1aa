----------------------------- MODULE Calculator -----------------------------
(***************************************************************************)
(* The calculator, src/apps/calculator.c: what its keys and buttons do to  *)
(* the two operands and to the text on its display, which is also where    *)
(* the operands come from.                                                 *)
(*                                                                         *)
(* A display is a sign, "Err" or not, and digits.  Width is the number of  *)
(* characters that digits are typed up to and numbers are cut to (14), and *)
(* Word the number of values of a long (2^64); Ten[Width] is less than     *)
(* half of it, as in the code.                                             *)
(***************************************************************************)
EXTENDS Integers, Sequences, FiniteSetsExt

CONSTANTS Digits, Width, Word, MaxKeys   \* bound: so many keys are pressed

VARIABLES
  calc,       \* value1, value2, op
  display,    \* display and display_len
  new_input,  \* the next digit begins a number
  pressed,    \* how many keys were
  meant       \* history: what the keys mean, evaluated exactly

calcVars == <<calc, display, new_input, pressed, meant>>

Operators == {"+", "-", "*", "/", "%"}
NoOp == "none"

Half == Word \div 2
Wrapped(n) == ((n + Half) % Word) - Half

Magnitude(n) == IF n < 0 THEN -n ELSE n

(* Division and remainder as C has them, towards zero. *)
Quotient(a, b) ==
  IF (a < 0) = (b < 0) THEN Magnitude(a) \div Magnitude(b) ELSE -(Magnitude(a) \div Magnitude(b))
Remainder(a, b) == a - b * Quotient(a, b)

Value(a, op, b) ==
  CASE op = "+" -> a + b
    [] op = "-" -> a - b
    [] op = "*" -> a * b
    [] op = "/" -> Quotient(a, b)
    [] op = "%" -> Remainder(a, b)

Undefined(op, b) == op \in {"/", "%"} /\ b = 0

(* The powers of ten. *)
Ten[k \in 0 .. Width] == IF k = 0 THEN 1 ELSE 10 * Ten[k - 1]

(* calc_parse_display: letters count for nothing. *)
Parsed(d) ==
  LET result[i \in 0 .. Len(d.digits)] == IF i = 0 THEN 0 ELSE result[i - 1] * 10 + d.digits[i]
      value == result[Len(d.digits)]
  IN IF d.sign THEN -value ELSE value

(* calc_set_display: the last Width digits, none of a number that is its   *)
(* own negative.                                                           *)
Text(n) ==
  LET v == IF n = -Half THEN 0 ELSE Magnitude(n)
      length == Min({k \in 1 .. Width : v < Ten[k]} \cup {Width})
  IN [sign |-> n < 0, err |-> FALSE,
      digits |-> IF n = -Half THEN <<>> ELSE [i \in 1 .. length |-> (v \div Ten[length - i]) % 10]]

Error == [sign |-> FALSE, err |-> TRUE, digits |-> <<>>]
Length(d) == Len(d.digits) + (IF d.sign THEN 1 ELSE 0) + (IF d.err THEN 3 ELSE 0)

Cleared == [value1 |-> 0, value2 |-> 0, op |-> NoOp]
Fresh == [left |-> 0, op |-> NoOp, shown |-> 0, fresh |-> TRUE, odd |-> FALSE]

(* calc_clear, of "C" and of calculator_create *)
CalcInit ==
  /\ calc = Cleared
  /\ display = Text(0)
  /\ new_input = TRUE
  /\ pressed = 0
  /\ meant = Fresh

(* calc_compute of the operands as they are: value1, op, the display and   *)
(* new_input afterwards.                                                   *)
Computed(c) ==
  IF Undefined(c.op, c.value2)
  THEN [calc |-> c, display |-> Error, new |-> new_input]
  ELSE LET result == Wrapped(Value(c.value1, c.op, c.value2)) IN
       [calc |-> [c EXCEPT !.value1 = result, !.op = NoOp], display |-> Text(result), new |-> TRUE]
------------------------------------------------------------------------------
Press == pressed < MaxKeys /\ pressed' = pressed + 1

(* History: what is odd stays so until "C". *)
Noted(new) == IF meant.odd THEN meant ELSE new

Digit(d) ==
  /\ Press
  /\ display' = IF new_input THEN [sign |-> FALSE, err |-> FALSE, digits |-> <<d>>]
                ELSE IF Length(display) < Width THEN [display EXCEPT !.digits = Append(@, d)]
                ELSE display
  /\ new_input' = FALSE
  /\ calc' = calc
  /\ meant' = Noted([meant EXCEPT !.shown = IF meant.fresh THEN d
                                      ELSE IF @ < 0 THEN 10 * @ - d ELSE 10 * @ + d,
                            !.fresh = FALSE,
                            !.odd = @ \/ (~meant.fresh /\ Length(display) >= Width)])

Negate ==
  /\ Press
  /\ display' = Text(Wrapped(-Parsed(display)))
  /\ meant' = Noted([meant EXCEPT !.shown = -@])
  /\ UNCHANGED <<calc, new_input>>

(* An operator computes first when another is pending, with the operand    *)
(* that the last "=" left behind.  History: that is odd.                   *)
Operator(op) ==
  LET before == IF calc.op = NoOp THEN [calc |-> calc, display |-> display]
                ELSE Computed(calc)
  IN
  /\ Press
  /\ display' = before.display
  /\ calc' = [before.calc EXCEPT !.value1 = Parsed(before.display), !.op = op]
  /\ new_input' = TRUE
  /\ meant' = Noted([meant EXCEPT !.left = meant.shown, !.op = op, !.fresh = TRUE,
                            !.odd = @ \/ meant.op # NoOp])

(* What "=" means, unless it cannot be shown. *)
Evaluated ==
  LET exact == Value(meant.left, meant.op, meant.shown) IN
  IF Undefined(meant.op, meant.shown) THEN [meant EXCEPT !.odd = TRUE]
  ELSE [meant EXCEPT !.shown = exact, !.op = NoOp, !.fresh = TRUE,
                     !.odd = @ \/ Magnitude(exact) >= Ten[Width]]

(* Mutant: "=" computes with the operand it finds. *)
EqualsStale ==
  LET after == Computed(calc) IN
  /\ Press
  /\ IF calc.op = NoOp THEN UNCHANGED <<calc, display, new_input, meant>>
     ELSE /\ calc' = after.calc /\ display' = after.display /\ new_input' = after.new
          /\ meant' = Noted(Evaluated)

Equals ==
  LET after == Computed([calc EXCEPT !.value2 = Parsed(display)]) IN
  /\ Press
  /\ IF calc.op = NoOp THEN UNCHANGED <<calc, display, new_input, meant>>
     ELSE /\ calc' = after.calc /\ display' = after.display /\ new_input' = after.new
          /\ meant' = Noted(Evaluated)

Clear ==
  /\ Press
  /\ calc' = Cleared /\ display' = Text(0) /\ new_input' = TRUE /\ meant' = Fresh

CalcNext ==
  \/ \E d \in Digits : Digit(d)
  \/ \E op \in Operators : Operator(op)
  \/ Negate \/ Equals \/ Clear
------------------------------------------------------------------------------
(* The display shows what the keys since the last "C" mean, with numbers   *)
(* of any size and one operator between two of them: unless an operator    *)
(* was pressed while another was pending, something was divided by zero, a *)
(* digit had no room, or a result has more than Width digits.              *)
CalculatorRight ==
  ~meant.odd => Parsed(display) = meant.shown /\ ~display.err
=============================================================================
