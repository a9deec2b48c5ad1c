---------------------------- MODULE KNumberModel ----------------------------
(***************************************************************************)
(* KNumberModel (knumbermodel.cpp): a list of the numbers from a minimum   *)
(* to a maximum at a step.  The numbers are multiples of some unit; what   *)
(* rounding does to reals is left out.                                     *)
(***************************************************************************)
EXTENDS Integers

Sets == INSTANCE FiniteSetsExt

CONSTANTS
    Bounds, Steps,      \* values of minimumValue and maximumValue, and of stepSize
    Thousand            \* numbers from here on have a group separator

ASSUME NumbersAssumption == Bounds \subseteq Int /\ Steps \subseteq Int /\ Thousand \in Int

VARIABLES minimumValue, maximumValue, stepSize, groups     \* groups: formattingOptions has the separator

numberVars == <<minimumValue, maximumValue, stepSize, groups>>

\* qFloor of a quotient.
Floor(a, b) == IF b > 0 THEN a \div b ELSE (-a) \div (-b)

\* Mutant of NumberRows: the row of the minimum is not counted.
NumberRowsAboveMinimum ==
    IF stepSize = 0 THEN 1 ELSE Sets!Max({0, Floor(maximumValue - minimumValue, stepSize)})

\* rowCount.
NumberRows ==
    IF stepSize = 0 THEN 1 ELSE 1 + Sets!Max({0, Floor(maximumValue - minimumValue, stepSize)})

value(row) == minimumValue + stepSize * row

\* data of DisplayRole has the separator.
HasSeparator(row) == groups /\ value(row) >= Thousand

NumbersInit == minimumValue = 0 /\ maximumValue = 0 /\ stepSize = 1 /\ groups = TRUE

\* The setters: each resets the model when it changes something.
setMinimumValue(v) == v # minimumValue /\ minimumValue' = v /\ UNCHANGED <<maximumValue, stepSize, groups>>
setMaximumValue(v) == v # maximumValue /\ maximumValue' = v /\ UNCHANGED <<minimumValue, stepSize, groups>>
setStepSize(v) == v # stepSize /\ stepSize' = v /\ UNCHANGED <<minimumValue, maximumValue, groups>>

\* setFormattingOptions: dataChanged() up to the row below the last one, an invalid index,
\* which no listener takes for a row.
setFormattingOptions == groups' = ~groups /\ UNCHANGED <<minimumValue, maximumValue, stepSize>>
============================================================================
