------------------------------ MODULE ArangeIP ------------------------------
(***************************************************************************)
(* The two looping template functions of pkg/render/template.go: arange   *)
(* (lines 281-288), and arangeIP (lines 290-303) with its recursive carry  *)
(* ipV4Increase (lines 306-320).  One behaviour is one call.               *)
(*                                                                         *)
(* An address is the result of strings.Split(text, "."): a sequence of     *)
(* segments, each either the integer strconv.Atoi reads from it or Bad     *)
(* when Atoi fails.  Only a segment that is changed is re-printed, and a   *)
(* changed segment never prints as its old text (Atoi(Itoa(k)) = k), so    *)
(* two addresses are equal strings exactly when their segment sequences    *)
(* are equal.  Go's int cannot overflow in arangeIP: a segment of 255 or   *)
(* more is reset, never incremented.  It can in arange's i += step, so     *)
(* arange's integers are IntWidth bits wide (64 in the build) and wrap.    *)
(***************************************************************************)
EXTENDS Integers, Sequences, SequencesExt

CONSTANTS
    Octets,   \* integer values a segment may hold
    Bad,      \* a segment Atoi rejects
    Lengths,  \* numbers of segments of the starting text
    Counts,   \* values of the count argument
    IntWidth  \* bits of Go's int in arange

ASSUME Octets \subseteq Int /\ Bad \notin Int
ASSUME Lengths \subseteq Nat \ {0} /\ Counts \subseteq Int
ASSUME IntWidth \in Nat \ {0}

\* Go's int: IntWidth-bit two's complement, addition wraps.
MinInt == -(2 ^ (IntWidth - 1))
MaxInt == 2 ^ (IntWidth - 1) - 1
GoInt == MinInt..MaxInt
Wrap(x) == ((x - MinInt) % (2 ^ IntWidth)) + MinInt

(* arange's loop state is i alone.  A call that has appended MaxRange      *)
(* values and would append another has seen some i twice, so it is in a   *)
(* cycle and never returns; the model stops extending its result there.   *)
MaxRange == 2 ^ IntWidth

Segment == Octets \cup {Bad}
Address == UNION {[1..n -> Segment] : n \in Lengths}

\* A call of either function with its arguments.
Call == [fn : {"arangeIP"}, count : Counts]
          \cup [fn : {"arange"}, from : GoInt, to : GoInt, step : GoInt]

VARIABLES
    result,   \* the []string (arangeIP) or []int (arange) built so far
    call,     \* the function called and its arguments
    i,        \* the loop counter
    pc        \* "loop" or "done" once the function returned

vars == <<result, call, i, pc>>

(***************************************************************************)
(* ipV4Increase(segs, index), with Go's 0-based index: out of range or an  *)
(* unparsable segment returns the address as it is; 255 or more becomes 1  *)
(* and carries to index - 1; anything else is incremented.  The segments   *)
(* set to 1 on the way down stay set, as Go mutates segs in place.         *)
(***************************************************************************)
\* Mutant: the carry triggered only above 255.
RECURSIVE ipV4IncreaseAbove255(_, _)
ipV4IncreaseAbove255(segs, index) ==
    LET k == index + 1
    IN  IF index > 3 \/ index < 0 \/ index >= Len(segs) \/ segs[k] = Bad
        THEN segs
        ELSE IF segs[k] > 255
             THEN ipV4IncreaseAbove255([segs EXCEPT ![k] = 1], index - 1)
             ELSE [segs EXCEPT ![k] = segs[k] + 1]

RECURSIVE ipV4Increase(_, _)
ipV4Increase(segs, index) ==
    LET k == index + 1
    IN  IF index > 3 \/ index < 0 \/ index >= Len(segs) \/ segs[k] = Bad
        THEN segs
        ELSE IF segs[k] >= 255
             THEN ipV4Increase([segs EXCEPT ![k] = 1], index - 1)
             ELSE [segs EXCEPT ![k] = segs[k] + 1]

(* The entry of each function: arangeIP starts result with the start text *)
(* and i at 1; arange starts an empty result with i at from.               *)
Init ==
    /\ call \in Call
    /\ result \in IF call.fn = "arangeIP" THEN {<<a>> : a \in Address} ELSE {<<>>}
    /\ i = IF call.fn = "arangeIP" THEN 1 ELSE call.from
    /\ pc = "loop"

\* One iteration of the for loop that produces a new address.
Extend ==
    LET next == ipV4Increase(Last(result), 3)
    IN  /\ pc = "loop"
        /\ call.fn = "arangeIP"
        /\ i < call.count
        /\ next # Last(result)
        /\ result' = Append(result, next)
        /\ i' = i + 1
        /\ UNCHANGED <<call, pc>>

\* The early return when the increment left the address as it was.
StopOnRepeat ==
    /\ pc = "loop"
    /\ call.fn = "arangeIP"
    /\ i < call.count
    /\ ipV4Increase(Last(result), 3) = Last(result)
    /\ pc' = "done"
    /\ UNCHANGED <<result, call, i>>

\* The loop condition i < count fails and the result is returned.
Finish ==
    /\ pc = "loop"
    /\ call.fn = "arangeIP"
    /\ i >= call.count
    /\ pc' = "done"
    /\ UNCHANGED <<result, call, i>>

\* One turn of arange's loop: append i, then i += step with wrap-around.
RangeStep ==
    /\ pc = "loop"
    /\ call.fn = "arange"
    /\ i <= call.to
    /\ Len(result) < MaxRange
    /\ result' = Append(result, i)
    /\ i' = Wrap(i + call.step)
    /\ UNCHANGED <<call, pc>>

\* arange's loop condition i <= to fails and the result is returned.
RangeEnd ==
    /\ pc = "loop"
    /\ call.fn = "arange"
    /\ i > call.to
    /\ pc' = "done"
    /\ UNCHANGED <<result, call, i>>

Next == Extend \/ StopOnRepeat \/ Finish \/ RangeStep \/ RangeEnd

(* The function runs on the goroutine executing the template, which the Go *)
(* scheduler keeps running: a loop step that stays enabled is taken.       *)
Spec == Init /\ [][Next]_vars /\ WF_vars(Next)

-----------------------------------------------------------------------------
(***************************************************************************)
(* Reference successor of a dotted quad, read from the documented rule:    *)
(* the rightmost octet below 255 goes up by one and every octet to its     *)
(* right restarts at 1.  It is defined only when such an octet exists.     *)
(***************************************************************************)
IsQuad(a) == Len(a) = 4 /\ \A k \in 1..4 : a[k] \in 0..255
IsTop(a) == IsQuad(a) /\ \A k \in 1..4 : a[k] = 255

RefSucc(a) ==
    LET p == CHOOSE k \in 1..4 : a[k] < 255 /\ \A m \in (k + 1)..4 : a[m] = 255
    IN  [k \in 1..4 |-> IF k < p THEN a[k] ELSE IF k = p THEN a[k] + 1 ELSE 1]

(* Each address arangeIP appends after a dotted quad that is not           *)
(* 255.255.255.255 is that quad's successor under the carry rule: the last *)
(* octet counts up to 255, then restarts at 1 and carries leftwards.       *)
SuccessorIsReference ==
    call.fn = "arangeIP" =>
        \A k \in 1..(Len(result) - 1) :
        IsQuad(result[k]) /\ ~IsTop(result[k]) => result[k + 1] = RefSucc(result[k])

(* spec.md 4.1: ipSequence(start, count) returns count addresses or       *)
(* fewer.  arangeIP puts the start address in its result before the loop  *)
(* tests count (line 292), so a count below 1 still returns one address;  *)
(* no run keeps this, README section 3 gives the cfg that shows it.        *)
ResultLength ==
    pc = "done" /\ call.fn = "arangeIP" => Len(result) <= call.count

(* spec.md 3 (the function table): arange has an infinite-loop risk when   *)
(* step <= 0 that "must be guarded"; a guarded arange always returns.      *)
ArangeReturns == call.fn = "arange" => <>(pc = "done")
=============================================================================
