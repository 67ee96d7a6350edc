----------------------------- MODULE Repeater -----------------------------
(***************************************************************************)
(* The value generators of the benchmarks, src/src/bm/base_bm.h 25-77.    *)
(*                                                                         *)
(* A Repeater holds values_ and a cursor idx_; GetValue returns           *)
(* values_[idx_] and advances the cursor modulo the size.  NumberRepeater *)
(* ::Range refills values_ with min, min+step, ... while v <= max;        *)
(* IntRepeater::Random refills it with random_size draws from [min, max]; *)
(* RealRepeater::Random appends its draws to what values_ holds.  No      *)
(* refill touches idx_.                                                   *)
(*                                                                         *)
(* T is an integer type of Width bits: v += step wraps as the compiled    *)
(* code does.  The draws of std::default_random_engine are any values in  *)
(* [min, max].  A loop that would push more than MaxLen values does not   *)
(* end (it only stops when memory runs out).                              *)
(***************************************************************************)
EXTENDS Integers, Sequences

CONSTANTS
    Kind,        \* "int" (IntRepeater) or "real" (RealRepeater)
    Width,       \* bits of T
    InitValues,  \* the vectors the constructor may be given (<<>>: Repeater())
    Fills,       \* the Range and Random calls the caller may make:
                 \* [op, min, max, step] and [op, min, max, n] records
    MaxLen       \* the longest values_ a loop may build before it is cut off

ASSUME Kind \in {"int", "real"} /\ Width \in Nat \ {0} /\ MaxLen \in Nat

TMin == -(2 ^ (Width - 1))
TMax == 2 ^ (Width - 1) - 1

\* Two's-complement wrap-around of T.
Wrap(x) == ((x - TMin) % (2 ^ Width)) + TMin

VARIABLES
    values,  \* values_
    idx,     \* idx_ (uint32_t, always small here)
    ret,     \* the last GetValue: [st |-> "value", v |-> what it returned],
             \* st "none" before any call, or the outcome of undefined
             \* behaviour: "garbage" (a read past the end), "crash", or
             \* "hang" (a Range loop that never ends)
    fill     \* history, not program state: the last Range or Random call

vars == <<values, idx, ret, fill>>

Out(st) == [st |-> st, v |-> 0]
Value(v) == [st |-> "value", v |-> v]

Dead == ret.st \in {"crash", "hang"}

-----------------------------------------------------------------------------
\* The loop "for (T v = min; v <= max; v += step) push_back(v)": the values
\* pushed, and whether the loop ended before MaxLen pushes.
RECURSIVE RangeLoop(_, _, _, _)
RangeLoop(acc, v, max, step) ==
    IF v > max THEN [vals |-> acc, done |-> TRUE]
    ELSE IF Len(acc) = MaxLen THEN [vals |-> acc, done |-> FALSE]
    ELSE RangeLoop(Append(acc, v), Wrap(v + step), max, step)

\* NumberRepeater::Range: clear, then the loop.
Range(min, max, step) ==
    LET r == RangeLoop(<<>>, min, max, step)
    IN  /\ ~Dead
        /\ values' = r.vals
        /\ ret' = IF r.done THEN ret ELSE Out("hang")
        /\ fill' = [op |-> "range", min |-> min, max |-> max, step |-> step]
        /\ UNCHANGED idx

\* random_size draws from [min, max].
Draws(min, max, n) == [1..n -> min..max]

\* IntRepeater::Random clears values_; RealRepeater::Random does not.
Random(min, max, n) ==
    /\ ~Dead
    /\ \E d \in Draws(min, max, n) :
          values' = IF Kind = "int" THEN d ELSE values \o d
    /\ fill' = [op |-> "random", min |-> min, max |-> max, n |-> n]
    /\ UNCHANGED <<idx, ret>>

(***************************************************************************)
(* Repeater::GetValue: read values_[idx_], then idx_ = (idx_+1) % size.    *)
(* On an empty vector the modulo divides by zero.  A cursor left past the  *)
(* end by a shorter refill reads outside the vector: undefined, either a   *)
(* garbage value or a crash; the modulo then brings the cursor back.       *)
(***************************************************************************)
GetValue ==
    /\ ~Dead
    /\ IF values = <<>>
       THEN ret' = Out("crash") /\ UNCHANGED idx
       ELSE /\ IF idx < Len(values)
               THEN ret' = Value(values[idx + 1])
               ELSE ret' \in {Out("garbage"), Out("crash")}
            /\ idx' = (idx + 1) % Len(values)
    /\ UNCHANGED <<values, fill>>

Init ==
    /\ values \in InitValues
    /\ idx = 0
    /\ ret = Out("none")
    /\ fill = [op |-> "construct", vals |-> values]

Next ==
    \/ \E f \in Fills :
          \/ f.op = "range" /\ Range(f.min, f.max, f.step)
          \/ f.op = "random" /\ Random(f.min, f.max, f.n)
    \/ GetValue

Spec == Init /\ [][Next]_vars

-----------------------------------------------------------------------------
\* What Range(min, max, step) is for, independently of its loop: the
\* progression min, min + step, ... up to max (base_bm.h 46-50 as its
\* callers in BuildOnePkTableData use it).
Progression(min, max, step) ==
    IF min > max THEN <<>>
    ELSE [i \in 1..((max - min) \div step + 1) |-> min + (i - 1) * step]

\* A NumberRepeater::Range call with a positive step that returns leaves
\* values_ holding exactly the progression from min up to max: no value
\* below min, none repeated, nothing after the last value <= max.
RangeReturnsProgression ==
    (fill.op = "range" /\ fill.step > 0 /\ ~Dead)
        => values = Progression(fill.min, fill.max, fill.step)

=============================================================================
