---------------------------- MODULE CompileTimeGcd ----------------------------
(***************************************************************************)
(* compile_time_gcd and compile_time_gcd_signed (compile_time_gcd.hpp): the *)
(* compiler instantiates the template for the arguments without their signs *)
(* and then, for one pair after the other, for the pair of b and a % b.     *)
(***************************************************************************)
EXTENDS Integers

CONSTANT Bits   \* the width of the integers

ASSUME WidthAssumption == Bits \in Nat \ {0}

VARIABLES
  gcd_args,        \* the arguments of compile_time_gcd_signed
  gcd_a, gcd_b,    \* those of the latest instantiation of compile_time_gcd
  gcd_status       \* "start", "gcd", "done", or "ill-formed"

gcdVars == <<gcd_args, gcd_a, gcd_b, gcd_status>>

Smallest == -(2 ^ (Bits - 1))
Signed == Smallest .. -Smallest - 1

GcdInit ==
  /\ gcd_args = <<0, 0>>
  /\ gcd_a = 0 /\ gcd_b = 0
  /\ gcd_status = "start"

Magnitude(i) == IF i < 0 THEN -i ELSE i

\* The smallest number cannot be negated: the overflow is no constant expression.
HandleSigns ==
  /\ gcd_status = "start"
  /\ gcd_args' \in Signed \X Signed
  /\ \/ /\ Smallest \in {gcd_args'[1], gcd_args'[2]}
        /\ gcd_status' = "ill-formed"
        /\ UNCHANGED <<gcd_a, gcd_b>>
     \/ /\ Smallest \notin {gcd_args'[1], gcd_args'[2]}
        /\ gcd_a' = Magnitude(gcd_args'[1])
        /\ gcd_b' = Magnitude(gcd_args'[2])
        /\ gcd_status' = "gcd"

Instantiate ==
  /\ gcd_status = "gcd" /\ gcd_b # 0
  /\ gcd_a' = gcd_b
  /\ gcd_b' = gcd_a % gcd_b
  /\ UNCHANGED <<gcd_args, gcd_status>>

\* Mutant of Finish: the recursion ends one pair too early.
FinishAtOne ==
  /\ gcd_status = "gcd" /\ gcd_b <= 1
  /\ gcd_status' = "done"
  /\ UNCHANGED <<gcd_args, gcd_a, gcd_b>>

\* The specialization for b = 0: a is the result.
Finish ==
  /\ gcd_status = "gcd" /\ gcd_b = 0
  /\ gcd_status' = "done"
  /\ UNCHANGED <<gcd_args, gcd_a, gcd_b>>

GcdNext == HandleSigns \/ Instantiate \/ Finish

GcdSpec == GcdInit /\ [][GcdNext]_gcdVars

--------------------------------------------------------------------------------
(* Properties *)

Divides(d, n) == \E q \in 0 .. n : d * q = n

\* The result is the greatest common divisor of the arguments, whatever their
\* signs: it divides both, and whatever divides both divides it (0 for 0 and 0).
ResultIsGcd ==
  gcd_status = "done" =>
    LET Common(d) == \A i \in {1, 2} : Divides(d, Magnitude(gcd_args[i]))
    IN  Common(gcd_a) /\ \A d \in 0 .. -Smallest : Common(d) => Divides(d, gcd_a)

================================================================================
