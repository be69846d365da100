------------------------------ MODULE Bencode ------------------------------
(***************************************************************************)
(* value_end (bencode.rs): where the bencoded value at the beginning of a  *)
(* buffer ends.  skip_value calls itself for what a list or a dict holds;  *)
(* since it keeps nothing else across the call, the depth is its whole     *)
(* stack.  One step is what skip_value does before it calls itself again or*)
(* returns.  Lists and dicts are one case of the code and one byte here.   *)
(***************************************************************************)
EXTENDS Naturals, SequencesExt

CONSTANTS
  MaxDepth,  \* MAX_DEPTH, 64
  MaxUsize,  \* usize::MAX
  Base,      \* of the decimal lengths, 10
  MaxLen     \* bound: length of the buffer

ASSUME SizeAssumption ==
  MaxDepth \in Nat /\ MaxUsize \in Nat /\ Base \in Nat \ {0, 1} /\ MaxLen \in Nat

Digit == [b \in {"0", "1", "2"} |-> CASE b = "0" -> 0 [] b = "1" -> 1 [] b = "2" -> 2]

Byte == {"l", "e", "i", ":"} \cup DOMAIN Digit

VARIABLES
  buf,    \* the buffer
  i,      \* bytes read so far
  depth,  \* lists and dicts that are open
  state   \* about to skip a value, done with one, or the answer

vars == <<buf, i, depth, state>>

TypeOK ==
  /\ buf \in Seq(Byte)
  /\ i \in 0..Len(buf)
  /\ depth \in 0..MaxDepth
  /\ state \in {"value", "inside", "some", "none"}

Init ==
  /\ buf \in UNION {[1..n -> Byte] : n \in 0..MaxLen}
  /\ i = 0 /\ depth = 0 /\ state = "value"

\* buf.get(i)
At(k) == k < Len(buf)
Get(k) == buf[k + 1]

Fail == state' = "none" /\ UNCHANGED <<i, depth>>

\* Mutant of Skipped: the value is not passed.
SkippedInPlace(k) ==
  /\ state' = IF depth = 0 THEN "some" ELSE "inside"
  /\ UNCHANGED <<i, depth>>

\* A whole value has been read up to k; in the outermost call, that is all.
Skipped(k) ==
  /\ i' = k
  /\ state' = IF depth = 0 THEN "some" ELSE "inside"
  /\ UNCHANGED depth

TooDeep(d) == d >= MaxDepth

Open ==
  /\ At(i) /\ Get(i) = "l"
  /\ IF TooDeep(depth) THEN Fail
     ELSE i' = i + 1 /\ depth' = depth + 1 /\ state' = "inside"

IntegerValue ==
  /\ At(i) /\ Get(i) = "i"
  /\ LET ends == {k \in i + 1..Len(buf) - 1 : Get(k) = "e"} IN
     IF ends = {} THEN Fail
     ELSE \E k \in ends : (\A m \in ends : k <= m) /\ Skipped(k + 1)

\* The first byte from k on that is not a digit, or the end.
AfterDigits(k) ==
  CHOOSE m \in k..Len(buf) :
    /\ \A n \in k..m - 1 : Get(n) \in DOMAIN Digit
    /\ At(m) => Get(m) \notin DOMAIN Digit

Number(s) == FoldLeft(LAMBDA n, b : n * Base + Digit[b], 0, s)

\* Mutant of Length: the length wraps around.
LengthWraps(s) == Number(s) % (MaxUsize + 1)

\* checked_mul and checked_add; leading zeros do not matter, so that the last
\* intermediate result is the largest.
Length(s) == Number(s)

Overflows(s) == Length(s) > MaxUsize

\* Mutant of Fits: the length is compared with the whole buffer.
FitsInBuffer(len, k) == len <= Len(buf)

\* len <= buf.len() - i
Fits(len, k) == len <= Len(buf) - k

StringValue ==
  /\ At(i) /\ Get(i) \in DOMAIN Digit
  /\ LET m == AfterDigits(i)
         digits == SubSeq(buf, i + 1, m)
     IN IF ~Overflows(digits) /\ At(m) /\ Get(m) = ":" /\ Fits(Length(digits), m + 1)
        THEN Skipped(m + 1 + Length(digits))
        ELSE Fail

NoValue ==
  /\ At(i) => Get(i) \in {"e", ":"}
  /\ Fail

SkipValue == state = "value" /\ (Open \/ IntegerValue \/ StringValue \/ NoValue)

\* The loop in a list: it ends, or there is one more value.
Inside ==
  /\ state = "inside"
  /\ IF At(i) /\ Get(i) = "e"
     THEN /\ i' = i + 1
          /\ depth' = depth - 1
          /\ state' = IF depth = 1 THEN "some" ELSE "inside"
     ELSE state' = "value" /\ UNCHANGED <<i, depth>>

Answered == state \in {"some", "none"} /\ UNCHANGED vars

Next == ((SkipValue \/ Inside) /\ UNCHANGED buf) \/ Answered

Spec == Init /\ [][Next]_vars /\ WF_vars(Next)

(***************************************************************************)
(* What is right, by the grammar: IsValue[a, b, d] says that the bytes     *)
(* a..b are one value nested at most d deep.                               *)
(***************************************************************************)

\* Cut into pieces, each of which passes: the pieces begin at the cuts.
IsValue[a \in 1..MaxLen, b \in 0..MaxLen, d \in 0..MaxDepth] ==
  /\ a <= b /\ b <= Len(buf)
  /\ \/ /\ buf[a] = "i" /\ buf[b] = "e"
        /\ \A k \in a + 1..b - 1 : buf[k] # "e"
     \/ \E c \in a + 1..b :
          /\ buf[c] = ":" /\ \A k \in a..c - 1 : buf[k] \in DOMAIN Digit
          /\ Number(SubSeq(buf, a, c - 1)) = b - c
     \/ /\ d > 0 /\ a < b /\ buf[a] = "l" /\ buf[b] = "e"
        /\ \E inner \in SUBSET (a + 1..b) :
             /\ {a + 1, b} \subseteq inner
             /\ \A x, y \in inner :
                  (x < y /\ \A z \in inner : z <= x \/ y <= z) => IsValue[x, y - 1, d - 1]

(***************************************************************************)
(* Properties.                                                             *)
(***************************************************************************)

\* What value_end returns is the end of a value at the beginning of the buffer
\* (bencode.rs:9-10), and it returns none only when no beginning of the buffer
\* is a value nested as deep as is accepted.
AgreesWithGrammar ==
  /\ state = "some" => IsValue[1, i, MaxDepth]
  /\ state = "none" => \A b \in 1..Len(buf) : ~IsValue[1, b, MaxDepth]

\* It returns.
Ends == <>(state \in {"some", "none"})

=============================================================================
