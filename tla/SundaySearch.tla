----------------------------- MODULE SundaySearch -----------------------------
(***************************************************************************)
(* The search of __read_from_buffer (src/src/stream.cpp) for the string    *)
(* _read_until in _rdbuf, one comparison or shift per step.                *)
(*                                                                         *)
(* Positions are offsets from _rdbuf.begin().  Nothing in the code keeps   *)
(* them below _rdbuf.end(), so mem holds the characters of _rdbuf followed *)
(* by whatever the deque's memory holds after them.  Beyond mem, and when  *)
(* char_step is indexed with a negative char, the search is "wild".        *)
(***************************************************************************)
EXTENDS Integers, Sequences

CONSTANTS
    Chars,     \* byte values told apart
    Negative,  \* those whose char is negative
    Until,     \* the string searched for
    MaxLen,    \* bound: length of _rdbuf
    Slack      \* bound: bytes of memory modelled after it

ASSUME SearchAssumption ==
    /\ Negative \subseteq Chars
    /\ Until \in Seq(Chars \ Negative) /\ Until # <<>>
    /\ MaxLen \in Nat /\ Slack \in Nat

VARIABLES
    mem,     \* contents of _rdbuf, and of the memory after it
    size,    \* _rdbuf.size()
    tmp,     \* start of the window; the code's itr is tmp + subind
    subind,
    result   \* "searching", "found", "exit" (SUNDAY_SEARCH_EXIT) or "wild"

vars == <<mem, size, tmp, subind, result>>

Width == Len(Until)

\* Dereferencing an iterator that far from begin().
At(i) == mem[i + 1]
Readable(i) == i < Len(mem)

\* Mutants: the first occurrence instead of the last; shifts one too short.
char_stepFirst(c) ==
    LET at == {i \in DOMAIN Until : Until[i] = c}
    IN  IF at = {} THEN Width + 1
        ELSE Width + 1 - CHOOSE i \in at : \A j \in at : i <= j

char_stepShort(c) ==
    LET at == {i \in DOMAIN Until : Until[i] = c}
    IN  IF at = {} THEN Width
        ELSE Width - CHOOSE i \in at : \A j \in at : j <= i

\* char_step: how far the last occurrence in Until is from its end.
char_step(c) ==
    LET at == {i \in DOMAIN Until : Until[i] = c}
    IN  IF at = {} THEN Width + 1
        ELSE CHOOSE n \in 1..Width : /\ Width + 1 - n \in at
                                     /\ \A i \in at : i <= Width + 1 - n

Matches  == At(tmp + subind) = Until[subind + 1]
Mismatch == result = "searching" /\ Readable(tmp + subind) /\ ~Matches

\* "end() - tmp < _until_str_len" is an unsigned comparison: it is false again
\* once tmp has passed the end.
TooShort == size - tmp >= 0 /\ size - tmp < Width

Compare ==
    /\ result = "searching" /\ Readable(tmp + subind) /\ Matches
    /\ subind' = subind + 1
    /\ result' = IF subind' = Width THEN "found" ELSE result
    /\ UNCHANGED <<mem, size, tmp>>

GiveUp ==
    /\ Mismatch /\ TooShort
    /\ result' = "exit"
    /\ UNCHANGED <<mem, size, tmp, subind>>

Shift ==
    /\ Mismatch /\ ~TooShort
    /\ Readable(tmp + Width) /\ At(tmp + Width) \notin Negative
    /\ tmp' = tmp + char_step(At(tmp + Width))
    /\ subind' = 0
    /\ result' = IF tmp' = size THEN "exit" ELSE result
    /\ UNCHANGED <<mem, size>>

GoWild ==
    /\ result = "searching"
    /\ \/ ~Readable(tmp + subind)
       \/ /\ Mismatch /\ ~TooShort
          /\ Readable(tmp + Width) => At(tmp + Width) \in Negative
    /\ result' = "wild"
    /\ UNCHANGED <<mem, size, tmp, subind>>

Init ==
    /\ size \in 0..MaxLen
    /\ mem \in [1..(size + Slack) -> Chars]
    /\ tmp = 0 /\ subind = 0
    /\ result = IF size = 0 THEN "exit" ELSE "searching"

Next == Compare \/ GiveUp \/ Shift \/ GoWild

Spec == Init /\ [][Next]_vars
FairSpec == Spec /\ WF_vars(Next)

-----------------------------------------------------------------------------
(* The reference: the occurrences of Until in _rdbuf.                       *)

OccursAt(p) == /\ p + Width <= size
               /\ \A i \in 1..Width : mem[p + i] = Until[i]

Occurrences == {p \in 0..size : OccursAt(p)}

First(p) == p \in Occurrences /\ \A q \in Occurrences : p <= q

Ascii == \A i \in 1..size : mem[i] \notin Negative

TypeOK ==
    /\ mem \in Seq(Chars) /\ size \in 0..Len(mem)
    /\ tmp \in Nat /\ subind \in 0..Width
    /\ result \in {"searching", "found", "exit", "wild"}

\* No shift skips an occurrence: the search never gives up on a buffer that
\* holds the terminator, and what it finds inside the buffer is the first one.
FindsFirst ==
    /\ result = "exit" => Occurrences = {}
    /\ result = "found" /\ tmp + Width <= size => First(tmp)

\* A buffer with a complete header, all in ASCII, is searched without a single
\* access outside of it.
CompleteIsSafe ==
    Occurrences # {} /\ Ascii
        => result # "wild" /\ tmp + Width <= size

\* What makes these inductive: the window starts at no later place than the
\* first occurrence, and what precedes itr in it has been compared.
MatchedSoFar == \A i \in 1..subind : mem[tmp + i] = Until[i]

NothingSkipped ==
    /\ result \in {"searching", "found"} => \A q \in Occurrences : tmp <= q
    /\ result = "searching" => subind < Width
    /\ result = "found" => subind = Width

IInv == TypeOK /\ MatchedSoFar /\ NothingSkipped /\ FindsFirst /\ CompleteIsSafe

\* The search of such a buffer ends, and finds the header.
CompleteIsFound == Occurrences # {} /\ Ascii ~> result = "found"

\* stream.cpp, "Could not find it." when the rest of the buffer is too short and
\* "Find it!!" after the last comparison: what is found is in the buffer.
FoundIsThere == result = "found" => tmp \in Occurrences
===============================================================================
