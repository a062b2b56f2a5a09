---------------------------- MODULE LikePattern -----------------------------
(***************************************************************************)
(* The substring filters of SearchProfiles in internal/dao/sql_dao.go: a   *)
(* term is escaped by escapeLike, put between two % and matched by LIKE    *)
(* with ESCAPE '\'.  Texts are sequences of characters; LOWER is left out. *)
(***************************************************************************)
EXTENDS Integers, Sequences, SequencesExt

CONSTANTS
    MaxTerm,   \* bound: the length of a term
    MaxText    \* bound: the length of a column's text

ASSUME LikePatternAssumption == MaxTerm \in Nat /\ MaxText \in Nat

Chars == {"%", "_", "\\", "x"}

Words(n) == UNION {[1..k -> Chars] : k \in 0..n}

-----------------------------------------------------------------------------
(* Seeded faults: each replaces the definition it is named after, to see a *)
(* property fail.  None is part of the specification.                      *)

SpecialButEscape == {"%", "_"}

-----------------------------------------------------------------------------
Special == {"%", "_", "\\"}

escapeLike(term) ==
    FlattenSeq([i \in DOMAIN term |->
        IF term[i] \in Special THEN <<"\\", term[i]>> ELSE <<term[i]>>])

Pattern(term) == <<"%">> \o escapeLike(term) \o <<"%">>

\* LIKE, as SQL defines it: from which places in t on does p match from its
\* i-th character on?  A pattern that ends in the escape character matches
\* nothing.
Like(t, p) ==
    LET from[i \in 1..(Len(p) + 2)] ==
          IF i = Len(p) + 1 THEN {Len(t) + 1}
          ELSE IF i > Len(p) THEN {}
          ELSE IF p[i] = "%" THEN {j \in 1..(Len(t) + 1) : \E k \in from[i + 1] : j <= k}
          ELSE IF p[i] = "_" THEN {j \in 1..Len(t) : j + 1 \in from[i + 1]}
          ELSE IF p[i] = "\\"
            THEN {j \in 1..Len(t) : i < Len(p) /\ p[i + 1] = t[j] /\ j + 1 \in from[i + 2]}
          ELSE {j \in 1..Len(t) : p[i] = t[j] /\ j + 1 \in from[i + 1]}
    IN  1 \in from[1]

-----------------------------------------------------------------------------
(* Properties.                                                             *)

HasTerm(t, term) ==
    \E k \in 0..(Len(t) - Len(term)) : \A i \in DOMAIN term : t[k + i] = term[i]

\* A search finds exactly the texts that contain the term as it was typed,
\* wildcards and escape characters in either of them included.
LikeIsSubstring ==
    \A term \in Words(MaxTerm), t \in Words(MaxText) :
        Like(t, Pattern(term)) <=> HasTerm(t, term)
=============================================================================
