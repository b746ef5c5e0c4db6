------------------------------ MODULE PathText ------------------------------
(***************************************************************************)
(* Path and Key (key.hpp) on the strings the user writes.  The modules of  *)
(* the backends take a path to be the sequence of its segments; here it is *)
(* a text, that is a sequence of characters, and the methods of Path are   *)
(* searches and cuts in that text.  TextsAgree says that the two views     *)
(* are one.                                                                *)
(***************************************************************************)
EXTENDS Naturals, Sequences, SequencesExt

CONSTANTS
    Chars,          \* the characters of the texts, "/" and "." among them
    Unprintable,    \* those that are not between 0x20 and 0x7E
    Reserved,       \* the text that stands for "zookeeper"
    MaxText         \* the longest text that is tried

ASSUME CharsAssumption ==
    /\ {"/", "."} \subseteq Chars \ Unprintable
    /\ Reserved \in Seq(Chars \ {"/"}) \ {<<>>, <<".">>, <<".", ".">>}
    /\ MaxText \in Nat

Texts == BoundedSeq(Chars, MaxText)

-----------------------------------------------------------------------------
\* Path::validate_segment_
ValidSegment(s) ==
    /\ \A i \in DOMAIN s : s[i] \notin Unprintable
    /\ s \notin {<<>>, <<".">>, <<".", ".">>, Reserved}

\* std::find(it, end, '/'): the first slash from position i on, or the end.
SegmentEnd(t, i) == Min({j \in i..Len(t) : t[j] = "/"} \cup {Len(t) + 1})

\* Mutant: empty segments are skipped, as most functions that split a string do.
NonEmptySegments(t) ==
    LET Cut[i \in 0..Len(t)] ==
            LET e    == SegmentEnd(t, i + 1)
                rest == IF e > Len(t) THEN <<>> ELSE Cut[e]
            IN  IF e = i + 1 THEN rest ELSE <<SubSeq(t, i + 1, e - 1)>> \o rest
    IN  IF t = <<>> THEN <<>> ELSE Cut[1]

\* Path::segments(): Cut[i] is what the loop still finds when "it" is at the slash in position i.
Segments(t) ==
    LET Cut[i \in 0..Len(t)] ==
            LET e == SegmentEnd(t, i + 1)
            IN  <<SubSeq(t, i + 1, e - 1)>> \o (IF e > Len(t) THEN <<>> ELSE Cut[e])
    IN  IF t = <<>> THEN <<>> ELSE Cut[1]

\* The constructor of Path accepts t; otherwise it throws InvalidKey.
IsPath(t) ==
    /\ t # <<>> => t[1] = "/"
    /\ \A i \in DOMAIN Segments(t) : ValidSegment(Segments(t)[i])

\* The constructor of Key.
IsKey(t) == IsPath(t) /\ t # <<>>

\* Path::parent(): the text before the last slash.
ParentText(t) == IF t = <<>> THEN t ELSE SubSeq(t, 1, Max({i \in DOMAIN t : t[i] = "/"}) - 1)

\* Path::operator/, whose result is validated again.
JoinText(p, q) == p \o q

-----------------------------------------------------------------------------
\* How a sequence of segments is written.
Written(segs) == FlattenSeq([i \in DOMAIN segs |-> <<"/">> \o segs[i]])

\* All paths that fit into a text, from their segments.
WrittenPaths ==
    LET names == {s \in BoundedSeq(Chars \ {"/"}, MaxText) : ValidSegment(s)}
    IN  {Written(segs) : segs \in BoundedSeq(names, MaxText \div 2)} \cap Texts

(***************************************************************************)
(* The constructor accepts exactly the texts that write a sequence of      *)
(* valid segments, and segments() gives that sequence back.  parent() and  *)
(* operator/ on accepted texts give texts that are accepted again and      *)
(* stand for the sequence without its last segment and for the two         *)
(* sequences one after the other, which is how ClientAPI defines them.     *)
(***************************************************************************)
TextsAgree ==
    LET paths == {t \in Texts : IsPath(t)}
    IN  /\ paths = WrittenPaths
        /\ \A t \in paths : Written(Segments(t)) = t
        /\ \A t \in paths \ {<<>>} :
              IsPath(ParentText(t)) /\ Segments(ParentText(t)) = Front(Segments(t))
        /\ \A p, q \in paths :
              IsPath(JoinText(p, q)) /\ Segments(JoinText(p, q)) = Segments(p) \o Segments(q)

=============================================================================
