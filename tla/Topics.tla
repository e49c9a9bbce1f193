------------------------------- MODULE Topics -------------------------------
(*******************************************************************************)
(* src/src/topics.c: topic strings, the Bloom filters made of them and the     *)
(* matching of a publication's topics with a subscription's.  A topic is the   *)
(* sequence of its characters; the separators are a set of characters.         *)
(*******************************************************************************)
EXTENDS BitVec

CONSTANT Separators

FinalWildc == "#"
InfixWildc == "+"
Wildcards == {FinalWildc, InfixWildc}

IsSep(t, i) == i \in DOMAIN t /\ t[i] \in Separators
\* strcspn(t + i, set) as the position of the first member at or after i, or the end
Span(t, i, set) == LET hits == {j \in i .. Len(t) : t[j] \in set}
                   IN  IF hits = {} THEN Len(t) + 1 ELSE Min(hits)

\* CheckWildcarding: the wildcards stand alone in their segment, # only at the end.
WildcardOK(t, i) == /\ i = 1 \/ IsSep(t, i - 1)
                    /\ i # Len(t) => t[i] = InfixWildc /\ IsSep(t, i + 1)
\* The scan goes on two characters behind an infix wildcard.
RECURSIVE WildcardsOK(_, _)
WildcardsOK(t, i) ==
    LET wc == Span(t, i, Wildcards)
    IN  IF wc > Len(t) THEN ~IsSep(t, Len(t))
        ELSE WildcardOK(t, wc) /\ (wc = Len(t) \/ WildcardsOK(t, wc + 2))
CheckWildcarding(t, pub) ==
    LET wc == Span(t, 1, Wildcards)
    IN  IF wc > Len(t) THEN ~IsSep(t, Len(t)) ELSE ~pub /\ WildcardsOK(t, 1)
ValidTopic(t, pub) == t # <<>> /\ ~IsSep(t, 1) /\ CheckWildcarding(t, pub)

--------------------------------------------------------------------------------
(* DPS_AddTopic: the strings a topic inserts into a filter. *)

Seps(t) == SetToSortSeq({i \in DOMAIN t : t[i] \in Separators}, <)
\* The separators up to and including the k-th, which head the segments inserted.
Prefix(t, k) == [i \in 1 .. k |-> t[Seps(t)[i]]]
\* The segment behind the k-th separator, with the separator that ends it.
Segment(t, k) ==
    LET from == Seps(t)[k] + 1
        end == Span(t, from, Separators)
    IN  Prefix(t, k) \o SubSeq(t, from, IF end > Len(t) THEN Len(t) ELSE end)
SegmentInserted(t, k, wc) ==
    LET from == Seps(t)[k] + 1
    IN  from > wc /\ (from \notin DOMAIN t \/ t[from] # InfixWildc \/ from = Len(t))

PubStringsBug(t) ==
    {t} \cup {SubSeq(t, 1, Seps(t)[k]) : k \in DOMAIN Seps(t)}
        \cup {Segment(t, k) : k \in DOMAIN Seps(t)}
        \cup {Prefix(t, k) \o <<FinalWildc>> : k \in 0 .. Len(Seps(t))}
PubStrings(t) ==
    {t} \cup {SubSeq(t, 1, Seps(t)[k]) : k \in DOMAIN Seps(t)}
        \cup {Segment(t, k) : k \in DOMAIN Seps(t)}
        \cup {Prefix(t, Len(Seps(t))) \o <<InfixWildc>>}
        \cup {Prefix(t, k) \o <<FinalWildc>> : k \in 0 .. Len(Seps(t))}
SubStrings(t) ==
    LET wc == Span(t, 1, Wildcards)
    IN  IF wc > Len(t) THEN {t}
        ELSE (IF wc > 1 THEN {SubSeq(t, 1, wc - 1)} ELSE {})
             \cup {Segment(t, k) : k \in {j \in DOMAIN Seps(t) : SegmentInserted(t, j, wc)}}
AddTopic(bf, t, pub) ==
    IF ~ValidTopic(t, pub) THEN bf
    ELSE bf \cup UNION {Hashes(str) : str \in IF pub THEN PubStrings(t) ELSE SubStrings(t)}
Filter(topics, pub) == FoldLeft(LAMBDA bf, t : AddTopic(bf, t, pub), {}, topics)

--------------------------------------------------------------------------------
(* DPS_MatchTopicString and DPS_MatchTopicList, called with noWild false. *)

At(t, i) == IF i \in DOMAIN t THEN t[i] ELSE "end"
RECURSIVE MatchFrom(_, _, _, _)
\* The characters at i and j are compared, and both topics go on.
MatchNext(p, i, s, j) ==
    IF At(p, i) # At(s, j) THEN FALSE ELSE MatchFrom(p, i + 1, s, j + 1)
MatchFrom(p, i, s, j) ==
    IF i > Len(p) \/ j > Len(s) THEN i > Len(p) /\ j > Len(s)
    ELSE IF s[j] \notin Wildcards THEN MatchNext(p, i, s, j)
    ELSE LET n == Span(p, i, Separators)
         IN  IF n > i /\ j = Len(s) /\ (s[j] = FinalWildc \/ n > Len(p)) THEN TRUE
             ELSE MatchNext(p, n, s, j + 1)
MatchTopicString(p, s) == CheckWildcarding(p, TRUE) /\ CheckWildcarding(s, FALSE) /\ MatchFrom(p, 1, s, 1)
MatchTopicListBug(pubs, subs) == \E i \in DOMAIN subs : \E j \in DOMAIN pubs : MatchTopicString(pubs[j], subs[i])
\* Every topic of the subscription is matched by one of the publication.
MatchTopicList(pubs, subs) == \A i \in DOMAIN subs : \E j \in DOMAIN pubs : MatchTopicString(pubs[j], subs[i])
================================================================================
