----------------------------- MODULE MCWorldGraph -----------------------------
EXTENDS WorldGraph

CONSTANTS a, b, p, q, r, x

Scene == [said |-> {}, over |-> {}, moves |-> <<>>, hands |-> <<>>, forgotten |-> {}]

GoesTo(place) == [who |-> a, to |-> place]
GivenTo(who, kept) == [item |-> x, to |-> who, kept |-> kept]

\* a moves between p and q, and r, which has no sheet; a and b hand x to each other.
MCTellings ==
    {[Scene EXCEPT !.moves = moves] : moves \in
        {<<>>, <<GoesTo(p)>>, <<GoesTo(q)>>, <<GoesTo(Nil)>>, <<GoesTo(p), GoesTo(q)>>, <<GoesTo(r)>>}}
    \cup {[Scene EXCEPT !.said = {InPlace(a, q)}],
           [Scene EXCEPT !.said = {InPlace(a, r)}, !.over = {InPlace(a, p)}]}
    \cup {[Scene EXCEPT !.hands = <<hand>>] : hand \in
        {GivenTo(a, TRUE), GivenTo(b, TRUE), GivenTo(b, FALSE)}}
    \cup {[Scene EXCEPT !.said = {Knows(a, b)}], [Scene EXCEPT !.forgotten = {Knows(a, b)}]}

MCBefore == {{}, {InPlace(a, p), Carries(a, x)}}
=============================================================================
