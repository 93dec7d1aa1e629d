----------------------------- MODULE MCConstraints -----------------------------
(* Every atom over the numbers 0 and 1 with up to three of them, on its own,  *)
(* and pairs of constraints of one or two groups.                             *)
EXTENDS Constraints

MCModifiers == {None, Alpha, Stable}
MCFlags == {None, Beta, Stable}
MCQualifiers == {<<>>, <<1>>}
Any == <<<<[kind |-> "@"]>>>>
Alone == {<<<<<<atom>>>>, Any>> : atom \in Atoms}

\* Atoms of at most two numbers, without what only repeats another.
Short == {a \in Atoms :
            /\ "parts" \in DOMAIN a => Len(a.parts) <= 2
            /\ "flag" \in DOMAIN a => a.flag # Stable
            /\ "low" \in DOMAIN a =>
                a.low.modifier # Stable /\ Len(a.low.parts) <= 2
            /\ "high" \in DOMAIN a =>
                a.high.modifier = None /\ Len(a.high.parts) <= 2}
Narrow == {<<<<a>>>> : a \in Short}
\* Alternatives and conjunctions: "1.0 || >1.1", ">0.1 !=1", "<0".
At(s) == [parts |-> s, modifier |-> None]
Cmp(op, s) == [kind |-> op, low |-> At(s), flag |-> None]
Broad == {<<<<Cmp("=", <<1>>)>>, <<Cmp(">", <<1, 1>>)>>>>,
          <<<<Cmp(">", <<0, 1>>), Cmp("!=", <<1>>)>>>>,
          <<<<Cmp("<", <<0>>)>>, <<Cmp(">=", <<1, 1>>), Cmp("<=", <<1, 1>>)>>>>,
          <<<<Cmp(">", <<1>>), Cmp(">=", <<1>>)>>, <<Cmp("!=", <<0, 1>>)>>>>,
          <<<<Cmp("<=", <<1>>), Cmp("<", <<1>>)>>>>}
Some == Broad \cup {c \in Narrow :
    LET a == c[1][1] IN
    \/ a.kind \in {"*", "@"}
    \/ a.kind \notin {"*", "@"} /\ a.low \in {At(<<1>>), At(<<0, 1>>)}
       /\ ("high" \in DOMAIN a => a.high \in {At(<<1>>), At(<<1, 0>>)})}
MCCases == Alone \cup ((Narrow \cup Broad) \X Some)
================================================================================
