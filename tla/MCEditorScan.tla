---------------------------- MODULE MCEditorScan ----------------------------
(* Model values for EditorScan: a scanner for which a sink is a finding     *)
(* unless a check comes somewhere before it.                               *)
EXTENDS EditorScan

CONSTANTS f1

MCFlaws == {f1}

\* What lines say in the short document and in the long one.
ShortLines == {"check", "sink"}
LongLines == ShortLines \cup {"plain"}

MCAnalysis ==
    [t \in UNION {[1..n -> LineTexts] : n \in 1..MaxLength} |->
        {[line |-> l, flaw |-> f1] :
            l \in {k \in DOMAIN t : t[k] = "sink" /\ \A i \in 1..k - 1 : t[i] # "check"}}]

\* Two documents as opened.  The short one is scanned with Pad = 0, which leaves the sink out of
\* reach of an edit of its check as LINE_PAD does in a long one; the long one with the code's
\* padding.
Short == <<"check", "sink">>
Long == <<"plain", "plain", "plain", "sink">>
=============================================================================
