------------------------------ MODULE MCPragma ------------------------------
(* Every file of up to four lines over the rules a and "*": lists of one   *)
(* and two rules, a rule named twice, and lines without a pragma.          *)
EXTENDS Pragma

CONSTANTS a, star, eof

MCRule == {a, star}
MCLists == {<<a>>, <<star>>, <<a, star>>, <<star, a>>, <<a, a>>}
MCLine == [verb : {"disable", "enable"}, rules : MCLists]
          \cup {[verb |-> "none", rules |-> <<>>]}
MCSources == UNION {[1..n -> MCLine] : n \in 0..4}
=============================================================================
