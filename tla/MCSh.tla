------------------------------- MODULE MCSh -------------------------------
(* Small instance of Sh for TLC: every line of up to three tokens, or four  *)
(* of the ones that nest, and some longer lines.                            *)
EXTENDS Sh

UpTo(n, Tokens) == UNION {[1..k -> Tokens] : k \in 0..n}
MCLines ==
    UpTo(3, {"a", ">", "|", "&", ";", "(", ")"}) \cup UpTo(4, {"a", ">", "|", "("}) \cup UpTo(4, {"a", "&", "(", ")"})
    \cup {<<"a", "<", "a">>, <<"a", ">>", "a", "<", "a">>, <<"cd", "a">>, <<"cd", "|", "a">>,
          <<"cd", ">", "a">>,
          <<"a", "|", "a", "|", "a">>, <<"(", "a", "&", ")", "|", "a">>,
          <<"(", "a", "|", "a", ")", ">", "a">>, <<"a", ">", "a", "|", "a">>,
          <<"a", "|", "a", "&", ";", "a">>, <<"a", "|", "(", "a", ";", "a", ")">>}
MCLaterLines == {<<"a">>, <<"a", "|", "a">>}
===========================================================================
