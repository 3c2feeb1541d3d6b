---------------------------- MODULE MCClientFeed ----------------------------
EXTENDS ClientFeed
CONSTANTS r1, r2
MCRows == {r1, r2}
W(rows, structural) == [rows |-> rows, structural |-> structural]
MCWrites == {W({r1}, FALSE), W({r2}, FALSE), W({}, TRUE)}
MCForeign == {r1}
=============================================================================
