------------------------------- MODULE MCDriver -------------------------------
\* Instances of Driver for TLC.
EXTENDS Driver

CONSTANTS h1, h2, h3, c1, e1, k1, k2

MCHash2 == {h1, h2}
MCHash3 == {h1, h2, h3}
MCNoBad == {}
MCBad2 == {h2}
MCClient1 == {c1}
MCEvent0 == {}
MCEvent1 == {e1}
MCCheck1 == {k1}
MCCheck2 == {k1, k2}
===============================================================================
