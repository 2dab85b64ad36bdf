---------------------------- MODULE MCAssetGroup -----------------------------
(* Instances of AssetGroup for TLC. *)
EXTENDS AssetGroup, TLC

CONSTANTS a, b, p, q, c1, c2

MCListed == {a, b}
MCPattern == {p}
MCClient == {c1, c2}

Asks(s1, s2) == [c \in MCClient |-> IF c = c1 THEN s1 ELSE s2]
Install == [mode |-> "prefetch", updateMode |-> "prefetch", update |-> FALSE, same |-> {},
            asked |-> Asks({a, p}, {}), maxRestart |-> 0]
Update == [Install EXCEPT !.update = TRUE, !.same = {a}, !.asked = Asks({p}, {})]
LazyUpdate == [Update EXCEPT !.mode = "lazy", !.asked = Asks({}, {}), !.maxRestart = 1]
MCSettings ==
  {Install, Update, LazyUpdate, [LazyUpdate EXCEPT !.updateMode = "lazy"],
   [Install EXCEPT !.mode = "lazy", !.asked = Asks({a, p}, {a, p}),
                   !.maxRestart = 1]}
===============================================================================
