------------------------------ MODULE MCMacTc ------------------------------
EXTENDS MacTc, TLC
CONSTANTS a, b, c, none

\* Case a has 15 kHz and a request of each kind in every slot; b has 30 kHz,
\* and requests in some slots; c comes without a configuration.
MCScsOf == (a :> 15 @@ b :> 30 @@ c :> 15)
MCFiles ==
  {<<a, k, f, s>> : k \in Kinds, f \in {0, 1}, s \in 0..2}
    \cup {<<b, k, f, s>> : k \in {"dltti", "txdata"}, f \in {0, 1}, s \in {0, 4}}
    \cup {<<c, "ultti", 0, 1>>}
MCStartTimes == {[sfn |-> 3, slot |-> 1], [sfn |-> 0, slot |-> 5]}

All == Ids
=============================================================================
