-------------------------- MODULE ChatTranslationMC --------------------------
(* Instances of ChatTranslation for TLC. *)
EXTENDS ChatTranslation, TLC

Symmetric == Permutations(Calls)

Part(type, n) == [type |-> type, body |-> <<n>>]

\* A conversation that has just begun, and one with every kind of turn: parts of
\* several types, a call and its answer, and instructions in the middle.
SomeHistories ==
  {<<Turn("system", <<Part("text", 101)>>, <<>>, NoCall), Turn("user", <<Part("text", 102)>>, <<>>, NoCall)>>,
   <<Turn("user", <<Part("text", 101), Part("image", 102), Part("audio", 103), Part("text", 104)>>, <<>>, NoCall),
     Turn("assistant", <<Part("text", 105)>>, <<[id |-> "earlier", arguments |-> <<106>>]>>, NoCall),
     Turn("tool", <<Part("text", 107), Part("image", 108)>>, <<>>, "earlier"),
     Turn("developer", <<Part("text", 109)>>, <<>>, NoCall),
     Turn("user", <<>>, <<>>, NoCall)>>}
=============================================================================
