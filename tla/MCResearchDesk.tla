--------------------------- MODULE MCResearchDesk ---------------------------
(* Five bars of three shapes, periods of two and three; two strategies and  *)
(* up to six bars; two collectors of two instruments and four documents.    *)
EXTENDS ResearchDesk

Shape(high, low, close, volume) ==
  [high |-> high, low |-> low, close |-> close, volume |-> volume]
MCShapes == {Shape(3, 1, 2, 1), Shape(5, 2, 4, 2), Shape(2, 1, 1, 0)}

Outcome(return, drawdown) == [return |-> return, drawdown |-> drawdown]
MCOutcomes == {Outcome(-1, 1), Outcome(2, 0), Outcome(2, 1), Outcome(3, 3)}

MCManifests == {<<"a", "a">>, <<"b", "a">>}
MCRanking == <<"a", "b">>
Document(type, growth, other) == [type |-> type, growth |-> growth, other |-> other]
MCDocuments ==
  {Document("structured", <<1, 1>>, <<2>>), Document("structured", <<1, 2>>, <<>>),
   Document("pdf", <<1, 2>>, <<3>>), Document("unsupported", <<1>>, <<>>)}
=============================================================================
