--------------------------- MODULE MCFileReaders ---------------------------
(* FileReaders for TLC.  Tabular lines have one or two cells between ";",  *)
(* some with decimal commas, and are written in one piece or two; a Header *)
(* is also a row without a time, a Row a header without one.  XML elements *)
(* have a numeric, a textual or no attribute.                              *)
EXTENDS FileReaders, TLC

MCDelimiters == <<";", ",">>

MCHeaders == [width : {2}, names : BOOLEAN]

Text(semicolons, commas, stamped, names, value) ==
    [blank |-> FALSE, nul |-> FALSE, stamped |-> stamped, names |-> names,
     marks |-> (";" :> semicolons @@ "," :> commas), value |-> value]

Blank == [Text(0, 0, FALSE, FALSE, "none") EXCEPT !.blank = TRUE]
Header == Text(1, 0, FALSE, TRUE, "header")
CutHeader == [Header EXCEPT !.value = "cut"]
Row == Text(1, 0, TRUE, FALSE, "row")
CutRow == [Row EXCEPT !.value = "cut"]
CommaRow == Text(1, 2, TRUE, FALSE, "comma")
NulRow == [Row EXCEPT !.nul = TRUE]
OneCell == Text(0, 0, FALSE, FALSE, "cell")

MCShapes == {Blank, Header, Row, CommaRow, NulRow, OneCell}

Cut(first, rest) == [first |-> first, rest |-> rest]

(* A line without its newline, cut between cells or within one, and rests  *)
(* that look like nothing, a cell or a row.                                *)
MCFragments == [s \in MCShapes |->
    CASE s = Row -> {Cut(Row, Blank), Cut(CutRow, OneCell), Cut(OneCell, Row)}
      [] s = CommaRow -> {Cut(CutRow, OneCell)}
      [] s = Header -> {Cut(CutHeader, OneCell), Cut(OneCell, Row)}
      [] s = OneCell -> {Cut(Blank, OneCell)}
      [] OTHER -> {}]

-----------------------------------------------------------------------------

MCFold == [n \in Names |-> IF n = "R" THEN "r" ELSE n]

Element(name, u) == [is |-> "start", name |-> name, attrs |-> [a \in {"u"} |-> u]]

MCElements ==
    {Element("R", None), Element("r", None), Element("a", None),
     Element("a", "1"), Element("a", "x")}

MCFields ==
    {[segments |-> <<"r", "a">>, attr |-> None, type |-> "scalar"],
     [segments |-> <<"a">>, attr |-> "u", type |-> "scalar"],
     [segments |-> <<"a", "a">>, attr |-> None, type |-> "json"],
     [segments |-> <<"r">>, attr |-> None, type |-> "string"],
     [segments |-> <<"a", "">>, attr |-> "u", type |-> "string"]}
=============================================================================
