------------------------ MODULE XmlReaderProperties ------------------------
(* What XmlReader is expected to satisfy.                                  *)
EXTENDS XmlReader, FiniteSets

(* The file is one document so far, or the beginning of one. *)
Roots(d) == {n \in DOMAIN d.nodes : Len(d.nodes[n].chain) = 1}

OneDocument(d) == ~d.failed /\ Cardinality(Roots(d)) <= 1

(* A document is refused while it is being transferred, or what is stored  *)
(* of it is what the whole of it says: with do_nothing a row made of half  *)
(* a document would stay, and this reader does not look at                 *)
(* HoldUnterminatedLastLine (xml_reader.go:57-74,238-280).                 *)
PartIsRefusedOrWhole ==
    [][OneDocument(doc') => Row(doc) \in {None, Row(doc')}]_vars

(* The elements whose names from the root are those of the path. *)
NamesOf(d, n) ==
    [k \in DOMAIN d.nodes[n].chain |-> d.nodes[d.nodes[n].chain[k]].name]

InPath(d, segments) ==
    {n \in DOMAIN d.nodes :
        /\ Head(d.nodes[n].chain) = d.root
        /\ Tail(NamesOf(d, n)) = Below(d, segments)}

(* A field's number is the text of the first element in its path, or its   *)
(* attribute, and of no other element, whatever else the document holds;   *)
(* without one the row has no such column (xml_reader.go:85-95,283-313).   *)
FieldsFollowTheirPath ==
    ~Refused(doc) =>
        \A f \in Fields :
            LET found == InPath(doc, f.segments)
                first == FirstOf(found)
            IN /\ f \in DOMAIN Row(doc) => found # {}
               /\ f.type = "scalar" /\ f \in DOMAIN Row(doc) =>
                      /\ Row(doc)[f] = Raw(doc, first, f.attr)
                      /\ ToSet(Row(doc)[f]) \subseteq Values
               /\ f.type = "json" /\ found # {} =>
                      f \in DOMAIN Row(doc) /\ DOMAIN Row(doc)[f] = found
=============================================================================
