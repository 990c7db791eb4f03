----------------------------- MODULE XmlReader -----------------------------
(***************************************************************************)
(* XML files (internal/tabular/xml_reader.go): the whole document is held  *)
(* in memory and makes one row, whose columns are the fields of the input, *)
(* each taken from a path.  `read` and `write` share extractXMLValues.     *)
(* The reader has no hold for a file that is still being transferred.      *)
(*                                                                         *)
(* Simplifications.                                                        *)
(*  - A file is what encoding/xml makes of it: start and end elements,     *)
(*    text, and "bad" for what it refuses.  Blank text is none.            *)
(*  - The text of an element is the sequence of the texts in it; it parses *)
(*    as a number, boolean or instant if each of them does.                *)
(*  - A field has its path split: the segments and, after @, an attribute; *)
(*    no two fields have one name.                                         *)
(***************************************************************************)
EXTENDS Naturals, Sequences, SequencesExt

CONSTANTS Names,       \* of elements
          Fold,        \* Fold[n]: n in lower case
          Attributes,  \* names of attributes
          Elements,    \* start elements: [is, name, attrs]
          Texts,       \* texts of elements and attributes
          Values,      \* the texts that parse as numbers
          Fields,      \* xml.fields: [segments, attr, type]
          None,        \* no attribute, no value
          MaxTokens    \* bound: tokens of the file

XmlAssumption ==
    /\ Fold \in [Names -> Names]
    /\ Values \subseteq Texts
    /\ None \notin Names \cup Attributes \cup Texts
    /\ Elements \subseteq [is : {"start"}, name : Names,
                            attrs : [Attributes -> Texts \cup {None}]]
    /\ \A f \in Fields : /\ f.segments \in Seq(STRING) \ {<<>>}
                         /\ f.attr \in Attributes \cup {None}
                         /\ f.type \in {"scalar", "string", "json"}

VARIABLES
    doc,    \* what parseXMLDocument makes of the tokens the file has so far
    tokens  \* their number

vars == <<doc, tokens>>

Tokens == Elements \cup [is : {"text"}, text : Texts] \cup [is : {"end", "bad"}]

-----------------------------------------------------------------------------
(* parseXMLDocument.  A node keeps the chain of nodes from the root to it. *)

Empty == [nodes |-> <<>>, stack |-> <<>>, root |-> 0, failed |-> FALSE]

Start(d, t) ==
    LET n == Len(d.nodes) + 1
        chain == Append(d.stack, n)
    IN [d EXCEPT !.nodes = Append(@, [name |-> t.name, attrs |-> t.attrs,
                                      text |-> <<>>, chain |-> chain]),
                 !.stack = chain,
                 !.root = IF d.stack = <<>> THEN n ELSE @]

(* The next token; the decoder refuses an end without a start. *)
Step(d, t) ==
    CASE t.is = "start" -> Start(d, t)
      [] t.is = "end" /\ d.stack # <<>> -> [d EXCEPT !.stack = Front(@)]
      [] t.is = "text" /\ d.stack # <<>> ->
             [d EXCEPT !.nodes[Last(d.stack)].text = Append(@, t.text)]
      [] t.is = "text" /\ d.stack = <<>> -> d
      [] OTHER -> [d EXCEPT !.failed = TRUE]

(* Mutant: what precedes a syntax error is taken. *)
RefusedIfEmpty(d) == d.root = 0

(* The decoder's error, at the end of the file inside an element too, and  *)
(* "empty xml document".                                                   *)
Refused(d) == d.failed \/ d.stack # <<>> \/ d.root = 0

-----------------------------------------------------------------------------
(* resolveXMLPath: the root may be named or left out. *)

Below(d, segments) ==
    IF Head(segments) \in Names /\ Fold[Head(segments)] = Fold[d.nodes[d.root].name]
    THEN Tail(segments) ELSE segments

Parent(d, n) == IF Len(d.nodes[n].chain) = 1 THEN 0
                ELSE d.nodes[n].chain[Len(d.nodes[n].chain) - 1]

(* Mutant: a segment is looked for anywhere below. *)
AnyBelow(d, current, segment) ==
    {n \in DOMAIN d.nodes : /\ d.nodes[n].name = segment
                            /\ ToSet(Front(d.nodes[n].chain)) \cap current # {}}

Children(d, current, segment) ==
    {n \in DOMAIN d.nodes : /\ d.nodes[n].name = segment
                            /\ Parent(d, n) \in current}

(* The nodes of a path; their order is that of the document. *)
Reached(d, path) ==
    LET current[k \in 0 .. Len(path)] ==
            IF k = 0 THEN {d.root} ELSE Children(d, current[k - 1], path[k])
    IN current

Resolve(d, segments) ==
    LET path == Below(d, segments) IN Reached(d, path)[Len(path)]

-----------------------------------------------------------------------------
(* extractXMLFieldValue. *)

Raw(d, n, attr) ==
    IF attr = None THEN d.nodes[n].text
    ELSE IF d.nodes[n].attrs[attr] = None THEN <<>>
    ELSE <<d.nodes[n].attrs[attr]>>

IsLeaf(d, n) == \A c \in DOMAIN d.nodes : Parent(d, c) # n

(* nodeToValue: the elements of n, with the text of those without any. *)
NodeValue(d, n) ==
    {[at |-> c, attrs |-> d.nodes[c].attrs,
      text |-> IF IsLeaf(d, c) THEN d.nodes[c].text ELSE <<>>] :
        c \in {m \in DOMAIN d.nodes : n \in ToSet(d.nodes[m].chain)}}

(* marshalXMLNodesWithAttr. *)
Marshal(d, nodes, attr) ==
    [n \in nodes |-> IF attr = None THEN NodeValue(d, n) ELSE Raw(d, n, attr)]

FirstOf(nodes) == CHOOSE n \in nodes : \A m \in nodes : n <= m

Parses(type, raw) == raw # <<>> /\ (type = "scalar" => ToSet(raw) \subseteq Values)

(* All nodes of the path are kept, not the first one's text. *)
KeepsNodes(field, nodes) ==
    \/ field.type = "json"
    \/ field.type = "string" /\ nodes # {FirstOf(nodes)}

HasValue(d, field) ==
    LET nodes == Resolve(d, field.segments)
    IN /\ nodes # {}
       /\ \/ KeepsNodes(field, nodes)
          \/ Parses(field.type, Raw(d, FirstOf(nodes), field.attr))

ValueOf(d, field) ==
    LET nodes == Resolve(d, field.segments)
    IN IF KeepsNodes(field, nodes) THEN Marshal(d, nodes, field.attr)
       ELSE Raw(d, FirstOf(nodes), field.attr)

(* The row of a document: its fields that have a value. *)
Row(d) == IF Refused(d) THEN None
          ELSE [f \in {g \in Fields : HasValue(d, g)} |-> ValueOf(d, f)]

-----------------------------------------------------------------------------
(* The file is transferred token by token; what follows a token that is    *)
(* refused is left out.                                                    *)

Init == doc = Empty /\ tokens = 0

Transfer(t) ==
    /\ tokens < MaxTokens
    /\ ~doc.failed
    /\ tokens' = tokens + 1
    /\ doc' = Step(doc, t)

Next == \E t \in Tokens : Transfer(t)
=============================================================================
