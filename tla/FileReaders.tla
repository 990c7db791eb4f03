---------------------------- MODULE FileReaders ----------------------------
(***************************************************************************)
(* The readers of an input's files: file_type chooses one of the three for *)
(* `read` and for `write` (typed_reader.go ReadTypedFileSummary,           *)
(* ForEachTypedRow, NormalizeFileType), and the choice stays.              *)
(***************************************************************************)
EXTENDS Naturals, Sequences

CONSTANTS
    Shapes, Fragments, Delimiters, Detect, FromFile, Headers, MaxSkip,
    Addresses, Types, HasTypeColumn, Unreadable,
    Names, Fold, Attributes, Elements, Texts, Values, Fields,
    None,
    MaxLines,       \* bound: lines of a tabular file
    MaxBlockLines,  \* bound: lines of a WebdynSun file
    MaxTokens       \* bound: tokens of an XML file

VARIABLES
    reader,         \* the reader of input.FileType
    lines, opts, stage, hold, from, at, within, skipped, head, line, got,
    early, grown,   \* TabularReader
    blocks, addr, typeInv, rows, reading,  \* WebdynsunReader
    doc, tokens     \* XmlReader

tabular == <<lines, opts, stage, hold, from, at, within, skipped, head, line,
             got, early, grown>>
webdynsun == <<blocks, addr, typeInv, rows, reading>>
xml == <<doc, tokens>>
vars == <<reader, tabular, webdynsun, xml>>

Tabular == INSTANCE TabularReaderProperties WITH file <- lines
Webdynsun == INSTANCE WebdynsunReaderProperties
                 WITH file <- blocks, MaxLines <- MaxBlockLines
Xml == INSTANCE XmlReaderProperties

ASSUME ReadersAssumption ==
    /\ Tabular!TabularAssumption
    /\ Webdynsun!WebdynsunAssumption
    /\ Xml!XmlAssumption

(* NormalizeFileType, of the types Validate accepts. *)
ReaderOf ==
    [fileType \in {"tabular", "columnar", "webdynsun", "xml"} |->
        IF fileType = "columnar" THEN "tabular" ELSE fileType]

Init ==
    /\ \E fileType \in DOMAIN ReaderOf : reader = ReaderOf[fileType]
    /\ Tabular!Init
    /\ reader # "tabular" => opts = CHOOSE o \in Tabular!Options : TRUE
    /\ Webdynsun!Init
    /\ Xml!Init

ReadTabular ==
    /\ reader = "tabular"
    /\ Tabular!Next
    /\ UNCHANGED <<reader, webdynsun, xml>>

ReadWebdynsun ==
    /\ reader = "webdynsun"
    /\ Webdynsun!Next
    /\ UNCHANGED <<reader, tabular, xml>>

ReadXml ==
    /\ reader = "xml"
    /\ Xml!Next
    /\ UNCHANGED <<reader, tabular, webdynsun>>

Next == ReadTabular \/ ReadWebdynsun \/ ReadXml

Spec == Init /\ [][Next]_vars

-----------------------------------------------------------------------------
(* The properties of each reader, of the files it is given.                *)

(* TabularReaderProperties: what is read while a file grows is its rows.   *)
GrowingOnlyAddsRows == Tabular!GrowingOnlyAddsRows

(* TabularReaderProperties: reading goes on from any row's checkpoint.     *)
ResumesAfterAnyRow == Tabular!ResumesAfterAnyRow

(* TabularReaderProperties: `read` shows what `write` will store.          *)
PreviewForetellsRows == Tabular!PreviewForetellsRows

(* TabularReaderProperties: README.md:122, no row under a cut head.        *)
NoRowUnderCutHead == Tabular!NoRowUnderCutHead

(* WebdynsunReaderProperties: rows have the address of their block.        *)
RowsCarryTheirBlock == Webdynsun!RowsCarryTheirBlock

(* XmlReaderProperties: no row from a document still being transferred.    *)
PartIsRefusedOrWhole == Xml!PartIsRefusedOrWhole

(* XmlReaderProperties: a column's value is that of its path.              *)
FieldsFollowTheirPath == Xml!FieldsFollowTheirPath
=============================================================================
