---------------------------- MODULE ColumnNames ----------------------------
(***************************************************************************)
(* From the names of a file's columns to those of the table: the           *)
(* conversion of internal/identifier/normalize.go, and the column list     *)
(* buildInsertPayload (internal/timescaledb/writer.go) makes of a row.     *)
(*                                                                         *)
(* Simplifications.                                                        *)
(*  - A name is the sequence of its characters, of the classes the code    *)
(*    tells apart: lower and upper case, digits, the replaced ones, others.*)
(*  - The order of a row's columns is that of the file; sortedKeys only    *)
(*    makes it the same for every row.                                     *)
(***************************************************************************)
EXTENDS Naturals, Sequences, SequencesExt

CONSTANTS Lower,   \* letters in lower case
          Upper,   \* Upper[u]: the upper case letter u in lower case
          Digits

(* unicode.IsLetter and IsDigit: no letter is a digit, a small letter is    *)
(* not a capital, and what the code replaces or writes between is neither. *)
ASSUME ColumnNamesAssumption ==
    /\ Upper \in [DOMAIN Upper -> Lower]
    /\ Lower \cap DOMAIN Upper = {}
    /\ Digits \cap (Lower \cup DOMAIN Upper) = {}
    /\ {"", " ", "_", "%", "/", "-", "(", ")"}
           \cap (Lower \cup DOMAIN Upper \cup Digits) = {}

Letters == Lower \cup DOMAIN Upper

IsAlnum(c) == c \in Letters \cup Digits

ToLower(c) == IF c \in DOMAIN Upper THEN Upper[c] ELSE c

(* strings.Trim of a character. *)
TrimOf(name, c) ==
    LET kept == {k \in DOMAIN name : name[k] # c}
    IN IF kept = {} THEN <<>>
       ELSE SubSeq(name, CHOOSE k \in kept : \A j \in kept : k <= j,
                         CHOOSE k \in kept : \A j \in kept : j <= k)

(* The five strings.ReplaceAll. *)
Replacement(c) ==
    CASE c = "%" -> <<"p", "c", "t">>
      [] c = "/" -> <<"_", "p", "e", "r", "_">>
      [] c = "-" -> <<"_">>
      [] c = "(" -> <<"_">>
      [] c = ")" -> <<>>
      [] OTHER -> <<c>>

Replaced(name) == FlattenSeq([k \in DOMAIN name |-> Replacement(name[k])])

(* shouldInsertUnderscore. *)
Splits(prev, c) ==
    \/ prev \in Lower /\ c \in DOMAIN Upper
    \/ prev \in Digits /\ c \in Letters
    \/ prev \in Letters /\ c \in Digits

(* One character of the loop: what is written and the one before it. *)
WithUnderscore(out) == IF out = <<>> \/ Last(out) = "_" THEN out ELSE Append(out, "_")

(* Mutant: letters and digits are not told apart. *)
WriteUnsplit(at, c) ==
    [out |-> IF IsAlnum(c)
             THEN Append(IF at.prev \in Lower /\ c \in DOMAIN Upper
                         THEN WithUnderscore(at.out) ELSE at.out, ToLower(c))
             ELSE WithUnderscore(at.out),
     prev |-> c]

Write(at, c) ==
    [out |-> IF IsAlnum(c)
             THEN Append(IF Splits(at.prev, c) THEN WithUnderscore(at.out) ELSE at.out,
                         ToLower(c))
             ELSE WithUnderscore(at.out),
     prev |-> c]

(* What the loop writes; no two underscores in a row. *)
Written(name) ==
    LET at[k \in 0 .. Len(name)] ==
            IF k = 0 THEN [out |-> <<>>, prev |-> ""] ELSE Write(at[k - 1], name[k])
    IN at[Len(name)].out

NormalizeColumnName(name) == TrimOf(Written(Replaced(TrimOf(name, " "))), "_")

-----------------------------------------------------------------------------
(* buildInsertPayload: the names of the columns of an INSERT, those the    *)
(* collector adds first.                                                   *)

Managed ==
    <<<<"t", "s">>,
      <<"s", "o", "u", "r", "c", "e", "_", "f", "i", "l", "e">>,
      <<"s", "o", "u", "r", "c", "e", "_", "l", "i", "n", "e", "_",
        "n", "u", "m", "b", "e", "r">>,
      <<"f", "l", "a", "g", "s">>>>

IsTimestamp(name, i) ==
    name = i.timestamp_column \/ name \in ToSet(i.timestamp_source_columns)

(* The column of a name, if it is inserted. *)
ColumnOf(name, i, destination) ==
    IF IsTimestamp(name, i) \/ NormalizeColumnName(name) \notin destination
    THEN <<>> ELSE <<NormalizeColumnName(name)>>

Payload(row, i, destination) ==
    Managed \o FlattenSeq([k \in DOMAIN row |-> ColumnOf(row[k], i, destination)])
=============================================================================
