------------------------------ MODULE CsvFile ------------------------------
(***************************************************************************)
(* A CSV file as the programs leave it and read it: a sequence of lines,   *)
(* each the header or a row.  A writer killed while its buffer is handed   *)
(* on leaves a torn last line, and the next writer appends to that line:   *)
(* the two rows become one with too many fields, or, if the cut was inside *)
(* the first field, one with an id that nobody has.  csv.Reader's ReadAll  *)
(* refuses a file in which a record has the wrong number of fields.        *)
(***************************************************************************)
EXTENDS Naturals, Sequences, SequencesExt

CONSTANTS Header, Torn, Garbled

ASSUME LineAssumption == Cardinality({Header, Torn, Garbled}) = 3

Readable(file) == Torn \notin ToSet(file)

(* A headed file with whole rows only. *)
Clean(file) == file # <<>> /\ Head(file) = Header /\ {Torn, Garbled} \cap ToSet(file) = {}

(* rows[1:]: the first line is taken for the header, whatever it is. *)
DataRows(file) == IF file = <<>> THEN <<>> ELSE Tail(file)

(* What appending a row may give. *)
Appended(file, row) ==
  IF file # <<>> /\ Last(file) = Torn THEN {file, Append(Front(file), Garbled)}
  ELSE {Append(file, row)}

(* What may be on disk after a kill while a row is on its way. *)
Cut(file) == {file} \cup (IF file # <<>> /\ Last(file) = Torn THEN {} ELSE {Append(file, Torn)})
=============================================================================
