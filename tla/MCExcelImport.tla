--------------------------- MODULE MCExcelImport ---------------------------
(* Instances of ExcelImport for TLC. *)
EXTENDS ExcelImport

\* A sheet without a line, and one with a title and three rows.
MCBooks == {<<0, 4>>}

=============================================================================
