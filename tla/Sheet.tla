------------------------------- MODULE Sheet -------------------------------
(***************************************************************************)
(* Records to a sheet and back: toolx/excelExport.go, toolx/tag.go and the *)
(* part of toolx/excelImport.go that turns lines into data (CreateMap and  *)
(* GenDataInt; GenDataChar differs in the new ids only).  Columns stand    *)
(* in the order of the fields that have a tag; nothing but the position    *)
(* ties a cell to its field.                                               *)
(*                                                                         *)
(* A behaviour is one export and the import of its file.  Values and cells *)
(* are words: "" is empty, "big" a number of more than 15 digits, which a  *)
(* cell does not keep, and "lost" what has become of it there.  Kinds of   *)
(* fields are those of reflect that the import tells apart: "string",      *)
(* "float64", "uint64", "struct", which is a time, and "number", any other *)
(* number (int, int64, uint, uint32, float32...), and "other".             *)
(***************************************************************************)
EXTENDS Integers, SequencesExt

CONSTANTS Models,    \* structures: sequences of fields [name, kind, tag]
          ValuesOf,  \* of every kind of field: its values
          MaxRecords

Fields == [name : STRING, kind : DOMAIN ValuesOf, tag : {"none", "plain", "options"}]

\* Fields have different names.
ASSUME ModelAssumption ==
  /\ MaxRecords \in Nat
  /\ \A m \in Models : /\ m \in Seq(Fields)
                      /\ \A i, k \in DOMAIN m : m[i].name = m[k].name => i = k
  /\ \A k \in {"float64", "uint64"} \cap DOMAIN ValuesOf : ValuesOf[k] \subseteq {"number", "big"}

VARIABLES
  model,     \* the structure
  looked,    \* how many of its fields GetTag has looked at
  tags,      \* those of them that have a tag
  records,   \* a sequence of functions from names of fields to values
  lines,     \* of the only sheet of the file
  sheetData, \* what the import makes of the lines: excel.Data
  sheet      \* "none", "new", "file", "read", "error" or "panic"

sheetVars == <<model, looked, tags, records, lines, sheetData, sheet>>

\* Records of a structure: a value of its kind for every field.
RecordsOf(m) ==
  {r \in [{m[i].name : i \in DOMAIN m} -> UNION {ValuesOf[k] : k \in DOMAIN ValuesOf}] :
     \A i \in DOMAIN m : r[m[i].name] \in ValuesOf[m[i].kind]}

SheetTypeOK ==
  /\ model \in Models \cup {<<>>} /\ looked \in 0..Len(model) /\ tags \in Seq(Fields)
  /\ records \in Seq(RecordsOf(model)) /\ Len(records) <= MaxRecords
  /\ \A i \in DOMAIN lines : Len(lines[i]) <= Len(tags)
  /\ Len(sheetData) <= Len(records)
  /\ sheet \in {"none", "new", "file", "read", "error", "panic"}

SheetInit ==
  /\ model = <<>> /\ looked = 0 /\ tags = <<>> /\ records = <<>> /\ lines = <<>> /\ sheetData = <<>> /\ sheet = "none"

\* Mutant of FieldAt: the position is that in the structure.
FieldAt_All(j) == model[j]

\* GetFieldByTag: the field of column j.
FieldAt(j) == tags[j]

-----------------------------------------------------------------------------
\* An export begins, of no records yet (ExportToWebTemplate) or some.
NewExcel ==
  /\ sheet = "none" /\ sheet' = "new"
  /\ model' \in Models
  /\ UNCHANGED <<looked, tags, records, lines, sheetData>>

\* GetTag looks at the next field.
GetTag ==
  LET f == model[looked + 1] IN
  /\ sheet = "new" /\ looked < Len(model)
  /\ looked' = looked + 1
  /\ tags' = IF f.tag = "none" THEN tags ELSE Append(tags, f)
  /\ UNCHANGED <<model, records, lines, sheetData, sheet>>

\* It has looked at all.
Tagged == sheet = "new" /\ looked = Len(model)

\* There is another record.
Record ==
  /\ Tagged /\ Len(records) < MaxRecords
  /\ \E r \in RecordsOf(model) : records' = Append(records, r)
  /\ UNCHANGED <<model, looked, tags, lines, sheetData, sheet>>

\* NewMyExcel and writeData look for the whole tag in the JSON text of a
\* record, where the name goes without its options.
Cell(r, f) ==
  LET v == r[f.name] IN
  IF f.tag = "options" THEN "" ELSE IF v = "big" THEN "lost" ELSE v

\* What is not empty at the end is the end, of a line and of the lines.
Trimmed(s, empty) == SubSeq(s, 1, Max({i \in DOMAIN s : s[i] # empty} \cup {0}))

\* writeTop writes a title for every column, and writeData the records below.
Title == [j \in DOMAIN tags |-> "title"]
Lines ==
  Trimmed(<<Title>> \o [i \in DOMAIN records |->
    Trimmed([j \in DOMAIN tags |-> Cell(records[i], tags[j])], "")], <<>>)

\* createFile ignores that a name does not do for a sheet, and all that is
\* written to a sheet of that name is lost.
Export ==
  /\ Tagged /\ sheet' = "file"
  /\ lines' \in {Lines, <<>>}
  /\ UNCHANGED <<model, looked, tags, records, sheetData>>

\* Records that are not a list of objects, or have no JSON text: an error,
\* and a nil dereference in ExportToWebGin, which goes on after it.
ExportFails ==
  /\ Tagged /\ sheet' \in {"error", "panic"}
  /\ UNCHANGED <<model, looked, tags, records, lines, sheetData>>

\* What a cell is for a field: nothing where it cannot be converted.  The
\* text of a time has more than the day that is read, and numbers of other
\* kinds than these two, and all other kinds, are not converted at all.
Converts(f, text) ==
  \/ f.kind = "string"
  \/ f.kind = "float64" /\ text \in {"number", "lost"}
  \/ f.kind = "uint64" /\ text = "number"

\* The value of every field with a cell that can be converted, and a new id
\* unless one of them is the id.
DataOf(line) ==
  LET read == {j \in DOMAIN line : Converts(FieldAt(j), line[j])}
      names == {FieldAt(j).name : j \in read}
  IN [n \in names \cup {"Id"} |->
        IF n \in names THEN line[CHOOSE j \in read : FieldAt(j).name = n] ELSE "new"]

\* ReadExcelIo of the first sheet.  Without a title there is nothing to drop,
\* and a sheet of that name is looked for behind the only one.
Import ==
  /\ sheet = "file"
  /\ \/ /\ lines # <<>> /\ sheet' = "read"
        /\ sheetData' = [i \in 1..(Len(lines) - 1) |-> DataOf(lines[i + 1])]
     \/ sheet' = "panic" /\ UNCHANGED sheetData
  /\ UNCHANGED <<model, looked, tags, records, lines>>

SheetNext == NewExcel \/ GetTag \/ Record \/ Export \/ ExportFails \/ Import

-----------------------------------------------------------------------------
(* Properties *)

\* What was exported and what is imported (ExportToPath, ReadExcelIo).  Line i is
\* record i, unless nothing is in it or behind it.  A text, and a float64 or
\* uint64 of at most 15 digits, of a field with a plain tag comes back in its own
\* field, the id too, around fields without a tag and cells that are empty.
\* Nothing else comes back, silently: no other number (int, int64, uint, uint32,
\* float32), no time, no long number whole, no field whose tag has options.  No
\* field ever has a value of another one.
SheetRoundTrip ==
  sheet = "read" =>
    /\ \A i \in DOMAIN records, k \in DOMAIN tags :
         i > Len(sheetData) => Cell(records[i], tags[k]) = ""
    /\ \A i \in DOMAIN sheetData, k \in DOMAIN model :
         LET f == model[k] v == records[i][f.name]
             kept == f.tag = "plain" /\ f.kind \in {"string", "float64", "uint64"} IN
         /\ kept /\ v \notin {"", "big"} => f.name \in DOMAIN sheetData[i] /\ sheetData[i][f.name] = v
         /\ f.name \in DOMAIN sheetData[i] => sheetData[i][f.name] \in {v, "", "lost", "new"}
         /\ f.name \in DOMAIN sheetData[i] /\ sheetData[i][f.name] \notin {"", "new"} => kept

=============================================================================
