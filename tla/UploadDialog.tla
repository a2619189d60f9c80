---------------------------- MODULE UploadDialog ----------------------------
(* The dialog that collects the files of an upload (UploadFilesDialog.tsx, opened  *)
(* by ChatFileUpload): a row per file with the name it is uploaded under and, when *)
(* the metadata of a file is asked for, a JSON file whose validation reads it      *)
(* asynchronously. Which rows are unfolded and the fields of the form are left out.*)
EXTENDS Naturals, Sequences, SequencesExt, FiniteSets

CONSTANTS
    JsonFiles, ValidJson,  \* files offered as metadata, and those that parse
    NoJson,
    MaxRows                \* bound: rows made over all openings

ASSUME UploadDialogConstants ==
    ValidJson \subseteq JsonFiles /\ NoJson \notin JsonFiles /\ MaxRows \in Nat

VARIABLES
    dialogShown,  \* open
    fileRows,    \* files
    rowsMade,    \* rows made so far, whose ids are never used again
    pending,     \* pendingMetadataFileId, 0 for null
    checks,      \* validations under way: the row and the file they are for
    entries,     \* what onConfirm was called with last
    chosenJson   \* ghost: the metadata files chosen for each row

dialogVars == <<dialogShown, fileRows, rowsMade, pending, checks, entries, chosenJson>>

UploadNames == {"plain", "spaced", "blank"}
DialogRows == [id : 1 .. MaxRows, name : UploadNames, metadata : JsonFiles \cup {NoJson}]
RowIds == {fileRows[i].id : i \in DOMAIN fileRows}

DialogTypeOK ==
    /\ dialogShown \in BOOLEAN /\ rowsMade \in 0 .. MaxRows /\ pending \in 0 .. rowsMade
    /\ fileRows \in Seq(DialogRows) /\ entries \in Seq(DialogRows)
    /\ checks \subseteq [row : 1 .. rowsMade, file : JsonFiles]
    /\ chosenJson \in [1 .. MaxRows -> SUBSET JsonFiles]

DialogInit ==
    /\ dialogShown = FALSE /\ fileRows = <<>> /\ rowsMade = 0 /\ pending = 0
    /\ checks = {} /\ entries = <<>> /\ chosenJson = [r \in 1 .. MaxRows |-> {}]

-----------------------------------------------------------------------------

\* createFileItem: the spaces of the file's name are taken out, so a name may be blank.
NewRows(names) ==
    [i \in DOMAIN names |-> [id |-> rowsMade + i, name |-> names[i], metadata |-> NoJson]]

\* The effect that seeds the list when the dialog has just opened.
OpenDialog(names) ==
    /\ ~dialogShown /\ rowsMade + Len(names) <= MaxRows
    /\ dialogShown' = TRUE /\ fileRows' = NewRows(names) /\ rowsMade' = rowsMade + Len(names) /\ pending' = 0
    /\ UNCHANGED <<checks, entries, chosenJson>>

\* Files that are no videos are refused, the others are added.
ProcessNewFiles(names) ==
    /\ dialogShown /\ rowsMade + Len(names) <= MaxRows
    /\ fileRows' = fileRows \o NewRows(names) /\ rowsMade' = rowsMade + Len(names)
    /\ UNCHANGED <<dialogShown, pending, checks, entries, chosenJson>>

HandleRemoveFile(id) ==
    /\ dialogShown /\ id \in RowIds
    /\ fileRows' = FlattenSeq([i \in DOMAIN fileRows |-> IF fileRows[i].id = id THEN <<>> ELSE <<fileRows[i]>>])
    /\ UNCHANGED <<dialogShown, rowsMade, pending, checks, entries, chosenJson>>

SetRow(id, Change(_)) == fileRows' = [i \in DOMAIN fileRows |-> IF fileRows[i].id = id THEN Change(fileRows[i]) ELSE fileRows[i]]

HandleUploadFilenameChange(id, name) ==
    /\ dialogShown /\ id \in RowIds
    /\ SetRow(id, LAMBDA r : [r EXCEPT !.name = name])
    /\ UNCHANGED <<dialogShown, rowsMade, pending, checks, entries, chosenJson>>

\* Metadata can be chosen or dropped only where there is none.
OffersMetadata(id) == dialogShown /\ \E i \in DOMAIN fileRows : fileRows[i].id = id /\ fileRows[i].metadata = NoJson

HandleMetadataSelect(id) ==
    /\ OffersMetadata(id)
    /\ pending' = id
    /\ UNCHANGED <<dialogShown, fileRows, rowsMade, checks, entries, chosenJson>>

StartCheck(id, file) ==
    /\ checks' = checks \cup {[row |-> id, file |-> file]}
    /\ chosenJson' = [chosenJson EXCEPT ![id] = @ \cup {file}]

\* The row is taken from the state before the file is read.
HandleMetadataInputChange(file) ==
    /\ dialogShown /\ pending # 0
    /\ StartCheck(pending, file) /\ pending' = 0
    /\ UNCHANGED <<dialogShown, fileRows, rowsMade, entries>>

HandleMetadataDrop(id, file) ==
    /\ OffersMetadata(id)
    /\ StartCheck(id, file)
    /\ UNCHANGED <<dialogShown, fileRows, rowsMade, pending, entries>>

\* Mutant: the row is the one the picker was opened for last.
PickedLast(check) == pending

\* The row a validated file goes to.
RowOf(check) == check.row

\* A file that does not parse is refused; a row that is gone takes nothing.
MetadataChecked(check) ==
    /\ checks' = checks \ {check}
    /\ IF check.file \in ValidJson
       THEN SetRow(RowOf(check), LAMBDA r : [r EXCEPT !.metadata = check.file])
       ELSE UNCHANGED fileRows
    /\ UNCHANGED <<dialogShown, rowsMade, pending, entries, chosenJson>>

HandleMetadataRemove(id) ==
    /\ dialogShown /\ id \in RowIds /\ ~OffersMetadata(id)
    /\ SetRow(id, LAMBDA r : [r EXCEPT !.metadata = NoJson])
    /\ UNCHANGED <<dialogShown, rowsMade, pending, checks, entries, chosenJson>>

IsUploadFilenameInvalid(name) == name # "plain"
HasInvalidFilenames == \E i \in DOMAIN fileRows : IsUploadFilenameInvalid(fileRows[i].name)

ConfirmUpload ==
    /\ dialogShown /\ fileRows # <<>> /\ ~HasInvalidFilenames
    /\ entries' = fileRows /\ dialogShown' = FALSE
    /\ UNCHANGED <<fileRows, rowsMade, pending, checks, chosenJson>>

CloseDialog ==
    /\ dialogShown /\ dialogShown' = FALSE
    /\ UNCHANGED <<fileRows, rowsMade, pending, checks, entries, chosenJson>>

NameLists == {<<>>} \cup {<<n>> : n \in {"plain", "blank"}} \cup {<<"plain", "plain">>}

DialogNext ==
    \/ \E names \in NameLists : OpenDialog(names) \/ (names # <<>> /\ ProcessNewFiles(names))
    \/ \E id \in 1 .. MaxRows :
           \/ HandleRemoveFile(id) \/ HandleMetadataSelect(id) \/ HandleMetadataRemove(id)
           \/ \E name \in UploadNames : HandleUploadFilenameChange(id, name)
           \/ \E file \in JsonFiles : HandleMetadataDrop(id, file)
    \/ \E file \in JsonFiles : HandleMetadataInputChange(file)
    \/ \E check \in checks : MetadataChecked(check)
    \/ ConfirmUpload \/ CloseDialog

DialogSpec == DialogInit /\ [][DialogNext]_dialogVars

-----------------------------------------------------------------------------

\* However the validations overlap with each other, with the removal of rows and with
\* another opening of the dialog, what is handed to the upload has names it accepts
\* and, for each file, no metadata or metadata that parses and was chosen for it.
EntriesAreTheirOwn ==
    \A i \in DOMAIN entries :
        LET e == entries[i]
        IN  /\ ~IsUploadFilenameInvalid(e.name)
            /\ e.metadata \in {NoJson} \cup (chosenJson[e.id] \cap ValidJson)
            /\ \A j \in DOMAIN entries : entries[j].id = e.id => i = j
=============================================================================
