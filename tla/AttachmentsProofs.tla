--------------------------- MODULE AttachmentsProofs ---------------------------
(* Proofs about Attachments, for every message, directory and bound.        *)
EXTENDS Attachments, TLAPS

\* What is in the directory stays as it is.
FolderKept == \A path \in DOMAIN folder : folder[path] # Nothing => folder'[path] = folder[path]

\* A step keeps what is in the directory: the name was free when the terminal
\* chose it and may be taken when the daemon creates the file.
LEMMA StepKeepsFolder == ASSUME [AttachmentNext]_attachmentVars PROVE FolderKept
<1>1. CASE UNCHANGED folder
  BY <1>1 DEF FolderKept
<1>2. CASE ExportAttachment
  <2>1. CASE UNCHANGED folder
    BY <1>1, <2>1
  <2>2. CASE /\ folder[export.path] = Nothing
             /\ \E written : folder' = [folder EXCEPT ![export.path] = written]
    BY <2>2 DEF FolderKept
  <2> QED BY <1>2, <2>1, <2>2 DEF ExportAttachment
<1>3. CASE \E path \in DOMAIN folder : UserSaves(path)
  BY <1>3 DEF UserSaves, FolderKept
<1> QED
  BY <1>1, <1>2, <1>3
     DEF AttachmentNext, attachmentVars, PersistPart, PrepareForward, FetchBatch, OpenForward,
         LoseFile, Preview, ChooseExportPath

\* An export never replaces a file that is in the directory, even one that
\* appeared after the terminal chose the name (default_export_path,
\* export_attachment).
THEOREM ExportsKeepFiles == [][AttachmentNext]_attachmentVars => NothingOverwritten
<1>1. [AttachmentNext]_attachmentVars => [FolderKept]_attachmentVars
  BY StepKeepsFolder
<1>2. [][AttachmentNext]_attachmentVars => [][FolderKept]_attachmentVars
  BY <1>1, PTL
<1> QED
  BY <1>2 DEF NothingOverwritten, FolderKept

=============================================================================
