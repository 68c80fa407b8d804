---------------------------- MODULE Attachments ----------------------------
(***************************************************************************)
(* The attachments of one stored message: how the synchroniser stores     *)
(* them (src/attachments.rs), and how they are previewed, exported and     *)
(* carried into a forward by the terminal client (src/tui/mod.rs) and the  *)
(* dispatcher's fetch operations (src/daemon/dispatcher.rs).               *)
(*                                                                         *)
(* A part of the message as the server holds it has a name, a content      *)
(* type, an optional content id and a text, given by the byte widths of    *)
(* its characters and the first that is not UTF-8 (0 if all are).  Bytes   *)
(* on disk are named by the part they are those of.                        *)
(***************************************************************************)
EXTENDS Integers, Sequences, FiniteSets, SequencesExt

CONSTANTS Mails,           \* the messages to explore: sequences of parts
          Sanitized,       \* sanitize_filename, as a function on part names
          MaxBytes,        \* MAX_ATTACHMENT_BYTES, scaled
          PreviewLimit,    \* PREVIEW_LIMIT_BYTES, scaled
          BatchMaxIds,     \* FORWARD_ATTACHMENT_BATCH_MAX_IDS, scaled
          BatchBudget,     \* FORWARD_ATTACHMENT_BATCH_WIRE_BUDGET, scaled
          ExportTries,     \* the 1000 export names, scaled
          MaxLosses        \* bound: cached files lost in a run

VARIABLES parts,      \* the message on the server
          rows,       \* its attachment rows, oldest first
          storing,    \* "storing", "stored" or "refused"
          cache,      \* storage path -> whose bytes are there
          losses,     \* files lost so far
          preview,    \* last preview shown
          folder,     \* the user's directory: export path -> content
          export,     \* the export under way
          forward     \* the forward under way

attachmentVars == <<parts, rows, storing, cache, losses, preview, folder, export, forward>>

Nothing == 0
Partial == -1     \* a file cut short
Users   == -2     \* a file of the user's

SizeOf(part) == FoldLeft(+, 0, part.text)

NoPreview == [of |-> Nothing, shown |-> FALSE, truncated |-> FALSE, bytes |-> 0]
NoExport  == [phase |-> "idle", row |-> Nothing, path |-> 0]
NoForward == [phase |-> "idle", batches |-> <<>>, carried |-> <<>>, failed |-> <<>>]

AttachmentStart(mails) ==
    /\ parts \in mails
    /\ rows = <<>> /\ storing = "storing"
    /\ cache = [path \in 1 .. Len(parts) |-> Nothing]
    /\ losses = 0 /\ preview = NoPreview
    /\ folder = [path \in 0 .. ExportTries |-> Nothing]
    /\ export = NoExport /\ forward = NoForward

AttachmentInit == AttachmentStart(Mails)

-----------------------------------------------------------------------------
(* persist_parsed_for_message, the next part: write its file (under a name *)
(* that starts with its position, so names never collide) and insert its   *)
(* row with the sanitised name.  A part over the limit, a write that fails *)
(* (perhaps halfway) or a failing insert ends it; the caller then deletes  *)
(* the message, and the files stay.                                        *)
PersistPart ==
    /\ storing = "storing" /\ Len(rows) < Len(parts)
    /\ LET i == Len(rows) + 1
       IN  \/ /\ cache' \in (IF SizeOf(parts[i]) > MaxBytes THEN {cache}
                              ELSE {[cache EXCEPT ![i] = left] : left \in {Nothing, Partial, i}})
              /\ storing' = "refused" /\ UNCHANGED rows
           \/ /\ SizeOf(parts[i]) <= MaxBytes
              /\ cache' = [cache EXCEPT ![i] = i]
              /\ rows' = Append(rows, [part |-> i, name |-> Sanitized[parts[i].name],
                                       type |-> parts[i].type, cid |-> parts[i].cid,
                                       size |-> SizeOf(parts[i])])
              /\ storing' = IF i = Len(parts) THEN "stored" ELSE storing
    /\ UNCHANGED <<parts, losses, preview, folder, export, forward>>

(* A cached file disappears (a cleaned disk, a restored database).         *)
LoseFile(path) ==
    /\ storing = "stored" /\ losses < MaxLosses /\ cache[path] # Nothing
    /\ cache' = [cache EXCEPT ![path] = Nothing] /\ losses' = losses + 1
    /\ UNCHANGED <<parts, rows, storing, preview, folder, export, forward>>

-----------------------------------------------------------------------------
(* preview_attachment: text-like types only.  The read stops one byte past *)
(* the limit, which tells whether there is more.  What is shown ends       *)
(* before the character the limit cuts, or before the first bytes that are *)
(* not UTF-8; such bytes in a text read whole show nothing.                *)
ValidUpTo(part, limit) ==
    LET Bytes(n) == FoldLeft(+, 0, SubSeq(part.text, 1, n))
        whole == IF part.bad = 0 THEN Len(part.text) ELSE part.bad - 1
    IN  Max({Bytes(n) : n \in {n \in 0 .. whole : Bytes(n) <= limit}})

Previewed(part) ==
    LET truncated == SizeOf(part) > PreviewLimit
        valid     == ValidUpTo(part, PreviewLimit)
        shown     == \/ valid = (IF truncated THEN PreviewLimit ELSE SizeOf(part))
                     \/ truncated /\ valid > 0
    IN  [shown |-> shown, truncated |-> truncated /\ shown, bytes |-> IF shown THEN valid ELSE 0]

Preview(r) ==
    /\ storing = "stored" /\ rows[r].type = "text" /\ cache[r] > 0
    /\ preview' = [of |-> cache[r]] @@ Previewed(parts[cache[r]])
    /\ UNCHANGED <<parts, rows, storing, cache, losses, folder, export, forward>>

-----------------------------------------------------------------------------
(* export_selected_attachment and default_export_path: the first name that *)
(* is free when the terminal looks.                                        *)
ChooseExportPath(r) ==
    /\ storing = "stored" /\ export.phase = "idle"
    /\ \E path \in 0 .. ExportTries :
           /\ folder[path] = Nothing /\ \A p \in 0 .. (path - 1) : folder[p] # Nothing
           /\ export' = [phase |-> "asked", row |-> r, path |-> path]
    /\ UNCHANGED <<parts, rows, storing, cache, losses, preview, folder, forward>>

Mutant_ExportAttachment ==
    /\ export.phase = "asked"
    /\ LET bytes == cache[export.row]
       IN  IF bytes = Nothing THEN UNCHANGED folder
           ELSE \E written \in {bytes, Partial} : folder' = [folder EXCEPT ![export.path] = written]
    /\ export' = NoExport
    /\ UNCHANGED <<parts, rows, storing, cache, losses, preview, forward>>

(* export_attachment in the daemon: opens the cached file, creates the     *)
(* destination only if it is new, and copies; the copy may be cut short.   *)
ExportAttachment ==
    /\ export.phase = "asked"
    /\ LET bytes == cache[export.row]
       IN  IF bytes = Nothing \/ folder[export.path] # Nothing THEN UNCHANGED folder
           ELSE \E written \in {bytes, Partial} : folder' = [folder EXCEPT ![export.path] = written]
    /\ export' = NoExport
    /\ UNCHANGED <<parts, rows, storing, cache, losses, preview, forward>>

(* The user, or another program, saves a file in the directory meanwhile.  *)
UserSaves(path) ==
    /\ folder[path] = Nothing
    /\ folder' = [folder EXCEPT ![path] = Users]
    /\ UNCHANGED <<parts, rows, storing, cache, losses, preview, export, forward>>

-----------------------------------------------------------------------------
(* estimated_forward_attachment_wire_bytes, scaled: base64 and an envelope.*)
WireBytes(size) == 4 * ((size + 2) \div 3) + 1

Mutant_ForwardBatches(metas) ==
    LET Add(acc, r) ==
            LET next == WireBytes(rows[r].size)
            IN  IF Len(acc.batch) >= BatchMaxIds
                   \/ (acc.batch # <<>> /\ acc.wire + next > BatchBudget)
                THEN [done |-> Append(acc.done, acc.batch), batch |-> <<>>, wire |-> 0]
                ELSE [acc EXCEPT !.batch = Append(@, r), !.wire = @ + next]
        last == FoldLeft(Add, [done |-> <<>>, batch |-> <<>>, wire |-> 0], metas)
    IN  IF last.batch = <<>> THEN last.done ELSE Append(last.done, last.batch)

(* forward_attachment_batches: as many as fit the count and the frame.     *)
ForwardBatches(metas) ==
    LET Add(acc, r) ==
            LET next == WireBytes(rows[r].size)
                full == \/ Len(acc.batch) >= BatchMaxIds
                        \/ acc.batch # <<>> /\ acc.wire + next > BatchBudget
            IN  IF full
                THEN [done |-> Append(acc.done, acc.batch), batch |-> <<r>>, wire |-> next]
                ELSE [acc EXCEPT !.batch = Append(@, r), !.wire = @ + next]
        last == FoldLeft(Add, [done |-> <<>>, batch |-> <<>>, wire |-> 0], metas)
    IN  IF last.batch = <<>> THEN last.done ELSE Append(last.done, last.batch)

(* op_message_prepare_forward and the start of run_forward.                *)
PrepareForward ==
    /\ storing = "stored" /\ forward.phase = "idle"
    /\ forward' = [NoForward EXCEPT !.phase = "fetching",
                                    !.batches = ForwardBatches([r \in DOMAIN rows |-> r])]
    /\ UNCHANGED <<parts, rows, storing, cache, losses, preview, folder, export>>

(* swap_remove: the last element takes the place of the one removed.       *)
SwapRemove(seq, i) == SubSeq([seq EXCEPT ![i] = seq[Len(seq)]], 1, Len(seq) - 1)

(* pick_attachment_bytes: by content id, else by name and type, else by    *)
(* name; the position in `left' of the part taken, or 0.                   *)
PickedPart(left, row) ==
    LET First(Match(_)) == IF \E i \in DOMAIN left : Match(parts[left[i]])
                           THEN CHOOSE i \in DOMAIN left :
                                    /\ Match(parts[left[i]])
                                    /\ \A j \in 1 .. (i - 1) : ~Match(parts[left[j]])
                           ELSE 0
        ByCid  == First(LAMBDA p : row.cid # "" /\ p.cid = row.cid)
        ByBoth == First(LAMBDA p : p.name = row.name /\ p.type = row.type)
        ByName == First(LAMBDA p : p.name = row.name)
    IN  CASE ByCid # 0 -> ByCid [] ByCid = 0 /\ ByBoth # 0 -> ByBoth [] OTHER -> ByName

(* The refetched message serves the misses in turn, each taking its part.  *)
Refetched(misses) ==
    LET Take(acc, r) ==
            LET i == PickedPart(acc.left, rows[r])
            IN  IF i = 0 THEN acc
                ELSE [left |-> SwapRemove(acc.left, i), got |-> acc.got \cup {<<r, acc.left[i]>>}]
    IN  FoldLeft(Take, [left |-> [i \in DOMAIN parts |-> i], got |-> {}], misses).got

(* op_attachment_fetch_for_forward_batch and the rest of the loop body of  *)
(* run_forward.  What is cached is read; the misses are refetched in one   *)
(* go (when the server answers) and written back, a write that may fail;   *)
(* an id the message has no row for gets no bytes;                         *)
(* what arrives is saved to a temporary file, or reported when that fails. *)
(* Or the daemon refuses the batch, or dies in the middle, perhaps halfway *)
(* through a write, and the client reports the whole batch.                *)
FetchBatch ==
    /\ forward.phase = "fetching" /\ forward.batches # <<>>
    /\ LET batch  == Head(forward.batches)
           known  == SelectSeq(batch, LAMBDA r : r \in DOMAIN rows)
           misses == SelectSeq(known, LAMBDA r : cache[r] = Nothing)
           cached == {<<r, cache[r]>> : r \in Range(known) \ Range(misses)}
           Report(got, saved) ==
               [forward EXCEPT
                   !.batches = Tail(@),
                   !.carried = @ \o SelectSeq([i \in DOMAIN batch |-> <<batch[i], got[i]>>],
                                              LAMBDA e : e[2] # Nothing /\ e[1] \in saved),
                   !.failed = @ \o SelectSeq(batch,
                                  LAMBDA r : ~\E i \in DOMAIN batch :
                                      batch[i] = r /\ got[i] # Nothing /\ r \in saved)]
       IN  \/ \E link \in {"up", "down"}, kept \in SUBSET Range(misses), saved \in SUBSET Range(batch) :
                  LET fetched == IF link = "up" THEN Refetched(misses) ELSE {}
                      have    == cached \cup fetched
                      got     == [i \in DOMAIN batch |->
                                     IF \E e \in have : e[1] = batch[i]
                                     THEN (CHOOSE e \in have : e[1] = batch[i])[2] ELSE Nothing]
                  IN  /\ kept \subseteq {e[1] : e \in fetched}
                      /\ cache' = [r \in DOMAIN cache |->
                                      IF r \in kept THEN (CHOOSE e \in fetched : e[1] = r)[2]
                                      ELSE cache[r]]
                      /\ forward' = Report(got, saved)
           \/ /\ cache' \in {cache} \cup {[cache EXCEPT ![r] = Partial] : r \in Range(misses)}
              /\ forward' = Report([i \in DOMAIN batch |-> Nothing], {})
    /\ UNCHANGED <<parts, rows, storing, losses, preview, folder, export>>

(* The end of run_forward: the composer opens with what was carried, and a *)
(* toast names what was not.                                               *)
OpenForward ==
    /\ forward.phase = "fetching" /\ forward.batches = <<>>
    /\ forward' = [forward EXCEPT !.phase = "open"]
    /\ UNCHANGED <<parts, rows, storing, cache, losses, preview, folder, export>>

AttachmentNext ==
    \/ PersistPart \/ ExportAttachment \/ PrepareForward \/ FetchBatch \/ OpenForward
    \/ \E r \in DOMAIN rows : LoseFile(r) \/ Preview(r) \/ ChooseExportPath(r)
    \/ \E path \in DOMAIN folder : UserSaves(path)

-----------------------------------------------------------------------------
(* Properties                                                              *)

(* The names tell the parts apart, before and after sanitising.            *)
Distinguishable ==
    \A i, j \in DOMAIN parts :
        {parts[i].name, Sanitized[parts[i].name]} \cap {parts[j].name, Sanitized[parts[j].name]} # {}
        => i = j

(* A forward carries or reports every attachment of the message exactly    *)
(* once, in batches the daemon takes and the frame holds; and what it      *)
(* carries, like what the cache and an export hold, is the bytes of the    *)
(* attachment asked for and never those of another one, however files are  *)
(* lost, refetched and written back in between (run_forward,               *)
(* op_attachment_fetch_for_forward_batch, pick_attachment_bytes).          *)
ForwardSound ==
    /\ forward.phase = "open" =>
           LET named == [i \in DOMAIN forward.carried |-> forward.carried[i][1]] \o forward.failed
           IN  Len(named) = Len(rows) /\ Range(named) = DOMAIN rows
    /\ \A b \in Range(forward.batches) :
           /\ Len(b) \in 1 .. BatchMaxIds
           /\ Len(b) = 1 \/ FoldLeft(LAMBDA n, r : n + WireBytes(rows[r].size), 0, b) <= BatchBudget
    /\ Distinguishable =>
           /\ \A e \in Range(forward.carried) : e[2] \in {e[1], Partial}
           /\ \A r \in DOMAIN cache : cache[r] \in {r, Nothing, Partial}

(* A text shows: a valid file is never taken for another encoding because  *)
(* the limit cuts a character, what is shown ends with a whole one, and    *)
(* less than one character of what the limit allows is missing             *)
(* (preview_attachment).                                                   *)
PreviewSound ==
    preview.of # Nothing /\ parts[preview.of].bad = 0 =>
        /\ preview.shown
        /\ preview.truncated <=> SizeOf(parts[preview.of]) > PreviewLimit
        /\ ~preview.truncated => preview.bytes = SizeOf(parts[preview.of])
        /\ preview.truncated => preview.bytes \in (PreviewLimit - 3) .. PreviewLimit

(* What is made of the attachments is true to them: forwards and previews  *)
(* (run_forward, preview_attachment).                                      *)
FilesSound == ForwardSound /\ PreviewSound

(* An export never replaces a file that is in the directory, even one that *)
(* appeared after the terminal chose the name (default_export_path,        *)
(* export_attachment).                                                     *)
NothingOverwritten ==
    [][\A path \in DOMAIN folder : folder[path] # Nothing => folder'[path] = folder[path]]_attachmentVars

=============================================================================
