--------------------------- MODULE DocumentSaver ---------------------------
(* The save pipeline of one document: LapizDocument's save half            *)
(* (lapiz-document.c), the one-shot LapizDocumentSaver                      *)
(* (lapiz-document-saver.c) and the asynchronous LapizGioDocumentSaver      *)
(* (lapiz-gio-document-saver.c).                                            *)
(*                                                                          *)
(* One AsyncData is in flight at a time, so `pc' names the GIO operation    *)
(* whose callback is pending.  The main loop may run anything between two   *)
(* callbacks: other programs write, delete or unmount the file meanwhile.   *)
EXTENDS Naturals, Sequences

CONSTANTS
    Locations,      \* the URIs a document can be saved to
    LocalLocations, \* those with the file: scheme (lapiz_document_is_local)
    FlagSets,       \* the LapizDocumentSaveFlags lapiz_document_save is called with
    MaxLen,         \* bound: units of text in the buffer
    ChunkSize,      \* WRITE_CHUNK_SIZE, in units
    MaxVersion,     \* bound: edits of the buffer
    MaxClock        \* bound: modification times ever given to a file

ASSUME ChunkAssumption == ChunkSize \in Nat \ {0}
ASSUME BoundsAssumption ==
    /\ MaxLen \in Nat
    /\ MaxVersion \in Nat \ {0}
    /\ MaxClock \in Nat \ {0}
    /\ LocalLocations \subseteq Locations

VARIABLES
    buffer,     \* the text: a sequence of units, each the version it was typed in
    modified,   \* ctk_text_buffer_get_modified
    version,    \* number of edits so far
    uri,        \* priv->uri, or NoUri for an untitled document
    docMtime,   \* priv->mtime, 0 when unknown
    saver,      \* priv->saver with its construct properties, or NoSaver
    pc,         \* the asynchronous operation in flight
    triedMount, \* AsyncData.tried_mount
    pos,        \* units of the buffer consumed by the input stream's mark
    chunk,      \* AsyncData.buffer, its length is AsyncData.read
    written,    \* AsyncData.written
    failure,    \* AsyncData.error, kept while the stream is being cancelled
    stream,     \* what the output stream holds, not yet moved over the file
    files,      \* the file system: Locations -> [exists, content, mtime]
    backups,    \* the content of each file~
    mounted,    \* is the volume of the locations mounted
    clock,      \* last modification time handed out
    result      \* the error of the SAVED signal ("none" from the start of a save to it)

docVars    == <<buffer, modified, version, uri, docMtime>>
asyncVars  == <<triedMount, pos, chunk, written, failure, stream>>
worldVars  == <<files, backups, mounted, clock>>
vars == <<docVars, saver, pc, asyncVars, worldVars, result>>

NoUri   == "untitled"
NoSaver == [uri |-> NoUri, flags |-> {}, keepBackup |-> FALSE, oldMtime |-> 0]

IGNORE_MTIME    == "IGNORE_MTIME"
IGNORE_BACKUP   == "IGNORE_BACKUP"
PRESERVE_BACKUP == "PRESERVE_BACKUP"
ASSUME UriAssumption == NoUri \notin Locations

Flags == {IGNORE_MTIME, IGNORE_BACKUP, PRESERVE_BACKUP}

ASSUME FlagAssumption == FlagSets \subseteq SUBSET Flags

NotMounted         == "NOT_MOUNTED"
ExternallyModified == "EXTERNALLY_MODIFIED"
CantCreateBackup   == "CANT_CREATE_BACKUP"
IOError            == "IO_ERROR"      \* any other GIO error of the operation
InfoError          == "INFO_ERROR"    \* the final query failed
Errors  == {NotMounted, ExternallyModified, CantCreateBackup, IOError, InfoError}
Results == {"none", "ok"} \union Errors

InFlight == {"timeout", "query", "mount", "replace", "write", "cancelClose",
             "close", "info"}

Foreign == <<0>>    \* what another program leaves in a file

MinOf(a, b) == IF a < b THEN a ELSE b

FileRecord == [exists: BOOLEAN, content: Seq(Nat), mtime: Nat]
NoFile     == [exists |-> FALSE, content |-> <<>>, mtime |-> 0]

(***************************************************************************)
(* The user and the rest of the machine.                                   *)
(***************************************************************************)

\* A document that was just loaded from `uri' or a fresh untitled one.
Init ==
    /\ version = 1
    /\ \E n \in 0..MaxLen : buffer = [i \in 1..n |-> 1]
    /\ uri \in Locations \union {NoUri}
    /\ modified = (uri = NoUri)
    /\ files = [l \in Locations |->
                  IF l = uri THEN [exists |-> TRUE, content |-> buffer, mtime |-> 1]
                             ELSE NoFile]
    /\ docMtime = IF uri = NoUri THEN 0 ELSE 1
    /\ saver = NoSaver /\ pc = "idle" /\ result = "none"
    /\ triedMount = FALSE /\ pos = 0 /\ chunk = <<>> /\ written = 0
    /\ failure = "none" /\ stream = <<>>
    /\ backups = [l \in Locations |-> <<>>]
    /\ mounted = TRUE
    /\ clock = 1

\* The view is not editable while its tab saves (set_view_properties_according_to_state).
Edit ==
    /\ pc = "idle"
    /\ version < MaxVersion
    /\ version' = version + 1
    /\ \E n \in 0..MaxLen : buffer' = [i \in 1..n |-> version']
    /\ modified' = TRUE
    /\ UNCHANGED <<uri, docMtime, saver, pc, asyncVars, worldVars, result>>

ForeignWrite(l) ==
    /\ clock < MaxClock
    /\ clock' = clock + 1
    /\ files' = [files EXCEPT ![l] = [exists |-> TRUE, content |-> Foreign,
                                      mtime |-> clock']]
    /\ UNCHANGED <<docVars, saver, pc, asyncVars, backups, mounted, result>>

ForeignDelete(l) ==
    /\ files[l].exists
    /\ files' = [files EXCEPT ![l] = NoFile]
    /\ UNCHANGED <<docVars, saver, pc, asyncVars, backups, mounted, clock, result>>

Unmount ==
    /\ mounted
    /\ mounted' = FALSE
    /\ UNCHANGED <<docVars, saver, pc, asyncVars, files, backups, clock, result>>

(***************************************************************************)
(* lapiz_document_save, lapiz_document_save_as and lapiz_document_saver_save *)
(***************************************************************************)

\* A saver is used once; its AsyncData starts empty.
FreshAsyncData ==
    triedMount' = FALSE /\ pos' = 0 /\ chunk' = <<>> /\ written' = 0
        /\ failure' = "none" /\ stream' = <<>>

NewSaver(l, flags, keepBackup) ==
    [uri |-> l, flags |-> flags, oldMtime |-> docMtime, keepBackup |-> keepBackup]

\* "never keep backup of autosaves"
KeepBackup(flags, createBackupCopy) ==
    PRESERVE_BACKUP \notin flags /\ createBackupCopy

\* lapiz_document_save_real and lapiz_document_saver_save: the saver is created
\* with the document's mtime and its zero timeout is scheduled.
CreateSaver(l, flags, createBackupCopy) ==
    /\ saver = NoSaver
    /\ saver' = NewSaver(l, flags, KeepBackup(flags, createBackupCopy))
    /\ pc' = "timeout"
    /\ FreshAsyncData
    /\ result' = "none"
    /\ UNCHANGED <<docVars, worldVars>>

Save(flags) ==
    /\ uri # NoUri
    /\ \E b \in BOOLEAN : CreateSaver(uri, flags, b)

\* priv->mtime refers to the old location, so it is ignored.
SaveAs(l, flags) ==
    \E b \in BOOLEAN : CreateSaver(l, flags \union {IGNORE_MTIME}, b)

(***************************************************************************)
(* The asynchronous pipeline.                                              *)
(***************************************************************************)

ThrowSaverAway ==
    saver' = NoSaver /\ pc' = "idle" /\ FreshAsyncData

\* Mutant: a failed save clears the modified flag as well.
Completed_ClearsModifiedAnyway(error, mtime) ==
    /\ IF error = "ok"
       THEN uri' = saver.uri /\ docMtime' = mtime
       ELSE UNCHANGED <<uri, docMtime>>
    /\ modified' = FALSE
    /\ result' = error
    /\ ThrowSaverAway
    /\ UNCHANGED <<buffer, version>>

\* remote_save_completed_or_failed, lapiz_document_saver_saving (TRUE) and
\* document_saver_saving: on success the document takes the saver's location
\* and the modification time of the queried info; the saver is thrown away.
Completed(error, mtime) ==
    /\ IF error = "ok"
       THEN uri' = saver.uri /\ docMtime' = mtime /\ modified' = FALSE
       ELSE UNCHANGED <<uri, docMtime, modified>>
    /\ result' = error
    /\ ThrowSaverAway
    /\ UNCHANGED <<buffer, version>>

\* async_failed
Failed(error) == Completed(error, docMtime)

\* save_remote_file_real: the zero timeout fires and check_modified_async starts.
SaveTimeout ==
    /\ pc = "timeout"
    /\ pc' = "query"
    /\ UNCHANGED <<docVars, saver, asyncVars, worldVars, result>>

\* Mutant: autosaves do not look.
IsExternallyModified_NotForAutosaves(f) ==
    /\ f.exists
    /\ saver.oldMtime > 0 \/ f.mtime > 0
    /\ f.mtime # saver.oldMtime
    /\ {IGNORE_MTIME, PRESERVE_BACKUP} \intersect saver.flags = {}

\* The mtime on disk is not the one the document knows, and nobody said to ignore it.
IsExternallyModified(f) ==
    /\ f.exists
    /\ saver.oldMtime > 0 \/ f.mtime > 0
    /\ f.mtime # saver.oldMtime
    /\ IGNORE_MTIME \notin saver.flags

\* Mutant: the mount is tried again and again.
RecoverNotMounted_Forever ==
    /\ pc' = "mount"
    /\ UNCHANGED <<docVars, saver, asyncVars, result>>

\* recover_not_mounted
RecoverNotMounted ==
    /\ triedMount' = TRUE
    /\ pc' = "mount"
    /\ UNCHANGED <<docVars, saver, pos, chunk, written, failure, stream, result>>

\* check_modification_callback; a missing file is fine, begin_write follows.
CheckModification ==
    /\ pc = "query"
    /\ LET f == files[saver.uri] IN
       \/ /\ ~mounted /\ ~triedMount
          /\ RecoverNotMounted
       \/ /\ ~mounted /\ triedMount
          /\ Failed(NotMounted)
       \/ /\ mounted
          /\ Failed(IOError)                     \* the query itself fails
       \/ /\ mounted /\ IsExternallyModified(f)
          /\ Failed(ExternallyModified)
       \/ /\ mounted /\ ~IsExternallyModified(f)
          /\ pc' = "replace"
          /\ UNCHANGED <<docVars, saver, asyncVars, result>>
    /\ UNCHANGED worldVars

\* mount_ready_callback: "try again to get the modified state".
MountReady ==
    /\ pc = "mount"
    /\ \/ /\ mounted' = TRUE
          /\ pc' = "query"
          /\ UNCHANGED <<docVars, saver, asyncVars, result>>
       \/ /\ Failed(IOError)
          /\ UNCHANGED mounted
    /\ UNCHANGED <<files, backups, clock>>

\* begin_write: only local files are backed up.
KeepsBackup == saver.keepBackup /\ saver.uri \in LocalLocations

\* Mutant: the count of written units survives from the last chunk.
ReadFileChunk_KeepsWritten(from) ==
    LET n == MinOf(ChunkSize, Len(buffer) - from) IN
    /\ written' = MinOf(written, n)
    /\ pos' = from + n
    /\ chunk' = SubSeq(buffer, from + 1, from + n)
    /\ pc' = IF n = 0 THEN "close" ELSE "write"

\* read_file_chunk: synchronously take the next chunk of the buffer, from the
\* mark on; an empty read means everything was written (write_complete).
ReadFileChunk(from) ==
    LET n == MinOf(ChunkSize, Len(buffer) - from) IN
    /\ written' = 0
    /\ pos' = from + n
    /\ chunk' = SubSeq(buffer, from + 1, from + n)
    /\ pc' = IF n = 0 THEN "close" ELSE "write"

\* async_replace_ready_callback
ReplaceReady ==
    /\ pc = "replace"
    /\ \/ /\ mounted
          /\ ReadFileChunk(0)
          /\ stream' = <<>>
          /\ UNCHANGED <<docVars, saver, triedMount, failure, result>>
       \/ \E e \in {IOError, CantCreateBackup} : Failed(e)
    /\ UNCHANGED worldVars

\* async_write_cb: a write may be partial; when the chunk is out, read on.  A
\* write error (a character the encoding cannot express, a full disk) starts
\* cancel_output_stream_and_fail.
WriteReady ==
    /\ pc = "write"
    /\ \/ \E k \in 1..(Len(chunk) - written) :
            /\ stream' = stream \o SubSeq(chunk, written + 1, written + k)
            /\ IF written + k # Len(chunk)
               THEN written' = written + k /\ UNCHANGED <<pos, chunk, pc>>
               ELSE ReadFileChunk(pos)
            /\ UNCHANGED failure
       \/ /\ failure' = IOError
          /\ pc' = "cancelClose"
          /\ UNCHANGED <<stream, written, pos, chunk>>
    /\ UNCHANGED <<docVars, saver, triedMount, worldVars, result>>

\* Mutant: the stream is closed with the saver's own cancellable.
CancelClose_MovesOver ==
    /\ files' = [files EXCEPT ![saver.uri].content = stream]
    /\ UNCHANGED backups

\* cancel_output_stream: closing with a cancelled cancellable throws the
\* replacement away; cancel_output_stream_ready_cb then reports the error.
CancelClose == UNCHANGED <<files, backups>>
CancelOutputStreamReady ==
    /\ pc = "cancelClose"
    /\ CancelClose
    /\ Failed(failure)
    /\ UNCHANGED <<mounted, clock>>

\* What GIO does when the output stream is closed: the old file becomes the
\* backup if one is wanted, and the written file is moved over the original.
MoveOver ==
    LET l == saver.uri IN
    /\ clock' = clock + 1
    /\ files' = [files EXCEPT ![l] = [exists |-> TRUE, content |-> stream,
                                      mtime |-> clock']]
    /\ backups' = IF KeepsBackup /\ files[l].exists
                  THEN [backups EXCEPT ![l] = files[l].content]
                  ELSE backups

\* close_async_ready_get_info_cb; the bound on modification times makes the
\* close fail when they are used up.
CloseReady ==
    /\ pc = "close"
    /\ \/ /\ clock < MaxClock /\ mounted
          /\ MoveOver
          /\ pc' = "info"
          /\ UNCHANGED <<docVars, saver, asyncVars, mounted, result>>
       \/ /\ \E e \in {IOError, CantCreateBackup} : Failed(e)
          /\ UNCHANGED worldVars

\* remote_get_info_cb: the mtime the document will compare with from now on is
\* asked for after the file was replaced.
GetInfoReady ==
    /\ pc = "info"
    /\ \/ /\ mounted /\ files[saver.uri].exists
          /\ Completed("ok", files[saver.uri].mtime)
       \/ Failed(InfoError)
    /\ UNCHANGED worldVars

Foreigners ==
    \/ \E l \in Locations : ForeignWrite(l) \/ ForeignDelete(l)
    \/ Unmount

User ==
    \/ Edit
    \/ \E fl \in FlagSets : Save(fl)
    \/ \E l \in Locations, fl \in SUBSET {IGNORE_BACKUP} : SaveAs(l, fl)

Pipeline ==
    \/ SaveTimeout \/ CheckModification \/ MountReady \/ ReplaceReady
    \/ WriteReady \/ CancelOutputStreamReady \/ CloseReady \/ GetInfoReady

Next == Foreigners \/ User \/ Pipeline

\* GIO calls back for every operation it was given; nothing is assumed of the
\* user or of other programs.
Fairness == WF_vars(Pipeline)

Spec == Init /\ [][Next]_vars /\ Fairness

-----------------------------------------------------------------------------
DocTypeOK ==
    /\ buffer \in Seq(Nat) /\ modified \in BOOLEAN /\ version \in Nat
    /\ uri \in Locations \union {NoUri} /\ docMtime \in Nat

SaverTypeOK ==
    /\ saver \in {NoSaver} \union [uri: Locations, flags: SUBSET Flags,
                                   keepBackup: BOOLEAN, oldMtime: Nat]
    /\ pc \in InFlight \union {"idle"}
    /\ (saver = NoSaver) <=> (pc = "idle")
    /\ result \in Results

AsyncTypeOK ==
    /\ triedMount \in BOOLEAN
    /\ pos \in 0..Len(buffer) /\ chunk \in Seq(Nat) /\ written \in 0..Len(chunk)
    /\ failure \in {"none", IOError} /\ stream \in Seq(Nat)

WorldTypeOK ==
    /\ files \in [Locations -> FileRecord]
    /\ backups \in [Locations -> Seq(Nat)]
    /\ mounted \in BOOLEAN /\ clock \in Nat

TypeOK == DocTypeOK /\ SaverTypeOK /\ AsyncTypeOK /\ WorldTypeOK

\* What the pipeline holds of the text at any moment, in the order it was typed:
\* the output stream, the unwritten part of the chunk, the rest of the buffer.
\* However the writes are split, no unit is lost, repeated or reordered
\* (read_file_chunk, write_file_chunk, async_write_cb).
NothingLostOnTheWay ==
    pc \in {"write", "close", "info"} =>
        stream \o SubSeq(chunk, written + 1, Len(chunk))
               \o SubSeq(buffer, pos + 1, Len(buffer)) = buffer

\* The NOTE of lapiz-gio-document-saver.c:198 promises that an aborted save does
\* not move its file over the original: a file changes only to the whole buffer
\* or to what another program wrote.
NeverTorn ==
    [][\A l \in Locations :
         files'[l] # files[l] => \/ files'[l] \in {NoFile}
                                 \/ files'[l].content \in {Foreign, buffer}]_vars

\* An unmodified document that is not being saved and whose mtime is the one on
\* disk shows exactly what is on disk: document_saver_saving clears the modified
\* flag, takes the location and takes the mtime together or not at all.
CleanMeansOnDisk ==
    (/\ pc = "idle" /\ uri # NoUri /\ ~modified
     /\ files[uri].exists /\ files[uri].mtime = docMtime)
        => files[uri].content = buffer

\* A change of the file by another program is noticed by the next check: the
\* document's mtime differs from the mtime of content it has never seen.
ForeignContentIsDetectable ==
    (pc = "idle" /\ uri # NoUri /\ files[uri].exists
       /\ files[uri].content = Foreign /\ Foreign # buffer)
        => docMtime # files[uri].mtime

\* Saves that must not touch the user's backup (autosaves) never change one,
\* and a save that makes one keeps exactly the content it replaces.
BackupsArePreserved ==
    [][backups' # backups =>
         /\ PRESERVE_BACKUP \notin saver.flags
         /\ saver.uri \in LocalLocations
         /\ backups'[saver.uri] = files[saver.uri].content]_vars

\* Every save ends with a SAVED signal.
SaveEnds == (pc # "idle") ~> (pc = "idle")

=============================================================================
