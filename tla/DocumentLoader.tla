--------------------------- MODULE DocumentLoader --------------------------
(* Loading a file into a document: lapiz_document_load and what it takes     *)
(* over (lapiz-document.c), the one-shot LapizDocumentLoader                 *)
(* (lapiz-document-loader.c), LapizGioDocumentLoader                         *)
(* (lapiz-gio-document-loader.c) and the two streams between which it moves  *)
(* the text.                                                                *)
(*                                                                          *)
(* Every loader has one asynchronous call in flight.  A cancelled load is    *)
(* reported at once; the call it leaves behind comes back later, maybe while *)
(* the next loader is at work.                                              *)
EXTENDS DocumentOutputStream, SmartCharsetConverter

VARIABLES
    file,       \* its [content, mtime]
    loaders,    \* a record for every load
    loader,     \* priv->loader of the document, 0 when NULL
    os,         \* the output stream of the last load that got so far; the
                \* document's text is in its `text'
    doc,        \* what the document takes over from a loader
    metadata    \* the encoding the metadata hold for the file

loadVars == <<file, loaders, loader, os, doc, metadata>>

Calls   == {"none", "read", "mount", "query", "chunk", "close"}
LoadIOError == "io"
LoadErrors == {"none", "not_found", "not_mounted", LoadIOError, "conversion", "detection",
            "invalid", "incomplete", "cancelled"}

\* call: the asynchronous operation in flight, stream: what is left of the file
\* that was opened, content: all of it.
NewLoader(enc) ==
    [call |-> "read", used |-> TRUE, tried_mount |-> FALSE, cancelled |-> FALSE,
     encoding |-> enc, candidates |-> <<>>, guessed |-> NoEncoding, newline_type |-> "LF",
     stream |-> <<>>, content |-> <<>>, mtime |-> 0, raced |-> FALSE,
     error |-> "none", reports |-> 0]
NoLoader == [NewLoader(NoEncoding) EXCEPT !.call = "none", !.used = FALSE]

NewDocument == [encoding |-> UTF8, newline_type |-> "LF", mtime |-> 0]

LoadInit ==
    /\ file \in [content: Contents, mtime: {1}]
    /\ loaders = [l \in Loads |-> NoLoader]
    /\ loader = 0
    /\ os = NewOutputStream
    /\ doc = NewDocument
    /\ metadata = NoEncoding

\* Mutant: the callbacks do not look whether the load was cancelled.
Running_Cancelled(l, call) == loaders[l].call = call

Running(l, call) == loaders[l].call = call /\ ~loaders[l].cancelled
Fresh(l)         == ~loaders[l].used /\ \A k \in Loads : k < l => loaders[k].used

(***************************************************************************)
(* lapiz_document_load with an encoding the user chose, or with none.       *)
(***************************************************************************)
Load(l) ==
    /\ loader = 0 /\ Fresh(l)
    /\ \E enc \in Encodings \union {NoEncoding} :
          loaders' = [loaders EXCEPT ![l] = NewLoader(enc)]
    /\ loader' = l
    /\ UNCHANGED <<file, os, doc, metadata>>

(***************************************************************************)
(* document_loader_loaded.  Without its last reference the loader is        *)
(* disposed of, and GIO flushes and closes the output stream it drops.      *)
(***************************************************************************)
Ended(loading, error) ==
    [loading EXCEPT !.call = "none", !.error = error, !.reports = @ + 1,
                    !.stream = <<>>, !.tried_mount = FALSE]

\* document_loader_loaded takes over what the loader knows.
EncodingOf(loading) == IF loading.encoding = NoEncoding THEN loading.guessed ELSE loading.encoding

TakenOver(loading) ==
    [doc EXCEPT !.encoding = EncodingOf(loading), !.mtime = loading.mtime,
                !.newline_type = loading.newline_type]

Loaded(l, loading, error, output) ==
    /\ loaders' = [loaders EXCEPT ![l] = Ended(loading, error)]
    /\ os' = Close(Flush(output).os)
    /\ IF error = "none"
       THEN /\ doc' = TakenOver(loading)
            /\ metadata' = IF loading.encoding \notin {NoEncoding, doc.encoding}
                           THEN loading.encoding ELSE metadata
       ELSE UNCHANGED <<doc, metadata>>
    /\ loader' = 0

Fails(l, error) == Loaded(l, loaders[l], error, os)

Calling(l, loading) ==
    /\ loaders' = [loaders EXCEPT ![l] = loading]
    /\ UNCHANGED <<loader, doc, metadata>>

(***************************************************************************)
(* lapiz_gio_document_loader_cancel reports the end; the call in flight     *)
(* comes back to find the load cancelled.                                  *)
(***************************************************************************)
Cancel ==
    /\ loader # 0
    /\ LET loading == [loaders[loader] EXCEPT !.cancelled = TRUE]
       IN  /\ loaders' = [loaders EXCEPT ![loader] =
                            [Ended(loading, "cancelled") EXCEPT !.call = loading.call,
                                                                !.content = <<>>]]
           /\ os' = Close(Flush(os).os)
    /\ loader' = 0
    /\ UNCHANGED <<file, doc, metadata>>

Drop(l) ==
    /\ loaders[l].cancelled /\ loaders[l].call # "none"
    /\ loaders' = [loaders EXCEPT ![l].call = "none"]
    /\ UNCHANGED <<file, loader, os, doc, metadata>>

(***************************************************************************)
(* async_read_ready_callback and mount_ready_callback: a volume that is not *)
(* mounted is mounted once.                                                *)
(***************************************************************************)
Opened(l) ==
    /\ Running(l, "read")
    /\ Calling(l, [loaders[l] EXCEPT !.call = "query", !.stream = file.content,
                                     !.content = file.content])
    /\ UNCHANGED <<file, os>>

\* Mutant: the mount is tried again and again.
NotOpened_MountsAgain(l) ==
    /\ Running(l, "read")
    /\ \/ Calling(l, [loaders[l] EXCEPT !.call = "mount"]) /\ UNCHANGED os
       \/ \E error \in {"not_found", LoadIOError} : Fails(l, error)
    /\ UNCHANGED file

NotOpened(l) ==
    /\ Running(l, "read")
    /\ \E error \in {"not_found", "not_mounted", LoadIOError} :
          IF error = "not_mounted" /\ ~loaders[l].tried_mount
          THEN Calling(l, [loaders[l] EXCEPT !.call = "mount", !.tried_mount = TRUE])
               /\ UNCHANGED os
          ELSE Fails(l, error)
    /\ UNCHANGED file

Mounted(l) ==
    /\ Running(l, "mount")
    /\ \/ Calling(l, [loaders[l] EXCEPT !.call = "read"]) /\ UNCHANGED os
       \/ Fails(l, LoadIOError)
    /\ UNCHANGED file

(***************************************************************************)
(* query_info_cb and finish_query_info: the query may fail, or tell that it *)
(* is no regular file.  The output stream empties the document.             *)
(***************************************************************************)
Candidates(loading) ==
    IF loading.encoding # NoEncoding THEN <<loading.encoding>>
    ELSE IF metadata # NoEncoding THEN <<metadata>> \o AutoDetected
    ELSE AutoDetected

Queried(l) ==
    /\ Running(l, "query")
    /\ LET loading == loaders[l]
       IN  Calling(l, [loading EXCEPT !.call = "chunk", !.mtime = file.mtime,
                                      !.candidates = Candidates(loading)])
    /\ os' = NewOutputStream
    /\ UNCHANGED file

QueryFails(l) == Running(l, "query") /\ Fails(l, LoadIOError) /\ UNCHANGED file

(***************************************************************************)
(* async_read_cb: a piece of the file comes through the converter, which    *)
(* guesses with the first one, and is written to the document.  What the    *)
(* charset has no character for is an error once all before it is read.     *)
(***************************************************************************)
Guess(loading, block) ==
    IF loading.guessed # NoEncoding THEN loading
    ELSE [loading EXCEPT !.guessed = GuessEncoding(loading.candidates, block)]

Chunk(l) ==
    /\ Running(l, "chunk") /\ loaders[l].stream # <<>>
    /\ \E n \in 1..Min({ReadChunkSize, Len(loaders[l].stream)}) :
          LET block   == SubSeq(loaders[l].stream, 1, n)
              loading == Guess(loaders[l], block)
              taken   == Convertible(loading.guessed, block)
              piece   == SubSeq(block, 1, taken)
              written == Write(os, Converted(loading.guessed, piece))
          IN  IF loading.guessed = NoEncoding THEN Loaded(l, loading, "detection", os)
              ELSE IF taken = 0 THEN Loaded(l, loading, "conversion", os)
              ELSE IF ~written.valid THEN Loaded(l, loading, "invalid", written.os)
              ELSE /\ Calling(l, [loading EXCEPT
                                    !.stream = SubSeq(@, taken + 1, Len(@))])
                   /\ os' = written.os
    /\ UNCHANGED file

ChunkFails(l) == Running(l, "chunk") /\ Fails(l, LoadIOError) /\ UNCHANGED file

\* The end of the file: the guess, the line ends, and the streams to close.
EndOfFile(l) ==
    /\ Running(l, "chunk") /\ loaders[l].stream = <<>>
    /\ LET flushed == Flush(os)
       IN  /\ Calling(l, [Guess(loaders[l], <<>>) EXCEPT
                            !.call = "close", !.newline_type = NewlineType(flushed.os.text),
                            !.error = IF flushed.valid THEN "none" ELSE "invalid"])
           /\ os' = flushed.os
    /\ UNCHANGED file

\* close_input_stream_ready_cb
Closed(l) ==
    /\ Running(l, "close")
    /\ LET loading == loaders[l]
       IN  \/ Loaded(l, loading, IF loading.error # "none" THEN loading.error
                                 ELSE IF CloseFails(os) THEN "incomplete" ELSE "none", os)
           \/ Fails(l, LoadIOError)
    /\ UNCHANGED file

(***************************************************************************)
(* The rest of the machine and the user.                                   *)
(***************************************************************************)
\* Another program moves another file to its place; who has it open reads on.
Querying == {l \in Loads : Running(l, "query")}

Replace ==
    /\ file.mtime <= MaxReplaced
    /\ \E content \in Replacements : file' = [content |-> content, mtime |-> file.mtime + 1]
    /\ loaders' = [l \in Loads |-> IF l \in Querying THEN [loaders[l] EXCEPT !.raced = TRUE]
                                                     ELSE loaders[l]]
    /\ UNCHANGED <<loader, os, doc, metadata>>

Callback(l) == \/ Drop(l) \/ Opened(l) \/ NotOpened(l) \/ Mounted(l) \/ Queried(l)
               \/ QueryFails(l) \/ Chunk(l) \/ ChunkFails(l) \/ EndOfFile(l) \/ Closed(l)

LoadNext == (\E l \in Loads : Load(l) \/ Callback(l)) \/ Cancel \/ Replace

LoadSpec == LoadInit /\ [][LoadNext]_loadVars

(***************************************************************************)
(* Properties.                                                             *)
(***************************************************************************)
\* What every variable holds; a loader the document has waits for an answer,
\* and an ended one for none.
LoadTypeOK ==
    /\ file.mtime \in 1..MaxReplaced + 1
    /\ loader \in Loads \union {0}
    /\ loader # 0 => loaders[loader].call \in Calls \ {"none"}
    /\ \A l \in Loads : /\ loaders[l].error \in LoadErrors /\ loaders[l].call \in Calls
                        /\ loaders[l].guessed \in Encodings \union {NoEncoding}
    /\ Valid(os.text) /\ Len(os.buffer) < UnicharLen /\ os.not_undoable \in 0..1
    /\ doc.newline_type \in NewlineTypes /\ doc.encoding \in Encodings
    /\ metadata \in Encodings \union {NoEncoding}

Done(l, errors) == loaders[l].reports > 0 /\ loaders[l].error \in errors
MaxLength       == Max({Len(content) : content \in Contents})
LastLoad(l)     == loader = 0 /\ loaders[l].used /\ \A k \in Loads : k > l => ~loaders[k].used

\* The file as a whole, read in an encoding.
Decodes(enc, content) ==
    IF enc = UTF8 THEN Valid(content) ELSE \A i \in DOMAIN content : Decodable(enc, content[i])

\* A load that succeeds shows the file, all of it, decoded, without the newline
\* at its end, in whatever pieces it came; and the document takes over the
\* encoding and the line ends it was read with (document_loader_loaded).
LoadedIsDecoded ==
    \A l \in Loads : LastLoad(l) /\ Done(l, {"none"}) =>
        LET text == Converted(doc.encoding, loaders[l].content)
        IN  /\ Decodes(doc.encoding, loaders[l].content)
            /\ os.text = WithoutEndingNewline(text)
            /\ doc.newline_type = NewlineType(text)
            /\ doc.encoding = EncodingOf(loaders[l])

\* A file that can be read in the encoding the load settled on is not refused
\* for where its pieces are cut (write, guess_encoding).
GoodFilesLoad ==
    \A l \in Loads :
        /\ Done(l, {"conversion", "invalid", "incomplete"}) =>
              ~Decodes(loaders[l].guessed, loaders[l].content)
        /\ Done(l, {"detection"}) =>
              \A i \in DOMAIN loaders[l].candidates :
                 ~Decodes(loaders[l].candidates[i], loaders[l].content)

\* Unless it was replaced between its opening and the query, a file that has
\* the modification time the document keeps is the one it was loaded from: what
\* others write during or after the load is seen (finish_query_info before the
\* first read, _lapiz_document_check_externally_modified).
StaleIsNoticed ==
    \A l \in Loads :
        /\ Done(l, {"none"}) /\ ~loaders[l].raced
        /\ \A k \in Loads : k > l => ~Done(k, {"none"})
        /\ doc.mtime = file.mtime
        => loaders[l].content = file.content

\* Every load reports its end once: not again when a call that a cancelled load
\* left behind comes back, and not while another load is at work.
ReportedOnce ==
    \A l \in Loads : loaders[l].reports = IF loaders[l].used /\ loader # l THEN 1 ELSE 0

\* However a load ends, the user can undo what is edited afterwards
\* (begin_not_undoable_action in write, end_append_text_to_document).
UndoIsEnabled == loader = 0 => os.not_undoable = 0

\* Every answer brings a load nearer its end, also when its volume comes
\* unmounted again and again: it ends if its calls are answered
\* (tried_mount, read_file_chunk).
CallsLeft(l) ==
    LET left == Len(loaders[l].stream)
    IN  CASE loaders[l].call = "close" -> 0
          [] loaders[l].call = "chunk" -> left + 1
          [] loaders[l].call = "query" -> left + 2
          [] loaders[l].call = "mount" -> MaxLength + 4
          [] loaders[l].call = "read"  -> MaxLength + (IF loaders[l].tried_mount THEN 3 ELSE 5)
NearerTheEnd ==
    [][\A l \in Loads :
          /\ loader = l /\ loader' = l
          /\ <<loaders[l].call, loaders[l].stream>> # <<loaders'[l].call, loaders'[l].stream>>
          => CallsLeft(l)' < CallsLeft(l)]_loadVars

\* In whatever pieces a file comes and whoever writes it meanwhile, the document
\* is the file it was told it is.
LoadedIsTheFile == LoadTypeOK /\ LoadedIsDecoded /\ GoodFilesLoad /\ StaleIsNoticed

\* A load ends once, and leaves the buffer as it found it but for the text.
LoadEndsOnce == ReportedOnce /\ UndoIsEnabled
=============================================================================
