---------------------------- MODULE FileManager -----------------------------
(***************************************************************************)
(* The files page (main.ts 1280-1468 and 2619-2650): the directory it      *)
(* shows, the context menu and the editor, with the connection, the        *)
(* awaited commands and their order as in module ServerPages.              *)
(*                                                                         *)
(* currentRemotePath is set before a directory is loaded; the entries are  *)
(* of the path asked for, and the label above them is of the path when     *)
(* they arrive.  What the server holds does not change here: an operation  *)
(* matters by the place it is aimed at.                                    *)
(***************************************************************************)
EXTENDS ServerPages

CONSTANTS
    Home,        \* the home directory
    Folder,      \* the directories in it
    HomeFile     \* the files in it; the other places are files of the folders

ASSUME FilesAssumption ==
    /\ Home \in Place /\ Folder \subseteq Place \ {Home}
    /\ HomeFile \subseteq Place \ (Folder \cup {Home})

VARIABLES
    path,        \* currentRemotePath
    label,       \* the path the page shows
    rows,        \* the directory whose entries it lists, NoPlace at first
    selected,    \* selectedFile
    menu,        \* the entry the context menu was opened over, NoPlace while it
                 \* is closed
    editor,      \* the file the editor shows, NoPlace while it is closed
    mark,        \* the file whose save its status reports
    faltered,    \* history: a listing failed, or was not asked for while offline
    hurried      \* history: a file was opened while another was being opened

files == <<path, label, rows, selected, menu, editor, mark, faltered, hurried>>
fvars == <<gvars, files>>

Directory == Folder \cup {Home}
File == Place \ Directory

\* The rows of a directory (renderFileRows).
Entries(d) == CASE d = Home -> Folder \cup HomeFile
                [] d \in Folder -> File \ HomeFile
                [] OTHER -> {}

FilesTypeOK ==
    /\ PagesTypeOK
    /\ path \in Directory /\ label \in Directory
    /\ rows \in Directory \cup {NoPlace}
    /\ selected \in Place \cup {NoPlace} /\ menu \in Place \cup {NoPlace}
    /\ editor \in File \cup {NoPlace} /\ mark \in File \cup {NoPlace}
    /\ faltered \in BOOLEAN /\ hurried \in BOOLEAN

FilesInit ==
    /\ PagesInit
    /\ path = Home /\ label = Home /\ rows = NoPlace
    /\ selected = NoPlace /\ menu = NoPlace
    /\ editor = NoPlace /\ mark = NoPlace
    /\ faltered = FALSE /\ hurried = FALSE

-----------------------------------------------------------------------------
(* The functions of the page up to their first await *)

\* Faulty variant: the directory on display is asked for.
LoadFilesOfLabel(c, d) ==
    /\ path' = d
    /\ IF conn = "online"
         THEN Await(c, "list", label) /\ UNCHANGED faltered
         ELSE Finished(c) /\ faltered' = TRUE

\* currentRemotePath is set to d, and loadFiles asks for it.
LoadFiles(c, d) ==
    /\ path' = d
    /\ IF conn = "online"
         THEN Await(c, "list", d) /\ UNCHANGED faltered
         ELSE Finished(c) /\ faltered' = TRUE

\* Faulty variant: a directory is opened as well.
OpenRemoteEntry(c, e) ==
    /\ conn = "online" /\ Await(c, "read", e)
    /\ hurried' = (hurried \/ Pending({"read"}))

\* openRemoteFile, of an entry that is a file.
OpenRemoteFile(c, e) ==
    /\ conn = "online" /\ e \in File
    /\ Await(c, "read", e)
    /\ hurried' = (hurried \/ Pending({"read"}))

\* saveRemoteFile: what selectedFile names is written.
SaveRemoteFile(c) ==
    /\ editor # NoPlace /\ selected # NoPlace
    /\ Await(c, "write", selected)
    /\ mark' = NoPlace
    /\ UNCHANGED <<path, label, rows, selected, editor, faltered, hurried>>

\* createRemoteFolder, createRemoteFile
Create(c) == Await(c, "change", path)

\* renameRemoteFile, deleteRemoteFile; like the other two they do not look at
\* the connection.
ChangeEntry(c) == Await(c, "change", selected)

\* uploadFile and downloadFile: a dialog comes first.
UploadFile(c) == conn = "online" /\ AwaitOutside(c, "choose", NoPlace)
DownloadFile(c) == AwaitOutside(c, "choose", selected)

-----------------------------------------------------------------------------
(* The user *)

\* Opening the page, and its buttons.
UsePage(c) ==
    /\ \/ LoadFiles(c, path)                   \* showPage, refresh
       \/ path # Home /\ LoadFiles(c, Home)    \* up
       \/ (Create(c) \/ UploadFile(c)) /\ UNCHANGED <<path, faltered>>
    /\ UNCHANGED <<selected, hurried>>

\* A double click on a row.
UseRow(c) ==
    /\ \E e \in Entries(rows) :
         \/ e \in Folder /\ LoadFiles(c, e) /\ UNCHANGED hurried
         \/ OpenRemoteFile(c, e) /\ UNCHANGED <<path, faltered>>
    /\ UNCHANGED selected

\* The click handler of the context menu.
UseMenu(c) ==
    /\ menu # NoPlace
    /\ \/ selected \in Folder /\ LoadFiles(c, selected) /\ UNCHANGED hurried
       \/ OpenRemoteFile(c, selected) /\ UNCHANGED <<path, faltered>>
       \/ (ChangeEntry(c) \/ DownloadFile(c)) /\ UNCHANGED <<path, faltered, hurried>>
    /\ UNCHANGED selected

\* showFileContextMenu
ShowFileContextMenu ==
    /\ selected' \in Entries(rows) /\ menu' = selected'
    /\ UNCHANGED <<path, label, rows, editor, mark, faltered, hurried, call, wire>>

\* Faulty variant: the click does not reach the handler that hides the menu.
CloseEditorOnly ==
    /\ editor' = NoPlace
    /\ UNCHANGED <<path, label, rows, selected, menu, mark, faltered, hurried, call, wire>>

\* Any click hides the menu.  The open editor covers the page and the menu, and
\* is closed by a click of its own.
CloseEditor ==
    /\ editor' = NoPlace /\ menu' = NoPlace
    /\ UNCHANGED <<path, label, rows, selected, mark, faltered, hurried, call, wire>>

ClickFiles ==
    \/ /\ editor = NoPlace
       /\ \E c \in Call : call[c] = Idle /\ (UsePage(c) \/ UseRow(c) \/ UseMenu(c))
       /\ menu' = NoPlace /\ UNCHANGED <<label, rows, editor, mark>>
    \/ editor = NoPlace /\ ShowFileContextMenu
    \/ /\ \E c \in Call : call[c] = Idle /\ SaveRemoteFile(c)
       /\ menu' = NoPlace
    \/ editor # NoPlace /\ CloseEditor

UseFiles ==
    /\ tour = "files" /\ UNCHANGED link /\ ClickFiles
    /\ UNCHANGED <<look, crossed>>
    /\ Step

-----------------------------------------------------------------------------
(* The calls go on *)

AfterList(c, ok) ==
    /\ Finished(c)
    /\ IF ok THEN rows' = call[c].place /\ label' = path ELSE UNCHANGED <<rows, label>>
    /\ faltered' = (faltered \/ ~ok)
    /\ UNCHANGED <<path, selected, editor, mark>>

\* Faulty variant: the status line is left as it is.
AfterReadUnmarked(c, ok) ==
    /\ Finished(c)
    /\ IF ok
         THEN editor' = call[c].place /\ selected' = call[c].place
         ELSE UNCHANGED <<editor, selected>>
    /\ UNCHANGED <<path, label, rows, mark, faltered>>

AfterRead(c, ok) ==
    /\ Finished(c)
    /\ IF ok
         THEN editor' = call[c].place /\ selected' = call[c].place /\ mark' = NoPlace
         ELSE UNCHANGED <<editor, selected, mark>>
    /\ UNCHANGED <<path, label, rows, faltered>>

\* The directory is loaded again after a change that succeeded.
Reload(c, ok) ==
    /\ IF ok THEN LoadFiles(c, path) ELSE Finished(c) /\ UNCHANGED <<path, faltered>>
    /\ UNCHANGED <<label, rows, selected, editor>>

AfterWrite(c, ok) == mark' = call[c].place /\ Reload(c, ok)
AfterChange(c, ok) == UNCHANGED mark /\ Reload(c, ok)

\* An upload goes to the directory that is current when the dialog ends.
AfterChoose(c, chosen) ==
    /\ \/ ~chosen /\ Finished(c)
       \/ chosen /\ call[c].place = NoPlace /\ Await(c, "change", path)
       \/ chosen /\ call[c].place # NoPlace /\ Await(c, "download", call[c].place)
    /\ UNCHANGED <<path, label, rows, selected, editor, mark, faltered>>

AfterDownload(c) ==
    Finished(c) /\ UNCHANGED <<path, label, rows, selected, editor, mark, faltered>>

ResumeFiles(c, ok) ==
    LET step == call[c].step IN
      \/ step = "list" /\ AfterList(c, ok)
      \/ step = "read" /\ AfterRead(c, ok)
      \/ step = "write" /\ AfterWrite(c, ok)
      \/ step = "change" /\ AfterChange(c, ok)
      \/ step = "download" /\ AfterDownload(c)

DeliverFiles ==
    /\ UNCHANGED <<link, look, menu, hurried, crossed, steps>>
    /\ \/ \E c \in Call, ok \in BOOLEAN :
            wire # <<>> /\ c = Head(wire) /\ ResumeFiles(c, ok)
       \/ \E c \in Call, chosen \in BOOLEAN :
            call[c].step = "choose" /\ AfterChoose(c, chosen)
    /\ Remember

\* The editor covers the other buttons too.
ClickElsewhere ==
    /\ editor = NoPlace /\ menu' = NoPlace /\ Click
    /\ UNCHANGED <<path, label, rows, selected, editor, mark, faltered, hurried>>

Untouched(A) == A /\ UNCHANGED files

FilesNext ==
    \/ Untouched(Deliver) \/ Untouched(Elsewhere)
    \/ Untouched(Authentication) \/ Untouched(Loss)
    \/ ClickElsewhere \/ UseFiles \/ DeliverFiles

FilesSpec == FilesInit /\ [][FilesNext]_fvars

\* What a call awaits ends: native commands and the waits of the power button
\* have time limits, a dialog is modal, and the ssh client behind Command.execute
\* gives a connection up by its own options (ConnectTimeout, ServerAliveInterval,
\* main.ts 735-737).  The last is an assumption about the remote command as well:
\* one that never ends over a healthy connection is waited for.
FairFilesSpec ==
    /\ FilesSpec
    /\ WF_fvars(Untouched(Deliver)) /\ WF_fvars(Untouched(Elsewhere))
    /\ WF_fvars(DeliverFiles)

-----------------------------------------------------------------------------
(* Properties *)

\* What is listed is the directory that the buttons act in, under its name, once
\* no listing is pending: currentRemotePath is set before a directory is asked
\* for (1321, 2624, 2639), rows and label are set when it arrives (1355), and several
\* listings may be under way.  Unless a listing failed or was refused while
\* offline: the path has moved then, the list has not.
ListingIsOfItsPath ==
    ~Pending({"list"}) /\ ~faltered /\ rows # NoPlace => rows = path /\ label = path

\* The file that is saved, renamed or deleted is the one in view: selectedFile,
\* one variable for the editor and the context menu (1374, 1382), names the file
\* in the editor while that is open, else the entry the open menu was opened
\* over, though a file that was asked for arrives at any time.
SelectedIsInView ==
    /\ editor # NoPlace => selected = editor
    /\ editor = NoPlace /\ menu # NoPlace => selected = menu

\* The editor never reports the save of another file as its own (1463, 1466),
\* unless a file was opened while another was being opened.
MarkIsOfTheFileShown == editor # NoPlace /\ mark # NoPlace /\ ~hurried => mark = editor

=============================================================================
