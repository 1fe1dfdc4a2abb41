----------------------------- MODULE TenantLogo -----------------------------
(***************************************************************************)
(* The logo of a tenant: a file on disk, named after the tenant with the    *)
(* extension it was uploaded with, and the column logo_url of its row that  *)
(* names the file (FileUploadService in app/services/file_upload.py; upload *)
(* and deletion in app/api/v1/endpoints/tenants.py).                        *)
(*                                                                         *)
(* No transaction spans the two, and nothing locks either: requests run     *)
(* side by side in threads and worker processes, a disk or the database may *)
(* refuse a step, and a worker may die between any two.  A file is opened   *)
(* by path and written in chunks, two here: unlinking a path leaves whoever *)
(* has it open writing into a file nobody finds, and opening a path a       *)
(* second time truncates the file the first is still writing.               *)
(***************************************************************************)
EXTENDS Naturals, FiniteSets

CONSTANTS Requests,    \* slots for requests that run at the same time
          Extensions,  \* ALLOWED_EXTENSIONS
          None         \* no file, no logo

\* A file holds the writer of each of its chunks.
Chunks == {1, 2}
File == [Chunks -> Requests \cup {None}]

ASSUME NoneIsNothing == None \notin Requests \cup Extensions \cup File

VARIABLES
    row,       \* logo_url: the extension it names, or None
    files,     \* per extension: the writer of each chunk of the file, or None
    pc, kind,  \* per request: step, endpoint
    ext,       \* the extension of the file uploaded
    loaded,    \* logo_url in the tenant object of the session
    todo, at,  \* the extensions delete_logo has yet to look at; the one found
    linked,    \* whether the file it is writing is still at its path
    alone,     \* history: no other request has run during this one
    mess,      \* history: a request broke off or ran beside another, and no
               \* undisturbed one has succeeded since
    spoilt     \* history: extensions whose file was opened while another was
               \* writing it, or left by a writer that broke off

requestVars == <<pc, kind, ext, loaded, todo, at, linked, alone>>
vars == <<row, files, requestVars, mess, spoilt>>

Empty == [c \in Chunks |-> None]
Whole(f) == \E r \in Requests : \A c \in Chunks : f[c] = r
Steps == {"idle", "validating", "looking", "unlinking", "first", "second", "committing"}

Goto(r, step) == pc' = [pc EXCEPT ![r] = step]

\* The request of r is over.  What was written so far stays.
Leave(r) == /\ Goto(r, "idle")
            /\ kind' = [kind EXCEPT ![r] = "none"]
            /\ ext' = [ext EXCEPT ![r] = None]
            /\ loaded' = [loaded EXCEPT ![r] = None]
            /\ todo' = [todo EXCEPT ![r] = {}]
            /\ linked' = [linked EXCEPT ![r] = FALSE]
            /\ alone' = [alone EXCEPT ![r] = FALSE]
            /\ at' = [at EXCEPT ![r] = None]

\* It breaks off, after it may have changed something.
BreakOff(r) == /\ Leave(r)
               /\ mess' = TRUE
               /\ spoilt' = IF linked[r] THEN spoilt \cup {ext[r]} ELSE spoilt
               /\ UNCHANGED <<row, files>>

-----------------------------------------------------------------------------

(***************************************************************************)
(* Slips a maintainer could make, each named after the definition it would  *)
(* replace.                                                                 *)
(***************************************************************************)

\* Only the file the row names is looked for.
EnterUnlisted(r, step, what, e) ==
    /\ pc[r] = "idle"
    /\ Goto(r, step)
    /\ kind' = [kind EXCEPT ![r] = what]
    /\ ext' = [ext EXCEPT ![r] = e]
    /\ loaded' = [loaded EXCEPT ![r] = row]
    /\ todo' = [todo EXCEPT ![r] = {row}]
    /\ alone' = [s \in Requests |-> s = r /\ \A q \in Requests : pc[q] = "idle"]
    /\ UNCHANGED <<row, files, at, linked, mess, spoilt>>

\* The old logo is deleted before the new one is validated (nobody else is
\* writing it here).
RejectLate(r) == /\ pc[r] = "validating" /\ \A s \in Requests : ~linked[s]
                 /\ files' = [e \in Extensions |-> None]
                 /\ Leave(r)
                 /\ UNCHANGED <<row, mess, spoilt>>

\* validate_file has read the upload to its end and does not go back.
WriteNothing(r, chunk) == files' = files

-----------------------------------------------------------------------------

\* A request loads the tenant, beside those that run already.
Enter(r, step, what, e) ==
    /\ pc[r] = "idle"
    /\ Goto(r, step)
    /\ kind' = [kind EXCEPT ![r] = what]
    /\ ext' = [ext EXCEPT ![r] = e]
    /\ loaded' = [loaded EXCEPT ![r] = row]
    /\ todo' = [todo EXCEPT ![r] = Extensions]
    /\ alone' = [s \in Requests |-> s = r /\ \A q \in Requests : pc[q] = "idle"]
    /\ UNCHANGED <<row, files, at, linked, mess, spoilt>>

-----------------------------------------------------------------------------

Init == /\ row = None
        /\ files = [e \in Extensions |-> None]
        /\ pc = [r \in Requests |-> "idle"]
        /\ kind = [r \in Requests |-> "none"]
        /\ ext = [r \in Requests |-> None]
        /\ loaded = [r \in Requests |-> None]
        /\ todo = [r \in Requests |-> {}]
        /\ at = [r \in Requests |-> None]
        /\ linked = [r \in Requests |-> FALSE]
        /\ alone = [r \in Requests |-> FALSE]
        /\ mess = FALSE
        /\ spoilt = {}

\* upload_tenant_logo, up to the validation of the file.
BeginUpload(r) == \E e \in Extensions : Enter(r, "validating", "upload", e)

\* delete_tenant_logo; a tenant without a logo is answered as it is.
BeginDelete(r) == row # None /\ Enter(r, "looking", "delete", None)

\* validate_file raises, or the tenant is not the caller's.
Reject(r) == /\ pc[r] = "validating"
             /\ Leave(r)
             /\ UNCHANGED <<row, files, mess, spoilt>>

Accept(r) == /\ pc[r] = "validating"
             /\ Goto(r, "looking")
             /\ UNCHANGED <<row, files, kind, ext, loaded, todo, at, linked, alone,
                            mess, spoilt>>

\* delete_logo: exists() of one extension after the other, here in any order.
Look(r) == \E e \in todo[r] :
    /\ pc[r] = "looking"
    /\ IF files[e] = None
       THEN todo' = [todo EXCEPT ![r] = @ \ {e}] /\ UNCHANGED <<pc, at>>
       ELSE Goto(r, "unlinking") /\ at' = [at EXCEPT ![r] = e] /\ UNCHANGED todo
    /\ UNCHANGED <<row, files, kind, ext, loaded, linked, alone, mess, spoilt>>

\* unlink() of the file found.
Unlink(r) ==
    /\ pc[r] = "unlinking" /\ files[at[r]] # None
    /\ files' = [files EXCEPT ![at[r]] = None]
    /\ linked' = [s \in Requests |-> linked[s] /\ ext[s] # at[r]]
    /\ spoilt' = spoilt \ {at[r]}
    /\ todo' = [todo EXCEPT ![r] = @ \ {at[r]}]
    /\ at' = [at EXCEPT ![r] = None]
    /\ Goto(r, "looking")
    /\ UNCHANGED <<row, kind, ext, loaded, alone, mess>>

\* Another request has unlinked it meanwhile: FileNotFoundError, 400 for an
\* upload and 500 for a deletion.
UnlinkFails(r) == /\ pc[r] = "unlinking" /\ files[at[r]] = None
                  /\ BreakOff(r)

\* open(file_path, "wb"): an empty file, the one at the path if there is one.
Open(r) ==
    /\ pc[r] = "looking" /\ todo[r] = {} /\ kind[r] = "upload"
    /\ files' = [files EXCEPT ![ext[r]] = Empty]
    /\ spoilt' = IF \E s \in Requests : linked[s] /\ ext[s] = ext[r]
                 THEN spoilt \cup {ext[r]} ELSE spoilt
    /\ linked' = [linked EXCEPT ![r] = TRUE]
    /\ Goto(r, "first")
    /\ UNCHANGED <<row, kind, ext, loaded, todo, at, alone, mess>>

\* copyfileobj writes the next chunk; closing the file ends the link.
Write(r, chunk) ==
    files' = IF linked[r] THEN [files EXCEPT ![ext[r]][chunk] = r] ELSE files
CopyFirst(r) == /\ pc[r] = "first"
                /\ Write(r, 1)
                /\ Goto(r, "second")
                /\ UNCHANGED <<row, kind, ext, loaded, todo, at, linked, alone,
                               mess, spoilt>>
CopySecond(r) == /\ pc[r] = "second"
                 /\ Write(r, 2)
                 /\ linked' = [linked EXCEPT ![r] = FALSE]
                 /\ Goto(r, "committing")
                 /\ UNCHANGED <<row, kind, ext, loaded, todo, at, alone, mess, spoilt>>

\* The disk refuses (400), or the database refuses the commit (500).
DiskFails(r) == pc[r] \in {"looking", "unlinking", "first", "second"} /\ BreakOff(r)
CommitFails(r) == /\ \/ pc[r] = "committing"
                     \/ pc[r] = "looking" /\ todo[r] = {} /\ kind[r] = "delete"
                  /\ BreakOff(r)

\* The session writes logo_url when it differs from the one loaded.
Named(r, url) == IF url = loaded[r] THEN row ELSE url
CommitLogo(r) == /\ pc[r] = "committing"
                 /\ row' = Named(r, ext[r])
                 /\ mess' = ~alone[r]
                 /\ Leave(r)
                 /\ UNCHANGED <<files, spoilt>>
CommitDelete(r) == /\ pc[r] = "looking" /\ todo[r] = {} /\ kind[r] = "delete"
                   /\ row' = Named(r, None)
                   /\ mess' = ~alone[r]
                   /\ Leave(r)
                   /\ UNCHANGED <<files, spoilt>>

\* The worker dies; the operating system closes its files.
Crash(r) == pc[r] \notin {"idle", "validating"} /\ BreakOff(r)

Handle(r) == \/ BeginUpload(r) \/ BeginDelete(r) \/ Reject(r) \/ Accept(r)
             \/ Look(r) \/ Unlink(r) \/ UnlinkFails(r)
             \/ Open(r) \/ CopyFirst(r) \/ CopySecond(r)
             \/ CommitLogo(r) \/ CommitDelete(r)
             \/ DiskFails(r) \/ CommitFails(r) \/ Crash(r)
Next == \E r \in Requests : Handle(r)
Spec == Init /\ [][Next]_vars

-----------------------------------------------------------------------------

\* Type invariant.  The names the row, the files and the requests use are
\* extensions the service allows; a request writes a file only while it copies.
TypeOK ==
    /\ row \in Extensions \cup {None}
    /\ files \in [Extensions -> File \cup {None}]
    /\ pc \in [Requests -> Steps]
    /\ kind \in [Requests -> {"none", "upload", "delete"}]
    /\ ext \in [Requests -> Extensions \cup {None}]
    /\ loaded \in [Requests -> Extensions \cup {None}]
    /\ todo \in [Requests -> SUBSET Extensions]
    /\ at \in [Requests -> Extensions \cup {None}]
    /\ linked \in [Requests -> BOOLEAN]
    /\ alone \in [Requests -> BOOLEAN]
    /\ mess \in BOOLEAN
    /\ spoilt \subseteq Extensions

Tidy == /\ \A e \in Extensions : files[e] # None <=> row = e
        /\ row # None => Whole(files[row])

\* Whenever no request runs, the row names the one file there is, and that
\* file is whole, unless a request broke off or overlapped another since one
\* had the logo for itself: upload_tenant_logo and delete_tenant_logo clear up
\* whatever was left by the ones before.
MessHasCause == (\A r \in Requests : pc[r] = "idle") => mess \/ Tidy

\* However requests overlap, a file with chunks missing or of two uploads is
\* still being written, or was opened while another was writing it, or its
\* writer broke off: opening with "wb" truncates, which keeps an upload from
\* mixing with what an earlier one has left.
TornHasCause == \A e \in Extensions :
    files[e] # None /\ ~Whole(files[e])
        => e \in spoilt \/ \E r \in Requests : linked[r] /\ ext[r] = e
=============================================================================
