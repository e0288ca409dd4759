-------------------------------- MODULE Files --------------------------------
(***************************************************************************)
(* Media and the files of purchases: the row in the database and, for a     *)
(* row with storage metadata, the object in the bucket.  Rows with storage   *)
(* metadata are there from the start: nothing in the repository writes       *)
(* them yet, deleting them is what the services do know.                     *)
(***************************************************************************)
EXTENDS Desk

CONSTANTS
    Media, PurchaseFiles,
    StartFiles,     \* the rows there are at first: [where, url]
    Gone            \* a row that was deleted

AllFiles == Media \cup PurchaseFiles
FileRow == [where : {"row", "bucket", "elsewhere", "unknown"}, url : BOOLEAN]

ASSUME FilesAssumption ==
    /\ Media \cap PurchaseFiles = {}
    /\ Void # Gone /\ \A v \in {Void, Gone} : v \notin FileRow
    /\ DOMAIN StartFiles \subseteq AllFiles /\ \A f \in DOMAIN StartFiles : StartFiles[f] \in FileRow

VARIABLES
    file,           \* by id: [where, url], Void before it is inserted, Gone after
    objects,        \* the files whose object is in the bucket
    bucket          \* whether object storage is configured

vault == <<file, objects, bucket>>
IsRow(f) == file[f] # Void /\ file[f] # Gone

FilesInit ==
    /\ file = [f \in AllFiles |-> IF f \in DOMAIN StartFiles THEN StartFiles[f] ELSE Void]
    /\ objects = {f \in DOMAIN StartFiles : StartFiles[f].where = "bucket"}
    /\ bucket = TRUE

\* The schema lets through base64 of an allowed type and size, a url, both or
\* neither.  Nothing calls the deletion of a purchase file yet.
MediaBodies == [inline : BOOLEAN, url : BOOLEAN]

FileRequests(s) ==
    \/ \E new \in MediaBodies :
          Begin(s, [op |-> "media.create", id |-> Void, inline |-> new.inline, url |-> new.url, pc |-> "insert"])
    \/ \E f \in AllFiles : IsRow(f) /\ Begin(s, [op |-> "file.delete", id |-> f, pc |-> "find"])

InsertMedia(s) ==
    /\ At(s, "media.create", "insert")
    /\ \E f \in Media :
          /\ file[f] = Void
          /\ file' = [file EXCEPT ![f] = [where |-> IF call[s].inline THEN "row" ELSE "elsewhere",
                                          url |-> call[s].url]]
          /\ IF call[s].inline /\ ~call[s].url
             THEN Await(s, [call[s] EXCEPT !.pc = "serve", !.id = f])
             ELSE Answer(s)
    /\ UNCHANGED <<objects, bucket>>

\* The serving url needs the id, so it comes with a second call.
ServeMedia(s) ==
    /\ At(s, "media.create", "serve")
    /\ file' = [file EXCEPT ![call[s].id] = IF IsRow(call[s].id) THEN [@ EXCEPT !.url = TRUE] ELSE @]
    /\ Answer(s)
    /\ UNCHANGED <<objects, bucket>>

\* Bug: the row first, its object after.
RowFirst(where) == IF where = "bucket" THEN "row then object" ELSE "row"

\* The object first, and no row is deleted whose metadata is incomplete or
\* names a provider the code does not know.
AfterFind(where) == IF where = "bucket" THEN "object" ELSE "row"

FindFile(s) ==
    /\ At(s, "file.delete", "find")
    /\ IF IsRow(call[s].id) /\ file[call[s].id].where # "unknown"
       THEN Await(s, [call[s] EXCEPT !.pc = AfterFind(file[call[s].id].where)])
       ELSE Answer(s)
    /\ UNCHANGED vault

\* deleteObject takes an object that is gone for deleted.
DeleteObject(s) ==
    /\ At(s, "file.delete", "object")
    /\ IF bucket
       THEN objects' = objects \ {call[s].id} /\ Await(s, [call[s] EXCEPT !.pc = "row"])
       ELSE Answer(s) /\ UNCHANGED objects
    /\ UNCHANGED <<file, bucket>>

DeleteRow(s) ==
    /\ At(s, "file.delete", "row") \/ At(s, "file.delete", "row then object")
    /\ file' = [file EXCEPT ![call[s].id] = Gone]
    /\ IF call[s].pc = "row" THEN Answer(s) ELSE Await(s, [call[s] EXCEPT !.pc = "object"])
    /\ UNCHANGED <<objects, bucket>>

\* Somebody configures the bucket, or takes the configuration away.
Configure == bucket' = ~bucket /\ UNCHANGED <<file, objects>> /\ UNCHANGED desk

FileStep(s) == InsertMedia(s) \/ ServeMedia(s) \/ FindFile(s) \/ DeleteObject(s) \/ DeleteRow(s)

\* No object outlives its row: whatever fails between the two deletions, and
\* whoever repeats them, the row that names the object is still there.
ObjectsHaveRows == \A f \in objects : IsRow(f)

=============================================================================
